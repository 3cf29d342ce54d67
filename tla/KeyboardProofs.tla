---------------------------- MODULE KeyboardProofs ----------------------------
(***************************************************************************)
(* Proofs about the keyboard. The decoder, for every set of keys: whatever *)
(* is typed, in whatever order keys are pressed, repeated and released, it *)
(* comes to rest after each key and leaves no key stuck. The ring buffer,  *)
(* for any capacity: it is a queue that forgets its oldest code when it is *)
(* full. Handler and readers on the scheduler, for any number of tasks.    *)
(***************************************************************************)
EXTENDS Keyboard, TaskProofs, SequenceTheorems

-----------------------------------------------------------------------------
(* What keys send *)

\* The byte that ends what a key sends.
LastByte(k, release) == IF release THEN ScanOf(k) + 128 ELSE ScanOf(k)

LEMMA PlainBytes ==
    ASSUME NEW c \in Plain
    PROVE  /\ c \in Nat /\ c \in Mapped /\ c # \hE0 /\ c # \hE1
           /\ c % 128 = c /\ c < 128
           /\ c + 128 \in Nat /\ c + 128 # \hE0 /\ c + 128 # \hE1
           /\ (c + 128) % 128 = c /\ ~(c + 128 < 128)
           /\ c < \hE000
BY DEF Plain, Mapped

LEMMA Keys ==
    ASSUME NEW k \in Key, k # Pause
    PROVE  /\ k \in Nat /\ ScanOf(k) \in Plain
           /\ k >= \hE000 => ScanOf(k) = k - \hE000
           /\ ~(k >= \hE000) => ScanOf(k) = k
<1>1. CASE k \in Plain
  BY <1>1, PlainBytes DEF ScanOf
<1>2. CASE \E c \in Plain : k = \hE000 + c
  BY <1>2, PlainBytes DEF ScanOf
<1> QED
  BY <1>1, <1>2, KeyAssumption
LEMMA Sending ==
    ASSUME NEW k \in Key, k # Pause
    PROVE  /\ \/ Sent(k, FALSE) = << \hE0, LastByte(k, FALSE) >>
              \/ Sent(k, FALSE) = << LastByte(k, FALSE) >>
           /\ \/ Sent(k, TRUE) = << \hE0, LastByte(k, TRUE) >>
              \/ Sent(k, TRUE) = << LastByte(k, TRUE) >>
<1>1. ScanOf(k) \in Nat /\ ScanOf(k) + 0 = ScanOf(k)
  BY Keys, PlainBytes
<1> QED
  BY <1>1 DEF Sent, LastByte

-----------------------------------------------------------------------------
(* What the decoder makes of it *)

LEMMA Switched ==
    ASSUME NEW d \in DecoderState,
           NEW x \in BOOLEAN, NEW y \in BOOLEAN, NEW z \in BOOLEAN
    PROVE  [d EXCEPT !.shift = x, !.caps = y, !.num = z] \in DecoderState
BY Zenon DEF DecoderState

\* The byte of a key clears the prefix and stores one code; only the byte of a
\* shift key changes shift.
LEMMA HandleKey ==
    ASSUME NEW d \in DecoderState, d.inTable, d.pause = 0,
           NEW c \in Mapped, NEW byte \in Nat, byte # \hE0, byte % 128 = c
    PROVE  LET r == KeyHandler(d, byte)
           IN  /\ r.dec \in DecoderState
               /\ r.dec.inTable /\ r.dec.pause = 0 /\ ~r.dec.E0
               /\ c \in Shifts => (r.dec.shift <=> byte < 128)
               /\ c \notin Shifts => (r.dec.shift <=> d.shift)
               /\ r.out = << r.out[1] >>
               /\ r.out[1].scan = c /\ (r.out[1].press <=> byte < 128)
<1> DEFINE sc == byte % 128
           low == byte < 128
           shift == IF sc \in Shifts THEN low ELSE d.shift
           caps == IF sc = CapsLock /\ low THEN ~d.caps ELSE d.caps
           num == IF sc = NumLock /\ low THEN ~d.num ELSE d.num
           now == [d EXCEPT !.shift = shift, !.caps = caps, !.num = num]
           rest == [now EXCEPT !.E0 = FALSE]
           code == MakeCode(now, sc, low)
<1>1. KeyHandler(d, byte) = Decoded(rest, << code >>)
  BY DEF KeyHandler
<1>2. shift \in BOOLEAN /\ caps \in BOOLEAN /\ num \in BOOLEAN
  <2>1. d.shift \in BOOLEAN /\ d.caps \in BOOLEAN /\ d.num \in BOOLEAN
    BY DEF DecoderState
  <2>2. low \in BOOLEAN /\ (~d.caps) \in BOOLEAN /\ (~d.num) \in BOOLEAN
    BY <2>1
  <2> HIDE DEF low
  <2>3. shift \in BOOLEAN
    BY <2>1, <2>2
  <2>4. caps \in BOOLEAN
    BY <2>1, <2>2
  <2>5. num \in BOOLEAN
    BY <2>1, <2>2
  <2> QED
    BY <2>3, <2>4, <2>5
<1>3. code.scan = sc /\ (code.press <=> low)
  BY DEF MakeCode
<1>4. KeyHandler(d, byte).dec = rest /\ KeyHandler(d, byte).out = << code >>
  BY <1>1 DEF Decoded
<1>5. /\ c \in Shifts => (shift <=> byte < 128)
      /\ c \notin Shifts => (shift <=> d.shift)
  OBVIOUS
<1>6. code.scan = c /\ (code.press <=> byte < 128)
  BY <1>3
<1> HIDE DEF sc, low, shift, caps, num, code
<1>7. now \in DecoderState
  BY <1>2, Switched
<1>8. /\ now.inTable <=> d.inTable
      /\ now.shift <=> shift
      /\ now.pause = d.pause
  BY <1>2 DEF DecoderState
<1> HIDE DEF now
<1>9. rest \in DecoderState /\ ~rest.E0
  BY <1>7 DEF DecoderState
<1>10. /\ rest.inTable <=> now.inTable
       /\ rest.shift <=> now.shift
       /\ rest.pause = now.pause
  BY <1>7 DEF DecoderState
<1>11. << code >>[1] = code
  OBVIOUS
<1> HIDE DEF rest
<1> QED
  BY <1>4, <1>5, <1>6, <1>8, <1>9, <1>10, <1>11

LEMMA HandlePress ==
    ASSUME NEW d \in DecoderState, d.inTable, d.pause = 0,
           NEW c \in Plain \union {\h5E}
    PROVE  LET r == KeyHandler(d, c)
           IN  /\ r.dec \in DecoderState
               /\ r.dec.inTable /\ r.dec.pause = 0 /\ ~r.dec.E0
               /\ c \in Shifts \/ (r.dec.shift <=> d.shift)
               /\ r.out = << r.out[1] >> /\ r.out[1].scan = c /\ r.out[1].press
<1>1. c \in Mapped /\ c \in Nat /\ c # \hE0 /\ c % 128 = c /\ c < 128
  BY DEF Plain, Mapped
<1> QED
  BY <1>1, HandleKey

LEMMA HandleRelease ==
    ASSUME NEW d \in DecoderState, d.inTable, d.pause = 0,
           NEW c \in Plain \union {\h5E}
    PROVE  LET r == KeyHandler(d, c + 128)
           IN  /\ r.dec \in DecoderState
               /\ r.dec.inTable /\ r.dec.pause = 0 /\ ~r.dec.E0
               /\ c \in Shifts => ~r.dec.shift
               /\ c \notin Shifts => (r.dec.shift <=> d.shift)
               /\ r.out = << r.out[1] >> /\ r.out[1].scan = c /\ ~r.out[1].press
<1> DEFINE byte == c + 128
<1>1. /\ c \in Mapped /\ byte \in Nat /\ byte # \hE0
      /\ byte % 128 = c /\ ~(byte < 128)
  BY DEF Plain, Mapped
<1> HIDE DEF byte
<1>3. LET r == KeyHandler(d, byte)
      IN  /\ r.dec \in DecoderState
          /\ r.dec.inTable /\ r.dec.pause = 0 /\ ~r.dec.E0
          /\ c \in Shifts => ~r.dec.shift
          /\ c \notin Shifts => (r.dec.shift <=> d.shift)
          /\ r.out = << r.out[1] >> /\ r.out[1].scan = c /\ ~r.out[1].press
  BY <1>1, HandleKey
<1> QED
  BY <1>3 DEF byte

LEMMA PutPrefix ==
    ASSUME NEW d \in DecoderState, d.pause = 0
    PROVE  LET r == PutScanCode(d, \hE0)
           IN  /\ r.dec \in DecoderState /\ r.out = << >>
               /\ (r.dec.inTable <=> d.inTable) /\ r.dec.pause = 0 /\ r.dec.E0
               /\ (r.dec.shift <=> d.shift)
<1>1. ~InPause(d, \hE0)
  BY DEF InPause
<1>2. PutScanCode(d, \hE0) = Decoded([[d EXCEPT !.pause = 0] EXCEPT !.E0 = TRUE], << >>)
  BY <1>1 DEF PutScanCode, KeyHandler
<1> DEFINE e == [d EXCEPT !.E0 = TRUE]
<1>3. PutScanCode(d, \hE0) = Decoded(e, << >>)
  BY <1>2 DEF DecoderState
<1>4. e \in DecoderState
  BY DEF DecoderState
<1>5. (e.inTable <=> d.inTable) /\ (e.shift <=> d.shift)
  BY DEF DecoderState
<1>6. e.pause = 0 /\ e.E0
  BY DEF DecoderState
<1>7. Decoded(e, << >>).dec = e /\ Decoded(e, << >>).out = << >>
  BY DEF Decoded
<1> HIDE DEF e
<1> QED
  BY <1>3, <1>4, <1>5, <1>6, <1>7

\* Outside of Pause the byte of a key goes to KeyHandler.
LEMMA PutKey ==
    ASSUME NEW d \in DecoderState, d.pause = 0, NEW byte, byte # \hE1
    PROVE  PutScanCode(d, byte) = KeyHandler(d, byte)
<1>1. ~InPause(d, byte)
  BY DEF InPause
<1>2. [d EXCEPT !.pause = 0] = d
  BY DEF DecoderState
<1> QED
  BY <1>1, <1>2 DEF PutScanCode

LEMMA PutPause ==
    ASSUME NEW d \in DecoderState, d.inTable, NEW i \in 0 .. 5, d.pause = i
    PROVE  LET r == PutScanCode(d, PauseCode[i + 1])
           IN  /\ r.dec \in DecoderState /\ r.dec.inTable
               /\ (r.dec.shift <=> d.shift)
               /\ i < 5 => /\ r.dec.pause = i + 1 /\ (r.dec.E0 <=> d.E0)
                           /\ r.out = << >>
               /\ i = 5 => /\ r.dec.pause = 0 /\ ~r.dec.E0
                           /\ r.out = << r.out[1], r.out[2] >>
                           /\ r.out[1].scan = \h5E /\ r.out[1].press
                           /\ r.out[2].scan = \h5E /\ ~r.out[2].press
<1> DEFINE r == PutScanCode(d, PauseCode[i + 1])
<1>1. InPause(d, PauseCode[i + 1]) /\ Len(PauseCode) = 6
  BY DEF InPause, PauseCode
<1>2. CASE i < 5
  <2>1. r = Decoded([d EXCEPT !.pause = @ + 1], << >>)
    BY <1>1, <1>2 DEF PutScanCode
  <2> QED
    BY <1>1, <1>2, <2>1 DEF Decoded, DecoderState
<1>3. CASE i = 5
  <2> DEFINE e == [d EXCEPT !.pause = 0]
             press == KeyHandler(e, \h5E)
             release == KeyHandler(press.dec, \hDE)
  <2>1. r = Decoded(release.dec, press.out \o release.out)
    BY <1>1, <1>3 DEF PutScanCode
  <2>2. e \in DecoderState /\ e.inTable /\ e.pause = 0 /\ (e.shift <=> d.shift)
    BY <1>1 DEF DecoderState
  <2>3. \h5E \in Plain \union {\h5E} /\ \h5E \notin Shifts /\ \h5E + 128 = \hDE
    BY DEF Shifts
  <2> HIDE DEF e
  <2>4. /\ press.dec \in DecoderState /\ press.dec.inTable /\ press.dec.pause = 0
        /\ (press.dec.shift <=> d.shift)
        /\ press.out = << press.out[1] >> /\ press.out[1].scan = \h5E /\ press.out[1].press
    BY <2>2, <2>3, HandlePress
  <2> HIDE DEF press
  <2>5. /\ release.dec \in DecoderState /\ release.dec.inTable /\ release.dec.pause = 0
        /\ (release.dec.shift <=> d.shift) /\ ~release.dec.E0
        /\ release.out = << release.out[1] >> /\ release.out[1].scan = \h5E /\ ~release.out[1].press
    BY <2>3, <2>4, HandleRelease
  <2> HIDE DEF release
  <2>6. press.out \o release.out = << press.out[1], release.out[1] >>
    <3>1. ASSUME NEW a, NEW b PROVE << a >> \o << b >> = << a, b >>
      <4> DEFINE c == << a >> \o << b >>
                 S == {a, b}
      <4>1. a \in S /\ b \in S
        OBVIOUS
      <4> HIDE DEF S
      <4>2. c \in Seq(S) /\ Len(c) = 2 /\ c[1] = a /\ c[2] = b
        BY <4>1
      <4> HIDE DEF c
      <4>3. c = << a, b >>
        BY <4>1, <4>2
      <4> QED
        BY <4>3 DEF c
    <3> DEFINE a == press.out[1]
               b == release.out[1]
    <3>2. press.out = << a >> /\ release.out = << b >>
      BY <2>4, <2>5
    <3> HIDE DEF a, b
    <3>3. press.out \o release.out = << a, b >>
      BY <3>1, <3>2
    <3> QED
      BY <3>3 DEF a, b
  <2> QED
    BY <1>3, <2>1, <2>4, <2>5, <2>6 DEF Decoded
<1> QED
  BY <1>2, <1>3

-----------------------------------------------------------------------------
(* The invariant of the decoder *)

\* Codes that are down are those of held keys, except for key c, whose byte the
\* device has still to deliver; c = 0 stands for no key.
NoneStuckBut(c) ==
    /\ down \subseteq {ScanOf(k) : k \in held} \union {c}
    /\ dec.shift => c \in Shifts \/ \E k \in held : ScanOf(k) \in Shifts

Resting ==
    /\ line = << >> /\ dec.pause = 0 /\ ~dec.E0
    /\ NoneStuckBut(0)

\* A key is being sent: it is in held already when it was pressed, and no
\* longer when it was released.
OnKey(k, release) ==
    /\ dec.pause = 0
    /\ k \in held <=> ~release
    /\ NoneStuckBut(ScanOf(k))
    /\ \/ line = << \hE0, LastByte(k, release) >> /\ ~dec.E0
       \/ line = << LastByte(k, release) >>

\* i bytes of Pause are delivered.
OnPause(i) ==
    /\ line \in Seq(Nat) /\ Len(line) = 6 - i
    /\ \A j \in 1 .. 6 - i : line[j] = PauseCode[i + j]
    /\ dec.pause = i
    /\ NoneStuckBut(0)

TypingInv ==
    /\ TypingTypeOK /\ Pause \notin held /\ dec.inTable
    /\ \/ Resting
       \/ \E k \in Key \ {Pause}, release \in BOOLEAN : OnKey(k, release)
       \/ \E i \in 0 .. 5 : OnPause(i)

LEMMA OutPressed ==
    ASSUME NEW d
    PROVE  /\ AllPressed(d, << >>) = d
           /\ \A c : AllPressed(d, << c >>) = Pressed(d, c)
           /\ \A b, c : AllPressed(d, << b, c >>) = Pressed(Pressed(d, b), c)
BY DEF AllPressed

\* When a key is begun the decoder rests.
LEMMA BeginsAtRest ==
    ASSUME TypingInv, line = << >>
    PROVE  Resting
<1>1. ASSUME NEW k \in Key \ {Pause}, NEW release \in BOOLEAN, OnKey(k, release)
      PROVE  FALSE
  BY <1>1 DEF OnKey
<1>2. ASSUME NEW i \in 0 .. 5, OnPause(i)
      PROVE  FALSE
  BY <1>2 DEF OnPause
<1> QED
  BY <1>1, <1>2 DEF TypingInv

LEMMA NoneStuckAtRest ==
    ASSUME Resting, down \subseteq Mapped
    PROVE  /\ down \subseteq {ScanOf(k) : k \in held}
           /\ dec.shift => \E k \in held : ScanOf(k) \in Shifts
<1>1. 0 \notin down
  BY DEF Mapped
<1> QED
  BY <1>1 DEF Resting, NoneStuckBut, Shifts

LEMMA PressKeeps ==
    ASSUME TypingInv, NEW k \in Key, Press(k)
    PROVE  TypingInv'
<1>1. Resting
  BY BeginsAtRest DEF Press
<1>2. /\ dec' = dec /\ down' = down /\ line' = Sent(k, FALSE)
      /\ dec \in DecoderState /\ held \subseteq Key /\ down \subseteq Mapped
      /\ Pause \notin held /\ dec.inTable
  BY DEF Press, TypingInv, TypingTypeOK
<1>3. CASE k = Pause
  <2>1. held' = held
    BY <1>3 DEF Press
  <2>2. OnPause(0)'
    <3>1. line' = PauseCode
      BY <1>2, <1>3 DEF Sent
    <3>2. PauseCode \in Seq(Nat) /\ Len(PauseCode) = 6
      BY DEF PauseCode
    <3>3. NoneStuckBut(0)'
      BY <1>1, <1>2, <2>1 DEF Resting, NoneStuckBut
    <3>4. 6 - 0 = 6 /\ \A j \in 1 .. 6 : 0 + j = j
      OBVIOUS
    <3>5. dec'.pause = 0
      BY <1>1, <1>2 DEF Resting
    <3> QED
      BY <3>1, <3>2, <3>3, <3>4, <3>5 DEF OnPause
  <2> QED
    BY <1>2, <2>1, <2>2 DEF TypingInv, TypingTypeOK
<1>4. CASE k # Pause
  <2>1. held' = held \union {k}
    BY <1>4 DEF Press
  <2>2. NoneStuckBut(ScanOf(k))'
    <3>1. /\ down \subseteq {ScanOf(j) : j \in held}
          /\ dec.shift => \E j \in held : ScanOf(j) \in Shifts
      BY <1>1, <1>2, NoneStuckAtRest
    <3> QED
      BY <1>2, <2>1, <3>1 DEF NoneStuckBut
  <2>3. \/ line' = << \hE0, LastByte(k, FALSE) >>
        \/ line' = << LastByte(k, FALSE) >>
    BY <1>2, <1>4, Sending
  <2>4. dec'.pause = 0 /\ ~dec'.E0
    BY <1>1, <1>2 DEF Resting
  <2>5. OnKey(k, FALSE)'
    BY <2>1, <2>2, <2>3, <2>4 DEF OnKey
  <2> QED
    BY <1>2, <1>4, <2>1, <2>5 DEF TypingInv, TypingTypeOK
<1> QED
  BY <1>3, <1>4

LEMMA ReleaseKeeps ==
    ASSUME TypingInv, NEW k \in Key, Release(k)
    PROVE  TypingInv'
<1>1. Resting
  BY BeginsAtRest DEF Release
<1>2. /\ dec' = dec /\ down' = down /\ line' = Sent(k, TRUE)
      /\ held' = held \ {k} /\ k \in held
      /\ dec \in DecoderState /\ held \subseteq Key /\ down \subseteq Mapped
      /\ Pause \notin held /\ dec.inTable
  BY DEF Release, TypingInv, TypingTypeOK
<1>3. k # Pause
  BY <1>2
<1>4. NoneStuckBut(ScanOf(k))'
  <2>1. /\ down \subseteq {ScanOf(j) : j \in held}
        /\ dec.shift => \E j \in held : ScanOf(j) \in Shifts
    BY <1>1, <1>2, NoneStuckAtRest
  <2> QED
    BY <1>2, <2>1 DEF NoneStuckBut
<1>5. \/ line' = << \hE0, LastByte(k, TRUE) >>
      \/ line' = << LastByte(k, TRUE) >>
  BY <1>2, <1>3, Sending
<1>6. dec'.pause = 0 /\ ~dec'.E0
  BY <1>1, <1>2 DEF Resting
<1>7. OnKey(k, TRUE)'
  BY <1>2, <1>4, <1>5, <1>6 DEF OnKey
<1> QED
  BY <1>2, <1>3, <1>7 DEF TypingInv, TypingTypeOK

LEMMA PrefixKeeps ==
    ASSUME TypingInv, NEW k \in Key \ {Pause}, NEW release \in BOOLEAN,
           OnKey(k, release), line = << \hE0, LastByte(k, release) >>, Byte
    PROVE  TypingInv'
<1>1. /\ dec \in DecoderState /\ held \subseteq Key /\ down \subseteq Mapped
      /\ Pause \notin held /\ dec.inTable /\ dec.pause = 0
      /\ held' = held
  BY DEF TypingInv, TypingTypeOK, OnKey, Byte
<1>2. Head(line) = \hE0 /\ Tail(line) = << LastByte(k, release) >>
  OBVIOUS
<1> DEFINE r == PutScanCode(dec, \hE0)
<1>3. dec' = r.dec /\ down' = AllPressed(down, r.out) /\ line' = << LastByte(k, release) >>
  BY <1>2 DEF Byte, Codes
<1>4. /\ r.dec \in DecoderState /\ r.out = << >> /\ r.dec.inTable /\ r.dec.pause = 0
      /\ r.dec.shift <=> dec.shift
  BY <1>1, PutPrefix
<1> HIDE DEF r
<1>5. down' = down
  BY <1>3, <1>4, OutPressed
<1>6. NoneStuckBut(ScanOf(k))'
  <2>1. NoneStuckBut(ScanOf(k))
    BY DEF OnKey
  <2> QED
    BY <1>1, <1>3, <1>4, <1>5, <2>1 DEF NoneStuckBut
<1>7. OnKey(k, release)'
  <2>1. k \in held <=> ~release
    BY DEF OnKey
  <2> QED
    BY <1>1, <1>3, <1>4, <1>6, <2>1 DEF OnKey
<1> QED
  BY <1>1, <1>3, <1>4, <1>5, <1>7 DEF TypingInv, TypingTypeOK

LEMMA KeyKeeps ==
    ASSUME TypingInv, NEW k \in Key \ {Pause}, NEW release \in BOOLEAN,
           OnKey(k, release), line = << LastByte(k, release) >>, Byte
    PROVE  TypingInv'
<1> DEFINE c == ScanOf(k)
           byte == LastByte(k, release)
           r == KeyHandler(dec, byte)
           code == r.out[1]
<1>1. /\ dec \in DecoderState /\ held \subseteq Key /\ down \subseteq Mapped
      /\ Pause \notin held /\ dec.inTable /\ dec.pause = 0
      /\ held' = held /\ (k \in held <=> ~release)
      /\ NoneStuckBut(c)
  BY DEF TypingInv, TypingTypeOK, OnKey, Byte
<1>2. c \in Plain /\ c \in Mapped /\ byte # \hE1
  BY Keys, PlainBytes DEF LastByte
<1>3. Head(line) = byte /\ Tail(line) = << >>
  OBVIOUS
<1>4. dec' = r.dec /\ down' = AllPressed(down, r.out) /\ line' = << >>
  <2>1. PutScanCode(dec, byte) = r
    BY <1>1, <1>2, PutKey
  <2> QED
    BY <1>3, <2>1 DEF Byte, Codes
<1>5. /\ r.dec \in DecoderState /\ r.dec.inTable
      /\ r.dec.pause = 0 /\ ~r.dec.E0
      /\ c \in Shifts /\ release => ~r.dec.shift
      /\ c \notin Shifts => (r.dec.shift <=> dec.shift)
      /\ r.out = << code >> /\ code.scan = c /\ (code.press <=> ~release)
  <2>1. CASE release
    <3>1. byte = c + 128
      BY <2>1 DEF LastByte
    <3> HIDE DEF c, byte
    <3> QED
      BY <1>1, <1>2, <2>1, <3>1, HandleRelease
  <2>2. CASE ~release
    <3>1. byte = c
      BY <2>2 DEF LastByte
    <3> HIDE DEF c, byte
    <3> QED
      BY <1>1, <1>2, <2>2, <3>1, HandlePress
  <2> QED
    BY <2>1, <2>2
<1> HIDE DEF r, byte, code
<1>6. down' = IF ~release THEN down \union {c} ELSE down \ {c}
  <2>1. down' = Pressed(down, code)
    BY <1>4, <1>5, OutPressed
  <2> QED
    BY <1>5, <2>1 DEF Pressed
<1>7. NoneStuckBut(0)'
  <2>1. /\ down \subseteq {ScanOf(j) : j \in held} \union {c}
        /\ dec.shift => c \in Shifts \/ \E j \in held : ScanOf(j) \in Shifts
    BY <1>1 DEF NoneStuckBut
  <2>2. ~release => c \in {ScanOf(j) : j \in held}
    BY <1>1
  <2>3. down' \subseteq {ScanOf(j) : j \in held'} \union {0}
    BY <1>1, <1>6, <2>1, <2>2
  <2>4. dec'.shift => \E j \in held' : ScanOf(j) \in Shifts
    BY <1>1, <1>4, <1>5, <2>1
  <2> QED
    BY <2>3, <2>4 DEF NoneStuckBut
<1>8. Resting'
  BY <1>4, <1>5, <1>7 DEF Resting
<1>9. down' \subseteq Mapped
  BY <1>1, <1>2, <1>6
<1> QED
  BY <1>1, <1>4, <1>5, <1>8, <1>9 DEF TypingInv, TypingTypeOK

LEMMA PauseKeeps ==
    ASSUME TypingInv, NEW i \in 0 .. 5, OnPause(i), Byte
    PROVE  TypingInv'
<1> DEFINE r == PutScanCode(dec, PauseCode[i + 1])
<1>1. /\ dec \in DecoderState /\ held \subseteq Key /\ down \subseteq Mapped
      /\ Pause \notin held /\ dec.inTable /\ dec.pause = i
      /\ held' = held /\ NoneStuckBut(0)
      /\ line \in Seq(Nat) /\ Len(line) = 6 - i
      /\ \A j \in 1 .. 6 - i : line[j] = PauseCode[i + j]
  BY DEF TypingInv, TypingTypeOK, OnPause, Byte
<1>2. Head(line) = PauseCode[i + 1]
  BY <1>1
<1>3. dec' = r.dec /\ down' = AllPressed(down, r.out) /\ line' = Tail(line)
  BY <1>2 DEF Byte, Codes
<1>4. /\ line' \in Seq(Nat) /\ Len(line') = 6 - (i + 1)
      /\ \A j \in 1 .. 6 - (i + 1) : line'[j] = line[j + 1]
  BY <1>1, <1>3
<1>5. /\ r.dec \in DecoderState /\ r.dec.inTable /\ (r.dec.shift <=> dec.shift)
      /\ i < 5 => r.dec.pause = i + 1 /\ r.out = << >>
      /\ i = 5 => /\ r.dec.pause = 0 /\ ~r.dec.E0
                  /\ r.out = << r.out[1], r.out[2] >>
                  /\ r.out[1].scan = \h5E /\ r.out[1].press
                  /\ r.out[2].scan = \h5E /\ ~r.out[2].press
  <2>1. r = PutScanCode(dec, PauseCode[i + 1])
    OBVIOUS
  <2> HIDE DEF r
  <2>2. dec \in DecoderState /\ dec.inTable /\ dec.pause = i
    BY <1>1
  <2> QED
    BY <2>1, <2>2, PutPause
<1> HIDE DEF r
<1>6. CASE i < 5
  <2>1. down' = down
    BY <1>3, <1>5, <1>6, OutPressed
  <2>2. NoneStuckBut(0)'
    BY <1>1, <1>3, <1>5, <2>1 DEF NoneStuckBut
  <2>3. \A j \in 1 .. 6 - (i + 1) : line'[j] = PauseCode[(i + 1) + j]
    <3>1. ASSUME NEW j \in 1 .. 6 - (i + 1)
          PROVE  line'[j] = PauseCode[(i + 1) + j]
      <4>1. j + 1 \in 1 .. 6 - i /\ i + (j + 1) = (i + 1) + j
        OBVIOUS
      <4> QED
        BY <1>1, <1>4, <4>1
    <3> QED
      BY <3>1
  <2>4. OnPause(i + 1)'
    BY <1>3, <1>4, <1>5, <1>6, <2>2, <2>3 DEF OnPause
  <2>5. i + 1 \in 0 .. 5
    BY <1>6
  <2> QED
    BY <1>1, <1>3, <1>5, <2>1, <2>4, <2>5 DEF TypingInv, TypingTypeOK
<1>7. CASE i = 5
  <2>1. down' = Pressed(Pressed(down, r.out[1]), r.out[2])
    <3> DEFINE b == r.out[1]
               c == r.out[2]
    <3>1. r.out = << b, c >>
      BY <1>5, <1>7
    <3> HIDE DEF b, c
    <3>2. AllPressed(down, << b, c >>) = Pressed(Pressed(down, b), c)
      BY OutPressed
    <3> QED
      BY <1>3, <3>1, <3>2 DEF b, c
  <2>2. down' = (down \union {\h5E}) \ {\h5E}
    BY <1>5, <1>7, <2>1 DEF Pressed
  <2>3. NoneStuckBut(0)'
    BY <1>1, <1>3, <1>5, <2>2 DEF NoneStuckBut
  <2>4. line' = << >>
    BY <1>4, <1>7
  <2>5. Resting'
    BY <1>3, <1>5, <1>7, <2>3, <2>4 DEF Resting
  <2> QED
    BY <1>1, <1>3, <1>5, <2>2, <2>5 DEF TypingInv, TypingTypeOK
<1> QED
  BY <1>6, <1>7

LEMMA TypingInvInit ==
    ASSUME TypingInit
    PROVE  TypingInv
<1>1. DecoderStart \in DecoderState /\ DecoderStart.inTable
  BY DEF DecoderStart, DecoderState, PauseCode
<1>2. DecoderStart.pause = 0 /\ ~DecoderStart.E0 /\ ~DecoderStart.shift
  BY DEF DecoderStart
<1>3. Resting
  BY <1>2 DEF TypingInit, Resting, NoneStuckBut
<1> QED
  BY <1>1, <1>3 DEF TypingInit, TypingInv, TypingTypeOK

LEMMA TypingInvStep ==
    ASSUME TypingInv, [TypingNext]_typingVars
    PROVE  TypingInv'
<1>1. ASSUME NEW k \in Key, Press(k) PROVE TypingInv'
  BY <1>1, PressKeeps
<1>2. ASSUME NEW k \in Key, Release(k) PROVE TypingInv'
  BY <1>2, ReleaseKeeps
<1>3. CASE Byte
  <2>1. ~Resting
    BY <1>3 DEF Byte, Resting
  <2>2. ASSUME NEW k \in Key \ {Pause}, NEW release \in BOOLEAN, OnKey(k, release)
        PROVE  TypingInv'
    <3>1. CASE line = << \hE0, LastByte(k, release) >>
      BY <1>3, <2>2, <3>1, PrefixKeeps
    <3>2. CASE line = << LastByte(k, release) >>
      BY <1>3, <2>2, <3>2, KeyKeeps
    <3> QED
      BY <2>2, <3>1, <3>2 DEF OnKey
  <2>3. ASSUME NEW i \in 0 .. 5, OnPause(i) PROVE TypingInv'
    BY <1>3, <2>3, PauseKeeps
  <2> QED
    BY <2>1, <2>2, <2>3 DEF TypingInv
<1>4. CASE UNCHANGED typingVars
  BY <1>4 DEF typingVars, TypingInv, TypingTypeOK, Resting, OnKey, OnPause, NoneStuckBut
<1> QED
  BY <1>1, <1>2, <1>3, <1>4 DEF TypingNext

\* TypingInv is an invariant of the keyboard with any set of keys.
THEOREM TypingInvariance == TypingSpec => []TypingInv
<1>1. TypingInit => TypingInv
  BY TypingInvInit
<1>2. TypingInv /\ [TypingNext]_typingVars => TypingInv'
  BY TypingInvStep
<1> QED
  BY <1>1, <1>2, PTL DEF TypingSpec

\* After every key the decoder has forgotten the prefixes, and no byte made it
\* read beyond gKeyMap (keyboard.c:202-232, 364-417).
THEOREM DecoderRests == TypingSpec => []DecoderAtRest
<1>1. TypingInv => DecoderAtRest
  BY BeginsAtRest DEF TypingInv, DecoderAtRest, Resting
<1> QED
  BY <1>1, TypingInvariance, PTL

\* No key and no shift stays pressed in the driver when the device has released
\* it (keyboard.c:364-417).
THEOREM NoKeyStuck == TypingSpec => []NoStuckKey
<1>1. TypingInv => NoStuckKey
  <2>1. SUFFICES ASSUME TypingInv, line = << >>
                 PROVE  /\ down \subseteq {ScanOf(k) : k \in held}
                        /\ dec.shift => \E k \in held : ScanOf(k) \in Shifts
    BY DEF NoStuckKey
  <2> QED
    BY <2>1, BeginsAtRest, NoneStuckAtRest DEF TypingInv, TypingTypeOK
<1> QED
  BY <1>1, TypingInvariance, PTL

-----------------------------------------------------------------------------
(* The ring buffer *)

\* The place of the i-th code behind the head.
Place(b, i) == (b.head + i) % KeyMax

\* The tail is behind the last code, and the codes are where Contents looks.
Ring(b, Code) ==
    /\ b \in Buffers(Code)
    /\ b.head < KeyMax /\ b.tail = Place(b, b.count)
    /\ \A i \in 0 .. b.count - 1 : b.buff[Place(b, i)] \in Code

\* The codes in the buffer, the oldest first.
Contents(b) == [i \in 1 .. b.count |-> b.buff[Place(b, i - 1)]]

LEMMA Wrap ==
    ASSUME NEW a \in Nat, a < 2 * KeyMax
    PROVE  a % KeyMax = IF a < KeyMax THEN a ELSE a - KeyMax
<1>1. KeyMax \in Nat /\ KeyMax > 0
  BY BufferAssumption
<1>2. a % KeyMax \in 0 .. KeyMax - 1
  BY <1>1
<1>3. PICK q \in Int : a = (KeyMax * q) + (a % KeyMax)
  <2>1. a = (KeyMax * (a \div KeyMax)) + (a % KeyMax) /\ a \div KeyMax \in Int
    BY <1>1
  <2> QED
    BY <2>1
<1> QED
  BY <1>1, <1>2, <1>3

LEMMA TailIs ==
    ASSUME NEW S, NEW q \in Seq(S), q # << >>, NEW r \in Seq(S),
           Len(r) = Len(q) - 1, \A i \in 1 .. Len(r) : r[i] = q[i + 1]
    PROVE  r = Tail(q)
<1>1. /\ Tail(q) \in Seq(S) /\ Len(Tail(q)) = Len(q) - 1
      /\ \A i \in 1 .. Len(Tail(q)) : Tail(q)[i] = q[i + 1]
  BY HeadTailProperties
<1> QED
  BY <1>1, SeqEqual

LEMMA AppendIs ==
    ASSUME NEW S, NEW q \in Seq(S), NEW e \in S, NEW r \in Seq(S),
           Len(r) = Len(q) + 1, \A i \in 1 .. Len(q) : r[i] = q[i], r[Len(q) + 1] = e
    PROVE  r = Append(q, e)
<1>1. /\ Append(q, e) \in Seq(S) /\ Len(Append(q, e)) = Len(q) + 1
      /\ \A i \in 1 .. Len(q) : Append(q, e)[i] = q[i]
      /\ Append(q, e)[Len(q) + 1] = e
  BY AppendProperties
<1>2. \A i \in 1 .. Len(r) : i \in 1 .. Len(q) \/ i = Len(q) + 1
  BY LenProperties
<1> QED
  BY <1>1, <1>2, SeqEqual

LEMMA ContentsAre ==
    ASSUME NEW Code, NEW b, Ring(b, Code)
    PROVE  /\ Contents(b) \in Seq(Code) /\ Len(Contents(b)) = b.count
           /\ \A i \in 1 .. b.count : Contents(b)[i] = b.buff[Place(b, i - 1)]
<1>1. b.count \in Nat
  BY DEF Ring, Buffers
<1>2. \A i \in 1 .. b.count : b.buff[Place(b, i - 1)] \in Code
  BY <1>1 DEF Ring
<1> QED
  BY <1>1, <1>2 DEF Contents

LEMMA Places ==
    ASSUME NEW Code, NEW b, Ring(b, Code)
    PROVE  /\ KeyMax \in Nat \ {0} /\ b.head \in Nat /\ b.head < KeyMax
           /\ b.count \in 0 .. KeyMax /\ b.count \in Nat
           /\ \A i \in 0 .. KeyMax :
                /\ Place(b, i) = IF b.head + i < KeyMax THEN b.head + i
                                                        ELSE b.head + i - KeyMax
                /\ Place(b, i) \in Slot /\ Place(b, i) \in Nat
                /\ Place(b, i) < KeyMax
<1>1. /\ KeyMax \in Nat \ {0} /\ KB_BUFF_SIZE \in Nat /\ KeyMax <= KB_BUFF_SIZE
      /\ b.head \in Nat /\ b.head < KeyMax /\ b.count \in 0 .. KeyMax
  BY BufferAssumption DEF Ring, Buffers, Slot
<1>2. ASSUME NEW i \in 0 .. KeyMax
      PROVE  Place(b, i) = IF b.head + i < KeyMax THEN b.head + i
                                                  ELSE b.head + i - KeyMax
  <2>1. b.head + i \in Nat /\ b.head + i < 2 * KeyMax
    BY <1>1
  <2> QED
    BY <1>1, <2>1, Wrap DEF Place
<1> QED
  BY <1>1, <1>2 DEF Slot

\* FetchKeyCode takes the oldest code out.
LEMMA FetchIsTail ==
    ASSUME NEW Code, NEW b, Ring(b, Code), b.count # 0
    PROVE  LET f == FetchKeyCode(b)
           IN  /\ Ring(f, Code) /\ f.count = b.count - 1
               /\ Fetched(b) \in Code /\ Fetched(b) = Head(Contents(b))
               /\ Contents(f) = Tail(Contents(b))
<1> DEFINE f == FetchKeyCode(b)
<1>1. /\ KeyMax \in Nat \ {0} /\ b.head \in Nat /\ b.head < KeyMax
      /\ b.count \in 0 .. KeyMax /\ b.count \in Nat /\ b.count > 0
      /\ b \in Buffers(Code)
  BY Places DEF Ring
<1>2. \A i \in 0 .. KeyMax :
        /\ Place(b, i) = IF b.head + i < KeyMax THEN b.head + i
                                                ELSE b.head + i - KeyMax
        /\ Place(b, i) \in Slot
  BY Places
<1>3. /\ f = [b EXCEPT !.head = (@ + 1) % KeyMax, !.count = @ - 1]
      /\ f.head = Place(b, 1) /\ f.count = b.count - 1 /\ f.tail = b.tail
      /\ f.buff = b.buff
  BY <1>1 DEF FetchKeyCode, Place, Buffers
<1>4. f \in Buffers(Code)
  <2>1. Place(b, 1) \in Slot /\ b.count - 1 \in 0 .. KeyMax
    BY <1>1, <1>2
  <2>2. Place(b, 1) = (b.head + 1) % KeyMax
    BY DEF Place
  <2> QED
    BY <1>1, <1>3, <2>1, <2>2 DEF Buffers
<1> HIDE DEF f
<1>5. f.head \in Nat /\ f.head < KeyMax
  BY <1>1, <1>2, <1>3
<1>6. \A i \in 0 .. KeyMax - 1 : Place(f, i) = Place(b, i + 1)
  <2>1. SUFFICES ASSUME NEW i \in 0 .. KeyMax - 1 PROVE Place(f, i) = Place(b, i + 1)
    OBVIOUS
  <2>2. f.head + i \in Nat /\ f.head + i < 2 * KeyMax /\ i + 1 \in 0 .. KeyMax
    BY <1>1, <1>5
  <2>3. Place(f, i) = IF f.head + i < KeyMax THEN f.head + i ELSE f.head + i - KeyMax
    <3> DEFINE a == f.head + i
    <3>1. a \in Nat /\ a < 2 * KeyMax
      BY <2>2
    <3> HIDE DEF a
    <3>2. a % KeyMax = IF a < KeyMax THEN a ELSE a - KeyMax
      BY <3>1, Wrap
    <3> QED
      BY <1>1, <1>5, <3>2 DEF a, Place
  <2>4. f.head = IF b.head + 1 < KeyMax THEN b.head + 1 ELSE b.head + 1 - KeyMax
    BY <1>1, <1>2, <1>3
  <2>5. Place(b, i + 1) = IF b.head + (i + 1) < KeyMax THEN b.head + (i + 1)
                                                       ELSE b.head + (i + 1) - KeyMax
    BY <1>2, <2>2
  <2> QED
    BY <1>1, <1>5, <2>1, <2>3, <2>4, <2>5
<1>7. Ring(f, Code)
  <2>1. f.tail = Place(f, f.count)
    <3>1. b.tail = Place(b, b.count)
      BY DEF Ring
    <3>2. Place(f, b.count - 1) = Place(b, b.count - 1 + 1)
      BY <1>1, <1>6
    <3>3. b.count - 1 + 1 = b.count
      BY <1>1
    <3> QED
      BY <1>3, <3>1, <3>2, <3>3
  <2>2. \A i \in 0 .. f.count - 1 : f.buff[Place(f, i)] \in Code
    <3>1. SUFFICES ASSUME NEW i \in 0 .. b.count - 2 PROVE b.buff[Place(f, i)] \in Code
      BY <1>1, <1>3
    <3>2. i + 1 \in 0 .. b.count - 1 /\ i \in 0 .. KeyMax - 1
      BY <1>1, <3>1
    <3> QED
      BY <1>6, <3>2 DEF Ring
  <2> QED
    BY <1>4, <1>5, <2>1, <2>2 DEF Ring
<1>8. Fetched(b) \in Code /\ Fetched(b) = b.buff[Place(b, 0)]
  <2>1. Place(b, 0) = b.head /\ 0 \in 0 .. b.count - 1
    BY <1>1, <1>2
  <2> QED
    BY <1>1, <2>1 DEF Fetched, Ring
<1>9. \A i \in 1 .. b.count - 1 : f.buff[Place(f, i - 1)] = b.buff[Place(b, i)]
  <2>1. SUFFICES ASSUME NEW i \in 1 .. b.count - 1
                 PROVE  f.buff[Place(f, i - 1)] = b.buff[Place(b, i)]
    OBVIOUS
  <2>2. i - 1 \in 0 .. KeyMax - 1 /\ i - 1 + 1 = i
    BY <1>1
  <2> QED
    BY <1>3, <1>6, <2>2
<1>10. Contents(f) = Tail(Contents(b))
  <2>1. /\ Contents(b) \in Seq(Code) /\ Len(Contents(b)) = b.count
        /\ \A i \in 1 .. b.count : Contents(b)[i] = b.buff[Place(b, i - 1)]
    BY ContentsAre
  <2>2. /\ Contents(f) \in Seq(Code) /\ Len(Contents(f)) = b.count - 1
        /\ \A i \in 1 .. b.count - 1 : Contents(f)[i] = f.buff[Place(f, i - 1)]
    <3>1. /\ Contents(f) \in Seq(Code) /\ Len(Contents(f)) = f.count
          /\ \A i \in 1 .. f.count : Contents(f)[i] = f.buff[Place(f, i - 1)]
      BY <1>7, ContentsAre
    <3>2. f.count = b.count - 1
      BY <1>3
    <3> HIDE DEF Contents, Place
    <3> QED
      BY <3>1, <3>2
  <2>3. ASSUME NEW i \in 1 .. b.count - 1 PROVE Contents(f)[i] = Contents(b)[i + 1]
    <3>1. i + 1 \in 1 .. b.count /\ i + 1 - 1 = i
      BY <1>1
    <3> QED
      BY <1>9, <2>1, <2>2, <3>1
  <2>4. Contents(b) # << >>
    BY <1>1, <2>1
  <2> HIDE DEF Contents
  <2> QED
    BY <2>1, <2>2, <2>3, <2>4, TailIs
<1>11. Head(Contents(b)) = b.buff[Place(b, 0)]
  <2>1. /\ Contents(b) \in Seq(Code) /\ Len(Contents(b)) = b.count
        /\ Contents(b)[1] = b.buff[Place(b, 1 - 1)]
    BY <1>1, ContentsAre
  <2>2. Contents(b) # << >> /\ 1 - 1 = 0
    BY <1>1, <2>1
  <2> QED
    BY <2>1, <2>2
<1> QED
  BY <1>3, <1>7, <1>8, <1>10, <1>11 DEF f

\* Put appends a code.
LEMMA PutIsAppend ==
    ASSUME NEW Code, NEW b, Ring(b, Code), b.count < KeyMax, NEW kc \in Code
    PROVE  LET p == Put(b, kc)
           IN  /\ Ring(p, Code) /\ p.count = b.count + 1
               /\ Contents(p) = Append(Contents(b), kc)
<1> DEFINE p == Put(b, kc)
<1>1. /\ KeyMax \in Nat \ {0} /\ b.head \in Nat /\ b.head < KeyMax
      /\ b.count \in 0 .. KeyMax /\ b.count \in Nat /\ b.count < KeyMax
      /\ b \in Buffers(Code) /\ b.tail = Place(b, b.count)
  BY Places DEF Ring
<1>2. \A i \in 0 .. KeyMax :
        /\ Place(b, i) = IF b.head + i < KeyMax THEN b.head + i
                                                ELSE b.head + i - KeyMax
        /\ Place(b, i) \in Slot /\ Place(b, i) \in Nat /\ Place(b, i) < KeyMax
  BY Places
<1>3. (b.tail + 1) % KeyMax = Place(b, b.count + 1)
  <2>1. b.tail + 1 \in Nat /\ b.tail + 1 < 2 * KeyMax
    BY <1>1, <1>2
  <2>2. (b.tail + 1) % KeyMax = IF b.tail + 1 < KeyMax THEN b.tail + 1
                                                       ELSE b.tail + 1 - KeyMax
    <3> DEFINE a == b.tail + 1
    <3>1. a \in Nat /\ a < 2 * KeyMax
      BY <2>1
    <3> HIDE DEF a
    <3>2. a % KeyMax = IF a < KeyMax THEN a ELSE a - KeyMax
      BY <3>1, Wrap
    <3> QED
      BY <1>1, <1>2, <3>2 DEF a
  <2>3. b.tail = IF b.head + b.count < KeyMax THEN b.head + b.count
                                              ELSE b.head + b.count - KeyMax
    BY <1>1, <1>2
  <2>4. Place(b, b.count + 1) = IF b.head + (b.count + 1) < KeyMax
                                THEN b.head + (b.count + 1)
                                ELSE b.head + (b.count + 1) - KeyMax
    BY <1>1, <1>2
  <2> QED
    BY <1>1, <2>2, <2>3, <2>4
<1>4. /\ p.head = b.head /\ p.tail = Place(b, b.count + 1) /\ p.count = b.count + 1
      /\ p.buff = [b.buff EXCEPT ![b.tail] = kc]
      /\ p = [head |-> p.head, tail |-> p.tail, count |-> p.count, buff |-> p.buff]
  <2>1. b = [head |-> b.head, tail |-> b.tail, count |-> b.count, buff |-> b.buff]
    BY <1>1 DEF Buffers
  <2>2. p = [head |-> b.head, tail |-> (b.tail + 1) % KeyMax, count |-> b.count + 1,
             buff |-> [b.buff EXCEPT ![b.tail] = kc]]
    <3> DEFINE h == b.head t == b.tail n == b.count f == b.buff
    <3>1. b = [head |-> h, tail |-> t, count |-> n, buff |-> f]
      BY <2>1
    <3>2. p = [b EXCEPT !.buff[b.tail] = kc, !.tail = (t + 1) % KeyMax, !.count = n + 1]
      BY DEF Put
    <3> HIDE DEF h, t, n, f, p
    <3> QED
      BY <3>1, <3>2
  <2> QED
    BY <1>3, <2>2
<1>5. b.buff \in [Slot -> Code \union {NoKey}] /\ b.tail \in Slot /\ b.head \in Slot
  BY <1>1 DEF Buffers
<1> HIDE DEF p
<1>6. p \in Buffers(Code)
  <2>1. p.buff \in [Slot -> Code \union {NoKey}]
    BY <1>4, <1>5
  <2>2. p.tail \in Slot /\ p.count \in 0 .. KeyMax
    BY <1>1, <1>2, <1>4
  <2> QED
    BY <1>4, <1>5, <2>1, <2>2 DEF Buffers
<1>7. \A i \in 0 .. KeyMax : Place(p, i) = Place(b, i)
  BY <1>4 DEF Place
<1>8. \A i \in 0 .. b.count - 1 : p.buff[Place(b, i)] = b.buff[Place(b, i)]
  <2>1. SUFFICES ASSUME NEW i \in 0 .. b.count - 1 PROVE Place(b, i) # b.tail
    BY <1>1, <1>2, <1>4, <1>5
  <2>2. Place(b, i) = IF b.head + i < KeyMax THEN b.head + i ELSE b.head + i - KeyMax
    BY <1>1, <1>2
  <2>3. b.tail = IF b.head + b.count < KeyMax THEN b.head + b.count
                                              ELSE b.head + b.count - KeyMax
    BY <1>1, <1>2
  <2> QED
    BY <1>1, <2>2, <2>3
<1>9. p.buff[Place(b, b.count)] = kc
  BY <1>1, <1>4, <1>5
<1>10. Ring(p, Code)
  <2>1. p.tail = Place(p, p.count)
    BY <1>1, <1>4, <1>7
  <2>2. ASSUME NEW i \in 0 .. p.count - 1 PROVE p.buff[Place(p, i)] \in Code
    <3>1. i \in 0 .. KeyMax /\ (i = b.count \/ i \in 0 .. b.count - 1)
      BY <1>1, <1>4, <2>2
    <3>2. Place(p, i) = Place(b, i)
      BY <1>7, <3>1
    <3>3. CASE i = b.count
      BY <1>9, <3>2, <3>3
    <3>4. CASE i \in 0 .. b.count - 1
      BY <1>8, <3>2, <3>4 DEF Ring
    <3> QED
      BY <3>1, <3>3, <3>4
  <2> QED
    BY <1>1, <1>4, <1>6, <2>1, <2>2 DEF Ring
<1>11. Contents(p) = Append(Contents(b), kc)
  <2>1. /\ Contents(b) \in Seq(Code) /\ Len(Contents(b)) = b.count
        /\ \A i \in 1 .. b.count : Contents(b)[i] = b.buff[Place(b, i - 1)]
    BY ContentsAre
  <2>2. /\ Contents(p) \in Seq(Code) /\ Len(Contents(p)) = b.count + 1
        /\ \A i \in 1 .. b.count + 1 : Contents(p)[i] = p.buff[Place(p, i - 1)]
    BY <1>4, <1>10, ContentsAre, Zenon
  <2>3. ASSUME NEW i \in 1 .. b.count PROVE Contents(p)[i] = Contents(b)[i]
    <3>1. i - 1 \in 0 .. b.count - 1 /\ i - 1 \in 0 .. KeyMax /\ i \in 1 .. b.count + 1
      BY <1>1
    <3>2. Place(p, i - 1) = Place(b, i - 1)
      BY <1>7, <3>1
    <3> QED
      BY <1>8, <2>1, <2>2, <3>1, <3>2
  <2>4. Contents(p)[b.count + 1] = kc
    <3>1. b.count + 1 \in 1 .. b.count + 1 /\ b.count + 1 - 1 = b.count /\ b.count \in 0 .. KeyMax
      BY <1>1
    <3> QED
      BY <1>7, <1>9, <2>2, <3>1
  <2> QED
    BY <2>1, <2>2, <2>3, <2>4, AppendIs
<1> QED
  BY <1>4, <1>10, <1>11 DEF p

\* StoreKeyCode appends, and drops the oldest code of a full buffer.
LEMMA StoreIsAppend ==
    ASSUME NEW Code, NEW b, Ring(b, Code), NEW kc \in Code
    PROVE  LET p == StoreKeyCode(b, kc)
           IN  /\ Ring(p, Code)
               /\ Contents(p) = IF b.count < KeyMax
                                THEN Append(Contents(b), kc)
                                ELSE Append(Tail(Contents(b)), kc)
               /\ p.count = IF b.count < KeyMax THEN b.count + 1 ELSE KeyMax
<1>1. b.count \in 0 .. KeyMax /\ KeyMax \in Nat \ {0}
  BY Places
<1>2. CASE b.count < KeyMax
  BY <1>2, PutIsAppend DEF StoreKeyCode
<1>3. CASE b.count = KeyMax
  <2> DEFINE f == FetchKeyCode(b)
  <2>1. Ring(f, Code) /\ f.count = KeyMax - 1 /\ Contents(f) = Tail(Contents(b))
    BY <1>1, <1>3, FetchIsTail
  <2>2. StoreKeyCode(b, kc) = Put(f, kc)
    BY <1>1, <1>3 DEF StoreKeyCode
  <2> HIDE DEF f
  <2>3. /\ Ring(Put(f, kc), Code) /\ Put(f, kc).count = f.count + 1
        /\ Contents(Put(f, kc)) = Append(Contents(f), kc)
    <3>1. f.count < KeyMax
      BY <1>1, <2>1
    <3> QED
      BY <2>1, <3>1, PutIsAppend
  <2>4. KeyMax - 1 + 1 = KeyMax /\ ~(b.count < KeyMax)
    BY <1>1, <1>3
  <2> QED
    BY <2>1, <2>2, <2>3, <2>4
<1> QED
  BY <1>1, <1>2, <1>3

\* The buffer is a queue that forgets its oldest code when it is full, whatever its
\* capacity and wherever its head stands in the array (keyboard.c:139-172).
THEOREM BufferIsQueue ==
    ASSUME NEW Code, NEW b, Ring(b, Code)
    PROVE  /\ \A kc \in Code :
                /\ Ring(StoreKeyCode(b, kc), Code)
                /\ Contents(StoreKeyCode(b, kc)) =
                      IF b.count < KeyMax THEN Append(Contents(b), kc)
                                          ELSE Append(Tail(Contents(b)), kc)
           /\ Ring(FetchKeyCode(b), Code)
           /\ b.count = 0 => Fetched(b) = NoKey /\ FetchKeyCode(b) = b
           /\ b.count # 0 => /\ Fetched(b) = Head(Contents(b))
                             /\ Contents(FetchKeyCode(b)) = Tail(Contents(b))
<1>1. ASSUME NEW kc \in Code
      PROVE  /\ Ring(StoreKeyCode(b, kc), Code)
             /\ Contents(StoreKeyCode(b, kc)) =
                   IF b.count < KeyMax THEN Append(Contents(b), kc)
                                       ELSE Append(Tail(Contents(b)), kc)
  BY StoreIsAppend
<1>2. CASE b.count # 0
  BY <1>1, <1>2, FetchIsTail
<1>3. CASE b.count = 0
  <2>1. Fetched(b) = NoKey /\ FetchKeyCode(b) = b
    BY <1>3 DEF Fetched, FetchKeyCode
  <2> QED
    BY <1>1, <1>3, <2>1
<1> QED
  BY <1>2, <1>3


-----------------------------------------------------------------------------
(* The codes of a byte *)

LEMMA CodeMade ==
    ASSUME NEW d \in DecoderState, NEW sc \in Mapped, NEW press \in BOOLEAN
    PROVE  MakeCode(d, sc, press) \in KeyCode
<1> DEFINE pad == IsNumPadKey(sc, d.E0)
           column == IF pad THEN MakeNumCode(d.shift, d.num)
                            ELSE MakeNormalCode(sc, d.shift, d.caps)
<1>1. pad \in BOOLEAN
  <2>1. (sc \in NumPadE0) \in BOOLEAN /\ (sc \in NumPad) \in BOOLEAN
    OBVIOUS
  <2>2. pad = (sc \in NumPadE0) \/ pad = (sc \in NumPad)
    BY DEF IsNumPadKey
  <2> QED
    BY <2>1, <2>2
<1>2. column \in {1, 2}
  <2> HIDE DEF pad
  <2> QED
    BY DEF MakeNumCode, MakeNormalCode
<1>3. MakeCode(d, sc, press) = [press |-> press, scan |-> sc, pad |-> pad, column |-> column]
  BY DEF MakeCode
<1> HIDE DEF pad, column
<1> QED
  BY <1>1, <1>2, <1>3 DEF KeyCode

\* KeyHandler stores one code or none, and it does not touch the state of Pause.
LEMMA HandlerCodes ==
    ASSUME NEW d \in DecoderState, NEW byte \in Nat
    PROVE  LET r == KeyHandler(d, byte)
           IN  /\ r.dec.pause = d.pause
               /\ r.out = << >> \/ \E c \in KeyCode : r.out = << c >>
<1> DEFINE sc == byte % 128
           low == byte < 128
           shift == IF sc \in Shifts THEN low ELSE d.shift
           caps == IF sc = CapsLock /\ low THEN ~d.caps ELSE d.caps
           num == IF sc = NumLock /\ low THEN ~d.num ELSE d.num
           now == [d EXCEPT !.shift = shift, !.caps = caps, !.num = num]
           r == KeyHandler(d, byte)
<1>1. CASE byte = \hE0
  <2>1. r = Decoded([d EXCEPT !.E0 = TRUE], << >>)
    BY <1>1 DEF KeyHandler
  <2> QED
    BY <2>1 DEF Decoded, DecoderState
<1>2. CASE byte # \hE0 /\ sc \in Mapped
  <2>1. r = Decoded([now EXCEPT !.E0 = FALSE], << MakeCode(now, sc, low) >>)
    BY <1>2 DEF KeyHandler
  <2>2. shift \in BOOLEAN /\ caps \in BOOLEAN /\ num \in BOOLEAN /\ low \in BOOLEAN
    <3>1. d.shift \in BOOLEAN /\ d.caps \in BOOLEAN /\ d.num \in BOOLEAN
      BY DEF DecoderState
    <3>2. low \in BOOLEAN /\ (~d.caps) \in BOOLEAN /\ (~d.num) \in BOOLEAN
      BY <3>1
    <3> HIDE DEF low
    <3>3. shift \in BOOLEAN
      BY <3>1, <3>2
    <3>4. caps \in BOOLEAN
      BY <3>1, <3>2
    <3>5. num \in BOOLEAN
      BY <3>1, <3>2
    <3> QED
      BY <3>2, <3>3, <3>4, <3>5
  <2> HIDE DEF sc, low, shift, caps, num
  <2>3. now \in DecoderState
    BY <2>2, Switched
  <2>4. MakeCode(now, sc, low) \in KeyCode
    BY <1>2, <2>2, <2>3, CodeMade
  <2>5. [now EXCEPT !.E0 = FALSE].pause = d.pause
    BY <2>3 DEF DecoderState
  <2> DEFINE rest == [now EXCEPT !.E0 = FALSE]
             code == MakeCode(now, sc, low)
  <2>6. Decoded(rest, << code >>).dec = rest /\ Decoded(rest, << code >>).out = << code >>
    BY DEF Decoded
  <2> HIDE DEF now, r, rest, code
  <2>7. r.dec.pause = d.pause /\ r.out = << code >> /\ code \in KeyCode
    BY <2>1, <2>4, <2>5, <2>6 DEF rest, code
  <2> QED
    BY <2>7 DEF r
<1>3. CASE byte # \hE0 /\ sc \notin Mapped
  <2>1. r = Decoded([d EXCEPT !.inTable = @ /\ sc < KeyMapSize], << >>)
    BY <1>3 DEF KeyHandler
  <2> QED
    BY <2>1 DEF Decoded, DecoderState
<1> QED
  BY <1>1, <1>2, <1>3

\* Two codes come with the last byte of Pause only.
LEMMA PutCodes ==
    ASSUME NEW d \in DecoderState, d.inTable, NEW byte \in Nat
    PROVE  LET r == PutScanCode(d, byte)
           IN  \/ r.out = << >>
               \/ r.dec.pause = 0 /\ \E c \in KeyCode : r.out = << c >>
               \/ /\ d.pause = 5 /\ r.dec.pause = 0
                  /\ \E a, b \in KeyCode : r.out = << a, b >>
<1> DEFINE r == PutScanCode(d, byte)
           e == [d EXCEPT !.pause = 0]
<1>1. e \in DecoderState /\ e.pause = 0 /\ (e.inTable <=> d.inTable)
  BY DEF DecoderState, PauseCode
<1>2. CASE ~InPause(d, byte)
  <2>1. r = KeyHandler(e, byte)
    BY <1>2 DEF PutScanCode
  <2> HIDE DEF e, r
  <2> QED
    BY <1>1, <2>1, HandlerCodes DEF r
<1>3. CASE InPause(d, byte) /\ d.pause + 1 < Len(PauseCode)
  BY <1>3 DEF PutScanCode, Decoded
<1>4. CASE InPause(d, byte) /\ ~(d.pause + 1 < Len(PauseCode))
  <2> DEFINE press == KeyHandler(e, \h5E)
             release == KeyHandler(press.dec, \hDE)
  <2>1. r = Decoded(release.dec, press.out \o release.out)
    BY <1>4 DEF PutScanCode
  <2>2. d.pause = 5
    BY <1>4 DEF DecoderState, PauseCode
  <2>3. \h5E \in Plain \union {\h5E} /\ \h5E + 128 = \hDE
    OBVIOUS
  <2> HIDE DEF e
  <2>4. /\ press.dec \in DecoderState /\ press.dec.inTable /\ press.dec.pause = 0
        /\ press.out = << press.out[1] >>
    BY <1>1, <2>3, HandlePress
  <2>5. press.out = << >> \/ \E c \in KeyCode : press.out = << c >>
    BY <1>1, HandlerCodes
  <2> HIDE DEF press
  <2>6. /\ release.dec.pause = 0
        /\ release.out = << release.out[1] >>
    BY <2>3, <2>4, HandleRelease
  <2>7. release.out = << >> \/ \E c \in KeyCode : release.out = << c >>
    BY <2>4, HandlerCodes
  <2> HIDE DEF release
  <2>8. PICK a \in KeyCode : press.out = << a >>
    <3>1. press.out # << >>
      BY <2>4
    <3> QED
      BY <2>5, <3>1
  <2>9. PICK b \in KeyCode : release.out = << b >>
    <3>1. release.out # << >>
      BY <2>6
    <3> QED
      BY <2>7, <3>1
  <2>10. << a >> \o << b >> = << a, b >>
    <3> DEFINE c == << a >> \o << b >>
    <3>1. c \in Seq(KeyCode) /\ Len(c) = 2 /\ c[1] = a /\ c[2] = b
      OBVIOUS
    <3> HIDE DEF c
    <3>2. c = << a, b >>
      BY <3>1
    <3> QED
      BY <3>2 DEF c
  <2>11. press.out \o release.out = << a, b >>
    BY <2>8, <2>9, <2>10
  <2> HIDE DEF r
  <2>12. r.out = << a, b >> /\ r.dec.pause = 0
    BY <2>1, <2>6, <2>11 DEF Decoded
  <2> QED
    BY <2>2, <2>12 DEF r
<1> QED
  BY <1>2, <1>3, <1>4

\* What an interrupt stores.
LEMMA ByteCodes ==
    ASSUME TypingInv, line # << >>
    PROVE  LET next == PutScanCode(dec, Head(line)).dec
           IN  \/ Codes = << >>
               \/ next.pause = 0 /\ \E c \in KeyCode : Codes = << c >>
               \/ /\ dec.pause = 5 /\ next.pause = 0
                  /\ \E a, b \in KeyCode : Codes = << a, b >>
<1>1. dec \in DecoderState /\ dec.inTable
  BY DEF TypingInv, TypingTypeOK
<1>2. Head(line) \in Nat
  <2>1. ~Resting
    BY DEF Resting
  <2>2. ASSUME NEW k \in Key \ {Pause}, NEW release \in BOOLEAN, OnKey(k, release)
        PROVE  Head(line) \in Nat
    <3>1. ScanOf(k) \in Nat
      BY Keys, PlainBytes
    <3>2. LastByte(k, release) \in Nat
      BY <3>1 DEF LastByte
    <3> QED
      BY <2>2, <3>2 DEF OnKey
  <2>3. ASSUME NEW i \in 0 .. 5, OnPause(i) PROVE Head(line) \in Nat
    BY <2>3 DEF OnPause
  <2> QED
    BY <2>1, <2>2, <2>3 DEF TypingInv
<1> QED
  BY <1>1, <1>2, PutCodes DEF Codes

-----------------------------------------------------------------------------
(* The invariant of handler and readers *)

\* Between two interrupts there is at most one code in the buffer: the second
\* code of Pause, or what was typed before it. Inside the bytes of Pause there is
\* none, since each of them took a code out and stored none.
FewCodes == buff.count <= 1 /\ (dec.pause # 0 => buff.count = 0)

KeyboardInv ==
    /\ TaskInv /\ IdsOK(kern) /\ EventsOK(kern) /\ TypingInv
    /\ Ring(buff, KeyCode) /\ FewCodes
    /\ NoReaderBesideCode
    /\ got \in [Node -> KeyCode \union {NoKey}]

LEMMA KeyQueue == gKeyWait \in ObjectQ /\ gKeyWait \in WaitQ /\ gKeyWait \notin Node
                  /\ NoKey \notin KeyCode
BY KeyWaitAssumption, QueueAssumption DEF WaitQ

\* FetchKeyCode of any buffer: it finds a code if there is one.
LEMMA FetchAny ==
    ASSUME NEW b, Ring(b, KeyCode)
    PROVE  LET f == FetchKeyCode(b)
           IN  /\ Ring(f, KeyCode) /\ b.count \in Nat
               /\ f.count = IF b.count = 0 THEN 0 ELSE b.count - 1
               /\ Fetched(b) # NoKey <=> b.count # 0
               /\ Fetched(b) \in KeyCode \union {NoKey}
<1>1. b.count \in Nat
  BY Places
<1>2. CASE b.count = 0
  BY <1>1, <1>2 DEF FetchKeyCode, Fetched
<1>3. CASE b.count # 0
  BY <1>1, <1>3, FetchIsTail, KeyQueue
<1> QED
  BY <1>2, <1>3

LEMMA StoreCount ==
    ASSUME NEW b, Ring(b, KeyCode), NEW kc \in KeyCode
    PROVE  LET p == StoreKeyCode(b, kc)
           IN  /\ Ring(p, KeyCode) /\ p.count \in Nat /\ p.count <= KeyMax
               /\ p.count <= b.count + 1 /\ p.count >= 1
<1> DEFINE p == StoreKeyCode(b, kc)
<1>1. Ring(p, KeyCode) /\ p.count = IF b.count < KeyMax THEN b.count + 1 ELSE KeyMax
  BY StoreIsAppend
<1>2. b.count \in Nat /\ b.count \in 0 .. KeyMax /\ KeyMax \in Nat \ {0}
  BY Places
<1> HIDE DEF p
<1>3. p.count \in Nat /\ p.count <= KeyMax /\ p.count <= b.count + 1 /\ p.count >= 1
  BY <1>1, <1>2
<1> QED
  BY <1>1, <1>3 DEF p

\* What an interrupt does to the buffer.
LEMMA Stored ==
    ASSUME KeyboardInv, line # << >>
    PROVE  LET b == StoreAll(buff, Codes)
               f == FetchKeyCode(b)
           IN  /\ Ring(b, KeyCode) /\ Ring(f, KeyCode)
               /\ f.count <= 1
               /\ PutScanCode(dec, Head(line)).dec.pause # 0 => f.count = 0
               /\ Fetched(b) = NoKey => f.count = 0
               /\ Fetched(b) \in KeyCode \union {NoKey}
<1> DEFINE b == StoreAll(buff, Codes)
           f == FetchKeyCode(b)
           next == PutScanCode(dec, Head(line)).dec
<1>1. /\ Ring(buff, KeyCode) /\ buff.count \in Nat /\ buff.count <= 1
      /\ dec.pause # 0 => buff.count = 0
  BY FetchAny DEF KeyboardInv, FewCodes
<1>2. /\ Ring(b, KeyCode) /\ b.count <= 2
      /\ next.pause # 0 => b.count <= 1
  <2>1. \/ Codes = << >>
        \/ next.pause = 0 /\ \E c \in KeyCode : Codes = << c >>
        \/ /\ dec.pause = 5 /\ next.pause = 0
           /\ \E x, y \in KeyCode : Codes = << x, y >>
    BY ByteCodes DEF KeyboardInv
  <2>2. CASE Codes = << >>
    BY <1>1, <2>2 DEF StoreAll
  <2>3. ASSUME next.pause = 0, NEW c \in KeyCode, Codes = << c >>
        PROVE  Ring(b, KeyCode) /\ b.count <= 2
    <3>1. b = StoreKeyCode(buff, c)
      BY <2>3 DEF StoreAll
    <3> HIDE DEF b
    <3>2. Ring(b, KeyCode) /\ b.count \in Nat /\ b.count <= buff.count + 1
      BY <1>1, <3>1, StoreCount
    <3> QED
      BY <1>1, <3>2
  <2>4. ASSUME dec.pause = 5, next.pause = 0, NEW x \in KeyCode, NEW y \in KeyCode,
               Codes = << x, y >>
        PROVE  Ring(b, KeyCode) /\ b.count <= 2
    <3> DEFINE a == StoreKeyCode(buff, x)
    <3>1. b = StoreKeyCode(a, y)
      BY <2>4 DEF StoreAll
    <3>2. Ring(a, KeyCode) /\ a.count \in Nat /\ a.count <= buff.count + 1
      BY <1>1, StoreCount
    <3> HIDE DEF a, b
    <3>3. Ring(b, KeyCode) /\ b.count \in Nat /\ b.count <= a.count + 1
      BY <3>1, <3>2, StoreCount
    <3> QED
      BY <1>1, <2>4, <3>2, <3>3
  <2> HIDE DEF b, next
  <2> QED
    BY <2>1, <2>2, <2>3, <2>4
<1> HIDE DEF b
<1>3. /\ Ring(f, KeyCode) /\ b.count \in Nat
      /\ f.count = IF b.count = 0 THEN 0 ELSE b.count - 1
      /\ Fetched(b) # NoKey <=> b.count # 0
      /\ Fetched(b) \in KeyCode \union {NoKey}
  BY <1>2, FetchAny
<1> HIDE DEF f, next
<1>4. f.count <= 1 /\ (next.pause # 0 => f.count = 0) /\ (Fetched(b) = NoKey => f.count = 0)
  BY <1>2, <1>3
<1> QED
  BY <1>2, <1>3, <1>4 DEF b, f, next

\* Waking the readers, in the handler and in ReadKey.
LEMMA Woken ==
    ASSUME KeyboardInv
    PROVE  LET r == WaittingToReady(kern, gKeyWait)
           IN  Settled(r) /\ IdsOK(r) /\ EventsOK(r) /\ r.queue[gKeyWait] = << >>
<1> DEFINE r == WaittingToReady(kern, gKeyWait)
<1>1. /\ Settled(kern) /\ Between(kern) /\ IdsOK(kern) /\ EventsOK(kern)
      /\ kern \in KernelState
  BY DEF KeyboardInv, TaskInv, Settled, Between
<1>2. Settled(r)
  BY <1>1, KeyQueue, WaittingToReadySettled
<1>3. r.queue[gKeyWait] = << >>
  BY <1>1, KeyQueue, WaittingToReadyBetween
<1>4. Alike(kern, r, {gKeyWait}) /\ EventsOK(r)
  BY <1>1, KeyQueue, WaittingToReadyAlike, WaittingToReadyEvents
<1> HIDE DEF r
<1>5. IdsOK(r)
  BY <1>1, <1>4, AlikeIds
<1> QED
  BY <1>2, <1>3, <1>4, <1>5 DEF r

\* Blocking the current task wakes nobody.
LEMMA WaitersStay ==
    ASSUME KeyboardInv, kern.cur # IdleTask, kern.heap # 0
    PROVE  LET r == WaitEvent(kern, gKeyWait)
           IN  /\ Settled(r) /\ IdsOK(r) /\ EventsOK(r)
               /\ Waiting \subseteq Members(r.queue[gKeyWait])
<1> DEFINE r == WaitEvent(kern, gKeyWait)
           q == kern.queue
<1>1. /\ Settled(kern) /\ Between(kern) /\ IdsOK(kern) /\ EventsOK(kern)
      /\ kern \in KernelState
  BY DEF KeyboardInv, TaskInv, Settled, Between
<1>2. gKeyWait \in WaitQ /\ gKeyWait \notin Node /\ gKeyWait # IdleTask
  BY KeyQueue DEF Node
<1>3. Settled(r) /\ IdsOK(r) /\ EventsOK(r)
  BY <1>1, <1>2, WaitEventSettled, WaitEventIds, WaitEventEvents
<1>4. PICK d : Blocked(kern, d, gKeyWait) /\ r = ScheduleNext(d)
  BY <1>1, <1>2, WaitEventState
<1>5. /\ q[RunningQ] # << >> /\ kern.cur = q[RunningQ][1]
      /\ d.queue = MoveFront(q, RunningQ, gKeyWait, 1)
      /\ Between(d) /\ SlicesLeft(d)
  BY <1>1, <1>4 DEF Settled, Blocked
<1>6. EventsOK(d)
  BY <1>1, <1>2, <1>4, <1>5, BlockedEvents DEF Blocked
<1>7. r.queue[gKeyWait] = d.queue[gKeyWait]
  BY <1>2, <1>4, <1>5, <1>6, ScheduleNextEvents DEF SameWaits
<1>8. d.queue[gKeyWait] = q[gKeyWait] \o SubSeq(q[RunningQ], 1, 1)
  BY <1>1, <1>2, <1>5, QueueIds DEF MoveFront, KernelState
<1>9. /\ q[gKeyWait] \in Seq(Node) /\ q[RunningQ] \in Seq(Node)
      /\ 1 \in 1 .. Len(q[RunningQ])
  BY <1>1, <1>2, <1>5, StateFields, QueueIds, FrontFacts
<1> DEFINE a == q[gKeyWait]
           b == SubSeq(q[RunningQ], 1, 1)
<1>10. a \in Seq(Node) /\ b \in Seq(Node)
  BY <1>9
<1>11. Waiting = Members(a)
  BY DEF Waiting
<1> HIDE DEF a, b
<1>12. Members(a) \subseteq Members(a \o b)
  BY <1>10 DEF Members
<1> HIDE DEF r
<1> QED
  BY <1>3, <1>7, <1>8, <1>11, <1>12 DEF a, b, r

LEMMA KeyboardInvInit ==
    ASSUME KeyboardModInit
    PROVE  KeyboardInv
<1>1. TaskInv
  BY InitInv DEF KeyboardModInit
<1>2. IdsOK(kern) /\ EventsOK(kern)
  BY InitIds, InitEvents DEF KeyboardModInit
<1>3. TypingInv
  BY TypingInvInit DEF KeyboardModInit
<1>4. KeyMax \in Nat \ {0} /\ KB_BUFF_SIZE \in Nat /\ KeyMax <= KB_BUFF_SIZE /\ 0 \in Slot
  BY BufferAssumption DEF Slot
<1>5. Ring(buff, KeyCode) /\ buff.count = 0
  <2>1. buff = EmptyBuffer
    BY DEF KeyboardModInit
  <2>2. buff \in Buffers(KeyCode) /\ buff.count = 0 /\ buff.head = 0 /\ buff.tail = 0
    BY <1>4, <2>1 DEF EmptyBuffer, Buffers
  <2>3. Place(buff, 0) = 0
    <3>1. 0 % KeyMax = 0
      BY <1>4, Wrap
    <3> QED
      BY <2>2, <3>1 DEF Place
  <2> QED
    BY <1>4, <2>2, <2>3 DEF Ring
<1>6. got \in [Node -> KeyCode \union {NoKey}]
  BY DEF KeyboardModInit
<1> QED
  BY <1>1, <1>2, <1>3, <1>5, <1>6 DEF KeyboardInv, FewCodes, NoReaderBesideCode

LEMMA HandlerKeeps ==
    ASSUME KeyboardInv, KeyboardHandler
    PROVE  KeyboardInv'
<1> DEFINE b == StoreAll(buff, Codes)
           f == FetchKeyCode(b)
           next == PutScanCode(dec, Head(line)).dec
<1>1. /\ line # << >> /\ dec' = next /\ buff' = f
      /\ IF Fetched(b) # NoKey THEN NotifyAll(Fetched(b)) ELSE UNCHANGED << kern, got >>
      /\ UNCHANGED << tick, lost >>
  BY DEF KeyboardHandler, Byte
<1>2. TypingInv'
  <2>1. TypingInv /\ [TypingNext]_typingVars
    BY DEF KeyboardInv, KeyboardHandler, TypingNext
  <2> QED
    BY <2>1, TypingInvStep
<1>3. /\ Ring(f, KeyCode) /\ f.count <= 1 /\ (next.pause # 0 => f.count = 0)
      /\ Fetched(b) = NoKey => f.count = 0
      /\ Fetched(b) \in KeyCode \union {NoKey}
  BY <1>1, Stored
<1> HIDE DEF b, f, next
<1>4. Ring(buff, KeyCode)' /\ FewCodes'
  BY <1>1, <1>3 DEF FewCodes, Ring, Place
<1>5. CASE Fetched(b) # NoKey
  <2>1. /\ kern' = WaittingToReady(kern, gKeyWait)
        /\ got' = [t \in Node |-> IF t \in Waiting THEN Fetched(b) ELSE NoKey]
    BY <1>1, <1>5 DEF NotifyAll
  <2>2. Settled(kern') /\ IdsOK(kern') /\ EventsOK(kern') /\ kern'.queue[gKeyWait] = << >>
    BY <2>1, Woken
  <2>3. TaskInv'
    <3>1. tick' = tick /\ lost' = lost
      BY <1>1
    <3>2. tick \in 0 .. TIMER_TICKS - 1 /\ lost \subseteq TaskNode
      BY DEF KeyboardInv, TaskInv
    <3>3. Settled(kern)'
      BY <2>2
    <3> QED
      BY <3>1, <3>2, <3>3 DEF TaskInv
  <2>4. got' \in [Node -> KeyCode \union {NoKey}]
    BY <1>3, <2>1
  <2>5. IdsOK(kern)' /\ EventsOK(kern)' /\ NoReaderBesideCode'
    BY <2>2 DEF NoReaderBesideCode
  <2> QED
    BY <1>2, <1>4, <2>3, <2>4, <2>5 DEF KeyboardInv
<1>6. CASE Fetched(b) = NoKey
  <2>1. kern' = kern /\ got' = got /\ tick' = tick /\ lost' = lost
    BY <1>1, <1>6
  <2>2. TaskInv' /\ IdsOK(kern)' /\ EventsOK(kern)'
    BY <2>1 DEF KeyboardInv, TaskInv
  <2>3. NoReaderBesideCode'
    BY <1>1, <1>3, <1>6 DEF NoReaderBesideCode
  <2> QED
    BY <1>2, <1>4, <2>1, <2>2, <2>3 DEF KeyboardInv
<1> QED
  BY <1>5, <1>6

LEMMA ReadKeyKeeps ==
    ASSUME KeyboardInv, ReadKey
    PROVE  KeyboardInv'
<1> DEFINE f == FetchKeyCode(buff)
           c == Fetched(buff)
<1>1. /\ UserMode /\ buff' = f /\ UNCHANGED << tick, lost, typingVars >>
      /\ IF c # NoKey
         THEN /\ kern' = WaittingToReady(kern, gKeyWait)
              /\ got' = [t \in Node |-> IF t \in Waiting \union {kern.cur} THEN c ELSE NoKey]
         ELSE /\ kern' = IF kern.heap = 0 THEN kern ELSE WaitEvent(kern, gKeyWait)
              /\ got' = [t \in Node |-> NoKey]
  BY DEF ReadKey
<1>2. TypingInv'
  <2>1. TypingInv /\ [TypingNext]_typingVars
    BY <1>1 DEF KeyboardInv
  <2> QED
    BY <2>1, TypingInvStep
<1>3. /\ Ring(f, KeyCode) /\ buff.count \in Nat
      /\ f.count = IF buff.count = 0 THEN 0 ELSE buff.count - 1
      /\ c # NoKey <=> buff.count # 0
      /\ c \in KeyCode \union {NoKey}
  BY FetchAny DEF KeyboardInv
<1> HIDE DEF f, c
<1>4. Ring(buff, KeyCode)' /\ FewCodes'
  <2>1. buff.count <= 1 /\ (dec.pause # 0 => buff.count = 0)
    BY DEF KeyboardInv, FewCodes
  <2>2. f.count <= 1 /\ (dec.pause # 0 => f.count = 0)
    BY <1>3, <2>1
  <2>3. dec' = dec
    BY <1>1 DEF typingVars
  <2> QED
    BY <1>1, <1>3, <2>2, <2>3 DEF FewCodes, Ring, Place
<1>5. got' \in [Node -> KeyCode \union {NoKey}]
  <2>1. CASE c # NoKey
    BY <1>1, <1>3, <2>1
  <2>2. CASE c = NoKey
    BY <1>1, <2>2
  <2> QED
    BY <2>1, <2>2
<1>6. Settled(kern) /\ IdsOK(kern) /\ EventsOK(kern) /\ tick \in 0 .. TIMER_TICKS - 1 /\ lost \subseteq TaskNode
  BY DEF KeyboardInv, TaskInv
<1>7. Settled(kern') /\ IdsOK(kern') /\ EventsOK(kern')
  <2>1. CASE c # NoKey
    BY <1>1, <2>1, Woken
  <2>2. CASE c = NoKey /\ kern.heap = 0
    BY <1>1, <1>6, <2>2
  <2>3. CASE c = NoKey /\ kern.heap # 0
    <3>1. kern' = WaitEvent(kern, gKeyWait) /\ kern.cur # IdleTask
      BY <1>1, <2>3 DEF UserMode
    <3> QED
      BY <2>3, <3>1, WaitersStay
  <2> QED
    BY <2>1, <2>2, <2>3
<1>8. TaskInv' /\ IdsOK(kern)' /\ EventsOK(kern)'
  <2>1. tick' = tick /\ lost' = lost
    BY <1>1
  <2>2. Settled(kern)'
    BY <1>7
  <2> QED
    BY <1>6, <1>7, <2>1, <2>2 DEF TaskInv
<1>9. NoReaderBesideCode'
  <2>1. CASE c # NoKey
    BY <1>1, <2>1, Woken DEF NoReaderBesideCode
  <2>2. CASE c = NoKey
    BY <1>1, <1>3, <2>2 DEF NoReaderBesideCode
  <2> QED
    BY <2>1, <2>2
<1> QED
  BY <1>2, <1>4, <1>5, <1>8, <1>9 DEF KeyboardInv

LEMMA KeyboardInvStep ==
    ASSUME KeyboardInv, [KeyboardNext]_keyboardVars
    PROVE  KeyboardInv'
<1>1. ASSUME UNCHANGED << taskVars, buff, got >>, [TypingNext]_typingVars,
             dec' = dec
      PROVE  KeyboardInv'
  <2>1. TypingInv'
    BY <1>1, TypingInvStep DEF KeyboardInv
  <2>2. kern' = kern /\ tick' = tick /\ lost' = lost /\ buff' = buff /\ got' = got
    BY <1>1 DEF taskVars
  <2>3. TaskInv' /\ IdsOK(kern)' /\ EventsOK(kern)' /\ NoReaderBesideCode'
    BY <2>2 DEF KeyboardInv, TaskInv, NoReaderBesideCode
  <2>4. Ring(buff, KeyCode)' /\ FewCodes'
    BY <1>1, <2>2 DEF KeyboardInv, FewCodes, Ring, Place
  <2> QED
    BY <2>1, <2>2, <2>3, <2>4 DEF KeyboardInv
<1>2. ASSUME [TaskNext]_taskVars, UNCHANGED << typingVars, buff, got >>
      PROVE  KeyboardInv'
  <2>1. TaskInv /\ IdsOK(kern) /\ EventsOK(kern)
    BY DEF KeyboardInv
  <2>2. TaskInv'
    BY <1>2, <2>1, NextInv
  <2>3. IdsOK(kern') /\ EventsOK(kern') /\ Kept(kern, kern', {})
    BY <1>2, <2>1, StepIds, StepEvents
  <2>4. kern'.queue[gKeyWait] = kern.queue[gKeyWait]
    BY <2>3, KeyQueue DEF Kept
  <2>5. buff' = buff /\ got' = got /\ dec' = dec
    BY <1>2 DEF typingVars
  <2>6. TypingInv'
    BY <1>2, TypingInvStep DEF KeyboardInv
  <2>7. NoReaderBesideCode' /\ IdsOK(kern)' /\ EventsOK(kern)'
    BY <2>3, <2>4, <2>5 DEF KeyboardInv, NoReaderBesideCode
  <2>8. Ring(buff, KeyCode)' /\ FewCodes'
    BY <2>5 DEF KeyboardInv, FewCodes, Ring, Place
  <2> QED
    BY <2>2, <2>5, <2>6, <2>7, <2>8 DEF KeyboardInv
<1>3. ASSUME NEW k \in Key, Press(k) \/ Release(k), UNCHANGED << taskVars, buff, got >>
      PROVE  KeyboardInv'
  <2>1. TypingNext /\ dec' = dec
    BY <1>3 DEF TypingNext, Press, Release
  <2> QED
    BY <1>1, <1>3, <2>1
<1>4. CASE KeyboardHandler
  BY <1>4, HandlerKeeps
<1>5. CASE ReadKey
  BY <1>5, ReadKeyKeeps
<1>6. CASE /\ \/ TimerHandler \/ Exit \/ TaskEntryEnd \/ Fault
              \/ \E name \in Name \union {IdleName} : Wait(name)
              \/ \E name \in Name, pri \in Priority : RegApp(name, pri)
           /\ UNCHANGED << typingVars, buff, got >>
  BY <1>2, <1>6 DEF TaskNext
<1>7. CASE UNCHANGED keyboardVars
  BY <1>2, <1>7 DEF keyboardVars
<1> QED
  BY <1>3, <1>4, <1>5, <1>6, <1>7 DEF KeyboardNext

LEMMA KeyboardInvariance == KeyboardSpec => []KeyboardInv
<1>1. KeyboardModInit => KeyboardInv
  BY KeyboardInvInit
<1>2. KeyboardInv /\ [KeyboardNext]_keyboardVars => KeyboardInv'
  BY KeyboardInvStep
<1> QED
  BY <1>1, <1>2, PTL DEF KeyboardSpec

-----------------------------------------------------------------------------
(* The properties of module Keyboard that follow *)

\* The variables of the scheduler, the decoder and the ring keep their types: no
\* index of gKCBuff leaves the array (keyboard.c:139-172).
THEOREM KeyboardTypes == KeyboardSpec => []KeyboardTypeOK
<1>1. KeyboardInv => KeyboardTypeOK
  BY DEF KeyboardInv, TaskInv, Settled, Between, TaskTypeOK, TypingInv, Ring,
         KeyboardTypeOK
<1> QED
  BY <1>1, KeyboardInvariance, PTL

\* No task waits for a key while there is one, whatever the keys are and in
\* whatever order tasks read (keyboard.c:449-480).
THEOREM NoReaderSleeps == KeyboardSpec => []NoReaderBesideCode
<1>1. KeyboardInv => NoReaderBesideCode
  BY DEF KeyboardInv
<1> QED
  BY <1>1, KeyboardInvariance, PTL

\* A buffer of two codes, which is what KeyboardModInit makes, is large enough
\* for any typing: none is overwritten (keyboard.c:154-172, 446). A buffer of one
\* is too small for Pause.
THEOREM TwoCodesSuffice ==
    ASSUME KeyMax >= 2
    PROVE  KeyboardSpec => []NothingOverwritten
<1>1. KeyboardInv => NothingOverwritten
  <2>1. SUFFICES ASSUME KeyboardInv, line # << >>
                 PROVE  buff.count + Len(Codes) <= KeyMax
    BY DEF NothingOverwritten
  <2>0. buff.count \in Nat /\ KeyMax \in Nat
    BY <2>1, BufferAssumption DEF KeyboardInv, Ring, Buffers
  <2>2. buff.count <= 1 /\ (dec.pause # 0 => buff.count = 0)
    BY <2>1 DEF KeyboardInv, FewCodes
  <2>3. \/ Codes = << >>
        \/ \E c \in KeyCode : Codes = << c >>
        \/ dec.pause = 5 /\ \E x, y \in KeyCode : Codes = << x, y >>
    BY <2>1, ByteCodes DEF KeyboardInv
  <2>4. \/ Len(Codes) = 0 \/ Len(Codes) = 1 \/ (dec.pause = 5 /\ Len(Codes) = 2)
    BY <2>3
  <2>5. buff.count + Len(Codes) <= 2
    <3>1. CASE Len(Codes) = 0
      BY <2>0, <2>2, <3>1
    <3>2. CASE Len(Codes) = 1
      BY <2>0, <2>2, <3>2
    <3>3. CASE dec.pause = 5 /\ Len(Codes) = 2
      <4>1. buff.count = 0
        BY <2>2, <3>3
      <4> QED
        BY <3>3, <4>1
    <3> QED
      BY <2>4, <3>1, <3>2, <3>3
  <2>6. KeyMax >= 2
    OBVIOUS
  <2>7. Len(Codes) \in Nat
    BY <2>4
  <2> QED
    BY <2>0, <2>5, <2>6, <2>7
<1> QED
  BY <1>1, KeyboardInvariance, PTL

\* Whoever is woken in ReadKey is woken by the handler or by a reader that holds a
\* code, and has got it (keyboard.c:359-377, task.c:359-383).
THEOREM WokenGetCode == KeyboardSpec => WokenWithCode
<1>1. ASSUME KeyboardInv, [KeyboardNext]_keyboardVars, NEW t \in TaskNode,
             t \in Waiting, t \notin Members(kern'.queue[gKeyWait])
      PROVE  got'[t] # NoKey
  <2>1. t \in Node
    BY DEF Node
  <2>2. ASSUME kern'.queue[gKeyWait] = kern.queue[gKeyWait] PROVE FALSE
    BY <1>1, <2>2 DEF Waiting
  <2>3. CASE KeyboardHandler
    <3> DEFINE c == Fetched(StoreAll(buff, Codes))
    <3>1. IF c # NoKey THEN NotifyAll(c) ELSE kern' = kern
      BY <2>3 DEF KeyboardHandler
    <3> HIDE DEF c
    <3>2. c # NoKey
      BY <2>2, <3>1
    <3> QED
      BY <1>1, <2>1, <3>1, <3>2 DEF NotifyAll
  <2>4. CASE ReadKey
    <3>1. CASE Fetched(buff) # NoKey
      BY <1>1, <2>1, <2>4, <3>1 DEF ReadKey
    <3>2. CASE Fetched(buff) = NoKey /\ kern.heap = 0
      BY <2>2, <2>4, <3>2 DEF ReadKey
    <3>3. CASE Fetched(buff) = NoKey /\ kern.heap # 0
      <4>1. kern' = WaitEvent(kern, gKeyWait) /\ kern.cur # IdleTask
        BY <2>4, <3>3 DEF ReadKey, UserMode
      <4> QED
        BY <1>1, <3>3, <4>1, WaitersStay
    <3> QED
      BY <3>1, <3>2, <3>3
  <2>5. ASSUME [TaskNext]_taskVars PROVE FALSE
    <3>1. Kept(kern, kern', {})
      BY <1>1, <2>5, StepIds DEF KeyboardInv
    <3> QED
      BY <2>2, <3>1, KeyQueue DEF Kept
  <2>6. CASE UNCHANGED taskVars
    BY <2>5, <2>6
  <2> QED
    BY <1>1, <2>3, <2>4, <2>5, <2>6 DEF KeyboardNext, TaskNext, keyboardVars
<1>2. KeyboardInv /\ [KeyboardNext]_keyboardVars
        => [\A t \in TaskNode : t \in Waiting \ Members(kern'.queue[gKeyWait])
              => got'[t] # NoKey]_keyboardVars
  BY <1>1
<1> QED
  BY <1>2, KeyboardInvariance, PTL DEF KeyboardSpec, WokenWithCode
=============================================================================
