-------------------------- MODULE H264Framer_proofs --------------------------
(***************************************************************************)
(* The framer proved for every file that fits a bank of the parser and the *)
(* reader's buffer: TypeOK, SetsAreUnits, PicturesEnd, and that every step *)
(* is one that NalSource allows.                                           *)
(*                                                                         *)
(* The first part is about the NAL units of a file, a recursive function   *)
(* of the place in it; the second about the bytes of a start code; the     *)
(* third says what reading the file comes to when it fits.  Then come the  *)
(* inductive invariant and, for each action, that it is kept.              *)
(***************************************************************************)
EXTENDS H264Framer, LeastNumber, SequenceTheorems, TLAPS

(* What a file holds, and what the parser takes for a byte of it.          *)
Bytes == 0 .. 255
Cells == Bytes \cup {NotSeen, Stale}

-----------------------------------------------------------------------------
(* The NAL units of a file, unit by unit.                                  *)

(* The least of a set of numbers.                                          *)
LEMMA FirstIsLeast ==
  ASSUME NEW S, S \subseteq Nat, S # {}
  PROVE  First(S) \in S /\ \A j \in S : First(S) <= j
BY Least, Zenon DEF First

Later(f, i) == {c \in CodesAt(f) : c >= i}
Behind(f, i) == First(Later(f, i)) + CodeSize(f, First(Later(f, i)))

UnitsTo(f, u, i) ==
  IF Later(f, i) = {} THEN <<SubSeq(f, i, Len(f))>>
  ELSE <<SubSeq(f, i, First(Later(f, i)) - 1)>> \o u[Behind(f, i)]

AreUnits(f, m, u) == u = [i \in m .. Len(f) + 1 |-> UnitsTo(f, u, i)]

LEMMA UnitsFromIsChosen ==
  ASSUME NEW f
  PROVE  UnitsFrom(f) = CHOOSE u : AreUnits(f, 1, u)
BY Zenon DEF UnitsFrom, AreUnits, UnitsTo, Later, Behind

(* A start code and the byte behind it lie within the file.                *)
LEMMA CodeWithin ==
  ASSUME NEW f \in Seq(Bytes), NEW c \in CodesAt(f)
  PROVE  /\ c \in Nat /\ c >= 1 /\ c + 3 <= Len(f)
         /\ CodeSize(f, c) \in {3, 4}
<1>1. Len(f) \in Nat
  OBVIOUS
<1>2. c \in 1 .. Len(f) - 3
  BY DEF CodesAt
<1>3. c \in Nat /\ c >= 1 /\ c + 3 <= Len(f)
  BY <1>1, <1>2
<1> QED BY <1>3 DEF CodeSize

(* Behind the first code from i on comes the next unit.                    *)
LEMMA BehindWithin ==
  ASSUME NEW f \in Seq(Bytes), NEW i \in 1 .. Len(f) + 1, Later(f, i) # {}
  PROVE  /\ First(Later(f, i)) \in CodesAt(f)
         /\ i <= First(Later(f, i))
         /\ \A c \in CodesAt(f) : c >= i => First(Later(f, i)) <= c
         /\ Behind(f, i) \in 1 .. Len(f) + 1
         /\ Behind(f, i) >= First(Later(f, i)) + 3
<1> DEFINE c == First(Later(f, i))
<1>1. Later(f, i) \subseteq Nat
  BY CodeWithin DEF Later
<1>2. c \in Later(f, i) /\ \A j \in Later(f, i) : c <= j
  BY <1>1, FirstIsLeast
<1>3. c \in CodesAt(f) /\ c >= i
  BY <1>2 DEF Later
<1>4. \A d \in CodesAt(f) : d >= i => c <= d
  BY <1>2 DEF Later
<1>5. c \in Nat /\ c >= 1 /\ c + 3 <= Len(f) /\ CodeSize(f, c) \in {3, 4}
  BY <1>3, CodeWithin
<1>6. Behind(f, i) = c + CodeSize(f, c)
  BY DEF Behind
<1>7. Len(f) \in Nat /\ i \in Nat
  OBVIOUS
<1> HIDE DEF c
<1>8. Behind(f, i) \in 1 .. Len(f) + 1 /\ Behind(f, i) >= c + 3
  BY <1>5, <1>6, <1>7
<1>9. i <= c
  BY <1>3, <1>5, <1>7
<1> QED BY <1>3, <1>4, <1>8, <1>9 DEF c

(* The function can be built from its end.                                 *)
LEMMA UnitsExist ==
  ASSUME NEW f \in Seq(Bytes), NEW k \in 0 .. Len(f)
  PROVE  \E u : AreUnits(f, Len(f) + 1 - k, u)
<1> DEFINE L == Len(f) + 1
<1>0. L \in Nat /\ L >= 1 /\ Len(f) \in Nat
  OBVIOUS
<1> DEFINE I == {n \in 0 .. Len(f) : ~\E u : AreUnits(f, L - n, u)}
<1>1. ASSUME NEW n \in I
      PROVE  \E m \in I : m < n
  <2> DEFINE at == L - n
  <2>1. n \in Nat /\ n <= Len(f) /\ at \in 1 .. L /\ ~\E u : AreUnits(f, at, u)
    BY <1>0
  <2> HIDE DEF at
  <2>2. CASE n = 0
    <3> DEFINE u == [i \in L .. L |-> UnitsTo(f, f, i)]
    <3>1. ASSUME NEW i \in L .. L
          PROVE  UnitsTo(f, f, i) = UnitsTo(f, u, i)
      <4>1. Later(f, i) = {}
        <5> SUFFICES ASSUME NEW c \in CodesAt(f), c >= i PROVE FALSE
          BY DEF Later
        <5>1. c \in Nat /\ c + 3 <= Len(f)
          BY CodeWithin
        <5> QED BY <1>0, <5>1
      <4> QED BY <4>1 DEF UnitsTo
    <3> HIDE DEF UnitsTo
    <3>2. u = [i \in L .. L |-> UnitsTo(f, u, i)]
      BY <3>1, Zenon
    <3>3. at = L
      BY <1>0, <2>2 DEF at
    <3>4. AreUnits(f, at, u)
      BY <3>2, <3>3 DEF AreUnits
    <3> QED BY <2>1, <3>4
  <2>3. CASE n # 0
    <3>1. n - 1 \in 0 .. Len(f) /\ n - 1 < n /\ L - (n - 1) = at + 1
      BY <1>0, <2>1, <2>3 DEF at
    <3> SUFFICES ASSUME n - 1 \notin I PROVE FALSE
      BY <3>1
    <3>2. PICK u : AreUnits(f, at + 1, u)
      BY <3>1
    <3> DEFINE v == [i \in at .. L |-> IF i = at THEN UnitsTo(f, u, i) ELSE u[i]]
    <3>3. \A i \in at + 1 .. L : v[i] = u[i]
      BY <1>0, <2>1
    <3>4. v = [i \in at .. L |-> v[i]]
      OBVIOUS
    <3>5. v[at] = UnitsTo(f, u, at)
      BY <1>0, <2>1
    <3> HIDE DEF v
    <3>6. ASSUME NEW i \in at .. L
          PROVE  v[i] = UnitsTo(f, v, i)
      <4>1. i \in 1 .. Len(f) + 1
        BY <1>0, <2>1
      <4>2. ASSUME Later(f, i) # {}
            PROVE  Behind(f, i) \in at + 1 .. L
        <5>1. /\ First(Later(f, i)) \in CodesAt(f) /\ i <= First(Later(f, i))
              /\ Behind(f, i) \in 1 .. Len(f) + 1
              /\ Behind(f, i) >= First(Later(f, i)) + 3
          BY <4>1, <4>2, BehindWithin
        <5>2. First(Later(f, i)) \in Nat
          BY <5>1, CodeWithin
        <5> QED BY <1>0, <2>1, <5>1, <5>2
      <4>3. UnitsTo(f, u, i) = UnitsTo(f, v, i)
        BY <3>3, <4>2, Zenon DEF UnitsTo
      <4>4. CASE i = at
        BY <3>5, <4>3, <4>4
      <4>5. CASE i # at
        <5>1. i \in at + 1 .. L
          BY <1>0, <2>1, <4>5
        <5>2. u[i] = UnitsTo(f, u, i)
          BY <3>2, <5>1, Zenon DEF AreUnits
        <5> QED BY <3>3, <4>3, <5>1, <5>2
      <4> QED BY <4>4, <4>5
    <3>7. AreUnits(f, at, v)
      BY <3>4, <3>6 DEF AreUnits
    <3> QED BY <2>1, <3>7
  <2> QED BY <2>2, <2>3
<1>2. I = {}
  <2>1. I \subseteq Nat
    BY <1>0
  <2> HIDE DEF I
  <2> QED BY <1>1, <2>1, NoLeast
<1> QED BY <1>2

(* What it is at one place, from what it is further behind.                *)
LEMMA UnitsStep ==
  ASSUME NEW f \in Seq(Bytes), NEW i \in 1 .. Len(f) + 1
  PROVE  UnitsFrom(f)[i] = UnitsTo(f, UnitsFrom(f), i)
<1>1. Len(f) \in 0 .. Len(f) /\ Len(f) + 1 - Len(f) = 1
  <2>1. Len(f) \in Nat
    OBVIOUS
  <2> QED BY <2>1
<1>2. \E u : AreUnits(f, 1, u)
  BY <1>1, UnitsExist
<1>3. AreUnits(f, 1, UnitsFrom(f))
  BY <1>2, UnitsFromIsChosen, Zenon
<1> QED BY <1>3, Zenon DEF AreUnits

(* No code from i on: what is left is one unit.                            *)
LEMMA LastUnit ==
  ASSUME NEW f \in Seq(Bytes), NEW i \in 1 .. Len(f) + 1,
         \A c \in CodesAt(f) : c < i
  PROVE  UnitsFrom(f)[i] = <<SubSeq(f, i, Len(f))>>
<1>1. Later(f, i) = {}
  <2> SUFFICES ASSUME NEW c \in CodesAt(f), c >= i PROVE FALSE
    BY DEF Later
  <2>1. c \in Nat /\ c < i /\ i \in Nat
    BY CodeWithin
  <2> QED BY <2>1
<1> QED BY <1>1, UnitsStep, Zenon DEF UnitsTo

(* The first code from i on ends a unit.                                   *)
LEMMA UnitBeforeCode ==
  ASSUME NEW f \in Seq(Bytes), NEW i \in 1 .. Len(f) + 1,
         NEW c \in CodesAt(f), i <= c, \A d \in CodesAt(f) : d >= i => d >= c
  PROVE  /\ c + CodeSize(f, c) \in 1 .. Len(f) + 1
         /\ UnitsFrom(f)[i] = <<SubSeq(f, i, c - 1)>> \o UnitsFrom(f)[c + CodeSize(f, c)]
<1> DEFINE g == First(Later(f, i))
<1>1. c \in Nat /\ i \in Nat
  BY CodeWithin
<1>2. Later(f, i) # {}
  BY <1>1 DEF Later
<1>3. /\ g \in CodesAt(f) /\ i <= g /\ Behind(f, i) \in 1 .. Len(f) + 1
      /\ \A d \in CodesAt(f) : d >= i => g <= d
  BY <1>2, BehindWithin
<1>4. g \in Nat
  BY <1>3, CodeWithin
<1>5. Behind(f, i) = g + CodeSize(f, g)
  BY DEF Behind
<1> HIDE DEF g
<1>6. g <= c /\ c <= g
  BY <1>1, <1>3, <1>4
<1>7. g = c
  BY <1>1, <1>4, <1>6
<1>8. UnitsFrom(f)[i] = <<SubSeq(f, i, g - 1)>> \o UnitsFrom(f)[Behind(f, i)]
  BY <1>2, UnitsStep, Zenon DEF UnitsTo, g
<1> QED BY <1>3, <1>5, <1>7, <1>8

IsUnits(us) == us \in Seq(Seq(Bytes)) /\ Len(us) >= 1

(* The first unit from i on begins at i, if it is not empty.               *)
BeginsAt(f, i, us) == us[1] # <<>> => i \in 1 .. Len(f) /\ us[1][1] = f[i]

(* Each unit but the first needs a start code and a byte behind it.        *)
HasRoom(f, i, us) == Len(us) > 1 => 3 * (Len(us) - 1) <= Len(f) - i

LEMMA SliceOfFile ==
  ASSUME NEW f \in Seq(Bytes), NEW i \in 1 .. Len(f) + 1, NEW j \in Nat,
         j <= Len(f)
  PROVE  /\ SubSeq(f, i, j) \in Seq(Bytes)
         /\ Len(SubSeq(f, i, j)) = IF i <= j THEN j - i + 1 ELSE 0
         /\ \A k \in 1 .. j - i + 1 : SubSeq(f, i, j)[k] = f[i + k - 1]
<1>1. i \in Int /\ i >= 1 /\ j \in Int /\ Len(f) \in Nat
  OBVIOUS
<1>2. \A k \in i .. j : f[k] \in Bytes
  <2> SUFFICES ASSUME NEW k \in i .. j PROVE f[k] \in Bytes
    OBVIOUS
  <2>1. k \in 1 .. Len(f)
    BY <1>1
  <2> QED BY <2>1, ElementOfSeq
<1> QED BY <1>1, <1>2, SubSeqProperties

LEMMA FirstByte ==
  ASSUME NEW f \in Seq(Bytes), NEW i \in 1 .. Len(f) + 1, NEW j \in Nat,
         j <= Len(f), SubSeq(f, i, j) # <<>>
  PROVE  i \in 1 .. Len(f) /\ SubSeq(f, i, j)[1] = f[i]
<1>1. i \in Nat /\ Len(f) \in Nat
  OBVIOUS
<1>2. i <= j
  <2> SUFFICES ASSUME i > j PROVE FALSE
    BY <1>1
  <2> QED BY <1>1, SubSeqEmpty
<1>3. 1 \in 1 .. j - i + 1 /\ i + 1 - 1 = i
  BY <1>1, <1>2
<1>4. SubSeq(f, i, j)[1] = f[i + 1 - 1]
  BY <1>3, SliceOfFile
<1> QED BY <1>1, <1>2, <1>3, <1>4

LEMMA UnitsProperties ==
  ASSUME NEW f \in Seq(Bytes), NEW i \in 1 .. Len(f) + 1
  PROVE  /\ IsUnits(UnitsFrom(f)[i])
         /\ BeginsAt(f, i, UnitsFrom(f)[i])
         /\ HasRoom(f, i, UnitsFrom(f)[i])
<1> DEFINE L == Len(f) + 1
           P(j) == /\ IsUnits(UnitsFrom(f)[j])
                   /\ BeginsAt(f, j, UnitsFrom(f)[j])
                   /\ HasRoom(f, j, UnitsFrom(f)[j])
           I == {n \in 0 .. Len(f) : ~P(L - n)}
<1>0. L \in Nat /\ L >= 1 /\ Len(f) \in Nat
  OBVIOUS
<1>1. ASSUME NEW n \in I
      PROVE  \E m \in I : m < n
  <2> DEFINE at == L - n
  <2>1. n \in Nat /\ n <= Len(f) /\ at \in 1 .. Len(f) + 1 /\ ~P(at)
    BY <1>0
  <2> HIDE DEF at, P
  <2>2. CASE Later(f, at) = {}
    <3>1. UnitsFrom(f)[at] = <<SubSeq(f, at, Len(f))>>
      BY <2>1, <2>2, UnitsStep, Zenon DEF UnitsTo
    <3>2. SubSeq(f, at, Len(f)) \in Seq(Bytes)
      BY <1>0, <2>1, SliceOfFile
    <3>3. SubSeq(f, at, Len(f)) # <<>> => at \in 1 .. Len(f) /\ SubSeq(f, at, Len(f))[1] = f[at]
      BY <1>0, <2>1, FirstByte
    <3>4. IsUnits(UnitsFrom(f)[at]) /\ HasRoom(f, at, UnitsFrom(f)[at])
      BY <3>1, <3>2 DEF IsUnits, HasRoom
    <3>5. BeginsAt(f, at, UnitsFrom(f)[at])
      BY <3>1, <3>3 DEF BeginsAt
    <3> QED BY <2>1, <3>4, <3>5 DEF P
  <2>3. CASE Later(f, at) # {}
    <3> DEFINE c == First(Later(f, at))
               b == Behind(f, at)
               one == SubSeq(f, at, c - 1)
               rest == UnitsFrom(f)[b]
    <3>1. c \in CodesAt(f) /\ at <= c /\ b \in 1 .. Len(f) + 1 /\ b >= c + 3
      BY <2>1, <2>3, BehindWithin
    <3>2. c \in Nat /\ c >= 1 /\ c + 3 <= Len(f)
      BY <3>1, CodeWithin
    <3>3. UnitsFrom(f)[at] = <<one>> \o rest
      BY <2>1, <2>3, UnitsStep, Zenon DEF UnitsTo
    <3> HIDE DEF c, b
    <3>4. one \in Seq(Bytes) /\ (one # <<>> => at \in 1 .. Len(f) /\ one[1] = f[at])
      <4>1. c - 1 \in Nat /\ c - 1 <= Len(f)
        BY <1>0, <3>2
      <4> QED BY <2>1, <4>1, SliceOfFile, FirstByte
    <3> HIDE DEF one, rest
    <3>5. CASE ~P(b)
      <4>1. L - b \in 0 .. Len(f) /\ L - b < n /\ L - (L - b) = b
        BY <1>0, <2>1, <3>1, <3>2 DEF at
      <4> QED BY <3>5, <4>1
    <3>6. CASE P(b)
      <4>1. rest \in Seq(Seq(Bytes)) /\ Len(rest) >= 1
            /\ (Len(rest) > 1 => 3 * (Len(rest) - 1) <= Len(f) - b)
        BY <3>6 DEF P, IsUnits, HasRoom, rest
      <4>2. <<one>> \in Seq(Seq(Bytes)) /\ Len(<<one>>) = 1 /\ <<one>>[1] = one
        BY <3>4
      <4>3. /\ <<one>> \o rest \in Seq(Seq(Bytes))
            /\ Len(<<one>> \o rest) = 1 + Len(rest)
            /\ (<<one>> \o rest)[1] = one
        BY <4>1, <4>2, ConcatProperties
      <4>4. IsUnits(UnitsFrom(f)[at])
        BY <3>3, <4>1, <4>3 DEF IsUnits
      <4>5. BeginsAt(f, at, UnitsFrom(f)[at])
        BY <3>3, <3>4, <4>3 DEF BeginsAt
      <4>6. HasRoom(f, at, UnitsFrom(f)[at])
        <5>1. Len(rest) \in Nat /\ Len(UnitsFrom(f)[at]) = 1 + Len(rest)
          BY <3>3, <4>1, <4>3
        <5>2. 3 * Len(rest) <= Len(f) - at
          BY <1>0, <2>1, <3>1, <3>2, <4>1, <5>1
        <5> QED BY <5>1, <5>2 DEF HasRoom
      <4> QED BY <2>1, <4>4, <4>5, <4>6 DEF P
    <3> QED BY <3>5, <3>6
  <2> QED BY <2>2, <2>3
<1>2. I = {}
  <2>1. I \subseteq Nat
    BY <1>0
  <2> HIDE DEF I
  <2> QED BY <1>1, <2>1, NoLeast
<1>3. L - i \in 0 .. Len(f) /\ L - (L - i) = i
  BY <1>0
<1> HIDE DEF P
<1>4. P(i)
  BY <1>2, <1>3
<1> QED BY <1>4 DEF P

-----------------------------------------------------------------------------
(* The bytes of start codes.                                               *)

Four(f, x) == SubSeq(f, x + 1, x + 4)

LEMMA FourBytes ==
  ASSUME NEW f \in Seq(Bytes), NEW x \in Nat, x + 4 <= Len(f)
  PROVE  /\ Four(f, x) \in Seq(Bytes) /\ Len(Four(f, x)) = 4
         /\ Four(f, x)[1] = f[x + 1] /\ Four(f, x)[2] = f[x + 2]
         /\ Four(f, x)[3] = f[x + 3] /\ Four(f, x)[4] = f[x + 4]
         /\ \A k \in 1 .. 4 : f[x + k] \in Bytes
<1> DEFINE i == x + 1
           j == x + 4
<1>1. Len(f) \in Nat /\ i \in 1 .. Len(f) + 1 /\ j \in Nat /\ j <= Len(f)
      /\ j - i + 1 = 4 /\ i <= j
  OBVIOUS
<1>2. Four(f, x) = SubSeq(f, i, j)
  BY DEF Four
<1>3. ASSUME NEW k \in 1 .. 4
      PROVE  f[x + k] \in Bytes
  <2>1. x + k \in 1 .. Len(f)
    BY <1>1
  <2> QED BY <2>1, ElementOfSeq
<1>4. i + 1 - 1 = x + 1 /\ i + 2 - 1 = x + 2 /\ i + 3 - 1 = x + 3 /\ i + 4 - 1 = x + 4
  OBVIOUS
<1> HIDE DEF i, j
<1>5. /\ SubSeq(f, i, j) \in Seq(Bytes) /\ Len(SubSeq(f, i, j)) = 4
      /\ \A k \in 1 .. 4 : SubSeq(f, i, j)[k] = f[i + k - 1]
  BY <1>1, SliceOfFile
<1>6. /\ SubSeq(f, i, j)[1] = f[x + 1] /\ SubSeq(f, i, j)[2] = f[x + 2]
      /\ SubSeq(f, i, j)[3] = f[x + 3] /\ SubSeq(f, i, j)[4] = f[x + 4]
  BY <1>4, <1>5
<1> QED BY <1>2, <1>3, <1>5, <1>6

(* A start code in terms of its bytes.                                     *)
CodeBytes(f, x) ==
  /\ f[x + 1] = 0 /\ f[x + 2] = 0
  /\ f[x + 3] = 1 \/ (f[x + 3] = 0 /\ f[x + 4] = 1)

LEMMA LongCodeBytes ==
  ASSUME NEW s \in Seq(Bytes), Len(s) = 4
  PROVE  /\ s = LongStartCode <=> s[1] = 0 /\ s[2] = 0 /\ s[3] = 0 /\ s[4] = 1
         /\ SubSeq(s, 1, 3) = ShortStartCode <=> s[1] = 0 /\ s[2] = 0 /\ s[3] = 1
<1>1. s = LongStartCode <=> s[1] = 0 /\ s[2] = 0 /\ s[3] = 0 /\ s[4] = 1
  <2>1. LongStartCode \in Seq(Bytes) /\ Len(LongStartCode) = 4
        /\ LongStartCode[1] = 0 /\ LongStartCode[2] = 0
        /\ LongStartCode[3] = 0 /\ LongStartCode[4] = 1
    BY DEF LongStartCode, Bytes
  <2>2. ASSUME s[1] = 0, s[2] = 0, s[3] = 0, s[4] = 1
        PROVE  s = LongStartCode
    <3>1. \A k \in 1 .. Len(s) : s[k] = LongStartCode[k]
      BY <2>1, <2>2
    <3> QED BY <2>1, <3>1, SeqEqual
  <2> QED BY <2>1, <2>2
<1> DEFINE t == SubSeq(s, 1, 3)
<1>2. t \in Seq(Bytes) /\ Len(t) = 3 /\ t[1] = s[1] /\ t[2] = s[2] /\ t[3] = s[3]
  <2> DEFINE m == 1
             n == 3
  <2>1. \A i \in m .. n : s[i] \in Bytes
    <3> SUFFICES ASSUME NEW i \in m .. n PROVE s[i] \in Bytes
      OBVIOUS
    <3>1. i \in 1 .. Len(s)
      OBVIOUS
    <3> QED BY <3>1, ElementOfSeq
  <2>2. m \in Int /\ n \in Int /\ m <= n /\ n - m + 1 = 3 /\ m = 1
    OBVIOUS
  <2> HIDE DEF m, n
  <2>3. /\ SubSeq(s, m, n) \in Seq(Bytes) /\ Len(SubSeq(s, m, n)) = 3
        /\ \A i \in 1 .. 3 : SubSeq(s, m, n)[i] = s[m + i - 1]
    BY <2>1, <2>2, SubSeqProperties
  <2>4. t = SubSeq(s, m, n)
    BY DEF m, n
  <2>5. \A i \in 1 .. 3 : m + i - 1 = i
    BY <2>2
  <2>6. \A i \in 1 .. 3 : SubSeq(s, m, n)[i] = s[i]
    BY <2>3, <2>5
  <2> HIDE DEF t
  <2> QED BY <2>3, <2>4, <2>6
<1> HIDE DEF t
<1>3. t = ShortStartCode <=> s[1] = 0 /\ s[2] = 0 /\ s[3] = 1
  <2>1. ShortStartCode \in Seq(Bytes) /\ Len(ShortStartCode) = 3
        /\ ShortStartCode[1] = 0 /\ ShortStartCode[2] = 0 /\ ShortStartCode[3] = 1
    BY DEF ShortStartCode, Bytes
  <2>2. ASSUME s[1] = 0, s[2] = 0, s[3] = 1
        PROVE  t = ShortStartCode
    <3>1. \A k \in 1 .. Len(t) : t[k] = ShortStartCode[k]
      BY <1>2, <2>1, <2>2
    <3> QED BY <1>2, <2>1, <3>1, SeqEqual
  <2> QED BY <1>2, <2>1, <2>2
<1> QED BY <1>1, <1>3 DEF t

LEMMA CodeIsItsBytes ==
  ASSUME NEW f \in Seq(Bytes), NEW x \in Nat, x + 4 <= Len(f)
  PROVE  /\ StartCode(Four(f, x)) <=> CodeBytes(f, x)
         /\ StartCode(Four(f, x)) <=> x + 1 \in CodesAt(f)
         /\ CodeSize(f, x + 1) = IF Four(f, x) = LongStartCode THEN 4 ELSE 3
<1>1. StartCode(Four(f, x)) <=> CodeBytes(f, x)
  <2> DEFINE s == Four(f, x)
  <2>1. /\ s \in Seq(Bytes) /\ Len(s) = 4 /\ s[1] = f[x + 1] /\ s[2] = f[x + 2]
        /\ s[3] = f[x + 3] /\ s[4] = f[x + 4]
    BY FourBytes
  <2> HIDE DEF s
  <2>2. StartCode(s) <=> s[1] = 0 /\ s[2] = 0 /\ (s[3] = 1 \/ (s[3] = 0 /\ s[4] = 1))
    <3>1. /\ s = LongStartCode <=> s[1] = 0 /\ s[2] = 0 /\ s[3] = 0 /\ s[4] = 1
          /\ SubSeq(s, 1, 3) = ShortStartCode <=> s[1] = 0 /\ s[2] = 0 /\ s[3] = 1
      BY <2>1, LongCodeBytes
    <3> QED BY <3>1, Zenon DEF StartCode
  <2>3. StartCode(s) <=> CodeBytes(f, x)
    BY <2>1, <2>2, Zenon DEF CodeBytes
  <2> QED BY <2>3 DEF s
<1>2. x + 1 \in 1 .. Len(f) - 3 /\ x + 1 + 3 = x + 4
  <2>1. Len(f) \in Nat
    OBVIOUS
  <2> QED BY <2>1
<1>3. SubSeq(f, x + 1, x + 1 + 3) = Four(f, x)
  BY <1>2, Zenon DEF Four
<1>4. x + 1 \in CodesAt(f) <=> StartCode(Four(f, x))
  BY <1>2, <1>3, Zenon DEF CodesAt
<1>5. CodeSize(f, x + 1) = IF Four(f, x) = LongStartCode THEN 4 ELSE 3
  BY <1>3, Zenon DEF CodeSize
<1> QED BY <1>1, <1>4, <1>5

LEMMA CodeAtByte ==
  ASSUME NEW f \in Seq(Bytes), NEW c \in CodesAt(f)
  PROVE  /\ f[c] = 0 /\ f[c + 1] = 0
         /\ f[c + 2] = 1 \/ (f[c + 2] = 0 /\ f[c + 3] = 1)
<1> DEFINE x == c - 1
<1>1. x \in Nat /\ x + 4 <= Len(f) /\ x + 1 = c /\ x + 2 = c + 1 /\ x + 3 = c + 2 /\ x + 4 = c + 3
  <2>1. c \in Nat /\ c >= 1 /\ c + 3 <= Len(f) /\ Len(f) \in Nat
    BY CodeWithin
  <2> QED BY <2>1
<1> HIDE DEF x
<1>2. CodeBytes(f, x)
  BY <1>1, CodeIsItsBytes
<1> QED BY <1>1, <1>2, Zenon DEF CodeBytes

(* No code begins in the bytes that are saved at a time.                   *)
LEMMA SavedBytes ==
  ASSUME NEW f \in Seq(Bytes), NEW x \in Nat, x + 4 <= Len(f),
         ~StartCode(Four(f, x))
  PROVE  /\ SaveSize(Four(f, x)) \in {1, 4}
         /\ SubSeq(Four(f, x), 1, SaveSize(Four(f, x)))
              = SubSeq(f, x + 1, x + SaveSize(Four(f, x)))
         /\ \A c \in CodesAt(f) : c > x => c > x + SaveSize(Four(f, x))
<1> DEFINE s == Four(f, x)
           n == SaveSize(s)
<1>1. /\ s \in Seq(Bytes) /\ Len(s) = 4 /\ s[4] = f[x + 4]
      /\ \A k \in 1 .. 4 : f[x + k] \in Bytes
  BY FourBytes
<1>2. s = SubSeq(f, x + 1, x + 4)
  BY DEF Four
<1>3. x + 1 \notin CodesAt(f)
  BY CodeIsItsBytes
<1>4. Len(f) \in Nat
  OBVIOUS
<1>5. n \in {1, 4} /\ (n = 4 => f[x + 4] > 1)
  <2> HIDE DEF s
  <2> QED BY <1>1 DEF SaveSize
<1>6. ASSUME NEW c \in CodesAt(f), c > x
      PROVE  c > x + n
  <2>1. c \in Nat /\ c + 3 <= Len(f) /\ c # x + 1
    BY <1>3, CodeWithin
  <2>2. f[c] = 0 /\ f[c + 1] = 0 /\ (f[c + 2] = 1 \/ f[c + 2] = 0)
    BY CodeAtByte
  <2> HIDE DEF n
  <2>3. CASE n = 1
    BY <1>6, <2>1, <2>3
  <2>4. CASE n = 4
    <3>1. f[x + 4] # 0 /\ f[x + 4] # 1
      BY <1>1, <1>5, <2>4
    <3>2. c # x + 4 /\ c + 1 # x + 4 /\ c + 2 # x + 4
      BY <2>2, <3>1
    <3> QED BY <1>6, <2>1, <2>4, <3>2
  <2> QED BY <1>5, <2>3, <2>4
<1>7. SubSeq(s, 1, n) = SubSeq(f, x + 1, x + n)
  <2> DEFINE m == 1
             i == x + 1
             j == x + 4
             k == x + n
             t == SubSeq(f, i, k)
  <2>1. n \in Nat /\ n <= 4 /\ n >= 1
    BY <1>5
  <2> HIDE DEF s, n
  <2>2. /\ i \in 1 .. Len(f) + 1 /\ k \in Nat /\ k <= Len(f) /\ k - i + 1 = n /\ i <= k
        /\ j \in Nat /\ j <= Len(f) /\ j - i + 1 = 4
    BY <1>4, <2>1
  <2>3. \A y \in 1 .. n : y \in 1 .. 4 /\ m + y - 1 = y
    BY <2>1
  <2>4. n - m + 1 = n /\ m <= n /\ m \in Int
    BY <2>1
  <2>5. \A y \in m .. n : s[y] \in Bytes
    <3> SUFFICES ASSUME NEW y \in m .. n PROVE s[y] \in Bytes
      OBVIOUS
    <3>1. y \in 1 .. Len(s)
      BY <1>1, <2>1
    <3> QED BY <1>1, <3>1, ElementOfSeq
  <2> HIDE DEF i, j, k, m
  <2>6. /\ t \in Seq(Bytes) /\ Len(t) = n
        /\ \A y \in 1 .. n : t[y] = f[i + y - 1]
    BY <2>2, SliceOfFile
  <2>7. \A y \in 1 .. 4 : s[y] = f[i + y - 1]
    <3>1. s = SubSeq(f, i, j)
      BY <1>2 DEF i, j
    <3> QED BY <2>2, <3>1, SliceOfFile
  <2>8. /\ SubSeq(s, m, n) \in Seq(Bytes) /\ Len(SubSeq(s, m, n)) = n
        /\ \A y \in 1 .. n : SubSeq(s, m, n)[y] = s[m + y - 1]
    BY <2>1, <2>4, <2>5, SubSeqProperties
  <2> HIDE DEF t
  <2>9. \A y \in 1 .. n : SubSeq(s, m, n)[y] = t[y]
    BY <2>3, <2>6, <2>7, <2>8
  <2>10. SubSeq(s, m, n) = t
    BY <2>6, <2>8, <2>9, SeqEqual
  <2> QED BY <2>10 DEF m, i, k, t
<1> QED BY <1>5, <1>6, <1>7 DEF s, n

-----------------------------------------------------------------------------
(* The inductive invariant.                                                *)

(* A file fits if a bank of the parser can hold it and what is looked at   *)
(* behind its end, and the reader's buffer each of its NAL units.  (One    *)
(* that does not is what SavedAllPreviousBytes is about.)                  *)
FilesFit ==
  \A f \in Files :
    /\ Len(f) + 4 <= BankSize /\ Len(f) + HeaderSize <= BankSize
    /\ \A k \in 1 .. Len(Units[f]) : Len(Units[f][k]) <= Limit

ParserFields ==
  [bank : Seq(Bytes), idx : Nat, savedIdx : Nat, out : Seq(Cells),
   savedOut : Nat, first : BOOLEAN, header : Cells, eof : BOOLEAN]

Typed ==
  /\ file \in Files
  /\ read \in Nat
  /\ parser \in ParserFields
  /\ callers \in Seq({"parse", "quiet", "slice"})
  /\ control \in Controls
  /\ closed \in BOOLEAN
  /\ frame \in [bytes : Seq(Cells), asked : BOOLEAN, marker : BOOLEAN]
  /\ sets \in [{7, 8} -> Seq(Cells)]
  /\ finished \in Nat
  /\ pauses \in Nat

Bounded(p) ==
  /\ p.savedIdx <= p.idx /\ p.idx <= Len(p.bank) /\ Len(p.bank) <= BankSize
  /\ p.savedOut <= Len(p.out) /\ Len(p.out) <= Limit

(* A file that fits is read at once.                                       *)
ReadWhole ==
  /\ read \in {0, Len(file)}
  /\ parser.bank = IF read = 0 THEN <<>> ELSE file
  /\ parser.first \/ parser.eof => read = Len(file)

(* Who is parsing and whether anybody asked for it.                        *)
Flow ==
  /\ closed => parser.eof
  /\ parser.eof /\ ~closed => Parsing
  /\ control \in {"again", "return"} /\ ~closed => pauses > 0
  /\ control = "deliver" /\ ~closed /\ ~frame.asked => pauses > 0
  /\ control # "panic"

(* Before the first start code nothing was found or saved.                 *)
BeforeStart ==
  ~parser.first =>
    /\ finished = 0 /\ parser.out = <<>> /\ parser.header = NotSeen
    /\ parser.savedIdx = parser.idx
    /\ \A c \in CodesAt(file) : SubSeq(file, c, c + 3) = LongStartCode => c > parser.idx

(* The units from byte s on are those that follow the first n.             *)
Remaining(f, n, s) ==
  LET left == UnitsFrom(f)[s]
  IN  /\ Len(Units[f]) = n + Len(left)
      /\ \A k \in 1 .. Len(left) : Units[f][n + k] = left[k]

(* The parser p is in the unit that begins with byte s, after n others.    *)
UnitAt(f, p, n, does, s) ==
  /\ s <= p.idx + 1
  /\ Remaining(f, n, s)
  /\ \A c \in CodesAt(f) : c >= s => c > p.idx
  /\ IF p.header = NotSeen THEN s = p.idx + 1 ELSE s <= p.idx /\ p.header = f[s]
  /\ does = "parse" => p.out = SubSeq(f, s, p.idx)

WithinUnit ==
  parser.first /\ ~parser.eof =>
    /\ ~Parsing => parser.header = NotSeen
    /\ \E s \in 1 .. Len(file) + 1 : UnitAt(file, parser, finished, control, s)

(* Only the last units never come.                                         *)
AtEnd ==
  parser.eof => finished <= Len(Units[file]) /\ Len(Units[file]) <= finished + LostAtEnd

Inv ==
  /\ Typed
  /\ Bounded(parser)
  /\ ReadWhole
  /\ Flow
  /\ BeforeStart
  /\ WithinUnit
  /\ AtEnd
  /\ SetsAreUnits
  /\ PicturesEnd

-----------------------------------------------------------------------------
(* Reading a file that fits.                                               *)

LEMMA HeldByFile ==
  ASSUME Typed
  PROVE  file \in Files /\ file \in Seq(Bytes) /\ Len(file) \in Nat
<1>1. file \in Files
  BY DEF Typed
<1>2. file \in Seq(Bytes)
  BY <1>1, FramerAssumption DEF Bytes
<1> QED BY <1>1, <1>2

(* What a read that was needed did: it read the file, it found its end, or *)
(* it closed the source.                                                   *)
ReadsAll(p, how) ==
  /\ read = 0 /\ Len(file) > 0 /\ p.bank = <<>>
  /\ parser' = Restore([p EXCEPT !.bank = file])
  /\ read' = Len(file)
  /\ callers' \in Seq({"parse", "quiet", "slice"})
  /\ UNCHANGED <<control, closed>>

FindsEnd(p) ==
  /\ read = Len(file) /\ ~p.eof
  /\ parser' = Restore([p EXCEPT !.eof = TRUE])
  /\ callers' \in Seq({"parse", "quiet", "slice"})
  /\ UNCHANGED <<read, control, closed>>

Closes(p) ==
  /\ read = Len(file) /\ p.eof
  /\ parser' = p
  /\ control' = (IF p.first THEN "return" ELSE "again") /\ closed' = TRUE
  /\ UNCHANGED <<read, callers>>

LEMMA WholeFile ==
  ASSUME Typed
  PROVE  SubSeq(file, 0 + 1, 0 + (Len(file) - 0)) = file
<1>1. file \in Seq(Bytes) /\ Len(file) \in Nat
  BY HeldByFile
<1>2. 0 + 1 = 1 /\ 0 + (Len(file) - 0) = Len(file)
  BY <1>1
<1>3. SubSeq(file, 1, Len(file)) = file
  BY <1>1, SubSeqFull
<1> QED BY <1>2, <1>3

LEMMA Reading ==
  ASSUME Typed, FilesFit, ReadWhole,
         NEW p \in ParserFields, p.bank = parser.bank, p.idx <= Len(p.bank),
         NEW n \in {1, 4, HeaderSize}, NEW how \in {"parse", "slice"},
         EnsureValidBytes(p, n, how)
  PROVE  ReadsAll(p, how) \/ FindsEnd(p) \/ Closes(p)
<1> DEFINE room == BankSize - Valid(p)
           more == IF Len(file) - read < room THEN Len(file) - read ELSE room
<1>1. file \in Seq(Bytes) /\ Len(file) \in Nat /\ read \in {0, Len(file)}
      /\ p.bank = (IF read = 0 THEN <<>> ELSE file) /\ read \in Nat
      /\ Len(file) + 4 <= BankSize /\ Len(file) + HeaderSize <= BankSize
      /\ BankSize \in Nat /\ HeaderSize \in Nat
  BY HeldByFile, FramerAssumption DEF ReadWhole, FilesFit
<1>2. Len(<<>>) = 0
  OBVIOUS
<1>3. Len(p.bank) \in Nat /\ Len(p.bank) <= Len(file) /\ (read = 0 => Len(p.bank) = 0)
  BY <1>1, <1>2
<1>4. p.idx \in Nat /\ n \in Nat
  BY <1>1 DEF ParserFields
<1>5. p.idx + n <= BankSize /\ ~(p.idx + n > BankSize) /\ Len(p.bank) < BankSize
  BY <1>1, <1>3, <1>4
<1>6. more = Len(file) - read /\ (more > 0 => read = 0 /\ Len(file) > 0)
      /\ (more = 0 => read = Len(file))
  BY <1>1, <1>3, <1>5 DEF Valid
<1>7. callers \in Seq({"parse", "quiet", "slice"})
  BY DEF Typed
<1>8. \A c \in {"parse", "quiet", "slice"} : Append(callers, c) \in Seq({"parse", "quiet", "slice"})
  BY <1>7, AppendProperties
<1> HIDE DEF more
<1>9. \/ /\ more > 0
         /\ parser' = Restore([p EXCEPT !.bank = @ \o SubSeq(file, read + 1, read + more)])
         /\ read' = read + more
         /\ callers' = Append(callers, how)
         /\ UNCHANGED <<control, closed>>
      \/ /\ more = 0 /\ ~p.eof
         /\ parser' = Restore([p EXCEPT !.eof = TRUE])
         /\ callers' = Append(callers, IF how = "parse" THEN "quiet" ELSE how)
         /\ UNCHANGED <<read, control, closed>>
      \/ /\ more = 0 /\ p.eof
         /\ parser' = p
         /\ control' = (IF p.first THEN "return" ELSE "again") /\ closed' = TRUE
         /\ UNCHANGED <<read, callers>>
  BY <1>5, Zenon DEF EnsureValidBytes, more
<1>10. CASE /\ more > 0
            /\ parser' = Restore([p EXCEPT !.bank = @ \o SubSeq(file, read + 1, read + more)])
            /\ read' = read + more
            /\ callers' = Append(callers, how)
            /\ UNCHANGED <<control, closed>>
  <2>1. read = 0 /\ Len(file) > 0 /\ more = Len(file) - 0 /\ p.bank = <<>>
    BY <1>1, <1>6, <1>10
  <2>2. p.bank \o SubSeq(file, read + 1, read + more) = file
    <3>1. SubSeq(file, read + 1, read + more) = file
      BY <2>1, WholeFile, Zenon
    <3>2. <<>> \o file = file
      BY <1>1, ConcatEmptySeq
    <3> QED BY <2>1, <3>1, <3>2, Zenon
  <2>3. read' = Len(file)
    BY <1>1, <1>10, <2>1
  <2>4. parser' = Restore([p EXCEPT !.bank = file])
    BY <1>10, <2>2, Zenon
  <2> QED BY <1>8, <1>10, <2>1, <2>3, <2>4 DEF ReadsAll
<1>11. CASE /\ more = 0 /\ ~p.eof
            /\ parser' = Restore([p EXCEPT !.eof = TRUE])
            /\ callers' = Append(callers, IF how = "parse" THEN "quiet" ELSE how)
            /\ UNCHANGED <<read, control, closed>>
  <2>1. (IF how = "parse" THEN "quiet" ELSE how) \in {"parse", "quiet", "slice"}
    OBVIOUS
  <2> QED BY <1>6, <1>8, <1>11, <2>1 DEF FindsEnd
<1>12. CASE /\ more = 0 /\ p.eof
            /\ parser' = p
            /\ control' = (IF p.first THEN "return" ELSE "again") /\ closed' = TRUE
            /\ UNCHANGED <<read, callers>>
  BY <1>6, <1>12 DEF Closes
<1> QED BY <1>9, <1>10, <1>11, <1>12

(* What is read again lies behind what was marked as parsed.               *)
LEMMA Restored ==
  ASSUME NEW p \in ParserFields, p.savedOut <= Len(p.out)
  PROVE  /\ Restore(p) \in ParserFields
         /\ Restore(p).bank = p.bank /\ Restore(p).idx = p.savedIdx
         /\ Restore(p).savedIdx = p.savedIdx
         /\ Restore(p).savedOut = p.savedOut
         /\ Len(Restore(p).out) = p.savedOut
         /\ Restore(p).first = p.first /\ Restore(p).header = p.header
         /\ Restore(p).eof = p.eof
<1> DEFINE m == 1
           out == SubSeq(p.out, m, p.savedOut)
<1>1. p.out \in Seq(Cells) /\ p.savedOut \in Nat /\ p.savedIdx \in Nat
  BY DEF ParserFields
<1>2. out \in Seq(Cells) /\ Len(out) = p.savedOut
  <2>1. Len(p.out) \in Nat /\ m \in Int /\ p.savedOut \in Int
        /\ Len(out) = Len(SubSeq(p.out, m, p.savedOut))
    BY <1>1
  <2>2. \A i \in m .. p.savedOut : p.out[i] \in Cells
    <3> SUFFICES ASSUME NEW i \in m .. p.savedOut PROVE p.out[i] \in Cells
      OBVIOUS
    <3>1. i \in 1 .. Len(p.out)
      BY <1>1, <2>1
    <3> QED BY <1>1, <3>1, ElementOfSeq
  <2>3. p.savedOut - m + 1 = p.savedOut /\ (m <= p.savedOut \/ p.savedOut = 0)
    BY <1>1
  <2> HIDE DEF m
  <2>4. SubSeq(p.out, m, p.savedOut) \in Seq(Cells)
        /\ Len(SubSeq(p.out, m, p.savedOut)) = IF m <= p.savedOut THEN p.savedOut - m + 1 ELSE 0
    BY <2>1, <2>2, SubSeqProperties
  <2> QED BY <2>3, <2>4
<1>3. Restore(p) = [p EXCEPT !.idx = p.savedIdx, !.out = out]
  BY DEF Restore
<1> HIDE DEF out
<1> DEFINE r == [p EXCEPT !.idx = p.savedIdx, !.out = out]
<1>4. r \in ParserFields
  <2> DEFINE B == Seq(Bytes)
             O == Seq(Cells)
             H == Cells
             R == [bank : B, idx : Nat, savedIdx : Nat, out : O, savedOut : Nat,
                   first : BOOLEAN, header : H, eof : BOOLEAN]
  <2>1. ParserFields = R
    BY DEF ParserFields
  <2>2. out \in O /\ p \in R /\ p.savedIdx \in Nat
    BY <1>1, <1>2, <2>1
  <2> HIDE DEF B, O, H
  <2>3. r \in R
    BY <2>2
  <2> QED BY <2>1, <2>3
<1>5. /\ r.bank = p.bank /\ r.idx = p.savedIdx /\ r.savedIdx = p.savedIdx
      /\ r.out = out /\ r.savedOut = p.savedOut /\ r.first = p.first
      /\ r.header = p.header /\ r.eof = p.eof
  BY DEF ParserFields
<1>6. Restore(p) = r
  BY <1>3
<1> HIDE DEF r
<1> QED BY <1>2, <1>4, <1>5, <1>6

-----------------------------------------------------------------------------
(* What the parser's operations leave in its fields.                       *)

ParserIs(r, b, i, si, o, so, f, h, e) ==
  /\ r \in ParserFields
  /\ r.bank = b /\ r.idx = i /\ r.savedIdx = si /\ r.out = o /\ r.savedOut = so
  /\ r.first = f /\ r.header = h /\ r.eof = e

LEMMA ParserTypes ==
  ASSUME NEW p \in ParserFields
  PROVE  /\ p.bank \in Seq(Bytes) /\ p.idx \in Nat /\ p.savedIdx \in Nat
         /\ p.out \in Seq(Cells) /\ p.savedOut \in Nat /\ p.first \in BOOLEAN
         /\ p.header \in Cells /\ p.eof \in BOOLEAN
         /\ Len(p.bank) \in Nat /\ Len(p.out) \in Nat
<1>1. /\ p.bank \in Seq(Bytes) /\ p.idx \in Nat /\ p.savedIdx \in Nat
      /\ p.out \in Seq(Cells) /\ p.savedOut \in Nat /\ p.first \in BOOLEAN
      /\ p.header \in Cells /\ p.eof \in BOOLEAN
  BY Zenon DEF ParserFields
<1> QED BY <1>1, LenProperties

Update(p, i, si, o, so, f, h) ==
  [p EXCEPT !.idx = i, !.savedIdx = si, !.out = o, !.savedOut = so,
            !.first = f, !.header = h]

LEMMA Updated ==
  ASSUME NEW p \in ParserFields, NEW i \in Nat, NEW si \in Nat,
         NEW o \in Seq(Cells), NEW so \in Nat, NEW f \in BOOLEAN,
         NEW h \in Cells
  PROVE  ParserIs(Update(p, i, si, o, so, f, h), p.bank, i, si, o, so, f, h, p.eof)
<1> DEFINE r == [p EXCEPT !.idx = i, !.savedIdx = si, !.out = o, !.savedOut = so,
                          !.first = f, !.header = h]
<1>1. r \in ParserFields
  <2> DEFINE B == Seq(Bytes)
             O == Seq(Cells)
             H == Cells
             R == [bank : B, idx : Nat, savedIdx : Nat, out : O, savedOut : Nat,
                   first : BOOLEAN, header : H, eof : BOOLEAN]
  <2>1. ParserFields = R
    BY DEF ParserFields
  <2>2. p \in R /\ o \in O /\ h \in H
    BY <2>1
  <2> HIDE DEF B, O, H
  <2>3. r \in R
    BY <2>2
  <2> QED BY <2>1, <2>3
<1>2. /\ r.bank = p.bank /\ r.idx = i /\ r.savedIdx = si /\ r.out = o
      /\ r.savedOut = so /\ r.first = f /\ r.header = h /\ r.eof = p.eof
  BY DEF ParserFields
<1> HIDE DEF r
<1>3. ParserIs(r, p.bank, i, si, o, so, f, h, p.eof)
  BY <1>1, <1>2, Zenon DEF ParserIs
<1> QED BY <1>3, Zenon DEF r, Update

LEMMA Advanced ==
  ASSUME NEW p \in ParserFields, NEW i \in Nat, NEW f \in BOOLEAN, NEW h \in Cells
  PROVE  ParserIs([p EXCEPT !.idx = i, !.first = f, !.header = h],
                  p.bank, i, p.savedIdx, p.out, p.savedOut, f, h, p.eof)
<1>1. /\ p.savedIdx \in Nat /\ p.out \in Seq(Cells) /\ p.savedOut \in Nat
  BY ParserTypes
<1>2. [p EXCEPT !.idx = i, !.first = f, !.header = h]
        = Update(p, i, p.savedIdx, p.out, p.savedOut, f, h)
  BY DEF ParserFields, Update
<1>3. ParserIs(Update(p, i, p.savedIdx, p.out, p.savedOut, f, h),
               p.bank, i, p.savedIdx, p.out, p.savedOut, f, h, p.eof)
  BY <1>1, Updated, Zenon
<1> QED BY <1>2, <1>3, Zenon

LEMMA StateSet ==
  ASSUME NEW p \in ParserFields
  PROVE  ParserIs(SetParseState(p), p.bank, p.idx, p.idx, p.out, Len(p.out),
                  p.first, p.header, p.eof)
<1>1. /\ p.idx \in Nat /\ p.out \in Seq(Cells) /\ Len(p.out) \in Nat
      /\ p.first \in BOOLEAN /\ p.header \in Cells
  BY ParserTypes
<1>2. SetParseState(p) = Update(p, p.idx, p.idx, p.out, Len(p.out), p.first, p.header)
  BY DEF ParserFields, SetParseState, Update
<1>3. ParserIs(Update(p, p.idx, p.idx, p.out, Len(p.out), p.first, p.header),
               p.bank, p.idx, p.idx, p.out, Len(p.out), p.first, p.header, p.eof)
  BY <1>1, Updated, Zenon
<1> QED BY <1>2, <1>3, Zenon

LEMMA Saved ==
  ASSUME NEW p \in ParserFields, NEW bytes \in Seq(Bytes)
  PROVE  \E o \in Seq(Cells) :
           /\ o = IF Len(p.out) + Len(bytes) > Limit THEN p.out ELSE p.out \o bytes
           /\ Len(p.out) <= Limit => Len(o) <= Limit
           /\ ParserIs(Save(p, bytes), p.bank, p.idx, p.savedIdx, o, p.savedOut,
                       p.first, p.header, p.eof)
<1> DEFINE o == IF Len(p.out) + Len(bytes) > Limit THEN p.out ELSE p.out \o bytes
<1>1. /\ p.idx \in Nat /\ p.savedIdx \in Nat /\ p.out \in Seq(Cells)
      /\ p.savedOut \in Nat /\ Len(p.out) \in Nat
      /\ p.first \in BOOLEAN /\ p.header \in Cells
  BY ParserTypes
<1>2. bytes \in Seq(Cells)
  <2>1. Bytes \subseteq Cells
    BY DEF Cells
  <2> HIDE DEF o
  <2> QED BY <2>1, SeqMonotonic
<1>3. p.out \o bytes \in Seq(Cells) /\ Len(p.out \o bytes) = Len(p.out) + Len(bytes)
      /\ Len(bytes) \in Nat
  BY <1>1, <1>2, ConcatProperties
<1>4. o \in Seq(Cells)
  BY <1>1, <1>3
<1>5. Len(p.out) <= Limit => Len(o) <= Limit
  BY <1>1, <1>3, FramerAssumption
<1>6. Save(p, bytes) = [p EXCEPT !.out = o]
  <2>1. [p EXCEPT !.out = p.out] = p
    BY DEF ParserFields
  <2> QED BY <2>1, Zenon DEF Save
<1>7. o = IF Len(p.out) + Len(bytes) > Limit THEN p.out ELSE p.out \o bytes
  OBVIOUS
<1> HIDE DEF o
<1>8. [p EXCEPT !.out = o]
        = Update(p, p.idx, p.savedIdx, o, p.savedOut, p.first, p.header)
  BY DEF ParserFields, Update
<1>9. ParserIs(Update(p, p.idx, p.savedIdx, o, p.savedOut, p.first, p.header),
               p.bank, p.idx, p.savedIdx, o, p.savedOut, p.first, p.header, p.eof)
  BY <1>1, <1>4, Updated, Zenon
<1>10. ParserIs(Save(p, bytes), p.bank, p.idx, p.savedIdx, o, p.savedOut,
               p.first, p.header, p.eof)
  BY <1>6, <1>8, <1>9, Zenon
<1> QED BY <1>4, <1>5, <1>7, <1>10

LEMMA HeaderIsSeen ==
  ASSUME NEW p \in ParserFields, NEW b \in Bytes, Next4(p)[1] = b
  PROVE  ParserIs(HeaderSeen(p), p.bank, p.idx, p.savedIdx, p.out, p.savedOut, p.first,
                  IF p.header = NotSeen THEN b ELSE p.header, p.eof)
<1> DEFINE h == IF p.header = NotSeen THEN b ELSE p.header
<1>1. /\ p.idx \in Nat /\ p.first \in BOOLEAN /\ p.header \in Cells
  BY ParserTypes
<1>2. h \in Cells
  BY <1>1 DEF Cells
<1>3. HeaderSeen(p) = [p EXCEPT !.header = h]
  <2>1. [p EXCEPT !.header = p.header] = p
    BY DEF ParserFields
  <2> QED BY <2>1, Zenon DEF HeaderSeen
<1> HIDE DEF h
<1>4. p.savedIdx \in Nat /\ p.out \in Seq(Cells) /\ p.savedOut \in Nat
  BY ParserTypes
<1>5. [p EXCEPT !.header = h]
        = Update(p, p.idx, p.savedIdx, p.out, p.savedOut, p.first, h)
  BY DEF ParserFields, Update
<1>6. ParserIs(Update(p, p.idx, p.savedIdx, p.out, p.savedOut, p.first, h),
               p.bank, p.idx, p.savedIdx, p.out, p.savedOut, p.first, h, p.eof)
  BY <1>1, <1>2, <1>4, Updated, Zenon
<1>7. ParserIs(HeaderSeen(p), p.bank, p.idx, p.savedIdx, p.out, p.savedOut, p.first, h, p.eof)
  BY <1>3, <1>5, <1>6, Zenon
<1> QED BY <1>7 DEF h

-----------------------------------------------------------------------------
(* The parameter set that is the latest.                                   *)

OfType(u, n, type) == {k \in 1 .. n : u[k] # <<>> /\ TypeOf(u[k][1]) = type}

LatestOf(u, S) == IF S = {} THEN <<>> ELSE u[CHOOSE k \in S : \A l \in S : l <= k]

Latest(u, n, type) == LatestOf(u, OfType(u, n, type))

SetsAreLatest(u, s, n) == \A type \in DOMAIN s : s[type] = Latest(u, n, type)

LEMMA SetsAreUnitsIs ==
  SetsAreUnits <=> (pauses = 0 => SetsAreLatest(Units[file], sets, finished))
BY Zenon DEF SetsAreUnits, SetsAreLatest, Latest, LatestOf, OfType

LEMMA SetsAreUnitsNext ==
  SetsAreUnits' <=> (pauses' = 0 => SetsAreLatest(Units[file'], sets', finished'))
BY Zenon DEF SetsAreUnits, SetsAreLatest, Latest, LatestOf, OfType

LEMMA SetsUntouched ==
  ASSUME SetsAreUnits, UNCHANGED <<file, sets, finished, pauses>>
  PROVE  SetsAreUnits'
<1>1. file' = file /\ sets' = sets /\ finished' = finished /\ pauses' = pauses
  OBVIOUS
<1> QED BY <1>1, SetsAreUnitsIs, SetsAreUnitsNext, Zenon

LEMMA LatestNext ==
  ASSUME NEW u, NEW n \in Nat, NEW type
  PROVE  Latest(u, n + 1, type) =
           IF u[n + 1] # <<>> /\ TypeOf(u[n + 1][1]) = type THEN u[n + 1]
           ELSE Latest(u, n, type)
<1> DEFINE S == OfType(u, n, type)
           T == OfType(u, n + 1, type)
<1>1. n + 1 \in 1 .. n + 1 /\ n + 1 \notin 1 .. n /\ 1 .. n + 1 = 1 .. n \cup {n + 1}
      /\ \A l \in 1 .. n + 1 : l <= n + 1 /\ (l >= n + 1 => l = n + 1)
  OBVIOUS
<1>2. CASE u[n + 1] # <<>> /\ TypeOf(u[n + 1][1]) = type
  <2>1. n + 1 \in T /\ T \subseteq 1 .. n + 1
    BY <1>1, <1>2 DEF OfType
  <2> HIDE DEF T
  <2>2. \A k \in T : (\A l \in T : l <= k) <=> k = n + 1
    BY <1>1, <2>1
  <2>3. (CHOOSE k \in T : \A l \in T : l <= k) = n + 1
    BY <2>1, <2>2
  <2>4. T # {}
    BY <2>1
  <2>5. Latest(u, n + 1, type) = u[n + 1]
    BY <2>3, <2>4, Zenon DEF Latest, LatestOf, T
  <2> QED BY <1>2, <2>5
<1>3. CASE ~(u[n + 1] # <<>> /\ TypeOf(u[n + 1][1]) = type)
  <2>1. T = S
    BY <1>1, <1>3, Zenon DEF OfType
  <2>2. Latest(u, n + 1, type) = Latest(u, n, type)
    BY <2>1, Zenon DEF Latest
  <2> QED BY <1>3, <2>2
<1> QED BY <1>2, <1>3

-----------------------------------------------------------------------------
(* Steps that leave what was finished alone.                               *)

LEMMA PicturesUntouched ==
  ASSUME PicturesEnd, UNCHANGED <<file, finished>>,
         control' = "deliver" /\ frame.asked' =>
           control = "deliver" /\ frame.asked /\ UNCHANGED frame
  PROVE  PicturesEnd'
<1>1. file' = file /\ finished' = finished
  OBVIOUS
<1> SUFFICES ASSUME control' = "deliver", frame.asked', finished < Len(Units[file])
             PROVE  LET this == Units[file][finished]
                        next == Units[file][finished + 1]
                    IN  this # <<>> /\ next # <<>> /\ IsVCL(TypeOf(this[1])) /\ TypeOf(next[1]) > 5
                          => frame'.marker
  BY <1>1, Zenon DEF PicturesEnd
<1> QED BY Zenon DEF PicturesEnd

LEMMA BankRead ==
  ASSUME NEW p \in ParserFields, NEW b \in Seq(Bytes)
  PROVE  ParserIs([p EXCEPT !.bank = b], b, p.idx, p.savedIdx, p.out, p.savedOut,
                  p.first, p.header, p.eof)
<1> DEFINE r == [p EXCEPT !.bank = b]
<1>1. r \in ParserFields
  <2> DEFINE B == Seq(Bytes)
             O == Seq(Cells)
             R == [bank : B, idx : Nat, savedIdx : Nat, out : O, savedOut : Nat,
                   first : BOOLEAN, header : Cells, eof : BOOLEAN]
  <2>1. ParserFields = R
    BY DEF ParserFields
  <2>2. p \in R /\ b \in B
    BY <2>1
  <2> HIDE DEF B, O
  <2>3. r \in R
    BY <2>2
  <2> QED BY <2>1, <2>3
<1>2. /\ r.bank = b /\ r.idx = p.idx /\ r.savedIdx = p.savedIdx /\ r.out = p.out
      /\ r.savedOut = p.savedOut /\ r.first = p.first /\ r.header = p.header
      /\ r.eof = p.eof
  BY DEF ParserFields
<1> HIDE DEF r
<1>3. ParserIs(r, b, p.idx, p.savedIdx, p.out, p.savedOut, p.first, p.header, p.eof)
  BY <1>1, <1>2, Zenon DEF ParserIs
<1> QED BY <1>3 DEF r

LEMMA EndSeen ==
  ASSUME NEW p \in ParserFields
  PROVE  ParserIs([p EXCEPT !.eof = TRUE], p.bank, p.idx, p.savedIdx, p.out,
                  p.savedOut, p.first, p.header, TRUE)
<1> DEFINE r == [p EXCEPT !.eof = TRUE]
<1>1. r \in ParserFields
  <2> DEFINE B == Seq(Bytes)
             O == Seq(Cells)
             R == [bank : B, idx : Nat, savedIdx : Nat, out : O, savedOut : Nat,
                   first : BOOLEAN, header : Cells, eof : BOOLEAN]
  <2>1. ParserFields = R
    BY DEF ParserFields
  <2>2. p \in R
    BY <2>1
  <2> HIDE DEF B, O
  <2>3. r \in R
    BY <2>2
  <2> QED BY <2>1, <2>3
<1>2. /\ r.bank = p.bank /\ r.idx = p.idx /\ r.savedIdx = p.savedIdx /\ r.out = p.out
      /\ r.savedOut = p.savedOut /\ r.first = p.first /\ r.header = p.header
      /\ r.eof = TRUE
  BY DEF ParserFields
<1> HIDE DEF r
<1>3. ParserIs(r, p.bank, p.idx, p.savedIdx, p.out, p.savedOut, p.first, p.header, TRUE)
  BY <1>1, <1>2, Zenon DEF ParserIs
<1> QED BY <1>3 DEF r

(* No more than the last units is left.                                    *)
NearEnd ==
  finished <= Len(Units[file]) /\ Len(Units[file]) <= finished + LostAtEnd

(* A needed read keeps the invariant, provided that it finds the end of    *)
(* the file only where the last units are.                                 *)
LEMMA ReadKeeps ==
  ASSUME Inv, FilesFit, Parsing, UNCHANGED <<file, frame, sets, finished, pauses>>,
         NEW p \in ParserFields, Bounded(p), p.bank = parser.bank,
         p.first = parser.first, p.eof = parser.eof, ~p.first => p = parser,
         read = Len(file) /\ ~p.eof => NearEnd,
         NEW n \in {1, 4, HeaderSize}, NEW how \in {"parse", "slice"},
         EnsureValidBytes(p, n, how)
  PROVE  Inv'
<1>1. ReadsAll(p, how) \/ FindsEnd(p) \/ Closes(p)
  BY Reading DEF Inv, Bounded
<1>2. /\ file' = file /\ frame' = frame /\ sets' = sets /\ finished' = finished
      /\ pauses' = pauses /\ file \in Seq(Bytes) /\ Len(file) \in Nat /\ Len(file) + 4 <= BankSize
      /\ BankSize \in Nat
  BY HeldByFile, FramerAssumption DEF Inv, FilesFit
<1>3. SetsAreUnits'
  BY <1>2, SetsUntouched, Zenon DEF Inv
<1>4. control \in {"parse", "again"} /\ control \in Controls
  BY DEF Inv, Parsing, Controls
<1>5. CASE ReadsAll(p, how)
  <2>1. /\ read = 0 /\ Len(file) > 0 /\ p.bank = <<>>
        /\ parser' = Restore([p EXCEPT !.bank = file])
        /\ read' = Len(file)
        /\ callers' \in Seq({"parse", "quiet", "slice"})
        /\ control' = control /\ closed' = closed
    BY <1>5 DEF ReadsAll
  <2>2. ~parser.first /\ ~parser.eof /\ p = parser
    BY <1>2, <2>1 DEF Inv, ReadWhole
  <2> DEFINE q == [p EXCEPT !.bank = file]
  <2>3. ParserIs(q, file, p.idx, p.savedIdx, p.out, p.savedOut, p.first, p.header, p.eof)
    BY <1>2, BankRead
  <2> HIDE DEF q
  <2>4. /\ q \in ParserFields /\ q.savedIdx = p.savedIdx /\ q.out = p.out
        /\ q.savedOut = p.savedOut /\ q.bank = file /\ q.first = p.first
        /\ q.header = p.header /\ q.eof = p.eof
    BY <2>3, Zenon DEF ParserIs
  <2>5. parser' = Restore(q)
    BY <2>1 DEF q
  <2>6. p.savedOut <= Len(p.out) /\ p.savedIdx <= p.idx /\ Len(p.out) <= Limit
        /\ p.idx <= Len(p.bank)
    BY DEF Bounded
  <2>7. /\ parser' \in ParserFields
        /\ parser'.bank = file /\ parser'.idx = p.savedIdx
        /\ parser'.savedIdx = p.savedIdx /\ parser'.savedOut = p.savedOut
        /\ Len(parser'.out) = p.savedOut /\ parser'.first = p.first
        /\ parser'.header = p.header /\ parser'.eof = p.eof
    BY <2>4, <2>5, <2>6, Restored
  <2>8. /\ finished = 0 /\ p.out = <<>> /\ p.header = NotSeen /\ p.savedIdx = p.idx
        /\ \A c \in CodesAt(file) : SubSeq(file, c, c + 3) = LongStartCode => c > p.idx
    BY <2>2, Zenon DEF Inv, BeforeStart
  <2>9. p.savedOut = 0 /\ p.idx = 0 /\ parser'.out = <<>>
    <3>1. Len(p.bank) = 0 /\ p.idx \in Nat /\ p.savedOut \in Nat /\ Len(p.out) = 0
      BY <2>1, <2>8, ParserTypes
    <3>2. p.savedOut = 0 /\ p.idx = 0
      BY <2>6, <3>1
    <3>3. parser'.out \in Seq(Cells)
      BY <2>7, ParserTypes
    <3> QED BY <2>7, <3>2, <3>3
  <2>10. Typed'
    BY <1>2, <2>1, <2>7 DEF Inv, Typed
  <2>11. Bounded(parser)'
    BY <1>2, <2>7, <2>8, <2>9, FramerAssumption DEF Bounded
  <2>12. ReadWhole'
    BY <1>2, <2>1, <2>2, <2>7 DEF ReadWhole
  <2>13. Flow'
    BY <1>2, <1>4, <2>1, <2>2, <2>7 DEF Inv, Flow, Parsing
  <2>14. BeforeStart'
    BY <1>2, <2>7, <2>8, <2>9, Zenon DEF BeforeStart
  <2>15. WithinUnit' /\ AtEnd'
    BY <2>2, <2>7, Zenon DEF WithinUnit, AtEnd
  <2>16. PicturesEnd'
    BY <1>2, <2>1, PicturesUntouched, Zenon DEF Inv
  <2> QED BY <1>3, <2>10, <2>11, <2>12, <2>13, <2>14, <2>15, <2>16, Zenon DEF Inv
<1>6. CASE FindsEnd(p)
  <2>1. /\ read = Len(file) /\ ~p.eof
        /\ parser' = Restore([p EXCEPT !.eof = TRUE])
        /\ callers' \in Seq({"parse", "quiet", "slice"})
        /\ read' = read /\ control' = control /\ closed' = closed
    BY <1>6 DEF FindsEnd
  <2> DEFINE q == [p EXCEPT !.eof = TRUE]
  <2>3. ParserIs(q, p.bank, p.idx, p.savedIdx, p.out, p.savedOut, p.first, p.header, TRUE)
    BY EndSeen
  <2> HIDE DEF q
  <2>4. /\ q \in ParserFields /\ q.savedIdx = p.savedIdx /\ q.out = p.out
        /\ q.savedOut = p.savedOut /\ q.bank = p.bank /\ q.first = p.first
        /\ q.header = p.header /\ q.eof = TRUE
    BY <2>3, Zenon DEF ParserIs
  <2>5. parser' = Restore(q)
    BY <2>1 DEF q
  <2>6. p.savedOut <= Len(p.out) /\ p.savedIdx <= p.idx /\ Len(p.out) <= Limit
        /\ p.idx <= Len(p.bank) /\ Len(p.bank) <= BankSize
    BY DEF Bounded
  <2>7. /\ parser' \in ParserFields
        /\ parser'.bank = p.bank /\ parser'.idx = p.savedIdx
        /\ parser'.savedIdx = p.savedIdx /\ parser'.savedOut = p.savedOut
        /\ Len(parser'.out) = p.savedOut /\ parser'.first = p.first
        /\ parser'.header = p.header /\ parser'.eof = TRUE
    BY <2>4, <2>5, <2>6, Restored
  <2>8. /\ Len(p.bank) \in Nat /\ p.idx \in Nat /\ p.savedIdx \in Nat /\ p.savedOut \in Nat
        /\ Len(p.out) \in Nat /\ p.out \in Seq(Cells) /\ parser'.out \in Seq(Cells)
    BY <2>7, ParserTypes
  <2>9. ~p.first => /\ finished = 0 /\ p.out = <<>> /\ p.header = NotSeen /\ p.savedIdx = p.idx
                    /\ \A c \in CodesAt(file) : SubSeq(file, c, c + 3) = LongStartCode => c > p.idx
    BY Zenon DEF Inv, BeforeStart
  <2>10. Typed'
    BY <1>2, <2>1, <2>7 DEF Inv, Typed
  <2>11. Bounded(parser)'
    BY <2>6, <2>7, <2>8, FramerAssumption DEF Bounded
  <2>12. ReadWhole'
    BY <1>2, <2>1, <2>7 DEF Inv, ReadWhole
  <2>13. Flow'
    BY <1>2, <1>4, <2>1, <2>7 DEF Inv, Flow, Parsing
  <2>14. ~p.first => parser'.out = <<>>
    <3>1. p.out = <<>> => Len(p.out) = 0
      OBVIOUS
    <3>2. p.out = <<>> => Len(parser'.out) = 0
      BY <2>6, <2>7, <2>8, <3>1
    <3> QED BY <2>8, <2>9, <3>2
  <2>15. BeforeStart'
    BY <1>2, <2>7, <2>9, <2>14, Zenon DEF BeforeStart
  <2>16. WithinUnit'
    BY <2>7, Zenon DEF WithinUnit
  <2>17. AtEnd'
    BY <1>2, <2>1, Zenon DEF AtEnd, NearEnd
  <2>18. PicturesEnd'
    BY <1>2, <2>1, PicturesUntouched, Zenon DEF Inv
  <2> QED BY <1>3, <2>10, <2>11, <2>12, <2>13, <2>15, <2>16, <2>17, <2>18, Zenon DEF Inv
<1>7. CASE Closes(p)
  <2>1. /\ read = Len(file) /\ p.eof /\ parser' = p /\ closed' = TRUE
        /\ control' \in {"return", "again"} /\ read' = read /\ callers' = callers
    BY <1>7 DEF Closes
  <2>2. Typed'
    BY <1>2, <2>1 DEF Inv, Typed, Controls
  <2>3. Bounded(parser)'
    BY <2>1, Zenon DEF Bounded
  <2>4. ReadWhole'
    BY <1>2, <2>1, Zenon DEF Inv, ReadWhole
  <2>5. Flow'
    BY <2>1 DEF Flow
  <2>6. BeforeStart'
    BY <1>2, <2>1, Zenon DEF Inv, BeforeStart
  <2>7. WithinUnit' /\ AtEnd'
    BY <1>2, <2>1, Zenon DEF Inv, WithinUnit, AtEnd
  <2>8. PicturesEnd'
    <3>1. control' # "deliver"
      BY <2>1
    <3> QED BY <3>1, Zenon DEF PicturesEnd
  <2> QED BY <1>3, <2>2, <2>3, <2>4, <2>5, <2>6, <2>7, <2>8, Zenon DEF Inv
<1> QED BY <1>1, <1>5, <1>6, <1>7

-----------------------------------------------------------------------------
(* The steps of the parser.                                                *)

(* What a step that parses on without a read leaves alone.                 *)
LEMMA ParsesOn ==
  ASSUME Inv, Parsing, UNCHANGED <<file, read, callers, control, closed, frame, sets, finished, pauses>>,
         parser' \in ParserFields, Bounded(parser'), parser'.bank = parser.bank,
         parser'.eof = parser.eof, parser'.first => parser.bank # <<>>,
         BeforeStart', WithinUnit'
  PROVE  Inv'
<1>1. /\ file' = file /\ read' = read /\ callers' = callers /\ control' = control
      /\ closed' = closed /\ frame' = frame /\ sets' = sets /\ finished' = finished
      /\ pauses' = pauses
  OBVIOUS
<1>2. Typed'
  BY <1>1 DEF Inv, Typed
<1>3. Bounded(parser)'
  BY Zenon DEF Bounded
<1>4. ReadWhole'
  BY <1>1, Zenon DEF Inv, ReadWhole
<1>5. Flow'
  <2>1. parser'.eof = parser.eof /\ Flow
    BY DEF Inv
  <2>2. (Parsing)' <=> Parsing
    BY <1>1, Zenon DEF Parsing
  <2>5. (closed => parser.eof) /\ (parser.eof /\ ~closed => Parsing)
    BY <2>1, Zenon DEF Flow
  <2>6. closed' <=> closed
    BY <1>1
  <2>7. parser'.eof <=> parser.eof
    BY <2>1
  <2>3. (closed => parser.eof)' /\ (parser.eof /\ ~closed => Parsing)'
    BY <2>2, <2>5, <2>6, <2>7, Zenon
  <2>4. /\ (control \in {"again", "return"} /\ ~closed => pauses > 0)'
        /\ (control = "deliver" /\ ~closed /\ ~frame.asked => pauses > 0)'
        /\ (control # "panic")'
    BY <1>1, <2>1 DEF Flow
  <2> QED BY <2>3, <2>4, Zenon DEF Flow
<1>6. AtEnd'
  BY <1>1, Zenon DEF Inv, AtEnd
<1>7. SetsAreUnits'
  BY <1>1, SetsUntouched, Zenon DEF Inv
<1>8. PicturesEnd'
  BY <1>1, PicturesUntouched, Zenon DEF Inv
<1> QED BY <1>2, <1>3, <1>4, <1>5, <1>6, <1>7, <1>8, Zenon DEF Inv

(* If it can look at four bytes, they are those of the file.               *)
LEMMA LooksAtFile ==
  ASSUME Inv, Has(parser, 4)
  PROVE  /\ parser.bank = file /\ file \in Seq(Bytes) /\ Len(file) \in Nat /\ read = Len(file)
         /\ parser.idx \in Nat /\ parser.idx + 4 <= Len(file)
         /\ Next4(parser) = Four(file, parser.idx)
         /\ parser.bank # <<>>
<1>1. file \in Seq(Bytes) /\ Len(file) \in Nat /\ parser \in ParserFields
  BY HeldByFile DEF Inv, Typed
<1>2. parser.idx \in Nat /\ Len(parser.bank) \in Nat /\ parser.idx + 4 <= Len(parser.bank)
  BY <1>1, ParserTypes DEF Has, Valid
<1>3. parser.bank # <<>>
  <2>1. Len(<<>>) = 0
    OBVIOUS
  <2>2. Len(parser.bank) # 0
    BY <1>2
  <2> QED BY <2>1, <2>2
<1>4. parser.bank = file /\ read = Len(file)
  BY <1>3 DEF Inv, ReadWhole
<1>5. Next4(parser) = Four(file, parser.idx)
  BY <1>4, Zenon DEF Next4, Four
<1> QED BY <1>1, <1>2, <1>3, <1>4, <1>5

(* The first unit is found.                                                *)
LEMMA FirstUnitFound ==
  ASSUME Inv, ~parser.first, Has(parser, 4), Next4(parser) = LongStartCode
  PROVE  /\ parser.idx + 5 \in 1 .. Len(file) + 1
         /\ Units[file] = UnitsFrom(file)[parser.idx + 5]
<1> DEFINE x == parser.idx
           starts == {i \in CodesAt(file) : SubSeq(file, i, i + 3) = LongStartCode}
<1>1. file \in Seq(Bytes) /\ Len(file) \in Nat /\ x \in Nat /\ x + 4 <= Len(file)
      /\ Four(file, x) = LongStartCode
  BY LooksAtFile
<1>2. \A c \in CodesAt(file) : SubSeq(file, c, c + 3) = LongStartCode => c > x
  BY Zenon DEF Inv, BeforeStart
<1> HIDE DEF x
<1>3. StartCode(Four(file, x))
  BY <1>1, Zenon DEF StartCode
<1>4. x + 1 \in CodesAt(file)
  BY <1>1, <1>3, CodeIsItsBytes
<1>5. SubSeq(file, x + 1, x + 1 + 3) = LongStartCode
  <2>1. x + 1 + 3 = x + 4
    BY <1>1
  <2> QED BY <1>1, <2>1, Zenon DEF Four
<1>6. x + 1 \in starts
  BY <1>4, <1>5
<1>7. starts \subseteq Nat /\ \A c \in starts : x + 1 <= c
  <2>1. ASSUME NEW c \in starts
        PROVE  c \in Nat /\ x + 1 <= c
    <3>1. c \in Nat /\ c > x
      BY <1>1, <1>2, CodeWithin
    <3> QED BY <1>1, <3>1
  <2> QED BY <2>1
<1>8. First(starts) = x + 1
  <2>1. First(starts) \in starts /\ \A j \in starts : First(starts) <= j
    BY <1>6, <1>7, FirstIsLeast
  <2> HIDE DEF starts
  <2>2. First(starts) \in Nat /\ First(starts) <= x + 1 /\ x + 1 <= First(starts)
    BY <1>6, <1>7, <2>1
  <2> QED BY <1>1, <2>2
<1>9. starts # {} /\ file \in Files
  BY <1>6 DEF Inv, Typed
<1>10. Units[file] = UnitsFrom(file)[First(starts) + 4]
  BY <1>9, Zenon DEF Units
<1>11. First(starts) + 4 = x + 5
  BY <1>1, <1>8
<1> HIDE DEF starts
<1>12. Units[file] = UnitsFrom(file)[x + 5]
  BY <1>10, <1>11, Zenon
<1>13. x + 5 \in 1 .. Len(file) + 1
  BY <1>1
<1> QED BY <1>12, <1>13 DEF x

(* There is none.                                                          *)
LEMMA NoUnits ==
  ASSUME Inv, ~parser.first, read = Len(file), ~Has(parser, 4)
  PROVE  Units[file] = <<>>
<1> DEFINE starts == {i \in CodesAt(file) : SubSeq(file, i, i + 3) = LongStartCode}
<1>1. file \in Seq(Bytes) /\ Len(file) \in Nat /\ file \in Files /\ parser \in ParserFields
  BY HeldByFile DEF Inv, Typed
<1>2. parser.idx \in Nat
  BY <1>1, ParserTypes
<1>3. Len(parser.bank) = Len(file)
  <2>1. parser.bank = IF read = 0 THEN <<>> ELSE file
    BY DEF Inv, ReadWhole
  <2>2. CASE read = 0
    <3>1. Len(<<>>) = 0 /\ Len(file) = 0
      BY <2>2
    <3> QED BY <2>1, <2>2, <3>1
  <2>3. CASE read # 0
    BY <2>1, <2>3
  <2> QED BY <2>2, <2>3
<1>4. parser.idx + 4 > Len(file)
  BY <1>1, <1>2, <1>3 DEF Has, Valid
<1>5. starts = {}
  <2> SUFFICES ASSUME NEW c \in CodesAt(file), SubSeq(file, c, c + 3) = LongStartCode
               PROVE  FALSE
    OBVIOUS
  <2>1. c > parser.idx
    BY Zenon DEF Inv, BeforeStart
  <2>2. c \in Nat /\ c + 3 <= Len(file)
    BY <1>1, CodeWithin
  <2> QED BY <1>1, <1>2, <1>4, <2>1, <2>2
<1> QED BY <1>1, <1>5, Zenon DEF Units

LEMMA FindStartKeeps ==
  ASSUME Inv, FilesFit, FindStart
  PROVE  Inv'
<1>1. Parsing /\ ~parser.first /\ UNCHANGED <<file, frame, sets, finished, pauses>>
  BY DEF FindStart
<1>2. parser \in ParserFields /\ Bounded(parser) /\ file \in Seq(Bytes) /\ Len(file) \in Nat
      /\ parser.idx \in Nat /\ parser.savedOut \in Nat /\ Len(parser.out) \in Nat
  BY HeldByFile, ParserTypes DEF Inv, Typed
<1>3. /\ finished = 0 /\ parser.out = <<>> /\ parser.header = NotSeen
      /\ parser.savedIdx = parser.idx
      /\ \A c \in CodesAt(file) : SubSeq(file, c, c + 3) = LongStartCode => c > parser.idx
  BY <1>1, Zenon DEF Inv, BeforeStart
<1>4. CASE ~Has(parser, 4) /\ EnsureValidBytes(parser, 4, "parse")
  <2>1. read = Len(file) => NearEnd
    <3> SUFFICES ASSUME read = Len(file) PROVE NearEnd
      OBVIOUS
    <3>1. Units[file] = <<>>
      BY <1>1, <1>4, NoUnits
    <3>2. Len(Units[file]) = 0
      BY <3>1
    <3>3. 0 <= LostAtEnd /\ LostAtEnd \in Nat
      BY FramerAssumption DEF LostAtEnd
    <3> QED BY <1>3, <3>2, <3>3 DEF NearEnd
  <2> QED BY <1>1, <1>2, <1>4, <2>1, ReadKeeps
<1>5. CASE /\ Has(parser, 4) /\ Next4(parser) = LongStartCode
           /\ parser' = [parser EXCEPT !.idx = @ + 4, !.first = TRUE]
           /\ UNCHANGED <<read, callers, control, closed>>
  <2>1. /\ parser.bank = file /\ parser.idx + 4 <= Len(file) /\ parser.bank # <<>>
    BY <1>5, LooksAtFile
  <2>2. /\ parser' \in ParserFields /\ parser'.bank = parser.bank
        /\ parser'.idx = parser.idx + 4 /\ parser'.savedIdx = parser.savedIdx
        /\ parser'.out = parser.out /\ parser'.savedOut = parser.savedOut
        /\ parser'.first = TRUE /\ parser'.header = NotSeen /\ parser'.eof = parser.eof
    <3>1. parser.idx + 4 \in Nat /\ NotSeen \in Cells
      BY <1>2 DEF Cells
    <3>2. [parser EXCEPT !.idx = parser.idx + 4, !.first = TRUE, !.header = NotSeen]
            = [parser EXCEPT !.idx = parser.idx + 4, !.first = TRUE]
      BY <1>2, <1>3 DEF ParserFields
    <3> DEFINE i == parser.idx + 4
    <3> HIDE DEF i
    <3>3. ParserIs([parser EXCEPT !.idx = i, !.first = TRUE, !.header = NotSeen],
                   parser.bank, i, parser.savedIdx, parser.out, parser.savedOut,
                   TRUE, NotSeen, parser.eof)
      BY <1>2, <3>1, Advanced, Zenon DEF i
    <3>4. parser' = [parser EXCEPT !.idx = i, !.first = TRUE, !.header = NotSeen]
      BY <1>5, <3>2, Zenon DEF i
    <3> QED BY <3>3, <3>4, Zenon DEF ParserIs, i
  <2>3. parser.idx + 5 \in 1 .. Len(file) + 1 /\ Units[file] = UnitsFrom(file)[parser.idx + 5]
    BY <1>1, <1>5, FirstUnitFound
  <2>4. Bounded(parser')
    <3>1. /\ parser.savedIdx <= parser.idx /\ Len(parser.bank) <= BankSize
          /\ parser.savedOut <= Len(parser.out) /\ Len(parser.out) <= Limit
      BY <1>2, Zenon DEF Bounded
    <3>2. parser'.savedIdx <= parser'.idx /\ parser'.idx <= Len(parser'.bank)
      BY <1>2, <1>3, <2>1, <2>2
    <3> QED BY <2>2, <3>1, <3>2, Zenon DEF Bounded
  <2>5. UnitAt(file, parser', 0, control, parser.idx + 5)
    <3> DEFINE s == parser.idx + 5
    <3>1. s = parser'.idx + 1 /\ s \in Nat
      BY <1>2, <2>2
    <3> HIDE DEF s
    <3>2. Remaining(file, 0, s)
      <4> DEFINE left == UnitsFrom(file)[s]
      <4>1. Units[file] = left
        BY <2>3 DEF s
      <4>2. IsUnits(left)
        BY <1>2, <2>3, UnitsProperties DEF s
      <4>3. Len(left) \in Nat
        BY <4>2 DEF IsUnits
      <4> HIDE DEF left
      <4>4. \A k \in 1 .. Len(left) : Units[file][0 + k] = left[k]
        <5> SUFFICES ASSUME NEW k \in 1 .. Len(left) PROVE Units[file][0 + k] = left[k]
          OBVIOUS
        <5>1. 0 + k = k
          BY <4>3
        <5> QED BY <4>1, <5>1, Zenon
      <4>5. Len(Units[file]) = 0 + Len(left)
        BY <4>1, <4>3
      <4> QED BY <4>4, <4>5, Zenon DEF Remaining, left
    <3>3. \A c \in CodesAt(file) : c >= s => c > parser'.idx
      <4> SUFFICES ASSUME NEW c \in CodesAt(file), c >= s PROVE c > parser'.idx
        OBVIOUS
      <4>1. c \in Nat
        BY <1>2, CodeWithin
      <4> QED BY <1>2, <2>2, <3>1, <4>1
    <3>4. parser'.out = SubSeq(file, s, parser'.idx)
      <4>1. parser'.idx < s /\ parser'.idx \in Int /\ s \in Int
        BY <1>2, <2>2, <3>1
      <4>2. SubSeq(file, s, parser'.idx) = <<>>
        BY <4>1, SubSeqEmpty
      <4> QED BY <1>3, <2>2, <4>2
    <3>5. s <= parser'.idx + 1
      BY <3>1
    <3> QED BY <2>2, <3>1, <3>2, <3>3, <3>4, <3>5, Zenon DEF UnitAt, s
  <2>6. WithinUnit'
    <3>1. control' = control /\ file' = file /\ finished' = 0 /\ (Parsing)'
      BY <1>1, <1>3, <1>5 DEF Parsing
    <3>2. \E s \in 1 .. Len(file') + 1 : UnitAt(file', parser', finished', control', s)
      BY <2>3, <2>5, <3>1, Zenon
    <3> QED BY <3>1, <3>2, Zenon DEF WithinUnit
  <2>7. BeforeStart'
    BY <2>2, Zenon DEF BeforeStart
  <2> QED BY <1>1, <1>5, <2>1, <2>2, <2>4, <2>6, <2>7, ParsesOn
<1>6. CASE /\ Has(parser, 4) /\ Next4(parser) # LongStartCode
           /\ parser' = SetParseState([parser EXCEPT !.idx = @ + 1])
           /\ UNCHANGED <<read, callers, control, closed>>
  <2>1. /\ parser.bank = file /\ parser.idx + 4 <= Len(file) /\ parser.bank # <<>>
        /\ Four(file, parser.idx) # LongStartCode
    BY <1>6, LooksAtFile
  <2>2. /\ parser' \in ParserFields /\ parser'.bank = parser.bank
        /\ parser'.idx = parser.idx + 1 /\ parser'.savedIdx = parser.idx + 1
        /\ parser'.out = parser.out /\ parser'.savedOut = Len(parser.out)
        /\ parser'.first = FALSE /\ parser'.header = NotSeen /\ parser'.eof = parser.eof
    <3> DEFINE i == parser.idx + 1
               q == [parser EXCEPT !.idx = i, !.first = FALSE, !.header = NotSeen]
    <3>1. i \in Nat /\ NotSeen \in Cells
      BY <1>2 DEF Cells
    <3>2. q = [parser EXCEPT !.idx = parser.idx + 1]
      BY <1>1, <1>2, <1>3 DEF ParserFields
    <3> HIDE DEF i
    <3>3. ParserIs(q, parser.bank, i, parser.savedIdx, parser.out, parser.savedOut,
                   FALSE, NotSeen, parser.eof)
      BY <1>2, <3>1, Advanced, Zenon
    <3> HIDE DEF q
    <3>4. ParserIs(SetParseState(q), q.bank, q.idx, q.idx, q.out, Len(q.out),
                   q.first, q.header, q.eof)
      BY <3>3, StateSet, Zenon DEF ParserIs
    <3>5. parser' = SetParseState(q)
      BY <1>6, <3>2, Zenon
    <3> QED BY <3>3, <3>4, <3>5, Zenon DEF ParserIs, i
  <2>3. Bounded(parser')
    BY <1>2, <2>1, <2>2 DEF Bounded
  <2>4. BeforeStart'
    <3> SUFFICES ASSUME NEW c \in CodesAt(file), SubSeq(file, c, c + 3) = LongStartCode
                 PROVE  c > parser'.idx
      BY <1>1, <1>3, <2>2, Zenon DEF BeforeStart
    <3>1. c \in Nat /\ c > parser.idx
      BY <1>2, <1>3, CodeWithin
    <3>2. c # parser.idx + 1
      <4>1. parser.idx + 1 + 3 = parser.idx + 4
        BY <1>2
      <4> QED BY <2>1, <4>1, Zenon DEF Four
    <3> QED BY <1>2, <2>2, <3>1, <3>2
  <2>5. WithinUnit'
    BY <2>2, Zenon DEF WithinUnit
  <2> QED BY <1>1, <1>6, <2>1, <2>2, <2>3, <2>4, <2>5, ParsesOn
<1>7. QED
  <2>1. \/ ~Has(parser, 4) /\ EnsureValidBytes(parser, 4, "parse")
        \/ /\ Has(parser, 4)
           /\ parser' = IF Next4(parser) = LongStartCode
                        THEN [parser EXCEPT !.idx = @ + 4, !.first = TRUE]
                        ELSE SetParseState([parser EXCEPT !.idx = @ + 1])
           /\ UNCHANGED <<read, callers, control, closed>>
    BY DEF FindStart
  <2> QED BY <1>4, <1>5, <1>6, <2>1, Zenon


(* Once a start code or the end was seen, the bank holds the file.         *)
LEMMA WholeBank ==
  ASSUME Inv, parser.first \/ parser.eof
  PROVE  /\ file \in Seq(Bytes) /\ Len(file) \in Nat /\ read = Len(file)
         /\ parser.bank = file /\ parser \in ParserFields
         /\ parser.idx \in Nat /\ parser.idx <= Len(file)
         /\ Len(parser.out) \in Nat /\ Len(parser.out) <= Limit
<1>1. file \in Seq(Bytes) /\ Len(file) \in Nat /\ parser \in ParserFields
  BY HeldByFile DEF Inv, Typed
<1>2. read = Len(file) /\ parser.bank = (IF read = 0 THEN <<>> ELSE file)
  BY Zenon DEF Inv, ReadWhole
<1>3. Len(file) = 0 => file = <<>>
  BY <1>1
<1>4. parser.bank = file
  BY <1>2, <1>3, Zenon
<1>5. /\ parser.idx \in Nat /\ parser.idx <= Len(parser.bank) /\ Len(parser.out) \in Nat
      /\ Len(parser.out) <= Limit
  BY <1>1, ParserTypes DEF Inv, Bounded
<1> QED BY <1>1, <1>2, <1>4, <1>5

LEMMA ByteSeen ==
  ASSUME NEW b \in Bytes
  PROVE  b # NotSeen /\ b \in Nat
BY DEF Bytes, NotSeen

(* The parts of being in a unit.                                           *)
LEMMA UnitAtSays ==
  ASSUME NEW f, NEW p, NEW n, NEW does, NEW s, UnitAt(f, p, n, does, s)
  PROVE  /\ s <= p.idx + 1
         /\ Remaining(f, n, s)
         /\ \A c \in CodesAt(f) : c >= s => c > p.idx
         /\ p.header = NotSeen => s = p.idx + 1
         /\ p.header # NotSeen => s <= p.idx /\ p.header = f[s]
         /\ does = "parse" => p.out = SubSeq(f, s, p.idx)
BY Zenon DEF UnitAt

LEMMA InAUnit ==
  ASSUME Inv, parser.first, ~parser.eof
  PROVE  \E s \in 1 .. Len(file) + 1 : UnitAt(file, parser, finished, control, s)
BY Zenon DEF Inv, WithinUnit

(* The bytes run out: only the unit that the parser is in is left.         *)
LEMMA NoMoreCodes ==
  ASSUME Inv, parser.first, ~parser.eof, ~Has(parser, 4)
  PROVE  NearEnd
<1>1. /\ file \in Seq(Bytes) /\ Len(file) \in Nat /\ parser.bank = file
      /\ parser.idx \in Nat
  BY WholeBank
<1>2. parser.idx + 4 > Len(file)
  BY <1>1 DEF Has, Valid
<1>3. PICK s \in 1 .. Len(file) + 1 : UnitAt(file, parser, finished, control, s)
  BY InAUnit
<1>4. Remaining(file, finished, s) /\ \A c \in CodesAt(file) : c >= s => c > parser.idx
  BY <1>3, UnitAtSays
<1>5. \A c \in CodesAt(file) : c < s
  <2> SUFFICES ASSUME NEW c \in CodesAt(file) PROVE c < s
    OBVIOUS
  <2>1. c \in Nat /\ c + 3 <= Len(file) /\ s \in Nat
    BY <1>1, CodeWithin
  <2> QED BY <1>1, <1>2, <1>4, <2>1
<1>6. UnitsFrom(file)[s] = <<SubSeq(file, s, Len(file))>>
  BY <1>1, <1>5, LastUnit
<1>7. Len(<<SubSeq(file, s, Len(file))>>) = 1
  OBVIOUS
<1>8. Len(Units[file]) = finished + 1
  BY <1>4, <1>6, <1>7, Zenon DEF Remaining
<1>9. 1 <= LostAtEnd /\ LostAtEnd \in Nat /\ finished \in Nat
  BY FramerAssumption DEF LostAtEnd, Inv, Typed
<1> QED BY <1>8, <1>9 DEF NearEnd

(* What lies before the next start code is part of the unit.               *)
LEMMA PartOfUnit ==
  ASSUME NEW f \in Seq(Bytes), NEW s \in 1 .. Len(f) + 1, NEW y \in Nat,
         s <= y, y <= Len(f), \A c \in CodesAt(f) : c >= s => c > y
  PROVE  y - s + 1 <= Len(UnitsFrom(f)[s][1])
<1> DEFINE S == Later(f, s)
           c == First(S)
<1>1. s \in Nat /\ s >= 1 /\ Len(f) \in Nat
  OBVIOUS
<1>2. CASE S = {}
  <2>1. \A d \in CodesAt(f) : d < s
    <3> SUFFICES ASSUME NEW d \in CodesAt(f) PROVE d < s
      OBVIOUS
    <3>1. d \in Nat /\ ~(d >= s)
      BY <1>2, CodeWithin DEF Later
    <3> QED BY <1>1, <3>1
  <2>2. UnitsFrom(f)[s] = <<SubSeq(f, s, Len(f))>>
    BY <2>1, LastUnit
  <2>3. UnitsFrom(f)[s][1] = SubSeq(f, s, Len(f))
    BY <2>2
  <2>4. Len(SubSeq(f, s, Len(f))) = IF s <= Len(f) THEN Len(f) - s + 1 ELSE 0
    BY <1>1, SliceOfFile
  <2> QED BY <1>1, <2>3, <2>4
<1>3. CASE S # {}
  <2>1. S \subseteq Nat
    BY CodeWithin DEF Later
  <2>2. c \in S /\ \A d \in S : c <= d
    BY <1>3, <2>1, FirstIsLeast
  <2> HIDE DEF c
  <2>3. c \in CodesAt(f) /\ c >= s /\ \A d \in CodesAt(f) : d >= s => d >= c
    <3>1. c \in CodesAt(f) /\ c >= s
      BY <2>2 DEF Later
    <3>2. ASSUME NEW d \in CodesAt(f), d >= s PROVE d >= c
      <4>1. d \in S
        BY <3>2 DEF Later
      <4>2. d \in Nat /\ c \in Nat
        BY <2>1, <2>2, <4>1
      <4> QED BY <2>2, <4>1, <4>2
    <3> QED BY <3>1, <3>2
  <2> HIDE DEF S
  <2> DEFINE b == c + CodeSize(f, c)
             rest == UnitsFrom(f)[b]
             one == SubSeq(f, s, c - 1)
  <2>4. c \in Nat /\ c > y /\ c - 1 \in Nat /\ c - 1 <= Len(f)
    <3>1. c \in Nat /\ c + 3 <= Len(f) /\ c > y
      BY <2>3, CodeWithin
    <3> QED BY <1>1, <3>1
  <2>5. b \in 1 .. Len(f) + 1 /\ UnitsFrom(f)[s] = <<one>> \o rest
    BY <1>1, <2>3, <2>4, UnitBeforeCode
  <2>6. one \in Seq(Bytes) /\ Len(one) = IF s <= c - 1 THEN c - 1 - s + 1 ELSE 0
    BY <2>4, SliceOfFile
  <2>7. IsUnits(rest)
    BY <2>5, UnitsProperties
  <2> HIDE DEF one, rest, b
  <2>8. UnitsFrom(f)[s][1] = one
    <3>1. <<one>> \in Seq(Seq(Bytes)) /\ Len(<<one>>) = 1 /\ <<one>>[1] = one
      BY <2>6
    <3>2. rest \in Seq(Seq(Bytes)) /\ Len(rest) \in Nat
      BY <2>7 DEF IsUnits
    <3>3. \A i \in 1 .. Len(<<one>>) + Len(rest) : (<<one>> \o rest)[i] =
                     IF i <= Len(<<one>>) THEN <<one>>[i] ELSE rest[i - Len(<<one>>)]
      BY <3>1, <3>2, ConcatProperties
    <3>4. 1 \in 1 .. Len(<<one>>) + Len(rest) /\ 1 <= Len(<<one>>)
      BY <3>1, <3>2
    <3> QED BY <2>5, <3>1, <3>3, <3>4
  <2> QED BY <1>1, <2>4, <2>6, <2>8
<1> QED BY <1>2, <1>3

(* A unit that fits the reader's buffer is saved whole.                    *)
LEMMA SavesAll ==
  ASSUME NEW f \in Seq(Bytes),
         NEW s \in 1 .. Len(f) + 1, NEW x \in Nat, NEW m \in Nat,
         s <= x + 1, x + m <= Len(f), (x + m) - s + 1 <= Limit
  PROVE  SubSeq(f, s, x + m) =
           IF Len(SubSeq(f, s, x)) + Len(SubSeq(f, x + 1, x + m)) > Limit
           THEN SubSeq(f, s, x)
           ELSE SubSeq(f, s, x) \o SubSeq(f, x + 1, x + m)
<1>1. Len(f) \in Nat /\ Limit \in Nat
  BY FramerAssumption
<1>2. Len(SubSeq(f, s, x)) = IF s <= x THEN x - s + 1 ELSE 0
  BY <1>1, SliceOfFile
<1>3. Len(SubSeq(f, x + 1, x + m)) = m
  <2> DEFINE k == x + 1
             j == x + m
  <2>1. k \in 1 .. Len(f) + 1 /\ j \in Nat /\ j <= Len(f)
    BY <1>1
  <2>2. (IF k <= j THEN j - k + 1 ELSE 0) = m
    OBVIOUS
  <2> HIDE DEF k, j
  <2>3. Len(SubSeq(f, k, j)) = IF k <= j THEN j - k + 1 ELSE 0
    BY <1>1, <2>1, SliceOfFile
  <2> QED BY <2>2, <2>3 DEF k, j
<1>4. ~(Len(SubSeq(f, s, x)) + Len(SubSeq(f, x + 1, x + m)) > Limit)
  BY <1>1, <1>2, <1>3
<1>5. x \in s - 1 .. Len(f) /\ x + m \in x .. Len(f)
  BY <1>1
<1>6. SubSeq(f, s, x) \o SubSeq(f, x + 1, x + m) = SubSeq(f, s, x + m)
  BY <1>1, <1>5, ConcatAdjacentSubSeq
<1> QED BY <1>4, <1>6

LEMMA SaveBytesKeeps ==
  ASSUME Inv, FilesFit, SaveBytes
  PROVE  Inv'
<1>1. Parsing /\ parser.first /\ ~parser.eof /\ UNCHANGED <<file, frame, sets, finished, pauses>>
  BY DEF SaveBytes, InUnit
<1>2. /\ file \in Seq(Bytes) /\ Len(file) \in Nat /\ parser.bank = file
      /\ parser \in ParserFields /\ parser.idx \in Nat /\ Bounded(parser)
      /\ Len(parser.out) \in Nat /\ Len(parser.out) <= Limit
  BY <1>1, WholeBank DEF Inv
<1>3. CASE ~Has(parser, 4) /\ EnsureValidBytes(parser, 4, "parse")
  BY <1>1, <1>2, <1>3, NoMoreCodes, ReadKeeps
<1>4. CASE /\ Has(parser, 4) /\ ~StartCode(Next4(parser))
           /\ LET four == Next4(parser)
                  n == SaveSize(four)
              IN  parser' = SetParseState([Save(HeaderSeen(parser), SubSeq(four, 1, n))
                                           EXCEPT !.idx = @ + n])
           /\ UNCHANGED <<read, callers, control, closed>>
  <2> DEFINE x == parser.idx
             four == Next4(parser)
             n == SaveSize(four)
             bytes == SubSeq(four, 1, n)
             h == IF parser.header = NotSeen THEN file[x + 1] ELSE parser.header
             q == HeaderSeen(parser)
             r == Save(q, bytes)
             t == [r EXCEPT !.idx = @ + n]
  <2>1. /\ four = Four(file, x) /\ x + 4 <= Len(file) /\ parser.bank # <<>>
        /\ ~StartCode(Four(file, x)) /\ parser' = SetParseState(t) /\ x \in Nat
    BY <1>4, LooksAtFile
  <2> HIDE DEF x, four
  <2>2. /\ n \in {1, 4} /\ bytes = SubSeq(file, x + 1, x + n)
        /\ \A c \in CodesAt(file) : c > x => c > x + n
    BY <1>2, <2>1, SavedBytes
  <2> HIDE DEF n
  <2>3. /\ four[1] = file[x + 1] /\ file[x + 1] \in Bytes /\ x + n \in Nat
        /\ x + n <= Len(file) /\ n \in Nat /\ x < x + n
    <3>1. Four(file, x)[1] = file[x + 1] /\ file[x + 1] \in Bytes
      BY <1>2, <2>1, FourBytes
    <3>2. x + n \in Nat /\ x + n <= Len(file) /\ n \in Nat /\ x < x + n
      <4>1. n \in {1, 4} /\ x \in Nat /\ x + 4 <= Len(file) /\ Len(file) \in Nat
        BY <1>2, <2>1, <2>2, Zenon
      <4> QED BY <4>1
    <3> QED BY <2>1, <3>1, <3>2, Zenon
  <2>4. bytes \in Seq(Bytes)
    <3> DEFINE i == x + 1
    <3>1. i \in 1 .. Len(file) + 1
      BY <1>2, <2>1
    <3> HIDE DEF i
    <3>2. SubSeq(file, i, x + n) \in Seq(Bytes)
      BY <1>2, <2>3, <3>1, SliceOfFile
    <3> QED BY <2>2, <3>2 DEF i
  <2> HIDE DEF bytes
  <2>5. ParserIs(q, file, x, parser.savedIdx, parser.out, parser.savedOut, TRUE, h, FALSE)
    <3>1. ParserIs(q, parser.bank, parser.idx, parser.savedIdx, parser.out, parser.savedOut,
                   parser.first, IF parser.header = NotSeen THEN file[x + 1] ELSE parser.header,
                   parser.eof)
      BY <1>2, <2>3, HeaderIsSeen, Zenon DEF four
    <3>2. parser.first = TRUE /\ parser.eof = FALSE
      BY <1>1, <1>2, ParserTypes
    <3> QED BY <1>2, <3>1, <3>2, Zenon DEF x
  <2> HIDE DEF q, h
  <2>6. /\ q \in ParserFields /\ q.bank = file /\ q.idx = x /\ q.out = parser.out
        /\ q.first = TRUE /\ q.header = h /\ q.eof = FALSE
    BY <2>5, Zenon DEF ParserIs
  <2>7. PICK o \in Seq(Cells) :
          /\ o = IF Len(q.out) + Len(bytes) > Limit THEN q.out ELSE q.out \o bytes
          /\ Len(q.out) <= Limit => Len(o) <= Limit
          /\ ParserIs(r, q.bank, q.idx, q.savedIdx, o, q.savedOut, q.first, q.header, q.eof)
    BY <2>4, <2>6, Saved
  <2> HIDE DEF r
  <2>8. /\ r \in ParserFields /\ r.bank = file /\ r.idx = x /\ r.out = o
        /\ r.first = TRUE /\ r.header = h /\ r.eof = FALSE
    BY <2>6, <2>7, Zenon DEF ParserIs
  <2>9. /\ t \in ParserFields /\ t.bank = file /\ t.idx = x + n /\ t.out = o
        /\ t.first = TRUE /\ t.header = h /\ t.eof = FALSE
    <3> DEFINE i == x + n
    <3>1. t = [r EXCEPT !.idx = i, !.first = r.first, !.header = r.header]
      BY <2>8 DEF ParserFields
    <3>2. i \in Nat /\ r.first \in BOOLEAN /\ r.header \in Cells
      BY <2>3, <2>8, ParserTypes
    <3> HIDE DEF t, i
    <3>3. ParserIs(t, r.bank, i, r.savedIdx, r.out, r.savedOut, r.first, r.header, r.eof)
      BY <2>8, <3>1, <3>2, Advanced, Zenon
    <3> QED BY <2>8, <3>3, Zenon DEF ParserIs, i
  <2> HIDE DEF t
  <2>10. /\ parser' \in ParserFields /\ parser'.bank = file /\ parser'.idx = x + n
         /\ parser'.savedIdx = x + n /\ parser'.out = o /\ parser'.savedOut = Len(o)
         /\ parser'.first = TRUE /\ parser'.header = h /\ parser'.eof = FALSE
    <3>1. ParserIs(SetParseState(t), t.bank, t.idx, t.idx, t.out, Len(t.out),
                   t.first, t.header, t.eof)
      BY <2>9, StateSet
    <3> QED BY <2>1, <2>9, <3>1, Zenon DEF ParserIs
  <2>11. PICK s \in 1 .. Len(file) + 1 : UnitAt(file, parser, finished, control, s)
    BY <1>1, InAUnit
  <2>12. /\ s <= x + 1 /\ Remaining(file, finished, s) /\ s \in Nat
         /\ \A c \in CodesAt(file) : c >= s => c > x
         /\ parser.header = NotSeen => s = x + 1
         /\ parser.header # NotSeen => s <= x /\ parser.header = file[s]
         /\ control = "parse" => parser.out = SubSeq(file, s, x)
    BY <2>11, UnitAtSays DEF x
  <2>13. h # NotSeen /\ s <= x + n /\ h = file[s]
    <3>1. file[x + 1] # NotSeen
      BY <2>3, ByteSeen
    <3>2. h # NotSeen /\ h = file[s]
      BY <2>12, <3>1, Zenon DEF h
    <3> QED BY <2>3, <2>12, <2>1, <3>2
  <2>14. control = "parse" => o = SubSeq(file, s, x + n)
    <3> SUFFICES ASSUME control = "parse" PROVE o = SubSeq(file, s, x + n)
      OBVIOUS
    <3>1. o = IF Len(SubSeq(file, s, x)) + Len(SubSeq(file, x + 1, x + n)) > Limit
              THEN SubSeq(file, s, x)
              ELSE SubSeq(file, s, x) \o SubSeq(file, x + 1, x + n)
      BY <2>2, <2>6, <2>7, <2>12, Zenon
    <3>2. (x + n) - s + 1 <= Limit
      <4>1. \A c \in CodesAt(file) : c >= s => c > x + n
        BY <2>2, <2>12, Zenon
      <4>2. /\ file \in Seq(Bytes) /\ x + n \in Nat /\ s <= x + n /\ x + n <= Len(file)
        BY <1>2, <2>3, <2>13, Zenon
      <4>3. (x + n) - s + 1 <= Len(UnitsFrom(file)[s][1])
        <5> DEFINE y == x + n
        <5>1. /\ y \in Nat /\ s <= y /\ y <= Len(file)
              /\ \A c \in CodesAt(file) : c >= s => c > y
          BY <4>1, <4>2
        <5> HIDE DEF y
        <5>2. y - s + 1 <= Len(UnitsFrom(file)[s][1])
          BY <4>2, <5>1, PartOfUnit
        <5> QED BY <5>2, Zenon DEF y
      <4> DEFINE us == UnitsFrom(file)[s]
      <4>4. us \in Seq(Seq(Bytes)) /\ Len(us) \in Nat /\ Len(us) >= 1
        <5>1. IsUnits(us)
          BY <4>2, UnitsProperties
        <5> QED BY <5>1 DEF IsUnits
      <4>5. /\ Len(Units[file]) = finished + Len(us)
            /\ \A i \in 1 .. Len(us) : Units[file][finished + i] = us[i]
        BY <2>12, Zenon DEF Remaining
      <4> HIDE DEF us
      <4>6. finished \in Nat /\ file \in Files
        BY DEF Inv, Typed
      <4>7. 1 \in 1 .. Len(us) /\ finished + 1 \in 1 .. Len(Units[file])
        BY <4>4, <4>5, <4>6
      <4>8. Len(Units[file][finished + 1]) <= Limit /\ Units[file][finished + 1] = us[1]
        BY <4>5, <4>6, <4>7 DEF FilesFit
      <4>9. us[1] \in Seq(Bytes)
        BY <4>4, <4>7, ElementOfSeq
      <4>10. Len(us[1]) \in Nat /\ Limit \in Nat /\ (x + n) - s + 1 \in Int
        <5>1. s \in Nat
          BY <2>12
        <5>2. Len(us[1]) \in Nat
          BY <4>9, LenProperties
        <5>3. x + n \in Nat
          BY <4>2
        <5>4. (x + n) - s + 1 \in Int
          BY <5>1, <5>3
        <5> QED BY <5>2, <5>4, FramerAssumption
      <4> QED BY <4>3, <4>8, <4>10 DEF us
    <3>3. SubSeq(file, s, x + n) =
            IF Len(SubSeq(file, s, x)) + Len(SubSeq(file, x + 1, x + n)) > Limit
            THEN SubSeq(file, s, x)
            ELSE SubSeq(file, s, x) \o SubSeq(file, x + 1, x + n)
      <4>1. /\ file \in Seq(Bytes) /\ x \in Nat /\ n \in Nat /\ s <= x + 1
            /\ x + n <= Len(file) /\ s \in 1 .. Len(file) + 1
        BY <1>2, <2>1, <2>3, <2>12, Zenon
      <4> QED BY <3>2, <4>1, SavesAll
    <3> QED BY <3>1, <3>3, Zenon
  <2>15. UnitAt(file, parser', finished, control, s)
    <3>1. s <= parser'.idx + 1
      BY <2>1, <2>3, <2>10, <2>13
    <3>2. \A c \in CodesAt(file) : c >= s => c > parser'.idx
      BY <2>2, <2>10, <2>12
    <3> QED BY <2>10, <2>12, <2>13, <2>14, <3>1, <3>2, Zenon DEF UnitAt
  <2>16. WithinUnit'
    <3>1. control' = control /\ file' = file /\ finished' = finished /\ (Parsing)'
      BY <1>1, <1>4 DEF Parsing
    <3>2. \E w \in 1 .. Len(file') + 1 : UnitAt(file', parser', finished', control', w)
      BY <2>15, <3>1, Zenon
    <3> QED BY <3>1, <3>2, Zenon DEF WithinUnit
  <2>17. BeforeStart'
    BY <2>10, Zenon DEF BeforeStart
  <2>18. Bounded(parser')
    <3>1. Len(o) <= Limit /\ Len(o) \in Nat
      BY <1>2, <2>6, <2>7
    <3>2. Len(file) <= BankSize
      BY <1>2 DEF Bounded
    <3> QED BY <2>3, <2>10, <3>1, <3>2 DEF Bounded
  <2>19. parser'.eof = parser.eof /\ parser'.bank = parser.bank
    BY <1>1, <1>2, <2>10, ParserTypes
  <2> QED BY <1>1, <1>4, <2>1, <2>10, <2>19, <2>16, <2>17, <2>18, ParsesOn
<1> QED BY <1>3, <1>4 DEF SaveBytes

(* The types of NAL units are numbers.                                     *)
LEMMA TypeOfByte ==
  ASSUME NEW b \in Bytes
  PROVE  TypeOf(b) \in Nat /\ TypeOf(0) = 0
BY DEF TypeOf, Bytes

(* What the parser finds at the start code behind a unit.                  *)
LEMMA UnitEnds ==
  ASSUME Inv, InUnit, Has(parser, 4), StartCode(Next4(parser)),
         NEW k, k = IF Next4(parser) = LongStartCode THEN 4 ELSE 3
  PROVE  /\ k \in {3, 4} /\ parser.idx + k + 1 \in 1 .. Len(file) + 1
         /\ parser.idx + k <= Len(file)
         /\ Remaining(file, finished + 1, parser.idx + k + 1)
         /\ control = "parse" => parser.out = Units[file][finished + 1]
         /\ HeaderSeen(parser).header \in Bytes
         /\ IF Units[file][finished + 1] = <<>> THEN HeaderSeen(parser).header = 0
            ELSE HeaderSeen(parser).header = Units[file][finished + 1][1]
<1> DEFINE x == parser.idx
           t == x + k + 1
           this == HeaderSeen(parser).header
           unit == Units[file][finished + 1]
<1>1. parser.first /\ ~parser.eof
  BY DEF InUnit
<1>2. /\ file \in Seq(Bytes) /\ Len(file) \in Nat /\ parser.bank = file
      /\ parser \in ParserFields /\ x \in Nat /\ finished \in Nat
  BY <1>1, WholeBank DEF Inv, Typed
<1>3. /\ x + 4 <= Len(file) /\ Next4(parser) = Four(file, x)
      /\ StartCode(Four(file, x))
  BY LooksAtFile
<1>4. PICK s \in 1 .. Len(file) + 1 : UnitAt(file, parser, finished, control, s)
  BY <1>1, InAUnit
<1>5. /\ s <= x + 1 /\ Remaining(file, finished, s) /\ s \in Nat
      /\ \A c \in CodesAt(file) : c >= s => c > x
      /\ parser.header = NotSeen => s = x + 1
      /\ parser.header # NotSeen => s <= x /\ parser.header = file[s]
      /\ control = "parse" => parser.out = SubSeq(file, s, x)
  BY <1>4, UnitAtSays
<1>6. k \in {3, 4} /\ k = CodeSize(file, x + 1) /\ x + 1 \in CodesAt(file)
  BY <1>2, <1>3, CodeIsItsBytes
<1> HIDE DEF x
<1>7. /\ UnitsFrom(file)[s] = <<SubSeq(file, s, x)>> \o UnitsFrom(file)[t]
      /\ t \in 1 .. Len(file) + 1
  <2> DEFINE c == x + 1
  <2>1. c - 1 = x /\ c + k = t /\ s <= c /\ \A d \in CodesAt(file) : d >= s => d >= c
    <3>1. c - 1 = x /\ c + k = t /\ s <= c
      BY <1>2, <1>5, <1>6
    <3>2. ASSUME NEW d \in CodesAt(file), d >= s PROVE d >= c
      <4>1. d > x /\ d \in Nat
        BY <1>2, <1>5, <3>2, CodeWithin
      <4> QED BY <1>2, <4>1
    <3> QED BY <3>1, <3>2
  <2>2. c \in CodesAt(file) /\ k = CodeSize(file, c)
    BY <1>6
  <2> HIDE DEF c, t
  <2>3. /\ c + CodeSize(file, c) \in 1 .. Len(file) + 1
        /\ UnitsFrom(file)[s] = <<SubSeq(file, s, c - 1)>> \o UnitsFrom(file)[c + CodeSize(file, c)]
    BY <1>2, <2>1, <2>2, UnitBeforeCode
  <2> QED BY <2>1, <2>2, <2>3, Zenon
<1> DEFINE one == SubSeq(file, s, x)
           rest == UnitsFrom(file)[t]
<1>8. one \in Seq(Bytes) /\ x <= Len(file)
  <2>1. x <= Len(file)
    BY <1>2, <1>3
  <2> QED BY <1>2, <2>1, SliceOfFile
<1>9. rest \in Seq(Seq(Bytes)) /\ Len(rest) \in Nat
  <2>1. IsUnits(rest)
    BY <1>2, <1>7, UnitsProperties
  <2> QED BY <2>1 DEF IsUnits
<1>10. /\ Len(Units[file]) = finished + Len(UnitsFrom(file)[s])
       /\ \A i \in 1 .. Len(UnitsFrom(file)[s]) : Units[file][finished + i] = UnitsFrom(file)[s][i]
  BY <1>5, Zenon DEF Remaining
<1> HIDE DEF one, rest, t
<1>11. UnitsFrom(file)[s] = <<one>> \o rest
  BY <1>7, Zenon DEF one, rest
<1>12. /\ Len(<<one>> \o rest) = 1 + Len(rest)
       /\ (<<one>> \o rest)[1] = one
       /\ \A i \in 1 .. Len(rest) : (<<one>> \o rest)[1 + i] = rest[i]
  <2>1. <<one>> \in Seq(Seq(Bytes)) /\ Len(<<one>>) = 1 /\ <<one>>[1] = one
    BY <1>8
  <2>2. /\ Len(<<one>> \o rest) = Len(<<one>>) + Len(rest)
        /\ \A i \in 1 .. Len(<<one>>) + Len(rest) : (<<one>> \o rest)[i] =
                     IF i <= Len(<<one>>) THEN <<one>>[i] ELSE rest[i - Len(<<one>>)]
    BY <1>9, <2>1, ConcatProperties
  <2>3. \A i \in 1 .. 1 + Len(rest) : (<<one>> \o rest)[i] = IF i <= 1 THEN one ELSE rest[i - 1]
    BY <2>1, <2>2
  <2>4. 1 \in 1 .. 1 + Len(rest)
    BY <1>9
  <2>5. \A i \in 1 .. Len(rest) : 1 + i \in 1 .. 1 + Len(rest) /\ ~(1 + i <= 1) /\ 1 + i - 1 = i
    BY <1>9
  <2> QED BY <2>1, <2>2, <2>3, <2>4, <2>5
<1>13. /\ Len(Units[file]) = finished + 1 + Len(rest)
       /\ unit = one
       /\ \A i \in 1 .. Len(rest) : Units[file][finished + 1 + i] = rest[i]
  <2>1. /\ Len(Units[file]) = finished + (1 + Len(rest))
        /\ \A i \in 1 .. 1 + Len(rest) : Units[file][finished + i] = (<<one>> \o rest)[i]
    BY <1>10, <1>11, <1>12, Zenon
  <2>2. finished + (1 + Len(rest)) = finished + 1 + Len(rest) /\ 1 \in 1 .. 1 + Len(rest)
    BY <1>2, <1>9
  <2>3. \A i \in 1 .. Len(rest) : 1 + i \in 1 .. 1 + Len(rest) /\ finished + (1 + i) = finished + 1 + i
    BY <1>2, <1>9
  <2>4. \A i \in 1 .. Len(rest) : Units[file][finished + 1 + i] = rest[i]
    <3> SUFFICES ASSUME NEW i \in 1 .. Len(rest) PROVE Units[file][finished + 1 + i] = rest[i]
      OBVIOUS
    <3>1. Units[file][finished + (1 + i)] = (<<one>> \o rest)[1 + i]
      BY <2>1, <2>3, Zenon
    <3>2. (<<one>> \o rest)[1 + i] = rest[i]
      BY <1>12
    <3> QED BY <2>3, <3>1, <3>2, Zenon
  <2>5. unit = one
    BY <1>12, <2>1, <2>2, Zenon
  <2> QED BY <2>1, <2>2, <2>4, <2>5, Zenon
<1>14. Remaining(file, finished + 1, t)
  BY <1>13, Zenon DEF Remaining, rest
<1>15. control = "parse" => parser.out = unit
  BY <1>5, <1>13, Zenon DEF one
<1>16. this \in Bytes /\ IF unit = <<>> THEN this = 0 ELSE this = unit[1]
  <2>1. /\ Next4(parser)[1] = file[x + 1] /\ file[x + 1] \in Bytes /\ file[x + 1] = 0
    <3>1. Four(file, x)[1] = file[x + 1] /\ file[x + 1] \in Bytes
      BY <1>2, <1>3, FourBytes
    <3>2. CodeBytes(file, x)
      BY <1>2, <1>3, CodeIsItsBytes
    <3> QED BY <1>3, <3>1, <3>2, Zenon DEF CodeBytes
  <2>2. ParserIs(HeaderSeen(parser), parser.bank, parser.idx, parser.savedIdx, parser.out,
                 parser.savedOut, parser.first,
                 IF parser.header = NotSeen THEN file[x + 1] ELSE parser.header, parser.eof)
    BY <1>2, <2>1, HeaderIsSeen, Zenon
  <2>3. this = IF parser.header = NotSeen THEN file[x + 1] ELSE parser.header
    BY <2>2, Zenon DEF ParserIs
  <2> HIDE DEF this
  <2>4. CASE parser.header = NotSeen
    <3>1. s = x + 1
      BY <1>5, <2>4
    <3>2. SubSeq(file, s, x) = <<>>
      <4>1. x < s /\ x \in Int /\ s \in Int
        BY <1>2, <3>1
      <4> QED BY <4>1, SubSeqEmpty
    <3> QED BY <1>13, <2>1, <2>3, <2>4, <3>2, Zenon DEF one
  <2>5. CASE parser.header # NotSeen
    <3>1. s <= x /\ parser.header = file[s]
      BY <1>5, <2>5
    <3>2. Len(one) # 0
      <4>1. Len(SubSeq(file, s, x)) = IF s <= x THEN x - s + 1 ELSE 0
        BY <1>2, <1>8, SliceOfFile
      <4> QED BY <1>2, <1>5, <3>1, <4>1 DEF one
    <3>3. one # <<>>
      <4>1. Len(<<>>) = 0
        OBVIOUS
      <4> QED BY <3>2, <4>1, Zenon
    <3>4. one[1] = file[s] /\ s \in 1 .. Len(file)
      BY <1>2, <1>8, <3>3, FirstByte DEF one
    <3>5. file[s] \in Bytes
      BY <1>2, <3>4, ElementOfSeq
    <3> QED BY <1>13, <2>3, <2>5, <3>1, <3>3, <3>4, <3>5, Zenon
  <2> QED BY <2>4, <2>5
<1>17. x + k <= Len(file)
  BY <1>2, <1>3, <1>6
<1> QED BY <1>6, <1>7, <1>14, <1>15, <1>16, <1>17, Zenon DEF x, t

(* What follows it.                                                        *)
LEMMA UnitBegins ==
  ASSUME NEW f \in Seq(Bytes), NEW n \in Nat, NEW t \in 1 .. Len(f) + 1,
         Remaining(f, n, t)
  PROVE  /\ Len(Units[f]) = n + Len(UnitsFrom(f)[t]) /\ Len(UnitsFrom(f)[t]) \in Nat
         /\ Len(UnitsFrom(f)[t]) >= 1
         /\ n < Len(Units[f])
         /\ Units[f][n + 1] # <<>> => t \in 1 .. Len(f) /\ Units[f][n + 1][1] = f[t]
<1> DEFINE us == UnitsFrom(f)[t]
<1>1. IsUnits(us) /\ BeginsAt(f, t, us)
  BY UnitsProperties
<1>2. Len(Units[f]) = n + Len(us) /\ \A i \in 1 .. Len(us) : Units[f][n + i] = us[i]
  BY Zenon DEF Remaining
<1> HIDE DEF us
<1>3. Len(us) \in Nat /\ Len(us) >= 1
  BY <1>1 DEF IsUnits
<1>4. 1 \in 1 .. Len(us)
  BY <1>3
<1>5. Units[f][n + 1] = us[1]
  BY <1>2, <1>4
<1>6. us[1] # <<>> => t \in 1 .. Len(f) /\ us[1][1] = f[t]
  BY <1>1, Zenon DEF BeginsAt
<1>7. n < Len(Units[f])
  BY <1>2, <1>3
<1> QED BY <1>2, <1>3, <1>5, <1>6, <1>7, Zenon DEF us

(* Where a unit begins that does not begin with a zero, a byte more is     *)
(* needed.                                                                 *)
LEMMA RoomBehind ==
  ASSUME NEW f \in Seq(Bytes), NEW i \in 1 .. Len(f), f[i] # 0,
         Len(UnitsFrom(f)[i]) > 1
  PROVE  3 * (Len(UnitsFrom(f)[i]) - 1) <= Len(f) - i - 1
<1> DEFINE S == Later(f, i)
           c == First(S)
<1>1. i \in 1 .. Len(f) + 1 /\ Len(f) \in Nat /\ i \in Nat
  OBVIOUS
<1>2. S # {}
  <2> SUFFICES ASSUME S = {} PROVE FALSE
    OBVIOUS
  <2>1. \A d \in CodesAt(f) : d < i
    <3> SUFFICES ASSUME NEW d \in CodesAt(f) PROVE d < i
      OBVIOUS
    <3>1. d \in Nat /\ ~(d >= i)
      BY CodeWithin DEF Later
    <3> QED BY <1>1, <3>1
  <2>2. UnitsFrom(f)[i] = <<SubSeq(f, i, Len(f))>>
    BY <1>1, <2>1, LastUnit
  <2>3. Len(<<SubSeq(f, i, Len(f))>>) = 1
    OBVIOUS
  <2> QED BY <2>2, <2>3
<1>3. S \subseteq Nat
  BY CodeWithin DEF Later
<1>4. c \in S /\ \A d \in S : c <= d
  BY <1>2, <1>3, FirstIsLeast
<1> HIDE DEF c
<1>5. c \in CodesAt(f) /\ c >= i /\ \A d \in CodesAt(f) : d >= i => d >= c
  <2>1. c \in CodesAt(f) /\ c >= i
    BY <1>4 DEF Later
  <2>2. ASSUME NEW d \in CodesAt(f), d >= i PROVE d >= c
    <3>1. d \in S
      BY <2>2 DEF Later
    <3>2. d \in Nat /\ c \in Nat
      BY <1>3, <1>4, <3>1
    <3> QED BY <1>4, <3>1, <3>2
  <2> QED BY <2>1, <2>2
<1> HIDE DEF S
<1>6. c \in Nat /\ c + 3 <= Len(f) /\ CodeSize(f, c) \in {3, 4} /\ f[c] = 0
  BY <1>5, CodeWithin, CodeAtByte
<1>7. c >= i + 1
  <2>1. c # i
    BY <1>6
  <2> QED BY <1>1, <1>5, <1>6, <2>1
<1> DEFINE b == c + CodeSize(f, c)
           rest == UnitsFrom(f)[b]
           one == SubSeq(f, i, c - 1)
<1>8. b \in 1 .. Len(f) + 1 /\ UnitsFrom(f)[i] = <<one>> \o rest
  BY <1>1, <1>5, <1>6, UnitBeforeCode
<1>9. b >= c + 3 /\ b \in Nat
  BY <1>6
<1> HIDE DEF b
<1>10. IsUnits(rest) /\ HasRoom(f, b, rest)
  BY <1>8, UnitsProperties
<1>11. one \in Seq(Bytes)
  <2>1. c - 1 \in Nat /\ c - 1 <= Len(f)
    BY <1>1, <1>6, <1>7
  <2> QED BY <1>1, <2>1, SliceOfFile
<1> HIDE DEF one, rest
<1>12. Len(<<one>> \o rest) = 1 + Len(rest) /\ Len(rest) \in Nat /\ Len(rest) >= 1
  <2>1. <<one>> \in Seq(Seq(Bytes)) /\ Len(<<one>>) = 1
    BY <1>11
  <2>2. rest \in Seq(Seq(Bytes)) /\ Len(rest) >= 1
    BY <1>10 DEF IsUnits
  <2>3. Len(<<one>> \o rest) = Len(<<one>>) + Len(rest)
    BY <2>1, <2>2, ConcatProperties
  <2> QED BY <2>1, <2>2, <2>3
<1>13. Len(rest) > 1 => 3 * (Len(rest) - 1) <= Len(f) - b
  BY <1>10, Zenon DEF HasRoom
<1> DEFINE m == Len(rest)
<1>14. Len(UnitsFrom(f)[i]) = 1 + m
  BY <1>8, <1>12
<1>15. m \in Nat /\ m >= 1 /\ (m > 1 => 3 * (m - 1) <= Len(f) - b)
  BY <1>12, <1>13
<1> HIDE DEF m
<1>16. 3 * m <= Len(f) - i - 1
  BY <1>1, <1>6, <1>7, <1>9, <1>15
<1> QED BY <1>14, <1>15, <1>16

(* The bytes run out behind a unit.                                        *)
LEMMA NothingBehind ==
  ASSUME NEW f \in Seq(Bytes), NEW n \in Nat, NEW t \in 1 .. Len(f) + 1,
         Remaining(f, n + 1, t), t > Len(f)
  PROVE  n <= Len(Units[f]) /\ Len(Units[f]) <= n + LostAtEnd
<1> DEFINE us == UnitsFrom(f)[t]
<1>1. /\ Len(Units[f]) = n + 1 + Len(us) /\ Len(us) \in Nat /\ Len(us) >= 1
  <2>1. n + 1 \in Nat
    OBVIOUS
  <2> QED BY <2>1, UnitBegins
<1>2. HasRoom(f, t, us)
  BY UnitsProperties
<1> HIDE DEF us
<1>3. Len(us) > 1 => 3 * (Len(us) - 1) <= Len(f) - t
  BY <1>2, Zenon DEF HasRoom
<1> DEFINE m == Len(us)
<1>4. m \in Nat /\ m >= 1 /\ (m > 1 => 3 * (m - 1) <= Len(f) - t) /\ t \in Nat /\ Len(f) \in Nat
  BY <1>1, <1>3
<1> HIDE DEF m
<1>5. m = 1
  BY <1>4
<1>6. LostAtEnd >= 2 /\ LostAtEnd \in Nat
  BY FramerAssumption DEF LostAtEnd
<1>7. Len(Units[f]) = n + 1 + m
  BY <1>1 DEF m
<1> QED BY <1>5, <1>6, <1>7

(* Or in what should have been the next slice's header.                    *)
LEMMA FewBehind ==
  ASSUME NEW f \in Seq(Bytes), NEW n \in Nat, NEW t \in 1 .. Len(f),
         Remaining(f, n + 1, t), f[t] # 0, t + HeaderSize > Len(f) + 1
  PROVE  n <= Len(Units[f]) /\ Len(Units[f]) <= n + LostAtEnd
<1> DEFINE us == UnitsFrom(f)[t]
<1>1. /\ Len(Units[f]) = n + 1 + Len(us) /\ Len(us) \in Nat /\ Len(us) >= 1
  <2>1. t \in 1 .. Len(f) + 1 /\ n + 1 \in Nat
    OBVIOUS
  <2> QED BY <2>1, UnitBegins
<1>2. Len(us) > 1 => 3 * (Len(us) - 1) <= Len(f) - t - 1
  BY RoomBehind
<1> HIDE DEF us
<1> DEFINE m == Len(us)
<1>3. m \in Nat /\ m >= 1 /\ (m > 1 => 3 * (m - 1) <= Len(f) - t - 1) /\ t \in Nat /\ Len(f) \in Nat
  BY <1>1, <1>2
<1>4. Len(Units[f]) = n + 1 + m
  BY <1>1 DEF m
<1> HIDE DEF m
<1>5. m > 1 => 3 * m <= HeaderSize /\ HeaderSize >= 6
  BY <1>3, FramerAssumption
<1>6. m <= IF HeaderSize < 6 THEN 1 ELSE HeaderSize \div 3
  BY <1>3, <1>5, FramerAssumption
<1>7. n + 1 + m <= n + LostAtEnd
  BY <1>3, <1>6, FramerAssumption DEF LostAtEnd
<1> QED BY <1>3, <1>4, <1>7

(* What the parser is, past the code.                                      *)
LEMMA PastCode ==
  ASSUME NEW p \in ParserFields, NEW k \in Nat, p.first = TRUE, p.eof = FALSE
  PROVE  ParserIs([p EXCEPT !.idx = @ + k, !.header = NotSeen], p.bank, p.idx + k,
                  p.savedIdx, p.out, p.savedOut, TRUE, NotSeen, FALSE)
<1> DEFINE i == p.idx + k
<1>1. i \in Nat /\ NotSeen \in Cells
  BY ParserTypes DEF Cells
<1>2. [p EXCEPT !.idx = @ + k, !.header = NotSeen]
        = [p EXCEPT !.idx = i, !.first = TRUE, !.header = NotSeen]
  BY DEF ParserFields
<1> HIDE DEF i
<1>3. ParserIs([p EXCEPT !.idx = i, !.first = TRUE, !.header = NotSeen],
               p.bank, i, p.savedIdx, p.out, p.savedOut, TRUE, NotSeen, p.eof)
  BY <1>1, Advanced
<1> QED BY <1>2, <1>3, Zenon DEF i

(* A parameter set is kept, another unit is not.                           *)
LEMMA SetsKept ==
  ASSUME NEW u, NEW n \in Nat, NEW s \in [{7, 8} -> Seq(Cells)], NEW b \in Bytes,
         SetsAreLatest(u, s, n),
         IF u[n + 1] = <<>> THEN b = 0 ELSE b = u[n + 1][1],
         NEW z, z = IF TypeOf(b) \in DOMAIN s THEN [s EXCEPT ![TypeOf(b)] = u[n + 1]] ELSE s
  PROVE  SetsAreLatest(u, z, n + 1)
<1>1. DOMAIN s = {7, 8} /\ DOMAIN z = {7, 8}
  BY Zenon
<1> SUFFICES ASSUME NEW type \in {7, 8} PROVE z[type] = Latest(u, n + 1, type)
  BY <1>1, Zenon DEF SetsAreLatest
<1>2. s[type] = Latest(u, n, type)
  BY <1>1, Zenon DEF SetsAreLatest
<1>3. Latest(u, n + 1, type) =
        IF u[n + 1] # <<>> /\ TypeOf(u[n + 1][1]) = type THEN u[n + 1]
        ELSE Latest(u, n, type)
  BY LatestNext
<1>4. CASE u[n + 1] # <<>> /\ TypeOf(u[n + 1][1]) = type
  <2>1. TypeOf(b) = type /\ TypeOf(b) \in DOMAIN s
    BY <1>1, <1>4
  <2>2. z[type] = u[n + 1]
    BY <2>1, Zenon
  <2> QED BY <1>3, <1>4, <2>2
<1>5. CASE ~(u[n + 1] # <<>> /\ TypeOf(u[n + 1][1]) = type)
  <2>1. TypeOf(b) # type
    <3>1. TypeOf(0) = 0 /\ type # 0
      BY TypeOfByte
    <3> QED BY <1>5, <3>1
  <2>2. z[type] = s[type]
    BY <1>1, <2>1, Zenon
  <2> QED BY <1>2, <1>3, <1>5, <2>2
<1> QED BY <1>4, <1>5

(* A unit is delivered: it was the next one, and if a unit of another kind *)
(* follows a slice, the picture ends.                                      *)
LEMMA DeliverKeeps ==
  ASSUME Inv, FilesFit, InUnit, Has(parser, 4), StartCode(Next4(parser)),
         NEW k, k = IF Next4(parser) = LongStartCode THEN 4 ELSE 3,
         NEW p, p = [parser EXCEPT !.idx = @ + k, !.header = NotSeen],
         NEW this, this = HeaderSeen(parser).header,
         NEW ends \in BOOLEAN, Deliver(p, ends),
         IsVCL(TypeOf(this)) /\ parser.idx + k < Len(file)
             /\ TypeOf(file[parser.idx + k + 1]) > 5 => ends,
         sets' = IF TypeOf(this) \in DOMAIN sets
                 THEN [sets EXCEPT ![TypeOf(this)] = p.out] ELSE sets,
         finished' = finished + 1, UNCHANGED <<file, read, callers, closed, pauses>>
  PROVE  Inv'
<1> DEFINE x == parser.idx
           t == x + k + 1
           unit == Units[file][finished + 1]
<1>1. parser.first /\ ~parser.eof /\ Parsing
  BY DEF InUnit
<1>2. /\ file \in Seq(Bytes) /\ Len(file) \in Nat /\ parser.bank = file
      /\ parser \in ParserFields /\ x \in Nat /\ finished \in Nat
      /\ Len(parser.out) \in Nat /\ Len(parser.out) <= Limit
      /\ parser.first = TRUE /\ parser.eof = FALSE
  BY <1>1, WholeBank, ParserTypes DEF Inv, Typed
<1>3. /\ k \in {3, 4} /\ t \in 1 .. Len(file) + 1 /\ x + k <= Len(file)
      /\ Remaining(file, finished + 1, t)
      /\ control = "parse" => parser.out = unit
      /\ this \in Bytes
      /\ IF unit = <<>> THEN this = 0 ELSE this = unit[1]
  BY UnitEnds
<1>4. ParserIs(p, file, x + k, parser.savedIdx, parser.out, parser.savedOut, TRUE, NotSeen, FALSE)
  BY <1>2, <1>3, PastCode
<1>5. /\ p \in ParserFields /\ p.bank = file /\ p.idx = x + k /\ p.out = parser.out
      /\ p.first = TRUE /\ p.header = NotSeen /\ p.eof = FALSE
  BY <1>4, Zenon DEF ParserIs
<1>6. /\ frame' = [bytes |-> parser.out, asked |-> control = "parse",
                   marker |-> frame.marker \/ ends]
      /\ parser' = SetParseState(p) /\ control' = "deliver"
  BY <1>5, Zenon DEF Deliver
<1>7. /\ parser' \in ParserFields /\ parser'.bank = file /\ parser'.idx = x + k
      /\ parser'.savedIdx = x + k /\ parser'.out = parser.out
      /\ parser'.savedOut = Len(parser.out)
      /\ parser'.first = TRUE /\ parser'.header = NotSeen /\ parser'.eof = FALSE
  <2>1. ParserIs(SetParseState(p), p.bank, p.idx, p.idx, p.out, Len(p.out),
                 p.first, p.header, p.eof)
    BY <1>5, StateSet
  <2> QED BY <1>5, <1>6, <2>1, Zenon DEF ParserIs
<1>8. /\ file' = file /\ read' = read /\ callers' = callers /\ closed' = closed
      /\ pauses' = pauses /\ finished' = finished + 1
  OBVIOUS
<1>9. /\ frame'.bytes = parser.out /\ (frame'.asked <=> control = "parse")
      /\ (frame'.marker <=> (frame.marker \/ ends))
      /\ frame' \in [bytes : Seq(Cells), asked : BOOLEAN, marker : BOOLEAN]
  <2>1. parser.out \in Seq(Cells)
    BY <1>2, ParserTypes
  <2>2. (control = "parse") \in BOOLEAN /\ (frame.marker \/ ends) \in BOOLEAN
    OBVIOUS
  <2> DEFINE O == Seq(Cells)
             a == (control = "parse")
             m == (frame.marker \/ ends)
  <2>3. parser.out \in O /\ a \in BOOLEAN /\ m \in BOOLEAN
        /\ frame' = [bytes |-> parser.out, asked |-> a, marker |-> m]
    BY <1>6, <2>1, <2>2
  <2> HIDE DEF O, a, m
  <2>4. frame'.bytes = parser.out /\ frame'.asked = a /\ frame'.marker = m
        /\ frame' \in [bytes : O, asked : BOOLEAN, marker : BOOLEAN]
    BY <2>3
  <2> QED BY <2>4 DEF O, a, m
<1>10. ~closed /\ (control = "again" => pauses > 0) /\ control \in {"parse", "again"}
  BY <1>1 DEF Inv, Flow, Parsing
<1>11. Typed'
  <2>1. sets' \in [{7, 8} -> Seq(Cells)]
    <3>1. sets \in [{7, 8} -> Seq(Cells)] /\ p.out \in Seq(Cells)
      BY <1>5, ParserTypes DEF Inv, Typed
    <3> DEFINE O == Seq(Cells)
    <3>2. sets \in [{7, 8} -> O] /\ p.out \in O
      BY <3>1
    <3> HIDE DEF O
    <3>3. sets' \in [{7, 8} -> O]
      BY <3>2, Zenon
    <3> QED BY <3>3 DEF O
  <2> QED BY <1>2, <1>6, <1>7, <1>8, <1>9, <2>1 DEF Inv, Typed, Controls
<1>12. Bounded(parser)'
  <2>1. Len(file) <= BankSize
    BY <1>2 DEF Inv, Bounded
  <2> QED BY <1>2, <1>3, <1>7, <2>1 DEF Bounded
<1>13. ReadWhole'
  <2>1. read = Len(file) /\ read \in {0, Len(file)} /\ (read = 0 => file = <<>>)
    BY <1>1, WholeBank
  <2> QED BY <1>7, <1>8, <2>1, Zenon DEF ReadWhole
<1>14. Flow'
  BY <1>6, <1>7, <1>8, <1>9, <1>10 DEF Flow
<1>15. BeforeStart' /\ AtEnd'
  BY <1>7, Zenon DEF BeforeStart, AtEnd
<1>16. WithinUnit'
  <2>1. UnitAt(file, parser', finished + 1, "deliver", t)
    <3>1. t = parser'.idx + 1 /\ t <= parser'.idx + 1
      BY <1>2, <1>3, <1>7
    <3>2. \A c \in CodesAt(file) : c >= t => c > parser'.idx
      <4> SUFFICES ASSUME NEW c \in CodesAt(file), c >= t PROVE c > parser'.idx
        OBVIOUS
      <4>1. c \in Nat
        BY <1>2, CodeWithin
      <4> QED BY <1>2, <1>3, <1>7, <4>1
    <3> HIDE DEF t
    <3>3. "deliver" # "parse"
      OBVIOUS
    <3> QED BY <1>3, <1>7, <3>1, <3>2, <3>3, Zenon DEF UnitAt
  <2>2. \E s \in 1 .. Len(file') + 1 : UnitAt(file', parser', finished', control', s)
    BY <1>3, <1>6, <1>8, <2>1, Zenon
  <2> QED BY <1>7, <2>2, Zenon DEF WithinUnit
<1>17. SetsAreUnits'
  <2> SUFFICES ASSUME pauses = 0 PROVE SetsAreLatest(Units[file], sets', finished + 1)
    BY <1>8, SetsAreUnitsNext, Zenon
  <2>1. SetsAreLatest(Units[file], sets, finished)
    BY SetsAreUnitsIs, Zenon DEF Inv
  <2>2. p.out = unit
    BY <1>3, <1>5, <1>10
  <2>3. sets \in [{7, 8} -> Seq(Cells)]
    BY DEF Inv, Typed
  <2>4. sets' = IF TypeOf(this) \in DOMAIN sets
                THEN [sets EXCEPT ![TypeOf(this)] = unit] ELSE sets
    BY <2>2, Zenon
  <2> QED BY <1>2, <1>3, <2>1, <2>3, <2>4, SetsKept
<1>18. PicturesEnd'
  <2> DEFINE next == Units[file][finished + 1 + 1]
  <2> SUFFICES ASSUME unit # <<>>, next # <<>>, IsVCL(TypeOf(unit[1])), TypeOf(next[1]) > 5
               PROVE  frame'.marker
    BY <1>8, Zenon DEF PicturesEnd
  <2>1. this = unit[1]
    BY <1>3
  <2>2. t \in 1 .. Len(file) /\ next[1] = file[t]
    <3>1. finished + 1 \in Nat
      BY <1>2
    <3> QED BY <1>2, <1>3, <3>1, UnitBegins
  <2>3. x + k < Len(file)
    BY <1>2, <1>3, <2>2
  <2>4. ends
    BY <2>1, <2>2, <2>3, Zenon
  <2> QED BY <1>9, <2>4
<1> QED BY <1>11, <1>12, <1>13, <1>14, <1>15, <1>16, <1>17, <1>18, Zenon DEF Inv

(* What is lacking behind a slice is read, or only the last units are left. *)
LEMMA LackKeeps ==
  ASSUME Inv, FilesFit, InUnit, Has(parser, 4), StartCode(Next4(parser)),
         NEW k, k = IF Next4(parser) = LongStartCode THEN 4 ELSE 3,
         NEW p, p = [parser EXCEPT !.idx = @ + k, !.header = NotSeen],
         NEW this, this = HeaderSeen(parser).header, IsVCL(TypeOf(this)),
         sets' = IF TypeOf(this) \in DOMAIN sets
                 THEN [sets EXCEPT ![TypeOf(this)] = p.out] ELSE sets,
         NEW n \in {1, HeaderSize}, NEW how \in {"parse", "slice"}, ~Has(p, n),
         n = 1 \/ (Has(p, 1) /\ file[parser.idx + k + 1] # 0),
         EnsureValidBytes(p, n, how), UNCHANGED <<file, frame, finished, pauses>>
  PROVE  Inv'
<1> DEFINE x == parser.idx
           t == x + k + 1
<1>1. parser.first /\ ~parser.eof /\ Parsing
  BY DEF InUnit
<1>2. /\ file \in Seq(Bytes) /\ Len(file) \in Nat /\ parser.bank = file
      /\ parser \in ParserFields /\ x \in Nat /\ finished \in Nat
      /\ Len(parser.out) \in Nat /\ Len(parser.out) <= Limit
      /\ parser.first = TRUE /\ parser.eof = FALSE
  BY <1>1, WholeBank, ParserTypes DEF Inv, Typed
<1>3. /\ k \in {3, 4} /\ t \in 1 .. Len(file) + 1 /\ x + k <= Len(file)
      /\ Remaining(file, finished + 1, t)
  BY UnitEnds
<1>4. ParserIs(p, file, x + k, parser.savedIdx, parser.out, parser.savedOut, TRUE, NotSeen, FALSE)
  BY <1>2, <1>3, PastCode
<1>5. /\ p \in ParserFields /\ p.bank = file /\ p.idx = x + k /\ p.out = parser.out
      /\ p.savedIdx = parser.savedIdx /\ p.savedOut = parser.savedOut
      /\ p.first = TRUE /\ p.header = NotSeen /\ p.eof = FALSE
  BY <1>4, Zenon DEF ParserIs
<1>6. sets' = sets
  <2>1. TypeOf(this) \notin {7, 8}
    BY DEF IsVCL
  <2>2. DOMAIN sets = {7, 8}
    BY DEF Inv, Typed
  <2> QED BY <2>1, <2>2
<1>7. Bounded(p)
  <2>1. /\ parser.savedIdx <= x /\ Len(file) <= BankSize
        /\ parser.savedOut <= Len(parser.out)
    BY <1>2, Zenon DEF Inv, Bounded
  <2>2. parser.savedIdx \in Nat
    BY <1>2, ParserTypes
  <2>3. parser.savedIdx <= x + k
    BY <1>2, <1>3, <2>1, <2>2
  <2> QED BY <1>2, <1>3, <1>5, <2>1, <2>3, Zenon DEF Bounded
<1>8. NearEnd
  <2>1. x + k + n > Len(file) /\ n \in Nat /\ HeaderSize \in Nat
    <3>1. n \in Nat /\ HeaderSize \in Nat
      BY FramerAssumption
    <3>2. ~(x + k + n <= Len(file))
      BY <1>5, Zenon DEF Has, Valid
    <3>3. x + k \in Nat
      BY <1>2, <1>3
    <3> HIDE DEF x
    <3> QED BY <1>2, <3>1, <3>2, <3>3
  <2>2. CASE n = 1
    <3>1. t > Len(file)
      BY <1>2, <2>1, <2>2
    <3> QED BY <1>2, <1>3, <3>1, NothingBehind DEF NearEnd
  <2>3. CASE n # 1
    <3>1. x + k + 1 <= Len(file) /\ file[t] # 0
      BY <1>2, <1>5, <2>3 DEF Has, Valid
    <3>2. t + HeaderSize > Len(file) + 1 /\ t \in 1 .. Len(file)
      BY <1>2, <1>3, <2>1, <2>3, <3>1
    <3> QED BY <1>2, <1>3, <3>1, <3>2, FewBehind DEF NearEnd
  <2> QED BY <2>2, <2>3
<1>9. /\ p.bank = parser.bank /\ p.first = parser.first /\ p.eof = parser.eof
      /\ (~p.first => p = parser) /\ n \in {1, 4, HeaderSize}
  BY <1>2, <1>5
<1>10. UNCHANGED <<file, frame, sets, finished, pauses>>
  BY <1>6
<1> QED BY <1>1, <1>5, <1>7, <1>8, <1>9, <1>10, ReadKeeps

LEMMA FinishUnitKeeps ==
  ASSUME Inv, FilesFit, FinishUnit
  PROVE  Inv'
<1> DEFINE k == IF Next4(parser) = LongStartCode THEN 4 ELSE 3
           this == HeaderSeen(parser).header
           p == [parser EXCEPT !.idx = @ + k, !.header = NotSeen]
           next == p.bank[p.idx + 1]
<1>1. /\ InUnit /\ Has(parser, 4) /\ StartCode(Next4(parser))
      /\ sets' = IF TypeOf(this) \in DOMAIN sets
                 THEN [sets EXCEPT ![TypeOf(this)] = p.out] ELSE sets
      /\ \/ /\ ~IsVCL(TypeOf(this))
            /\ Deliver(p, FALSE)
            /\ finished' = finished + 1
            /\ UNCHANGED <<read, callers, closed>>
         \/ /\ IsVCL(TypeOf(this)) /\ ~Has(p, 1)
            /\ EnsureValidBytes(p, 1, "parse")
            /\ UNCHANGED <<frame, finished>>
         \/ /\ IsVCL(TypeOf(this)) /\ Has(p, 1)
            /\ ComparesSlices(this, next) => Has(p, HeaderSize)
            /\ \E differ \in BOOLEAN : Deliver(p, EndsAccessUnit(this, next, differ))
            /\ finished' = finished + 1
            /\ UNCHANGED <<read, callers, closed>>
         \/ /\ IsVCL(TypeOf(this)) /\ Has(p, 1)
            /\ ComparesSlices(this, next) /\ ~Has(p, HeaderSize)
            /\ EnsureValidBytes(p, HeaderSize, "slice")
            /\ UNCHANGED <<frame, finished>>
      /\ UNCHANGED <<file, pauses>>
  BY Zenon DEF FinishUnit
<1>2. /\ file \in Seq(Bytes) /\ Len(file) \in Nat /\ parser.idx \in Nat /\ k \in Nat
      /\ p.bank = file /\ p.idx = parser.idx + k
      /\ k = IF Next4(parser) = LongStartCode THEN 4 ELSE 3
  <2>1. /\ file \in Seq(Bytes) /\ Len(file) \in Nat /\ parser.idx \in Nat
        /\ parser.bank = file /\ parser \in ParserFields /\ parser.first = TRUE
        /\ parser.eof = FALSE
    BY <1>1, WholeBank, ParserTypes DEF InUnit
  <2>2. k \in Nat /\ k = IF Next4(parser) = LongStartCode THEN 4 ELSE 3
    OBVIOUS
  <2> HIDE DEF k
  <2>3. ParserIs(p, parser.bank, parser.idx + k, parser.savedIdx, parser.out, parser.savedOut,
                 TRUE, NotSeen, FALSE)
    BY <2>1, <2>2, PastCode
  <2> QED BY <2>1, <2>2, <2>3, Zenon DEF ParserIs
<1>3. next = file[parser.idx + k + 1]
  BY <1>2, Zenon
<1> HIDE DEF k
<1>4. CASE /\ ~IsVCL(TypeOf(this))
           /\ Deliver(p, FALSE)
           /\ finished' = finished + 1
           /\ UNCHANGED <<read, callers, closed>>
  <2>1. UNCHANGED <<file, read, callers, closed, pauses>>
    BY <1>1, <1>4
  <2> HIDE DEF this, p, next
  <2> QED BY <1>1, <1>2, <1>4, <2>1, DeliverKeeps, Zenon DEF this, p
<1>5. CASE /\ IsVCL(TypeOf(this)) /\ ~Has(p, 1)
           /\ EnsureValidBytes(p, 1, "parse")
           /\ UNCHANGED <<frame, finished>>
  <2>1. UNCHANGED <<file, frame, finished, pauses>>
    BY <1>1, <1>5
  <2> QED BY <1>1, <1>2, <1>5, <2>1, LackKeeps, Zenon
<1>6. CASE /\ IsVCL(TypeOf(this)) /\ Has(p, 1)
           /\ ComparesSlices(this, next) => Has(p, HeaderSize)
           /\ \E differ \in BOOLEAN : Deliver(p, EndsAccessUnit(this, next, differ))
           /\ finished' = finished + 1
           /\ UNCHANGED <<read, callers, closed>>
  <2>1. PICK differ \in BOOLEAN : Deliver(p, EndsAccessUnit(this, next, differ))
    BY <1>6
  <2>2. UNCHANGED <<file, read, callers, closed, pauses>>
    BY <1>1, <1>6
  <2> DEFINE ends == EndsAccessUnit(this, next, differ)
  <2>3. ends \in BOOLEAN
    BY DEF EndsAccessUnit
  <2>4. parser.idx + k < Len(file) /\ TypeOf(file[parser.idx + k + 1]) > 5 => ends
    <3> SUFFICES ASSUME parser.idx + k < Len(file), TypeOf(next) > 5 PROVE ends
      BY <1>3
    <3>1. next \in Bytes
      <4>1. parser.idx + k + 1 \in 1 .. Len(file)
        BY <1>2
      <4> QED BY <1>2, <1>3, <4>1, ElementOfSeq
    <3>2. TypeOf(next) \in Nat
      BY <3>1, TypeOfByte
    <3> HIDE DEF next, this
    <3>3. TypeOf(next) >= 6
      BY <3>2
    <3> QED BY <3>3, Zenon DEF EndsAccessUnit
  <2>5. Deliver(p, ends)
    BY <2>1
  <2> HIDE DEF ends
  <2> QED BY <1>1, <1>2, <1>6, <2>2, <2>3, <2>4, <2>5, DeliverKeeps, Zenon
<1>7. CASE /\ IsVCL(TypeOf(this)) /\ Has(p, 1)
           /\ ComparesSlices(this, next) /\ ~Has(p, HeaderSize)
           /\ EnsureValidBytes(p, HeaderSize, "slice")
           /\ UNCHANGED <<frame, finished>>
  <2>1. UNCHANGED <<file, frame, finished, pauses>>
    BY <1>1, <1>7
  <2>2. file[parser.idx + k + 1] # 0
    <3>1. TypeOf(next) \in {1, 2, 5}
      BY <1>7, Zenon DEF ComparesSlices, HasSliceHeader
    <3>2. TypeOf(0) = 0
      BY DEF TypeOf
    <3> HIDE DEF next
    <3>3. next # 0
      BY <3>1, <3>2
    <3> QED BY <1>3, <3>3
  <2> QED BY <1>1, <1>2, <1>7, <2>1, <2>2, LackKeeps, Zenon
<1> QED BY <1>1, <1>4, <1>5, <1>6, <1>7, Zenon

(* After the end what is left is saved, and the source closed.             *)
LEMMA RemainingSaved ==
  ASSUME NEW q \in ParserFields, Bounded(q), NEW p, NEW bytes,
         bytes = SubSeq(q.bank, q.idx + 2, Valid(q)) \o <<Stale>>,
         p = IF Valid(q) - q.idx = 0 THEN q
             ELSE [q EXCEPT
                     !.out = SubSeq(@ \o bytes, 1, IF Len(@) + (Valid(q) - q.idx) > Limit
                                                   THEN Limit ELSE Len(@) + (Valid(q) - q.idx)),
                     !.header = IF @ = NotSeen THEN bytes[1] ELSE @,
                     !.idx = Valid(q)]
  PROVE  /\ p \in ParserFields /\ Bounded(p) /\ p.bank = q.bank /\ p.first = q.first
         /\ p.eof = q.eof
<1>1. CASE Valid(q) - q.idx = 0
  BY <1>1
<1>2. CASE Valid(q) - q.idx # 0
  <2> DEFINE v == Valid(q)
             left == v - q.idx
             m == IF Len(q.out) + left > Limit THEN Limit ELSE Len(q.out) + left
             i == q.idx + 2
             one == 1
             o == SubSeq(q.out \o bytes, one, m)
             h == IF q.header = NotSeen THEN bytes[1] ELSE q.header
             mid == SubSeq(q.bank, i, v)
  <2>1. /\ q.bank \in Seq(Bytes) /\ q.idx \in Nat /\ q.savedIdx \in Nat /\ q.out \in Seq(Cells)
        /\ q.savedOut \in Nat /\ q.first \in BOOLEAN /\ q.header \in Cells /\ q.eof \in BOOLEAN
        /\ v \in Nat /\ Len(q.out) \in Nat
    BY ParserTypes DEF Valid
  <2>2. /\ q.savedIdx <= q.idx /\ q.idx <= v /\ v <= BankSize
        /\ q.savedOut <= Len(q.out) /\ Len(q.out) <= Limit /\ Limit \in Nat
    BY FramerAssumption DEF Bounded, Valid
  <2>3. left \in Nat /\ left >= 1 /\ m \in Nat /\ m <= Len(q.out) + left /\ Len(q.out) <= m
        /\ m <= Limit /\ i \in Int /\ i >= 1
    <3>1. left \in Nat /\ left >= 1 /\ i \in Int /\ i >= 1
      BY <1>2, <2>1, <2>2
    <3> HIDE DEF left, i
    <3>2. m \in Nat /\ m <= Len(q.out) + left /\ Len(q.out) <= m /\ m <= Limit
      BY <2>1, <2>2, <3>1
    <3> QED BY <3>1, <3>2
  <2>4. mid \in Seq(Bytes) /\ Len(mid) = left - 1
    <3>1. \A j \in i .. v : q.bank[j] \in Bytes
      <4> SUFFICES ASSUME NEW j \in i .. v PROVE q.bank[j] \in Bytes
        OBVIOUS
      <4>1. j \in 1 .. Len(q.bank)
        BY <2>1, <2>3 DEF Valid
      <4> QED BY <2>1, <4>1, ElementOfSeq
    <3>2. (IF i <= v THEN v - i + 1 ELSE 0) = left - 1 /\ v \in Int
      BY <2>1, <2>2, <2>3
    <3>3. i \in Int
      BY <2>3
    <3> HIDE DEF i, v, left
    <3>4. SubSeq(q.bank, i, v) \in Seq(Bytes)
          /\ Len(SubSeq(q.bank, i, v)) = IF i <= v THEN v - i + 1 ELSE 0
      BY <3>1, <3>2, <3>3, SubSeqProperties
    <3> QED BY <3>2, <3>4
  <2> HIDE DEF mid
  <2>5. bytes \in Seq(Cells) /\ Len(bytes) = left
    <3>1. mid \in Seq(Cells)
      <4>1. Bytes \subseteq Cells
        BY DEF Cells
      <4> QED BY <2>4, <4>1, SeqMonotonic
    <3>2. <<Stale>> \in Seq(Cells) /\ Len(<<Stale>>) = 1
      BY DEF Cells
    <3>3. bytes = mid \o <<Stale>>
      BY Zenon DEF mid
    <3>4. mid \o <<Stale>> \in Seq(Cells) /\ Len(mid \o <<Stale>>) = Len(mid) + Len(<<Stale>>)
      BY <3>1, <3>2, ConcatProperties
    <3> HIDE DEF left
    <3>5. Len(bytes) = (left - 1) + 1
      BY <2>4, <3>2, <3>3, <3>4, Zenon
    <3>6. left \in Nat
      BY <2>3
    <3>7. (left - 1) + 1 = left
      BY <3>6
    <3> QED BY <3>3, <3>4, <3>5, <3>7, Zenon
  <2>6. q.out \o bytes \in Seq(Cells) /\ Len(q.out \o bytes) = Len(q.out) + left
    <3>1. q.out \o bytes \in Seq(Cells) /\ Len(q.out \o bytes) = Len(q.out) + Len(bytes)
      BY <2>1, <2>5, ConcatProperties
    <3> QED BY <2>5, <3>1
  <2> HIDE DEF left, v
  <2> DEFINE all == q.out \o bytes
  <2>7. all \in Seq(Cells) /\ m <= Len(all) /\ m \in Nat
    BY <2>3, <2>6
  <2> HIDE DEF all, m
  <2>8. o \in Seq(Cells) /\ Len(o) = m
    <3>1. \A j \in one .. m : all[j] \in Cells
      <4> SUFFICES ASSUME NEW j \in one .. m PROVE all[j] \in Cells
        OBVIOUS
      <4>1. j \in 1 .. Len(all)
        BY <2>7
      <4> QED BY <2>7, <4>1, ElementOfSeq
    <3>2. (IF one <= m THEN m - one + 1 ELSE 0) = m /\ one \in Int /\ m \in Int
      BY <2>7
    <3> HIDE DEF one
    <3>3. SubSeq(all, one, m) \in Seq(Cells)
          /\ Len(SubSeq(all, one, m)) = IF one <= m THEN m - one + 1 ELSE 0
      BY <3>1, <3>2, SubSeqProperties
    <3> QED BY <3>2, <3>3 DEF all
  <2>9. h \in Cells
    <3>1. 1 \in 1 .. Len(bytes)
      BY <2>3, <2>5
    <3>2. bytes[1] \in Cells
      BY <2>5, <3>1, ElementOfSeq
    <3> QED BY <2>1, <3>2
  <2>10. p = [q EXCEPT !.out = o, !.header = h, !.idx = v]
    BY <1>2, Zenon DEF m, left, v
  <2> HIDE DEF o, h
  <2>11. p = Update(q, v, q.savedIdx, o, q.savedOut, q.first, h)
    BY <2>10 DEF ParserFields, Update
  <2>12. ParserIs(p, q.bank, v, q.savedIdx, o, q.savedOut, q.first, h, q.eof)
    <3>1. /\ v \in Nat /\ q.savedIdx \in Nat /\ o \in Seq(Cells) /\ q.savedOut \in Nat
          /\ q.first \in BOOLEAN /\ h \in Cells
      BY <2>1, <2>8, <2>9
    <3>2. ParserIs(Update(q, v, q.savedIdx, o, q.savedOut, q.first, h),
                   q.bank, v, q.savedIdx, o, q.savedOut, q.first, h, q.eof)
      BY <3>1, Updated
    <3> QED BY <2>11, <3>2, Zenon
  <2>13. /\ p \in ParserFields /\ p.bank = q.bank /\ p.idx = v /\ p.savedIdx = q.savedIdx
         /\ p.out = o /\ p.savedOut = q.savedOut /\ p.first = q.first /\ p.eof = q.eof
    BY <2>12, Zenon DEF ParserIs
  <2>14. /\ q.savedIdx <= v /\ v <= Len(q.bank) /\ Len(q.bank) <= BankSize
         /\ q.savedOut <= Len(o) /\ Len(o) <= Limit
    <3>1. v = Len(q.bank)
      BY DEF v, Valid
    <3>2. q.savedIdx <= v /\ v <= Len(q.bank) /\ Len(q.bank) <= BankSize
      BY <2>1, <2>2, <3>1, FramerAssumption
    <3> QED BY <2>1, <2>2, <2>3, <2>8, <3>2
  <2>15. Bounded(p)
    BY <2>13, <2>14, Zenon DEF Bounded
  <2> QED BY <2>13, <2>15
<1> QED BY <1>1, <1>2

LEMMA SaveRemainingKeeps ==
  ASSUME Inv, FilesFit, SaveRemaining
  PROVE  Inv'
<1> DEFINE left == Valid(parser) - parser.idx
           bytes == SubSeq(parser.bank, parser.idx + 2, Valid(parser)) \o <<Stale>>
           p == IF left = 0 THEN parser
                ELSE [parser EXCEPT
                        !.out = SubSeq(@ \o bytes, 1, IF Len(@) + left > Limit
                                                      THEN Limit ELSE Len(@) + left),
                        !.header = IF @ = NotSeen THEN bytes[1] ELSE @,
                        !.idx = Valid(parser)]
<1>1. /\ Parsing /\ parser.first /\ parser.eof
      /\ EnsureValidBytes(p, 1, "parse")
      /\ UNCHANGED <<file, frame, sets, finished, pauses>>
  BY Zenon DEF SaveRemaining
<1>2. parser \in ParserFields /\ Bounded(parser)
  BY DEF Inv, Typed
<1>3. /\ p \in ParserFields /\ Bounded(p) /\ p.bank = parser.bank /\ p.first = parser.first
      /\ p.eof = parser.eof
  <2>1. /\ bytes = SubSeq(parser.bank, parser.idx + 2, Valid(parser)) \o <<Stale>>
        /\ p = IF Valid(parser) - parser.idx = 0 THEN parser
               ELSE [parser EXCEPT
                       !.out = SubSeq(@ \o bytes, 1,
                                      IF Len(@) + (Valid(parser) - parser.idx) > Limit
                                      THEN Limit ELSE Len(@) + (Valid(parser) - parser.idx)),
                       !.header = IF @ = NotSeen THEN bytes[1] ELSE @,
                       !.idx = Valid(parser)]
    OBVIOUS
  <2> HIDE DEF p, bytes
  <2> QED BY <1>2, <2>1, RemainingSaved
<1> HIDE DEF p
<1>4. ~(~p.first) /\ ~(~p.eof)
  BY <1>1, <1>3
<1> QED BY <1>1, <1>3, <1>4, ReadKeeps

-----------------------------------------------------------------------------
(* The steps of the reader and of the callers.                             *)

(* A step that leaves the parser where it is, between units.               *)
LEMMA BetweenUnits ==
  ASSUME Inv, ~Parsing, NEW p, parser.first, ~parser.eof, p.idx = parser.idx,
         p.header = parser.header, NEW does, does = "parse" => p.out = <<>>
  PROVE  /\ p.header = NotSeen
         /\ \E s \in 1 .. Len(file) + 1 : UnitAt(file, p, finished, does, s)
<1>1. parser.header = NotSeen
  BY Zenon DEF Inv, WithinUnit
<1>2. PICK s \in 1 .. Len(file) + 1 : UnitAt(file, parser, finished, control, s)
  BY InAUnit
<1>3. /\ s <= parser.idx + 1 /\ Remaining(file, finished, s) /\ s = parser.idx + 1
      /\ \A c \in CodesAt(file) : c >= s => c > parser.idx
  BY <1>1, <1>2, UnitAtSays
<1>4. SubSeq(file, s, parser.idx) = <<>>
  <2>1. parser.idx \in Nat
    BY WholeBank
  <2>2. parser.idx < s /\ parser.idx \in Int /\ s \in Int
    BY <1>3, <2>1
  <2> QED BY <2>2, SubSeqEmpty
<1>5. UnitAt(file, p, finished, does, s)
  BY <1>1, <1>3, <1>4, Zenon DEF UnitAt
<1> QED BY <1>1, <1>5

(* Whoever waits knows of the end, if there is one.                        *)
LEMMA ClosedAtEnd ==
  ASSUME Inv, ~Parsing
  PROVE  parser.eof <=> closed
BY DEF Inv, Flow

LEMMA RequestKeeps ==
  ASSUME Inv, Request
  PROVE  Inv'
<1>1. /\ control \in {"idle", "deliver"} /\ ~closed /\ control' = "parse"
      /\ parser' = [parser EXCEPT !.out = <<>>, !.savedOut = 0]
      /\ frame' = [frame EXCEPT !.marker = FALSE]
      /\ file' = file /\ read' = read /\ callers' = callers /\ closed' = closed
      /\ sets' = sets /\ finished' = finished /\ pauses' = pauses
  BY DEF Request
<1>2. ~Parsing /\ parser \in ParserFields
  BY <1>1 DEF Parsing, Inv, Typed
<1>3. /\ parser' \in ParserFields /\ parser'.bank = parser.bank /\ parser'.idx = parser.idx
      /\ parser'.savedIdx = parser.savedIdx /\ parser'.out = <<>> /\ parser'.savedOut = 0
      /\ parser'.first = parser.first /\ parser'.header = parser.header
      /\ parser'.eof = parser.eof
  <2> DEFINE o == <<>>
             z == 0
  <2>1. /\ parser.idx \in Nat /\ parser.savedIdx \in Nat /\ parser.first \in BOOLEAN
        /\ parser.header \in Cells /\ o \in Seq(Cells) /\ z \in Nat
    BY <1>2, ParserTypes
  <2>2. parser' = [parser EXCEPT !.out = o, !.savedOut = z]
    BY <1>1
  <2> HIDE DEF o, z
  <2>3. parser' = Update(parser, parser.idx, parser.savedIdx, o, z, parser.first, parser.header)
    BY <1>2, <2>2 DEF ParserFields, Update
  <2>4. ParserIs(parser', parser.bank, parser.idx, parser.savedIdx, o, z,
                 parser.first, parser.header, parser.eof)
    BY <1>2, <2>1, <2>3, Updated, Zenon
  <2> QED BY <2>4, Zenon DEF ParserIs, o, z
<1>4. frame' \in [bytes : Seq(Cells), asked : BOOLEAN, marker : BOOLEAN]
  <2> DEFINE O == Seq(Cells)
  <2>1. frame \in [bytes : O, asked : BOOLEAN, marker : BOOLEAN]
    BY DEF Inv, Typed
  <2> HIDE DEF O
  <2>2. frame' \in [bytes : O, asked : BOOLEAN, marker : BOOLEAN]
    BY <1>1, <2>1
  <2> QED BY <2>2 DEF O
<1>5. Typed'
  BY <1>1, <1>3, <1>4 DEF Inv, Typed, Controls
<1>6. Bounded(parser)'
  <2>1. Len(<<>>) = 0
    OBVIOUS
  <2> QED BY <1>3, <2>1, FramerAssumption DEF Inv, Bounded
<1>7. ReadWhole'
  BY <1>1, <1>3, Zenon DEF Inv, ReadWhole
<1>8. Flow'
  <2>1. ~parser.eof
    BY <1>1, <1>2, ClosedAtEnd
  <2> QED BY <1>1, <1>3, <2>1 DEF Flow
<1>9. BeforeStart'
  BY <1>1, <1>3, Zenon DEF Inv, BeforeStart
<1>10. WithinUnit'
  <2>1. ASSUME parser.first, ~parser.eof
        PROVE  /\ parser'.header = NotSeen
               /\ \E s \in 1 .. Len(file') + 1 : UnitAt(file', parser', finished', control', s)
    BY <1>1, <1>2, <1>3, <2>1, BetweenUnits
  <2> QED BY <1>3, <2>1, Zenon DEF WithinUnit
<1>11. AtEnd'
  BY <1>1, <1>3, Zenon DEF Inv, AtEnd
<1>12. SetsAreUnits'
  BY <1>1, SetsUntouched, Zenon DEF Inv
<1>13. PicturesEnd'
  <2>1. control' # "deliver"
    BY <1>1
  <2> QED BY <2>1, Zenon DEF PicturesEnd
<1> QED BY <1>5, <1>6, <1>7, <1>8, <1>9, <1>10, <1>11, <1>12, <1>13, Zenon DEF Inv

LEMMA StopAskingKeeps ==
  ASSUME Inv, StopAsking
  PROVE  Inv'
<1>1. /\ control = "deliver" /\ control' = "return"
      /\ file' = file /\ read' = read /\ parser' = parser /\ callers' = callers
      /\ closed' = closed /\ frame' = frame /\ sets' = sets /\ finished' = finished
      /\ (frame.asked /\ pauses' = pauses + 1) \/ (~frame.asked /\ pauses' = pauses)
      /\ pauses \in Nat
  BY DEF StopAsking, Inv, Typed
<1>2. ~Parsing
  BY <1>1 DEF Parsing
<1>3. /\ pauses' \in Nat /\ (pauses' = 0 => pauses = 0)
      /\ (frame.asked => pauses' > 0) /\ (pauses > 0 => pauses' > 0)
  BY <1>1
<1>4. Typed'
  BY <1>1, <1>3 DEF Inv, Typed, Controls
<1>5. Bounded(parser)' /\ ReadWhole' /\ BeforeStart' /\ AtEnd'
  BY <1>1, Zenon DEF Inv, Bounded, ReadWhole, BeforeStart, AtEnd
<1>6. Flow'
  <2>1. parser.eof <=> closed
    BY <1>2, ClosedAtEnd
  <2>2. ~closed /\ ~frame.asked => pauses > 0
    BY <1>1 DEF Inv, Flow
  <2> QED BY <1>1, <1>3, <2>1, <2>2 DEF Flow
<1>7. WithinUnit'
  <2>1. ASSUME parser.first, ~parser.eof
        PROVE  /\ parser'.header = NotSeen
               /\ \E s \in 1 .. Len(file') + 1 : UnitAt(file', parser', finished', control', s)
    <3>1. parser'.idx = parser.idx /\ parser'.header = parser.header /\ control' # "parse"
      BY <1>1
    <3> QED BY <1>1, <1>2, <2>1, <3>1, BetweenUnits
  <2> QED BY <1>1, <2>1, Zenon DEF WithinUnit
<1>8. SetsAreUnits'
  BY <1>1, <1>3, SetsAreUnitsIs, SetsAreUnitsNext, Zenon DEF Inv
<1>9. PicturesEnd'
  <2>1. control' # "deliver"
    BY <1>1
  <2> QED BY <2>1, Zenon DEF PicturesEnd
<1> QED BY <1>4, <1>5, <1>6, <1>7, <1>8, <1>9, Zenon DEF Inv

LEMMA FrontTyped ==
  ASSUME NEW S, NEW s \in Seq(S), s # <<>>
  PROVE  Front(s) \in Seq(S)
<1>1. Len(s) \in Nat /\ Len(s) >= 1
  BY EmptySeq
<1> DEFINE m == 1
           n == Len(s) - 1
<1>2. \A i \in m .. n : s[i] \in S
  <2> SUFFICES ASSUME NEW i \in m .. n PROVE s[i] \in S
    OBVIOUS
  <2>1. i \in 1 .. Len(s)
    BY <1>1
  <2> QED BY <2>1, ElementOfSeq
<1>3. m \in Int /\ n \in Int
  BY <1>1
<1>4. Front(s) = SubSeq(s, m, n)
  BY DEF Front
<1> HIDE DEF m, n
<1> QED BY <1>2, <1>3, <1>4, SubSeqProperties

LEMMA ReturnKeeps ==
  ASSUME Inv, Return
  PROVE  Inv'
<1>1. /\ control = "return" /\ file' = file /\ read' = read /\ closed' = closed
      /\ sets' = sets /\ finished' = finished /\ pauses' = pauses
  BY DEF Return
<1>2. ~Parsing /\ (parser.eof <=> closed) /\ (~closed => pauses > 0)
  <2>1. ~Parsing
    BY <1>1 DEF Parsing
  <2>2. ~closed => pauses > 0
    BY <1>1 DEF Inv, Flow
  <2> QED BY <2>1, <2>2, ClosedAtEnd
<1>3. SetsAreUnits'
  BY <1>1, SetsUntouched, Zenon DEF Inv
<1>4. CASE /\ UNCHANGED <<parser, frame>>
           /\ callers' \in Seq({"parse", "quiet", "slice"})
           /\ control' \in {"idle", "again", "return"}
  <2>1. parser' = parser /\ frame' = frame
    BY <1>4
  <2>2. Typed'
    BY <1>1, <1>4 DEF Inv, Typed, Controls
  <2>3. Bounded(parser)' /\ ReadWhole' /\ BeforeStart' /\ AtEnd'
    BY <1>1, <2>1, Zenon DEF Inv, Bounded, ReadWhole, BeforeStart, AtEnd
  <2>4. Flow'
    BY <1>1, <1>2, <1>4, <2>1 DEF Flow
  <2>5. WithinUnit'
    <3>1. ASSUME parser.first, ~parser.eof
          PROVE  /\ parser'.header = NotSeen
                 /\ \E s \in 1 .. Len(file') + 1 : UnitAt(file', parser', finished', control', s)
      <4>1. parser'.idx = parser.idx /\ parser'.header = parser.header /\ control' # "parse"
        BY <1>4, <2>1
      <4> QED BY <1>1, <1>2, <3>1, <4>1, BetweenUnits
    <3> QED BY <2>1, <3>1, Zenon DEF WithinUnit
  <2>6. PicturesEnd'
    <3>1. control' # "deliver"
      BY <1>4
    <3> QED BY <3>1, Zenon DEF PicturesEnd
  <2> QED BY <1>3, <2>2, <2>3, <2>4, <2>5, <2>6, Zenon DEF Inv
<1>5. CASE /\ callers' \in Seq({"parse", "quiet", "slice"})
           /\ \E differ \in BOOLEAN : Deliver(parser, differ)
  <2>1. PICK differ \in BOOLEAN : Deliver(parser, differ)
    BY <1>5
  <2>2. /\ frame' = [bytes |-> parser.out, asked |-> control = "parse",
                     marker |-> frame.marker \/ differ]
        /\ parser' = SetParseState(parser) /\ control' = "deliver"
    BY <2>1 DEF Deliver
  <2>3. parser \in ParserFields /\ parser.out \in Seq(Cells) /\ Bounded(parser)
    BY ParserTypes DEF Inv, Typed
  <2>4. /\ parser' \in ParserFields /\ parser'.bank = parser.bank /\ parser'.idx = parser.idx
        /\ parser'.savedIdx = parser.idx /\ parser'.out = parser.out
        /\ parser'.savedOut = Len(parser.out) /\ parser'.first = parser.first
        /\ parser'.header = parser.header /\ parser'.eof = parser.eof
    BY <2>2, <2>3, StateSet, Zenon DEF ParserIs
  <2>5. /\ ~frame'.asked
        /\ frame' \in [bytes : Seq(Cells), asked : BOOLEAN, marker : BOOLEAN]
    <3> DEFINE O == Seq(Cells)
               m == (frame.marker \/ differ)
               a == (control = "parse")
    <3>1. /\ frame' = [bytes |-> parser.out, asked |-> a, marker |-> m]
          /\ parser.out \in O /\ m \in BOOLEAN /\ a = FALSE
      BY <1>1, <2>2, <2>3
    <3> HIDE DEF O, m, a
    <3>2. frame'.asked = FALSE /\ frame' \in [bytes : O, asked : BOOLEAN, marker : BOOLEAN]
      BY <3>1
    <3> QED BY <3>2 DEF O
  <2>6. Typed'
    BY <1>1, <1>5, <2>2, <2>4, <2>5 DEF Inv, Typed, Controls
  <2>7. Bounded(parser)'
    <3>1. /\ parser.idx \in Nat /\ parser.idx <= Len(parser.bank) /\ Len(parser.bank) <= BankSize
          /\ Len(parser.out) \in Nat /\ Len(parser.out) <= Limit
      BY <2>3, ParserTypes DEF Bounded
    <3>2. parser.idx <= parser.idx /\ Len(parser.out) <= Len(parser.out)
      BY <3>1
    <3> QED BY <2>4, <3>1, <3>2, Zenon DEF Bounded
  <2>8. ReadWhole' /\ AtEnd'
    BY <1>1, <2>4, Zenon DEF Inv, ReadWhole, AtEnd
  <2>9. BeforeStart'
    BY <1>1, <2>4, Zenon DEF Inv, BeforeStart
  <2>10. Flow'
    BY <1>1, <1>2, <2>2, <2>4, <2>5 DEF Flow
  <2>11. WithinUnit'
    <3>1. ASSUME parser.first, ~parser.eof
          PROVE  /\ parser'.header = NotSeen
                 /\ \E s \in 1 .. Len(file') + 1 : UnitAt(file', parser', finished', control', s)
      <4>1. control' # "parse"
        BY <2>2
      <4> QED BY <1>1, <1>2, <2>4, <3>1, <4>1, BetweenUnits
    <3> QED BY <2>4, <3>1, Zenon DEF WithinUnit
  <2>12. PicturesEnd'
    BY <2>5, Zenon DEF PicturesEnd
  <2> QED BY <1>3, <2>6, <2>7, <2>8, <2>9, <2>10, <2>11, <2>12, Zenon DEF Inv
<1>6. QED
  <2>1. callers \in Seq({"parse", "quiet", "slice"})
    BY DEF Inv, Typed
  <2>2. callers # <<>> => Front(callers) \in Seq({"parse", "quiet", "slice"})
    BY <2>1, FrontTyped
  <2>3. \/ /\ callers = <<>> /\ control' = "idle" /\ UNCHANGED <<parser, callers, frame>>
        \/ /\ callers # <<>> /\ Last(callers) = "slice"
           /\ \E differ \in BOOLEAN : Deliver(parser, differ)
           /\ callers' = Front(callers)
        \/ /\ callers # <<>> /\ Last(callers) # "slice"
           /\ control' = IF Last(callers) = "parse" THEN "again" ELSE "return"
           /\ callers' = Front(callers)
           /\ UNCHANGED <<parser, frame>>
    BY Zenon DEF Return
  <2>4. CASE /\ callers = <<>> /\ control' = "idle" /\ UNCHANGED <<parser, callers, frame>>
    BY <1>4, <2>1, <2>4
  <2>5. CASE /\ callers # <<>> /\ Last(callers) = "slice"
             /\ \E differ \in BOOLEAN : Deliver(parser, differ)
             /\ callers' = Front(callers)
    BY <1>5, <2>2, <2>5, Zenon
  <2>6. CASE /\ callers # <<>> /\ Last(callers) # "slice"
             /\ control' = IF Last(callers) = "parse" THEN "again" ELSE "return"
             /\ callers' = Front(callers)
             /\ UNCHANGED <<parser, frame>>
    <3>1. control' \in {"idle", "again", "return"}
      BY <2>6
    <3>2. callers' \in Seq({"parse", "quiet", "slice"}) /\ UNCHANGED <<parser, frame>>
      BY <2>2, <2>6, Zenon
    <3> QED BY <1>4, <3>1, <3>2
  <2> QED BY <2>3, <2>4, <2>5, <2>6, Zenon

LEMMA StutterKeeps ==
  ASSUME Inv, UNCHANGED vars
  PROVE  Inv'
<1>1. /\ file' = file /\ read' = read /\ parser' = parser /\ callers' = callers
      /\ control' = control /\ closed' = closed /\ frame' = frame /\ sets' = sets
      /\ finished' = finished /\ pauses' = pauses
  BY DEF vars
<1>2. Typed' /\ Bounded(parser)' /\ ReadWhole'
  BY <1>1, Zenon DEF Inv, Typed, Bounded, ReadWhole
<1>3. Flow'
  BY <1>1 DEF Inv, Flow, Parsing
<1>4. BeforeStart' /\ AtEnd'
  BY <1>1, Zenon DEF Inv, BeforeStart, AtEnd
<1>5. WithinUnit'
  <2>1. (Parsing)' <=> Parsing
    BY <1>1, Zenon DEF Parsing
  <2> QED BY <1>1, <2>1, Zenon DEF Inv, WithinUnit
<1>6. SetsAreUnits'
  BY <1>1, SetsUntouched, Zenon DEF Inv
<1>7. PicturesEnd'
  BY <1>1, PicturesUntouched, Zenon DEF Inv
<1> QED BY <1>2, <1>3, <1>4, <1>5, <1>6, <1>7, Zenon DEF Inv

LEMMA InitHolds ==
  ASSUME Init
  PROVE  Inv
<1> DEFINE e == <<>>
           z == 0
<1>1. /\ file \in Files /\ read = z /\ callers = e /\ control = "idle" /\ closed = FALSE
      /\ parser = [bank |-> e, idx |-> z, savedIdx |-> z, out |-> e,
                   savedOut |-> z, first |-> FALSE, header |-> NotSeen, eof |-> FALSE]
      /\ frame = [bytes |-> e, asked |-> FALSE, marker |-> FALSE]
      /\ sets = [type \in {7, 8} |-> e] /\ finished = z /\ pauses = z
  BY DEF Init
<1>2. /\ e \in Seq(Bytes) /\ e \in Seq(Cells) /\ e \in Seq({"parse", "quiet", "slice"})
      /\ z \in Nat /\ Len(e) = z /\ NotSeen \in Cells /\ file \in Seq(Bytes)
  BY <1>1, FramerAssumption DEF Cells, Bytes
<1> DEFINE B == Seq(Bytes)
           O == Seq(Cells)
<1>3. e \in B /\ e \in O
  BY <1>2
<1> HIDE DEF e, z, B, O
<1>4. /\ parser \in [bank : B, idx : Nat, savedIdx : Nat, out : O, savedOut : Nat,
                     first : BOOLEAN, header : Cells, eof : BOOLEAN]
      /\ parser.bank = e /\ parser.idx = z /\ parser.savedIdx = z /\ parser.out = e
      /\ parser.savedOut = z /\ parser.first = FALSE /\ parser.header = NotSeen
      /\ parser.eof = FALSE
  BY <1>1, <1>2, <1>3
<1>5. /\ frame \in [bytes : O, asked : BOOLEAN, marker : BOOLEAN]
      /\ sets \in [{7, 8} -> O]
  BY <1>1, <1>3
<1>6. z <= z /\ z <= BankSize /\ z <= Limit
  BY FramerAssumption DEF z
<1>7. Typed
  <2>1. parser \in ParserFields /\ sets \in [{7, 8} -> Seq(Cells)]
        /\ frame \in [bytes : Seq(Cells), asked : BOOLEAN, marker : BOOLEAN]
    BY <1>4, <1>5, Zenon DEF ParserFields, B, O
  <2> QED BY <1>1, <1>2, <2>1 DEF Typed, Controls
<1>8. Bounded(parser)
  BY <1>2, <1>4, <1>6, Zenon DEF Bounded
<1>9. ReadWhole
  BY <1>1, <1>4, Zenon DEF ReadWhole, e, z
<1>10. Flow
  BY <1>1, <1>4 DEF Flow
<1>11. BeforeStart
  <2>1. \A c \in CodesAt(file) : c > parser.idx
    <3> SUFFICES ASSUME NEW c \in CodesAt(file) PROVE c > parser.idx
      OBVIOUS
    <3>1. c \in Nat /\ c >= 1
      BY <1>2, CodeWithin
    <3> QED BY <1>4, <3>1 DEF z
  <2> QED BY <1>1, <1>4, <2>1, Zenon DEF BeforeStart, e, z
<1>12. WithinUnit /\ AtEnd
  BY <1>4, Zenon DEF WithinUnit, AtEnd
<1>13. SetsAreUnits
  <2>1. \A type : OfType(Units[file], finished, type) = {}
    <3> SUFFICES ASSUME NEW type, NEW n \in 1 .. finished PROVE FALSE
      BY Zenon DEF OfType
    <3> QED BY <1>1 DEF z
  <2>2. \A type \in DOMAIN sets : sets[type] = <<>>
    BY <1>1 DEF e
  <2>3. SetsAreLatest(Units[file], sets, finished)
    BY <2>1, <2>2, Zenon DEF SetsAreLatest, Latest, LatestOf
  <2> QED BY <2>3, SetsAreUnitsIs, Zenon
<1>14. PicturesEnd
  <2>1. control # "deliver"
    BY <1>1
  <2> QED BY <2>1, Zenon DEF PicturesEnd
<1> QED BY <1>7, <1>8, <1>9, <1>10, <1>11, <1>12, <1>13, <1>14, Zenon DEF Inv

-----------------------------------------------------------------------------
(* The theorems.                                                           *)

LEMMA NextKeeps ==
  ASSUME FilesFit, Inv, [Next]_vars
  PROVE  Inv'
<1>1. CASE UNCHANGED vars
  BY <1>1, StutterKeeps
<1>2. CASE FindStart
  BY <1>2, FindStartKeeps
<1>3. CASE SaveBytes
  BY <1>3, SaveBytesKeeps
<1>4. CASE FinishUnit
  BY <1>4, FinishUnitKeeps
<1>5. CASE SaveRemaining
  BY <1>5, SaveRemainingKeeps
<1>6. CASE Request
  BY <1>6, RequestKeeps
<1>7. CASE StopAsking
  BY <1>7, StopAskingKeeps
<1>8. CASE Return
  BY <1>8, ReturnKeeps
<1> QED BY <1>1, <1>2, <1>3, <1>4, <1>5, <1>6, <1>7, <1>8, Zenon DEF Next, Parse

(* If all files fit, Inv holds in every reachable state (parse,            *)
(* ensureValidBytes1, afterGetting).                                       *)
THEOREM FramerInvariant == ASSUME FilesFit PROVE Spec => []Inv
<1>1. Init => Inv
  BY InitHolds
<1>2. Inv /\ [Next]_vars => Inv'
  BY NextKeeps
<1> QED BY <1>1, <1>2, PTL DEF Spec

(* The units of a file are a sequence.                                     *)
LEMMA UnitsCounted ==
  ASSUME NEW f \in Files
  PROVE  Len(Units[f]) \in Nat
<1> DEFINE starts == {i \in CodesAt(f) : SubSeq(f, i, i + 3) = LongStartCode}
<1>1. f \in Seq(Bytes) /\ Len(f) \in Nat
  BY FramerAssumption DEF Bytes
<1>2. Units[f] = IF starts = {} THEN <<>> ELSE UnitsFrom(f)[First(starts) + 4]
  BY Zenon DEF Units
<1>3. CASE starts = {}
  BY <1>2, <1>3
<1>4. CASE starts # {}
  <2>1. starts \subseteq Nat
    BY <1>1, CodeWithin
  <2>2. First(starts) \in CodesAt(f)
    BY <1>4, <2>1, FirstIsLeast
  <2> DEFINE i == First(starts) + 4
  <2>3. i \in 1 .. Len(f) + 1
    <3>1. First(starts) \in Nat /\ First(starts) + 3 <= Len(f)
      BY <1>1, <2>2, CodeWithin
    <3> HIDE DEF starts
    <3> QED BY <1>1, <3>1
  <2> HIDE DEF i
  <2>4. IsUnits(UnitsFrom(f)[i])
    BY <1>1, <2>3, UnitsProperties
  <2>5. Units[f] = UnitsFrom(f)[i]
    BY <1>2, <1>4 DEF i
  <2> QED BY <2>4, <2>5 DEF IsUnits
<1> QED BY <1>3, <1>4

LEMMA TypesFollow ==
  ASSUME Inv
  PROVE  TypeOK
<1>1. /\ file \in Files /\ finished \in Nat /\ parser \in ParserFields /\ Bounded(parser)
      /\ control \in Controls /\ callers \in Seq({"parse", "quiet", "slice"})
      /\ file \in Seq(Bytes) /\ Len(file) \in Nat /\ read \in {0, Len(file)}
  BY HeldByFile DEF Inv, Typed, ReadWhole
<1>2. Len(Units[file]) \in Nat
  BY <1>1, UnitsCounted
<1>3. finished <= Len(Units[file])
  <2>1. CASE parser.eof
    BY <2>1, Zenon DEF Inv, AtEnd
  <2>2. CASE ~parser.first
    <3>1. finished = 0
      BY <2>2, Zenon DEF Inv, BeforeStart
    <3> QED BY <1>2, <3>1
  <2>3. CASE parser.first /\ ~parser.eof
    <3>1. PICK s \in 1 .. Len(file) + 1 : UnitAt(file, parser, finished, control, s)
      BY <2>3, InAUnit
    <3>2. Remaining(file, finished, s)
      BY <3>1, UnitAtSays
    <3>3. finished < Len(Units[file])
      BY <1>1, <3>2, UnitBegins
    <3> QED BY <1>1, <1>2, <3>3
  <2> QED BY <2>1, <2>2, <2>3
<1>4. read \in 0 .. Len(file) /\ finished \in 0 .. Len(Units[file])
  BY <1>1, <1>2, <1>3
<1> QED BY <1>1, <1>4, Zenon DEF TypeOK, Bounded

(* Every variable has its type, and what is marked as parsed and saved is  *)
(* never beyond what was (setParseState, restoreSavedParserState).         *)
THEOREM FramerTypeCorrect == ASSUME FilesFit PROVE Spec => []TypeOK
<1>1. Inv => TypeOK
  BY TypesFollow
<1> QED BY <1>1, FramerInvariant, PTL

(* As long as the reader has not stopped asking, what the stream is        *)
(* described with is the latest parameter sets of the file, whole          *)
(* (saveCopyOfSPS, saveCopyOfPPS).                                         *)
THEOREM ParameterSetsAreWhole == ASSUME FilesFit PROVE Spec => []SetsAreUnits
<1>1. Inv => SetsAreUnits
  BY DEF Inv
<1> QED BY <1>1, FramerInvariant, PTL

(* The marker says so wherever a slice is followed by a NAL unit that is   *)
(* none (pictureEndMarker).                                                *)
THEOREM MarkerEndsPictures == ASSUME FilesFit PROVE Spec => []PicturesEnd
<1>1. Inv => PicturesEnd
  BY DEF Inv
<1> QED BY <1>1, FramerInvariant, PTL

-----------------------------------------------------------------------------
(* The refinement.                                                         *)

InHand(fr) == IF fr.asked THEN fr.bytes ELSE <<>>

(* A step that leaves the frame alone tells of the end at most, and that   *)
(* only when no more than the last units are left.                         *)
LEMMA QuietStep ==
  ASSUME Inv, Inv', file' = file, finished' = finished, pauses' = pauses,
         InHand(frame') = InHand(frame), closed => closed'
  PROVE  Promise!Next \/ UNCHANGED Promise!vars
<1>1. closed \in BOOLEAN /\ closed' \in BOOLEAN
  BY DEF Inv, Typed
<1>2. CASE closed' = closed
  BY <1>2, Zenon DEF Promise!vars, InHand
<1>3. CASE closed' # closed
  <2>1. ~closed /\ closed' = TRUE
    BY <1>1, <1>3
  <2>2. parser'.eof
    BY <2>1, Zenon DEF Inv, Flow
  <2>3. finished <= Len(Units[file]) /\ Len(Units[file]) <= finished + LostAtEnd
    BY <2>2, Zenon DEF Inv, AtEnd
  <2>4. finished + LostAtEnd >= Len(Units[file])
    <3>1. Len(Units[file]) \in Nat /\ finished \in Nat /\ LostAtEnd \in Nat
      BY UnitsCounted, FramerAssumption DEF Inv, Typed, LostAtEnd
    <3> QED BY <2>3, <3>1
  <2>5. Promise!End
    BY <2>1, <2>4, Zenon DEF Promise!End, InHand
  <2> QED BY <2>5, Zenon DEF Promise!Next
<1> QED BY <1>2, <1>3

LEMMA ReadingNeverOpens ==
  ASSUME NEW p, NEW n, NEW how, EnsureValidBytes(p, n, how)
  PROVE  closed => closed'
BY Zenon DEF EnsureValidBytes

LEMMA ParsingIsQuiet ==
  ASSUME Inv, Inv', FindStart \/ SaveBytes \/ SaveRemaining
  PROVE  Promise!Next \/ UNCHANGED Promise!vars
<1>1. /\ file' = file /\ finished' = finished /\ pauses' = pauses /\ frame' = frame
  BY DEF FindStart, SaveBytes, SaveRemaining
<1>2. closed => closed'
  <2>1. CASE FindStart
    BY <2>1, ReadingNeverOpens, Zenon DEF FindStart
  <2>2. CASE SaveBytes
    BY <2>2, ReadingNeverOpens, Zenon DEF SaveBytes
  <2>3. CASE SaveRemaining
    BY <2>3, ReadingNeverOpens, Zenon DEF SaveRemaining
  <2> QED BY <2>1, <2>2, <2>3
<1> QED BY <1>1, <1>2, QuietStep, Zenon

(* A unit is given to whoever asked for it, or to nobody.                  *)
LEMMA UnitGiven ==
  ASSUME Inv, Inv', InUnit, Has(parser, 4), StartCode(Next4(parser)),
         NEW p, p.out = parser.out, NEW ends, Deliver(p, ends),
         finished' = finished + 1, UNCHANGED <<file, closed, pauses>>
  PROVE  Promise!Next
<1>1. /\ parser.first /\ ~parser.eof /\ control \in {"parse", "again"}
      /\ file' = file /\ closed' = closed /\ pauses' = pauses
  BY DEF InUnit, Parsing
<1>2. ~closed /\ (control = "again" => pauses > 0)
  BY <1>1 DEF Inv, Flow
<1> DEFINE k == IF Next4(parser) = LongStartCode THEN 4 ELSE 3
           t == parser.idx + k + 1
           unit == Units[file][finished + 1]
<1>3. /\ t \in 1 .. Len(file) + 1 /\ Remaining(file, finished + 1, t)
      /\ control = "parse" => parser.out = unit
  BY UnitEnds
<1>4. frame' = [bytes |-> p.out, asked |-> control = "parse", marker |-> frame.marker \/ ends]
  BY Zenon DEF Deliver
<1>5. frame'.bytes = parser.out /\ frame'.asked = (control = "parse")
  BY <1>4
<1> HIDE DEF k, t
<1>6. CASE control = "parse"
  <2>1. file \in Seq(Bytes) /\ finished \in Nat
    BY HeldByFile DEF Inv, Typed
  <2>2. finished < Len(Units[file])
    <3>1. finished + 1 \in Nat
      BY <2>1
    <3>2. finished + 1 < Len(Units[file]) /\ Len(Units[file]) \in Nat
      BY <1>3, <2>1, <3>1, UnitBegins, UnitsCounted DEF Inv, Typed
    <3> QED BY <2>1, <3>2
  <2>3. (IF frame'.asked THEN frame'.bytes ELSE <<>>) = Units[file][finished']
    BY <1>3, <1>5, <1>6, Zenon
  <2>4. Promise!Give
    BY <1>1, <1>2, <2>2, <2>3, Zenon DEF Promise!Give
  <2> QED BY <2>4, Zenon DEF Promise!Next
<1>7. CASE control = "again"
  <2>1. ~frame'.asked /\ pauses > 0
    BY <1>2, <1>5, <1>7
  <2>2. (IF frame'.asked THEN frame'.bytes ELSE <<>>) = <<>>
    BY <2>1, Zenon
  <2>3. Promise!Skip
    BY <1>1, <2>1, <2>2, Zenon DEF Promise!Skip
  <2> QED BY <2>3, Zenon DEF Promise!Next
<1> QED BY <1>1, <1>6, <1>7

LEMMA FinishUnitGives ==
  ASSUME Inv, Inv', FinishUnit
  PROVE  Promise!Next \/ UNCHANGED Promise!vars
<1> DEFINE this == HeaderSeen(parser).header
           p == [parser EXCEPT !.idx = @ + (IF Next4(parser) = LongStartCode THEN 4 ELSE 3),
                               !.header = NotSeen]
           next == p.bank[p.idx + 1]
<1>1. /\ InUnit /\ Has(parser, 4) /\ StartCode(Next4(parser))
      /\ file' = file /\ pauses' = pauses
      /\ \/ Deliver(p, FALSE) /\ finished' = finished + 1 /\ closed' = closed
         \/ /\ \E differ \in BOOLEAN : Deliver(p, EndsAccessUnit(this, next, differ))
            /\ finished' = finished + 1 /\ closed' = closed
         \/ /\ \E n, how : EnsureValidBytes(p, n, how)
            /\ frame' = frame /\ finished' = finished
  BY Zenon DEF FinishUnit
<1>2. p.out = parser.out
  BY DEF Inv, Typed, ParserFields
<1> HIDE DEF p, this, next
<1>3. CASE Deliver(p, FALSE) /\ finished' = finished + 1 /\ closed' = closed
  BY <1>1, <1>2, <1>3, UnitGiven
<1>4. CASE /\ \E differ \in BOOLEAN : Deliver(p, EndsAccessUnit(this, next, differ))
           /\ finished' = finished + 1 /\ closed' = closed
  BY <1>1, <1>2, <1>4, UnitGiven
<1>5. CASE /\ \E n, how : EnsureValidBytes(p, n, how)
           /\ frame' = frame /\ finished' = finished
  <2>1. closed => closed'
    BY <1>5, ReadingNeverOpens, Zenon
  <2> QED BY <1>1, <1>5, <2>1, QuietStep, Zenon
<1> QED BY <1>1, <1>3, <1>4, <1>5, Zenon

LEMMA ReaderSteps ==
  ASSUME Inv, Inv', Request \/ StopAsking \/ Return
  PROVE  Promise!Next \/ UNCHANGED Promise!vars
<1>1. CASE Request
  <2>1. /\ frame' = [frame EXCEPT !.marker = FALSE] /\ file' = file /\ closed' = closed
        /\ finished' = finished /\ pauses' = pauses
    BY <1>1 DEF Request
  <2>2. frame'.asked = frame.asked /\ frame'.bytes = frame.bytes
    BY <2>1 DEF Inv, Typed
  <2>3. InHand(frame') = InHand(frame)
    BY <2>2, Zenon DEF InHand
  <2> QED BY <2>1, <2>3, QuietStep, Zenon
<1>2. CASE StopAsking
  <2>1. /\ file' = file /\ closed' = closed /\ frame' = frame /\ finished' = finished
        /\ pauses' \in {pauses, pauses + 1} /\ pauses \in Nat
    BY <1>2 DEF StopAsking, Inv, Typed
  <2>2. CASE pauses = 0 /\ pauses' = pauses + 1
    <3>1. ~(pauses > 0) /\ (pauses' > 0) = TRUE
      BY <2>2
    <3>2. Promise!Stop
      BY <2>1, <3>1, Zenon DEF Promise!Stop
    <3> QED BY <3>2, Zenon DEF Promise!Next
  <2>3. CASE ~(pauses = 0 /\ pauses' = pauses + 1)
    <3>1. (pauses' > 0) = (pauses > 0)
      BY <2>1, <2>3
    <3> QED BY <2>1, <3>1, Zenon DEF Promise!vars
  <2> QED BY <2>2, <2>3
<1>3. CASE Return
  <2>1. /\ control = "return" /\ file' = file /\ closed' = closed /\ finished' = finished
        /\ pauses' = pauses
        /\ frame' = frame \/ \E differ \in BOOLEAN : Deliver(parser, differ)
    BY <1>3, Zenon DEF Return
  <2>2. CASE frame' = frame
    BY <2>1, <2>2, QuietStep, Zenon
  <2>3. CASE \E differ \in BOOLEAN : Deliver(parser, differ)
    <3>1. PICK differ \in BOOLEAN : Deliver(parser, differ)
      BY <2>3
    <3>2. frame' = [bytes |-> parser.out, asked |-> control = "parse",
                    marker |-> frame.marker \/ differ]
      BY <3>1, Zenon DEF Deliver
    <3>3. ~frame'.asked
      BY <2>1, <3>2
    <3>4. pauses > 0 \/ closed
      BY <2>1 DEF Inv, Flow
    <3>5. (IF frame'.asked THEN frame'.bytes ELSE <<>>) = <<>>
      BY <3>3, Zenon
    <3>6. Promise!Skip
      BY <2>1, <3>4, <3>5, Zenon DEF Promise!Skip
    <3> QED BY <3>6, Zenon DEF Promise!Next
  <2> QED BY <2>1, <2>2, <2>3
<1> QED BY <1>1, <1>2, <1>3

LEMMA StepIsPromised ==
  ASSUME Inv, Inv', [Next]_vars
  PROVE  [Promise!Next]_(Promise!vars)
<1>1. CASE UNCHANGED vars
  <2>1. /\ file' = file /\ closed' = closed /\ frame' = frame /\ finished' = finished
        /\ pauses' = pauses
    BY <1>1 DEF vars
  <2> QED BY <2>1, Zenon DEF Promise!vars
<1>2. CASE Next
  <2>1. Promise!Next \/ UNCHANGED Promise!vars
    BY <1>2, ParsingIsQuiet, FinishUnitGives, ReaderSteps, Zenon DEF Next, Parse
  <2> QED BY <2>1
<1> QED BY <1>1, <1>2

LEMMA InitPromised ==
  ASSUME Init
  PROVE  Promise!Init
<1>1. /\ file \in Files /\ finished = 0 /\ closed = FALSE /\ pauses = 0
      /\ frame.asked = FALSE
  BY DEF Init
<1>2. DOMAIN Units = Files
  BY Zenon DEF Units
<1>3. (pauses > 0) = FALSE
  BY <1>1
<1>4. (IF frame.asked THEN frame.bytes ELSE <<>>) = <<>>
  BY <1>1
<1> QED BY <1>1, <1>2, <1>3, <1>4, Zenon DEF Promise!Init

(* Whoever asks is given the NAL units of the file, each once, whole and   *)
(* in their order, and is told of the end when only the last few are left  *)
(* (afterGetting, onSourceClosure).                                        *)
THEOREM FramerGivesTheUnits == ASSUME FilesFit PROVE Spec => GivesTheUnits
<1>1. Init => Promise!Init
  BY InitPromised
<1>2. Inv /\ Inv' /\ [Next]_vars => [Promise!Next]_(Promise!vars)
  BY StepIsPromised
<1> QED BY <1>1, <1>2, FramerInvariant, PTL DEF Spec, GivesTheUnits, Promise!Spec
=============================================================================
