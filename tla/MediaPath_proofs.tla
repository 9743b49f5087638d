--------------------------- MODULE MediaPath_proofs ---------------------------
(***************************************************************************)
(* MediaPath proved: the sender for packets of every size and every size   *)
(* and number of NAL units, FragmentsMakeUnits, PacketsCarryFrames and     *)
(* MarkerEndsUnit; the receiver for every width of the sequence numbers,   *)
(* every number of packets and every order they come in, HighestIsLatest,  *)
(* ListInOrder and DeliveredForward; both together, WaitingHoldsPieces and *)
(* TypeOK.                                                                 *)
(*                                                                         *)
(* Of the sender, the first part is about the concatenation of sequences   *)
(* of sequences, FlattenSeq, a recursive function; the second about pieces *)
(* of buffers; the third says what each case of the fragmenter makes of a  *)
(* unit in its buffer and what the receiver's rules make of that; the      *)
(* fourth what each operation of the output buffer does.  Then come the    *)
(* inductive invariant UntilPaused and, for each step of the loop, that it *)
(* is kept.                                                                *)
(*                                                                         *)
(* Of the receiver, a packet carries its number reduced to 16 bits, and    *)
(* the history keeps it whole (ext).  The first part shows when the code's *)
(* comparison of reduced numbers agrees with that of whole ones; the       *)
(* second what each operation of the reordering buffer does to a list that *)
(* is in order; the third what the statistics do with the next number.     *)
(* Then comes the inductive invariant IInv.                                *)
(*                                                                         *)
(* Of both, the last part shows that the frames are pieces of the units    *)
(* they were made of, that a packet's payload is its frame, and, with the  *)
(* invariant WaitsInv, that what waits in the reordering buffer, used or   *)
(* not, is of packets that were sent.                                      *)
(***************************************************************************)
EXTENDS MediaPath, LeastNumber, SequenceTheorems, TLAPS

-----------------------------------------------------------------------------
(* FlattenSeq, step by step.                                               *)

FlattenTo(s, f, i) == IF i = 1 THEN s[i] ELSE f[i - 1] \o s[i]

AreFlat(s, n, f) == f = [i \in 1 .. n |-> FlattenTo(s, f, i)]

Flat(s, n) == IF n = 0 THEN <<>> ELSE (CHOOSE f : AreFlat(s, n, f))[n]

Chosen(s, n) == CHOOSE f : AreFlat(s, n, f)

LEMMA FlatChosen ==
  ASSUME NEW s, NEW n, n # 0
  PROVE  Flat(s, n) = Chosen(s, n)[n]
  BY DEF Flat, Chosen

LEMMA FlattenIsFlat ==
  ASSUME NEW S, NEW s \in Seq(S)
  PROVE  FlattenSeq(s) = Flat(s, Len(s))
<1>1. CASE Len(s) = 0
  BY <1>1 DEF FlattenSeq, Flat
<1>2. CASE Len(s) # 0
  <2> DEFINE g == CHOOSE f : f = [i \in 1 .. Len(s) |-> IF i = 1 THEN s[i] ELSE f[i - 1] \o s[i]]
  <2>1. Chosen(s, Len(s)) = g
    BY Zenon DEF Chosen, AreFlat, FlattenTo
  <2>2. FlattenSeq(s) = g[Len(s)]
    BY <1>2 DEF FlattenSeq
  <2> QED BY <1>2, <2>1, <2>2, FlatChosen
<1> QED BY <1>1, <1>2

(* The function can be built, part by part.                                *)
LEMMA FlatExists ==
  ASSUME NEW s, NEW k \in Nat
  PROVE  \E f : AreFlat(s, k, f)
<1> DEFINE I == {n \in Nat : ~\E f : AreFlat(s, n, f)}
<1>1. ASSUME NEW n \in I
      PROVE  \E m \in I : m < n
  <2>1. CASE n = 0
    <3> DEFINE e == [i \in 1 .. 0 |-> s]
    <3>1. e = [i \in 1 .. 0 |-> FlattenTo(s, e, i)]
      OBVIOUS
    <3> QED BY <2>1, <3>1 DEF AreFlat
  <2>2. CASE n # 0
    <3>1. n - 1 \in Nat /\ n - 1 < n /\ n \in Nat
      BY <2>2
    <3> SUFFICES ASSUME n - 1 \notin I PROVE FALSE
      BY <3>1
    <3>2. PICK f : AreFlat(s, n - 1, f)
      BY <3>1
    <3> DEFINE g == [i \in 1 .. n |-> IF i = n THEN FlattenTo(s, f, n) ELSE f[i]]
    <3>3. \A i \in 1 .. n - 1 : g[i] = f[i]
      BY <3>1
    <3>4. g = [i \in 1 .. n |-> g[i]]
      OBVIOUS
    <3>5. g[n] = FlattenTo(s, f, n)
      BY <3>1
    <3> HIDE DEF g
    <3>6. ASSUME NEW i \in 1 .. n
          PROVE  g[i] = FlattenTo(s, g, i)
      <4>1. i \in Nat /\ (i # 1 => i - 1 \in 1 .. n - 1)
        BY <3>1
      <4>2. FlattenTo(s, f, i) = FlattenTo(s, g, i)
        BY <3>3, <4>1, Zenon DEF FlattenTo
      <4>3. CASE i = n
        BY <3>5, <4>2, <4>3
      <4>4. CASE i # n
        <5>1. i \in 1 .. n - 1
          BY <3>1, <4>4
        <5>2. f[i] = FlattenTo(s, f, i)
          BY <3>2, <5>1, Zenon DEF AreFlat
        <5> QED BY <3>3, <4>2, <5>1, <5>2
      <4> QED BY <4>3, <4>4
    <3>7. AreFlat(s, n, g)
      BY <3>4, <3>6 DEF AreFlat
    <3> QED BY <3>7
  <2> QED BY <2>1, <2>2
<1>2. I = {}
  <2>1. I \subseteq Nat
    OBVIOUS
  <2> HIDE DEF I
  <2> QED BY <1>1, <2>1, NoLeast
<1> QED BY <1>2

(* There is only one, and it depends on no more than these parts.          *)
LEMMA FlatUnique ==
  ASSUME NEW s, NEW t, NEW m \in Nat, NEW n \in Nat, NEW f, NEW g,
         AreFlat(s, m, f), AreFlat(t, n, g),
         NEW k \in Nat, k <= m, k <= n, \A i \in 1 .. k : s[i] = t[i]
  PROVE  \A i \in 1 .. k : f[i] = g[i]
<1> DEFINE I == {i \in 1 .. k : f[i] # g[i]}
<1>1. ASSUME NEW i \in I
      PROVE  \E j \in I : j < i
  <2>1. /\ f[i] # g[i] /\ i \in 1 .. m /\ i \in 1 .. n /\ s[i] = t[i]
        /\ i - 1 < i /\ (i # 1 => i - 1 \in 1 .. k) /\ i \in Nat
    OBVIOUS
  <2>2. f[i] = FlattenTo(s, f, i) /\ g[i] = FlattenTo(t, g, i)
    BY <2>1, Zenon DEF AreFlat
  <2>3. i # 1 /\ f[i - 1] # g[i - 1]
    BY <2>1, <2>2, Zenon DEF FlattenTo
  <2> QED BY <2>1, <2>3
<1>2. I = {}
  <2>1. I \subseteq Nat
    OBVIOUS
  <2> HIDE DEF I
  <2> QED BY <1>1, <2>1, NoLeast
<1> QED BY <1>2

LEMMA FlatSame ==
  ASSUME NEW s, NEW t, NEW n \in Nat, \A i \in 1 .. n : s[i] = t[i]
  PROVE  Flat(s, n) = Flat(t, n)
<1>1. CASE n = 0
  BY <1>1 DEF Flat
<1>2. CASE n # 0
  <2>1. AreFlat(s, n, Chosen(s, n)) /\ AreFlat(t, n, Chosen(t, n))
    BY FlatExists, Zenon DEF Chosen
  <2>2. Chosen(s, n)[n] = Chosen(t, n)[n]
    BY <1>2, <2>1, FlatUnique
  <2> QED BY <1>2, <2>2, FlatChosen
<1> QED BY <1>1, <1>2

LEMMA FlatStep ==
  ASSUME NEW s, NEW n \in Nat, n > 0
  PROVE  Flat(s, n) = IF n = 1 THEN s[1] ELSE Flat(s, n - 1) \o s[n]
<1>1. n - 1 \in Nat /\ n \in 1 .. n /\ (n # 1 => n - 1 # 0 /\ n - 1 \in 1 .. n - 1) /\ n - 1 <= n /\ n # 0
  OBVIOUS
<1>2. AreFlat(s, n, Chosen(s, n)) /\ AreFlat(s, n - 1, Chosen(s, n - 1))
  BY <1>1, FlatExists, Zenon DEF Chosen
<1>3. n # 1 => Chosen(s, n)[n - 1] = Chosen(s, n - 1)[n - 1]
  BY <1>1, <1>2, FlatUnique
<1>4. Chosen(s, n)[n] = FlattenTo(s, Chosen(s, n), n)
  BY <1>1, <1>2, Zenon DEF AreFlat
<1>5. Flat(s, n) = Chosen(s, n)[n]
  BY <1>1, FlatChosen
<1>6. n # 1 => Flat(s, n - 1) = Chosen(s, n - 1)[n - 1]
  BY <1>1, FlatChosen
<1> QED BY <1>3, <1>4, <1>5, <1>6, Zenon DEF FlattenTo

(* In sets of sequences: what is joined to what.                           *)
AreJoined(S, s, t, u) ==
  /\ u \in Seq(S) /\ Len(u) = Len(s) + Len(t)
  /\ \A i \in 1 .. Len(s) : u[i] = s[i]
  /\ \A i \in 1 .. Len(t) : u[Len(s) + i] = t[i]

LEMMA Joined ==
  ASSUME NEW S, NEW s \in Seq(S), NEW t \in Seq(S)
  PROVE  AreJoined(S, s, t, s \o t)
  BY DEF AreJoined

LEMMA JoinedOnce ==
  ASSUME NEW S, NEW s \in Seq(S), NEW t \in Seq(S), NEW u, NEW v,
         AreJoined(S, s, t, u), AreJoined(S, s, t, v)
  PROVE  u = v
<1>1. u \in Seq(S) /\ v \in Seq(S) /\ Len(u) = Len(v)
  BY DEF AreJoined
<1>2. ASSUME NEW i \in 1 .. Len(u)
      PROVE  u[i] = v[i]
  <2>1. CASE i <= Len(s)
    <3>1. i \in 1 .. Len(s)
      BY <2>1
    <3> QED BY <3>1 DEF AreJoined
  <2>2. CASE i > Len(s)
    <3>1. i - Len(s) \in 1 .. Len(t) /\ i = Len(s) + (i - Len(s))
      BY <2>2 DEF AreJoined
    <3>2. u[Len(s) + (i - Len(s))] = t[i - Len(s)] /\ v[Len(s) + (i - Len(s))] = t[i - Len(s)]
      BY <3>1 DEF AreJoined
    <3> QED BY <3>1, <3>2
  <2> QED BY <2>1, <2>2
<1> QED BY <1>1, <1>2

LEMMA FlatTyped ==
  ASSUME NEW S, NEW s, NEW k \in Nat, \A i \in 1 .. k : s[i] \in Seq(S)
  PROVE  \A n \in 0 .. k : Flat(s, n) \in Seq(S)
<1> DEFINE I == {n \in 0 .. k : Flat(s, n) \notin Seq(S)}
<1>1. ASSUME NEW n \in I
      PROVE  \E m \in I : m < n
  <2>1. CASE n = 0
    BY <2>1 DEF Flat
  <2>2. CASE n # 0
    <3>1. n \in Nat /\ n > 0 /\ n - 1 \in 0 .. k /\ n - 1 < n /\ n \in 1 .. k /\ 1 \in 1 .. k
      BY <2>2
    <3>2. Flat(s, n) = IF n = 1 THEN s[1] ELSE Flat(s, n - 1) \o s[n]
      BY <3>1, FlatStep
    <3>3. Flat(s, n - 1) \notin Seq(S)
      <4> SUFFICES ASSUME Flat(s, n - 1) \in Seq(S) PROVE FALSE
        OBVIOUS
      <4> QED BY <3>1, <3>2, ConcatProperties
    <3> QED BY <3>1, <3>3
  <2> QED BY <2>1, <2>2
<1>2. I = {}
  <2>1. I \subseteq Nat
    OBVIOUS
  <2> HIDE DEF I
  <2> QED BY <1>1, <2>1, NoLeast
<1> QED BY <1>2

LEMMA FlatJoins ==
  ASSUME NEW S, NEW s, NEW n \in Nat, n > 0, \A i \in 1 .. n : s[i] \in Seq(S)
  PROVE  AreJoined(S, Flat(s, n - 1), s[n], Flat(s, n))
<1>1. n \in 1 .. n /\ 1 \in 1 .. n /\ n \in 0 .. n /\ n - 1 \in 0 .. n
  OBVIOUS
<1>2. Flat(s, n - 1) \in Seq(S) /\ Flat(s, n) \in Seq(S) /\ s[n] \in Seq(S)
  BY <1>1, FlatTyped
<1>3. CASE n = 1
  <2>1. Flat(s, n) = s[n]
    BY <1>3, FlatStep
  <2>2. n - 1 = 0 /\ Flat(s, 0) = <<>>
    BY <1>3 DEF Flat
  <2>3. Len(Flat(s, n - 1)) = 0
    BY <2>2
  <2>4. Flat(s, n) \in Seq(S) /\ s[n] = Flat(s, n) /\ Len(Flat(s, n)) = 0 + Len(s[n])
    BY <1>2, <2>1
  <2>5. Len(s[n]) \in Nat
    BY <1>2
  <2>6. ASSUME NEW i \in 1 .. Len(s[n])
        PROVE  Flat(s, n)[Len(Flat(s, n - 1)) + i] = s[n][i]
    <3>1. 0 + i = i
      BY <2>5
    <3> QED BY <2>3, <2>4, <3>1
  <2>7. 1 .. Len(Flat(s, n - 1)) = {}
    BY <2>3
  <2>8. Len(Flat(s, n)) = Len(Flat(s, n - 1)) + Len(s[n])
    BY <2>3, <2>4
  <2> HIDE DEF Flat
  <2> QED BY <2>4, <2>6, <2>7, <2>8, Zenon DEF AreJoined
<1>4. CASE n # 1
  <2>1. Flat(s, n) = Flat(s, n - 1) \o s[n]
    BY <1>4, FlatStep
  <2> QED BY <1>2, <2>1, Joined
<1> QED BY <1>3, <1>4

(* Empty sequences behind the last that is not add nothing.                *)
LEMMA FlatPadded ==
  ASSUME NEW S, NEW s, NEW k \in Nat, NEW m \in 0 .. k,
         \A i \in 1 .. k : s[i] \in Seq(S), \A i \in m + 1 .. k : s[i] = <<>>
  PROVE  Flat(s, k) = Flat(s, m)
<1> DEFINE I == {n \in m .. k : Flat(s, n) # Flat(s, m)}
<1>1. ASSUME NEW n \in I
      PROVE  \E j \in I : j < n
  <2>1. CASE n = m
    BY <2>1
  <2>2. CASE n # m
    <3>1. /\ n \in Nat /\ n > 0 /\ n - 1 \in m .. k /\ n - 1 < n /\ n \in m + 1 .. k
          /\ n \in 0 .. k /\ n - 1 \in 0 .. k /\ \A i \in 1 .. n : i \in 1 .. k
      BY <2>2
    <3>2. AreJoined(S, Flat(s, n - 1), <<>>, Flat(s, n))
      BY <3>1, FlatJoins
    <3>3. Flat(s, n - 1) \in Seq(S) /\ Flat(s, n) \in Seq(S)
      BY <3>1, FlatTyped
    <3>4. Len(<<>>) = 0
      OBVIOUS
    <3>5. /\ Len(Flat(s, n)) = Len(Flat(s, n - 1))
          /\ \A i \in 1 .. Len(Flat(s, n - 1)) : Flat(s, n)[i] = Flat(s, n - 1)[i]
      BY <3>2, <3>3, <3>4 DEF AreJoined
    <3>6. Flat(s, n) = Flat(s, n - 1)
      BY <3>3, <3>5
    <3> QED BY <3>1, <3>6
  <2> QED BY <2>1, <2>2
<1>2. I = {}
  <2>1. I \subseteq Nat
    OBVIOUS
  <2> HIDE DEF I
  <2> QED BY <1>1, <2>1, NoLeast
<1> QED BY <1>2

-----------------------------------------------------------------------------
(* Cells.                                                                  *)

Octets == Cells \X Nat \X Nat \X Nat

LEMMA OctetParts ==
  ASSUME NEW c \in Octets
  PROVE  c[1] \in Cells /\ c[2] \in Nat /\ c[3] \in Nat /\ c[4] \in Nat
  BY DEF Octets

LEMMA NalParts ==
  ASSUME NEW a \in Nat, NEW t \in Nat
  PROVE  LET c == Nal(a, t)
         IN  c \in Octets /\ c[1] = "nal" /\ c[2] = a /\ c[3] = t /\ TypeOf(c) = t
  BY DEF Nal, Octets, Cells, TypeOf

LEMMA FuParts ==
  ASSUME NEW s \in Nat, NEW e \in Nat, NEW t \in Nat
  PROVE  LET c == Fu(s, e, t)
         IN  c \in Octets /\ c[1] = "fu" /\ c[2] = s /\ c[3] = e /\ c[4] = t /\ TypeOf(c) = t
<1>1. /\ Fu(s, e, t) \in Octets /\ Fu(s, e, t)[1] = "fu" /\ Fu(s, e, t)[2] = s
      /\ Fu(s, e, t)[3] = e /\ Fu(s, e, t)[4] = t
  BY DEF Fu, Octets, Cells
<1>2. "fu" # "nal"
  OBVIOUS
<1> QED BY <1>1, <1>2 DEF TypeOf

LEMMA OtherOctets ==
  ASSUME NEW k \in Nat, NEW j \in Nat, NEW m \in Nat
  PROVE  /\ Data(k, j) \in Octets /\ Ts(k) \in Octets /\ Ssrc(k) \in Octets /\ Zero \in Octets
         /\ Hdr(k, j, m) \in Octets /\ Hdr(k, j, m)[3] = j /\ Hdr(k, j, m)[4] = m
  BY DEF Data, Ts, Ssrc, Zero, Hdr, Octets, Cells

LEMMA MarkedOctet ==
  ASSUME NEW c \in Octets
  PROVE  LET d == [c EXCEPT ![4] = 1]
         IN  d \in Octets /\ d[3] = c[3]
  BY DEF Octets

-----------------------------------------------------------------------------
(* Pieces of buffers.                                                      *)

Bytes(b, i, j) == \A k \in i .. j - 1 : b[k] \in Octets

IsSlice(b, i, j, s) ==
  /\ s \in Seq(Octets) /\ Len(s) = j - i
  /\ \A k \in 1 .. j - i : s[k] = b[i + k - 1]

LEMMA SliceParts ==
  ASSUME NEW b, NEW i \in Nat, NEW j \in Nat, i <= j, Bytes(b, i, j)
  PROVE  IsSlice(b, i, j, Slice(b, i, j))
<1>1. j - i \in Nat
  OBVIOUS
<1>2. ASSUME NEW k \in 1 .. j - i
      PROVE  b[i + k - 1] \in Octets
  <2>1. i + k - 1 \in i .. j - 1
    OBVIOUS
  <2> QED BY <2>1 DEF Bytes
<1> QED BY <1>1, <1>2 DEF Slice, IsSlice

IsCopy(D, b, i, s, n, c) ==
  /\ c \in [D -> Octets]
  /\ \A k \in D : c[k] = IF k \in i .. i + n - 1 THEN s[k - i + 1] ELSE b[k]

LEMMA CopyParts ==
  ASSUME NEW D, D \subseteq Int, NEW b, b \in [D -> Octets], NEW i \in Nat,
         NEW s, s \in Seq(Octets), NEW n \in Nat, n <= Len(s)
  PROVE  IsCopy(D, b, i, s, n, Copy(b, i, s, n))
<1>1. DOMAIN b = D /\ DOMAIN s = 1 .. Len(s) /\ Len(s) \in Nat
  OBVIOUS
<1>2. ASSUME NEW k \in D
      PROVE  /\ Copy(b, i, s, n)[k] = IF k \in i .. i + n - 1 THEN s[k - i + 1] ELSE b[k]
             /\ Copy(b, i, s, n)[k] \in Octets
  <2>1. k \in Int /\ (k \in i .. i + n - 1 => k - i + 1 \in 1 .. Len(s))
    BY <1>1
  <2>2. Copy(b, i, s, n)[k] = IF k \in i .. i + n - 1 /\ k - i + 1 \in DOMAIN s THEN s[k - i + 1] ELSE b[k]
    BY <1>1 DEF Copy
  <2>3. CASE k \in i .. i + n - 1
    BY <1>1, <2>1, <2>2, <2>3
  <2>4. CASE k \notin i .. i + n - 1
    BY <1>1, <2>1, <2>2, <2>4
  <2> QED BY <2>3, <2>4
<1>3. Copy(b, i, s, n) = [k \in D |-> Copy(b, i, s, n)[k]]
  BY <1>1 DEF Copy
<1> QED BY <1>2, <1>3 DEF IsCopy

-----------------------------------------------------------------------------
(* The fragmenter.                                                         *)

LEMMA Sizes ==
  /\ MaxOutput \in Nat /\ MaxOutput > 6 /\ MaxPacketSize = MaxOutput + 3
  /\ MaxPacketSize \in Nat /\ MaxNals \in Nat /\ RtpHeaderSize = 3
  BY SenderAssumption DEF MaxOutput, RtpHeaderSize

Fragmenters ==
  [buffer : [0 .. inputBufferSize - 1 -> Octets], valid : 1 .. inputBufferSize,
   offset : 1 .. inputBufferSize, completed : BOOLEAN, to : Nat, maxSize : Nat,
   saved : 0 .. inputBufferSize - 1]

(* What no fragment changes.                                               *)
SameAsked(f, g) == g.to = f.to /\ g.maxSize = f.maxSize /\ g.saved = f.saved

LEMMA WholeParts ==
  ASSUME inputBufferSize \in Nat, NEW f \in Fragmenters
  PROVE  LET out == WholeNal(f)
         IN  /\ out.frame \in Seq(Octets) /\ Len(out.frame) = f.valid - 1
             /\ \A i \in 1 .. f.valid - 1 : out.frame[i] = f.buffer[i]
             /\ out.next \in Fragmenters /\ SameAsked(f, out.next)
             /\ out.next.offset = f.valid /\ out.next.valid = f.valid /\ out.next.completed
<1>1. f.valid \in Nat /\ 1 <= f.valid /\ \A k \in 1 .. f.valid - 1 : f.buffer[k] \in Octets
  BY DEF Fragmenters
<1>2. /\ Slice(f.buffer, 1, f.valid) \in Seq(Octets) /\ Len(Slice(f.buffer, 1, f.valid)) = f.valid - 1
      /\ \A k \in 1 .. f.valid - 1 : Slice(f.buffer, 1, f.valid)[k] = f.buffer[1 + k - 1]
  <2>1. Bytes(f.buffer, 1, f.valid)
    BY <1>1 DEF Bytes
  <2>2. IsSlice(f.buffer, 1, f.valid, Slice(f.buffer, 1, f.valid))
    BY <1>1, <2>1, SliceParts
  <2> QED BY <2>2 DEF IsSlice
<1>3. \A k \in 1 .. f.valid - 1 : 1 + k - 1 = k
  BY <1>1
<1>4. WholeNal(f).frame = Slice(f.buffer, 1, f.valid)
  BY DEF WholeNal
<1>5. WholeNal(f).next = [f EXCEPT !.offset = f.valid, !.completed = TRUE]
  BY DEF WholeNal
<1> DEFINE g == [f EXCEPT !.offset = f.valid, !.completed = TRUE]
<1>6. /\ g \in Fragmenters /\ g.to = f.to /\ g.maxSize = f.maxSize /\ g.saved = f.saved
      /\ g.offset = f.valid /\ g.valid = f.valid /\ g.completed
  BY DEF Fragmenters
<1> HIDE DEF g
<1>7. WholeNal(f).next = g
  BY <1>5 DEF g
<1> QED BY <1>2, <1>3, <1>4, <1>6, <1>7 DEF SameAsked

LEMMA FirstParts ==
  ASSUME inputBufferSize \in Nat, NEW f \in Fragmenters, f.offset = 1, f.maxSize > 3, f.maxSize < f.valid - 1
  PROVE  LET out == FirstFragment(f)
             nal == Nal(f.buffer[1][2], FuA)
             fu  == Fu(1, 0, TypeOf(f.buffer[1]))
         IN  /\ out.frame \in Seq(Octets) /\ Len(out.frame) = f.maxSize
             /\ out.frame[1] = nal /\ out.frame[2] = fu
             /\ \A i \in 3 .. f.maxSize : out.frame[i] = f.buffer[i - 1]
             /\ out.next \in Fragmenters /\ SameAsked(f, out.next)
             /\ out.next.offset = f.maxSize /\ out.next.valid = f.valid /\ ~out.next.completed
             /\ out.next.buffer[0] = nal /\ out.next.buffer[1] = fu
             /\ \A i \in 2 .. f.valid - 1 : out.next.buffer[i] = f.buffer[i]
<1> DEFINE nal == Nal(f.buffer[1][2], FuA)
           fu  == Fu(1, 0, TypeOf(f.buffer[1]))
           b == [f.buffer EXCEPT ![0] = nal, ![1] = fu]
           D == 0 .. inputBufferSize - 1
<1>1. /\ f.valid \in Nat /\ f.valid <= inputBufferSize /\ f.maxSize \in Nat
      /\ f.buffer \in [D -> Octets]
  BY DEF Fragmenters
<1>2. 0 \in D /\ 1 \in D /\ f.maxSize \in 1 .. inputBufferSize /\ \A i \in 0 .. f.maxSize - 1 : i \in D
  BY <1>1
<1>3. f.buffer[1] \in Octets
  BY <1>1, <1>2
<1>4. f.buffer[1][2] \in Nat /\ TypeOf(f.buffer[1]) \in Nat
  BY <1>3, OctetParts DEF TypeOf
<1>5. nal \in Octets /\ fu \in Octets
  BY <1>4, NalParts, FuParts DEF FuA
<1> HIDE DEF nal, fu, D
<1>6. /\ b \in [D -> Octets] /\ b[0] = nal /\ b[1] = fu
      /\ \A i \in D : i # 0 /\ i # 1 => b[i] = f.buffer[i]
  BY <1>1, <1>2, <1>5
<1> DEFINE g == [f EXCEPT !.buffer = b, !.offset = @ + f.maxSize - 1, !.completed = FALSE]
<1>7. FirstFragment(f).frame = Slice(b, 0, f.maxSize) /\ FirstFragment(f).next = g
  BY DEF FirstFragment, nal, fu
<1> HIDE DEF b
<1>8. 1 + f.maxSize - 1 = f.maxSize
  BY <1>1
<1>9. /\ g \in Fragmenters /\ g.to = f.to /\ g.maxSize = f.maxSize /\ g.saved = f.saved
      /\ g.offset = f.maxSize /\ g.valid = f.valid /\ ~g.completed /\ g.buffer = b
  BY <1>2, <1>6, <1>8 DEF Fragmenters, D
<1> HIDE DEF g
<1>10. /\ Slice(b, 0, f.maxSize) \in Seq(Octets) /\ Len(Slice(b, 0, f.maxSize)) = f.maxSize - 0
       /\ \A k \in 1 .. f.maxSize - 0 : Slice(b, 0, f.maxSize)[k] = b[0 + k - 1]
  <2>1. Bytes(b, 0, f.maxSize)
    BY <1>2, <1>6 DEF Bytes
  <2>2. IsSlice(b, 0, f.maxSize, Slice(b, 0, f.maxSize))
    BY <1>1, <2>1, SliceParts
  <2> QED BY <2>2 DEF IsSlice
<1>11. /\ f.maxSize - 0 = f.maxSize /\ 1 \in 1 .. f.maxSize /\ 2 \in 1 .. f.maxSize
       /\ 0 + 1 - 1 = 0 /\ 0 + 2 - 1 = 1
  BY <1>1
<1>12. ASSUME NEW i \in 3 .. f.maxSize
       PROVE  Slice(b, 0, f.maxSize)[i] = f.buffer[i - 1]
  <2>1. i \in 1 .. f.maxSize - 0 /\ 0 + i - 1 = i - 1 /\ i - 1 \in D /\ i - 1 # 0 /\ i - 1 # 1
    BY <1>1, <1>2
  <2> QED BY <1>6, <1>10, <2>1
<1>13. ASSUME NEW i \in 2 .. f.valid - 1
       PROVE  b[i] = f.buffer[i]
  <2>1. i \in D /\ i # 0 /\ i # 1
    BY <1>1 DEF D
  <2> QED BY <1>6, <2>1
<1>14. /\ Slice(b, 0, f.maxSize)[1] = nal /\ Slice(b, 0, f.maxSize)[2] = fu
       /\ Len(Slice(b, 0, f.maxSize)) = f.maxSize
  BY <1>6, <1>10, <1>11
<1> QED BY <1>6, <1>7, <1>9, <1>10, <1>12, <1>13, <1>14 DEF SameAsked, nal, fu

LEMMA NextParts ==
  ASSUME inputBufferSize \in Nat, NEW f \in Fragmenters, f.offset > 3, f.offset < f.valid, f.maxSize > 3
  PROVE  LET out  == NextFragment(f)
             left == 2 + f.valid - f.offset
             last == left <= f.maxSize
             n    == IF last THEN left ELSE f.maxSize
         IN  /\ out.frame \in Seq(Octets) /\ Len(out.frame) = n
             /\ out.frame[1] = f.buffer[0]
             /\ out.frame[2] = Fu(0, IF last THEN 1 ELSE f.buffer[1][3], f.buffer[1][4])
             /\ \A i \in 3 .. n : out.frame[i] = f.buffer[f.offset - 3 + i]
             /\ out.next \in Fragmenters /\ SameAsked(f, out.next)
             /\ out.next.offset = f.offset + n - 2 /\ out.next.valid = f.valid
             /\ out.next.completed = last
             /\ out.next.buffer[0] = f.buffer[0] /\ out.next.buffer[1] = f.buffer[1]
             /\ \A i \in f.offset .. f.valid - 1 : out.next.buffer[i] = f.buffer[i]
<1> DEFINE left == 2 + f.valid - f.offset
           last == left <= f.maxSize
           n    == IF last THEN left ELSE f.maxSize
           fu   == Fu(0, IF last THEN 1 ELSE f.buffer[1][3], f.buffer[1][4])
           o    == f.offset
           b    == [f.buffer EXCEPT ![o - 2] = f.buffer[0], ![o - 1] = fu]
           D    == 0 .. inputBufferSize - 1
<1>1. /\ f.valid \in Nat /\ f.valid <= inputBufferSize /\ f.maxSize \in Nat /\ o \in Nat
      /\ f.buffer \in [D -> Octets] /\ o > 3 /\ o < f.valid /\ f.maxSize > 3
  BY DEF Fragmenters
<1>2. left \in Nat /\ left > 2 /\ n \in Nat /\ n > 2 /\ n <= left /\ n <= f.maxSize /\ o + left = f.valid + 2
  BY <1>1
<1>3. /\ 0 \in D /\ 1 \in D /\ o - 2 \in D /\ o - 1 \in D /\ o - 2 # o - 1
      /\ 0 # o - 2 /\ 0 # o - 1 /\ 1 # o - 2 /\ 1 # o - 1
  BY <1>1
<1>4. f.buffer[0] \in Octets /\ f.buffer[1] \in Octets
  BY <1>1, <1>3
<1>5. fu \in Octets
  <2>1. f.buffer[1][3] \in Nat /\ f.buffer[1][4] \in Nat
    BY <1>4, OctetParts
  <2>2. (IF last THEN 1 ELSE f.buffer[1][3]) \in Nat
    BY <2>1
  <2> QED BY <2>1, <2>2, FuParts
<1> HIDE DEF fu, D
<1>6. /\ b \in [D -> Octets] /\ b[o - 2] = f.buffer[0] /\ b[o - 1] = fu
      /\ \A i \in D : i # o - 2 /\ i # o - 1 => b[i] = f.buffer[i]
  BY <1>1, <1>3, <1>4, <1>5
<1> DEFINE g == [f EXCEPT !.buffer = b, !.offset = @ + n - 2, !.completed = last]
<1>7. NextFragment(f).frame = Slice(b, o - 2, o - 2 + n) /\ NextFragment(f).next = g
  BY DEF NextFragment, fu
<1> HIDE DEF b
<1>8. o + n - 2 \in 1 .. inputBufferSize
  BY <1>1, <1>2
<1>9. last \in BOOLEAN
  OBVIOUS
<1> HIDE DEF n, left, last
<1>10. /\ g \in Fragmenters /\ g.to = f.to /\ g.maxSize = f.maxSize /\ g.saved = f.saved
       /\ g.offset = o + n - 2 /\ g.valid = f.valid /\ g.completed = last /\ g.buffer = b
  BY <1>6, <1>8, <1>9 DEF Fragmenters, D
<1> HIDE DEF g
<1> HIDE DEF o
<1>11. /\ o - 2 \in Nat /\ o - 2 + n \in Nat /\ o - 2 <= o - 2 + n
       /\ (o - 2 + n) - (o - 2) = n /\ \A k \in o - 2 .. o - 2 + n - 1 : k \in D
  BY <1>1, <1>2 DEF D
<1>12. /\ Slice(b, o - 2, o - 2 + n) \in Seq(Octets) /\ Len(Slice(b, o - 2, o - 2 + n)) = n
       /\ \A k \in 1 .. n : Slice(b, o - 2, o - 2 + n)[k] = b[o - 2 + k - 1]
  <2>1. Bytes(b, o - 2, o - 2 + n)
    BY <1>6, <1>11 DEF Bytes
  <2>2. IsSlice(b, o - 2, o - 2 + n, Slice(b, o - 2, o - 2 + n))
    BY <1>11, <2>1, SliceParts
  <2> QED BY <1>11, <2>2 DEF IsSlice
<1>13. o - 2 + 1 - 1 = o - 2 /\ o - 2 + 2 - 1 = o - 1 /\ 1 \in 1 .. n /\ 2 \in 1 .. n
  BY <1>1, <1>2
<1>14. ASSUME NEW i \in 3 .. n
       PROVE  Slice(b, o - 2, o - 2 + n)[i] = f.buffer[o - 3 + i]
  <2>1. /\ i \in 1 .. n /\ o - 2 + i - 1 = o - 3 + i /\ o - 3 + i \in D
        /\ o - 3 + i # o - 2 /\ o - 3 + i # o - 1
    BY <1>1, <1>2 DEF D
  <2> QED BY <1>6, <1>12, <2>1
<1>15. ASSUME NEW i \in o .. f.valid - 1
       PROVE  b[i] = f.buffer[i]
  <2>1. i \in D /\ i # o - 2 /\ i # o - 1
    BY <1>1 DEF D
  <2> QED BY <1>6, <2>1
<1>16. b[0] = f.buffer[0] /\ b[1] = f.buffer[1]
  BY <1>3, <1>6
<1> QED BY <1>6, <1>7, <1>10, <1>12, <1>13, <1>14, <1>15, <1>16 DEF SameAsked, fu, n, left, last, o

(* Where the fragmenter is before and after it delivers a frame.           *)
Ready(f) == f.valid > 1 /\ (f.offset = 1 \/ (f.offset > 3 /\ f.offset < f.valid))
Rests(f) == (f.valid = 1 /\ f.offset = 1) \/ (f.offset > 3 /\ f.offset < f.valid)

LEMMA DeliveredParts ==
  ASSUME inputBufferSize \in Nat, NEW f \in Fragmenters
  PROVE  LET g == Delivered(f)
         IN  /\ g \in Fragmenters /\ SameAsked(f, g) /\ g.completed = f.completed /\ g.buffer = f.buffer
             /\ f.offset >= f.valid => g.valid = 1 /\ g.offset = 1
             /\ f.offset < f.valid => g.valid = f.valid /\ g.offset = f.offset
<1>1. 1 \in 1 .. inputBufferSize /\ f.valid \in Nat /\ f.offset \in Nat
  BY DEF Fragmenters
<1>2. CASE f.offset >= f.valid
  <2> DEFINE g == [f EXCEPT !.valid = 1, !.offset = 1]
  <2>1. /\ g \in Fragmenters /\ SameAsked(f, g) /\ g.completed = f.completed /\ g.buffer = f.buffer
        /\ g.valid = 1 /\ g.offset = 1
    BY <1>1 DEF Fragmenters, SameAsked
  <2>2. Delivered(f) = g
    BY <1>2 DEF Delivered
  <2> HIDE DEF g
  <2> QED BY <1>1, <1>2, <2>1, <2>2
<1>3. CASE f.offset < f.valid
  <2>1. Delivered(f) = f
    BY <1>1, <1>3 DEF Delivered
  <2> QED BY <1>1, <1>3, <2>1 DEF SameAsked
<1> QED BY <1>1, <1>2, <1>3

Made(f) == IF f.offset # 1 THEN NextFragment(f)
           ELSE IF f.valid - 1 <= f.maxSize THEN WholeNal(f) ELSE FirstFragment(f)

LEMMA FragmentIsMade ==
  ASSUME NEW f
  PROVE  Fragment(f).frame = Made(f).frame /\ Fragment(f).next = Delivered(Made(f).next)
<1>1. ASSUME NEW f1
      PROVE  /\ \E a, b : NextFragment(f1) = [frame |-> a, next |-> b]
             /\ \E a, b : WholeNal(f1) = [frame |-> a, next |-> b]
             /\ \E a, b : FirstFragment(f1) = [frame |-> a, next |-> b]
  BY Zenon DEF NextFragment, WholeNal, FirstFragment
<1>2. \E a, b : Made(f) = [frame |-> a, next |-> b]
  BY <1>1 DEF Made
<1>3. Fragment(f) = [Made(f) EXCEPT !.next = Delivered(@)]
  BY Zenon DEF Fragment, Made
<1> HIDE DEF Made
<1> QED BY <1>2, <1>3

(* Whatever the buffer holds: a frame of the size asked for, at most.      *)
LEMMA FragmentParts ==
  ASSUME inputBufferSize \in Nat, NEW f \in Fragmenters, Ready(f), f.maxSize > 3
  PROVE  LET out == Fragment(f)
         IN  /\ out.frame \in Seq(Octets) /\ Len(out.frame) \in 1 .. f.maxSize
             /\ out.next \in Fragmenters /\ SameAsked(f, out.next) /\ Rests(out.next)
             /\ out.next.completed <=> out.next.valid = 1
<1> DEFINE out == Fragment(f)
           made == Made(f)
<1>1. out.frame = made.frame /\ out.next = Delivered(made.next)
  BY FragmentIsMade
<1>2. f.valid \in Nat /\ f.offset \in Nat /\ f.maxSize \in Nat /\ f.valid > 1
  BY DEF Fragmenters, Ready
<1>3. /\ made.frame \in Seq(Octets) /\ Len(made.frame) \in 1 .. f.maxSize
      /\ made.next \in Fragmenters /\ SameAsked(f, made.next) /\ made.next.valid = f.valid
      /\ made.next.offset > 3 \/ made.next.offset >= f.valid
      /\ made.next.completed <=> made.next.offset >= f.valid
  <2>1. CASE f.offset # 1
    <3> DEFINE left == 2 + f.valid - f.offset
               last == left <= f.maxSize
               n    == IF last THEN left ELSE f.maxSize
    <3>1. f.offset > 3 /\ f.offset < f.valid /\ made = NextFragment(f)
      BY <2>1 DEF Ready, Made
    <3>2. /\ made.frame \in Seq(Octets) /\ Len(made.frame) = n
          /\ made.next \in Fragmenters /\ SameAsked(f, made.next)
          /\ made.next.offset = f.offset + n - 2 /\ made.next.valid = f.valid
          /\ made.next.completed = last
      BY <3>1, NextParts
    <3> HIDE DEF made
    <3>3. n \in 1 .. f.maxSize /\ f.offset + n - 2 > 3
      BY <1>2, <3>1
    <3>4. last <=> f.offset + n - 2 >= f.valid
      BY <1>2, <3>1
    <3> QED BY <3>2, <3>3, <3>4
  <2>2. CASE f.offset = 1 /\ f.valid - 1 <= f.maxSize
    <3>1. made = WholeNal(f)
      BY <2>2 DEF Made
    <3>2. /\ made.frame \in Seq(Octets) /\ Len(made.frame) = f.valid - 1
          /\ made.next \in Fragmenters /\ SameAsked(f, made.next)
          /\ made.next.offset = f.valid /\ made.next.valid = f.valid /\ made.next.completed
      BY <3>1, WholeParts
    <3> HIDE DEF made
    <3> QED BY <1>2, <2>2, <3>2
  <2>3. CASE f.offset = 1 /\ ~(f.valid - 1 <= f.maxSize)
    <3>1. made = FirstFragment(f) /\ f.maxSize < f.valid - 1
      BY <1>2, <2>3 DEF Made
    <3>2. /\ made.frame \in Seq(Octets) /\ Len(made.frame) = f.maxSize
          /\ made.next \in Fragmenters /\ SameAsked(f, made.next)
          /\ made.next.offset = f.maxSize /\ made.next.valid = f.valid /\ ~made.next.completed
      BY <2>3, <3>1, FirstParts
    <3> HIDE DEF made
    <3> QED BY <1>2, <3>1, <3>2
  <2> QED BY <2>1, <2>2, <2>3
<1> HIDE DEF made
<1>4. /\ out.next \in Fragmenters /\ SameAsked(made.next, out.next)
      /\ out.next.completed = made.next.completed
      /\ made.next.offset >= made.next.valid => out.next.valid = 1 /\ out.next.offset = 1
      /\ made.next.offset < made.next.valid => out.next.valid = made.next.valid /\ out.next.offset = made.next.offset
  BY <1>1, <1>3, DeliveredParts
<1>5. made.next.offset \in Nat
  BY <1>3 DEF Fragmenters
<1> HIDE DEF out
<1>6. SameAsked(f, out.next)
  BY <1>3, <1>4 DEF SameAsked
<1>7. Rests(out.next) /\ (out.next.completed <=> out.next.valid = 1)
  BY <1>2, <1>3, <1>4, <1>5 DEF Rests
<1> QED BY <1>1, <1>3, <1>4, <1>6, <1>7 DEF out

-----------------------------------------------------------------------------
(* What the receiver makes of a frame.                                     *)

IsUnit(u) ==
  /\ u \in Seq(Octets) /\ Len(u) > 0
  /\ u[1] = Nal(u[1][2], u[1][3]) /\ u[1][3] \in 1 .. 23

LEMMA SkipWhole ==
  ASSUME NEW u, IsUnit(u)
  PROVE  SkipSpecialHeader(u) = u
<1>1. u \in Seq(Octets) /\ Len(u) \in Nat /\ u # <<>> /\ u[1] \in Octets /\ u[1][3] \in 1 .. 23
  BY DEF IsUnit
<1>2. u[1][2] \in Nat /\ u[1][3] \in Nat
  BY <1>1, OctetParts
<1>3. TypeOf(u[1]) = u[1][3]
  BY <1>2, NalParts DEF IsUnit
<1>4. PayloadTypeOf(u) = u[1][3]
  BY <1>1, <1>3 DEF PayloadTypeOf
<1> DEFINE t == PayloadTypeOf(u)
<1>t. t # 24 /\ t # 25 /\ t # 26 /\ t # 27 /\ t # 28 /\ t # 29
  <2>1. \A x \in 1 .. 23 : x # 24 /\ x # 25 /\ x # 26 /\ x # 27 /\ x # 28 /\ x # 29
    OBVIOUS
  <2> QED BY <1>1, <1>4, <2>1, Zenon
<1> HIDE DEF t
<1>5. ~Fragmented(u)
  BY <1>t, Zenon DEF Fragmented, FuA, t
<1>6. SpecialHeaderSize(u) = 0
  BY <1>5, <1>t, Zenon DEF SpecialHeaderSize, t
<1>7. SkipSpecialHeader(u) = SubSeq(u, 1, Len(u))
  BY <1>5, <1>6 DEF SkipSpecialHeader
<1> QED BY <1>1, <1>7

(* d is p without its first n, up to what the second becomes.              *)
LEMMA SkipFirst ==
  ASSUME NEW p \in Seq(Octets), Len(p) > 1, NEW a \in Nat, NEW t \in Nat,
         p[1] = Nal(a, FuA), p[2] = Fu(1, 0, t)
  PROVE  LET d == SkipSpecialHeader(p)
         IN  /\ d \in Seq(Octets) /\ Len(d) = Len(p) - 1 /\ d[1] = Nal(a, t)
             /\ \A i \in 2 .. Len(p) - 1 : d[i] = p[i + 1]
<1>1. Len(p) \in Nat /\ p # <<>> /\ 2 \in DOMAIN p
  OBVIOUS
<1>2. p[1][2] = a /\ TypeOf(p[1]) = 28
  BY NalParts DEF FuA
<1>3. p[2][2] = 1 /\ TypeOf(p[2]) = t
  BY DEF Fu, TypeOf
<1>4. PayloadTypeOf(p) = 28
  BY <1>1, <1>2 DEF PayloadTypeOf
<1>5. Fragmented(p) /\ StartBit(p)
  BY <1>3, <1>4 DEF Fragmented, StartBit, FuA
<1>6. SpecialHeaderSize(p) = 1
  BY <1>4, <1>5 DEF SpecialHeaderSize
<1> DEFINE q == [p EXCEPT ![2] = Nal(a, t)]
<1>7. [p EXCEPT ![2] = Nal(p[1][2], TypeOf(@))] = q
  BY <1>2, <1>3, Zenon
<1>8. q \in Seq(Octets) /\ Len(q) = Len(p) /\ q[2] = Nal(a, t) /\ \A i \in 3 .. Len(p) : q[i] = p[i]
  BY <1>1, NalParts
<1>9. SkipSpecialHeader(p) = SubSeq(q, 2, Len(p))
  BY <1>5, <1>6, <1>7 DEF SkipSpecialHeader
<1> HIDE DEF q
<1>10. /\ SubSeq(q, 2, Len(p)) \in Seq(Octets) /\ Len(SubSeq(q, 2, Len(p))) = Len(p) - 1
       /\ \A i \in 1 .. Len(p) - 1 : SubSeq(q, 2, Len(p))[i] = q[i + 1]
  BY <1>1, <1>8
<1>11. 1 \in 1 .. Len(p) - 1 /\ \A i \in 2 .. Len(p) - 1 : i \in 1 .. Len(p) - 1 /\ i + 1 \in 3 .. Len(p)
  BY <1>1
<1> QED BY <1>8, <1>9, <1>10, <1>11

LEMMA SkipNext ==
  ASSUME NEW p \in Seq(Octets), Len(p) > 1, NEW a \in Nat, NEW e \in Nat, NEW t \in Nat,
         p[1] = Nal(a, FuA), p[2] = Fu(0, e, t)
  PROVE  LET d == SkipSpecialHeader(p)
         IN  /\ d \in Seq(Octets) /\ Len(d) = Len(p) - 2
             /\ \A i \in 1 .. Len(p) - 2 : d[i] = p[i + 2]
<1>1. Len(p) \in Nat /\ p # <<>>
  OBVIOUS
<1>2. TypeOf(p[1]) = 28
  BY NalParts DEF FuA
<1>3. p[2][2] = 0
  BY DEF Fu
<1>4. PayloadTypeOf(p) = 28
  BY <1>1, <1>2 DEF PayloadTypeOf
<1>5. Fragmented(p) /\ ~StartBit(p)
  BY <1>3, <1>4 DEF Fragmented, StartBit, FuA
<1>6. SpecialHeaderSize(p) = 2
  BY <1>4, <1>5 DEF SpecialHeaderSize
<1>7. SkipSpecialHeader(p) = SubSeq(p, 3, Len(p))
  BY <1>5, <1>6 DEF SkipSpecialHeader
<1> DEFINE m == 3
<1>8. m \in 1 .. Len(p) + 1 /\ Len(p) \in m - 1 .. Len(p) /\ Len(p) - m + 1 = Len(p) - 2
      /\ \A i \in 1 .. Len(p) - 2 : m + i - 1 = i + 2
  BY <1>1
<1> HIDE DEF m
<1>9. /\ SubSeq(p, m, Len(p)) \in Seq(Octets) /\ Len(SubSeq(p, m, Len(p))) = Len(p) - m + 1
      /\ \A i \in 1 .. Len(p) - m + 1 : SubSeq(p, m, Len(p))[i] = p[m + i - 1]
  BY <1>1, <1>8, SubSeqProperties
<1>10. SkipSpecialHeader(p) = SubSeq(p, m, Len(p))
  BY <1>7 DEF m
<1> QED BY <1>8, <1>9, <1>10

-----------------------------------------------------------------------------
(* A unit in the fragmenter's buffer: its header, once it was overwritten, *)
(* is known from the two bytes before the data.                            *)
Holds(f, u) ==
  /\ Len(u) = f.valid - 1
  /\ \A j \in f.offset .. f.valid - 1 : f.buffer[j] = u[j]
  /\ f.offset # 1 => /\ f.buffer[0] = Nal(u[1][2], FuA)
                     /\ f.buffer[1] = Fu(1, 0, u[1][3])

(* The bytes d of the unit u that go from f to g: one at least.            *)
Piece(f, g, u, d) ==
  /\ d \in Seq(Octets) /\ Len(d) > 0
  /\ \A i \in 1 .. Len(d) : d[i] = u[f.offset - 1 + i]
  /\ g.valid = 1 => Len(d) = Len(u) - (f.offset - 1)
  /\ g.valid # 1 => Len(d) = g.offset - f.offset /\ Holds(g, u)

LEMMA WholeOfUnit ==
  ASSUME inputBufferSize \in Nat, NEW f \in Fragmenters, f.offset = 1, f.valid > 1,
         NEW u, IsUnit(u), Holds(f, u)
  PROVE  Piece(f, Delivered(WholeNal(f).next), u, SkipSpecialHeader(WholeNal(f).frame))
<1> DEFINE p == WholeNal(f).frame
           h == WholeNal(f).next
<1>1. /\ p \in Seq(Octets) /\ Len(p) = f.valid - 1 /\ \A i \in 1 .. f.valid - 1 : p[i] = f.buffer[i]
      /\ h \in Fragmenters /\ h.offset = f.valid /\ h.valid = f.valid
  BY WholeParts
<1> HIDE DEF p, h
<1>2. f.valid \in Nat /\ u \in Seq(Octets)
  BY DEF Fragmenters, IsUnit
<1>3. p = u
  BY <1>1, <1>2 DEF Holds
<1>4. SkipSpecialHeader(p) = u
  BY <1>3, SkipWhole
<1>5. Delivered(h).valid = 1
  BY <1>1, <1>2, DeliveredParts
<1>6. Len(u) \in Nat /\ Len(u) - (1 - 1) = Len(u) /\ \A i \in 1 .. Len(u) : 1 - 1 + i = i
  BY <1>2
<1>7. Len(u) > 0
  BY DEF IsUnit
<1> QED BY <1>2, <1>4, <1>5, <1>6, <1>7 DEF Piece, p, h

LEMMA FirstOfUnit ==
  ASSUME inputBufferSize \in Nat, NEW f \in Fragmenters, f.offset = 1, f.maxSize > 3,
         f.maxSize < f.valid - 1, NEW u, IsUnit(u), Holds(f, u)
  PROVE  Piece(f, Delivered(FirstFragment(f).next), u, SkipSpecialHeader(FirstFragment(f).frame))
<1> DEFINE p == FirstFragment(f).frame
           h == FirstFragment(f).next
           a == u[1][2]
           t == u[1][3]
           n == f.maxSize
<1>1. f.valid \in Nat /\ n \in Nat /\ u \in Seq(Octets) /\ Len(u) = f.valid - 1 /\ n > 3 /\ n < f.valid - 1
  BY DEF Fragmenters, IsUnit, Holds
<1>2. f.buffer[1] = u[1] /\ u[1] = Nal(a, t) /\ u[1] \in Octets
  BY <1>1 DEF Holds, IsUnit
<1>3. a \in Nat /\ t \in Nat /\ TypeOf(u[1]) = t
  <2>1. a \in Nat /\ t \in Nat
    BY <1>2, OctetParts
  <2> QED BY <1>2, <2>1, NalParts
<1>4. /\ p \in Seq(Octets) /\ Len(p) = n
      /\ p[1] = Nal(f.buffer[1][2], FuA) /\ p[2] = Fu(1, 0, TypeOf(f.buffer[1]))
      /\ \A i \in 3 .. n : p[i] = f.buffer[i - 1]
      /\ h \in Fragmenters /\ h.offset = n /\ h.valid = f.valid
      /\ h.buffer[0] = Nal(f.buffer[1][2], FuA) /\ h.buffer[1] = Fu(1, 0, TypeOf(f.buffer[1]))
      /\ \A i \in 2 .. f.valid - 1 : h.buffer[i] = f.buffer[i]
  BY FirstParts
<1> HIDE DEF p, h
<1>5. p[1] = Nal(a, FuA) /\ p[2] = Fu(1, 0, t) /\ h.buffer[0] = Nal(a, FuA) /\ h.buffer[1] = Fu(1, 0, t)
  BY <1>2, <1>3, <1>4
<1> HIDE DEF a, t, n
<1> DEFINE d == SkipSpecialHeader(p)
<1>6. /\ d \in Seq(Octets) /\ Len(d) = Len(p) - 1 /\ d[1] = Nal(a, t)
      /\ \A i \in 2 .. Len(p) - 1 : d[i] = p[i + 1]
  <2>1. Len(p) > 1 /\ p \in Seq(Octets)
    BY <1>1, <1>4
  <2> QED BY <1>3, <1>5, <2>1, SkipFirst
<1> HIDE DEF d
<1>7. ASSUME NEW i \in 1 .. Len(d)
      PROVE  d[i] = u[f.offset - 1 + i]
  <2>1. f.offset - 1 + i = i /\ i \in 1 .. n - 1
    BY <1>1, <1>4, <1>6
  <2>2. CASE i = 1
    BY <1>2, <1>6, <2>1, <2>2
  <2>3. CASE i # 1
    <3>1. i \in 2 .. Len(p) - 1 /\ i + 1 \in 3 .. n /\ i + 1 - 1 = i /\ i \in 1 .. f.valid - 1
      BY <1>1, <1>4, <2>1, <2>3
    <3>2. d[i] = f.buffer[i + 1 - 1]
      BY <1>4, <1>6, <3>1
    <3>3. f.buffer[i] = u[i]
      BY <3>1 DEF Holds
    <3> QED BY <2>1, <3>1, <3>2, <3>3
  <2> QED BY <2>2, <2>3
<1> DEFINE g == Delivered(h)
<1>8. g.buffer = h.buffer /\ g.valid = f.valid /\ g.offset = n /\ g.valid # 1
  <2>1. h.offset < h.valid /\ h \in Fragmenters
    BY <1>1, <1>4
  <2>2. g.buffer = h.buffer /\ g.valid = h.valid /\ g.offset = h.offset
    BY <2>1, DeliveredParts
  <2> QED BY <1>1, <1>4, <2>2
<1> HIDE DEF g
<1>9. Holds(g, u)
  <2>1. ASSUME NEW j \in g.offset .. g.valid - 1
        PROVE  g.buffer[j] = u[j]
    <3>1. j \in 2 .. f.valid - 1 /\ j \in f.offset .. f.valid - 1
      BY <1>1, <1>8
    <3> QED BY <1>4, <1>8, <3>1 DEF Holds
  <2> QED BY <1>1, <1>5, <1>8, <2>1 DEF Holds, a, t
<1>10. Len(d) = g.offset - f.offset /\ Len(d) > 0
  BY <1>1, <1>4, <1>6, <1>8
<1> QED BY <1>6, <1>7, <1>8, <1>9, <1>10 DEF Piece, d, g, h, p

LEMMA NextOfUnit ==
  ASSUME inputBufferSize \in Nat, NEW f \in Fragmenters, f.offset > 3, f.offset < f.valid,
         f.maxSize > 3, NEW u, IsUnit(u), Holds(f, u)
  PROVE  Piece(f, Delivered(NextFragment(f).next), u, SkipSpecialHeader(NextFragment(f).frame))
<1> DEFINE p == NextFragment(f).frame
           h == NextFragment(f).next
           a == u[1][2]
           t == u[1][3]
           o == f.offset
           left == 2 + f.valid - o
           last == left <= f.maxSize
           n == IF last THEN left ELSE f.maxSize
           e == IF last THEN 1 ELSE f.buffer[1][3]
<1>1. /\ f.valid \in Nat /\ f.maxSize \in Nat /\ o \in Nat /\ o > 3 /\ o < f.valid /\ f.maxSize > 3
      /\ u \in Seq(Octets) /\ Len(u) = f.valid - 1
  BY DEF Fragmenters, IsUnit, Holds
<1>2. u[1] \in Octets /\ f.buffer[0] = Nal(a, FuA) /\ f.buffer[1] = Fu(1, 0, t)
  BY <1>1 DEF Holds
<1>3. a \in Nat /\ t \in Nat
  BY <1>2, OctetParts
<1>4. f.buffer[1][3] = 0 /\ f.buffer[1][4] = t
  BY <1>2 DEF Fu
<1>5. e \in Nat
  BY <1>4
<1>6. /\ p \in Seq(Octets) /\ Len(p) = n
      /\ p[1] = f.buffer[0] /\ p[2] = Fu(0, e, f.buffer[1][4])
      /\ \A i \in 3 .. n : p[i] = f.buffer[o - 3 + i]
      /\ h \in Fragmenters /\ h.offset = o + n - 2 /\ h.valid = f.valid
      /\ h.buffer[0] = f.buffer[0] /\ h.buffer[1] = f.buffer[1]
      /\ \A i \in o .. f.valid - 1 : h.buffer[i] = f.buffer[i]
  BY NextParts
<1> HIDE DEF p, h, e
<1>7. p[1] = Nal(a, FuA) /\ p[2] = Fu(0, e, t)
  BY <1>2, <1>4, <1>6
<1> HIDE DEF a, t
<1>8. /\ n \in Nat /\ n > 2 /\ n <= left /\ left = 2 + f.valid - o
      /\ last => n = left
      /\ ~last => n < left
  BY <1>1
<1> HIDE DEF n, left, o
<1> DEFINE d == SkipSpecialHeader(p)
<1>9. /\ d \in Seq(Octets) /\ Len(d) = Len(p) - 2 /\ \A i \in 1 .. Len(p) - 2 : d[i] = p[i + 2]
  BY <1>3, <1>5, <1>6, <1>7, <1>8, SkipNext
<1> HIDE DEF d
<1>p. Len(d) > 0
  BY <1>6, <1>8, <1>9
<1>10. ASSUME NEW i \in 1 .. Len(d)
       PROVE  d[i] = u[o - 1 + i]
  <2>1. i \in 1 .. n - 2 /\ Len(p) = n
    BY <1>6, <1>9
  <2>2. /\ i \in 1 .. Len(p) - 2 /\ i + 2 \in 3 .. n /\ o - 3 + (i + 2) = o - 1 + i
        /\ o - 1 + i \in o .. f.valid - 1
    BY <1>1, <1>8, <2>1
  <2>3. d[i] = f.buffer[o - 3 + (i + 2)]
    BY <1>6, <1>9, <2>2
  <2>4. f.buffer[o - 1 + i] = u[o - 1 + i]
    BY <2>2 DEF Holds, o
  <2> QED BY <2>2, <2>3, <2>4
<1> DEFINE g == Delivered(h)
<1>11. /\ h.offset >= h.valid => g.valid = 1
       /\ h.offset < h.valid => g.valid = h.valid /\ g.offset = h.offset
       /\ g.buffer = h.buffer
  BY <1>6, DeliveredParts
<1> HIDE DEF g
<1>12. CASE last
  <2>1. g.valid = 1
    BY <1>1, <1>6, <1>8, <1>11, <1>12
  <2>2. Len(d) = Len(u) - (o - 1)
    BY <1>1, <1>6, <1>8, <1>9, <1>12
  <2> QED BY <1>9, <1>p, <1>10, <2>1, <2>2 DEF Piece, d, g, h, p, o
<1>13. CASE ~last
  <2>1. h.offset < h.valid
    BY <1>1, <1>6, <1>8, <1>13
  <2>2. g.valid = f.valid /\ g.offset = o + n - 2 /\ g.valid # 1 /\ g.offset # 1
    BY <1>1, <1>6, <1>8, <1>11, <2>1
  <2>3. Len(d) = g.offset - o
    BY <1>1, <1>6, <1>8, <1>9, <2>2
  <2>4. ASSUME NEW j \in g.offset .. g.valid - 1
        PROVE  g.buffer[j] = u[j]
    <3>1. j \in o .. f.valid - 1
      BY <1>1, <1>8, <2>2
    <3> QED BY <1>6, <1>11, <3>1 DEF Holds, o
  <2>5. Holds(g, u)
    BY <1>1, <1>2, <1>6, <1>11, <2>2, <2>4 DEF Holds, a, t
  <2> QED BY <1>9, <1>p, <1>10, <2>2, <2>3, <2>5 DEF Piece, d, g, h, p, o
<1> QED BY <1>12, <1>13

(* The receiver's rules make of the next frame the next bytes of the unit. *)
LEMMA FragmentOfUnit ==
  ASSUME inputBufferSize \in Nat, NEW f \in Fragmenters, Ready(f), f.maxSize > 3,
         NEW u, IsUnit(u), Holds(f, u)
  PROVE  Piece(f, Fragment(f).next, u, SkipSpecialHeader(Fragment(f).frame))
<1>1. Fragment(f).frame = Made(f).frame /\ Fragment(f).next = Delivered(Made(f).next)
  BY FragmentIsMade
<1>2. CASE f.offset # 1
  <2>1. Made(f) = NextFragment(f) /\ f.offset > 3 /\ f.offset < f.valid
    BY <1>2 DEF Made, Ready
  <2> QED BY <1>1, <2>1, NextOfUnit
<1>3. CASE f.offset = 1 /\ f.valid - 1 <= f.maxSize
  <2>1. Made(f) = WholeNal(f) /\ f.valid > 1
    BY <1>3 DEF Made, Ready
  <2> QED BY <1>1, <1>3, <2>1, WholeOfUnit
<1>4. CASE f.offset = 1 /\ ~(f.valid - 1 <= f.maxSize)
  <2>1. f.valid \in Nat /\ f.maxSize \in Nat
    BY DEF Fragmenters
  <2>2. Made(f) = FirstFragment(f) /\ f.maxSize < f.valid - 1
    BY <1>4, <2>1 DEF Made
  <2> QED BY <1>1, <1>4, <2>2, FirstOfUnit
<1> QED BY <1>2, <1>3, <1>4

-----------------------------------------------------------------------------
(* The output buffer.                                                      *)

Buffers(limit) ==
  [buff : [0 .. limit - 1 -> Octets], limit : {limit}, start : Nat, offset : Nat,
   overflowOffset : Nat, overflowSize : Nat]

IsOutBuffer(b) ==
  /\ b.limit \in Nat /\ b.limit >= 2 * MaxPacketSize
  /\ b \in Buffers(b.limit)

LEMMA NewBuffer ==
  ASSUME NEW m \in MaxSizes
  PROVE  LET b == NewOutPacketBuffer(m)
         IN  IsOutBuffer(b) /\ b.start = 0 /\ b.offset = 0 /\ b.overflowSize = 0
<1> DEFINE P == MaxPacketSize
           q == (m + P - 1) \div P
           b == NewOutPacketBuffer(m)
<1>1. m \in Nat /\ P \in Nat /\ P > 9 /\ m > P
  BY SenderAssumption DEF RtpHeaderSize
<1>2. q \in Nat /\ q >= 2
  <2>1. m + P - 1 >= 2 * P /\ m + P - 1 \in Nat
    BY <1>1
  <2> DEFINE a == m + P - 1
             r == a % P
  <2>2. a \in Nat /\ a >= 2 * P
    BY <2>1
  <2> HIDE DEF a, P
  <2>3. a \div P \in Int /\ r \in 0 .. P - 1 /\ a = P * (a \div P) + r
    BY <1>1, <2>2
  <2> DEFINE d == a \div P
  <2>4. d \in Int /\ a = P * d + r /\ q = d
    BY <2>3 DEF a, P
  <2> HIDE DEF d, q
  <2>5. d >= 2
    <3> SUFFICES ASSUME d <= 1 PROVE FALSE
      BY <2>4
    <3>1. P * d <= P * 1
      BY <1>1, <2>4
    <3> QED BY <1>1, <2>2, <2>3, <2>4, <3>1
  <2> QED BY <2>4, <2>5
<1> HIDE DEF q
<1>3. q * P \in Nat /\ q * P >= 2 * P
  BY <1>1, <1>2
<1> DEFINE limit == q * P
           c == [buff |-> [i \in 0 .. limit - 1 |-> Zero], limit |-> limit,
                 start |-> 0, offset |-> 0, overflowOffset |-> 0, overflowSize |-> 0]
<1>4. b = c
  BY DEF NewOutPacketBuffer, q
<1> HIDE DEF limit, P, b
<1>5. limit \in Nat /\ limit >= 2 * P
  BY <1>3 DEF limit
<1>6. [i \in 0 .. limit - 1 |-> Zero] \in [0 .. limit - 1 -> Octets]
  BY OtherOctets
<1>7. IsOutBuffer(c) /\ c.start = 0 /\ c.offset = 0 /\ c.overflowSize = 0
  <2>1. c.limit = limit /\ c \in Buffers(limit)
    BY <1>5, <1>6 DEF Buffers
  <2>2. c.start = 0 /\ c.offset = 0 /\ c.overflowSize = 0
    OBVIOUS
  <2> HIDE DEF c
  <2> QED BY <1>5, <2>1, <2>2 DEF IsOutBuffer, P
<1> QED BY <1>4, <1>7 DEF b

LEMMA OutFields ==
  ASSUME NEW b, IsOutBuffer(b)
  PROVE  /\ b.limit \in Nat /\ b.start \in Nat /\ b.offset \in Nat
         /\ b.overflowOffset \in Nat /\ b.overflowSize \in Nat
         /\ b.buff \in [0 .. b.limit - 1 -> Octets]
         /\ b.limit >= 2 * MaxPacketSize
  BY DEF IsOutBuffer, Buffers

(* What does not say where data lies does not move it.                     *)
LEMMA CopyTyped ==
  ASSUME NEW D, NEW b \in [D -> Octets], NEW i, NEW s, NEW n, \A k \in DOMAIN s : s[k] \in Octets
  PROVE  Copy(b, i, s, n) \in [D -> Octets]
<1>1. DOMAIN b = D
  OBVIOUS
<1> QED BY <1>1 DEF Copy

(* Cells behind the offset, where there is room for n.                     *)
LEMMA EnqueueParts ==
  ASSUME NEW b, IsOutBuffer(b), NEW s, \A k \in DOMAIN s : s[k] \in Octets, NEW n \in Nat,
         b.start + b.offset + n <= b.limit
  PROVE  LET e == Enqueue(b, s, n)
         IN  /\ IsOutBuffer(e) /\ e.offset = b.offset + n /\ e.start = b.start /\ e.limit = b.limit
             /\ e.overflowOffset = b.overflowOffset /\ e.overflowSize = b.overflowSize
             /\ e.buff = Copy(b.buff, b.start + b.offset, s, Len(s))
<1> DEFINE c == Copy(b.buff, b.start + b.offset, s, Len(s))
           e == [b EXCEPT !.buff = c, !.offset = @ + n]
<1>1. /\ b.limit \in Nat /\ b.start \in Nat /\ b.offset \in Nat
      /\ b.buff \in [0 .. b.limit - 1 -> Octets]
  BY OutFields
<1>2. ~(n > BytesAvailable(b))
  BY <1>1 DEF BytesAvailable
<1>3. Enqueue(b, s, n) = e
  BY <1>2 DEF Enqueue
<1>4. c \in [0 .. b.limit - 1 -> Octets]
  BY <1>1, CopyTyped
<1> HIDE DEF c
<1>5. /\ IsOutBuffer(e) /\ e.offset = b.offset + n /\ e.start = b.start /\ e.limit = b.limit
      /\ e.overflowOffset = b.overflowOffset /\ e.overflowSize = b.overflowSize
      /\ e.buff = c
  <2> DEFINE limit == b.limit
             S == [0 .. limit - 1 -> Octets]
  <2>1. /\ b \in [buff : S, limit : {limit}, start : Nat, offset : Nat,
                  overflowOffset : Nat, overflowSize : Nat]
        /\ c \in S /\ b.offset + n \in Nat
    BY <1>1, <1>4 DEF IsOutBuffer, Buffers
  <2> HIDE DEF S, limit
  <2>2. /\ e \in [buff : S, limit : {limit}, start : Nat, offset : Nat,
                  overflowOffset : Nat, overflowSize : Nat]
        /\ e.offset = b.offset + n /\ e.start = b.start /\ e.limit = b.limit
        /\ e.overflowOffset = b.overflowOffset /\ e.overflowSize = b.overflowSize
        /\ e.buff = c
    BY <2>1
  <2> HIDE DEF e
  <2> QED BY <2>2 DEF IsOutBuffer, Buffers, S, limit
<1> QED BY <1>3, <1>5 DEF c

(* One cell behind the offset.                                             *)
LEMMA EnqueueCell ==
  ASSUME NEW b, IsOutBuffer(b), NEW c \in Octets, b.start + b.offset + 1 <= b.limit
  PROVE  LET e == Enqueue(b, <<c>>, 1)
         IN  /\ IsOutBuffer(e) /\ e.offset = b.offset + 1 /\ e.start = b.start /\ e.limit = b.limit
             /\ e.overflowOffset = b.overflowOffset /\ e.overflowSize = b.overflowSize
             /\ e.buff[b.start + b.offset] = c
             /\ \A k \in 0 .. b.limit - 1 : k # b.start + b.offset => e.buff[k] = b.buff[k]
<1> DEFINE s == <<c>>
           i == b.start + b.offset
           n == 1
           D == 0 .. b.limit - 1
<1>1. s \in Seq(Octets) /\ Len(s) = 1 /\ s[1] = c /\ \A k \in DOMAIN s : s[k] \in Octets
  OBVIOUS
<1>2. b.limit \in Nat /\ b.start \in Nat /\ b.offset \in Nat /\ i \in Nat /\ i \in D
  BY OutFields
<1>3. n \in Nat /\ b.start + b.offset + n <= b.limit /\ n <= Len(s) /\ n = 1
  BY <1>1
<1>4. b.buff \in [D -> Octets] /\ D \subseteq Int
  BY OutFields
<1> HIDE DEF s, n, D
<1> DEFINE e == Enqueue(b, s, n)
<1>5. /\ IsOutBuffer(e) /\ e.offset = b.offset + n /\ e.start = b.start /\ e.limit = b.limit
      /\ e.overflowOffset = b.overflowOffset /\ e.overflowSize = b.overflowSize
      /\ e.buff = Copy(b.buff, i, s, n)
  <2>1. n = Len(s)
    BY <1>1, <1>3
  <2>2. /\ IsOutBuffer(e) /\ e.offset = b.offset + n /\ e.start = b.start /\ e.limit = b.limit
        /\ e.overflowOffset = b.overflowOffset /\ e.overflowSize = b.overflowSize
        /\ e.buff = Copy(b.buff, b.start + b.offset, s, Len(s))
    <3>1. n \in Nat /\ b.start + b.offset + n <= b.limit
      BY <1>3
    <3>2. \A k \in DOMAIN s : s[k] \in Octets
      BY <1>1
    <3> QED BY <3>1, <3>2, EnqueueParts
  <2> QED BY <2>1, <2>2, Zenon DEF i
<1> HIDE DEF i, e
<1>6. \A k \in D : Copy(b.buff, i, s, n)[k] = IF k \in i .. i + n - 1 THEN s[k - i + 1] ELSE b.buff[k]
  <2>1. IsCopy(D, b.buff, i, s, n, Copy(b.buff, i, s, n))
    BY <1>1, <1>2, <1>3, <1>4, CopyParts
  <2> QED BY <2>1 DEF IsCopy
<1>7. i \in i .. i + n - 1 /\ i - i + 1 = 1 /\ \A k \in D : k # i => k \notin i .. i + n - 1
  BY <1>2, <1>3, <1>4
<1>8. e.buff[i] = c /\ \A k \in D : k # i => e.buff[k] = b.buff[k]
  BY <1>1, <1>2, <1>5, <1>6, <1>7
<1> QED BY <1>3, <1>5, <1>8 DEF e, i, s, n, D

(* A header, one cell of which is skipped.                                 *)
Word == Hdr(PayloadType + seqNo \div SeqSpace, seqNo % SeqSpace, 0)

LEMMA WordParts ==
  ASSUME seqNo \in Nat
  PROVE  Word \in Octets /\ Word[3] = seqNo % SeqSpace /\ Word[4] = 0
<1>1. /\ PayloadType \in Nat /\ SeqSpace \in Nat /\ SeqSpace > 0
      /\ seqNo \div SeqSpace \in Nat /\ seqNo % SeqSpace \in Nat
  BY SenderAssumption, SeqSpaceAssumption
<1> DEFINE k == PayloadType + seqNo \div SeqSpace
           j == seqNo % SeqSpace
           m == 0
<1>2. k \in Nat /\ j \in Nat /\ m \in Nat
  BY <1>1
<1> HIDE DEF k, j, m
<1>3. Hdr(k, j, m) \in Octets /\ Hdr(k, j, m)[3] = j /\ Hdr(k, j, m)[4] = m
  BY <1>2, OtherOctets
<1> QED BY <1>3 DEF Word, k, j, m

LEMMA HeaderParts ==
  ASSUME NEW b, IsOutBuffer(b), seqNo \in Nat, b.start + b.offset + 3 <= b.limit
  PROVE  LET h == WithHeader(b)
         IN  /\ IsOutBuffer(h) /\ h.offset = b.offset + 3 /\ h.start = b.start /\ h.limit = b.limit
             /\ h.overflowOffset = b.overflowOffset /\ h.overflowSize = b.overflowSize
             /\ h.buff[b.start + b.offset] = Word
             /\ \A k \in 0 .. b.start + b.offset - 1 : h.buff[k] = b.buff[k]
<1> DEFINE i == b.start + b.offset
           e == Enqueue(b, <<Word>>, 1)
           s == [e EXCEPT !.offset = @ + 1]
           one == 1
           h == Enqueue(s, <<Ssrc(one)>>, 1)
<1>1. b.limit \in Nat /\ b.start \in Nat /\ b.offset \in Nat /\ i \in Nat
  BY OutFields
<1>2. Word \in Octets
  BY WordParts
<1>3. b.start + b.offset + 1 <= b.limit
  BY <1>1
<1>4. /\ IsOutBuffer(e) /\ e.offset = b.offset + 1 /\ e.start = b.start /\ e.limit = b.limit
      /\ e.overflowOffset = b.overflowOffset /\ e.overflowSize = b.overflowSize
      /\ e.buff[i] = Word
      /\ \A k \in 0 .. b.limit - 1 : k # i => e.buff[k] = b.buff[k]
  BY <1>2, <1>3, EnqueueCell
<1> HIDE DEF e
<1>5. /\ IsOutBuffer(s) /\ s.offset = b.offset + 2 /\ s.start = b.start /\ s.limit = b.limit
      /\ s.overflowOffset = b.overflowOffset /\ s.overflowSize = b.overflowSize
      /\ s.buff = e.buff
  <2>1. e.offset + 1 \in Nat /\ e.offset + 1 = b.offset + 2 /\ e.offset \in Nat
    BY <1>1, <1>4
  <2>2. IsOutBuffer(s) /\ s.offset = e.offset + 1 /\ s.start = e.start /\ s.limit = e.limit
        /\ s.overflowOffset = e.overflowOffset /\ s.overflowSize = e.overflowSize
        /\ s.buff = e.buff
    BY <1>4, <2>1 DEF IsOutBuffer, Buffers
  <2> HIDE DEF s
  <2> QED BY <1>4, <2>1, <2>2
<1>6. one \in Nat
  OBVIOUS
<1> HIDE DEF s, one
<1>7. Ssrc(one) \in Octets
  BY <1>6, OtherOctets
<1>8. s.start + s.offset + 1 <= s.limit /\ s.start + s.offset = i + 2
  BY <1>1, <1>5
<1>9. /\ IsOutBuffer(h) /\ h.offset = s.offset + 1 /\ h.start = s.start /\ h.limit = s.limit
      /\ h.overflowOffset = s.overflowOffset /\ h.overflowSize = s.overflowSize
      /\ \A k \in 0 .. s.limit - 1 : k # s.start + s.offset => h.buff[k] = s.buff[k]
  BY <1>5, <1>7, <1>8, EnqueueCell
<1>10. WithHeader(b) = h
  BY DEF WithHeader, Word, h, s, e, one
<1> HIDE DEF h
<1>11. ASSUME NEW k \in 0 .. i - 1
       PROVE  h.buff[k] = b.buff[k]
  <2>1. k \in 0 .. b.limit - 1 /\ k # i /\ k # i + 2
    BY <1>1
  <2> QED BY <1>4, <1>5, <1>8, <1>9, <2>1
<1>12. h.buff[i] = Word
  <2>1. i \in 0 .. b.limit - 1 /\ i # i + 2
    BY <1>1
  <2> QED BY <1>4, <1>5, <1>8, <1>9, <2>1
<1>13. h.offset = b.offset + 3
  BY <1>1, <1>5, <1>9
<1> HIDE DEF i
<1>14. /\ IsOutBuffer(h) /\ h.start = b.start /\ h.limit = b.limit
       /\ h.overflowOffset = b.overflowOffset /\ h.overflowSize = b.overflowSize
  BY <1>5, <1>9
<1>15. h.buff[b.start + b.offset] = Word
  BY <1>12, Zenon DEF i
<1>16. ASSUME NEW k \in 0 .. b.start + b.offset - 1
       PROVE  h.buff[k] = b.buff[k]
  <2>1. k \in 0 .. i - 1
    BY <1>1 DEF i
  <2> QED BY <1>11, <2>1
<1> QED BY <1>10, <1>13, <1>14, <1>15, <1>16, Zenon

(* A buffer with other contents, or with other marks.                      *)
LEMMA Filled ==
  ASSUME NEW b, IsOutBuffer(b), NEW c \in [0 .. b.limit - 1 -> Octets]
  PROVE  LET e == [b EXCEPT !.buff = c]
         IN  /\ IsOutBuffer(e) /\ e.start = b.start /\ e.offset = b.offset /\ e.limit = b.limit
             /\ e.overflowOffset = b.overflowOffset /\ e.overflowSize = b.overflowSize
             /\ e.buff = c
<1> DEFINE limit == b.limit
           S == [0 .. limit - 1 -> Octets]
           e == [b EXCEPT !.buff = c]
<1>1. /\ b \in [buff : S, limit : {limit}, start : Nat, offset : Nat,
                overflowOffset : Nat, overflowSize : Nat]
      /\ c \in S
  BY DEF IsOutBuffer, Buffers
<1> HIDE DEF S, limit
<1>2. /\ e \in [buff : S, limit : {limit}, start : Nat, offset : Nat,
                overflowOffset : Nat, overflowSize : Nat]
      /\ e.start = b.start /\ e.offset = b.offset /\ e.limit = b.limit
      /\ e.overflowOffset = b.overflowOffset /\ e.overflowSize = b.overflowSize
      /\ e.buff = c
  BY <1>1
<1> HIDE DEF e
<1>3. e.limit = limit /\ limit \in Nat /\ limit >= 2 * MaxPacketSize
  BY <1>1, <1>2 DEF limit, IsOutBuffer
<1> QED BY <1>2, <1>3 DEF IsOutBuffer, Buffers, S, e

Marked(b, start, offset, overflowOffset, overflowSize) ==
  [b EXCEPT !.start = start, !.offset = offset, !.overflowOffset = overflowOffset,
            !.overflowSize = overflowSize]

IsMarked(b, s, o, p, q, e) ==
  /\ IsOutBuffer(e) /\ e.start = s /\ e.offset = o /\ e.limit = b.limit
  /\ e.overflowOffset = p /\ e.overflowSize = q /\ e.buff = b.buff

LEMMA MarkedParts ==
  ASSUME NEW b, IsOutBuffer(b), NEW s \in Nat, NEW o \in Nat, NEW p \in Nat, NEW q \in Nat
  PROVE  IsMarked(b, s, o, p, q, Marked(b, s, o, p, q))
<1> DEFINE limit == b.limit
           S == [0 .. limit - 1 -> Octets]
           e == Marked(b, s, o, p, q)
<1>1. /\ b \in [buff : S, limit : {limit}, start : Nat, offset : Nat,
                overflowOffset : Nat, overflowSize : Nat]
  BY DEF IsOutBuffer, Buffers
<1> HIDE DEF S, limit
<1>2. /\ e \in [buff : S, limit : {limit}, start : Nat, offset : Nat,
                overflowOffset : Nat, overflowSize : Nat]
      /\ e.start = s /\ e.offset = o /\ e.limit = b.limit
      /\ e.overflowOffset = p /\ e.overflowSize = q /\ e.buff = b.buff
  BY <1>1 DEF Marked
<1> HIDE DEF e
<1>3. e.limit = limit /\ limit \in Nat /\ limit >= 2 * MaxPacketSize
  BY <1>1, <1>2 DEF limit, IsOutBuffer
<1> QED BY <1>2, <1>3 DEF IsOutBuffer, Buffers, S, e, IsMarked

LEMMA OffsetParts ==
  ASSUME NEW b, IsOutBuffer(b), NEW m, m \in Nat
  PROVE  LET e == [b EXCEPT !.offset = m]
         IN  /\ IsOutBuffer(e) /\ e.start = b.start /\ e.offset = m /\ e.limit = b.limit
             /\ e.overflowSize = b.overflowSize /\ e.buff = b.buff
<1> DEFINE s == b.start
           p == b.overflowOffset
           q == b.overflowSize
           e == Marked(b, s, m, p, q)
<1>1. s \in Nat /\ p \in Nat /\ q \in Nat
  BY OutFields
<1>2. [b EXCEPT !.offset = m] = e
  BY DEF IsOutBuffer, Buffers, Marked
<1> HIDE DEF s, p, q
<1>3. IsOutBuffer(e) /\ e.start = s /\ e.offset = m /\ e.limit = b.limit /\ e.overflowSize = q /\ e.buff = b.buff
  <2>1. IsMarked(b, s, m, p, q, e)
    BY <1>1, MarkedParts
  <2> HIDE DEF e
  <2> QED BY <2>1 DEF IsMarked
<1> QED BY <1>2, <1>3 DEF s, q

LEMMA InsertParts ==
  ASSUME NEW b, IsOutBuffer(b), b.start = 0, NEW c \in Octets, NEW i \in 0 .. b.limit - 1
  PROVE  LET e == InsertWord(b, c, i)
         IN  /\ IsOutBuffer(e) /\ e.start = 0 /\ e.offset = b.offset /\ e.limit = b.limit
             /\ e.overflowOffset = b.overflowOffset /\ e.overflowSize = b.overflowSize
             /\ e.buff[i] = c /\ \A k \in 0 .. b.limit - 1 : k # i => e.buff[k] = b.buff[k]
<1> DEFINE D == 0 .. b.limit - 1
           c1 == [b.buff EXCEPT ![i] = c]
           e == [b EXCEPT !.buff = c1]
<1>1. b.buff \in [D -> Octets] /\ i \in D /\ b.start + i = i
  BY OutFields
<1> HIDE DEF D
<1>2. c1 \in [D -> Octets] /\ c1[i] = c /\ \A k \in D : k # i => c1[k] = b.buff[k]
  BY <1>1
<1>3. InsertWord(b, c, i) = e
  BY <1>1 DEF InsertWord
<1> HIDE DEF c1
<1>4. /\ IsOutBuffer(e) /\ e.start = b.start /\ e.offset = b.offset /\ e.limit = b.limit
      /\ e.overflowOffset = b.overflowOffset /\ e.overflowSize = b.overflowSize
      /\ e.buff = c1
  BY <1>2, Filled DEF D
<1> HIDE DEF e
<1> QED BY <1>2, <1>3, <1>4 DEF D

(* sendPacketIfNecessary, with nothing kept and with something.            *)
LEMMA ResetParts ==
  ASSUME NEW b, IsOutBuffer(b), b.overflowSize = 0
  PROVE  LET e == AfterSending(b)
         IN  IsOutBuffer(e) /\ e.start = 0 /\ e.offset = 0 /\ e.overflowSize = 0 /\ e.limit = b.limit
<1> DEFINE p == b.overflowOffset
           z == 0
           e == Marked(b, z, z, p, z)
<1>1. AfterSending(b) = [[b EXCEPT !.overflowOffset = p, !.start = 0] EXCEPT !.offset = 0]
  BY DEF AfterSending, ResetPacketStart
<1>2. p \in Nat /\ z \in Nat /\ z = 0
  BY OutFields
<1>3. [[b EXCEPT !.overflowOffset = p, !.start = 0] EXCEPT !.offset = 0] = e
  BY DEF IsOutBuffer, Buffers, Marked
<1> HIDE DEF p, z
<1>4. IsOutBuffer(e) /\ e.start = z /\ e.offset = z /\ e.overflowSize = z /\ e.limit = b.limit
  <2>1. IsMarked(b, z, z, p, z, e)
    BY <1>2, MarkedParts
  <2> HIDE DEF e
  <2> QED BY <2>1 DEF IsMarked
<1> QED BY <1>1, <1>2, <1>3, <1>4

-----------------------------------------------------------------------------
(* A frame that is put behind the offset and fits.                         *)
Packed(b, s, fr) ==
  SpecialHandling([[b EXCEPT !.buff = Copy(@, b.offset, s, Len(s))]
                     EXCEPT !.offset = @ + fr.size], fr)

(* The buffer is full of it, and the marker bit is that of the frame.      *)
IsPacked(b, s, fr, e) ==
  /\ IsOutBuffer(e) /\ e.start = 0 /\ e.offset = b.offset + Len(s)
  /\ e.overflowSize = 0 /\ e.limit = b.limit
  /\ e.buff[0][3] = b.buff[0][3]
  /\ e.buff[0][4] = 1 => (fr.completed /\ fr.marker) \/ b.buff[0][4] = 1
  /\ \A k \in 1 .. Len(s) : e.buff[b.offset + k - 1] = s[k]

LEMMA PackedParts ==
  ASSUME NEW b, IsOutBuffer(b), b.start = 0, b.overflowSize = 0, b.offset >= 3,
         NEW s \in Seq(Octets), b.offset + Len(s) <= MaxPacketSize,
         NEW fr, fr.size = Len(s), fr.position = b.offset - 2, fr.time \in Nat
  PROVE  IsPacked(b, s, fr, Packed(b, s, fr))
<1> DEFINE o == b.offset
           n == Len(s)
           D == 0 .. b.limit - 1
           filled == Copy(b.buff, o, s, n)
           b1 == [b EXCEPT !.buff = filled]
           b2 == [b1 EXCEPT !.offset = @ + fr.size]
           marked == [filled[0] EXCEPT ![4] = 1]
           b3 == IF fr.completed /\ fr.marker THEN InsertWord(b2, [b2.buff[b2.start] EXCEPT ![4] = 1], 0) ELSE b2
           e == InsertWord(b3, Ts(fr.time), fr.position)
<1>1. /\ o \in Nat /\ n \in Nat /\ b.limit \in Nat /\ b.buff \in [D -> Octets] /\ b.overflowOffset \in Nat
      /\ b.limit >= 2 * MaxPacketSize /\ o >= 3
      /\ \A k \in DOMAIN s : s[k] \in Octets
  BY OutFields
<1>2. /\ o + n <= b.limit /\ 0 \in D /\ o - 2 \in D /\ o - 2 # 0 /\ D \subseteq Int
      /\ \A k \in 1 .. n : o + k - 1 \in D /\ o + k - 1 # 0 /\ o + k - 1 # o - 2
  <2> DEFINE limit == b.limit
             P == MaxPacketSize
  <2>1. /\ o \in Nat /\ n \in Nat /\ limit \in Nat /\ P \in Nat /\ P > 9 /\ limit >= 2 * P
        /\ o >= 3 /\ o + n <= P
    BY <1>1, Sizes
  <2> HIDE DEF o, n, limit, P
  <2>2. o + n <= limit /\ o < limit /\ limit > 0
    BY <2>1
  <2> QED BY <2>1, <2>2 DEF limit
<1>3. /\ filled \in [D -> Octets] /\ filled[0] = b.buff[0]
      /\ \A k \in 1 .. n : filled[o + k - 1] = s[k]
  <2> HIDE DEF o, D
  <2>1. IsCopy(D, b.buff, o, s, n, filled)
    <3>1. n <= Len(s)
      BY <1>1
    <3> HIDE DEF n
    <3> QED BY <1>1, <1>2, <3>1, CopyParts
  <2>2. 0 \notin o .. o + n - 1
    BY <1>1
  <2>3. \A k \in 1 .. n : o + k - 1 \in o .. o + n - 1 /\ o + k - 1 - o + 1 = k
    BY <1>1
  <2> HIDE DEF filled, n
  <2>4. filled \in [D -> Octets] /\ \A k \in D : filled[k] = IF k \in o .. o + n - 1 THEN s[k - o + 1] ELSE b.buff[k]
    BY <2>1 DEF IsCopy
  <2>5. filled[0] = b.buff[0]
    BY <1>2, <2>2, <2>4
  <2>6. ASSUME NEW k \in 1 .. n
        PROVE  filled[o + k - 1] = s[k]
    <3> DEFINE j == o + k - 1
    <3>1. j \in D /\ j \in o .. o + n - 1 /\ j - o + 1 = k
      BY <1>1, <1>2 DEF D
    <3> HIDE DEF j
    <3>2. filled[j] = s[j - o + 1]
      BY <2>4, <3>1
    <3> QED BY <3>1, <3>2 DEF j
  <2> QED BY <2>4, <2>5, <2>6
<1> HIDE DEF filled
<1>4. /\ IsOutBuffer(b1) /\ b1.start = 0 /\ b1.offset = o /\ b1.limit = b.limit
      /\ b1.overflowOffset = b.overflowOffset /\ b1.overflowSize = 0 /\ b1.buff = filled
  BY <1>3, Filled DEF D
<1> HIDE DEF b1
<1>5. /\ IsOutBuffer(b2) /\ b2.start = 0 /\ b2.offset = o + n /\ b2.limit = b.limit
      /\ b2.overflowSize = 0 /\ b2.buff = filled
  <2> DEFINE m == b1.offset + fr.size
  <2>1. m \in Nat /\ m = o + n
    BY <1>1, <1>4
  <2> HIDE DEF m
  <2>2. /\ IsOutBuffer(b2) /\ b2.start = b1.start /\ b2.offset = m /\ b2.limit = b1.limit
        /\ b2.overflowSize = b1.overflowSize /\ b2.buff = b1.buff
    BY <1>4, <2>1, OffsetParts DEF m
  <2> HIDE DEF b2
  <2> QED BY <1>4, <2>1, <2>2
<1> HIDE DEF b2, D, o, n
<1>6. filled[0] \in Octets /\ Ts(fr.time) \in Octets
  BY <1>2, <1>3, OtherOctets
<1>7. marked \in Octets /\ marked[3] = filled[0][3]
  BY <1>6, MarkedOctet
<1> HIDE DEF marked
<1>8. /\ IsOutBuffer(b3) /\ b3.start = 0 /\ b3.offset = o + n /\ b3.limit = b.limit /\ b3.overflowSize = 0
      /\ b3.buff[0] = IF fr.completed /\ fr.marker THEN marked ELSE filled[0]
      /\ \A k \in D : k # 0 => b3.buff[k] = filled[k]
  <2>1. CASE fr.completed /\ fr.marker
    <3> DEFINE z == 0
               c == InsertWord(b2, marked, z)
    <3>1. z \in 0 .. b2.limit - 1 /\ z = 0
      BY <1>2, <1>5 DEF D
    <3>2. b3 = c
      BY <1>5, <2>1, Zenon DEF marked
    <3> HIDE DEF z
    <3>3. /\ IsOutBuffer(c) /\ c.start = 0 /\ c.offset = b2.offset /\ c.limit = b2.limit
          /\ c.overflowSize = b2.overflowSize
          /\ c.buff[z] = marked /\ \A k \in 0 .. b2.limit - 1 : k # z => c.buff[k] = b2.buff[k]
      BY <1>5, <1>7, <3>1, InsertParts
    <3> HIDE DEF c, b3
    <3> QED BY <1>5, <2>1, <3>1, <3>2, <3>3 DEF D
  <2>2. CASE ~(fr.completed /\ fr.marker)
    <3>1. b3 = b2
      BY <2>2, Zenon
    <3> HIDE DEF b3
    <3> QED BY <1>5, <2>2, <3>1
  <2> QED BY <2>1, <2>2
<1>9. Packed(b, s, fr) = e
  BY Zenon DEF Packed, SpecialHandling, b1, b2, b3, filled, o, n
<1> HIDE DEF b3
<1>10. /\ IsOutBuffer(e) /\ e.start = 0 /\ e.offset = o + n /\ e.limit = b.limit /\ e.overflowSize = 0
       /\ \A k \in D : k # o - 2 => e.buff[k] = b3.buff[k]
  <2> DEFINE p == fr.position
             t == Ts(fr.time)
             c == InsertWord(b3, t, p)
  <2>1. p \in 0 .. b3.limit - 1 /\ p = o - 2 /\ t \in Octets
    BY <1>2, <1>6, <1>8 DEF D, o
  <2> HIDE DEF p, t
  <2>2. /\ IsOutBuffer(c) /\ c.start = 0 /\ c.offset = b3.offset /\ c.limit = b3.limit
        /\ c.overflowSize = b3.overflowSize
        /\ \A k \in 0 .. b3.limit - 1 : k # p => c.buff[k] = b3.buff[k]
    BY <1>8, <2>1, InsertParts
  <2>3. e = c
    BY DEF p, t
  <2> HIDE DEF c, e
  <2> QED BY <1>8, <2>1, <2>2, <2>3 DEF D
<1> HIDE DEF e
<1>11. e.buff[0] = b3.buff[0]
  BY <1>2, <1>10
<1>12. \A k \in 1 .. n : e.buff[o + k - 1] = s[k]
  BY <1>2, <1>3, <1>8, <1>10
<1>13. e.buff[0][3] = b.buff[0][3]
  BY <1>3, <1>7, <1>8, <1>11
<1>14. e.buff[0][4] = 1 => (fr.completed /\ fr.marker) \/ b.buff[0][4] = 1
  BY <1>3, <1>8, <1>11
<1>15. IsPacked(b, s, fr, e)
  BY <1>10, <1>12, <1>13, <1>14 DEF IsPacked, o, n
<1> QED BY <1>9, <1>15

(* The packet that is sent, and the buffer that is left.                   *)
LEMMA PacketParts ==
  ASSUME NEW b, IsOutBuffer(b), b.offset >= 3,
         NEW s \in Seq(Octets), b.offset + Len(s) <= MaxPacketSize,
         NEW fr, NEW e, IsPacked(b, s, fr, e)
  PROVE  LET p == Slice(e.buff, e.start, e.start + e.offset)
         IN  /\ p \in Seq(Octets) /\ Len(p) = b.offset + Len(s)
             /\ \A k \in 1 .. Len(s) : p[b.offset + k] = s[k]
             /\ p[1][3] = b.buff[0][3]
             /\ p[1][4] = 1 => (fr.completed /\ fr.marker) \/ b.buff[0][4] = 1
<1> DEFINE o == b.offset
           n == Len(s)
           z == 0
           p == Slice(e.buff, z, o + n)
<1>1. o \in Nat /\ n \in Nat /\ b.limit \in Nat /\ b.limit >= 2 * MaxPacketSize /\ z \in Nat /\ z = 0
  BY OutFields
<1>2. e.start = 0 /\ e.offset = o + n /\ e.limit = b.limit /\ e.buff \in [0 .. b.limit - 1 -> Octets]
  BY OutFields DEF IsPacked
<1>3. o + n <= b.limit /\ o + n \in Nat /\ z <= o + n /\ e.start + e.offset = o + n /\ e.start = z
  BY <1>1, <1>2, Sizes
<1> HIDE DEF o, n, z
<1>4. IsSlice(e.buff, z, o + n, p)
  <2>1. Bytes(e.buff, z, o + n)
    BY <1>1, <1>2, <1>3 DEF Bytes
  <2> QED BY <1>1, <1>3, <2>1, SliceParts
<1> HIDE DEF p
<1>5. p \in Seq(Octets) /\ Len(p) = o + n /\ \A k \in 1 .. o + n : p[k] = e.buff[k - 1]
  <2>1. o + n - z = o + n /\ \A k \in 1 .. o + n : z + k - 1 = k - 1
    BY <1>1
  <2>2. /\ p \in Seq(Octets) /\ Len(p) = o + n - z
        /\ \A k \in 1 .. o + n - z : p[k] = e.buff[z + k - 1]
    BY <1>1, <1>3, <1>4 DEF IsSlice
  <2> QED BY <2>1, <2>2
<1>6. \A k \in 1 .. n : o + k \in 1 .. o + n
  BY <1>1
<1>7. 1 \in 1 .. o + n /\ 1 - 1 = 0
  BY <1>1 DEF o
<1>8. ASSUME NEW k \in 1 .. n
      PROVE  p[o + k] = s[k]
  <2>1. o + k \in 1 .. o + n /\ o + k - 1 \in Nat
    BY <1>1, <1>6
  <2>2. p[o + k] = e.buff[o + k - 1]
    BY <1>1, <1>5, <2>1
  <2>3. e.buff[o + k - 1] = s[k]
    BY DEF IsPacked, o, n
  <2> QED BY <2>2, <2>3
<1>9. p[1] = e.buff[0]
  BY <1>5, <1>7
<1>10. p = Slice(e.buff, e.start, e.start + e.offset)
  BY <1>3 DEF p
<1> HIDE DEF p
<1> QED BY <1>5, <1>8, <1>9, <1>10 DEF IsPacked, o, n

-----------------------------------------------------------------------------
(* A frame that is kept: there stays room for a header and for it.         *)
LEMMA KeptParts ==
  ASSUME NEW b, IsOutBuffer(b), b.offset >= 6, b.start + b.offset <= b.limit,
         NEW n \in Nat, n > 0, n <= MaxOutput
  PROVE  LET e == AfterSending([b EXCEPT !.overflowOffset = b.offset, !.overflowSize = n])
         IN  IsOutBuffer(e) /\ e.offset = 0 /\ e.overflowSize = n /\ e.start + 3 + n <= e.limit
<1> DEFINE s == b.start
           o == b.offset
           limit == b.limit
           P == MaxPacketSize
           c == Marked(b, s, o, o, n)
           e == AfterSending(c)
<1>1. s \in Nat /\ o \in Nat /\ limit \in Nat /\ P \in Nat /\ limit >= 2 * P /\ n + 3 <= P /\ o >= 6 /\ s + o <= limit
  <2>1. n + 3 <= P /\ P \in Nat
    BY Sizes
  <2> QED BY <2>1, OutFields
<1>2. [b EXCEPT !.overflowOffset = b.offset, !.overflowSize = n] = c
  BY DEF IsOutBuffer, Buffers, Marked
<1> HIDE DEF s, o, limit
<1>3. /\ IsOutBuffer(c) /\ c.start = s /\ c.offset = o /\ c.limit = limit
      /\ c.overflowOffset = o /\ c.overflowSize = n
  <2>1. s \in Nat /\ o \in Nat
    BY <1>1
  <2>2. IsMarked(b, s, o, o, n, c)
    BY <2>1, MarkedParts
  <2> HIDE DEF c
  <2> QED BY <2>2 DEF IsMarked, limit
<1> HIDE DEF c
<1>4. limit \div 2 >= P
  BY <1>1
<1>5. CASE BytesAvailable(c) > limit \div 2
  <2>1. limit - (s + o) > P
    BY <1>1, <1>3, <1>4, <1>5 DEF BytesAvailable
  <2> DEFINE s2 == s + (o - RtpHeaderSize)
             o2 == 0
             p2 == o - (o - RtpHeaderSize)
             d == Marked(c, s2, o2, p2, n)
  <2>2. s2 \in Nat /\ o2 \in Nat /\ p2 \in Nat /\ s2 + 3 + n <= limit /\ o2 = 0 /\ o >= o - RtpHeaderSize
    BY <1>1, <2>1, Sizes
  <2>3. AfterSending(c) = [AdjustPacketStart(c, o - RtpHeaderSize) EXCEPT !.offset = 0]
    BY <1>3, <1>5 DEF AfterSending
  <2>4. AdjustPacketStart(c, o - RtpHeaderSize)
          = [c EXCEPT !.start = s2, !.overflowOffset = p2, !.overflowSize = n]
    BY <1>3, <2>2, Zenon DEF AdjustPacketStart
  <2>5. [[c EXCEPT !.start = s2, !.overflowOffset = p2, !.overflowSize = n] EXCEPT !.offset = 0] = d
    BY <1>3 DEF IsOutBuffer, Buffers, Marked
  <2> HIDE DEF s2, o2, p2
  <2>6. IsOutBuffer(d) /\ d.start = s2 /\ d.offset = o2 /\ d.overflowSize = n /\ d.limit = c.limit
    <3>1. IsOutBuffer(c) /\ s2 \in Nat /\ o2 \in Nat /\ p2 \in Nat
      BY <1>3, <2>2
    <3>2. IsMarked(c, s2, o2, p2, n, d)
      BY <3>1, MarkedParts
    <3> HIDE DEF d
    <3> QED BY <3>2 DEF IsMarked
  <2> HIDE DEF d
  <2>7. e = d
    BY <2>3, <2>4, <2>5
  <2> HIDE DEF e
  <2>8. IsOutBuffer(e) /\ e.offset = 0 /\ e.overflowSize = n /\ e.start + 3 + n <= e.limit
    BY <1>3, <2>2, <2>6, <2>7
  <2> QED BY <1>2, <2>8 DEF e
<1>6. CASE ~(BytesAvailable(c) > limit \div 2)
  <2> DEFINE p2 == o + s
             z == 0
             d == Marked(c, z, z, p2, n)
  <2>1. p2 \in Nat /\ z \in Nat /\ z + 3 + n <= limit /\ z = 0
    BY <1>1
  <2>2. AfterSending(c) = [ResetPacketStart(c) EXCEPT !.offset = 0]
    BY <1>3, <1>6 DEF AfterSending
  <2>3. ResetPacketStart(c) = [c EXCEPT !.overflowOffset = p2, !.start = 0]
    BY <1>3 DEF ResetPacketStart
  <2>4. [[c EXCEPT !.overflowOffset = p2, !.start = 0] EXCEPT !.offset = 0] = d
    BY <1>3 DEF IsOutBuffer, Buffers, Marked
  <2> HIDE DEF p2, z
  <2>5. IsOutBuffer(d) /\ d.start = z /\ d.offset = z /\ d.overflowSize = n /\ d.limit = c.limit
    <3>1. IsOutBuffer(c) /\ z \in Nat /\ p2 \in Nat
      BY <1>3, <2>1
    <3>2. IsMarked(c, z, z, p2, n, d)
      BY <3>1, MarkedParts
    <3> HIDE DEF d
    <3> QED BY <3>2 DEF IsMarked
  <2> HIDE DEF d
  <2>6. e = d
    BY <2>2, <2>3, <2>4
  <2> HIDE DEF e
  <2>7. IsOutBuffer(e) /\ e.offset = 0 /\ e.overflowSize = n /\ e.start + 3 + n <= e.limit
    BY <1>3, <2>1, <2>5, <2>6
  <2> QED BY <1>2, <2>7 DEF e
<1> QED BY <1>5, <1>6

(* useOverflowData moves it behind the header.                             *)
LEMMA UsedParts ==
  ASSUME NEW b, IsOutBuffer(b), b.start + b.offset + b.overflowSize <= b.limit
  PROVE  LET e == UseOverflowData(b)
         IN  IsOutBuffer(e) /\ e.offset = b.offset + b.overflowSize /\ e.start = b.start /\ e.limit = b.limit
<1> DEFINE from == b.start + b.overflowOffset
           s == Slice(b.buff, from, b.limit)
           n == b.overflowSize
<1>1. from \in Nat /\ b.limit \in Nat /\ n \in Nat /\ b.buff \in [0 .. b.limit - 1 -> Octets]
  BY OutFields
<1> HIDE DEF from, n
<1>2. ASSUME NEW k \in DOMAIN s
      PROVE  s[k] \in Octets
  <2>1. k \in 1 .. b.limit - from /\ s[k] = b.buff[from + k - 1]
    BY DEF Slice
  <2>2. from + k - 1 \in 0 .. b.limit - 1
    BY <1>1, <2>1
  <2> QED BY <1>1, <2>1, <2>2
<1> HIDE DEF s
<1> DEFINE e == Enqueue(b, s, n)
<1>3. IsOutBuffer(e) /\ e.offset = b.offset + n /\ e.start = b.start /\ e.limit = b.limit
  BY <1>1, <1>2, EnqueueParts DEF n
<1> QED BY <1>3 DEF UseOverflowData, e, s, n, from

-----------------------------------------------------------------------------
(* The inductive invariant, up to the first PAUSE and the PLAY behind it.  *)
Typed ==
  /\ inputBufferSize \in Nat /\ inputBufferSize > MaxPacketSize
  /\ fragmenter \in Fragmenters /\ Rests(fragmenter)
  /\ IsOutBuffer(outBuf)
  /\ seqNo \in Nat /\ timestamp \in Nat /\ reads \in Nat /\ pauses \in Nat
  /\ source \in BOOLEAN /\ looping \in BOOLEAN /\ pictureEndMarker \in BOOLEAN
  /\ nals \in Seq(Seq(Octets)) /\ Len(nals) <= MaxNals
  /\ frames \in [1 .. MaxNals -> Seq(Seq(Octets))]
  /\ \A k \in Len(nals) + 1 .. MaxNals : frames[k] = <<>>
  /\ sent \in Seq(Seq(Octets))

(* The loop, the parser and the units: who may parse again, and where to.  *)
Looped ==
  /\ looping => source \/ pauses = 1
  /\ pauses = 0 /\ ~source => reads = 0 /\ nals = <<>> /\ ~looping
  /\ reads > 0 => nals # <<>>
  /\ reads > 0 /\ (pauses = 0 \/ ~source) =>
       fragmenter.to = RtpHeaderSize /\ fragmenter.maxSize = MaxOutput
  /\ fragmenter.valid > 1 => nals # <<>>
  /\ nals # <<>> => (fragmenter.completed <=> fragmenter.valid = 1)
  /\ pictureEndMarker /\ outBuf.overflowSize = 0 => fragmenter.valid > 1

(* What the output buffer holds between two steps: nothing, the header     *)
(* that a PAUSE left, or for ever a frame that does not fit behind it.     *)
Empty == outBuf.start = 0 /\ outBuf.offset = 0 /\ outBuf.overflowSize = 0

LeftOver ==
  /\ outBuf.start = 0 /\ outBuf.offset = 3 /\ outBuf.overflowSize = 0
  /\ pauses = 1 /\ (source \/ ~looping)
  /\ outBuf.buff[0][3] = seqNo % SeqSpace /\ outBuf.buff[0][4] = 0

Kept ==
  /\ pauses = 1 /\ source /\ outBuf.offset = 0
  /\ outBuf.overflowSize \in MaxOutput - 2 .. MaxOutput
  /\ outBuf.start + 3 + outBuf.overflowSize <= outBuf.limit

(* A packet with a number that ends with a frame.                          *)
Carries(p, s, number) ==
  /\ p \in Seq(Octets) /\ Len(p) <= MaxPacketSize /\ Len(s) <= Len(p)
  /\ \A k \in 1 .. Len(s) : p[Len(p) - Len(s) + k] = s[k]
  /\ p[1][3] = number % SeqSpace

(* The frames of the first k units.                                        *)
Upto(k) == Flat(frames, k)

(* The i-th frame is the last of a unit.                                   *)
Ends(i) ==
  \E k \in 1 .. Len(nals) : i = Len(Upto(k)) /\ (k < Len(nals) \/ fragmenter.valid = 1)

Packets ==
  /\ Len(Upto(Len(nals))) = Len(sent) + (IF outBuf.overflowSize > 0 THEN 1 ELSE 0)
  /\ \A i \in 1 .. Len(sent) :
       /\ Carries(sent[i], Upto(Len(nals))[i], NumberOf(i))
       /\ sent[i][1][4] = 1 => Ends(i)
       /\ pauses = 0 => Len(sent[i]) = RtpHeaderSize + Len(Upto(Len(nals))[i])

(* What the receiver's rules make of the frames of a unit.                 *)
Skipped(h) == Flat([i \in DOMAIN h |-> SkipSpecialHeader(h[i])], Len(h))

(* ... is the beginning of it that was delivered.                          *)
IsBegun(f, w, u) ==
  /\ w \in Seq(Octets) /\ Len(w) = f.offset - 1
  /\ \A i \in 1 .. Len(w) : w[i] = u[i]

(* ... and none of them is empty.                                          *)
Pieces(h) ==
  \A j \in 1 .. Len(h) : LET d == SkipSpecialHeader(h[j]) IN d \in Seq(Octets) /\ Len(d) > 0

Units ==
  pauses = 0 => \A k \in 1 .. Len(nals) :
    /\ IsUnit(nals[k]) /\ Pieces(frames[k])
    /\ IF k < Len(nals) \/ fragmenter.valid = 1 THEN Skipped(frames[k]) = nals[k]
       ELSE IsBegun(fragmenter, Skipped(frames[k]), nals[k]) /\ Holds(fragmenter, nals[k])

Inv == Typed /\ Looped /\ (Empty \/ LeftOver \/ Kept) /\ Packets /\ Units

-----------------------------------------------------------------------------
(* The buffer once a header is behind what it holds.                       *)
Headed(b) ==
  /\ IsOutBuffer(b) /\ b.start = 0 /\ b.overflowSize = 0 /\ b.offset = outBuf.offset + 3
  /\ b.buff[0][3] = seqNo % SeqSpace /\ b.buff[0][4] = 0

LEMMA HeadedParts ==
  ASSUME Typed, Empty \/ LeftOver
  PROVE  Headed(WithHeader(outBuf))
<1> DEFINE b == WithHeader(outBuf)
<1>1. /\ IsOutBuffer(outBuf) /\ seqNo \in Nat /\ outBuf.start = 0 /\ outBuf.overflowSize = 0
      /\ outBuf.offset = 0 \/ outBuf.offset = 3
      /\ outBuf.limit \in Nat /\ outBuf.limit >= 2 * MaxPacketSize
  BY DEF Typed, Empty, LeftOver, IsOutBuffer
<1>2. outBuf.start + outBuf.offset + 3 <= outBuf.limit
  BY <1>1, Sizes
<1>3. /\ IsOutBuffer(b) /\ b.offset = outBuf.offset + 3 /\ b.start = outBuf.start
      /\ b.overflowSize = outBuf.overflowSize
      /\ b.buff[outBuf.start + outBuf.offset] = Word
      /\ \A k \in 0 .. outBuf.start + outBuf.offset - 1 : b.buff[k] = outBuf.buff[k]
  BY <1>1, <1>2, HeaderParts
<1>4. Word[3] = seqNo % SeqSpace /\ Word[4] = 0
  BY <1>1, WordParts
<1> HIDE DEF b
<1>5. b.buff[0][3] = seqNo % SeqSpace /\ b.buff[0][4] = 0
  <2>1. CASE outBuf.offset = 0
    <3>1. outBuf.start + outBuf.offset = 0
      BY <1>1, <2>1
    <3> QED BY <1>3, <1>4, <3>1
  <2>2. CASE outBuf.offset = 3
    <3>1. 0 \in 0 .. outBuf.start + outBuf.offset - 1
      BY <1>1, <2>2
    <3>2. LeftOver
      BY <2>2 DEF Empty
    <3> QED BY <1>3, <3>1, <3>2 DEF LeftOver
  <2> QED BY <1>1, <2>1, <2>2
<1> QED BY <1>1, <1>3, <1>5 DEF Headed, b

(* The frame s goes out, or is kept.                                       *)
GoesOut(s, completed, marker) ==
  /\ \E p : /\ sent' = Append(sent, p) /\ Carries(p, s, seqNo) /\ (p[1][4] = 1 => completed /\ marker)
            /\ Len(p) = outBuf.offset + RtpHeaderSize + Len(s)
  /\ seqNo' = seqNo + 1
  /\ IsOutBuffer(outBuf') /\ Empty'
  /\ pictureEndMarker' = (marker /\ ~completed)

IsKept(s, marker) ==
  /\ sent' = sent /\ seqNo' = seqNo
  /\ LeftOver
  /\ IsOutBuffer(outBuf') /\ outBuf'.offset = 0 /\ outBuf'.overflowSize = Len(s)
  /\ outBuf'.overflowSize \in MaxOutput - 2 .. MaxOutput
  /\ outBuf'.start + 3 + outBuf'.overflowSize <= outBuf'.limit
  /\ pictureEndMarker' = marker

LEMMA FrameGoesOut ==
  ASSUME NEW b, Headed(b), NEW s, s \in Seq(Octets), Len(s) \in 1 .. MaxOutput,
         outBuf.offset \in {0, 3}, seqNo \in Nat,
         NEW fr, fr.size = Len(s), fr.position = TimestampPosition(b),
         fr.time \in Nat,
         FrameFits([b EXCEPT !.buff = Copy(@, b.offset, s, Len(s))], fr)
  PROVE  GoesOut(s, fr.completed, fr.marker)
<1> DEFINE n == Len(s)
           c == [b EXCEPT !.buff = Copy(@, b.offset, s, n)]
           e == Packed(b, s, fr)
           p == Slice(e.buff, e.start, e.start + e.offset)
<1>1. /\ IsOutBuffer(b) /\ b.start = 0 /\ b.overflowSize = 0 /\ b.offset >= 3 /\ b.offset \in Nat /\ n \in Nat
      /\ b.buff[0][3] = seqNo % SeqSpace /\ b.buff[0][4] # 1
  BY DEF Headed
<1>2. c.offset = b.offset
  BY <1>1 DEF IsOutBuffer, Buffers
<1>3. b.offset + Len(s) <= MaxPacketSize
  <2>1. ~(c.offset + fr.size > MaxPacketSize)
    BY DEF FrameFits, WouldOverflow
  <2> QED BY <1>1, <1>2, <2>1, Sizes
<1>4. fr.position = b.offset - 2
  BY DEF TimestampPosition
<1>5. IsPacked(b, s, fr, e)
  BY <1>1, <1>3, <1>4, PackedParts
<1>6. e = SpecialHandling([c EXCEPT !.offset = @ + fr.size], fr)
  BY Zenon DEF Packed
<1>7. /\ sent' = Append(sent, p) /\ seqNo' = seqNo + 1 /\ outBuf' = AfterSending(e)
      /\ pictureEndMarker' = (fr.marker /\ ~fr.completed)
  BY <1>6, Zenon DEF FrameFits
<1> HIDE DEF e
<1>8. /\ p \in Seq(Octets) /\ Len(p) = b.offset + Len(s)
      /\ \A k \in 1 .. Len(s) : p[b.offset + k] = s[k]
      /\ p[1][3] = b.buff[0][3]
      /\ p[1][4] = 1 => (fr.completed /\ fr.marker) \/ b.buff[0][4] = 1
  BY <1>1, <1>3, <1>5, PacketParts
<1> HIDE DEF p
<1>9. Carries(p, s, seqNo)
  <2>1. Len(p) - Len(s) = b.offset /\ Len(s) <= Len(p) /\ Len(p) <= MaxPacketSize
    BY <1>1, <1>3, <1>8
  <2> QED BY <1>1, <1>8, <2>1 DEF Carries
<1>10. IsOutBuffer(outBuf') /\ outBuf'.start = 0 /\ outBuf'.offset = 0 /\ outBuf'.overflowSize = 0
  <2>1. IsOutBuffer(e) /\ e.overflowSize = 0
    BY <1>5 DEF IsPacked
  <2> QED BY <1>7, <2>1, ResetParts
<1>11. p[1][4] = 1 => fr.completed /\ fr.marker
  BY <1>1, <1>8
<1>12. Len(p) = outBuf.offset + RtpHeaderSize + Len(s)
  <2>1. b.offset = outBuf.offset + 3 /\ RtpHeaderSize = 3
    BY Sizes DEF Headed
  <2> QED BY <1>8, <2>1
<1> QED BY <1>7, <1>9, <1>10, <1>11, <1>12 DEF GoesOut, Empty

LEMMA FrameIsKept ==
  ASSUME NEW b, Headed(b), NEW s, s \in Seq(Octets), Len(s) \in 1 .. MaxOutput,
         Empty \/ LeftOver,
         NEW fr, fr.size = Len(s),
         FrameOverflows([b EXCEPT !.buff = Copy(@, b.offset, s, Len(s))], fr)
  PROVE  IsKept(s, fr.marker)
<1> DEFINE n == Len(s)
           c == [b EXCEPT !.buff = Copy(@, b.offset, s, n)]
           e == AfterSending([c EXCEPT !.overflowOffset = c.offset, !.overflowSize = n])
<1>1. /\ IsOutBuffer(b) /\ b.start = 0 /\ b.offset = outBuf.offset + 3 /\ b.offset \in Nat /\ n \in Nat
      /\ outBuf.offset \in {0, 3}
  BY DEF Headed, Empty, LeftOver
<1>2. IsOutBuffer(c) /\ c.start = b.start /\ c.offset = b.offset /\ c.limit = b.limit
  <2>1. b.buff \in [0 .. b.limit - 1 -> Octets] /\ \A k \in DOMAIN s : s[k] \in Octets
    BY <1>1, OutFields
  <2> DEFINE filled == Copy(b.buff, b.offset, s, n)
  <2>2. filled \in [0 .. b.limit - 1 -> Octets]
    BY <2>1, CopyTyped
  <2> HIDE DEF filled
  <2>3. c = [b EXCEPT !.buff = filled]
    BY DEF filled
  <2> QED BY <1>1, <2>2, <2>3, Filled
<1> HIDE DEF c
<1>3. /\ c.offset + n > MaxPacketSize
      /\ outBuf' = e /\ pictureEndMarker' = fr.marker /\ sent' = sent /\ seqNo' = seqNo
  BY DEF FrameOverflows, WouldOverflow, c
<1>4. c.offset = 6 /\ n \in MaxOutput - 2 .. MaxOutput /\ n > 0 /\ outBuf.offset = 3
  <2>1. MaxPacketSize = MaxOutput + 3 /\ MaxOutput \in Nat /\ MaxOutput > 6
    BY Sizes
  <2> QED BY <1>1, <1>2, <1>3, <2>1
<1>5. LeftOver
  BY <1>4 DEF Empty
<1>6. c.offset >= 6 /\ c.start + c.offset <= c.limit
  BY <1>1, <1>2, <1>4, Sizes, OutFields
<1>7. IsOutBuffer(e) /\ e.offset = 0 /\ e.overflowSize = n /\ e.start + 3 + n <= e.limit
  <2>1. n <= MaxOutput
    OBVIOUS
  <2> HIDE DEF n
  <2> QED BY <1>1, <1>2, <1>4, <1>6, <2>1, KeptParts
<1> HIDE DEF e
<1> QED BY <1>3, <1>4, <1>5, <1>7 DEF IsKept

LEMMA GotFrame ==
  ASSUME Typed, Empty \/ LeftOver,
         NEW s, s \in Seq(Octets), Len(s) \in 1 .. MaxOutput,
         NEW fr, fr.size = Len(s), fr.position = TimestampPosition(WithHeader(outBuf)),
         fr.time \in Nat, NEW to, to = outBuf.offset + RtpHeaderSize,
         AfterGettingFrame([WithHeader(outBuf) EXCEPT !.buff = Copy(@, to, s, Len(s))], fr)
  PROVE  GoesOut(s, fr.completed, fr.marker) \/ IsKept(s, fr.marker)
<1> DEFINE b == WithHeader(outBuf)
           c == [b EXCEPT !.buff = Copy(@, b.offset, s, Len(s))]
<1>1. Headed(b)
  BY HeadedParts
<1>2. seqNo \in Nat /\ outBuf.offset \in {0, 3}
  BY DEF Typed, Empty, LeftOver
<1> HIDE DEF b
<1>3. b.offset = to
  BY <1>1, Sizes DEF Headed
<1>4. FrameFits(c, fr) \/ FrameOverflows(c, fr)
  BY <1>3, Zenon DEF AfterGettingFrame, b
<1>5. fr.position = TimestampPosition(b)
  BY DEF b
<1>6. CASE FrameFits(c, fr)
  BY <1>1, <1>2, <1>5, <1>6, FrameGoesOut
<1>7. CASE FrameOverflows(c, fr)
  BY <1>1, <1>7, FrameIsKept
<1> QED BY <1>4, <1>6, <1>7

(* The frame that is kept does not fit behind the next header either.      *)
LEMMA KeptAgain ==
  ASSUME Typed, Kept, PackOverflow
  PROVE  /\ sent' = sent /\ seqNo' = seqNo
         /\ IsOutBuffer(outBuf') /\ outBuf'.offset = 0 /\ outBuf'.overflowSize = outBuf.overflowSize
         /\ outBuf'.start + 3 + outBuf'.overflowSize <= outBuf'.limit
         /\ pictureEndMarker' \in BOOLEAN
<1> DEFINE b == WithHeader(outBuf)
           u == UseOverflowData(b)
           n == outBuf.overflowSize
           e == AfterSending([u EXCEPT !.overflowOffset = u.offset, !.overflowSize = n])
<1>1. /\ IsOutBuffer(outBuf) /\ seqNo \in Nat /\ outBuf.offset = 0 /\ n \in MaxOutput - 2 .. MaxOutput
      /\ outBuf.start + 3 + n <= outBuf.limit /\ outBuf.start \in Nat /\ outBuf.limit \in Nat
      /\ n \in Nat
  BY OutFields DEF Typed, Kept
<1>2. n > 3 /\ n <= MaxOutput /\ 3 + n + n > MaxPacketSize /\ outBuf.start + outBuf.offset + 3 <= outBuf.limit
  BY <1>1, Sizes
<1>3. /\ IsOutBuffer(b) /\ b.offset = 3 /\ b.start = outBuf.start /\ b.limit = outBuf.limit /\ b.overflowSize = n
  <2>1. IsOutBuffer(b) /\ b.offset = outBuf.offset + 3 /\ b.start = outBuf.start /\ b.limit = outBuf.limit /\ b.overflowSize = n
    BY <1>1, <1>2, HeaderParts
  <2> HIDE DEF b
  <2> QED BY <1>1, <2>1
<1> HIDE DEF b, n
<1>4. IsOutBuffer(u) /\ u.offset = 3 + n /\ u.start = outBuf.start /\ u.limit = outBuf.limit
  <2>1. b.start + b.offset + b.overflowSize <= b.limit
    BY <1>1, <1>3
  <2>2. IsOutBuffer(u) /\ u.offset = b.offset + b.overflowSize /\ u.start = b.start /\ u.limit = b.limit
    BY <1>3, <2>1, UsedParts
  <2> HIDE DEF u
  <2> QED BY <1>3, <2>2
<1> DEFINE fr == [size |-> n, time |-> timestamp, completed |-> fragmenter.completed,
                      marker |-> pictureEndMarker, position |-> TimestampPosition(b)]
<1>5. AfterGettingFrame(u, fr)
  BY DEF PackOverflow, b, n
<1>6. fr.size = n /\ fr.marker = pictureEndMarker
  OBVIOUS
<1> HIDE DEF u, fr
<1>7. u.offset + n > MaxPacketSize
  BY <1>2, <1>4
<1>8. FrameOverflows(u, fr)
  <2>1. WouldOverflow(u, fr.size)
    BY <1>6, <1>7 DEF WouldOverflow
  <2> QED BY <1>5, <2>1, Zenon DEF AfterGettingFrame, FrameFits
<1>9. outBuf' = e /\ pictureEndMarker' = pictureEndMarker /\ sent' = sent /\ seqNo' = seqNo
  BY <1>6, <1>8, Zenon DEF FrameOverflows
<1>10. IsOutBuffer(e) /\ e.offset = 0 /\ e.overflowSize = n /\ e.start + 3 + n <= e.limit
  <2>1. u.offset >= 6 /\ u.start + u.offset <= u.limit /\ n > 0
    BY <1>1, <1>2, <1>4
  <2> QED BY <1>1, <1>2, <1>4, <2>1, KeptParts
<1> HIDE DEF e
<1> QED BY <1>9, <1>10 DEF n, Typed
-----------------------------------------------------------------------------
(* A frame more.                                                           *)

(* In t, the k-th is one longer than what made base of s.                  *)
Appends(S, s, t, k, r, x, base) ==
  /\ k \in Nat /\ k > 0 /\ r \in Seq(S) /\ x \in S /\ t[k] = Append(r, x)
  /\ \A i \in 1 .. k : t[i] \in Seq(S)
  /\ \A i \in 1 .. k - 1 : s[i] = t[i]
  /\ AreJoined(S, Flat(s, k - 1), r, base)

LEMMA FlatAppends ==
  ASSUME NEW S, NEW s, NEW t, NEW k, NEW r, NEW x, NEW base, Appends(S, s, t, k, r, x, base)
  PROVE  Flat(t, k) = Append(base, x)
<1> DEFINE w == Flat(s, k - 1)
           c == Append(base, x)
<1>0. /\ k \in Nat /\ k > 0 /\ r \in Seq(S) /\ x \in S /\ t[k] = Append(r, x)
      /\ \A i \in 1 .. k : t[i] \in Seq(S)
      /\ \A i \in 1 .. k - 1 : s[i] = t[i]
      /\ AreJoined(S, Flat(s, k - 1), r, base)
  BY DEF Appends
<1>1. k - 1 \in Nat /\ k \in 1 .. k /\ k - 1 \in 0 .. k
  BY <1>0
<1>2. Flat(s, k - 1) = Flat(t, k - 1)
  BY <1>0, <1>1, FlatSame
<1>3. Flat(t, k - 1) \in Seq(S)
  BY <1>0, <1>1, FlatTyped
<1>4. w \in Seq(S)
  BY <1>2, <1>3
<1>5. AreJoined(S, w, t[k], Flat(t, k))
  BY <1>0, <1>2, FlatJoins
<1> HIDE DEF w
<1>6. /\ base \in Seq(S) /\ Len(base) = Len(w) + Len(r)
      /\ \A i \in 1 .. Len(w) : base[i] = w[i]
      /\ \A i \in 1 .. Len(r) : base[Len(w) + i] = r[i]
  BY <1>0 DEF AreJoined, w
<1>7. /\ Len(w) \in Nat /\ Len(r) \in Nat /\ Len(t[k]) = Len(r) + 1
      /\ Len(base) = Len(w) + Len(r)
  BY <1>0, <1>4, <1>6
<1>8. c \in Seq(S) /\ Len(c) = Len(w) + Len(t[k])
  <2>1. base \in Seq(S) /\ x \in S
    BY <1>0, <1>6
  <2> QED BY <1>7, <2>1
<1>9. \A i \in 1 .. Len(w) : c[i] = w[i]
  BY <1>6, <1>7
<1>10. ASSUME NEW i \in 1 .. Len(t[k])
       PROVE  c[Len(w) + i] = t[k][i]
  <2>1. CASE i \in 1 .. Len(r)
    <3>1. Len(w) + i \in 1 .. Len(base)
      BY <1>6, <1>7, <2>1
    <3>2. c[Len(w) + i] = base[Len(w) + i]
      BY <1>6, <3>1
    <3>3. t[k][i] = r[i]
      BY <1>0, <2>1
    <3> QED BY <1>6, <2>1, <3>2, <3>3
  <2>2. CASE i \notin 1 .. Len(r)
    <3>1. i = Len(r) + 1 /\ Len(w) + i = Len(base) + 1
      <4>1. i \in 1 .. Len(r) + 1
        BY <1>7
      <4> QED BY <1>7, <2>2, <4>1
    <3>2. c[Len(base) + 1] = x /\ t[k][Len(r) + 1] = x
      BY <1>0, <1>6
    <3> QED BY <3>1, <3>2
  <2> QED BY <2>1, <2>2
<1> HIDE DEF c
<1>11. AreJoined(S, w, t[k], c)
  BY <1>8, <1>9, <1>10 DEF AreJoined
<1>12. t[k] \in Seq(S)
  BY <1>0, <1>1
<1>13. Flat(t, k) = c
  BY <1>4, <1>5, <1>11, <1>12, JoinedOnce
<1> QED BY <1>13 DEF c

LEMMA JoinedNothing ==
  ASSUME NEW S, NEW s \in Seq(S)
  PROVE  AreJoined(S, s, <<>>, s)
<1>1. Len(<<>>) = 0 /\ Len(s) = Len(s) + 0 /\ 1 .. 0 = {}
  OBVIOUS
<1> QED BY <1>1 DEF AreJoined

LEMMA SkippedAppends ==
  ASSUME NEW h \in Seq(Seq(Octets)), NEW x \in Seq(Octets)
  PROVE  Skipped(Append(h, x)) = IF Len(h) = 0 THEN SkipSpecialHeader(x)
                                 ELSE Skipped(h) \o SkipSpecialHeader(x)
<1> DEFINE c == Append(h, x)
           n == Len(h) + 1
           s == [i \in DOMAIN h |-> SkipSpecialHeader(h[i])]
           t == [i \in DOMAIN c |-> SkipSpecialHeader(c[i])]
<1>1. /\ Len(c) = n /\ n \in Nat /\ n > 0 /\ n - 1 = Len(h) /\ Len(h) \in Nat
      /\ DOMAIN h = 1 .. Len(h) /\ DOMAIN c = 1 .. n
      /\ c[n] = x /\ \A i \in 1 .. Len(h) : c[i] = h[i]
  OBVIOUS
<1> HIDE DEF c, n
<1>2. t[n] = SkipSpecialHeader(x) /\ \A i \in 1 .. Len(h) : s[i] = t[i]
  BY <1>1
<1> HIDE DEF s, t
<1>3. Flat(t, n) = IF n = 1 THEN t[1] ELSE Flat(t, n - 1) \o t[n]
  BY <1>1, FlatStep
<1>4. Flat(s, Len(h)) = Flat(t, Len(h))
  BY <1>1, <1>2, FlatSame
<1>5. n = 1 <=> Len(h) = 0
  BY <1>1
<1>6. Skipped(c) = Flat(t, n) /\ Skipped(h) = Flat(s, Len(h))
  BY <1>1 DEF Skipped, s, t
<1> QED BY <1>1, <1>2, <1>3, <1>4, <1>5, <1>6 DEF c

-----------------------------------------------------------------------------
(* What the three steps that deliver a frame have in common: the fragmenter *)
(* f is asked for one, of a unit just read or of the one that it has.       *)
Fresh(soFar) ==
  /\ fragmenter.valid = 1 /\ soFar = <<>>
  /\ Len(nals') = Len(nals) + 1 /\ \A k \in 1 .. Len(nals) : nals'[k] = nals[k]

Resumed(soFar) ==
  fragmenter.valid > 1 /\ Len(nals) > 0 /\ soFar = frames[Len(nals)] /\ nals' = nals

FrameStep(f, marker, soFar) ==
  /\ f \in Fragmenters /\ Ready(f) /\ f.maxSize = MaxOutput
  /\ f.to = outBuf.offset + RtpHeaderSize
  /\ marker \in BOOLEAN /\ timestamp' \in Nat /\ reads' \in Nat
  /\ PackFragment(WithHeader(outBuf), f, marker, soFar)
  /\ nals' \in Seq(Seq(Octets)) /\ Len(nals') <= MaxNals
  /\ Fresh(soFar) \/ Resumed(soFar)
  /\ pauses = 0 => /\ f.offset = fragmenter.offset
                   /\ IsUnit(nals'[Len(nals')]) /\ Holds(f, nals'[Len(nals')])

LEMMA FrameParts ==
  ASSUME Typed, Empty \/ LeftOver, NEW f, NEW marker, NEW soFar, FrameStep(f, marker, soFar)
  PROVE  LET out == Fragment(f)
         IN  /\ out.frame \in Seq(Octets) /\ Len(out.frame) > 0
             /\ out.next \in Fragmenters /\ Rests(out.next) /\ SameAsked(f, out.next)
             /\ out.next.completed <=> out.next.valid = 1
             /\ fragmenter' = out.next
             /\ frames' = [frames EXCEPT ![Len(nals')] = Append(soFar, out.frame)]
             /\ GoesOut(out.frame, out.next.completed, marker) \/ IsKept(out.frame, marker)
             /\ looping
             /\ UNCHANGED <<inputBufferSize, source, looping, pauses>>
<1> DEFINE out == Fragment(f)
           s == out.frame
           n == Len(s)
           b == WithHeader(outBuf)
           fr == [size |-> n, time |-> timestamp', completed |-> out.next.completed,
                      marker |-> marker, position |-> TimestampPosition(b)]
<1>1. /\ f \in Fragmenters /\ Ready(f) /\ f.maxSize = MaxOutput /\ f.maxSize > 3
      /\ inputBufferSize \in Nat /\ timestamp' \in Nat
  BY Sizes DEF FrameStep, Typed
<1>2. /\ s \in Seq(Octets) /\ n \in 1 .. MaxOutput
      /\ out.next \in Fragmenters /\ SameAsked(f, out.next) /\ Rests(out.next)
      /\ out.next.completed <=> out.next.valid = 1
  BY <1>1, FragmentParts
<1>3. /\ fragmenter' = out.next
      /\ frames' = [frames EXCEPT ![Len(nals')] = Append(soFar, s)]
      /\ AfterGettingFrame([b EXCEPT !.buff = Copy(@, f.to, s, n)], fr)
      /\ looping
      /\ UNCHANGED <<inputBufferSize, source, looping, pauses>>
  BY Zenon DEF FrameStep, PackFragment
<1>4. /\ fr.size = n /\ fr.completed = out.next.completed /\ fr.marker = marker
      /\ fr.position = TimestampPosition(b) /\ fr.time = timestamp'
  OBVIOUS
<1> HIDE DEF fr
<1>5. f.to = outBuf.offset + RtpHeaderSize
  BY DEF FrameStep
<1> HIDE DEF out
<1>6. GoesOut(s, fr.completed, fr.marker) \/ IsKept(s, fr.marker)
  <2> HIDE DEF s
  <2> DEFINE to == f.to
  <2>1. AfterGettingFrame([b EXCEPT !.buff = Copy(@, to, s, Len(s))], fr)
    BY <1>3
  <2>2. fr.time \in Nat /\ fr.size = Len(s) /\ to = outBuf.offset + RtpHeaderSize
    BY <1>1, <1>4, <1>5
  <2> HIDE DEF to
  <2> QED BY <1>2, <1>4, <2>1, <2>2, GotFrame
<1>7. GoesOut(s, out.next.completed, marker) \/ IsKept(s, marker)
  BY <1>4, <1>6
<1>8. Len(s) > 0
  BY <1>2
<1> QED BY <1>2, <1>3, <1>7, <1>8 DEF out

(* The frame is one more behind all the others.                            *)
LEMMA FrameAppends ==
  ASSUME Typed, NEW f, NEW marker, NEW soFar, FrameStep(f, marker, soFar),
         NEW x \in Seq(Octets),
         frames' = [frames EXCEPT ![Len(nals')] = Append(soFar, x)]
  PROVE  /\ Upto(Len(nals)) \in Seq(Seq(Octets))
         /\ Upto(Len(nals))' = Append(Upto(Len(nals)), x)
         /\ \A k \in 1 .. Len(nals') - 1 : Upto(k)' = Upto(k)
         /\ frames' \in [1 .. MaxNals -> Seq(Seq(Octets))]
         /\ \A k \in Len(nals') + 1 .. MaxNals : frames'[k] = <<>>
         /\ Len(nals') \in 1 .. MaxNals
         /\ \A k \in 1 .. Len(nals') - 1 : frames'[k] = frames[k]
         /\ frames'[Len(nals')] = Append(soFar, x) /\ soFar \in Seq(Seq(Octets))
<1> DEFINE S == Seq(Octets)
           m == Len(nals')
           j == Len(nals)
           N == MaxNals
<1>1. /\ j \in Nat /\ m \in Nat /\ N \in Nat /\ m <= N /\ j <= N
      /\ frames \in [1 .. N -> Seq(S)] /\ \A k \in j + 1 .. N : frames[k] = <<>>
      /\ x \in S
  BY Sizes DEF Typed, FrameStep
<1>2. (m = j + 1 /\ soFar = <<>>) \/ (m = j /\ j > 0 /\ soFar = frames[j])
  BY DEF FrameStep, Fresh, Resumed
<1> HIDE DEF m, j, N, S
<1>3. m \in 1 .. N /\ (m = j => j \in 1 .. N) /\ m > 0 /\ m - 1 \in Nat
  BY <1>1, <1>2
<1>4. soFar \in Seq(S)
  <2>1. <<>> \in Seq(S)
    OBVIOUS
  <2> QED BY <1>1, <1>2, <1>3, <2>1
<1>5. Append(soFar, x) \in Seq(S)
  BY <1>1, <1>4
<1>6. /\ frames' \in [1 .. N -> Seq(S)] /\ frames'[m] = Append(soFar, x)
      /\ \A k \in 1 .. N : k # m => frames'[k] = frames[k]
  BY <1>1, <1>3, <1>5 DEF m
<1>7. \A k \in m + 1 .. N : frames'[k] = <<>>
  <2>1. \A k \in m + 1 .. N : k \in 1 .. N /\ k # m /\ k \in j + 1 .. N
    BY <1>1, <1>2, <1>3
  <2> QED BY <1>1, <1>6, <2>1
<1>8. \A k \in 1 .. m - 1 : frames'[k] = frames[k]
  <2>1. \A k \in 1 .. m - 1 : k \in 1 .. N /\ k # m
    BY <1>1, <1>3
  <2> QED BY <1>6, <2>1
<1>9. ASSUME NEW k \in 1 .. m - 1
      PROVE  Flat(frames', k) = Flat(frames, k)
  <2>1. k \in Nat /\ \A i \in 1 .. k : i \in 1 .. m - 1
    BY <1>3
  <2>2. \A i \in 1 .. k : frames'[i] = frames[i]
    BY <1>8, <2>1
  <2> QED BY <2>1, <2>2, FlatSame
<1> DEFINE base == Flat(frames, j)
<1>10. base \in Seq(S)
  <2>1. \A i \in 1 .. j : frames[i] \in Seq(S)
    <3>1. \A i \in 1 .. j : i \in 1 .. N
      BY <1>1
    <3> QED BY <1>1, <3>1
  <2>2. j \in 0 .. j
    BY <1>1
  <2> QED BY <1>1, <2>1, <2>2, FlatTyped
<1>11. AreJoined(S, Flat(frames, m - 1), soFar, base)
  <2>1. CASE m = j + 1 /\ soFar = <<>>
    <3>1. m - 1 = j
      BY <1>1, <2>1
    <3> QED BY <1>10, <2>1, <3>1, JoinedNothing
  <2>2. CASE m = j /\ j > 0 /\ soFar = frames[j]
    <3>1. \A i \in 1 .. j : frames[i] \in Seq(S)
      <4>1. \A i \in 1 .. j : i \in 1 .. N
        BY <1>1
      <4> QED BY <1>1, <4>1
    <3> QED BY <1>1, <2>2, <3>1, FlatJoins
  <2> QED BY <1>2, <2>1, <2>2
<1> HIDE DEF base
<1>12. Flat(frames', m) = Append(base, x)
  <2>1. \A i \in 1 .. m : frames'[i] \in Seq(S)
    <3>1. \A i \in 1 .. m : i \in 1 .. N
      BY <1>1
    <3> QED BY <1>6, <3>1
  <2>2. \A i \in 1 .. m - 1 : frames[i] = frames'[i]
    BY <1>8
  <2> DEFINE s == frames
             t == frames'
  <2>3. /\ m \in Nat /\ m > 0 /\ soFar \in Seq(S) /\ x \in S /\ t[m] = Append(soFar, x)
        /\ AreJoined(S, Flat(s, m - 1), soFar, base)
        /\ \A i \in 1 .. m : t[i] \in Seq(S)
        /\ \A i \in 1 .. m - 1 : s[i] = t[i]
    BY <1>1, <1>3, <1>4, <1>6, <1>11, <2>1, <2>2
  <2> HIDE DEF s, t
  <2>4. Appends(S, s, t, m, soFar, x, base)
    BY <2>3 DEF Appends
  <2>5. Flat(t, m) = Append(base, x)
    BY <2>4, FlatAppends
  <2> QED BY <2>5 DEF t
<1>13. Upto(Len(nals))' = Flat(frames', m)
  BY DEF Upto, m
<1>14. /\ Upto(Len(nals)) = base
       /\ \A k \in 1 .. Len(nals') - 1 : Upto(k)' = Flat(frames', k) /\ Upto(k) = Flat(frames, k)
  BY DEF Upto, base, j
<1> QED BY <1>3, <1>4, <1>6, <1>7, <1>8, <1>9, <1>10, <1>12, <1>13, <1>14 DEF m, S, N

(* What ended a unit still does: the frame belongs to a later one, or to    *)
(* the one that has not ended.                                              *)
LEMMA EndsStay ==
  ASSUME Typed, NEW f, NEW marker, NEW soFar, FrameStep(f, marker, soFar),
         NEW x \in Seq(Octets),
         frames' = [frames EXCEPT ![Len(nals')] = Append(soFar, x)],
         NEW i, Ends(i)
  PROVE  Ends(i)'
<1>1. PICK k \in 1 .. Len(nals) : i = Len(Upto(k)) /\ (k < Len(nals) \/ fragmenter.valid = 1)
  BY DEF Ends
<1>2. /\ Len(nals) \in Nat /\ Len(nals') \in Nat
      /\ Fresh(soFar) \/ Resumed(soFar)
  BY DEF Typed, FrameStep
<1>3. k \in 1 .. Len(nals') - 1
  <2>1. CASE Fresh(soFar)
    <3>1. Len(nals') = Len(nals) + 1
      BY <2>1 DEF Fresh
    <3> QED BY <1>2, <3>1
  <2>2. CASE Resumed(soFar)
    <3>1. fragmenter.valid > 1 /\ fragmenter.valid \in Nat /\ Len(nals') = Len(nals)
      BY <2>2 DEF Resumed, Typed, Fragmenters
    <3>2. k < Len(nals)
      BY <1>1, <3>1
    <3> QED BY <1>2, <3>1, <3>2
  <2> QED BY <1>2, <2>1, <2>2
<1>4. Upto(k)' = Upto(k)
  BY <1>3, FrameAppends
<1>5. k \in 1 .. Len(nals') /\ k < Len(nals')
  BY <1>2, <1>3
<1>6. i = Len(Upto(k)')
  BY <1>1, <1>4
<1> QED BY <1>5, <1>6 DEF Ends

LEMMA FramePackets ==
  ASSUME Typed, Packets, Empty \/ LeftOver,
         NEW f, NEW marker, NEW soFar, FrameStep(f, marker, soFar)
  PROVE  Packets' /\ sent' \in Seq(Seq(Octets))
<1> DEFINE x == Fragment(f).frame
           next == Fragment(f).next
           F == Upto(Len(nals))
<1>0. PICK n \in Nat : n = Len(sent)
  BY DEF Typed
<1>1. /\ x \in Seq(Octets) /\ Len(x) > 0
      /\ next.completed <=> next.valid = 1
      /\ fragmenter' = next
      /\ frames' = [frames EXCEPT ![Len(nals')] = Append(soFar, x)]
      /\ GoesOut(x, next.completed, marker) \/ IsKept(x, marker)
      /\ pauses' = pauses
  BY FrameParts
<1> HIDE DEF x, next
<1>2. /\ F \in Seq(Seq(Octets)) /\ Upto(Len(nals))' = Append(F, x)
      /\ Len(nals') \in 1 .. MaxNals
  BY <1>1, FrameAppends
<1>3. ~(outBuf.overflowSize > 0)
  BY DEF Empty, LeftOver
<1>4. /\ Len(F) = n
      /\ \A i \in 1 .. n : Carries(sent[i], F[i], NumberOf(i)) /\ (sent[i][1][4] = 1 => Ends(i))
      /\ pauses = 0 => \A i \in 1 .. n : Len(sent[i]) = RtpHeaderSize + Len(F[i])
  <2>1. Len(F) = n + 0
    BY <1>0, <1>3 DEF Packets
  <2>2. \A i \in 1 .. n : Carries(sent[i], F[i], NumberOf(i)) /\ (sent[i][1][4] = 1 => Ends(i))
    BY <1>0 DEF Packets
  <2>3. pauses = 0 => \A i \in 1 .. n : Len(sent[i]) = RtpHeaderSize + Len(F[i])
    BY <1>0 DEF Packets
  <2> QED BY <2>1, <2>2, <2>3
<1> HIDE DEF F
<1> DEFINE G == Append(F, x)
<1>5. /\ G \in Seq(Seq(Octets)) /\ Len(G) = n + 1 /\ G[n + 1] = x
      /\ \A i \in 1 .. n : G[i] = F[i]
  BY <1>1, <1>2, <1>4
<1> HIDE DEF G
<1>6. Upto(Len(nals))' = G
  BY <1>2 DEF G
<1>7. n = Len(sent) /\ n \in Nat /\ seqNo \in Nat /\ sent \in Seq(Seq(Octets))
  BY <1>0 DEF Typed
<1>8. \A i \in 1 .. n : sent[i][1][4] = 1 => Ends(i)'
  BY <1>1, <1>4, EndsStay
<1>9. CASE GoesOut(x, next.completed, marker)
  <2>1. PICK p : /\ sent' = Append(sent, p) /\ Carries(p, x, seqNo)
                 /\ p[1][4] = 1 => next.completed /\ marker
                 /\ Len(p) = outBuf.offset + RtpHeaderSize + Len(x)
    BY <1>9 DEF GoesOut
  <2>2. seqNo' = seqNo + 1 /\ outBuf'.overflowSize = 0
    BY <1>9 DEF GoesOut, Empty
  <2>3. p \in Seq(Octets)
    BY <2>1 DEF Carries
  <2>4. /\ sent' \in Seq(Seq(Octets)) /\ Len(sent') = n + 1 /\ sent'[n + 1] = p
        /\ \A i \in 1 .. n : sent'[i] = sent[i]
    BY <1>7, <2>1, <2>3
  <2>5. ASSUME NEW i \in 1 .. n
        PROVE  Carries(sent'[i], G[i], NumberOf(i)') /\ (sent'[i][1][4] = 1 => Ends(i)')
    <3>1. NumberOf(i)' = NumberOf(i)
      BY <1>7, <2>2, <2>4 DEF NumberOf
    <3> QED BY <1>4, <1>5, <1>8, <2>4, <3>1
  <2>6. Carries(sent'[n + 1], G[n + 1], NumberOf(n + 1)')
    <3>1. NumberOf(n + 1)' = seqNo
      BY <1>7, <2>2, <2>4 DEF NumberOf
    <3> QED BY <1>5, <2>1, <2>4, <3>1
  <2>7. sent'[n + 1][1][4] = 1 => Ends(n + 1)'
    <3> SUFFICES ASSUME sent'[n + 1][1][4] = 1 PROVE Ends(n + 1)'
      OBVIOUS
    <3>1. next.completed
      BY <2>1, <2>4
    <3>2. fragmenter'.valid = 1
      BY <1>1, <3>1
    <3>3. Len(nals') \in 1 .. Len(nals')
      BY <1>2
    <3>4. n + 1 = Len(Upto(Len(nals))')
      BY <1>5, <1>6
    <3>5. Upto(Len(nals))' = Flat(frames', Len(nals'))
      BY DEF Upto
    <3> QED BY <3>2, <3>3, <3>4, <3>5 DEF Ends, Upto
  <2>8. ASSUME NEW i \in 1 .. Len(sent')
        PROVE  Carries(sent'[i], G[i], NumberOf(i)') /\ (sent'[i][1][4] = 1 => Ends(i)')
    <3>1. i \in 1 .. n \/ i = n + 1
      BY <1>7, <2>4
    <3>2. CASE i = n + 1
      BY <2>6, <2>7, <3>2
    <3> QED BY <2>5, <3>1, <3>2
  <2>9. Len(G) = Len(sent') + (IF outBuf'.overflowSize > 0 THEN 1 ELSE 0)
    BY <1>5, <1>7, <2>2, <2>4
  <2>10. ASSUME pauses' = 0, NEW i \in 1 .. Len(sent')
         PROVE  Len(sent'[i]) = RtpHeaderSize + Len(G[i])
    <3>1. i \in 1 .. n \/ i = n + 1
      BY <1>7, <2>4
    <3>2. CASE i \in 1 .. n
      BY <1>1, <1>4, <1>5, <2>4, <2>10, <3>2
    <3>3. CASE i = n + 1
      <4>1. outBuf.offset = 0
        BY <1>1, <2>10 DEF Empty, LeftOver
      <4>2. Len(x) \in Nat
        BY <1>1
      <4>3. Len(p) = RtpHeaderSize + Len(x)
        BY <2>1, <4>1, <4>2, Sizes
      <4> QED BY <1>5, <2>4, <3>3, <4>3
    <3> QED BY <3>1, <3>2, <3>3
  <2> QED BY <1>6, <2>4, <2>8, <2>9, <2>10 DEF Packets
<1>10. CASE IsKept(x, marker)
  <2>1. sent' = sent /\ seqNo' = seqNo /\ outBuf'.overflowSize > 0
    BY <1>1, <1>10 DEF IsKept
  <2>2. ASSUME NEW i \in 1 .. Len(sent')
        PROVE  Carries(sent'[i], G[i], NumberOf(i)') /\ (sent'[i][1][4] = 1 => Ends(i)')
    <3>1. i \in 1 .. n /\ NumberOf(i)' = NumberOf(i)
      BY <1>7, <2>1 DEF NumberOf
    <3> QED BY <1>4, <1>5, <1>8, <2>1, <3>1
  <2>3. Len(G) = Len(sent') + (IF outBuf'.overflowSize > 0 THEN 1 ELSE 0)
    BY <1>5, <1>7, <2>1
  <2>4. sent' \in Seq(Seq(Octets))
    BY <1>7, <2>1
  <2>5. ASSUME pauses' = 0, NEW i \in 1 .. Len(sent')
        PROVE  Len(sent'[i]) = RtpHeaderSize + Len(G[i])
    <3>1. i \in 1 .. n
      BY <1>7, <2>1
    <3> QED BY <1>1, <1>4, <1>5, <2>1, <2>5, <3>1
  <2> QED BY <1>6, <2>2, <2>3, <2>4, <2>5 DEF Packets
<1> QED BY <1>1, <1>9, <1>10

LEMMA PiecesAppend ==
  ASSUME NEW h \in Seq(Seq(Octets)), Pieces(h), NEW x \in Seq(Octets),
         SkipSpecialHeader(x) \in Seq(Octets), Len(SkipSpecialHeader(x)) > 0
  PROVE  Pieces(Append(h, x))
<1> SUFFICES ASSUME NEW j \in 1 .. Len(Append(h, x))
             PROVE  /\ SkipSpecialHeader(Append(h, x)[j]) \in Seq(Octets)
                    /\ Len(SkipSpecialHeader(Append(h, x)[j])) > 0
  BY DEF Pieces
<1>1. CASE j \in 1 .. Len(h)
  <2>1. Append(h, x)[j] = h[j]
    BY <1>1
  <2> QED BY <1>1, <2>1 DEF Pieces
<1>2. CASE j \notin 1 .. Len(h)
  <2>1. Append(h, x)[j] = x
    BY <1>2
  <2> QED BY <2>1
<1> QED BY <1>1, <1>2

LEMMA FrameUnits ==
  ASSUME Typed, Units, Empty \/ LeftOver,
         NEW f, NEW marker, NEW soFar, FrameStep(f, marker, soFar)
  PROVE  Units'
<1> DEFINE x == Fragment(f).frame
           next == Fragment(f).next
           d == SkipSpecialHeader(x)
<1>1. /\ x \in Seq(Octets) /\ fragmenter' = next
      /\ next \in Fragmenters
      /\ frames' = [frames EXCEPT ![Len(nals')] = Append(soFar, x)]
      /\ UNCHANGED <<inputBufferSize, source, looping, pauses>>
  BY FrameParts
<1> SUFFICES ASSUME pauses = 0, NEW k \in 1 .. Len(nals')
             PROVE  /\ IsUnit(nals'[k]) /\ Pieces(frames'[k])
                    /\ IF k < Len(nals') \/ next.valid = 1 THEN Skipped(frames'[k]) = nals'[k]
                       ELSE IsBegun(next, Skipped(frames'[k]), nals'[k]) /\ Holds(next, nals'[k])
  <2>1. pauses' = 0 <=> pauses = 0
    BY <1>1
  <2> HIDE DEF x, next
  <2>2. Units' <=> (pauses' = 0 => \A k \in 1 .. Len(nals') :
                      /\ IsUnit(nals'[k]) /\ Pieces(frames'[k])
                      /\ IF k < Len(nals') \/ next.valid = 1 THEN Skipped(frames'[k]) = nals'[k]
                         ELSE IsBegun(next, Skipped(frames'[k]), nals'[k]) /\ Holds(next, nals'[k]))
    BY <1>1 DEF Units
  <2> QED BY <2>1, <2>2
<1>2. /\ Len(nals) \in Nat /\ Len(nals') \in Nat /\ inputBufferSize \in Nat
      /\ fragmenter \in Fragmenters /\ Rests(fragmenter)
      /\ Fresh(soFar) \/ Resumed(soFar)
      /\ f \in Fragmenters /\ Ready(f) /\ f.maxSize > 3
  BY Sizes DEF Typed, FrameStep
<1>3. fragmenter.valid \in Nat /\ fragmenter.offset \in Nat
  BY <1>2 DEF Fragmenters
<1>4. /\ \A j \in 1 .. Len(nals') - 1 : frames'[j] = frames[j]
      /\ frames'[Len(nals')] = Append(soFar, x)
      /\ soFar \in Seq(Seq(Octets))
  BY <1>1, FrameAppends
<1>5. CASE k < Len(nals')
  <2>1. /\ k \in 1 .. Len(nals) /\ (k < Len(nals) \/ fragmenter.valid = 1) /\ nals'[k] = nals[k]
    <3>1. CASE Fresh(soFar)
      BY <1>2, <1>5, <3>1 DEF Fresh
    <3>2. CASE Resumed(soFar)
      BY <1>2, <1>5, <3>2 DEF Resumed
    <3> QED BY <1>2, <3>1, <3>2
  <2>2. frames'[k] = frames[k]
    <3>1. k \in 1 .. Len(nals') - 1
      BY <1>2, <1>5
    <3> QED BY <1>4, <3>1
  <2>3. IsUnit(nals[k]) /\ Pieces(frames[k]) /\ Skipped(frames[k]) = nals[k]
    BY <2>1 DEF Units
  <2> QED BY <1>5, <2>1, <2>2, <2>3
<1>6. CASE k = Len(nals')
  <2> DEFINE u == nals'[Len(nals')]
             w == Skipped(Append(soFar, x))
  <2>1. f.offset = fragmenter.offset /\ IsUnit(u) /\ Holds(f, u)
    BY DEF FrameStep
  <2>2. Piece(f, next, u, d)
    BY <1>2, <2>1, FragmentOfUnit
  <2> HIDE DEF next
  <2>3. w = IF Len(soFar) = 0 THEN d ELSE Skipped(soFar) \o d
    <3> HIDE DEF x
    <3> QED BY <1>1, <1>4, SkippedAppends
  <2> HIDE DEF x, u, d
  <2>4. /\ d \in Seq(Octets) /\ Len(d) > 0
        /\ \A i \in 1 .. Len(d) : d[i] = u[f.offset - 1 + i]
        /\ next.valid = 1 => Len(d) = Len(u) - (f.offset - 1)
        /\ next.valid # 1 => Len(d) = next.offset - f.offset /\ Holds(next, u)
    BY <2>2 DEF Piece
  <2>5. /\ w \in Seq(Octets) /\ Len(w) = f.offset - 1 + Len(d)
        /\ \A i \in 1 .. Len(w) : w[i] = u[i]
    <3>1. CASE Fresh(soFar)
      <4>1. f.offset = 1
        BY <1>2, <1>3, <2>1, <3>1 DEF Fresh, Rests
      <4>2. w = d
        <5>1. Len(soFar) = 0
          BY <3>1 DEF Fresh
        <5> QED BY <2>3, <5>1
      <4>3. Len(d) \in Nat /\ 1 - 1 + Len(d) = Len(d) /\ \A i \in 1 .. Len(d) : 1 - 1 + i = i
        BY <2>4
      <4> HIDE DEF w
      <4> QED BY <2>4, <4>1, <4>2, <4>3
    <3>2. CASE Resumed(soFar)
      <4> DEFINE v == Skipped(soFar)
                 o == f.offset
                 j == Len(nals)
      <4>1. /\ fragmenter.valid > 1 /\ j > 0 /\ soFar = frames[j] /\ u = nals[j]
        BY <3>2 DEF Resumed, u
      <4>2. ~(j < j \/ fragmenter.valid = 1) /\ j \in 1 .. Len(nals)
        BY <1>2, <1>3, <4>1
      <4>3. IsBegun(fragmenter, Skipped(frames[j]), nals[j])
        <5> HIDE DEF j
        <5>1. j < Len(nals) <=> j < j
          BY DEF j
        <5> QED BY <4>2, <5>1 DEF Units
      <4>4. v \in Seq(Octets) /\ Len(v) = o - 1 /\ \A i \in 1 .. Len(v) : v[i] = u[i]
        BY <2>1, <4>1, <4>3 DEF IsBegun
      <4>5. o > 3 /\ o \in Nat
        BY <1>2, <1>3, <2>1, <4>1 DEF Rests
      <4>6. Len(soFar) # 0
        <5> SUFFICES ASSUME Len(soFar) = 0 PROVE FALSE
          OBVIOUS
        <5>1. Flat([i \in DOMAIN soFar |-> SkipSpecialHeader(soFar[i])], 0) = <<>>
          BY DEF Flat
        <5>2. v = <<>>
          BY <5>1 DEF Skipped
        <5>3. Len(v) = 0
          BY <5>2
        <5> QED BY <4>4, <4>5, <5>3
      <4>7. w = v \o d
        BY <2>3, <4>6
      <4> HIDE DEF w, v, o
      <4>8. w \in Seq(Octets) /\ Len(w) = Len(v) + Len(d)
        BY <2>4, <4>4, <4>7, ConcatProperties
      <4>9. ASSUME NEW i \in 1 .. Len(w)
            PROVE  w[i] = u[i]
        <5>1. CASE i <= Len(v)
          <6>1. i \in 1 .. Len(v)
            BY <5>1
          <6>2. w[i] = v[i]
            BY <2>4, <4>4, <4>7, <6>1
          <6> QED BY <4>4, <6>1, <6>2
        <5>2. CASE i > Len(v)
          <6>1. /\ i - Len(v) \in 1 .. Len(d) /\ o - 1 + (i - Len(v)) = i
            BY <2>4, <4>4, <4>5, <4>8, <5>2
          <6>2. w[i] = d[i - Len(v)]
            BY <2>4, <4>4, <4>7, <4>8, <5>2
          <6>3. d[i - Len(v)] = u[o - 1 + (i - Len(v))]
            BY <2>4, <6>1 DEF o
          <6> QED BY <6>1, <6>2, <6>3
        <5>3. i \in Nat /\ Len(v) \in Nat
          BY <4>4
        <5> QED BY <5>1, <5>2, <5>3
      <4>10. Len(w) = f.offset - 1 + Len(d)
        BY <4>4, <4>8 DEF o
      <4> QED BY <4>8, <4>9, <4>10
    <3> QED BY <1>2, <3>1, <3>2
  <2> HIDE DEF w
  <2>p. Pieces(frames'[k])
    <3>1. Pieces(soFar)
      <4>1. CASE Fresh(soFar)
        <5>1. 1 .. Len(soFar) = {}
          BY <4>1 DEF Fresh
        <5> QED BY <5>1 DEF Pieces
      <4>2. CASE Resumed(soFar)
        <5>1. soFar = frames[Len(nals)] /\ Len(nals) \in 1 .. Len(nals)
          BY <1>2, <4>2 DEF Resumed
        <5> QED BY <5>1 DEF Units
      <4> QED BY <1>2, <4>1, <4>2
    <3>2. SkipSpecialHeader(x) \in Seq(Octets) /\ Len(SkipSpecialHeader(x)) > 0
      BY <2>4 DEF d
    <3>3. frames'[k] = Append(soFar, x)
      BY <1>4, <1>6
    <3> QED BY <1>1, <1>4, <3>1, <3>2, <3>3, PiecesAppend
  <2>6. f.offset \in Nat /\ next.offset \in Nat /\ Len(d) \in Nat /\ u \in Seq(Octets)
    <3>1. f.offset \in Nat /\ next.offset \in Nat
      <4>1. \A g \in Fragmenters : g.offset \in Nat
        BY DEF Fragmenters
      <4> QED BY <1>1, <1>2, <4>1
    <3>2. u \in Seq(Octets) /\ Len(d) \in Nat
      BY <2>1, <2>4 DEF IsUnit
    <3> QED BY <3>1, <3>2
  <2>7. CASE next.valid = 1
    <3>1. Len(w) = Len(u)
      BY <2>4, <2>5, <2>6, <2>7
    <3>2. w = u
      BY <2>5, <2>6, <3>1
    <3> QED BY <1>4, <1>6, <2>1, <2>7, <2>p, <3>2 DEF u, w
  <2>8. CASE next.valid # 1
    <3>1. Len(w) = next.offset - 1
      BY <2>4, <2>5, <2>6, <2>8
    <3>2. IsBegun(next, w, u)
      BY <1>1, <2>5, <3>1 DEF IsBegun
    <3>3. ~(k < Len(nals')) /\ nals'[k] = u /\ Skipped(frames'[k]) = w
      <4>1. ~(k < Len(nals'))
        BY <1>2, <1>6
      <4>2. nals'[k] = u
        BY <1>6 DEF u
      <4>3. frames'[k] = Append(soFar, x)
        BY <1>4, <1>6
      <4> QED BY <4>1, <4>2, <4>3 DEF w
    <3> QED BY <2>1, <2>4, <2>8, <2>p, <3>2, <3>3
  <2> QED BY <2>7, <2>8
<1> QED BY <1>2, <1>5, <1>6

LEMMA FrameRest ==
  ASSUME Typed, Looped, Empty \/ LeftOver, sent' \in Seq(Seq(Octets)),
         NEW f, NEW marker, NEW soFar, FrameStep(f, marker, soFar)
  PROVE  Typed' /\ Looped' /\ (Empty \/ LeftOver \/ Kept)'
<1> DEFINE x == Fragment(f).frame
           next == Fragment(f).next
<1>1. /\ x \in Seq(Octets) /\ Len(x) > 0
      /\ next \in Fragmenters /\ Rests(next) /\ SameAsked(f, next)
      /\ next.completed <=> next.valid = 1
      /\ fragmenter' = next
      /\ frames' = [frames EXCEPT ![Len(nals')] = Append(soFar, x)]
      /\ GoesOut(x, next.completed, marker) \/ IsKept(x, marker)
      /\ looping
      /\ UNCHANGED <<inputBufferSize, source, looping, pauses>>
  BY FrameParts
<1> HIDE DEF x, next
<1>2. /\ frames' \in [1 .. MaxNals -> Seq(Seq(Octets))]
      /\ \A k \in Len(nals') + 1 .. MaxNals : frames'[k] = <<>>
      /\ Len(nals') \in 1 .. MaxNals
  BY <1>1, FrameAppends
<1>3. /\ f.maxSize = MaxOutput /\ f.to = outBuf.offset + RtpHeaderSize
      /\ marker \in BOOLEAN /\ timestamp' \in Nat /\ reads' \in Nat
      /\ nals' \in Seq(Seq(Octets)) /\ Len(nals') <= MaxNals
  BY DEF FrameStep
<1>4. next.completed \in BOOLEAN /\ next.valid \in Nat /\ next.valid >= 1
  <2>1. \A g \in Fragmenters : g.completed \in BOOLEAN /\ g.valid \in 1 .. inputBufferSize
    BY DEF Fragmenters
  <2>2. \A k \in 1 .. inputBufferSize : k \in Nat /\ k >= 1
    BY DEF Typed
  <2> QED BY <1>1, <2>1, <2>2
<1>5. pictureEndMarker' \in BOOLEAN /\ seqNo' \in Nat /\ IsOutBuffer(outBuf')
  <2>1. seqNo \in Nat
    BY DEF Typed
  <2>2. CASE GoesOut(x, next.completed, marker)
    <3>1. pictureEndMarker' = (marker /\ ~next.completed) /\ seqNo' = seqNo + 1 /\ IsOutBuffer(outBuf')
      BY <2>2 DEF GoesOut
    <3>2. (marker /\ ~next.completed) \in BOOLEAN
      OBVIOUS
    <3> QED BY <2>1, <3>1, <3>2
  <2>3. CASE IsKept(x, marker)
    BY <1>3, <2>1, <2>3 DEF IsKept
  <2> QED BY <1>1, <2>2, <2>3
<1>6. Typed'
  <2>1. inputBufferSize' = inputBufferSize /\ Fragmenters' = Fragmenters
    BY <1>1 DEF Fragmenters
  <2>2. /\ inputBufferSize' \in Nat /\ inputBufferSize' > MaxPacketSize
        /\ source' \in BOOLEAN /\ looping' \in BOOLEAN /\ pauses' \in Nat
    BY <1>1 DEF Typed
  <2>3. fragmenter' \in Fragmenters' /\ Rests(fragmenter)'
    BY <1>1, <2>1 DEF Rests
  <2> QED BY <1>2, <1>3, <1>5, <2>2, <2>3 DEF Typed
<1>7. (Empty \/ Kept)'
  <2>1. CASE GoesOut(x, next.completed, marker)
    BY <2>1 DEF GoesOut
  <2>2. CASE IsKept(x, marker)
    BY <1>1, <2>2 DEF IsKept, LeftOver, Kept
  <2> QED BY <1>1, <2>1, <2>2
<1>8. nals' # <<>>
  <2>1. Len(<<>>) = 0 /\ Len(nals') # 0
    BY <1>2
  <2> QED BY <2>1
<1>9. pictureEndMarker' /\ outBuf'.overflowSize = 0 => next.valid > 1
  <2>1. CASE GoesOut(x, next.completed, marker)
    <3>1. pictureEndMarker' => ~next.completed
      BY <2>1 DEF GoesOut
    <3> QED BY <1>1, <1>4, <3>1
  <2>2. CASE IsKept(x, marker)
    <3>1. outBuf'.overflowSize # 0
      BY <1>1, <2>2 DEF IsKept
    <3> QED BY <3>1
  <2> QED BY <1>1, <2>1, <2>2
<1>10. pauses = 0 \/ ~source => next.to = RtpHeaderSize /\ next.maxSize = MaxOutput
  <2> SUFFICES ASSUME pauses = 0 \/ ~source PROVE next.to = RtpHeaderSize /\ next.maxSize = MaxOutput
    OBVIOUS
  <2>1. outBuf.offset = 0
    BY <1>1 DEF Empty, LeftOver
  <2>2. f.to = RtpHeaderSize
    BY <1>3, <2>1, Sizes
  <2> QED BY <1>1, <1>3, <2>2 DEF SameAsked
<1>11. (looping => source \/ pauses = 1) /\ ~(pauses = 0 /\ ~source)
  BY <1>1 DEF Looped
<1>12. Looped'
  BY <1>1, <1>8, <1>9, <1>10, <1>11 DEF Looped
<1> QED BY <1>6, <1>7, <1>12

LEMMA FrameKeeps ==
  ASSUME Inv, Empty \/ LeftOver,
         NEW f, NEW marker, NEW soFar, FrameStep(f, marker, soFar)
  PROVE  Inv'
<1>1. Typed /\ Looped /\ Packets /\ Units
  BY DEF Inv
<1>2. Packets' /\ sent' \in Seq(Seq(Octets))
  BY <1>1, FramePackets
<1>3. Units'
  BY <1>1, FrameUnits
<1>4. Typed' /\ Looped' /\ (Empty \/ LeftOver \/ Kept)'
  BY <1>1, <1>2, FrameRest
<1> QED BY <1>2, <1>3, <1>4 DEF Inv

-----------------------------------------------------------------------------
(* A unit is read.                                                         *)
LEMMA UnitParts ==
  ASSUME inputBufferSize \in Nat, inputBufferSize > 1, NEW k \in Nat, NEW n \in NalSizes,
         NEW saved \in 0 .. inputBufferSize - 1
  PROVE  LET u == NalUnit(k, n, saved)
         IN  /\ u \in Seq(Octets) /\ saved + Len(u) \in 1 .. inputBufferSize - 1
             /\ saved = 0 => IsUnit(u)
<1> DEFINE m == IF saved + n < inputBufferSize THEN n ELSE inputBufferSize - 1 - saved
           u == NalUnit(k, n, saved)
           t == (k % 23) + 1
           three == 3
<1>1. n \in Nat /\ n > 0
  BY SenderAssumption
<1>2. m \in Nat /\ saved + m \in 1 .. inputBufferSize - 1 /\ (saved = 0 => m > 0)
  BY <1>1
<1>3. t \in 1 .. 23 /\ t \in Nat /\ three \in Nat
  OBVIOUS
<1>4. u = [j \in 1 .. m |-> IF j = 1 THEN Nal(three, t) ELSE Data(k, j)]
  BY DEF NalUnit
<1> HIDE DEF m, t, three, u
<1>5. Nal(three, t) \in Octets /\ Nal(three, t)[2] = three /\ Nal(three, t)[3] = t
  BY <1>3, NalParts
<1>6. \A j \in 1 .. m : Data(k, j) \in Octets
  BY <1>2, OtherOctets
<1>7. u \in Seq(Octets) /\ Len(u) = m /\ (m > 0 => u[1] = Nal(three, t))
  BY <1>2, <1>4, <1>5, <1>6
<1>8. saved = 0 => IsUnit(u)
  BY <1>2, <1>3, <1>5, <1>7 DEF IsUnit
<1> QED BY <1>2, <1>7, <1>8 DEF u

LEMMA GettingParts ==
  ASSUME inputBufferSize \in Nat, NEW f \in Fragmenters, Rests(f), NEW u \in Seq(Octets),
         f.saved + Len(u) \in 1 .. inputBufferSize - 1, f.valid + (f.saved + Len(u)) <= inputBufferSize
  PROVE  LET g == AfterGettingNal(f, u)
         IN  /\ g \in Fragmenters /\ Ready(g) /\ g.to = f.to /\ g.maxSize = f.maxSize
             /\ g.offset = f.offset /\ g.valid = f.valid + (f.saved + Len(u))
             /\ f.saved = 0 /\ f.valid = 1 => Holds(g, u)
<1> DEFINE D == 0 .. inputBufferSize - 1
           i == 1 + f.saved
           n == Len(u)
           c == Copy(f.buffer, i, u, n)
           size == f.saved + n
           g == [f EXCEPT !.buffer = c, !.valid = @ + size, !.saved = size]
<1>1. /\ f.buffer \in [D -> Octets] /\ f.saved \in Nat /\ f.valid \in Nat /\ f.valid >= 1
      /\ f.offset \in Nat /\ n \in Nat /\ i \in Nat /\ n <= Len(u) /\ D \subseteq Int
  BY DEF Fragmenters
<1>2. size \in 1 .. inputBufferSize - 1 /\ f.valid + size \in 1 .. inputBufferSize
  BY <1>1
<1>3. AfterGettingNal(f, u) = g
  BY Zenon DEF AfterGettingNal
<1> HIDE DEF i, n
<1>4. /\ c \in [D -> Octets]
      /\ \A k \in D : c[k] = IF k \in i .. i + n - 1 THEN u[k - i + 1] ELSE f.buffer[k]
  <2> HIDE DEF D
  <2>1. IsCopy(D, f.buffer, i, u, n, c)
    BY <1>1, CopyParts
  <2> HIDE DEF c
  <2> QED BY <2>1 DEF IsCopy
<1> HIDE DEF c, size
<1>5. /\ g \in Fragmenters /\ g.to = f.to /\ g.maxSize = f.maxSize
      /\ g.offset = f.offset /\ g.valid = f.valid + size /\ g.buffer = c
  <2> DEFINE V == 1 .. inputBufferSize
             S == [D -> Octets]
             T == [buffer : S, valid : V, offset : V, completed : BOOLEAN, to : Nat, maxSize : Nat, saved : D]
  <2>1. f \in T /\ Fragmenters = T
    BY DEF Fragmenters
  <2>2. c \in S /\ f.valid + size \in V /\ size \in D
    BY <1>2, <1>4
  <2> HIDE DEF V, S, D
  <2>3. /\ g \in T /\ g.to = f.to /\ g.maxSize = f.maxSize
        /\ g.offset = f.offset /\ g.valid = f.valid + size /\ g.buffer = c
    BY <2>1, <2>2
  <2> QED BY <2>1, <2>3
<1> HIDE DEF g
<1>6. Ready(g)
  BY <1>1, <1>2, <1>5 DEF Ready, Rests
<1>7. ASSUME f.saved = 0, f.valid = 1
      PROVE  Holds(g, u)
  <2>1. f.offset = 1 /\ g.valid - 1 = n /\ i = 1
    BY <1>1, <1>5, <1>7 DEF Rests, i, size
  <2>2. ASSUME NEW j \in 1 .. n
        PROVE  c[j] = u[j]
    <3>1. j \in D /\ j \in i .. i + n - 1 /\ j - i + 1 = j
      BY <1>1, <1>2, <2>1 DEF size
    <3> QED BY <1>4, <3>1
  <2> QED BY <1>5, <2>1, <2>2 DEF Holds, n
<1> QED BY <1>3, <1>5, <1>6, <1>7 DEF size, n

LEMMA AskedParts ==
  ASSUME Typed, Empty \/ LeftOver
  PROVE  LET g == Asked(fragmenter, WithHeader(outBuf))
         IN  /\ g \in Fragmenters /\ g.to = outBuf.offset + RtpHeaderSize /\ g.maxSize = MaxOutput
             /\ g.saved = 0 /\ g.offset = fragmenter.offset /\ g.valid = fragmenter.valid
             /\ g.buffer = fragmenter.buffer /\ g.completed = fragmenter.completed
<1> DEFINE b == WithHeader(outBuf)
           to == b.start + b.offset
           available == BytesAvailable(b)
           size == IF available < MaxOutput THEN available ELSE MaxOutput
           z == 0
           g == [fragmenter EXCEPT !.to = to, !.saved = z, !.maxSize = size]
<1>1. Headed(b)
  BY HeadedParts
<1> HIDE DEF b
<1>2. /\ to = outBuf.offset + RtpHeaderSize /\ to \in Nat /\ to \in {3, 6}
      /\ b.limit \in Nat /\ b.limit >= 2 * MaxPacketSize
  <2>1. outBuf.offset \in {0, 3}
    BY DEF Empty, LeftOver
  <2>2. b.start = 0 /\ b.offset = outBuf.offset + 3 /\ IsOutBuffer(b)
    BY <1>1 DEF Headed
  <2> QED BY <2>1, <2>2, Sizes, OutFields
<1>3. size = MaxOutput
  <2>1. available >= MaxOutput
    <3>1. available = b.limit - to
      BY DEF BytesAvailable
    <3> HIDE DEF available, to
    <3> QED BY <1>2, <3>1, Sizes
  <2> HIDE DEF available
  <2>2. available = MaxOutput \/ ~(available < MaxOutput)
    <3>1. available \in Int /\ MaxOutput \in Nat
      BY <1>2, Sizes DEF available, BytesAvailable
    <3> QED BY <2>1, <3>1
  <2> QED BY <2>2
<1>4. Asked(fragmenter, b) = g
  BY Zenon DEF Asked
<1>5. size \in Nat /\ z \in 0 .. inputBufferSize - 1
  BY <1>3, Sizes DEF Typed
<1> HIDE DEF to, size
<1>6. /\ g \in Fragmenters /\ g.to = to /\ g.maxSize = size
      /\ g.saved = z /\ g.offset = fragmenter.offset /\ g.valid = fragmenter.valid
      /\ g.buffer = fragmenter.buffer /\ g.completed = fragmenter.completed
  <2> DEFINE V == 1 .. inputBufferSize
             D == 0 .. inputBufferSize - 1
             S == [D -> Octets]
             T == [buffer : S, valid : V, offset : V, completed : BOOLEAN, to : Nat, maxSize : Nat, saved : D]
  <2>1. fragmenter \in T /\ Fragmenters = T
    BY DEF Fragmenters, Typed
  <2>2. to \in Nat /\ size \in Nat /\ z \in D
    BY <1>2, <1>5
  <2> HIDE DEF V, S, D, z
  <2>3. /\ g \in T /\ g.to = to /\ g.maxSize = size
        /\ g.saved = z /\ g.offset = fragmenter.offset /\ g.valid = fragmenter.valid
        /\ g.buffer = fragmenter.buffer /\ g.completed = fragmenter.completed
    BY <2>1, <2>2
  <2> QED BY <2>1, <2>3
<1> HIDE DEF g
<1> QED BY <1>2, <1>3, <1>4, <1>6 DEF b

LEMMA ReadsOn ==
  ASSUME Inv, outBuf.overflowSize = 0
  PROVE  Empty \/ LeftOver
<1>1. Kept => outBuf.overflowSize > 0 /\ outBuf.overflowSize \in Nat
  BY Sizes DEF Kept
<1> QED BY <1>1 DEF Inv

LEMMA FramesOf ==
  ASSUME NEW b, NEW f, NEW marker, NEW soFar, PackFragment(b, f, marker, soFar)
  PROVE  looping /\ outBuf.overflowSize = 0
  BY Zenon DEF PackFragment

LEMMA SendNalKeeps ==
  ASSUME Inv, NEW n \in NalSizes, NEW ends \in BOOLEAN, NEW more \in 0 .. 1, SendNal(n, ends, more)
  PROVE  Inv'
<1> DEFINE g == Asked(fragmenter, WithHeader(outBuf))
           k == Len(nals) + 1
           z == 0
           u == NalUnit(k, n, z)
           f == AfterGettingNal(g, u)
           marker == pictureEndMarker \/ ends
<1>1. /\ source /\ fragmenter.valid = 1 /\ Len(nals) < MaxNals
      /\ reads' = reads + more
      /\ nals' = Append(nals, u)
      /\ timestamp' = timestamp + 1
      /\ PackFragment(WithHeader(outBuf), f, marker, <<>>)
  BY Zenon DEF SendNal
<1>2. Typed
  BY DEF Inv
<1>3. Empty \/ LeftOver
  BY <1>1, FramesOf, ReadsOn
<1>4. /\ g \in Fragmenters /\ g.to = outBuf.offset + RtpHeaderSize /\ g.maxSize = MaxOutput
      /\ g.saved = 0 /\ g.offset = fragmenter.offset /\ g.valid = fragmenter.valid
  BY <1>2, <1>3, AskedParts
<1> HIDE DEF g
<1>5. inputBufferSize \in Nat /\ inputBufferSize > 1 /\ k \in Nat /\ z = 0 /\ z \in 0 .. inputBufferSize - 1
  BY <1>2, Sizes DEF Typed
<1> HIDE DEF k, z
<1>6. u \in Seq(Octets) /\ z + Len(u) \in 1 .. inputBufferSize - 1 /\ IsUnit(u)
  BY <1>5, UnitParts
<1> HIDE DEF u
<1>7. Rests(g) /\ g.valid + (g.saved + Len(u)) <= inputBufferSize /\ g.saved + Len(u) \in 1 .. inputBufferSize - 1
  <2>1. Len(u) \in Nat /\ Rests(fragmenter)
    BY <1>2, <1>6 DEF Typed
  <2> QED BY <1>1, <1>4, <1>5, <1>6, <2>1 DEF Rests
<1>8. /\ f \in Fragmenters /\ Ready(f) /\ f.to = g.to /\ f.maxSize = g.maxSize /\ f.offset = g.offset
      /\ Holds(f, u)
  <2>1. g.saved = 0 /\ g.valid = 1
    BY <1>1, <1>4
  <2> QED BY <1>4, <1>5, <1>6, <1>7, <2>1, GettingParts
<1> HIDE DEF f
<1>9. marker \in BOOLEAN /\ timestamp' \in Nat /\ reads' \in Nat
  <2>1. timestamp \in Nat /\ reads \in Nat /\ pictureEndMarker \in BOOLEAN
    BY <1>2 DEF Typed
  <2>2. marker \in BOOLEAN
    OBVIOUS
  <2> QED BY <1>1, <2>1, <2>2
<1>10. /\ nals' \in Seq(Seq(Octets)) /\ Len(nals') = Len(nals) + 1 /\ Len(nals') <= MaxNals
       /\ nals'[Len(nals')] = u /\ \A j \in 1 .. Len(nals) : nals'[j] = nals[j]
  <2>1. nals \in Seq(Seq(Octets))
    BY <1>2 DEF Typed
  <2> QED BY <1>1, <1>6, <2>1, Sizes
<1> HIDE DEF marker
<1>11. FrameStep(f, marker, <<>>)
  BY <1>1, <1>4, <1>6, <1>8, <1>9, <1>10 DEF FrameStep, Fresh
<1> QED BY <1>3, <1>11, FrameKeeps

LEMMA SendFragmentKeeps ==
  ASSUME Inv, SendFragment
  PROVE  Inv'
<1> DEFINE g == Asked(fragmenter, WithHeader(outBuf))
           saved == fragmenter.saved
           f == [g EXCEPT !.saved = saved]
           j == Len(nals)
<1>1. /\ source /\ fragmenter.valid > 1
      /\ UNCHANGED <<nals, timestamp, reads>>
      /\ PackFragment(WithHeader(outBuf), f, pictureEndMarker, frames[j])
  BY Zenon DEF SendFragment
<1>2. Typed
  BY DEF Inv
<1>3. Empty \/ LeftOver
  BY <1>1, FramesOf, ReadsOn
<1>4. /\ g \in Fragmenters /\ g.to = outBuf.offset + RtpHeaderSize /\ g.maxSize = MaxOutput
      /\ g.offset = fragmenter.offset /\ g.valid = fragmenter.valid /\ g.buffer = fragmenter.buffer
  BY <1>2, <1>3, AskedParts
<1> HIDE DEF g
<1>5. saved \in 0 .. inputBufferSize - 1
  BY <1>2 DEF Typed, Fragmenters
<1> HIDE DEF saved
<1>6. /\ f \in Fragmenters /\ f.to = g.to /\ f.maxSize = g.maxSize
      /\ f.offset = g.offset /\ f.valid = g.valid /\ f.buffer = g.buffer
  <2> DEFINE V == 1 .. inputBufferSize
             D == 0 .. inputBufferSize - 1
             S == [D -> Octets]
             T == [buffer : S, valid : V, offset : V, completed : BOOLEAN, to : Nat, maxSize : Nat, saved : D]
  <2>1. g \in T /\ Fragmenters = T /\ saved \in D
    BY <1>4, <1>5 DEF Fragmenters
  <2> HIDE DEF V, S, D
  <2>2. /\ f \in T /\ f.to = g.to /\ f.maxSize = g.maxSize
        /\ f.offset = g.offset /\ f.valid = g.valid /\ f.buffer = g.buffer
    BY <2>1
  <2> QED BY <2>1, <2>2
<1> HIDE DEF f
<1>7. Ready(f)
  <2>1. Rests(fragmenter) /\ fragmenter.valid \in Nat
    BY <1>2 DEF Typed, Fragmenters
  <2> QED BY <1>1, <1>4, <1>6, <2>1 DEF Rests, Ready
<1>8. /\ nals' = nals /\ timestamp' \in Nat /\ reads' \in Nat /\ pictureEndMarker \in BOOLEAN
      /\ nals' \in Seq(Seq(Octets)) /\ Len(nals') <= MaxNals
  BY <1>1, <1>2 DEF Typed
<1>9. j > 0 /\ j \in Nat
  <2>1. nals # <<>> /\ nals \in Seq(Seq(Octets))
    BY <1>1, <1>2 DEF Inv, Looped, Typed
  <2> QED BY <2>1
<1>10. pauses = 0 => IsUnit(nals[j]) /\ Holds(f, nals[j])
  <2> SUFFICES ASSUME pauses = 0 PROVE IsUnit(nals[j]) /\ Holds(f, nals[j])
    OBVIOUS
  <2>1. j \in 1 .. Len(nals) /\ ~(j < Len(nals) \/ fragmenter.valid = 1)
    BY <1>1, <1>9
  <2>2. IsUnit(nals[j]) /\ Holds(fragmenter, nals[j])
    <3> HIDE DEF j
    <3> QED BY <2>1 DEF Inv, Units
  <2> QED BY <1>4, <1>6, <2>2 DEF Holds
<1>11. FrameStep(f, pictureEndMarker, frames[j])
  BY <1>1, <1>4, <1>6, <1>7, <1>8, <1>9, <1>10 DEF FrameStep, Resumed
<1> QED BY <1>3, <1>11, FrameKeeps

(* After the first PAUSE, with the header that was in the buffer before.   *)
LEMMA ParseAgainKeeps ==
  ASSUME Inv, pauses <= 1, NEW n \in NalSizes, NEW ends \in BOOLEAN, NEW more \in 0 .. 1,
         ParseAgain(n, ends, more)
  PROVE  Inv'
<1> DEFINE k == Len(nals) + 1
           saved == fragmenter.saved
           u == NalUnit(k, n, saved)
           f == AfterGettingNal(fragmenter, u)
           s == Slice(f.buffer, 1, f.valid)
           marker == pictureEndMarker \/ ends
           fresh == fragmenter.valid = 1
           soFar == IF fresh THEN <<>> ELSE frames[Len(nals)]
<1>1. /\ ~source /\ reads > 0 /\ Len(nals) < MaxNals
      /\ f.valid <= inputBufferSize
      /\ reads' = reads - 1 + more
      /\ nals' = IF fresh THEN Append(nals, s) ELSE nals
      /\ timestamp' = timestamp + 1
      /\ PackFragment(WithHeader(outBuf), f, marker, soFar)
  BY Zenon DEF ParseAgain
<1>2. Typed /\ Looped
  BY DEF Inv
<1>3. (Empty \/ LeftOver) /\ looping
  BY <1>1, FramesOf, ReadsOn
<1>4. pauses = 1 /\ fragmenter.to = RtpHeaderSize /\ fragmenter.maxSize = MaxOutput /\ nals # <<>>
  BY <1>1, <1>2 DEF Typed, Looped
<1>5. Empty
  BY <1>1, <1>3 DEF LeftOver
<1>6. /\ inputBufferSize \in Nat /\ inputBufferSize > 1 /\ k \in Nat
      /\ saved \in 0 .. inputBufferSize - 1
      /\ fragmenter \in Fragmenters /\ Rests(fragmenter)
  BY <1>2, Sizes DEF Typed, Fragmenters
<1> HIDE DEF k
<1>7. u \in Seq(Octets) /\ fragmenter.saved + Len(u) \in 1 .. inputBufferSize - 1
  BY <1>6, UnitParts
<1> HIDE DEF u
<1>8. f.valid = fragmenter.valid + (fragmenter.saved + Len(u))
  <2>1. f = [fragmenter EXCEPT !.buffer = Copy(@, 1 + fragmenter.saved, u, Len(u)),
                               !.valid = @ + (fragmenter.saved + Len(u)),
                               !.saved = fragmenter.saved + Len(u)]
    BY Zenon DEF AfterGettingNal
  <2> QED BY <1>6, <2>1 DEF Fragmenters
<1>9. /\ f \in Fragmenters /\ Ready(f) /\ f.to = fragmenter.to /\ f.maxSize = fragmenter.maxSize
  <2>1. fragmenter.valid + (fragmenter.saved + Len(u)) <= inputBufferSize
    BY <1>1, <1>8
  <2> QED BY <1>6, <1>7, <2>1, GettingParts
<1> HIDE DEF f, saved
<1>10. s \in Seq(Octets)
  <2> DEFINE one == 1
  <2>1. /\ f.buffer \in [0 .. inputBufferSize - 1 -> Octets] /\ f.valid \in 1 .. inputBufferSize
    BY <1>9 DEF Fragmenters
  <2>2. Bytes(f.buffer, one, f.valid) /\ one \in Nat /\ f.valid \in Nat /\ one <= f.valid
    BY <1>6, <2>1 DEF Bytes
  <2> HIDE DEF one
  <2>3. IsSlice(f.buffer, one, f.valid, Slice(f.buffer, one, f.valid))
    BY <2>2, SliceParts
  <2> QED BY <2>3 DEF IsSlice, one
<1> HIDE DEF s
<1>11. marker \in BOOLEAN /\ timestamp' \in Nat /\ reads' \in Nat
  <2>1. timestamp \in Nat /\ reads \in Nat /\ pictureEndMarker \in BOOLEAN
    BY <1>2 DEF Typed
  <2>2. marker \in BOOLEAN
    OBVIOUS
  <2> QED BY <1>1, <2>1, <2>2
<1> HIDE DEF marker
<1>12. nals \in Seq(Seq(Octets)) /\ Len(nals) > 0 /\ fragmenter.valid \in Nat /\ fragmenter.valid >= 1
  <2>1. nals \in Seq(Seq(Octets)) /\ fragmenter.valid \in 1 .. inputBufferSize
    BY <1>2 DEF Typed, Fragmenters
  <2> QED BY <1>4, <1>6, <2>1
<1>13. CASE fresh
  <2>1. nals' = Append(nals, s) /\ soFar = <<>>
    BY <1>1, <1>13
  <2>2. /\ nals' \in Seq(Seq(Octets)) /\ Len(nals') = Len(nals) + 1 /\ Len(nals') <= MaxNals
        /\ \A j \in 1 .. Len(nals) : nals'[j] = nals[j]
    BY <1>1, <1>10, <1>12, <2>1, Sizes
  <2>3. Fresh(soFar)
    BY <1>13, <2>1, <2>2 DEF Fresh
  <2>4. FrameStep(f, marker, soFar)
    <3> HIDE DEF soFar
    <3>1. f.to = outBuf.offset + RtpHeaderSize
      BY <1>4, <1>5, <1>9, Sizes DEF Empty
    <3> QED BY <1>1, <1>4, <1>9, <1>11, <2>2, <2>3, <3>1 DEF FrameStep
  <2> QED BY <1>5, <2>4, FrameKeeps
<1>14. CASE ~fresh
  <2>1. nals' = nals /\ soFar = frames[Len(nals)]
    BY <1>1, <1>14
  <2>2. nals' \in Seq(Seq(Octets)) /\ Len(nals') <= MaxNals
    BY <1>2, <2>1 DEF Typed
  <2>3. Resumed(soFar)
    BY <1>12, <1>14, <2>1 DEF Resumed
  <2>4. FrameStep(f, marker, soFar)
    <3> HIDE DEF soFar
    <3>1. f.to = outBuf.offset + RtpHeaderSize
      BY <1>4, <1>5, <1>9, Sizes DEF Empty
    <3> QED BY <1>1, <1>4, <1>9, <1>11, <2>2, <2>3, <3>1 DEF FrameStep
  <2> QED BY <1>5, <2>4, FrameKeeps
<1> QED BY <1>13, <1>14

-----------------------------------------------------------------------------
(* The other steps.                                                        *)

LEMMA PacketsStay ==
  ASSUME Packets, UNCHANGED <<seqNo, sent, nals, frames, fragmenter>>,
         outBuf'.overflowSize = outBuf.overflowSize, pauses' = 0 => pauses = 0
  PROVE  Packets'
<1>1. \A i : Ends(i)' <=> Ends(i)
  BY DEF Ends, Upto
<1>2. \A i : NumberOf(i)' = NumberOf(i)
  BY DEF NumberOf
<1>3. Upto(Len(nals))' = Upto(Len(nals))
  BY DEF Upto
<1> QED BY <1>1, <1>2, <1>3 DEF Packets

LEMMA UnitsStay ==
  ASSUME Units, UNCHANGED <<nals, frames, fragmenter>>, pauses' = 0 => pauses = 0
  PROVE  Units'
  BY DEF Units

LEMMA PackOverflowKeeps ==
  ASSUME Inv, PackOverflow
  PROVE  Inv'
<1>1. Typed /\ Looped /\ Packets /\ Units
  BY DEF Inv
<1>2. Kept
  <2>1. outBuf.overflowSize > 0
    BY DEF PackOverflow
  <2> QED BY <2>1 DEF Inv, Empty, LeftOver
<1>3. UNCHANGED <<inputBufferSize, fragmenter, timestamp, reads, source, looping, nals, frames, pauses>>
  BY DEF PackOverflow
<1>4. /\ sent' = sent /\ seqNo' = seqNo
      /\ IsOutBuffer(outBuf') /\ outBuf'.offset = 0 /\ outBuf'.overflowSize = outBuf.overflowSize
      /\ outBuf'.start + 3 + outBuf'.overflowSize <= outBuf'.limit
      /\ pictureEndMarker' \in BOOLEAN
  BY <1>1, <1>2, KeptAgain
<1>5. Kept' /\ ~(outBuf'.overflowSize = 0)
  BY <1>2, <1>3, <1>4, Sizes DEF Kept
<1>6. Typed'
  BY <1>1, <1>3, <1>4 DEF Typed, Fragmenters, Rests
<1>7. Looped'
  BY <1>1, <1>3, <1>5 DEF Looped
<1>8. Packets' /\ Units'
  BY <1>1, <1>3, <1>4, PacketsStay, UnitsStay
<1> QED BY <1>5, <1>6, <1>7, <1>8 DEF Inv

LEMMA ClosureKeeps ==
  ASSUME Inv, OurHandlerClosure
  PROVE  Inv'
<1>1. Typed /\ Looped /\ Packets /\ Units
  BY DEF Inv
<1>2. /\ outBuf.overflowSize = 0 /\ outBuf' = AfterSending(WithHeader(outBuf))
      /\ looping' = FALSE /\ reads' = 0
      /\ UNCHANGED <<inputBufferSize, fragmenter, seqNo, timestamp, source,
                     pictureEndMarker, nals, frames, sent, pauses>>
  BY DEF OurHandlerClosure
<1>3. Headed(WithHeader(outBuf))
  BY <1>1, <1>2, ReadsOn, HeadedParts
<1>4. IsOutBuffer(outBuf') /\ Empty'
  <2>1. IsOutBuffer(WithHeader(outBuf)) /\ WithHeader(outBuf).overflowSize = 0
    BY <1>3 DEF Headed
  <2> QED BY <1>2, <2>1, ResetParts DEF Empty
<1>5. outBuf'.overflowSize = outBuf.overflowSize
  BY <1>2, <1>4 DEF Empty
<1>6. Typed'
  BY <1>1, <1>2, <1>4 DEF Typed, Fragmenters, Rests
<1>7. Looped'
  BY <1>1, <1>2, <1>5 DEF Looped
<1>8. Packets' /\ Units'
  BY <1>1, <1>2, <1>5, PacketsStay, UnitsStay
<1> QED BY <1>4, <1>6, <1>7, <1>8 DEF Inv

LEMMA SourceGoneKeeps ==
  ASSUME Inv, SourceGone
  PROVE  Inv'
<1>1. Typed /\ Looped /\ Packets /\ Units
  BY DEF Inv
<1>2. /\ looping /\ ~source /\ outBuf.overflowSize = 0 /\ outBuf' = WithHeader(outBuf)
      /\ looping' = FALSE
      /\ UNCHANGED <<inputBufferSize, fragmenter, seqNo, timestamp, source,
                     pictureEndMarker, reads, nals, frames, sent, pauses>>
  BY DEF SourceGone
<1>3. Empty /\ pauses = 1
  BY <1>1, <1>2, ReadsOn DEF LeftOver, Looped
<1>4. Headed(outBuf')
  BY <1>1, <1>2, <1>3, HeadedParts
<1>5. IsOutBuffer(outBuf') /\ LeftOver' /\ outBuf'.overflowSize = outBuf.overflowSize
  <2>1. outBuf'.offset = 3
    BY <1>3, <1>4 DEF Headed, Empty
  <2> QED BY <1>2, <1>3, <1>4, <2>1 DEF Headed, LeftOver
<1>6. Typed'
  BY <1>1, <1>2, <1>5 DEF Typed, Fragmenters, Rests
<1>7. Looped'
  BY <1>1, <1>2, <1>5 DEF Looped
<1>8. Packets' /\ Units'
  BY <1>1, <1>2, <1>5, PacketsStay, UnitsStay
<1> QED BY <1>5, <1>6, <1>7, <1>8 DEF Inv

LEMMA StopPlayingKeeps ==
  ASSUME Inv, StopPlaying, pauses' <= 1
  PROVE  Inv'
<1>1. Typed /\ Looped /\ Packets /\ Units
  BY DEF Inv
<1>2. /\ source /\ source' = FALSE /\ pauses' = pauses + 1
      /\ UNCHANGED <<inputBufferSize, fragmenter, outBuf, seqNo, timestamp,
                     pictureEndMarker, reads, looping, nals, frames, sent>>
  BY DEF StopPlaying
<1>3. pauses = 0 /\ pauses' = 1
  BY <1>1, <1>2 DEF Typed
<1>4. Empty /\ Empty'
  BY <1>2, <1>3 DEF Inv, LeftOver, Kept, Empty
<1>5. Typed'
  <2>1. source' \in BOOLEAN
    BY <1>2, Zenon
  <2>2. pauses' \in Nat
    BY <1>3
  <2> QED BY <1>1, <1>2, <2>1, <2>2 DEF Typed, Fragmenters, Rests
<1>6. Looped'
  BY <1>1, <1>2, <1>3 DEF Looped
<1>7. Packets' /\ Units'
  BY <1>1, <1>2, <1>3, PacketsStay, UnitsStay
<1> QED BY <1>4, <1>5, <1>6, <1>7 DEF Inv

LEMMA StartPlayingKeeps ==
  ASSUME Inv, StartPlaying
  PROVE  Inv'
<1>1. Typed /\ Looped /\ Packets /\ Units
  BY DEF Inv
<1>2. /\ ~source /\ ~looping /\ source' = TRUE /\ looping' = TRUE
      /\ UNCHANGED <<inputBufferSize, fragmenter, outBuf, seqNo, timestamp,
                     pictureEndMarker, reads, nals, frames, sent, pauses>>
  BY DEF StartPlaying
<1>3. (Empty \/ LeftOver)'
  BY <1>2 DEF Inv, LeftOver, Kept, Empty
<1>4. Typed'
  BY <1>1, <1>2 DEF Typed, Fragmenters, Rests
<1>5. Looped'
  BY <1>1, <1>2 DEF Looped
<1>6. Packets' /\ Units'
  BY <1>1, <1>2, PacketsStay, UnitsStay
<1> QED BY <1>3, <1>4, <1>5, <1>6 DEF Inv

-----------------------------------------------------------------------------
(* From the start on.                                                      *)

LEMMA Starts ==
  ASSUME SenderInit
  PROVE  Inv
<1>1. PICK m \in MaxSizes :
        /\ inputBufferSize = m + 1
        /\ fragmenter = [buffer |-> [i \in 0 .. m |-> Zero],
                         valid |-> 1, offset |-> 1, completed |-> FALSE,
                         to |-> 0, maxSize |-> 0, saved |-> 0]
  BY DEF SenderInit
<1>2. PICK q \in MaxSizes : outBuf = NewOutPacketBuffer(q)
  BY DEF SenderInit
<1>3. /\ seqNo \in FirstSeqNos /\ timestamp = 0 /\ pictureEndMarker = FALSE /\ reads = 0
      /\ source = FALSE /\ looping = FALSE /\ nals = <<>>
      /\ frames = [k \in 1 .. MaxNals |-> <<>>] /\ sent = <<>> /\ pauses = 0
  BY DEF SenderInit
<1>4. m \in Nat /\ m > MaxPacketSize /\ MaxPacketSize \in Nat /\ seqNo \in Nat
  <2>1. seqNo \in 0 .. SeqSpace - 1
    BY <1>3, SenderAssumption
  <2> QED BY <2>1, SenderAssumption
<1>5. IsOutBuffer(outBuf) /\ Empty
  BY <1>2, NewBuffer DEF Empty
<1>6. inputBufferSize \in Nat /\ inputBufferSize > MaxPacketSize /\ inputBufferSize - 1 = m
  BY <1>1, <1>4
<1>7. fragmenter \in Fragmenters /\ Rests(fragmenter) /\ fragmenter.valid = 1
  <2>1. [i \in 0 .. m |-> Zero] \in [0 .. inputBufferSize - 1 -> Octets]
    BY <1>6, OtherOctets
  <2>2. 1 \in 1 .. inputBufferSize /\ 0 \in 0 .. inputBufferSize - 1 /\ 0 \in Nat
    BY <1>4, <1>6
  <2> QED BY <1>1, <2>1, <2>2 DEF Fragmenters, Rests
<1>8. /\ Len(nals) = 0 /\ Len(sent) = 0 /\ <<>> \in Seq(Octets) /\ <<>> \in Seq(Seq(Octets))
      /\ <<>> \in Seq(Seq(Seq(Octets)))
  BY <1>3
<1>9. Typed
  <2>1. MaxNals \in Nat
    BY Sizes
  <2>2. frames \in [1 .. MaxNals -> Seq(Seq(Octets))] /\ \A k \in 1 .. MaxNals : frames[k] = <<>>
    BY <1>3, <1>8
  <2>3. nals \in Seq(Seq(Octets)) /\ sent \in Seq(Seq(Octets)) /\ Len(nals) <= MaxNals
    BY <1>3, <1>8, <2>1
  <2>4. \A k \in Len(nals) + 1 .. MaxNals : frames[k] = <<>>
    BY <1>8, <2>1, <2>2
  <2>5. timestamp \in Nat /\ reads \in Nat /\ pauses \in Nat
    BY <1>3
  <2>6. source \in BOOLEAN /\ looping \in BOOLEAN /\ pictureEndMarker \in BOOLEAN
    BY <1>3
  <2> QED BY <1>4, <1>5, <1>6, <1>7, <2>2, <2>3, <2>4, <2>5, <2>6 DEF Typed
<1>10. Looped
  BY <1>3, <1>7 DEF Looped
<1>11. Packets
  <2>1. Upto(Len(nals)) = <<>>
    BY <1>8 DEF Upto, Flat
  <2>2. Len(Upto(Len(nals))) = 0 /\ outBuf.overflowSize = 0
    BY <1>5, <2>1 DEF Empty
  <2>3. 1 .. Len(sent) = {}
    BY <1>8
  <2> QED BY <1>8, <2>2, <2>3 DEF Packets
<1>12. Units
  <2>1. 1 .. Len(nals) = {}
    BY <1>8
  <2> QED BY <2>1 DEF Units
<1> QED BY <1>5, <1>9, <1>10, <1>11, <1>12 DEF Inv

LEMMA RestStays ==
  ASSUME Inv, UNCHANGED senderVars
  PROVE  Inv'
<1>1. /\ UNCHANGED <<inputBufferSize, fragmenter, outBuf, seqNo, timestamp, pictureEndMarker>>
      /\ UNCHANGED <<reads, source, looping, nals, frames, sent, pauses>>
  BY DEF senderVars
<1>2. Typed /\ Looped /\ Packets /\ Units
  BY DEF Inv
<1>3. Typed'
  BY <1>1, <1>2 DEF Typed, Fragmenters, Rests
<1>4. Looped'
  BY <1>1, <1>2 DEF Looped
<1>5. (Empty \/ LeftOver \/ Kept)'
  BY <1>1 DEF Inv, Empty, LeftOver, Kept
<1>6. Packets' /\ Units'
  BY <1>1, <1>2, PacketsStay, UnitsStay
<1> QED BY <1>3, <1>4, <1>5, <1>6 DEF Inv

(* ... while nobody pauses a second time: a pause is never taken back.     *)
UntilPaused == pauses \in Nat /\ (pauses <= 1 => Inv)

LEMMA PausesCount ==
  ASSUME SenderNext, pauses \in Nat
  PROVE  pauses' \in Nat /\ pauses' >= pauses
<1>1. CASE Loop
  <2>1. UNCHANGED pauses
    BY <1>1, Zenon DEF Loop, SendNal, ParseAgain, SendFragment, PackFragment, PackOverflow,
                       OurHandlerClosure, SourceGone
  <2> QED BY <2>1
<1>2. CASE StopPlaying
  BY <1>2 DEF StopPlaying
<1>3. CASE StartPlaying
  BY <1>3 DEF StartPlaying
<1> QED BY <1>1, <1>2, <1>3 DEF SenderNext

LEMMA SenderKeeps ==
  ASSUME Inv, SenderNext, pauses' <= 1, pauses <= 1
  PROVE  Inv'
<1>1. CASE Loop
  <2>1. CASE \E n \in NalSizes, ends \in BOOLEAN, more \in 0 .. 1 : SendNal(n, ends, more)
    BY <2>1, SendNalKeeps
  <2>2. CASE \E n \in NalSizes, ends \in BOOLEAN, more \in 0 .. 1 : ParseAgain(n, ends, more)
    BY <2>2, ParseAgainKeeps
  <2>3. CASE SendFragment
    BY <2>3, SendFragmentKeeps
  <2>4. CASE PackOverflow
    BY <2>4, PackOverflowKeeps
  <2>5. CASE OurHandlerClosure
    BY <2>5, ClosureKeeps
  <2>6. CASE SourceGone
    BY <2>6, SourceGoneKeeps
  <2> QED BY <1>1, <2>1, <2>2, <2>3, <2>4, <2>5, <2>6, Zenon DEF Loop
<1>2. CASE StopPlaying
  BY <1>2, StopPlayingKeeps
<1>3. CASE StartPlaying
  BY <1>3, StartPlayingKeeps
<1> QED BY <1>1, <1>2, <1>3 DEF SenderNext

LEMMA StepKeeps ==
  ASSUME UntilPaused, [Next]_vars
  PROVE  UntilPaused'
<1>1. CASE SenderNext
  <2>1. pauses \in Nat
    BY DEF UntilPaused
  <2>2. pauses' \in Nat /\ pauses' >= pauses
    BY <1>1, <2>1, PausesCount
  <2>3. ASSUME pauses' <= 1
        PROVE  Inv'
    <3>1. pauses <= 1
      BY <2>1, <2>2, <2>3
    <3>2. Inv
      BY <3>1 DEF UntilPaused
    <3> QED BY <1>1, <2>3, <3>1, <3>2, SenderKeeps
  <2> QED BY <2>2, <2>3 DEF UntilPaused
<1>2. CASE UNCHANGED senderVars
  <2>1. pauses' = pauses
    BY <1>2 DEF senderVars
  <2> QED BY <1>2, <2>1, RestStays DEF UntilPaused
<1> QED BY <1>1, <1>2 DEF Next, Send, Arrival, ForeignRestart, vars

(* The invariant holds until the stream is paused a second time.           *)
THEOREM SenderInductive == Spec => []UntilPaused
<1>1. Init => UntilPaused
  <2>1. Init => SenderInit /\ pauses = 0
    BY DEF Init, SenderInit
  <2> QED BY <2>1, Starts DEF UntilPaused
<1>2. UntilPaused /\ [Next]_vars => UntilPaused'
  BY StepKeeps
<1> QED BY <1>1, <1>2, PTL DEF Spec

-----------------------------------------------------------------------------
(* What it says of frames, packets and marker bits.                        *)

LEMMA IsPrefixOf ==
  ASSUME NEW S, NEW s \in Seq(S), NEW t \in Seq(S), Len(s) <= Len(t),
         \A i \in 1 .. Len(s) : s[i] = t[i]
  PROVE  IsPrefix(s, t)
<1> DEFINE one == 1
           n == Len(s)
<1>1. one \in Nat /\ n \in Nat /\ one = 1
  OBVIOUS
<1> HIDE DEF one
<1>2. n - one + 1 = n /\ one .. n = 1 .. n /\ \A i \in 1 .. n : one + i - 1 = i
  BY <1>1
<1>3. SubSeq(s, one, n) = SubSeq(t, one, n)
  <2>1. SubSeq(s, one, n) = [i \in 1 .. n |-> s[i]]
    BY <1>1
  <2>2. SubSeq(t, one, n) = [i \in 1 .. n |-> t[i]]
    BY <1>1
  <2> QED BY <2>1, <2>2
<1> QED BY <1>3 DEF IsPrefix, one, n

LEMMA IsSuffixOf ==
  ASSUME NEW S, NEW s \in Seq(S), NEW t \in Seq(S), Len(s) <= Len(t),
         \A k \in 1 .. Len(s) : t[Len(t) - Len(s) + k] = s[k]
  PROVE  IsSuffix(s, t)
<1> DEFINE m == Len(s)
           n == Len(t)
           a == Reverse(s)
           b == Reverse(t)
<1>1. m \in Nat /\ n \in Nat /\ m <= n
  OBVIOUS
<1>2. a = [i \in 1 .. m |-> s[(m - i) + 1]] /\ b = [i \in 1 .. n |-> t[(n - i) + 1]]
  BY DEF Reverse
<1>3. \A i \in 1 .. m : s[(m - i) + 1] \in S
  <2>1. \A i \in 1 .. m : (m - i) + 1 \in 1 .. Len(s)
    OBVIOUS
  <2> QED BY <2>1
<1>4. \A i \in 1 .. n : t[(n - i) + 1] \in S
  <2>1. \A i \in 1 .. n : (n - i) + 1 \in 1 .. Len(t)
    OBVIOUS
  <2> QED BY <2>1
<1>5. ASSUME NEW i \in 1 .. m
      PROVE  a[i] = b[i]
  <2>1. (m - i) + 1 \in 1 .. m /\ n - m + ((m - i) + 1) = (n - i) + 1 /\ i \in 1 .. n
    BY <1>1
  <2>2. t[n - m + ((m - i) + 1)] = s[(m - i) + 1]
    BY <2>1
  <2>3. a[i] = s[(m - i) + 1] /\ b[i] = t[(n - i) + 1]
    BY <1>2, <2>1
  <2> QED BY <2>1, <2>2, <2>3
<1>6. a \in Seq(S) /\ b \in Seq(S) /\ Len(a) = m /\ Len(b) = n
  BY <1>1, <1>2, <1>3, <1>4
<1> HIDE DEF m, n, a, b
<1>7. IsPrefix(a, b)
  BY <1>1, <1>5, <1>6, IsPrefixOf
<1> QED BY <1>7 DEF IsSuffix, a, b

LEMMA AllIsUpto ==
  ASSUME Typed
  PROVE  AllFrames = Upto(Len(nals)) /\ Upto(Len(nals)) \in Seq(Seq(Octets))
<1> DEFINE n == Len(nals)
           S == Seq(Octets)
<1>1. /\ n \in Nat /\ n <= MaxNals /\ MaxNals \in Nat
      /\ frames \in [1 .. MaxNals -> Seq(S)]
      /\ \A k \in n + 1 .. MaxNals : frames[k] = <<>>
  BY Sizes DEF Typed
<1> HIDE DEF n, S
<1>2. frames \in Seq(Seq(S)) /\ Len(frames) = MaxNals
  BY <1>1
<1>3. FlattenSeq(frames) = Flat(frames, MaxNals)
  BY <1>2, FlattenIsFlat
<1>4. \A k \in 1 .. MaxNals : frames[k] \in Seq(S)
  BY <1>1
<1>5. n \in 0 .. MaxNals
  BY <1>1
<1>6. Flat(frames, MaxNals) = Flat(frames, n)
  BY <1>1, <1>4, <1>5, FlatPadded
<1>7. Flat(frames, n) \in Seq(S)
  BY <1>1, <1>4, <1>5, FlatTyped
<1> QED BY <1>3, <1>6, <1>7 DEF AllFrames, Upto, n, S

LEMMA FlatOfFirst ==
  ASSUME Typed, NEW k \in 1 .. Len(nals)
  PROVE  FlattenSeq(SubSeq(frames, 1, k)) = Upto(k)
<1> DEFINE S == Seq(Seq(Octets))
           one == 1
           t == SubSeq(frames, one, k)
<1>1. /\ k \in Nat /\ k >= 1 /\ k <= MaxNals /\ MaxNals \in Nat
      /\ frames \in [1 .. MaxNals -> S]
  BY Sizes DEF Typed
<1> HIDE DEF S
<1>2. frames \in Seq(S) /\ Len(frames) = MaxNals
  BY <1>1
<1>3. one \in 1 .. Len(frames) + 1 /\ k \in one - 1 .. Len(frames) /\ one = 1
  BY <1>1, <1>2
<1> HIDE DEF one
<1>4. t \in Seq(S) /\ Len(t) = k - one + 1 /\ \A i \in 1 .. k - one + 1 : t[i] = frames[one + i - 1]
  BY <1>2, <1>3, SubSeqProperties
<1> HIDE DEF t
<1>5. Len(t) = k /\ \A i \in 1 .. k : t[i] = frames[i]
  <2>1. k - one + 1 = k /\ \A i \in 1 .. k : one + i - 1 = i
    BY <1>1, <1>3
  <2> QED BY <1>4, <2>1
<1>6. FlattenSeq(t) = Flat(t, k)
  BY <1>4, <1>5, FlattenIsFlat
<1>7. Flat(t, k) = Flat(frames, k)
  BY <1>1, <1>5, FlatSame
<1> QED BY <1>6, <1>7 DEF Upto, t, one

LEMMA SkippedIsFlattened ==
  ASSUME NEW h \in Seq(Seq(Octets))
  PROVE  FlattenSeq([i \in DOMAIN h |-> SkipSpecialHeader(h[i])]) = Skipped(h)
<1> DEFINE S == {SkipSpecialHeader(h[i]) : i \in DOMAIN h}
           t == [i \in DOMAIN h |-> SkipSpecialHeader(h[i])]
<1>1. DOMAIN h = 1 .. Len(h) /\ Len(h) \in Nat
  OBVIOUS
<1>2. \A i \in DOMAIN h : t[i] \in S
  OBVIOUS
<1>3. t = [i \in 1 .. Len(h) |-> t[i]]
  BY <1>1
<1>4. Skipped(h) = Flat(t, Len(h))
  BY DEF Skipped
<1> HIDE DEF S, t
<1>5. t \in Seq(S) /\ Len(t) = Len(h)
  BY <1>1, <1>2, <1>3
<1> QED BY <1>4, <1>5, FlattenIsFlat DEF t

(* While nobody pauses, the fragments of every NAL unit, put together by   *)
(* the receiver's rules, are the unit, and those sent so far a beginning   *)
(* of it, for all sizes of packets and units: doGetNextFrame of the        *)
(* fragmenter writes two header bytes over bytes that were sent.           *)
THEOREM UnitsArePutTogether == Spec => []FragmentsMakeUnits
<1>1. UntilPaused => FragmentsMakeUnits
  <2> SUFFICES ASSUME UntilPaused, pauses = 0, NEW k \in DOMAIN nals
               PROVE  LET whole == FlattenSeq([i \in DOMAIN frames[k] |->
                                                SkipSpecialHeader(frames[k][i])])
                      IN  IF k < Len(nals) \/ fragmenter.valid = 1 THEN whole = nals[k]
                          ELSE IsStrictPrefix(whole, nals[k])
    BY DEF FragmentsMakeUnits
  <2>1. Typed /\ Units
    BY DEF UntilPaused, Inv
  <2>2. k \in 1 .. Len(nals) /\ k \in 1 .. MaxNals
    BY <2>1, Sizes DEF Typed
  <2>3. frames[k] \in Seq(Seq(Octets))
    BY <2>1, <2>2 DEF Typed
  <2> DEFINE whole == FlattenSeq([i \in DOMAIN frames[k] |-> SkipSpecialHeader(frames[k][i])])
             w == Skipped(frames[k])
             u == nals[k]
  <2>4. whole = w
    BY <2>3, SkippedIsFlattened
  <2>5. /\ IsUnit(u)
        /\ IF k < Len(nals) \/ fragmenter.valid = 1 THEN w = u
           ELSE IsBegun(fragmenter, w, u) /\ Holds(fragmenter, u)
    BY <2>1, <2>2 DEF Units
  <2> HIDE DEF whole, w, u
  <2>6. ASSUME IsBegun(fragmenter, w, u), Holds(fragmenter, u), fragmenter.valid # 1
        PROVE  IsStrictPrefix(w, u)
    <3>1. /\ w \in Seq(Octets) /\ u \in Seq(Octets)
          /\ Len(w) = fragmenter.offset - 1 /\ Len(u) = fragmenter.valid - 1
          /\ \A i \in 1 .. Len(w) : w[i] = u[i]
      BY <2>5, <2>6 DEF IsBegun, Holds, IsUnit
    <3>2. fragmenter.valid \in Nat /\ fragmenter.offset \in Nat /\ fragmenter.offset < fragmenter.valid
      BY <2>1, <2>6 DEF Typed, Fragmenters, Rests
    <3>3. Len(w) < Len(u)
      BY <3>1, <3>2
    <3>4. IsPrefix(w, u)
      BY <3>1, <3>3, IsPrefixOf
    <3> QED BY <3>3, <3>4 DEF IsStrictPrefix
  <2>7. IF k < Len(nals) \/ fragmenter.valid = 1 THEN whole = u ELSE IsStrictPrefix(whole, u)
    BY <2>4, <2>5, <2>6
  <2> QED BY <2>7 DEF whole, u
<1> QED BY <1>1, SenderInductive, PTL

(* Up to the second PAUSE the i-th packet ends with the i-th frame, has    *)
(* the next number and no more than the maximal size, whatever stands in   *)
(* the output buffer: sendPacketIfNecessary resets it behind every packet, *)
(* and the frame is asked for behind the header that a PAUSE left.         *)
THEOREM FramesInPackets == Spec => [](pauses <= 1 => PacketsCarryFrames)
<1>1. UntilPaused => (pauses <= 1 => PacketsCarryFrames)
  <2> SUFFICES ASSUME UntilPaused, pauses <= 1, NEW i \in DOMAIN sent
               PROVE  /\ i <= Len(AllFrames)
                      /\ Len(sent[i]) <= MaxPacketSize
                      /\ IsSuffix(AllFrames[i], sent[i])
                      /\ sent[i][1][3] = NumberOf(i) % SeqSpace
    BY DEF PacketsCarryFrames
  <2>1. Typed /\ Packets
    BY DEF UntilPaused, Inv
  <2> DEFINE all == Upto(Len(nals))
  <2>2. AllFrames = all /\ all \in Seq(Seq(Octets))
    BY <2>1, AllIsUpto
  <2>3. i \in 1 .. Len(sent) /\ Len(sent) \in Nat
    BY <2>1 DEF Typed
  <2>4. Len(all) >= Len(sent) /\ Carries(sent[i], all[i], NumberOf(i))
    BY <2>1, <2>3 DEF Packets
  <2> HIDE DEF all
  <2>5. i \in 1 .. Len(all)
    BY <2>2, <2>3, <2>4
  <2>6. all[i] \in Seq(Octets)
    BY <2>2, <2>5
  <2>7. /\ sent[i] \in Seq(Octets) /\ Len(sent[i]) <= MaxPacketSize /\ Len(all[i]) <= Len(sent[i])
        /\ \A k \in 1 .. Len(all[i]) : sent[i][Len(sent[i]) - Len(all[i]) + k] = all[i][k]
        /\ sent[i][1][3] = NumberOf(i) % SeqSpace
    BY <2>4 DEF Carries
  <2>8. IsSuffix(all[i], sent[i])
    BY <2>6, <2>7, IsSuffixOf
  <2> QED BY <2>2, <2>5, <2>7, <2>8
<1> QED BY <1>1, SenderInductive, PTL

(* Up to the second PAUSE the marker bit is only in packets that end a NAL *)
(* unit, and between a unit that ends a picture and the packet that says   *)
(* so no other unit is read (doSpecialFrameHandling).                      *)
THEOREM MarkedPacketsEndUnits == Spec => [](pauses <= 1 => MarkerEndsUnit)
<1>1. UntilPaused => (pauses <= 1 => MarkerEndsUnit)
  <2> SUFFICES ASSUME UntilPaused, pauses <= 1
               PROVE  MarkerEndsUnit
    OBVIOUS
  <2>1. Typed /\ Packets /\ Looped
    BY DEF UntilPaused, Inv
  <2>2. ASSUME NEW i \in DOMAIN sent, sent[i][1][4] = 1
        PROVE  Completes(i)
    <3>1. i \in 1 .. Len(sent)
      BY <2>1 DEF Typed
    <3>2. Ends(i)
      BY <2>1, <2>2, <3>1 DEF Packets
    <3>3. PICK k \in 1 .. Len(nals) : i = Len(Upto(k)) /\ (k < Len(nals) \/ fragmenter.valid = 1)
      BY <3>2 DEF Ends
    <3>4. k \in DOMAIN nals
      BY <2>1 DEF Typed
    <3>5. FlattenSeq(SubSeq(frames, 1, k)) = Upto(k)
      BY <2>1, FlatOfFirst
    <3> QED BY <3>3, <3>4, <3>5 DEF Completes
  <2>3. pictureEndMarker /\ outBuf.overflowSize = 0 => fragmenter.valid > 1
    BY <2>1 DEF Looped
  <2> QED BY <2>2, <2>3 DEF MarkerEndsUnit
<1> QED BY <1>1, SenderInductive, PTL

-----------------------------------------------------------------------------
(* Numbers and what is left of them modulo a width.                        *)

(* The remainder, once a number is written with it.                        *)
LEMMA Remainder ==
  ASSUME NEW S \in Nat, S > 0, NEW q \in Int, NEW r \in 0 .. S - 1
  PROVE  (S * q + r) % S = r
  OBVIOUS

LEMMA Division ==
  ASSUME NEW S \in Nat, S > 0, NEW a \in Int
  PROVE  \E q \in Int, r \in 0 .. S - 1 : a = S * q + r /\ a % S = r
<1>1. a % S \in 0 .. S - 1
  OBVIOUS
<1>2. a \div S \in Int
  OBVIOUS
<1>3. a = S * (a \div S) + (a % S)
  OBVIOUS
<1> QED BY <1>1, <1>2, <1>3

LEMMA Small ==
  ASSUME NEW S \in Nat, NEW a \in 0 .. S - 1
  PROVE  a % S = a
  OBVIOUS

LEMMA RemainderOfSum ==
  ASSUME NEW S \in Nat, S > 0, NEW a \in Int, NEW d \in 0 .. S - 1
  PROVE  (a + d) % S = IF (a % S) + d < S THEN (a % S) + d ELSE (a % S) + d - S
<1>1. PICK q \in Int, r \in 0 .. S - 1 : a = S * q + r /\ a % S = r
  BY Division
<1>2. CASE r + d < S
  <2>1. a + d = S * q + (r + d) /\ r + d \in 0 .. S - 1
    BY <1>1, <1>2
  <2>2. (S * q + (r + d)) % S = r + d
    BY <1>1, <2>1, Remainder
  <2> QED BY <1>1, <1>2, <2>1, <2>2
<1>3. CASE r + d >= S
  <2>1. r + d - S \in 0 .. S - 1 /\ q + 1 \in Int
    BY <1>1, <1>3
  <2>2. S * (q + 1) = S * q + S
    BY <1>1
  <2>3. a + d = S * (q + 1) + (r + d - S)
    BY <1>1, <2>2
  <2>4. (S * (q + 1) + (r + d - S)) % S = r + d - S
    BY <2>1, Remainder
  <2> QED BY <1>1, <1>3, <2>3, <2>4
<1> QED BY <1>1, <1>2, <1>3

(* An extended number started one cycle up has the packet's 16 bits.       *)
LEMMA RemainderOfRest ==
  ASSUME NEW S \in Nat, S > 0, NEW f \in Int, NEW m \in Int
  PROVE  (S + (f % S) + (m - f)) % S = m % S
<1>1. PICK q \in Int, r \in 0 .. S - 1 : f = S * q + r /\ f % S = r
  BY Division
<1>2. PICK p \in Int, t \in 0 .. S - 1 : m = S * p + t /\ m % S = t
  BY Division
<1>3. 1 + p - q \in Int
  OBVIOUS
<1>4. S * (1 + p - q) = S + S * p - S * q
  OBVIOUS
<1>5. S + r + (m - f) = S * (1 + p - q) + t
  BY <1>1, <1>2, <1>4
<1>6. (S * (1 + p - q) + t) % S = t
  BY <1>3, Remainder
<1> QED BY <1>1, <1>2, <1>5, <1>6

LEMMA HalfOfSpace ==
  Half \in Nat /\ SeqSpace = 2 * Half /\ Half > 1 /\ SeqSpace \in Nat
<1>1. SeqSpace \in Nat /\ SeqSpace > 2 /\ (SeqSpace % 2) = 0
  BY SeqSpaceAssumption
<1>2. SeqSpace = 2 * (SeqSpace \div 2) + (SeqSpace % 2)
  BY <1>1
<1>3. SeqSpace \div 2 \in Int
  BY <1>1
<1> QED BY <1>1, <1>2, <1>3 DEF Half

LEMMA Reduced ==
  ASSUME NEW a \in Int
  PROVE  a % SeqSpace \in 0 .. SeqSpace - 1
  BY HalfOfSpace, Division

LEMMA ReducedSum ==
  ASSUME NEW a \in Int, NEW b \in Int, a <= b, b - a < SeqSpace
  PROVE  b % SeqSpace = IF (a % SeqSpace) + (b - a) < SeqSpace THEN (a % SeqSpace) + (b - a)
                        ELSE (a % SeqSpace) + (b - a) - SeqSpace
<1>1. SeqSpace \in Nat /\ SeqSpace > 0 /\ b - a \in 0 .. SeqSpace - 1 /\ b = a + (b - a)
  BY HalfOfSpace
<1>2. (a + (b - a)) % SeqSpace =
        IF (a % SeqSpace) + (b - a) < SeqSpace THEN (a % SeqSpace) + (b - a)
        ELSE (a % SeqSpace) + (b - a) - SeqSpace
  BY <1>1, RemainderOfSum
<1> QED BY <1>1, <1>2

(* The code's comparison is that of the whole numbers while these are less *)
(* than half of the space apart.                                           *)
LEMMA Later ==
  ASSUME NEW a \in Int, NEW b \in Int, a - b < Half, b - a < Half
  PROVE  /\ SeqNumLT(a % SeqSpace, b % SeqSpace) <=> a < b
         /\ a % SeqSpace = b % SeqSpace <=> a = b
<1>1. a % SeqSpace \in 0 .. SeqSpace - 1 /\ b % SeqSpace \in 0 .. SeqSpace - 1
  BY Reduced
<1>2. CASE a <= b
  <2>1. b % SeqSpace = IF (a % SeqSpace) + (b - a) < SeqSpace THEN (a % SeqSpace) + (b - a)
                       ELSE (a % SeqSpace) + (b - a) - SeqSpace
    <3>1. b - a < SeqSpace
      BY HalfOfSpace
    <3> QED BY <1>2, <3>1, ReducedSum
  <2> QED BY <1>1, <1>2, <2>1, HalfOfSpace DEF SeqNumLT
<1>3. CASE b < a
  <2>1. a % SeqSpace = IF (b % SeqSpace) + (a - b) < SeqSpace THEN (b % SeqSpace) + (a - b)
                       ELSE (b % SeqSpace) + (a - b) - SeqSpace
    <3>1. a - b < SeqSpace
      BY HalfOfSpace
    <3>2. b <= a
      BY <1>3
    <3> QED BY <3>1, <3>2, ReducedSum
  <2> QED BY <1>1, <1>3, <2>1, HalfOfSpace DEF SeqNumLT
<1> QED BY <1>2, <1>3

(* nextExpectedSeqNo stands for the number e: it is never reduced, so that *)
(* behind the last number comes SeqSpace, not 0.                           *)
Represents(e, n) == n = e % SeqSpace \/ (n = SeqSpace /\ e % SeqSpace = 0)

(* A packet that is not rejected as late is not before the expected one.   *)
LEMMA NotTooLate ==
  ASSUME NEW a \in Int, NEW e \in Int, NEW n \in Int, Represents(e, n),
         e - a < Half, ~SeqNumLT(a % SeqSpace, n)
  PROVE  a >= e
<1> SUFFICES ASSUME a < e PROVE FALSE
  OBVIOUS
<1>1. CASE n = e % SeqSpace
  <2>1. a - e < Half
    BY HalfOfSpace
  <2> QED BY <1>1, <2>1, Later
<1>2. CASE n = SeqSpace /\ e % SeqSpace = 0
  <2>1. e % SeqSpace = IF (a % SeqSpace) + (e - a) < SeqSpace THEN (a % SeqSpace) + (e - a)
                       ELSE (a % SeqSpace) + (e - a) - SeqSpace
    <3>1. a <= e /\ e - a < SeqSpace
      BY HalfOfSpace
    <3> QED BY <3>1, ReducedSum
  <2>2. a % SeqSpace \in 0 .. SeqSpace - 1
    BY Reduced
  <2> QED BY <1>2, <2>1, <2>2, HalfOfSpace DEF SeqNumLT
<1> QED BY <1>1, <1>2 DEF Represents

-----------------------------------------------------------------------------
(* Sequences and the buffer.                                               *)

(* Every sequence is one of its own elements: it needs no other type.     *)
IsSeq(l) == l \in Seq({l[i] : i \in DOMAIN l})

LEMMA SelfTyped ==
  ASSUME NEW E, NEW l \in Seq(E)
  PROVE  IsSeq(l)
  BY DEF IsSeq

IsPacket(p) ==
  /\ p \in [ssrc : {p.ssrc}, seq : {p.seq}, ext : Int, payload : {p.payload},
            first : BOOLEAN, used : BOOLEAN]
  /\ p.seq = p.ext % SeqSpace

IsBuffer(b) ==
  /\ b \in [list : {b.list}, tail : 0 .. SeqSpace, at : Nat,
            expected : 0 .. SeqSpace, seen : BOOLEAN]
  /\ IsSeq(b.list)
  /\ \A i \in DOMAIN b.list : IsPacket(b.list[i])

Sorted(l) == \A i, j \in DOMAIN l : i < j => l[i].ext < l[j].ext

(* The packets that wait are from e on, which is expected, and not behind  *)
(* hi; if tailPacket is one of them, it is where tail says.                *)
InOrder(b, e, hi) ==
  /\ IsBuffer(b) /\ b.seen
  /\ Represents(e, b.expected)
  /\ \A i \in DOMAIN b.list : b.list[i].ext >= e /\ b.list[i].ext <= hi
  /\ Sorted(b.list)
  /\ b.at <= Len(b.list) /\ (b.at > 0 => b.tail = b.list[b.at].seq)

LEMMA InsertedList ==
  ASSUME NEW s, IsSeq(s), NEW p, NEW i \in 1 .. Len(s) + 1
  PROVE  LET t == InsertAt(s, i, p)
         IN  /\ IsSeq(t)
             /\ Len(t) = Len(s) + 1
             /\ \A k \in 1 .. Len(t) :
                  t[k] = IF k < i THEN s[k] ELSE IF k = i THEN p ELSE s[k - 1]
<1> DEFINE E == {s[k] : k \in DOMAIN s} \cup {p}
           a == SubSeq(s, 1, i - 1)
           c == SubSeq(s, i, Len(s))
           d == a \o <<p>>
           t == InsertAt(s, i, p)
<1>1. s \in Seq(E) /\ p \in E /\ Len(s) \in Nat
  BY DEF IsSeq
<1> HIDE DEF E
<1>2. a \in Seq(E) /\ Len(a) = i - 1 /\ \A k \in 1 .. i - 1 : a[k] = s[k]
  BY <1>1
<1>3. c \in Seq(E) /\ Len(c) = Len(s) - i + 1 /\ \A k \in 1 .. Len(s) - i + 1 : c[k] = s[i + k - 1]
  BY <1>1
<1> HIDE DEF a, c
<1>4. d \in Seq(E) /\ Len(d) = i
      /\ \A k \in 1 .. i : d[k] = IF k < i THEN s[k] ELSE p
  BY <1>1, <1>2
<1>5. t = d \o c
  BY DEF InsertAt, a, c, d
<1> HIDE DEF d, t
<1>6. t \in Seq(E) /\ Len(t) = Len(s) + 1
  <2>1. t \in Seq(E) /\ Len(t) = Len(d) + Len(c)
    <3>1. d \in Seq(E) /\ c \in Seq(E)
      BY <1>3, <1>4
    <3>2. d \o c \in Seq(E) /\ Len(d \o c) = Len(d) + Len(c)
      BY <3>1
    <3> QED BY <1>5, <3>2
  <2>2. i + (Len(s) - i + 1) = Len(s) + 1
    BY <1>1
  <2> QED BY <1>3, <1>4, <2>1, <2>2
<1>7. \A k \in 1 .. Len(t) : t[k] = IF k < i THEN s[k] ELSE IF k = i THEN p ELSE s[k - 1]
  <2> TAKE k \in 1 .. Len(t)
  <2>1. CASE k <= i
    <3>1. k \in 1 .. Len(d)
      BY <1>1, <1>4, <1>6, <2>1
    <3>2. t[k] = d[k]
      BY <1>3, <1>4, <1>5, <3>1
    <3> QED BY <1>4, <2>1, <3>1, <3>2
  <2>2. CASE k > i
    <3>1. k - i \in 1 .. Len(s) - i + 1 /\ i + (k - i) - 1 = k - 1
      BY <1>1, <1>6, <2>2
    <3>2. t[k] = c[k - i]
      BY <1>1, <1>3, <1>4, <1>5, <1>6, <2>2, <3>1
    <3>3. c[k - i] = s[i + (k - i) - 1]
      BY <1>3, <3>1
    <3> QED BY <2>2, <3>1, <3>2, <3>3
  <2> QED BY <2>1, <2>2, <1>1, <1>6
<1>8. IsSeq(t)
  BY <1>6, SelfTyped
<1> QED BY <1>6, <1>7, <1>8 DEF t

LEMMA AppendedList ==
  ASSUME NEW s, IsSeq(s), NEW p, NEW n \in 0 .. Len(s)
  PROVE  LET t == Append(SubSeq(s, 1, n), p)
         IN  /\ IsSeq(t)
             /\ Len(t) = n + 1
             /\ \A k \in 1 .. n + 1 : t[k] = IF k <= n THEN s[k] ELSE p
<1> DEFINE E == {s[k] : k \in DOMAIN s} \cup {p}
           a == SubSeq(s, 1, n)
           t == Append(a, p)
<1>1. s \in Seq(E) /\ p \in E /\ Len(s) \in Nat
  BY DEF IsSeq
<1> HIDE DEF E
<1>2. a \in Seq(E) /\ Len(a) = n /\ \A k \in 1 .. n : a[k] = s[k]
  BY <1>1
<1> HIDE DEF a
<1>3. t \in Seq(E) /\ Len(t) = n + 1 /\ \A k \in 1 .. n + 1 : t[k] = IF k <= n THEN s[k] ELSE p
  BY <1>1, <1>2
<1> HIDE DEF t
<1>4. IsSeq(t)
  BY <1>3, SelfTyped
<1> QED BY <1>3, <1>4 DEF a, t

LEMMA BufferFields ==
  ASSUME NEW b, IsBuffer(b)
  PROVE  /\ b.tail \in 0 .. SeqSpace /\ b.at \in Nat
         /\ b.expected \in 0 .. SeqSpace /\ b.seen \in BOOLEAN
         /\ Len(b.list) \in Nat /\ DOMAIN b.list = 1 .. Len(b.list)
         /\ \A i \in DOMAIN b.list : /\ b.list[i].ext \in Int
                                     /\ b.list[i].seq = b.list[i].ext % SeqSpace
                                     /\ b.list[i].seq \in 0 .. SeqSpace - 1
<1>1. b.tail \in 0 .. SeqSpace /\ b.at \in Nat
         /\ b.expected \in 0 .. SeqSpace /\ b.seen \in BOOLEAN
  BY DEF IsBuffer
<1>2. Len(b.list) \in Nat /\ DOMAIN b.list = 1 .. Len(b.list)
  BY DEF IsBuffer, IsSeq
<1>3. ASSUME NEW i \in DOMAIN b.list
      PROVE  b.list[i].ext \in Int /\ b.list[i].seq = b.list[i].ext % SeqSpace
  BY DEF IsBuffer, IsPacket
<1>4. ASSUME NEW i \in DOMAIN b.list
      PROVE  b.list[i].seq \in 0 .. SeqSpace - 1
  BY <1>3, Reduced
<1> QED BY <1>1, <1>2, <1>3, <1>4

(* What storing a packet may change of a buffer.                           *)
Replaced(b, l, tail, at) == [b EXCEPT !.list = l, !.tail = tail, !.at = at]

(* A buffer that is in order with another list and another tail.           *)
LEMMA WithList ==
  ASSUME NEW b, NEW e \in Int, NEW hi \in Int, InOrder(b, e, hi),
         NEW l, IsSeq(l), NEW tail \in 0 .. SeqSpace, NEW at \in Nat,
         \A i \in DOMAIN l : IsPacket(l[i]) /\ l[i].ext >= e /\ l[i].ext <= hi,
         Sorted(l), at <= Len(l), at > 0 => tail = l[at].seq
  PROVE  InOrder(Replaced(b, l, tail, at), e, hi)
<1> DEFINE c == Replaced(b, l, tail, at)
<1>1. c \in [list : {l}, tail : 0 .. SeqSpace, at : Nat,
            expected : 0 .. SeqSpace, seen : BOOLEAN]
      /\ c.list = l /\ c.tail = tail /\ c.at = at /\ c.expected = b.expected /\ c.seen = b.seen
  BY DEF InOrder, IsBuffer, Replaced
<1> HIDE DEF c
<1>2. IsBuffer(c)
  BY <1>1 DEF IsBuffer
<1> QED BY <1>1, <1>2 DEF InOrder, c

(* storePacket keeps the order: a packet is too late, a second one, the    *)
(* only one, behind the tail, or before the first that is not earlier.     *)
LEMMA Store ==
  ASSUME NEW b, NEW e \in Int, NEW lo \in Int, NEW hi \in Int, InOrder(b, e, hi),
         NEW p, IsPacket(p), lo <= e, e <= hi + 1, lo <= p.ext, p.ext <= hi,
         hi - lo < Half - 1
  PROVE  InOrder(StorePacket(b, p), e, hi)
<1> DEFINE q == [p EXCEPT !.first = ~b.seen]
<1>1. NoteFirst(b, p) = b
  BY DEF NoteFirst, InOrder
<1>2. p.ext \in Int /\ IsPacket(q) /\ q.ext = p.ext /\ q.seq = p.seq
  BY DEF IsPacket, InOrder, IsBuffer
<1>3. q.ext \in Int /\ q.seq = q.ext % SeqSpace /\ q.seq \in 0 .. SeqSpace - 1
  BY <1>2, Reduced DEF IsPacket
<1> HIDE DEF q
<1>4. /\ b.tail \in 0 .. SeqSpace /\ b.at \in Nat
      /\ b.expected \in 0 .. SeqSpace /\ b.seen \in BOOLEAN
      /\ Len(b.list) \in Nat /\ DOMAIN b.list = 1 .. Len(b.list)
  BY BufferFields DEF InOrder
<1>5. \A i \in 1 .. Len(b.list) :
        /\ b.list[i].ext \in Int /\ b.list[i].ext >= e /\ b.list[i].ext <= hi
        /\ b.list[i].seq = b.list[i].ext % SeqSpace
        /\ b.list[i].seq \in 0 .. SeqSpace - 1
        /\ IsPacket(b.list[i])
  BY <1>4, BufferFields DEF InOrder, IsBuffer
<1>6. IsSeq(b.list) /\ Sorted(b.list)
  BY DEF InOrder, IsBuffer
<1>7. b.at <= Len(b.list) /\ (b.at > 0 => b.tail = b.list[b.at].seq)
  BY DEF InOrder
<1>8. \A i \in 1 .. Len(b.list) :
        /\ SeqNumLT(q.seq, b.list[i].seq) <=> q.ext < b.list[i].ext
        /\ SeqNumLT(b.list[i].seq, q.seq) <=> b.list[i].ext < q.ext
        /\ q.seq = b.list[i].seq <=> q.ext = b.list[i].ext
  <2> TAKE i \in 1 .. Len(b.list)
  <2>1. b.list[i].ext - q.ext < Half /\ q.ext - b.list[i].ext < Half
    <3>1. b.list[i].ext \in Int /\ b.list[i].ext >= e /\ b.list[i].ext <= hi
      BY <1>5
    <3>2. lo <= q.ext /\ q.ext <= hi
      BY <1>2
    <3>3. Half \in Nat
      BY HalfOfSpace
    <3> QED BY <1>3, <3>1, <3>2, <3>3
  <2> QED BY <2>1, <1>3, <1>5, Later
<1>9. CASE Rejected(b, q)
  BY <1>1, <1>9 DEF StorePacket, q
<1>10. ASSUME ~Rejected(b, q)
      PROVE  q.ext >= e
  <2>1. e - q.ext < Half
    BY <1>2, <1>3, HalfOfSpace
  <2>2. ~SeqNumLT(q.ext % SeqSpace, b.expected)
    BY <1>3, <1>10 DEF Rejected
  <2> QED BY <1>3, <1>4, <2>1, <2>2, NotTooLate DEF InOrder
<1>11. CASE ~Rejected(b, q) /\ b.tail = NoTail
  <2>1. StorePacket(b, p) = Replaced(b, <<q>>, q.seq, 1)
    BY <1>1, <1>11 DEF StorePacket, StoreAlone, q, Replaced
  <2>2. IsSeq(<<q>>) /\ Len(<<q>>) = 1 /\ <<q>>[1] = q
        /\ DOMAIN <<q>> = 1 .. 1
    BY DEF IsSeq
  <2>3. Sorted(<<q>>)
    BY <2>2 DEF Sorted
  <2>4. \A i \in DOMAIN <<q>> : IsPacket(<<q>>[i]) /\ <<q>>[i].ext >= e /\ <<q>>[i].ext <= hi
    BY <1>2, <1>10, <1>11, <2>2
  <2>5. q.seq \in 0 .. SeqSpace /\ 1 \in Nat
    BY <1>3, HalfOfSpace
  <2> QED BY <2>1, <2>2, <2>3, <2>4, <2>5, WithList
<1>12. CASE ~Rejected(b, q) /\ b.tail # NoTail /\ SeqNumLT(b.tail, q.seq)
  <2>1. StorePacket(b, p) = StoreLast(b, q)
    BY <1>1, <1>12 DEF StorePacket, q
  <2>5. q.seq \in 0 .. SeqSpace
    BY <1>3, HalfOfSpace
  <2>2. CASE b.at = 0
    <3>1. StorePacket(b, p) = Replaced(b, b.list, q.seq, 0)
      BY <2>1, <2>2 DEF StoreLast, Replaced
    <3>2. \A i \in DOMAIN b.list : IsPacket(b.list[i]) /\ b.list[i].ext >= e /\ b.list[i].ext <= hi
      BY <1>4, <1>5
    <3>3. 0 \in Nat /\ 0 <= Len(b.list) /\ (0 > 0 => q.seq = b.list[0].seq)
      BY <1>4
    <3> QED BY <1>6, <2>5, <3>1, <3>2, <3>3, WithList
  <2>3. CASE b.at # 0
    <3> DEFINE t == Append(SubSeq(b.list, 1, b.at), q)
    <3>1. StorePacket(b, p) = Replaced(b, t, q.seq, b.at + 1)
      BY <2>1, <2>3 DEF StoreLast, Replaced
    <3>2. b.at \in 1 .. Len(b.list)
      BY <1>4, <1>7, <2>3
    <3>3. /\ IsSeq(t)
          /\ Len(t) = b.at + 1
          /\ \A k \in 1 .. b.at + 1 : t[k] = IF k <= b.at THEN b.list[k] ELSE q
      <4>1. b.at \in 0 .. Len(b.list)
        BY <3>2, <1>4
      <4> QED BY <1>6, <4>1, AppendedList
    <3> HIDE DEF t
    <3>4. DOMAIN t = 1 .. b.at + 1
      BY <3>3
    <3>5. b.list[b.at].ext < q.ext
      BY <1>8, <1>7, <1>12, <3>2
    <3>6. Sorted(t)
      <4> SUFFICES ASSUME NEW i \in 1 .. b.at + 1, NEW j \in 1 .. b.at + 1, i < j
                   PROVE  t[i].ext < t[j].ext
        BY <3>4 DEF Sorted
      <4>1. i \in 1 .. Len(b.list) /\ t[i] = b.list[i] /\ i <= b.at
        BY <3>2, <3>3, <1>4
      <4>2. CASE j <= b.at
        <5>1. j \in 1 .. Len(b.list) /\ t[j] = b.list[j]
          BY <3>2, <3>3, <1>4, <4>2
        <5> QED BY <1>4, <1>6, <4>1, <5>1 DEF Sorted
      <4>3. CASE j = b.at + 1
        <5>1. t[j] = q
          BY <3>3, <1>4, <4>3
        <5>2. b.list[i].ext <= b.list[b.at].ext
          <6>1. b.list[i].ext \in Int /\ b.list[b.at].ext \in Int
            BY <1>5, <3>2, <4>1
          <6>2. i < b.at => b.list[i].ext < b.list[b.at].ext
            BY <1>4, <1>6, <3>2, <4>1 DEF Sorted
          <6>3. i < b.at \/ i = b.at
            BY <1>4, <4>1
          <6> QED BY <6>1, <6>2, <6>3
        <5>3. b.list[i].ext \in Int /\ b.list[b.at].ext \in Int
          BY <1>5, <3>2, <4>1
        <5>4. q.ext \in Int
          BY <1>3
        <5>5. b.list[i].ext < q.ext
          BY ONLY <3>5, <5>2, <5>3, <5>4
        <5> QED BY <4>1, <5>1, <5>5
      <4>4. j <= b.at \/ j = b.at + 1
        <5>1. b.at \in Nat
          BY <1>4
        <5> QED BY <5>1
      <4> QED BY <4>2, <4>3, <4>4
    <3>7. \A i \in DOMAIN t : IsPacket(t[i]) /\ t[i].ext >= e /\ t[i].ext <= hi
      <4> TAKE i \in DOMAIN t
      <4>1. CASE i <= b.at
        <5>1. i \in 1 .. Len(b.list) /\ t[i] = b.list[i]
          BY <1>4, <1>7, <3>3, <3>4, <4>1
        <5> QED BY <1>5, <5>1
      <4>2. CASE ~(i <= b.at)
        BY <1>2, <1>10, <1>12, <3>3, <3>4, <4>2
      <4> QED BY <4>1, <4>2
    <3>8. b.at + 1 \in Nat /\ b.at + 1 <= Len(t) /\ (b.at + 1 > 0 => q.seq = t[b.at + 1].seq)
      BY <1>4, <3>3
    <3> QED BY <2>5, <3>1, <3>3, <3>6, <3>7, <3>8, WithList
  <2> QED BY <2>2, <2>3
<1>13. CASE ~Rejected(b, q) /\ b.tail # NoTail /\ ~SeqNumLT(b.tail, q.seq)
  <2> DEFINE i == Position(b, q)
             t == InsertAt(b.list, i, q)
             at == IF b.at >= i THEN b.at + 1 ELSE b.at
  <2>1. StorePacket(b, p) = Replaced(b, t, b.tail, at)
    <3>1. StorePacket(b, p) = StoreBefore(b, q)
      BY <1>1, <1>13 DEF StorePacket, q
    <3>2. b = [b EXCEPT !.tail = b.tail]
      BY DEF InOrder, IsBuffer
    <3> QED BY <3>1, <3>2 DEF StoreBefore, Replaced
  <2>2. /\ i \in 1 .. Len(b.list) + 1
        /\ \A k \in 1 .. Len(b.list) : k < i => b.list[k].ext < q.ext
        /\ i <= Len(b.list) => b.list[i].ext > q.ext
    <3>1. Stops(b, q) = {k \in 1 .. Len(b.list) : b.list[k].ext >= q.ext}
      BY <1>3, <1>5, <1>8 DEF Stops
    <3>2. CASE Stops(b, q) = {}
      <4>1. i = Len(b.list) + 1
        BY <3>2 DEF Position
      <4> HIDE DEF i
      <4>2. ASSUME NEW k \in 1 .. Len(b.list)
            PROVE  b.list[k].ext < q.ext
        <5>1. ~(b.list[k].ext >= q.ext) /\ b.list[k].ext \in Int
          BY <1>5, <3>1, <3>2
        <5> QED BY <1>3, <5>1
      <4> QED BY <1>4, <4>1, <4>2
    <3>3. CASE Stops(b, q) # {}
      <4>1. \E k \in Stops(b, q) : \A j \in Stops(b, q) : k <= j
        <5>1. Stops(b, q) \subseteq Nat
          BY <3>1
        <5> QED BY <3>3, <5>1, Least
      <4>2. i \in Stops(b, q) /\ \A j \in Stops(b, q) : i <= j
        BY <3>3, <4>1 DEF Position
      <4> HIDE DEF i
      <4>3. b.list[i].ext # q.ext
        <5>1. ~Duplicate(b, q)
          BY <1>13 DEF Rejected
        <5>2. i \in 1 .. Len(b.list) /\ i = Position(b, q)
          BY <3>1, <4>2 DEF i
        <5>3. b.list[i].seq # q.seq
          BY <5>1, <5>2, <1>4 DEF Duplicate
        <5> QED BY <5>2, <5>3, <1>8
      <4>4. i \in 1 .. Len(b.list) /\ b.list[i].ext >= q.ext
        BY <3>1, <4>2
      <4>5. b.list[i].ext > q.ext
        <5>1. b.list[i].ext \in Int
          BY <1>5, <4>4
        <5> QED BY <1>3, <4>3, <4>4, <5>1
      <4>6. ASSUME NEW k \in 1 .. Len(b.list), k < i
            PROVE  b.list[k].ext < q.ext
        <5>1. k \notin Stops(b, q)
          BY <1>4, <4>2, <4>4, <4>6
        <5>2. ~(b.list[k].ext >= q.ext) /\ b.list[k].ext \in Int
          BY <1>5, <3>1, <5>1
        <5> QED BY <1>3, <5>2
      <4> QED BY <1>4, <4>4, <4>5, <4>6
    <3> QED BY <3>2, <3>3
  <2> HIDE DEF i
  <2>3. /\ IsSeq(t)
        /\ Len(t) = Len(b.list) + 1
        /\ \A k \in 1 .. Len(t) :
             t[k] = IF k < i THEN b.list[k] ELSE IF k = i THEN q ELSE b.list[k - 1]
    BY <1>6, <2>2, InsertedList
  <2> HIDE DEF t
  <2>4. /\ DOMAIN t = 1 .. Len(b.list) + 1
        /\ \A k \in 1 .. Len(b.list) + 1 :
             t[k] = IF k < i THEN b.list[k] ELSE IF k = i THEN q ELSE b.list[k - 1]
    BY <2>3
  <2>5. Len(b.list) \in Nat /\ i \in Nat /\ i >= 1 /\ i <= Len(b.list) + 1
    BY <1>4, <2>2
  <2>6. Sorted(t)
    <3> SUFFICES ASSUME NEW j \in 1 .. Len(b.list) + 1, NEW k \in 1 .. Len(b.list) + 1, j < k
                 PROVE  t[j].ext < t[k].ext
      BY <2>4 DEF Sorted
    <3>1. CASE k < i
      <4>1. j \in 1 .. Len(b.list) /\ k \in 1 .. Len(b.list) /\ j < i
        BY <2>5, <3>1
      <4>2. t[j] = b.list[j] /\ t[k] = b.list[k]
        BY <2>4, <3>1, <4>1
      <4> QED BY <1>4, <1>6, <4>1, <4>2 DEF Sorted
    <3>2. CASE k = i
      <4>1. j \in 1 .. Len(b.list) /\ j < i
        BY <2>5, <3>2
      <4>2. t[j] = b.list[j] /\ t[k] = q
        BY <2>4, <3>2, <4>1
      <4> QED BY <2>2, <4>1, <4>2
    <3>3. CASE k > i
      <4>1. k - 1 \in 1 .. Len(b.list) /\ t[k] = b.list[k - 1] /\ i <= k - 1 /\ i \in 1 .. Len(b.list)
        <5>1. k - 1 \in 1 .. Len(b.list) /\ i <= k - 1 /\ i \in 1 .. Len(b.list) /\ ~(k < i) /\ k # i
          BY <2>5, <3>3
        <5> QED BY <2>4, <5>1
      <4>2. b.list[k - 1].ext > q.ext
        <5>1. b.list[i].ext <= b.list[k - 1].ext
          <6>1. b.list[i].ext \in Int /\ b.list[k - 1].ext \in Int
            BY <1>5, <4>1
          <6>2. i < k - 1 => b.list[i].ext < b.list[k - 1].ext
            BY <1>4, <1>6, <4>1 DEF Sorted
          <6>3. i < k - 1 \/ i = k - 1
            BY <4>1
          <6> QED BY <6>1, <6>2, <6>3
        <5>2. b.list[i].ext \in Int /\ b.list[k - 1].ext \in Int
          BY <1>5, <4>1
        <5>3. b.list[i].ext > q.ext
          BY <1>4, <2>2, <4>1
        <5> QED BY <1>3, <5>1, <5>2, <5>3
      <4>3. CASE j < i
        <5>1. j \in 1 .. Len(b.list) /\ t[j] = b.list[j] /\ j < k - 1
          <6>1. j \in 1 .. Len(b.list) /\ j < k - 1
            BY <2>5, <3>3, <4>3
          <6> QED BY <2>4, <4>3, <6>1
        <5> QED BY <1>4, <1>6, <4>1, <5>1 DEF Sorted
      <4>4. CASE j = i
        BY <2>3, <4>1, <4>2, <4>4, <1>4
      <4>5. CASE j > i
        <5>1. j - 1 \in 1 .. Len(b.list) /\ t[j] = b.list[j - 1] /\ j - 1 < k - 1
          <6>1. j - 1 \in 1 .. Len(b.list) /\ j - 1 < k - 1 /\ ~(j < i) /\ j # i
            BY <2>5, <4>5
          <6> QED BY <2>4, <6>1
        <5> QED BY <1>4, <1>6, <4>1, <5>1 DEF Sorted
      <4> QED BY <4>3, <4>4, <4>5, <2>2
    <3> QED BY <3>1, <3>2, <3>3, <2>2
  <2>7. \A k \in DOMAIN t : IsPacket(t[k]) /\ t[k].ext >= e /\ t[k].ext <= hi
    <3> TAKE k \in DOMAIN t
    <3>1. CASE k < i
      <4>1. k \in 1 .. Len(b.list) /\ t[k] = b.list[k]
        <5>1. k \in 1 .. Len(b.list)
          BY <2>4, <2>5, <3>1
        <5> QED BY <2>4, <3>1, <5>1
      <4> QED BY <1>5, <4>1
    <3>2. CASE k = i
      <4>1. t[k] = q
        BY <2>4, <2>5, <3>2
      <4> QED BY <1>2, <1>10, <1>13, <4>1
    <3>3. CASE k > i
      <4>1. k - 1 \in 1 .. Len(b.list) /\ t[k] = b.list[k - 1]
        <5>1. k - 1 \in 1 .. Len(b.list) /\ ~(k < i) /\ k # i
          BY <2>4, <2>5, <3>3
        <5> QED BY <2>4, <5>1
      <4> QED BY <1>5, <4>1
    <3> QED BY <3>1, <3>2, <3>3, <2>4, <2>5
  <2>8. at \in Nat /\ at <= Len(t) /\ (at > 0 => b.tail = t[at].seq)
    <3>1. /\ b.at \in Nat /\ b.at <= Len(b.list) /\ Len(t) = Len(b.list) + 1
          /\ (b.at > 0 => b.tail = b.list[b.at].seq)
      BY <1>4, <1>7, <2>3
    <3>2. CASE b.at >= i
      <4>1. at = b.at + 1 /\ at \in 1 .. Len(b.list) + 1 /\ ~(at < i) /\ at # i /\ at - 1 = b.at
        BY ONLY <2>5, <3>1, <3>2
      <4> HIDE DEF at
      <4>2. t[at] = b.list[b.at]
        BY <2>4, <4>1
      <4>3. b.at > 0 /\ at \in Nat /\ at <= Len(t)
        BY <2>5, <3>1, <3>2, <4>1
      <4> QED BY <3>1, <4>2, <4>3
    <3>3. CASE b.at < i
      <4>1. at = b.at
        BY ONLY <2>5, <3>1, <3>3
      <4> HIDE DEF at
      <4>2. at > 0 => at \in 1 .. Len(b.list) + 1 /\ at < i
        BY <2>5, <3>1, <3>3, <4>1
      <4>3. at > 0 => t[at] = b.list[b.at]
        BY <2>4, <4>1, <4>2
      <4> QED BY <3>1, <4>1, <4>3
    <3> QED BY <2>5, <3>1, <3>2, <3>3
  <2> QED BY <1>4, <2>1, <2>3, <2>6, <2>7, <2>8, WithList
<1> QED BY <1>9, <1>11, <1>12, <1>13

-----------------------------------------------------------------------------
(* Taking the head of a list.                                              *)

(* What lies before the head is given up (GiveUpEarlier).                  *)
LEMMA Taken ==
  ASSUME NEW b, NEW e \in Int, NEW hi \in Int, InOrder(b, e, hi), b.list # <<>>
  PROVE  /\ Head(b.list).ext \in Int
         /\ e <= Head(b.list).ext /\ Head(b.list).ext <= hi
         /\ InOrder(GiveUpEarlier(b), Head(b.list).ext, hi)
         /\ GiveUpEarlier(b).list = b.list
<1> DEFINE h == Head(b.list)
           g == GiveUpEarlier(b)
<1>1. Len(b.list) \in Nat /\ Len(b.list) > 0 /\ DOMAIN b.list = 1 .. Len(b.list) /\ h = b.list[1]
  BY DEF InOrder, IsBuffer, IsSeq
<1>2. h.ext \in Int /\ h.seq = h.ext % SeqSpace /\ h.seq \in 0 .. SeqSpace - 1
  BY <1>1, BufferFields DEF InOrder
<1>3. e <= h.ext /\ h.ext <= hi
  BY <1>1, <1>2 DEF InOrder
<1>4. g = [b EXCEPT !.expected = h.seq] /\ h.seq \in 0 .. SeqSpace
  BY <1>2, HalfOfSpace DEF GiveUpEarlier
<1> HIDE DEF g, h
<1>5. /\ g \in [list : {b.list}, tail : 0 .. SeqSpace, at : Nat,
                expected : 0 .. SeqSpace, seen : BOOLEAN]
      /\ g.list = b.list /\ g.tail = b.tail /\ g.at = b.at /\ g.expected = h.seq /\ g.seen = b.seen
  BY <1>4 DEF InOrder, IsBuffer
<1>6. IsBuffer(g)
  BY <1>5 DEF InOrder, IsBuffer
<1>7. Represents(h.ext, g.expected)
  BY <1>2, <1>5 DEF Represents
<1>8. \A i \in DOMAIN g.list : g.list[i].ext >= h.ext /\ g.list[i].ext <= hi
  <2> TAKE i \in DOMAIN g.list
  <2>1. i = 1 \/ 1 < i
    BY <1>1, <1>5
  <2>2. 1 < i => b.list[1].ext < b.list[i].ext
    BY <1>1, <1>5 DEF InOrder, Sorted
  <2>3. b.list[i].ext \in Int /\ b.list[i].ext <= hi
    BY <1>5, BufferFields DEF InOrder
  <2> QED BY <1>1, <1>2, <1>5, <2>1, <2>2, <2>3
<1>9. InOrder(g, h.ext, hi)
  BY <1>5, <1>6, <1>7, <1>8 DEF InOrder
<1> QED BY <1>2, <1>3, <1>5, <1>9 DEF g, h

LEMMA TailedList ==
  ASSUME NEW s, IsSeq(s), s # <<>>
  PROVE  /\ IsSeq(Tail(s)) /\ Len(s) \in Nat /\ Len(s) > 0
         /\ DOMAIN Tail(s) = 1 .. Len(s) - 1 /\ DOMAIN s = 1 .. Len(s)
         /\ Len(Tail(s)) = Len(s) - 1
         /\ \A k \in 1 .. Len(s) - 1 : Tail(s)[k] = s[k + 1]
<1> DEFINE E == {s[k] : k \in DOMAIN s}
           t == Tail(s)
<1>1. s \in Seq(E) /\ s # <<>>
  BY DEF IsSeq
<1> HIDE DEF E
<1>2. /\ t \in Seq(E) /\ Len(s) \in Nat /\ Len(s) > 0 /\ Len(t) = Len(s) - 1
      /\ DOMAIN t = 1 .. Len(s) - 1 /\ DOMAIN s = 1 .. Len(s)
      /\ \A k \in 1 .. Len(s) - 1 : t[k] = s[k + 1]
  BY <1>1
<1> HIDE DEF t
<1>3. IsSeq(t)
  BY <1>2, SelfTyped
<1> QED BY <1>2, <1>3 DEF t

(* The number behind e is expected.                                        *)
LEMMA NextRepresents ==
  ASSUME NEW a \in Int
  PROVE  Represents(a + 1, (a % SeqSpace) + 1)
<1>1. SeqSpace \in Nat /\ SeqSpace > 2
  BY HalfOfSpace
<1>2. a % SeqSpace \in 0 .. SeqSpace - 1
  BY Reduced
<1>3. (a + 1) - a = 1 /\ a + 1 \in Int /\ a <= a + 1 /\ (a + 1) - a < SeqSpace
  BY <1>1
<1>4. (a + 1) % SeqSpace = IF (a % SeqSpace) + 1 < SeqSpace THEN (a % SeqSpace) + 1
                           ELSE (a % SeqSpace) + 1 - SeqSpace
  BY <1>3, ReducedSum
<1> QED BY <1>1, <1>2, <1>4 DEF Represents

(* The head leaves the list, and the number behind its own is expected.    *)
LEMMA Released ==
  ASSUME NEW b, NEW hi \in Int, b.list # <<>>, Head(b.list).ext \in Int,
         InOrder(b, Head(b.list).ext, hi), b.expected = Head(b.list).seq
  PROVE  InOrder(ReleaseUsedPacket(b), Head(b.list).ext + 1, hi)
<1> DEFINE h == Head(b.list)
           t == Tail(b.list)
           r == ReleaseUsedPacket(b)
<1>1. /\ IsSeq(t) /\ Len(b.list) \in Nat /\ Len(b.list) > 0
      /\ DOMAIN t = 1 .. Len(b.list) - 1 /\ DOMAIN b.list = 1 .. Len(b.list)
      /\ Len(t) = Len(b.list) - 1
      /\ \A k \in 1 .. Len(b.list) - 1 : t[k] = b.list[k + 1]
  BY TailedList DEF InOrder, IsBuffer
<1>2. h = b.list[1]
  BY <1>1 DEF InOrder, IsBuffer, IsSeq
<1>3. h.ext \in Int /\ h.seq = h.ext % SeqSpace /\ h.seq \in 0 .. SeqSpace - 1
  BY <1>1, <1>2, BufferFields DEF InOrder
<1>4. r = [b EXCEPT !.expected = h.seq + 1, !.list = t,
                    !.tail = IF Len(b.list) > 1 THEN NoTail ELSE @, !.at = 0]
  BY DEF ReleaseUsedPacket
<1>5. h.seq + 1 \in 0 .. SeqSpace /\ NoTail \in 0 .. SeqSpace
  BY <1>3, HalfOfSpace DEF NoTail
<1> HIDE DEF r, h, t
<1>6. /\ r \in [list : {t}, tail : 0 .. SeqSpace, at : Nat,
                expected : 0 .. SeqSpace, seen : BOOLEAN]
      /\ r.list = t /\ r.at = 0 /\ r.expected = h.seq + 1 /\ r.seen = b.seen
  BY <1>4, <1>5 DEF InOrder, IsBuffer
<1>7. \A i \in DOMAIN t : /\ IsPacket(t[i])
                          /\ t[i].ext >= h.ext + 1 /\ t[i].ext <= hi
  <2> TAKE i \in DOMAIN t
  <2>1. i + 1 \in DOMAIN b.list /\ t[i] = b.list[i + 1] /\ 1 \in DOMAIN b.list /\ 1 < i + 1
    BY <1>1
  <2>2. b.list[1].ext < b.list[i + 1].ext
    BY <2>1 DEF InOrder, Sorted
  <2>3. IsPacket(t[i]) /\ t[i].ext \in Int /\ t[i].ext <= hi
    BY <2>1, BufferFields DEF InOrder, IsBuffer
  <2> QED BY <1>2, <1>3, <2>1, <2>2, <2>3
<1>8. IsBuffer(r)
  BY <1>1, <1>6, <1>7 DEF IsBuffer
<1>9. Sorted(t)
  <2> SUFFICES ASSUME NEW i \in DOMAIN t, NEW j \in DOMAIN t, i < j
               PROVE  t[i].ext < t[j].ext
    BY DEF Sorted
  <2>1. /\ i + 1 \in DOMAIN b.list /\ t[i] = b.list[i + 1]
        /\ j + 1 \in DOMAIN b.list /\ t[j] = b.list[j + 1]
        /\ i + 1 < j + 1
    BY <1>1
  <2> QED BY <2>1 DEF InOrder, Sorted
<1>10. Represents(h.ext + 1, r.expected)
  BY <1>3, <1>6, NextRepresents
<1>11. InOrder(r, h.ext + 1, hi)
  BY <1>1, <1>6, <1>7, <1>8, <1>9, <1>10 DEF InOrder
<1> QED BY <1>11 DEF r, h

(* The head stays, with what was delivered of it.                          *)
LEMMA Used ==
  ASSUME NEW b, NEW e \in Int, NEW hi \in Int, NEW bytes, b.list # <<>>,
         InOrder(b, e, hi)
  PROVE  InOrder([b EXCEPT !.list[1].used = TRUE, !.list[1].payload = bytes], e, hi)
<1> DEFINE p == [b.list[1] EXCEPT !.used = TRUE, !.payload = bytes]
           t == [b.list EXCEPT ![1] = p]
           u == [b EXCEPT !.list[1].used = TRUE, !.list[1].payload = bytes]
<1>1. IsSeq(b.list) /\ Len(b.list) \in Nat /\ Len(b.list) > 0 /\ DOMAIN b.list = 1 .. Len(b.list)
  BY DEF InOrder, IsBuffer, IsSeq
<1>2. IsPacket(b.list[1])
  BY <1>1 DEF InOrder, IsBuffer
<1>3. IsPacket(p) /\ p.ext = b.list[1].ext /\ p.seq = b.list[1].seq
  BY <1>2 DEF IsPacket
<1>4. u = [b EXCEPT !.list = t]
  BY <1>1 DEF InOrder, IsBuffer
<1> HIDE DEF p, u
<1>5. IsSeq(t) /\ DOMAIN t = DOMAIN b.list /\ Len(t) = Len(b.list)
      /\ \A i \in DOMAIN t : t[i] = IF i = 1 THEN p ELSE b.list[i]
  <2> DEFINE E == {b.list[i] : i \in DOMAIN b.list} \cup {p}
  <2>1. b.list \in Seq(E) /\ p \in E
    BY <1>1 DEF IsSeq
  <2> HIDE DEF E
  <2>2. t \in Seq(E) /\ DOMAIN t = DOMAIN b.list /\ Len(t) = Len(b.list)
        /\ \A i \in DOMAIN t : t[i] = IF i = 1 THEN p ELSE b.list[i]
    BY <1>1, <2>1
  <2> QED BY <2>2, SelfTyped
<1> HIDE DEF t
<1>6. /\ u \in [list : {t}, tail : 0 .. SeqSpace, at : Nat,
                expected : 0 .. SeqSpace, seen : BOOLEAN]
      /\ u.list = t /\ u.at = b.at /\ u.tail = b.tail /\ u.expected = b.expected /\ u.seen = b.seen
  BY <1>4 DEF InOrder, IsBuffer
<1>7. \A i \in DOMAIN t : IsPacket(t[i]) /\ t[i].ext = b.list[i].ext /\ t[i].seq = b.list[i].seq
  BY <1>3, <1>5 DEF InOrder, IsBuffer
<1>8. IsBuffer(u)
  BY <1>5, <1>6, <1>7 DEF IsBuffer
<1>9. Sorted(t)
  BY <1>5, <1>7 DEF InOrder, Sorted
<1>10. u.at <= Len(t) /\ (u.at > 0 => u.tail = t[u.at].seq)
  <2>1. b.at \in Nat /\ b.at <= Len(b.list) /\ (b.at > 0 => b.tail = b.list[b.at].seq)
    BY DEF InOrder, IsBuffer
  <2>2. b.at > 0 => b.at \in DOMAIN t
    BY <1>1, <1>5, <2>1
  <2> QED BY <1>5, <1>6, <1>7, <2>1, <2>2
<1>11. InOrder(u, e, hi)
  BY <1>5, <1>6, <1>7, <1>8, <1>9, <1>10 DEF InOrder
<1> QED BY <1>11 DEF u

(* What doGetNextFrame1 does to a buffer that is in order and to the frame.*)
LEMMA Delivery ==
  ASSUME NEW b, NEW e \in Int, NEW hi \in Int, InOrder(b, e, hi), e <= hi + 1,
         DoGetNextFrame1(b)
  PROVE  \E n \in Int : /\ e <= n /\ n <= hi + 1 /\ InOrder(buffer', n, hi)
                        /\ \/ frame' = frame
                           \/ /\ frame'.ext \in Int
                              /\ e <= frame'.ext /\ frame'.ext <= n
<1>1. PICK old \in BOOLEAN :
        \/ NothingCompleted(b, old)
        \/ /\ Completed(b, old)
           /\ \/ RejectHeader(GiveUpEarlier(b), Head(b.list))
              \/ Deliver(GiveUpEarlier(b), Head(b.list))
  BY DEF DoGetNextFrame1
<1> DEFINE h == Head(b.list)
           g == GiveUpEarlier(b)
<1>2. CASE NothingCompleted(b, old)
  BY <1>2 DEF NothingCompleted
<1>3. ASSUME Completed(b, old)
      PROVE  /\ h.ext \in Int /\ e <= h.ext /\ h.ext <= hi
             /\ h.ext + 1 \in Int /\ e <= h.ext + 1 /\ h.ext + 1 <= hi + 1 /\ h.ext <= h.ext + 1
             /\ h.ext <= hi + 1
             /\ InOrder(g, h.ext, hi)
             /\ InOrder(ReleaseUsedPacket(g), h.ext + 1, hi)
             /\ \A bytes : InOrder([g EXCEPT !.list[1].used = TRUE,
                                             !.list[1].payload = bytes], h.ext, hi)
  <2>1. b.list # <<>>
    BY <1>3 DEF Completed, HeadExpected
  <2>2. /\ h.ext \in Int /\ e <= h.ext /\ h.ext <= hi
        /\ InOrder(g, h.ext, hi) /\ g.list = b.list
    BY <2>1, Taken
  <2>3. g.expected = Head(g.list).seq
    BY <2>2 DEF GiveUpEarlier, InOrder, IsBuffer
  <2> HIDE DEF g
  <2>4. InOrder(ReleaseUsedPacket(g), h.ext + 1, hi)
    BY <2>1, <2>2, <2>3, Released
  <2>5. \A bytes : InOrder([g EXCEPT !.list[1].used = TRUE,
                                     !.list[1].payload = bytes], h.ext, hi)
    BY <2>1, <2>2, Used
  <2> HIDE DEF h
  <2>6. /\ h.ext + 1 \in Int /\ e <= h.ext + 1 /\ h.ext + 1 <= hi + 1
        /\ h.ext <= h.ext + 1 /\ h.ext <= hi + 1
    BY <2>2
  <2> QED BY <2>2, <2>4, <2>5, <2>6
<1>4. CASE Completed(b, old) /\ RejectHeader(g, h)
  <2>1. buffer' = ReleaseUsedPacket(g) /\ frame' = frame
    BY <1>4 DEF RejectHeader
  <2> HIDE DEF g, h
  <2> QED BY <1>3, <1>4, <2>1
<1>5. CASE Completed(b, old) /\ Deliver(g, h)
  <2>1. PICK bytes :
          /\ frame' = [ssrc |-> h.ssrc, ext |-> h.ext]
          /\ buffer' = IF bytes = <<>> THEN ReleaseUsedPacket(g)
                       ELSE [g EXCEPT !.list[1].used = TRUE, !.list[1].payload = bytes]
    <3> DEFINE bytes == IF h.used THEN h.payload ELSE SkipSpecialHeader(h.payload)
    <3>1. /\ frame' = [ssrc |-> h.ssrc, ext |-> h.ext]
          /\ buffer' = IF bytes = <<>> THEN ReleaseUsedPacket(g)
                       ELSE [g EXCEPT !.list[1].used = TRUE, !.list[1].payload = bytes]
      BY <1>5, Zenon DEF Deliver
    <3> HIDE DEF bytes, g, h
    <3> QED BY <3>1
  <2>2. frame'.ext = h.ext
    BY <2>1
  <2> HIDE DEF g, h
  <2>3. CASE bytes = <<>>
    BY <1>3, <1>5, <2>1, <2>2, <2>3
  <2>4. CASE bytes # <<>>
    <3>1. buffer' = [g EXCEPT !.list[1].used = TRUE, !.list[1].payload = bytes]
      BY <2>1, <2>4
    <3>2. InOrder(buffer', h.ext, hi)
      BY <1>3, <1>5, <3>1, Zenon
    <3>3. h.ext \in Int /\ e <= h.ext /\ h.ext <= hi + 1
      BY <1>3, <1>5, Zenon
    <3> QED BY <2>2, <3>2, <3>3
  <2> QED BY <2>3, <2>4
<1> QED BY <1>1, <1>2, <1>4, <1>5

-----------------------------------------------------------------------------
(* The inductive invariant.                                                *)

NumbersInv == seqNo \in Nat /\ IsSeq(sent)

PeersInv == foreign \in [ssrc : Ssrcs, first : Nat]

ArrivedInv ==
  /\ arrived \in [Ssrcs -> [first : Int, min : Int, max : Int]]
  /\ \A s \in Ssrcs : arrived[s] # NoneArrived =>
       arrived[s].min <= arrived[s].first /\ arrived[s].first <= arrived[s].max

IsStats(r) ==
  r \in [base : {r.base}, highest : Int, received : Nat,
         syncTimestamp : {r.syncTimestamp}, syncTime : {r.syncTime}]

(* The statistics of a sender whose packets the numbers a are of.          *)
Counted(r, a) ==
  a.max - a.first <= ExtMod - 2 * SeqSpace =>
    r.highest - (SeqSpace + (a.first % SeqSpace)) = a.max - a.first

StatsInv ==
  /\ DOMAIN stats = Ssrcs
  /\ \A s \in Ssrcs :
       IF arrived[s] = NoneArrived THEN stats[s] = NoStats
       ELSE IsStats(stats[s]) /\ stats[s].received > 0 /\ Counted(stats[s], arrived[s])

(* The frame delivered last is from before e.                              *)
Before(f, e) == f # NoFrame => f.ext \in Int /\ f.ext <= e

RangeInv ==
  OneRange =>
    IF arrived[1] = NoneArrived
    THEN buffer = EmptyBuffer /\ lastReceivedSSRC = 0 /\ frame = NoFrame
    ELSE /\ lastReceivedSSRC = 1
         /\ \E e \in arrived[1].min .. arrived[1].max + 1 :
              InOrder(buffer, e, arrived[1].max) /\ Before(frame, e)

IInv == NumbersInv /\ PeersInv /\ ArrivedInv /\ StatsInv /\ RangeInv

-----------------------------------------------------------------------------
(* What the actions do to what the invariant is about.                     *)

(* A step of the sender sends one packet with the next number, or none.    *)
LEMMA SendsOne ==
  ASSUME SenderNext
  PROVE  \/ UNCHANGED <<seqNo, sent>>
         \/ seqNo' = seqNo + 1 /\ \E packet : sent' = Append(sent, packet)
<1>1. \/ \E b, f : FrameFits(b, f)
      \/ UNCHANGED <<seqNo, sent>>
  <2>1. ASSUME NEW b, NEW f, AfterGettingFrame(b, f)
        PROVE  FrameFits(b, f) \/ UNCHANGED <<seqNo, sent>>
    BY <2>1 DEF AfterGettingFrame, FrameOverflows
  <2>2. ASSUME NEW b, NEW f, NEW marker, NEW soFar, PackFragment(b, f, marker, soFar)
        PROVE  (\E c, g : FrameFits(c, g)) \/ UNCHANGED <<seqNo, sent>>
    <3>1. \E c, g : AfterGettingFrame(c, g)
      BY <2>2, Zenon DEF PackFragment
    <3> QED BY <3>1, <2>1
  <2>3. CASE PackOverflow
    <3>1. \E c, g : AfterGettingFrame(c, g)
      BY <2>3, Zenon DEF PackOverflow
    <3> QED BY <3>1, <2>1
  <2>4. CASE \E n \in NalSizes, ends \in BOOLEAN, more \in 0 .. 1 : SendNal(n, ends, more)
    <3>1. \E b, f, marker, soFar : PackFragment(b, f, marker, soFar)
      BY <2>4, Zenon DEF SendNal
    <3> QED BY <3>1, <2>2
  <2>5. CASE \E n \in NalSizes, ends \in BOOLEAN, more \in 0 .. 1 : ParseAgain(n, ends, more)
    <3>1. \E b, f, marker, soFar : PackFragment(b, f, marker, soFar)
      BY <2>5, Zenon DEF ParseAgain
    <3> QED BY <3>1, <2>2
  <2>6. CASE SendFragment
    <3>1. \E b, f, marker, soFar : PackFragment(b, f, marker, soFar)
      BY <2>6, Zenon DEF SendFragment
    <3> QED BY <3>1, <2>2
  <2>7. CASE OurHandlerClosure
    BY <2>7 DEF OurHandlerClosure
  <2>8. CASE SourceGone
    BY <2>8 DEF SourceGone
  <2>9. CASE StopPlaying
    BY <2>9 DEF StopPlaying
  <2>10. CASE StartPlaying
    BY <2>10 DEF StartPlaying
  <2> QED BY <2>3, <2>4, <2>5, <2>6, <2>7, <2>8, <2>9, <2>10 DEF SenderNext, Loop
<1>2. CASE \E b, f : FrameFits(b, f)
  BY <1>2, Zenon DEF FrameFits
<1> QED BY <1>1, <1>2

LEMMA SenderNumbers ==
  ASSUME NumbersInv, SenderNext
  PROVE  NumbersInv'
<1>1. CASE UNCHANGED <<seqNo, sent>>
  BY <1>1 DEF NumbersInv
<1>2. CASE seqNo' = seqNo + 1 /\ \E packet : sent' = Append(sent, packet)
  <2>1. PICK packet : sent' = Append(sent, packet)
    BY <1>2
  <2> DEFINE E == {sent[i] : i \in DOMAIN sent} \cup {packet}
  <2>2. sent \in Seq(E) /\ packet \in E
    BY DEF NumbersInv, IsSeq
  <2> HIDE DEF E
  <2>3. sent' \in Seq(E)
    BY <2>1, <2>2
  <2>4. IsSeq(sent')
    BY <2>3, SelfTyped
  <2> QED BY <1>2, <2>4 DEF NumbersInv, IsSeq
<1> QED BY <1>1, <1>2, SendsOne

(* A round of networkReadHandler: nothing, or a packet of a known sender.  *)
LEMMA Rounds ==
  ASSUME NumbersInv, PeersInv, Arrival
  PROVE  /\ UNCHANGED <<seqNo, sent, foreign>>
         /\ \/ ReadInvalid
            \/ \E ssrc \in {1, foreign.ssrc}, ext \in Int : \E ts, payload :
                 InWindow(ssrc, ext) /\ ReadPacket(ssrc, ext, ts, payload)
<1>1. UNCHANGED <<seqNo, sent, foreign>>
  BY DEF Arrival, senderVars
<1>2. ASSUME NEW i \in DOMAIN sent, Arrive(i)
      PROVE  \/ ReadInvalid
             \/ \E ssrc \in {1, foreign.ssrc}, ext \in Int : \E ts, payload :
                  InWindow(ssrc, ext) /\ ReadPacket(ssrc, ext, ts, payload)
  <2>1. NumberOf(i) \in Int
    BY DEF NumberOf, NumbersInv, IsSeq
  <2>2. \/ ReadInvalid
        \/ \E ts, payload : InWindow(1, NumberOf(i)) /\ ReadPacket(1, NumberOf(i), ts, payload)
    BY <1>2, Zenon DEF Arrive
  <2> QED BY <2>1, <2>2
<1>3. ASSUME NEW k \in 0 .. MaxForeign - 1, ForeignArrives(foreign.first + k)
      PROVE  \E ssrc \in {1, foreign.ssrc}, ext \in Int : \E ts, payload :
               InWindow(ssrc, ext) /\ ReadPacket(ssrc, ext, ts, payload)
  <2> DEFINE ext == foreign.first + k
  <2>1. ext \in Int
    BY DEF PeersInv
  <2>2. \E ts, payload : InWindow(foreign.ssrc, ext) /\ ReadPacket(foreign.ssrc, ext, ts, payload)
    BY <1>3, Zenon DEF ForeignArrives
  <2> HIDE DEF ext
  <2> QED BY <2>1, <2>2
<1> QED BY <1>1, <1>2, <1>3, Zenon DEF Arrival

LEMMA NotedNumbers ==
  ASSUME NEW a \in [first : Int, min : Int, max : Int], NEW ext \in Int,
         a # NoneArrived => a.min <= a.first /\ a.first <= a.max
  PROVE  LET n == Noted(a, ext)
         IN  /\ n \in [first : Int, min : Int, max : Int] /\ n # NoneArrived
             /\ n.min <= n.first /\ n.first <= n.max
             /\ n.min <= ext /\ ext <= n.max
             /\ a = NoneArrived => n.first = ext /\ n.min = ext /\ n.max = ext
             /\ a # NoneArrived => /\ n.first = a.first
                                   /\ n.min <= a.min /\ a.max <= n.max
                                   /\ n.max = IF ext > a.max THEN ext ELSE a.max
                                   /\ n.min = IF ext < a.min THEN ext ELSE a.min
<1>1. CASE a = NoneArrived
  BY <1>1 DEF Noted, NoneArrived
<1>2. CASE a # NoneArrived
  <2> DEFINE n == Noted(a, ext)
  <2>1. /\ n.first = a.first
        /\ n.max = IF ext > a.max THEN ext ELSE a.max
        /\ n.min = IF ext < a.min THEN ext ELSE a.min
        /\ n \in [first : Int, min : Int, max : Int]
    BY <1>2 DEF Noted
  <2> HIDE DEF n
  <2>2. n.max >= n.min
    BY <1>2, <2>1
  <2>3. n # NoneArrived
    BY <2>2 DEF NoneArrived
  <2>4. /\ n.min <= n.first /\ n.first <= n.max /\ n.min <= ext /\ ext <= n.max
        /\ n.min <= a.min /\ a.max <= n.max
    BY <1>2, <2>1
  <2> QED BY <1>2, <2>1, <2>3, <2>4 DEF n
<1> QED BY <1>1, <1>2

LEMMA ArrivedStep ==
  ASSUME ArrivedInv, NEW ssrc \in Ssrcs, NEW ext \in Int,
         arrived' = [arrived EXCEPT ![ssrc] = Noted(@, ext)]
  PROVE  ArrivedInv'
<1>1. Noted(arrived[ssrc], ext) \in [first : Int, min : Int, max : Int]
      /\ Noted(arrived[ssrc], ext).min <= Noted(arrived[ssrc], ext).first
      /\ Noted(arrived[ssrc], ext).first <= Noted(arrived[ssrc], ext).max
  <2>1. arrived[ssrc] \in [first : Int, min : Int, max : Int]
        /\ (arrived[ssrc] # NoneArrived =>
              arrived[ssrc].min <= arrived[ssrc].first /\ arrived[ssrc].first <= arrived[ssrc].max)
    BY DEF ArrivedInv
  <2> QED BY <2>1, NotedNumbers
<1> DEFINE n == Noted(arrived[ssrc], ext)
<1> HIDE DEF n
<1>2. arrived' = [arrived EXCEPT ![ssrc] = n]
  BY DEF n
<1> QED BY <1>1, <1>2 DEF ArrivedInv, n

-----------------------------------------------------------------------------
(* The statistics.                                                         *)

LEMMA NoteNumbers ==
  ASSUME NEW r, IsStats(r), NEW seq \in 0 .. SeqSpace - 1, NEW ts,
         r.highest \in Int, r.received \in Nat
  PROVE  LET n == NoteIncomingPacket(r, seq, ts)
         IN  /\ n.received = r.received + 1
             /\ n.highest = IF Newer(r, seq) /\ NewerExtended(r, seq) > r.highest
                            THEN NewerExtended(r, seq) ELSE r.highest
             /\ n \in [base : {n.base}, highest : {n.highest}, received : {n.received},
                       syncTimestamp : {n.syncTimestamp}, syncTime : {n.syncTime}]
<1> DEFINE m == NoteNumber(r, seq)
           n == NoteIncomingPacket(r, seq, ts)
<1>1. /\ m.received = r.received + 1
      /\ m.highest = IF Newer(r, seq) /\ NewerExtended(r, seq) > r.highest
                     THEN NewerExtended(r, seq) ELSE r.highest
      /\ m \in [base : {m.base}, highest : {m.highest}, received : {m.received},
                syncTimestamp : {m.syncTimestamp}, syncTime : {m.syncTime}]
  BY DEF IsStats, NoteNumber
<1>2. n = NoteTimestamp(m, ts)
  BY DEF NoteIncomingPacket
<1> HIDE DEF m, n
<1>3. /\ n.received = m.received /\ n.highest = m.highest
      /\ n \in [base : {n.base}, highest : {n.highest}, received : {n.received},
                syncTimestamp : {n.syncTimestamp}, syncTime : {n.syncTime}]
  BY <1>1, <1>2 DEF NoteTimestamp
<1> QED BY <1>1, <1>3 DEF n

(* The number of a later packet is counted on, also around the end of the  *)
(* 16 bits, and that of an earlier one is not.                             *)
LEMMA CountedOn ==
  ASSUME NEW r, r.highest \in Int,
         NEW first \in Int, NEW max \in Int, NEW ext \in Int,
         first <= max, ext - max < Half - 1, max - ext < Half - 1,
         r.highest - (SeqSpace + (first % SeqSpace)) = max - first
  PROVE  LET seq == ext % SeqSpace
         IN  /\ Newer(r, seq) <=> max < ext
             /\ max < ext /\ ext - first <= ExtMod - 2 * SeqSpace =>
                  NewerExtended(r, seq) = r.highest + (ext - max)
<1> DEFINE S == SeqSpace
           seq == ext % S
           low == max % S
<1>1. S \in Nat /\ S > 2 /\ Half \in Nat /\ Half > 1 /\ S = 2 * Half
  BY HalfOfSpace
<1>2. Low(r) = low
  <2>1. r.highest = S + (first % S) + (max - first)
    <3>1. first % S \in Int
      BY <1>1, Reduced
    <3> QED BY <1>1, <3>1
  <2>2. (S + (first % S) + (max - first)) % S = max % S
    <3>1. S \in Nat /\ S > 0
      BY <1>1
    <3> HIDE DEF S
    <3> QED BY <3>1, RemainderOfRest
  <2> QED BY <2>1, <2>2 DEF Low
<1>3. seq \in 0 .. S - 1 /\ low \in 0 .. S - 1 /\ first % S \in 0 .. S - 1
  BY Reduced
<1>4. Newer(r, seq) <=> max < ext
  <2>1. max - ext < Half /\ ext - max < Half
    BY <1>1
  <2> QED BY <1>2, <2>1, Later DEF Newer
<1>5. ASSUME max < ext, ext - first <= ExtMod - 2 * S
      PROVE  NewerExtended(r, seq) = r.highest + (ext - max)
  <2> DEFINE d == ext - max
  <2>1. d \in 1 .. S - 1 /\ d < Half
    BY <1>1, <1>5
  <2>2. seq = IF low + d < S THEN low + d ELSE low + d - S
    <3>1. max <= ext /\ ext - max < S
      BY <1>1, <1>5
    <3> QED BY <3>1, ReducedSum
  <2>3. ExtMod \in Nat /\ ExtMod > 2 * S
    BY StatsAssumption
  <2>4. r.highest = S + (first % S) + (max - first) /\ r.highest >= S
    <3>1. first % S \in Int /\ S \in Int /\ max - first \in Int /\ max - first >= 0
      BY <1>1, <1>3
    <3>2. r.highest = S + (first % S) + (max - first)
      BY <3>1
    <3>3. first % S >= 0
      BY <1>3, <1>1
    <3> HIDE DEF S
    <3> QED BY <3>1, <3>2, <3>3
  <2>5. Cycle(r) = r.highest - low /\ Difference(r, seq) = (seq - low) % ExtMod
    BY <1>2 DEF Cycle, Difference
  <2> HIDE DEF d, seq, low
  <2>6. CASE low + d < S
    <3>1. seq - low = d /\ d \in 0 .. ExtMod - 1
      BY <1>1, <1>3, <2>1, <2>2, <2>3, <2>6
    <3>2. d % ExtMod = d
      BY <2>3, <3>1, Small
    <3>3. NewerExtended(r, seq) = r.highest - low + seq
      BY <1>1, <2>1, <2>5, <3>1, <3>2 DEF NewerExtended
    <3>4. r.highest - low + seq = r.highest + d
      BY <1>3, <2>1, <2>2, <2>6
    <3> QED BY <3>3, <3>4 DEF d
  <2>7. CASE ~(low + d < S)
    <3>1. seq - low = d - S /\ ExtMod + (d - S) \in 0 .. ExtMod - 1 /\ ExtMod + (d - S) >= Half
      BY <1>1, <1>3, <2>1, <2>2, <2>3, <2>7
    <3>2. (d - S) % ExtMod = ExtMod + (d - S)
      <4>1. ExtMod * (-1) + (ExtMod + (d - S)) = d - S /\ -1 \in Int /\ ExtMod > 0
        BY <1>1, <2>1, <2>3
      <4>2. (ExtMod * (-1) + (ExtMod + (d - S))) % ExtMod = ExtMod + (d - S)
        BY <2>3, <3>1, <4>1, Remainder
      <4> QED BY <4>1, <4>2
    <3>3. r.highest - low + S \in 0 .. ExtMod - 1
      <4>1. r.highest - low + S + seq = S + (first % S) + (ext - first)
        BY <1>1, <1>3, <2>2, <2>4, <2>7, <2>1 DEF d
      <4> QED BY <1>1, <1>3, <1>5, <2>3, <2>4, <4>1
    <3>4. (r.highest - low + S) % ExtMod = r.highest - low + S
      BY <2>3, <3>3, Small
    <3>5. NewerExtended(r, seq) = r.highest - low + S + seq
      BY <2>5, <3>1, <3>2, <3>4 DEF NewerExtended
    <3>6. r.highest - low + S + seq = r.highest + d
      BY <1>1, <1>3, <2>1, <2>2, <2>7
    <3> QED BY <3>5, <3>6 DEF d
  <2> QED BY <2>6, <2>7
<1> QED BY <1>4, <1>5

LEMMA Moved ==
  ASSUME NEW h \in Int, NEW s \in Int, NEW f \in Int, NEW m \in Int, NEW g \in Int,
         NEW x \in Int, h - (s + f) = m - g
  PROVE  (h + (x - m)) - (s + f) = x - g
  OBVIOUS

(* A packet is noted: the one of its sender changes, the others stay.      *)
LEMMA StatsStep ==
  ASSUME StatsInv, ArrivedInv, NEW ssrc \in Ssrcs, NEW ext \in Int, NEW ts, NEW payload,
         InWindow(ssrc, ext), ReadPacket(ssrc, ext, ts, payload)
  PROVE  StatsInv'
<1> DEFINE seq == ext % SeqSpace
           r == IF stats[ssrc] = NoStats THEN NewStats(seq, ts) ELSE stats[ssrc]
           n == NoteIncomingPacket(r, seq, ts)
           a == arrived[ssrc]
           c == Noted(a, ext)
<1>1. stats' = [stats EXCEPT ![ssrc] = n] /\ arrived' = [arrived EXCEPT ![ssrc] = c]
  BY Zenon DEF ReadPacket
<1>2. seq \in 0 .. SeqSpace - 1 /\ seq \in Int /\ SeqSpace \in Nat /\ SeqSpace > 0
  BY Reduced, HalfOfSpace
<1>3. /\ a \in [first : Int, min : Int, max : Int]
      /\ a # NoneArrived => a.min <= a.first /\ a.first <= a.max
  BY DEF ArrivedInv
<1>4. /\ c \in [first : Int, min : Int, max : Int] /\ c # NoneArrived
      /\ a = NoneArrived => c.first = ext /\ c.max = ext
      /\ a # NoneArrived => c.first = a.first /\ c.max = IF ext > a.max THEN ext ELSE a.max
  BY <1>3, NotedNumbers
<1>5. IsStats(n) /\ n.received > 0 /\ Counted(n, c)
  <2>1. CASE a = NoneArrived
    <3>1. r = NewStats(seq, ts)
      BY <2>1 DEF StatsInv
    <3>2. IsStats(r) /\ r.highest = SeqSpace + seq /\ r.received = 0
      BY <1>2, <3>1 DEF NewStats, IsStats
    <3> HIDE DEF r, seq
    <3>3. Low(r) = seq
      <4>1. SeqSpace * 1 + seq = SeqSpace + seq
        BY <1>2
      <4>2. (SeqSpace * 1 + seq) % SeqSpace = seq
        BY <1>2, Remainder
      <4> QED BY <3>2, <4>1, <4>2 DEF Low
    <3>4. ~Newer(r, seq)
      BY <1>2, <3>3 DEF Newer, SeqNumLT
    <3>5. r.highest \in Int /\ r.received \in Nat
      BY <1>2, <3>2
    <3>6. n.received = 1 /\ n.highest = SeqSpace + seq
          /\ n \in [base : {n.base}, highest : {n.highest}, received : {n.received},
                    syncTimestamp : {n.syncTimestamp}, syncTime : {n.syncTime}]
      BY <1>2, <3>2, <3>4, <3>5, NoteNumbers
    <3> HIDE DEF n
    <3>7. IsStats(n) /\ n.received > 0
      BY <1>2, <3>6 DEF IsStats
    <3>8. Counted(n, c)
      BY <1>2, <1>4, <2>1, <3>6 DEF Counted, seq
    <3> QED BY <3>7, <3>8
  <2>2. CASE a # NoneArrived
    <3>1. /\ IsStats(stats[ssrc]) /\ stats[ssrc].received > 0 /\ Counted(stats[ssrc], a)
      BY <2>2 DEF StatsInv
    <3>2. r = stats[ssrc]
      BY <3>1 DEF NoStats
    <3>3. /\ a.first \in Int /\ a.max \in Int /\ a.first <= a.max
          /\ ext - a.max < Half - 1 /\ a.max - ext < Half - 1
      BY <1>3, <2>2 DEF InWindow
    <3>4. IsStats(r) /\ r.highest \in Int /\ r.received \in Nat /\ r.received > 0 /\ Counted(r, a)
      BY <3>1, <3>2 DEF IsStats
    <3> HIDE DEF r
    <3>5. /\ n.received = r.received + 1
          /\ n.highest = IF Newer(r, seq) /\ NewerExtended(r, seq) > r.highest
                         THEN NewerExtended(r, seq) ELSE r.highest
          /\ n \in [base : {n.base}, highest : {n.highest}, received : {n.received},
                    syncTimestamp : {n.syncTimestamp}, syncTime : {n.syncTime}]
      BY <1>2, <3>4, NoteNumbers
    <3> HIDE DEF n
    <3>6. n.highest \in Int
      <4>1. NewerExtended(r, seq) \in Int
        <5>1. r.highest % SeqSpace \in Int /\ ExtMod \in Nat /\ ExtMod > 0
          <6>1. r.highest % SeqSpace \in Int
            BY <3>4, Reduced, HalfOfSpace
          <6> QED BY <6>1, StatsAssumption, HalfOfSpace
        <5>2. Cycle(r) \in Int
          BY <3>4, <5>1 DEF Cycle, Low
        <5>3. (Cycle(r) + SeqSpace) % ExtMod \in Int
          <6>1. Cycle(r) + SeqSpace \in Int
            BY <5>2, <1>2
          <6> QED BY <5>1, <6>1, Division
        <5> QED BY <1>2, <5>2, <5>3 DEF NewerExtended
      <4> QED BY <3>4, <3>5, <4>1
    <3>7. IsStats(n) /\ n.received > 0
      BY <3>4, <3>5, <3>6 DEF IsStats
    <3>8. ASSUME c.max - c.first <= ExtMod - 2 * SeqSpace
          PROVE  n.highest - (SeqSpace + (c.first % SeqSpace)) = c.max - c.first
      <4>1. c.first = a.first /\ c.max = IF ext > a.max THEN ext ELSE a.max
        BY <1>4, <2>2
      <4>2. ExtMod \in Nat
        BY StatsAssumption
      <4>3. r.highest - (SeqSpace + (a.first % SeqSpace)) = a.max - a.first
        BY <1>2, <3>3, <3>4, <3>8, <4>1, <4>2 DEF Counted
      <4>4. /\ Newer(r, seq) <=> a.max < ext
            /\ a.max < ext /\ ext - a.first <= ExtMod - 2 * SeqSpace =>
                 NewerExtended(r, seq) = r.highest + (ext - a.max)
        BY <3>3, <3>4, <4>3, CountedOn
      <4>5. CASE a.max < ext
        <5>1. c.max = ext
          BY <3>3, <4>1, <4>5
        <5>2. NewerExtended(r, seq) = r.highest + (ext - a.max)
          BY <3>8, <4>1, <4>4, <4>5, <5>1
        <5>3. n.highest = r.highest + (ext - a.max)
          BY <3>3, <3>4, <3>5, <4>4, <4>5, <5>2
        <5>4. a.first % SeqSpace \in Int
          BY <3>3, Reduced, HalfOfSpace
        <5>5. (r.highest + (ext - a.max)) - (SeqSpace + (a.first % SeqSpace)) = ext - a.first
          <6> DEFINE f == a.first % SeqSpace
                     m == a.max
                     g == a.first
                     h == r.highest
          <6>1. h \in Int /\ f \in Int /\ m \in Int /\ g \in Int /\ SeqSpace \in Int
            BY <1>2, <3>3, <3>4, <5>4
          <6>2. h - (SeqSpace + f) = m - g
            BY <4>3
          <6> HIDE DEF f, m, g, h
          <6>3. (h + (ext - m)) - (SeqSpace + f) = ext - g
            BY <6>1, <6>2, Moved
          <6> QED BY <6>3 DEF f, m, g, h
        <5> QED BY <4>1, <5>1, <5>3, <5>5
      <4>6. CASE ~(a.max < ext)
        <5>1. c.max = a.max
          BY <3>3, <4>1, <4>6
        <5>2. n.highest = r.highest
          BY <3>5, <4>4, <4>6
        <5> QED BY <4>1, <4>3, <5>1, <5>2
      <4> QED BY <4>5, <4>6
    <3> QED BY <3>7, <3>8 DEF Counted
  <2> QED BY <2>1, <2>2
<1> HIDE DEF n, c, a
<1>6. DOMAIN stats' = Ssrcs
  BY <1>1 DEF StatsInv
<1>7. ASSUME NEW s \in Ssrcs
      PROVE  IF arrived'[s] = NoneArrived THEN stats'[s] = NoStats
             ELSE IsStats(stats'[s]) /\ stats'[s].received > 0 /\ Counted(stats'[s], arrived'[s])
  <2>1. CASE s = ssrc
    <3>1. stats'[s] = n /\ arrived'[s] = c
      BY <1>1, <2>1 DEF StatsInv, ArrivedInv
    <3> QED BY <1>4, <1>5, <3>1
  <2>2. CASE s # ssrc
    <3>1. stats'[s] = stats[s] /\ arrived'[s] = arrived[s]
      BY <1>1, <2>2 DEF StatsInv, ArrivedInv
    <3> QED BY <3>1 DEF StatsInv
  <2> QED BY <2>1, <2>2
<1> QED BY <1>6, <1>7 DEF StatsInv, Counted, IsStats

-----------------------------------------------------------------------------
(* The order of the packets that wait.                                     *)

(* No frame is delivered after a later one.                                *)
Forward == frame # NoFrame => frame'.ext >= frame.ext

LEMMA NothingYet ==
  ASSUME buffer = EmptyBuffer, ReadInvalid
  PROVE  buffer' = EmptyBuffer /\ frame' = frame
<1>1. ~HeadExpected(buffer) /\ buffer.list = <<>>
  BY DEF EmptyBuffer, HeadExpected
<1>2. ASSUME NEW old \in BOOLEAN
      PROVE  ~Completed(buffer, old)
  BY <1>1 DEF Completed
<1>3. \E old \in BOOLEAN : NothingCompleted(buffer, old) \/ Completed(buffer, old)
  BY Zenon DEF ReadInvalid, DoGetNextFrame1
<1> QED BY <1>2, <1>3 DEF NothingCompleted

(* The first packet is alone in the buffer, and its number is expected.    *)
LEMMA StoredFirst ==
  ASSUME NEW p, IsPacket(p), NEW hi \in Int, p.ext <= hi
  PROVE  InOrder(StorePacket(ResetHaveSeenFirstPacket(EmptyBuffer), p), p.ext, hi)
<1> DEFINE z == ResetHaveSeenFirstPacket(EmptyBuffer)
           b == NoteFirst(z, p)
           q == [p EXCEPT !.first = TRUE]
           n == StorePacket(z, p)
<1>1. z \in [list : {<<>>}, tail : {NoTail}, at : {0}, expected : {0}, seen : {FALSE}]
  BY DEF ResetHaveSeenFirstPacket, EmptyBuffer
<1>2. p.ext \in Int /\ p.seq = p.ext % SeqSpace /\ p.seq \in 0 .. SeqSpace - 1
      /\ IsPacket(q) /\ q.ext = p.ext /\ q.seq = p.seq
  <2>1. p.ext \in Int /\ p.seq = p.ext % SeqSpace
    BY DEF IsPacket
  <2>2. IsPacket(q) /\ q.ext = p.ext /\ q.seq = p.seq
    BY DEF IsPacket
  <2> QED BY <2>1, <2>2, Reduced
<1>3. /\ b \in [list : {<<>>}, tail : {NoTail}, at : {0}, expected : {p.seq}, seen : {TRUE}]
      /\ b.tail = NoTail /\ b.expected = p.seq
  <2>1. z.seen = FALSE
    BY <1>1
  <2> HIDE DEF z
  <2> QED BY <1>1, <2>1 DEF NoteFirst
<1>4. ~Rejected(b, q)
  <2>1. ~SeqNumLT(p.seq, p.seq)
    BY <1>2 DEF SeqNumLT
  <2> HIDE DEF q
  <2> QED BY <1>2, <1>3, <2>1 DEF Rejected, NoTail
<1>5. n = StoreAlone(b, q)
  <2>1. q = [p EXCEPT !.first = ~z.seen]
    <3>1. z.seen = FALSE
      BY <1>1
    <3> HIDE DEF z
    <3> QED BY <3>1
  <2>2. b.tail = NoTail
    BY <1>3
  <2> HIDE DEF q, z
  <2> QED BY <1>4, <2>1, <2>2 DEF StorePacket
<1> HIDE DEF q, b, z
<1>6. n \in [list : {<<q>>}, tail : {q.seq}, at : {1}, expected : {p.seq}, seen : {TRUE}]
  BY <1>3, <1>5 DEF StoreAlone
<1> HIDE DEF n
<1>7. IsSeq(<<q>>) /\ Len(<<q>>) = 1 /\ DOMAIN <<q>> = 1 .. 1 /\ <<q>>[1] = q
  BY DEF IsSeq
<1>8. Sorted(<<q>>)
  BY <1>7 DEF Sorted
<1>9. /\ n \in [list : {n.list}, tail : 0 .. SeqSpace, at : Nat,
                expected : 0 .. SeqSpace, seen : BOOLEAN]
      /\ n.list = <<q>> /\ n.tail = q.seq /\ n.at = 1 /\ n.expected = p.seq /\ n.seen = TRUE
  <2>1. q.seq \in 0 .. SeqSpace /\ p.seq \in 0 .. SeqSpace
    BY <1>2, HalfOfSpace
  <2>2. n.list = <<q>> /\ n.tail = q.seq /\ n.at = 1 /\ n.expected = p.seq /\ n.seen = TRUE
    BY <1>6
  <2>3. n = [list |-> n.list, tail |-> n.tail, at |-> n.at,
             expected |-> n.expected, seen |-> n.seen]
    BY <1>6
  <2>4. n.tail \in 0 .. SeqSpace /\ n.at \in Nat /\ n.expected \in 0 .. SeqSpace
        /\ n.seen \in BOOLEAN
    <3>1. n.seen \in BOOLEAN
      BY <2>2, Zenon
    <3>2. n.tail \in 0 .. SeqSpace /\ n.at \in Nat /\ n.expected \in 0 .. SeqSpace
      BY <2>1, <2>2
    <3> QED BY <3>1, <3>2
  <2> QED BY <2>2, <2>3, <2>4
<1>10. IsBuffer(n)
  BY <1>2, <1>7, <1>9 DEF IsBuffer
<1>11. \A i \in DOMAIN n.list : n.list[i].ext >= p.ext /\ n.list[i].ext <= hi
  BY <1>2, <1>7, <1>9
<1>12. Represents(p.ext, n.expected)
  BY <1>2, <1>9 DEF Represents
<1>13. InOrder(n, p.ext, hi)
  BY <1>7, <1>8, <1>9, <1>10, <1>11, <1>12 DEF InOrder
<1> QED BY <1>13 DEF n, z

(* A round after the first one.                                            *)
LEMMA RoundInOrder ==
  ASSUME NEW b, NEW e \in Int, NEW lo \in Int, NEW hi \in Int, lo <= e, e <= hi + 1,
         InOrder(b, e, hi), Before(frame, e), DoGetNextFrame1(b)
  PROVE  /\ \E n \in lo .. hi + 1 : InOrder(buffer', n, hi) /\ Before(frame', n)
         /\ Forward
<1>1. PICK n \in Int : /\ e <= n /\ n <= hi + 1 /\ InOrder(buffer', n, hi)
                       /\ \/ frame' = frame
                          \/ /\ frame'.ext \in Int
                             /\ e <= frame'.ext /\ frame'.ext <= n
  BY Delivery
<1>2. n \in lo .. hi + 1
  BY <1>1
<1>3. CASE frame' = frame
  BY <1>1, <1>2, <1>3 DEF Before, Forward
<1>4. CASE frame'.ext \in Int /\ e <= frame'.ext /\ frame'.ext <= n
  BY <1>1, <1>2, <1>4 DEF Before, Forward
<1> QED BY <1>1, <1>3, <1>4

LEMMA InvalidInOrder ==
  ASSUME RangeInv, ArrivedInv, OneRange, ReadInvalid, UNCHANGED foreign
  PROVE  RangeInv' /\ Forward
<1>1. UNCHANGED <<lastReceivedSSRC, arrived>> /\ DoGetNextFrame1(buffer)
  BY DEF ReadInvalid
<1>2. CASE arrived[1] = NoneArrived
  <2>1. buffer' = EmptyBuffer /\ frame' = frame /\ frame = NoFrame /\ lastReceivedSSRC = 0
    BY <1>2, NothingYet DEF RangeInv
  <2> QED BY <1>1, <1>2, <2>1 DEF RangeInv, Forward
<1>3. CASE arrived[1] # NoneArrived
  <2> DEFINE lo == arrived[1].min
             hi == arrived[1].max
  <2>1. PICK e \in lo .. hi + 1 : InOrder(buffer, e, hi) /\ Before(frame, e)
    BY <1>3 DEF RangeInv
  <2>2. lo \in Int /\ hi \in Int /\ e \in Int /\ lo <= e /\ e <= hi + 1
    BY PathAssumption DEF ArrivedInv
  <2>3. lastReceivedSSRC = 1 /\ arrived'[1] = arrived[1] /\ lastReceivedSSRC' = 1
    BY <1>1, <1>3 DEF RangeInv
  <2> HIDE DEF lo, hi
  <2>4. (\E n \in lo .. hi + 1 : InOrder(buffer', n, hi) /\ Before(frame', n)) /\ Forward
    BY <1>1, <2>1, <2>2, RoundInOrder
  <2> QED BY <1>3, <2>3, <2>4 DEF RangeInv, lo, hi
<1> QED BY <1>2, <1>3

LEMMA PacketInOrder ==
  ASSUME RangeInv, ArrivedInv, OneRange, OneRange', NEW ext \in Int, NEW ts, NEW payload,
         InWindow(1, ext), ReadPacket(1, ext, ts, payload)
  PROVE  RangeInv' /\ Forward
<1> DEFINE a == arrived[1]
           c == Noted(a, ext)
           p == [ssrc |-> 1, seq |-> ext % SeqSpace, ext |-> ext, payload |-> payload,
                 first |-> FALSE, used |-> FALSE]
           b == IF 1 = lastReceivedSSRC THEN buffer ELSE ResetHaveSeenFirstPacket(buffer)
<1>1. /\ arrived' = [arrived EXCEPT ![1] = c]
      /\ lastReceivedSSRC' = 1
      /\ DoGetNextFrame1(StorePacket(b, p))
  BY Zenon DEF ReadPacket
<1>2. 1 \in Ssrcs /\ a \in [first : Int, min : Int, max : Int]
      /\ (a # NoneArrived => a.min <= a.first /\ a.first <= a.max)
  BY PathAssumption DEF ArrivedInv
<1>3. /\ c \in [first : Int, min : Int, max : Int] /\ c # NoneArrived
      /\ c.min <= c.first /\ c.first <= c.max
      /\ c.min <= ext /\ ext <= c.max
      /\ a = NoneArrived => c.first = ext /\ c.min = ext /\ c.max = ext
      /\ a # NoneArrived => c.min <= a.min /\ a.max <= c.max
  BY <1>2, NotedNumbers
<1> HIDE DEF c
<1>4. arrived'[1] = c
  BY <1>1, <1>2 DEF ArrivedInv
<1>5. c.max - c.min < Half - 1
  BY <1>4 DEF OneRange
<1>6. IsPacket(p) /\ p.ext = ext
  BY DEF IsPacket
<1> HIDE DEF p
<1>7. CASE a = NoneArrived
  <2>1. buffer = EmptyBuffer /\ frame = NoFrame /\ lastReceivedSSRC = 0
    BY <1>7 DEF RangeInv
  <2>2. b = ResetHaveSeenFirstPacket(EmptyBuffer)
    BY <2>1
  <2>3. ext <= c.max /\ c.max \in Int /\ c.min \in Int /\ c.min <= ext /\ ext <= c.max + 1
    BY <1>3
  <2>4. InOrder(StorePacket(b, p), ext, c.max)
    BY <1>6, <2>2, <2>3, StoredFirst
  <2>5. Before(frame, ext)
    BY <2>1 DEF Before
  <2> HIDE DEF b
  <2>6. (\E n \in c.min .. c.max + 1 : InOrder(buffer', n, c.max) /\ Before(frame', n)) /\ Forward
    BY <1>1, <2>3, <2>4, <2>5, RoundInOrder
  <2> QED BY <1>1, <1>3, <1>4, <2>6 DEF RangeInv
<1>8. CASE a # NoneArrived
  <2>1. PICK e \in a.min .. a.max + 1 : InOrder(buffer, e, a.max) /\ Before(frame, e)
    BY <1>8 DEF RangeInv
  <2>2. b = buffer
    BY <1>8 DEF RangeInv
  <2>3. /\ e \in Int /\ c.min \in Int /\ c.max \in Int /\ c.min <= e /\ e <= c.max + 1
        /\ a.max <= c.max /\ a.max \in Int
    BY <1>2, <1>3, <1>8, <2>1
  <2>4. InOrder(buffer, e, c.max)
    <3>1. \A i \in DOMAIN buffer.list : buffer.list[i].ext <= c.max
      <4> TAKE i \in DOMAIN buffer.list
      <4>1. buffer.list[i].ext \in Int /\ buffer.list[i].ext <= a.max
        BY <2>1, BufferFields DEF InOrder
      <4> QED BY <2>3, <4>1
    <3> QED BY <2>1, <3>1 DEF InOrder
  <2> HIDE DEF a, b
  <2>5. InOrder(StorePacket(b, p), e, c.max)
    BY <1>3, <1>5, <1>6, <2>2, <2>3, <2>4, Store
  <2>6. (\E n \in c.min .. c.max + 1 : InOrder(buffer', n, c.max) /\ Before(frame', n)) /\ Forward
    BY <1>1, <2>1, <2>3, <2>5, RoundInOrder
  <2> QED BY <1>1, <1>3, <1>4, <2>6 DEF RangeInv
<1> QED BY <1>7, <1>8

-----------------------------------------------------------------------------
(* The invariant.                                                          *)

LEMMA InitEstablishes == Init => IInv
<1> SUFFICES ASSUME Init PROVE IInv
  OBVIOUS
<1> USE DEF Init, SenderInit, ReceiverInit
<1>1. NumbersInv
  <2>1. seqNo \in Nat
    BY SenderAssumption, SeqSpaceAssumption
  <2>2. sent \in Seq({})
    OBVIOUS
  <2> QED BY <2>1, <2>2, SelfTyped DEF NumbersInv
<1>2. PeersInv
  BY PathAssumption DEF PeersInv
<1>3. ArrivedInv
  BY DEF ArrivedInv, NoneArrived
<1>4. StatsInv
  BY DEF StatsInv
<1>5. RangeInv
  BY PathAssumption DEF RangeInv
<1> QED BY <1>1, <1>2, <1>3, <1>4, <1>5 DEF IInv

(* The range of the numbers that arrived only grows, and a sender that was *)
(* replaced does not come back: what OneRange leaves out it leaves out for *)
(* ever.                                                                   *)
LEMMA RangeGrows ==
  ASSUME IInv, [Next]_vars, OneRange'
  PROVE  OneRange
<1>1. 1 \in Ssrcs /\ arrived[1] \in [first : Int, min : Int, max : Int]
  BY PathAssumption DEF IInv, ArrivedInv
<1>2. Half \in Nat /\ foreign.ssrc \in Ssrcs /\ Ssrcs \subseteq Nat \ {0}
  BY HalfOfSpace, ReceiverAssumption DEF IInv, PeersInv
<1>3. ASSUME UNCHANGED foreign, UNCHANGED arrived
      PROVE  OneRange
  BY <1>3 DEF OneRange
<1>4. CASE UNCHANGED vars
  BY <1>3, <1>4 DEF vars, pathVars, receiverVars
<1>5. CASE Send
  BY <1>3, <1>5 DEF Send, pathVars, receiverVars
<1>6. CASE ForeignRestart
  <2>1. PICK first \in FirstForeign : foreign' = [ssrc |-> foreign.ssrc + 1, first |-> first]
    BY <1>6 DEF ForeignRestart
  <2>2. foreign'.ssrc = foreign.ssrc + 1
    BY <2>1
  <2>3. foreign'.ssrc = 1
    BY DEF OneRange
  <2>4. foreign.ssrc \in Nat /\ foreign.ssrc # 0
    BY <1>2
  <2> QED BY <2>2, <2>3, <2>4
<1>7. CASE Arrival
  <2>1. /\ UNCHANGED foreign
        /\ \/ ReadInvalid
           \/ \E ssrc \in {1, foreign.ssrc}, ext \in Int : \E ts, payload :
                InWindow(ssrc, ext) /\ ReadPacket(ssrc, ext, ts, payload)
    BY <1>7, Rounds, Zenon DEF IInv
  <2>2. CASE ReadInvalid
    BY <1>3, <2>1, <2>2 DEF ReadInvalid
  <2>3. ASSUME NEW ssrc \in {1, foreign.ssrc}, NEW ext \in Int, NEW ts, NEW payload,
               ReadPacket(ssrc, ext, ts, payload)
        PROVE  OneRange
    <3>1. foreign.ssrc = 1 /\ ssrc = 1
      BY <2>1, <2>3 DEF OneRange
    <3> DEFINE c == Noted(arrived[1], ext)
    <3>2. arrived' = [arrived EXCEPT ![1] = c]
      BY <2>3, <3>1, Zenon DEF ReadPacket
    <3>3. arrived[1] # NoneArrived =>
            arrived[1].min <= arrived[1].first /\ arrived[1].first <= arrived[1].max
      BY <1>1 DEF IInv, ArrivedInv
    <3>4. c \in [first : Int, min : Int, max : Int]
          /\ (arrived[1] # NoneArrived => c.min <= arrived[1].min /\ arrived[1].max <= c.max)
      BY <1>1, <3>3, NotedNumbers
    <3> HIDE DEF c
    <3>5. arrived'[1] = c
      BY <1>1, <3>2 DEF IInv, ArrivedInv
    <3>6. c.max - c.min < Half - 1
      BY <3>5 DEF OneRange
    <3>7. CASE arrived[1] = NoneArrived
      BY <3>1, <3>7, HalfOfSpace DEF OneRange, NoneArrived
    <3>8. CASE arrived[1] # NoneArrived
      <4>1. arrived[1].max - arrived[1].min < Half - 1
        BY <1>1, <1>2, <3>4, <3>6, <3>8
      <4> QED BY <3>1, <4>1 DEF OneRange
    <3> QED BY <3>7, <3>8
  <2> QED BY <2>1, <2>2, <2>3
<1> QED BY <1>4, <1>5, <1>6, <1>7 DEF Next

(* A step of the receiver, whose order is kept as far as it reaches.       *)
LEMMA ArrivalStep ==
  ASSUME IInv, Arrival
  PROVE  ArrivedInv' /\ StatsInv' /\ RangeInv' /\ (OneRange' => Forward)
<1>1. /\ UNCHANGED <<seqNo, sent, foreign>>
      /\ \/ ReadInvalid
         \/ \E ssrc \in {1, foreign.ssrc}, ext \in Int : \E ts, payload :
              InWindow(ssrc, ext) /\ ReadPacket(ssrc, ext, ts, payload)
  BY Rounds, Zenon DEF IInv
<1>2. OneRange' => OneRange
  BY RangeGrows DEF Next
<1>3. CASE ReadInvalid
  <2>1. UNCHANGED <<arrived, stats>>
    BY <1>3 DEF ReadInvalid
  <2>2. ArrivedInv' /\ StatsInv'
    BY <2>1 DEF IInv, ArrivedInv, StatsInv
  <2>3. CASE OneRange'
    <3>1. RangeInv' /\ Forward
      BY <1>1, <1>2, <1>3, <2>3, InvalidInOrder DEF IInv
    <3> QED BY <2>2, <3>1
  <2>4. CASE ~OneRange'
    BY <2>2, <2>4 DEF RangeInv
  <2> QED BY <2>2, <2>3, <2>4
<1>4. ASSUME NEW ssrc \in {1, foreign.ssrc}, NEW ext \in Int, NEW ts, NEW payload,
             InWindow(ssrc, ext), ReadPacket(ssrc, ext, ts, payload)
      PROVE  ArrivedInv' /\ StatsInv' /\ RangeInv' /\ (OneRange' => Forward)
  <2>1. ssrc \in Ssrcs
    BY PathAssumption DEF IInv, PeersInv
  <2>2. arrived' = [arrived EXCEPT ![ssrc] = Noted(@, ext)]
    BY <1>4, Zenon DEF ReadPacket
  <2>3. ArrivedInv'
    BY <2>1, <2>2, ArrivedStep DEF IInv
  <2>4. StatsInv'
    BY <1>4, <2>1, StatsStep DEF IInv
  <2>5. CASE OneRange'
    <3>1. ssrc = 1
      BY <1>1, <1>4, <2>5 DEF OneRange
    <3>2. InWindow(1, ext) /\ ReadPacket(1, ext, ts, payload)
      BY <1>4, <3>1
    <3> QED BY <1>2, <2>3, <2>4, <2>5, <3>2, PacketInOrder DEF IInv
  <2>6. CASE ~OneRange'
    BY <2>3, <2>4, <2>6 DEF RangeInv
  <2> QED BY <2>5, <2>6
<1> QED BY <1>1, <1>3, <1>4

LEMMA StepPreserves == IInv /\ [Next]_vars => IInv'
<1> SUFFICES ASSUME IInv, [Next]_vars PROVE IInv'
  OBVIOUS
<1>1. OneRange' => OneRange
  BY RangeGrows
<1>2. CASE UNCHANGED vars
  <2>1. UNCHANGED <<seqNo, sent, foreign, arrived, stats, buffer, lastReceivedSSRC, frame>>
    BY <1>2 DEF vars, senderVars, receiverVars, pathVars
  <2>2. NumbersInv' /\ PeersInv' /\ ArrivedInv' /\ StatsInv'
    BY <2>1 DEF IInv, NumbersInv, PeersInv, ArrivedInv, StatsInv
  <2>3. RangeInv'
    BY <1>1, <2>1 DEF IInv, RangeInv
  <2> QED BY <2>2, <2>3 DEF IInv
<1>3. CASE Send
  <2>1. UNCHANGED <<foreign, arrived, stats, buffer, lastReceivedSSRC, frame>>
    BY <1>3 DEF Send, receiverVars, pathVars
  <2>2. PeersInv' /\ ArrivedInv' /\ StatsInv'
    BY <2>1 DEF IInv, PeersInv, ArrivedInv, StatsInv
  <2>3. NumbersInv'
    BY <1>3, SenderNumbers DEF Send, IInv
  <2>4. RangeInv'
    BY <1>1, <2>1 DEF IInv, RangeInv
  <2> QED BY <2>2, <2>3, <2>4 DEF IInv
<1>4. CASE Arrival
  <2>1. ArrivedInv' /\ StatsInv' /\ RangeInv'
    BY <1>4, ArrivalStep
  <2>2. UNCHANGED <<seqNo, sent, foreign>>
    BY <1>4, Rounds DEF IInv
  <2>3. NumbersInv' /\ PeersInv'
    BY <2>2 DEF IInv, NumbersInv, PeersInv
  <2> QED BY <2>1, <2>3 DEF IInv
<1>5. CASE ForeignRestart
  <2>1. UNCHANGED <<seqNo, sent, arrived, stats, buffer, lastReceivedSSRC, frame>>
    BY <1>5 DEF ForeignRestart, senderVars, receiverVars
  <2>2. NumbersInv' /\ ArrivedInv' /\ StatsInv'
    BY <2>1 DEF IInv, NumbersInv, ArrivedInv, StatsInv
  <2>3. PeersInv'
    BY <1>5, PathAssumption DEF ForeignRestart, PeersInv
  <2>4. RangeInv'
    BY <1>1, <2>1 DEF IInv, RangeInv
  <2> QED BY <2>2, <2>3, <2>4 DEF IInv
<1> QED BY <1>2, <1>3, <1>4, <1>5 DEF Next

(* The invariant holds in every reachable state.                           *)
THEOREM Inductive == Spec => []IInv
<1>1. Init => IInv
  BY InitEstablishes
<1>2. IInv /\ [Next]_vars => IInv'
  BY StepPreserves
<1> QED BY <1>1, <1>2, PTL DEF Spec

(* The highest extended number of the statistics is that of the latest     *)
(* packet of the sender, in whatever order, how often and with whatever    *)
(* losses its packets came (NoteIncomingPacket), until the 32 bits are     *)
(* used up.                                                                *)
THEOREM StatisticsCountOn == Spec => []HighestIsLatest
<1>1. IInv => HighestIsLatest
  BY DEF IInv, StatsInv, Counted, HighestIsLatest
<1> QED BY <1>1, Inductive, PTL

(* While one sender's numbers stay within half of the space, the packets   *)
(* that wait in the reordering buffer are in the order of their numbers    *)
(* and none waits twice (StorePacket), although its second pointer need    *)
(* not belong to its list.                                                 *)
THEOREM WaitingInOrder == Spec => []ListInOrder
<1>1. IInv => ListInOrder
  <2> SUFFICES ASSUME IInv, OneRange,
                      NEW i \in DOMAIN buffer.list, NEW j \in DOMAIN buffer.list, i < j
               PROVE  buffer.list[i].ext < buffer.list[j].ext
    BY DEF ListInOrder
  <2>1. arrived[1] # NoneArrived
    <3>1. DOMAIN EmptyBuffer.list = {}
      BY DEF EmptyBuffer
    <3> QED BY <3>1 DEF IInv, RangeInv
  <2> QED BY <2>1 DEF IInv, RangeInv, InOrder, Sorted
<1> QED BY <1>1, Inductive, PTL

(* While they do, no frame is delivered after a later one (doGetNextFrame1 *)
(* with what storePacket rejected and what was given up).                  *)
THEOREM FramesGoForward == Spec => DeliveredForward
<1>1. IInv /\ [Next]_vars => [OneRange' /\ frame # NoFrame => frame'.ext >= frame.ext]_vars
  <2> SUFFICES ASSUME IInv, Next, OneRange' PROVE Forward
    BY DEF Forward
  <2>1. CASE Arrival
    BY <2>1, ArrivalStep
  <2>2. CASE Send \/ ForeignRestart
    <3>1. UNCHANGED frame
      BY <2>2 DEF Send, ForeignRestart, receiverVars
    <3>2. OneRange
      BY RangeGrows
    <3>3. frame # NoFrame => frame.ext \in Int
      BY <3>2 DEF IInv, RangeInv, Before
    <3> QED BY <3>1, <3>3 DEF Forward
  <2> QED BY <2>1, <2>2 DEF Next
<1> QED BY <1>1, Inductive, PTL DEF Spec, DeliveredForward

-----------------------------------------------------------------------------
(* What the receiver delivers: frames, and pieces of the units they are of.*)

(* What is concatenated first stays at the beginning.                      *)
IsBeginning(S, s, t) ==
  /\ s \in Seq(S) /\ t \in Seq(S) /\ Len(s) <= Len(t)
  /\ \A i \in 1 .. Len(s) : t[i] = s[i]

LEMMA FlatPrefix ==
  ASSUME NEW S, NEW s, NEW k \in Nat, NEW m \in 0 .. k, \A i \in 1 .. k : s[i] \in Seq(S)
  PROVE  IsBeginning(S, Flat(s, m), Flat(s, k))
<1> DEFINE P(n) == /\ Len(Flat(s, m)) <= Len(Flat(s, n))
                   /\ \A i \in 1 .. Len(Flat(s, m)) : Flat(s, n)[i] = Flat(s, m)[i]
           I == {n \in m .. k : ~P(n)}
<1>0. \A n \in 0 .. k : Flat(s, n) \in Seq(S)
  BY FlatTyped
<1>1. ASSUME NEW n \in I
      PROVE  \E j \in I : j < n
  <2>1. CASE n = m
    <3>1. Len(Flat(s, m)) \in Nat
      BY <1>0
    <3> QED BY <2>1, <3>1
  <2>2. CASE n # m
    <3>1. /\ n \in Nat /\ n > 0 /\ n - 1 \in m .. k /\ n - 1 < n
          /\ n \in 0 .. k /\ n - 1 \in 0 .. k /\ n \in 1 .. k /\ \A i \in 1 .. n : i \in 1 .. k
      BY <2>2
    <3>2. AreJoined(S, Flat(s, n - 1), s[n], Flat(s, n))
      BY <3>1, FlatJoins
    <3>3. /\ Len(Flat(s, n - 1)) \in Nat /\ Len(s[n]) \in Nat /\ Len(Flat(s, m)) \in Nat
          /\ Len(Flat(s, n)) = Len(Flat(s, n - 1)) + Len(s[n])
      BY <1>0, <3>1, <3>2 DEF AreJoined
    <3>4. ASSUME P(n - 1)
          PROVE  P(n)
      <4> DEFINE a == Len(Flat(s, m))
                 b == Len(Flat(s, n - 1))
                 c == Len(s[n])
                 d == Len(Flat(s, n))
      <4>0. a <= b /\ a \in Nat /\ b \in Nat /\ c \in Nat /\ d = b + c
        BY <3>3, <3>4
      <4> HIDE DEF a, b, c, d, P, I
      <4>1. a <= d
        BY <4>0
      <4>2. ASSUME NEW i \in 1 .. a
            PROVE  Flat(s, n)[i] = Flat(s, m)[i]
        <5>1. i \in 1 .. b
          BY <4>0
        <5> QED BY <3>2, <3>4, <5>1 DEF AreJoined, P, a, b
      <4> QED BY <4>1, <4>2 DEF P, a, d
    <3>5. ~P(n - 1)
      BY <3>4
    <3> HIDE DEF P
    <3> QED BY <3>1, <3>5
  <2> QED BY <2>1, <2>2
<1>2. I = {}
  <2>1. I \subseteq Nat
    OBVIOUS
  <2> HIDE DEF I
  <2> QED BY <1>1, <2>1, NoLeast
<1>3. \A n \in m .. k : P(n)
  <2> HIDE DEF P
  <2> QED BY <1>2
<1>4. k \in m .. k /\ k \in 0 .. k /\ m \in 0 .. k
  OBVIOUS
<1> QED BY <1>0, <1>3, <1>4 DEF IsBeginning

(* Each part of it is a piece of what begins with it.                      *)
LEMMA PartIsPiece ==
  ASSUME NEW S, NEW s, NEW k \in Nat, \A i \in 1 .. k : s[i] \in Seq(S),
         NEW j \in 1 .. k, Len(s[j]) > 0, NEW u \in Seq(S), Len(Flat(s, k)) <= Len(u),
         \A i \in 1 .. Len(Flat(s, k)) : Flat(s, k)[i] = u[i]
  PROVE  PieceOf(s[j], u)
<1> DEFINE m == Len(Flat(s, j - 1))
           n == Len(s[j])
           from == m + 1
           to == m + n
           t == SubSeq(u, from, to)
<1>1. j \in Nat /\ j > 0 /\ j - 1 \in 0 .. k /\ j \in 0 .. k /\ k \in j .. k /\ \A i \in 1 .. j : i \in 1 .. k
  OBVIOUS
<1>2. Flat(s, j - 1) \in Seq(S) /\ Flat(s, j) \in Seq(S) /\ Flat(s, k) \in Seq(S)
  <2>1. \A i \in 0 .. k : Flat(s, i) \in Seq(S)
    BY FlatTyped
  <2>2. k \in 0 .. k
    OBVIOUS
  <2> QED BY <1>1, <2>1, <2>2
<1>3. AreJoined(S, Flat(s, j - 1), s[j], Flat(s, j))
  BY <1>1, FlatJoins
<1>4. /\ Len(Flat(s, j)) <= Len(Flat(s, k))
      /\ \A i \in 1 .. Len(Flat(s, j)) : Flat(s, k)[i] = Flat(s, j)[i]
  <2>1. j \in 0 .. k /\ k \in Nat
    BY <1>1
  <2>2. IsBeginning(S, Flat(s, j), Flat(s, k))
    BY <2>1, FlatPrefix
  <2> QED BY <2>2 DEF IsBeginning
<1>5. s[j] \in Seq(S) /\ m \in Nat /\ n \in Nat /\ n > 0 /\ Len(u) \in Nat
  BY <1>2
<1>6. Len(Flat(s, j)) = m + n /\ \A i \in 1 .. n : Flat(s, j)[m + i] = s[j][i]
  BY <1>3 DEF AreJoined
<1> HIDE DEF m, n
<1>7. Len(Flat(s, k)) \in Nat /\ m + n <= Len(Flat(s, k))
  BY <1>2, <1>4, <1>6
<1>8. m + n <= Len(u) /\ \A i \in 1 .. n : m + i \in 1 .. m + n /\ m + i \in 1 .. Len(Flat(s, k))
  BY <1>5, <1>7
<1>9. ASSUME NEW i \in 1 .. n
      PROVE  u[m + i] = s[j][i]
  BY <1>4, <1>6, <1>8
<1>10. from \in 1 .. Len(u) /\ to \in from .. Len(u) /\ to \in Nat /\ from \in Nat
       /\ from \in 1 .. Len(u) + 1 /\ to \in from - 1 .. Len(u)
       /\ to - from + 1 = n /\ \A i \in 1 .. n : from + i - 1 = m + i
  BY <1>5, <1>8
<1> HIDE DEF from, to
<1>11. t \in Seq(S) /\ Len(t) = to - from + 1 /\ \A i \in 1 .. to - from + 1 : t[i] = u[from + i - 1]
  BY <1>10, SubSeqProperties
<1> HIDE DEF t
<1>12. Len(t) = n /\ \A i \in 1 .. n : t[i] = s[j][i]
  BY <1>9, <1>10, <1>11
<1>13. t = s[j]
  <2>1. Len(s[j]) = n
    BY DEF n
  <2>2. s[j] \in Seq(S) /\ Len(t) = Len(s[j]) /\ \A i \in 1 .. Len(t) : t[i] = s[j][i]
    BY <1>5, <1>12, <2>1
  <2>3. t \in Seq(S)
    BY <1>11
  <2> DEFINE x == s[j]
  <2>4. x \in Seq(S) /\ Len(t) = Len(x) /\ \A i \in 1 .. Len(t) : t[i] = x[i]
    BY <2>2
  <2> HIDE DEF x
  <2>5. t = x
    BY ONLY <2>3, <2>4, SeqEqual
  <2> QED BY <2>5 DEF x
<1> QED BY <1>10, <1>13 DEF PieceOf, t

-----------------------------------------------------------------------------
LEMMA FlatBefore ==
  ASSUME Typed, NEW k \in 1 .. Len(nals)
  PROVE  FlattenSeq(SubSeq(frames, 1, k - 1)) = Upto(k - 1)
<1>0. Len(nals) \in Nat
  BY DEF Typed
<1>1. CASE k = 1
  <2>1. SubSeq(frames, 1, k - 1) = <<>>
    BY <1>1
  <2>2. <<>> \in Seq({}) /\ Len(<<>>) = 0
    OBVIOUS
  <2>3. FlattenSeq(<<>>) = Flat(<<>>, 0)
    BY <2>2, FlattenIsFlat
  <2>4. Flat(<<>>, 0) = <<>> /\ Upto(k - 1) = <<>>
    BY <1>1 DEF Flat, Upto
  <2> QED BY <2>1, <2>3, <2>4
<1>2. CASE k # 1
  <2>1. k - 1 \in 1 .. Len(nals)
    BY <1>0, <1>2
  <2> QED BY <2>1, FlatOfFirst
<1> QED BY <1>1, <1>2

(* The unit that the i-th frame is of.                                     *)
LEMMA FrameOfUnit ==
  ASSUME Typed, NEW i \in 1 .. Len(Upto(Len(nals)))
  PROVE  /\ MadeOf(i) \in 1 .. Len(nals)
         /\ \E j \in 1 .. Len(frames[MadeOf(i)]) : Upto(Len(nals))[i] = frames[MadeOf(i)][j]
<1> DEFINE n == Len(nals)
           S == Seq(Octets)
           At(k) == Len(Upto(k - 1)) < i /\ i <= Len(Upto(k))
           I == {k \in 0 .. n : i <= Len(Upto(k))}
<1>1. /\ n \in Nat /\ DOMAIN nals = 1 .. n
      /\ \A k \in 1 .. n : frames[k] \in Seq(S)
  <2>1. n \in Nat /\ n <= MaxNals /\ MaxNals \in Nat /\ DOMAIN nals = 1 .. n
        /\ frames \in [1 .. MaxNals -> Seq(S)]
    BY Sizes DEF Typed
  <2> QED BY <2>1
<1>2. Upto(n) \in Seq(S) /\ i \in Nat /\ i > 0
  BY AllIsUpto
<1> HIDE DEF n, S
<1>3. \A k \in 0 .. n : Upto(k) \in Seq(S)
  BY <1>1, FlatTyped DEF Upto
<1>4. \E k \in 1 .. n : At(k)
  <2> SUFFICES ASSUME \A k \in 1 .. n : ~At(k) PROVE FALSE
    OBVIOUS
  <2>1. ASSUME NEW k \in I
        PROVE  \E m \in I : m < k
    <3>1. k # 0
      <4> SUFFICES ASSUME k = 0 PROVE FALSE
        OBVIOUS
      <4>1. Len(Upto(k)) = 0
        BY DEF Upto, Flat
      <4> QED BY <1>2, <4>1
    <3>2. k \in 1 .. n /\ k - 1 \in 0 .. n /\ k - 1 < k
      BY <1>1, <3>1
    <3>3. Len(Upto(k - 1)) \in Nat
      BY <1>3, <3>2
    <3>4. i <= Len(Upto(k - 1))
      BY <1>2, <3>2, <3>3
    <3> QED BY <3>2, <3>4
  <2>2. n \in I
    BY <1>1 DEF n
  <2>3. I \subseteq Nat
    BY <1>1
  <2> HIDE DEF I
  <2> QED BY <2>1, <2>2, <2>3, NoLeast
<1> DEFINE k == MadeOf(i)
<1>5. k \in 1 .. n /\ At(k)
  <2>1. \A m \in 1 .. n : /\ FlattenSeq(SubSeq(frames, 1, m - 1)) = Upto(m - 1)
                          /\ FlattenSeq(SubSeq(frames, 1, m)) = Upto(m)
    BY FlatBefore, FlatOfFirst DEF n
  <2> DEFINE Q(m) == Len(FlattenSeq(SubSeq(frames, 1, m - 1))) < i
                       /\ i <= Len(FlattenSeq(SubSeq(frames, 1, m)))
  <2>2. \A m \in 1 .. n : Q(m) <=> At(m)
    BY <2>1
  <2>3. k = CHOOSE m \in DOMAIN nals : Q(m)
    BY Zenon DEF MadeOf
  <2> HIDE DEF Q, k, At
  <2>4. k \in 1 .. n /\ Q(k)
    BY <1>1, <1>4, <2>2, <2>3
  <2> QED BY <2>2, <2>4
<1> HIDE DEF k
<1>6. /\ k \in Nat /\ k > 0 /\ k - 1 \in 0 .. n /\ k \in 0 .. n /\ n \in k .. n
      /\ \A m \in 1 .. k : m \in 1 .. n
  BY <1>1, <1>5
<1>7. AreJoined(S, Upto(k - 1), frames[k], Upto(k))
  <2>1. \A m \in 1 .. k : frames[m] \in Seq(S)
    BY <1>1, <1>6
  <2> QED BY <1>6, <2>1, FlatJoins DEF Upto
<1>8. Upto(n)[i] = Upto(k)[i]
  <2>1. k \in 0 .. n /\ n \in Nat
    BY <1>1, <1>6
  <2>2. IsBeginning(S, Upto(k), Upto(n))
    BY <1>1, <2>1, FlatPrefix DEF Upto
  <2>3. i \in 1 .. Len(Upto(k))
    BY <1>2, <1>3, <1>5, <1>6
  <2> QED BY <2>2, <2>3 DEF IsBeginning
<1> DEFINE j == i - Len(Upto(k - 1))
<1>9. j \in 1 .. Len(frames[k]) /\ Len(Upto(k - 1)) + j = i
  <2>1. Len(Upto(k - 1)) \in Nat /\ Len(frames[k]) \in Nat
    BY <1>1, <1>3, <1>5, <1>6
  <2> DEFINE a == Len(Upto(k - 1))
             b == Len(frames[k])
  <2>2. Len(Upto(k)) = a + b /\ a < i /\ i <= Len(Upto(k)) /\ a \in Nat /\ b \in Nat
    BY <1>5, <1>7, <2>1 DEF AreJoined
  <2> HIDE DEF a, b
  <2>3. i - a \in 1 .. b /\ a + (i - a) = i
    BY <1>2, <2>2
  <2> QED BY <2>3 DEF a, b
<1>10. Upto(k)[i] = frames[k][j]
  BY <1>7, <1>9 DEF AreJoined
<1> QED BY <1>5, <1>8, <1>9, <1>10 DEF k, n

(* While nobody pauses, what the receiver's rules make of a frame is a     *)
(* piece of its unit.                                                      *)
LEMMA SkippedIsPiece ==
  ASSUME Typed, Units, pauses = 0, NEW i \in 1 .. Len(Upto(Len(nals)))
  PROVE  PieceOf(SkipSpecialHeader(Upto(Len(nals))[i]), nals[MadeOf(i)])
<1> DEFINE k == MadeOf(i)
<1>1. PICK j \in 1 .. Len(frames[k]) : k \in 1 .. Len(nals) /\ Upto(Len(nals))[i] = frames[k][j]
  BY FrameOfUnit
<1> HIDE DEF k
<1> DEFINE h == frames[k]
           u == nals[k]
           n == Len(h)
           t == [m \in DOMAIN h |-> SkipSpecialHeader(h[m])]
           w == Flat(t, n)
<1>2. k \in 1 .. MaxNals /\ h \in Seq(Seq(Octets))
  <2>1. /\ Len(nals) \in Nat /\ Len(nals) <= MaxNals /\ MaxNals \in Nat
        /\ frames \in [1 .. MaxNals -> Seq(Seq(Octets))]
    BY Sizes DEF Typed
  <2> QED BY <1>1, <2>1
<1>3. /\ IsUnit(u) /\ Pieces(h)
      /\ IF k < Len(nals) \/ fragmenter.valid = 1 THEN Skipped(h) = u
         ELSE IsBegun(fragmenter, Skipped(h), u) /\ Holds(fragmenter, u)
  BY <1>1 DEF Units
<1>4. w = Skipped(h) /\ n \in Nat /\ DOMAIN h = 1 .. n
  BY <1>2 DEF Skipped
<1>5. \A m \in 1 .. n : t[m] = SkipSpecialHeader(h[m]) /\ t[m] \in Seq(Octets) /\ Len(t[m]) > 0
  BY <1>3, <1>4 DEF Pieces
<1>6. j \in 1 .. n
  BY <1>1
<1> HIDE DEF h, n, t, u, w
<1>7. u \in Seq(Octets) /\ Len(w) <= Len(u) /\ \A m \in 1 .. Len(w) : w[m] = u[m]
  <2>1. u \in Seq(Octets)
    BY <1>3 DEF IsUnit
  <2>2. CASE k < Len(nals) \/ fragmenter.valid = 1
    <3>1. w = u /\ Len(u) \in Nat
      BY <1>3, <1>4, <2>1, <2>2
    <3> QED BY <2>1, <3>1
  <2>3. CASE ~(k < Len(nals) \/ fragmenter.valid = 1)
    <3>1. IsBegun(fragmenter, w, u) /\ Holds(fragmenter, u)
      BY <1>3, <1>4, <2>3
    <3>2. Len(w) = fragmenter.offset - 1 /\ Len(u) = fragmenter.valid - 1
          /\ \A m \in 1 .. Len(w) : w[m] = u[m]
      BY <3>1 DEF IsBegun, Holds
    <3>3. fragmenter.valid \in Nat /\ fragmenter.offset \in Nat /\ fragmenter.offset <= fragmenter.valid
      BY DEF Typed, Fragmenters, Rests
    <3> QED BY <2>1, <3>2, <3>3
  <2> QED BY <2>2, <2>3
<1>8. PieceOf(t[j], u)
  BY <1>4, <1>5, <1>6, <1>7, PartIsPiece DEF w
<1>9. t[j] = SkipSpecialHeader(Upto(Len(nals))[i])
  BY <1>1, <1>5, <1>6 DEF h
<1> QED BY <1>8, <1>9 DEF u, k

(* The payload of a packet with one header is its frame.                   *)
Payload(packet) == SubSeq(packet, RtpHeaderSize + 1, Len(packet))

LEMMA PayloadIsFrame ==
  ASSUME NEW p, NEW s \in Seq(Octets), NEW number, Carries(p, s, number),
         Len(p) = RtpHeaderSize + Len(s)
  PROVE  Payload(p) = s
<1> DEFINE m == RtpHeaderSize + 1
           n == Len(s)
           t == SubSeq(p, m, Len(p))
<1>1. /\ p \in Seq(Octets) /\ n \in Nat /\ Len(p) = 3 + n /\ m = 4
      /\ \A k \in 1 .. n : p[Len(p) - n + k] = s[k]
  BY Sizes DEF Carries
<1> HIDE DEF n
<1>2. m \in 1 .. Len(p) + 1 /\ Len(p) \in m - 1 .. Len(p) /\ Len(p) - m + 1 = n
      /\ \A k \in 1 .. n : m + k - 1 = Len(p) - n + k
  BY <1>1
<1> HIDE DEF m
<1>3. t \in Seq(Octets) /\ Len(t) = Len(p) - m + 1 /\ \A k \in 1 .. Len(p) - m + 1 : t[k] = p[m + k - 1]
  BY <1>1, <1>2, SubSeqProperties
<1> HIDE DEF t
<1>4. Len(t) = n /\ \A k \in 1 .. n : t[k] = s[k]
  BY <1>1, <1>2, <1>3
<1>5. t = s
  BY <1>3, <1>4 DEF n
<1> QED BY <1>5 DEF Payload, t, m

(* What a frame is of which the packet had one header.                     *)
LEMMA FramePieces ==
  ASSUME Inv, NEW i \in DOMAIN sent
  PROVE  /\ Len(sent[i]) = RtpHeaderSize + Len(AllFrames[i]) =>
              Payload(sent[i]) = AllFrames[i]
         /\ pauses = 0 => PieceOf(SkipSpecialHeader(Payload(sent[i])), nals[MadeOf(i)])
<1> DEFINE all == Upto(Len(nals))
<1>1. Typed /\ Packets /\ Units
  BY DEF Inv
<1>2. AllFrames = all /\ all \in Seq(Seq(Octets))
  BY <1>1, AllIsUpto
<1>3. i \in 1 .. Len(sent) /\ Len(sent) \in Nat
  BY <1>1 DEF Typed
<1>4. /\ Len(all) >= Len(sent) /\ Carries(sent[i], all[i], NumberOf(i))
      /\ pauses = 0 => Len(sent[i]) = RtpHeaderSize + Len(all[i])
  BY <1>1, <1>3 DEF Packets
<1>5. i \in 1 .. Len(all)
  <2> HIDE DEF all
  <2> QED BY <1>2, <1>3, <1>4
<1>6. all[i] \in Seq(Octets)
  <2> HIDE DEF all
  <2> QED BY <1>2, <1>5
<1>7. Len(sent[i]) = RtpHeaderSize + Len(all[i]) => Payload(sent[i]) = all[i]
  BY <1>4, <1>6, PayloadIsFrame
<1>8. pauses = 0 => PieceOf(SkipSpecialHeader(all[i]), nals[MadeOf(i)])
  BY <1>1, <1>5, SkippedIsPiece
<1> HIDE DEF all
<1> QED BY <1>2, <1>4, <1>7, <1>8

-----------------------------------------------------------------------------
(* What waits, in whatever order.                                          *)

(* A buffer whose packets are of S.                                        *)
WaitsOf(S, b) ==
  /\ IsBuffer(b) /\ b.at <= Len(b.list)
  /\ \A i \in DOMAIN b.list : b.list[i] \in S

LEMMA WithPackets ==
  ASSUME NEW S, NEW b, WaitsOf(S, b), NEW l, IsSeq(l), NEW tail \in 0 .. SeqSpace,
         NEW at \in Nat, at <= Len(l), \A i \in DOMAIN l : l[i] \in S /\ IsPacket(l[i])
  PROVE  WaitsOf(S, Replaced(b, l, tail, at))
<1> DEFINE c == Replaced(b, l, tail, at)
<1>1. c \in [list : {l}, tail : 0 .. SeqSpace, at : Nat,
            expected : 0 .. SeqSpace, seen : BOOLEAN]
      /\ c.list = l /\ c.at = at
  BY DEF WaitsOf, IsBuffer, Replaced
<1> HIDE DEF c
<1>2. IsBuffer(c)
  BY <1>1 DEF IsBuffer
<1> QED BY <1>1, <1>2 DEF WaitsOf, c

(* What storePacket makes of a buffer that has noted its first packet.     *)
LEMMA StoredOf ==
  ASSUME NEW S, NEW b, WaitsOf(S, b), NEW q \in S, IsPacket(q)
  PROVE  /\ WaitsOf(S, StoreAlone(b, q))
         /\ WaitsOf(S, StoreLast(b, q))
         /\ WaitsOf(S, StoreBefore(b, q))
<1>1. q.seq \in 0 .. SeqSpace
  <2>1. q.ext \in Int /\ q.seq = q.ext % SeqSpace
    BY DEF IsPacket
  <2>2. q.seq \in 0 .. SeqSpace - 1
    BY <2>1, Reduced
  <2> QED BY <2>2, HalfOfSpace
<1>2. /\ b.tail \in 0 .. SeqSpace /\ b.at \in Nat
      /\ Len(b.list) \in Nat /\ DOMAIN b.list = 1 .. Len(b.list)
      /\ b.at <= Len(b.list) /\ IsSeq(b.list)
  BY BufferFields DEF WaitsOf, IsBuffer
<1>3. \A i \in 1 .. Len(b.list) : b.list[i] \in S /\ IsPacket(b.list[i])
  BY <1>2 DEF WaitsOf, IsBuffer
<1>4. WaitsOf(S, StoreAlone(b, q))
  <2>1. StoreAlone(b, q) = Replaced(b, <<q>>, q.seq, 1)
    BY DEF StoreAlone, Replaced
  <2>2. IsSeq(<<q>>) /\ Len(<<q>>) = 1 /\ <<q>>[1] = q /\ DOMAIN <<q>> = 1 .. 1
    BY DEF IsSeq
  <2>3. \A i \in DOMAIN <<q>> : <<q>>[i] \in S /\ IsPacket(<<q>>[i])
    BY <2>2
  <2> QED BY <1>1, <2>1, <2>2, <2>3, WithPackets
<1>5. WaitsOf(S, StoreLast(b, q))
  <2>1. CASE b.at = 0
    <3>1. StoreLast(b, q) = Replaced(b, b.list, q.seq, 0)
      BY <2>1 DEF StoreLast, Replaced
    <3> QED BY <1>1, <1>2, <1>3, <3>1, WithPackets
  <2>2. CASE b.at # 0
    <3> DEFINE t == Append(SubSeq(b.list, 1, b.at), q)
    <3>1. StoreLast(b, q) = Replaced(b, t, q.seq, b.at + 1)
      BY <2>2 DEF StoreLast, Replaced
    <3>2. b.at \in 0 .. Len(b.list)
      BY <1>2
    <3>3. /\ IsSeq(t) /\ Len(t) = b.at + 1
          /\ \A k \in 1 .. b.at + 1 : t[k] = IF k <= b.at THEN b.list[k] ELSE q
      BY <1>2, <3>2, AppendedList
    <3> HIDE DEF t
    <3>4. DOMAIN t = 1 .. b.at + 1
      BY <3>3 DEF IsSeq
    <3>5. \A i \in DOMAIN t : t[i] \in S /\ IsPacket(t[i])
      <4> TAKE i \in DOMAIN t
      <4>1. CASE i <= b.at
        <5>1. i \in 1 .. Len(b.list) /\ t[i] = b.list[i]
          BY <1>2, <3>3, <3>4, <4>1
        <5> QED BY <1>3, <5>1
      <4>2. CASE ~(i <= b.at)
        BY <3>3, <3>4, <4>2
      <4> QED BY <4>1, <4>2
    <3>6. b.at + 1 \in Nat /\ b.at + 1 <= Len(t)
      BY <1>2, <3>3
    <3> QED BY <1>1, <3>1, <3>3, <3>5, <3>6, WithPackets
  <2> QED BY <2>1, <2>2
<1>6. WaitsOf(S, StoreBefore(b, q))
  <2> DEFINE i == Position(b, q)
             t == InsertAt(b.list, i, q)
             at == IF b.at >= i THEN b.at + 1 ELSE b.at
  <2>1. StoreBefore(b, q) = Replaced(b, t, b.tail, at)
    <3>1. b = [b EXCEPT !.tail = b.tail]
      BY DEF WaitsOf, IsBuffer
    <3> QED BY <3>1 DEF StoreBefore, Replaced
  <2>2. i \in 1 .. Len(b.list) + 1
    <3>1. CASE Stops(b, q) = {}
      BY <1>2, <3>1 DEF Position
    <3>2. CASE Stops(b, q) # {}
      <4>1. Stops(b, q) \subseteq 1 .. Len(b.list)
        BY DEF Stops
      <4>2. \E k \in Stops(b, q) : \A j \in Stops(b, q) : k <= j
        <5>1. Stops(b, q) \subseteq Nat
          BY <1>2, <4>1
        <5> QED BY <3>2, <5>1, Least
      <4>3. i \in Stops(b, q)
        BY <3>2, <4>2 DEF Position
      <4> QED BY <1>2, <4>1, <4>3
    <3> QED BY <3>1, <3>2
  <2> HIDE DEF i
  <2>3. /\ IsSeq(t) /\ Len(t) = Len(b.list) + 1
        /\ \A k \in 1 .. Len(t) :
             t[k] = IF k < i THEN b.list[k] ELSE IF k = i THEN q ELSE b.list[k - 1]
    BY <1>2, <2>2, InsertedList
  <2> HIDE DEF t
  <2>4. DOMAIN t = 1 .. Len(b.list) + 1
    BY <2>3 DEF IsSeq
  <2>5. \A k \in DOMAIN t : t[k] \in S /\ IsPacket(t[k])
    <3> TAKE k \in DOMAIN t
    <3>1. CASE k < i
      <4>1. k \in 1 .. Len(b.list) /\ t[k] = b.list[k]
        BY <1>2, <2>2, <2>3, <2>4, <3>1
      <4> QED BY <1>3, <4>1
    <3>2. CASE k = i
      BY <1>2, <2>2, <2>3, <2>4, <3>2
    <3>3. CASE k > i
      <4>1. k - 1 \in 1 .. Len(b.list) /\ ~(k < i) /\ k # i /\ k \in 1 .. Len(t)
        BY <1>2, <2>2, <2>3, <2>4, <3>3
      <4>2. t[k] = b.list[k - 1]
        BY <2>3, <4>1
      <4> QED BY <1>3, <4>1, <4>2
    <3> QED BY <1>2, <2>2, <2>4, <3>1, <3>2, <3>3
  <2>6. at \in Nat /\ at <= Len(t)
    BY <1>2, <2>2, <2>3
  <2> HIDE DEF at
  <2> QED BY <1>2, <2>1, <2>3, <2>5, <2>6, WithPackets
<1> QED BY <1>4, <1>5, <1>6

(* storePacket leaves packets of S waiting, and perhaps the new one.       *)
LEMMA StoreKeeps ==
  ASSUME NEW S, NEW b, WaitsOf(S, b), NEW p, IsPacket(p), [p EXCEPT !.first = ~b.seen] \in S
  PROVE  WaitsOf(S, StorePacket(b, p))
<1> DEFINE q == [p EXCEPT !.first = ~b.seen]
           c == NoteFirst(b, p)
<1>1. IsPacket(q) /\ q \in S
  BY DEF IsPacket, WaitsOf, IsBuffer
<1>2. WaitsOf(S, c)
  <2>1. p.seq \in 0 .. SeqSpace
    <3>1. p.ext \in Int /\ p.seq = p.ext % SeqSpace
      BY DEF IsPacket
    <3>2. p.seq \in 0 .. SeqSpace - 1
      BY <3>1, Reduced
    <3> QED BY <3>2, HalfOfSpace
  <2>2. CASE b.seen
    BY <2>2 DEF NoteFirst
  <2>3. CASE ~b.seen
    <3>1. /\ c \in [list : {b.list}, tail : 0 .. SeqSpace, at : Nat,
                    expected : 0 .. SeqSpace, seen : BOOLEAN]
          /\ c.list = b.list /\ c.at = b.at
      BY <2>1, <2>3 DEF NoteFirst, WaitsOf, IsBuffer
    <3> HIDE DEF c
    <3>2. IsBuffer(c)
      BY <3>1 DEF WaitsOf, IsBuffer
    <3> QED BY <3>1, <3>2 DEF WaitsOf
  <2> QED BY <2>2, <2>3
<1>3. \/ StorePacket(b, p) = c
      \/ StorePacket(b, p) = StoreAlone(c, q)
      \/ StorePacket(b, p) = StoreLast(c, q)
      \/ StorePacket(b, p) = StoreBefore(c, q)
  BY DEF StorePacket
<1> HIDE DEF q, c
<1> QED BY <1>1, <1>2, <1>3, StoredOf

(* ResetHaveSeenFirstPacket leaves what waits.                             *)
LEMMA ResetKeeps ==
  ASSUME NEW S, NEW b, WaitsOf(S, b)
  PROVE  WaitsOf(S, ResetHaveSeenFirstPacket(b))
<1> DEFINE c == ResetHaveSeenFirstPacket(b)
<1>1. /\ c \in [list : {b.list}, tail : 0 .. SeqSpace, at : Nat,
                expected : 0 .. SeqSpace, seen : BOOLEAN]
      /\ c.list = b.list /\ c.at = b.at
  BY DEF ResetHaveSeenFirstPacket, WaitsOf, IsBuffer
<1> HIDE DEF c
<1>2. IsBuffer(c)
  BY <1>1 DEF WaitsOf, IsBuffer
<1> QED BY <1>1, <1>2 DEF WaitsOf, c

(* What is left of a packet that is used, and the packet once it was.      *)
BytesOf(p) == IF p.used THEN p.payload ELSE SkipSpecialHeader(p.payload)
UsedUp(p) == [p EXCEPT !.used = TRUE, !.payload = BytesOf(p)]

(* doGetNextFrame1 leaves packets of S waiting, the head perhaps used.     *)
LEMMA DeliveryKeeps ==
  ASSUME NEW S, NEW b, WaitsOf(S, b), DoGetNextFrame1(b),
         b.list # <<>> => UsedUp(b.list[1]) \in S
  PROVE  WaitsOf(S, buffer')
<1>1. PICK old \in BOOLEAN :
        \/ NothingCompleted(b, old)
        \/ /\ Completed(b, old)
           /\ \/ RejectHeader(GiveUpEarlier(b), Head(b.list))
              \/ Deliver(GiveUpEarlier(b), Head(b.list))
  BY DEF DoGetNextFrame1
<1> DEFINE h == b.list[1]
           g == GiveUpEarlier(b)
           r == ReleaseUsedPacket(g)
           d == UsedUp(h)
           u == [g EXCEPT !.list[1].used = TRUE, !.list[1].payload = BytesOf(h)]
<1>2. CASE NothingCompleted(b, old)
  BY <1>2 DEF NothingCompleted
<1>3. ASSUME Completed(b, old)
      PROVE  /\ 1 \in DOMAIN b.list /\ Head(b.list) = h
             /\ WaitsOf(S, r) /\ WaitsOf(S, u)
  <2>1. b.list # <<>>
    BY <1>3 DEF Completed, HeadExpected
  <2>2. /\ IsSeq(b.list) /\ Len(b.list) \in Nat /\ Len(b.list) > 0
        /\ DOMAIN b.list = 1 .. Len(b.list) /\ 1 \in DOMAIN b.list
    BY <2>1, TailedList DEF WaitsOf, IsBuffer
  <2>3. Head(b.list) = h
    BY <2>2 DEF IsSeq
  <2>4. \A i \in DOMAIN b.list : b.list[i] \in S /\ IsPacket(b.list[i])
    BY DEF WaitsOf, IsBuffer
  <2>5. h.seq \in 0 .. SeqSpace /\ h.seq + 1 \in 0 .. SeqSpace
    <3>1. h.seq \in 0 .. SeqSpace - 1
      BY <2>2, BufferFields DEF WaitsOf
    <3> QED BY <3>1, HalfOfSpace
  <2>6. d \in S /\ IsPacket(d)
    <3>1. IsPacket(h)
      BY <2>2, <2>4
    <3> HIDE DEF h
    <3>2. IsPacket(d)
      BY <3>1 DEF IsPacket, UsedUp
    <3> QED BY <2>1, <3>2 DEF h
  <2> HIDE DEF h, d
  <2>7. /\ g \in [list : {b.list}, tail : 0 .. SeqSpace, at : Nat,
                  expected : 0 .. SeqSpace, seen : BOOLEAN]
        /\ g.list = b.list /\ g.at = b.at /\ g.expected = h.seq
    BY <2>3, <2>5 DEF GiveUpEarlier, WaitsOf, IsBuffer
  <2> HIDE DEF g
  <2>8. WaitsOf(S, r)
    <3> DEFINE t == Tail(b.list)
    <3>1. /\ IsSeq(t) /\ Len(t) = Len(b.list) - 1 /\ DOMAIN t = 1 .. Len(b.list) - 1
          /\ \A k \in 1 .. Len(b.list) - 1 : t[k] = b.list[k + 1]
      BY <2>1, <2>2, TailedList
    <3> HIDE DEF t
    <3>2. \A i \in DOMAIN t : t[i] \in S /\ IsPacket(t[i])
      <4> TAKE i \in DOMAIN t
      <4>1. i + 1 \in DOMAIN b.list /\ t[i] = b.list[i + 1]
        BY <2>2, <3>1
      <4> QED BY <2>4, <4>1
    <3>3. /\ r \in [list : {t}, tail : 0 .. SeqSpace, at : Nat,
                    expected : 0 .. SeqSpace, seen : BOOLEAN]
          /\ r.list = t /\ r.at = 0
      <4>1. r = [g EXCEPT !.expected = h.seq + 1, !.list = t,
                          !.tail = IF Len(b.list) > 1 THEN NoTail ELSE @, !.at = 0]
        BY <2>7 DEF ReleaseUsedPacket, t
      <4>2. NoTail \in 0 .. SeqSpace
        BY HalfOfSpace DEF NoTail
      <4> HIDE DEF r
      <4> QED BY <2>5, <2>7, <4>1, <4>2
    <3> HIDE DEF r
    <3>4. 0 <= Len(t)
      BY <2>2, <3>1
    <3>5. IsBuffer(r)
      BY <3>1, <3>2, <3>3 DEF IsBuffer
    <3> QED BY <3>2, <3>3, <3>4, <3>5 DEF WaitsOf
  <2>9. WaitsOf(S, u)
    <3> DEFINE t == [b.list EXCEPT ![1] = d]
    <3>1. u = [g EXCEPT !.list = t]
      BY <2>2, <2>7 DEF d, UsedUp, h
    <3> HIDE DEF u
    <3>2. /\ IsSeq(t) /\ DOMAIN t = DOMAIN b.list /\ Len(t) = Len(b.list)
          /\ \A i \in DOMAIN t : t[i] = IF i = 1 THEN d ELSE b.list[i]
      <4> DEFINE E == {b.list[i] : i \in DOMAIN b.list} \cup {d}
      <4>1. b.list \in Seq(E) /\ d \in E
        BY <2>2 DEF IsSeq
      <4> HIDE DEF E
      <4>2. t \in Seq(E) /\ DOMAIN t = DOMAIN b.list /\ Len(t) = Len(b.list)
            /\ \A i \in DOMAIN t : t[i] = IF i = 1 THEN d ELSE b.list[i]
        BY <2>2, <4>1
      <4> QED BY <4>2, SelfTyped
    <3> HIDE DEF t
    <3>3. \A i \in DOMAIN t : t[i] \in S /\ IsPacket(t[i])
      BY <2>4, <2>6, <3>2
    <3>4. /\ u \in [list : {t}, tail : 0 .. SeqSpace, at : Nat,
                    expected : 0 .. SeqSpace, seen : BOOLEAN]
          /\ u.list = t /\ u.at = b.at
      BY <2>7, <3>1
    <3>5. IsBuffer(u)
      BY <3>2, <3>3, <3>4 DEF IsBuffer
    <3>6. b.at <= Len(t)
      BY <3>2 DEF WaitsOf
    <3> QED BY <3>3, <3>4, <3>5, <3>6 DEF WaitsOf
  <2> QED BY <2>2, <2>3, <2>8, <2>9
<1>4. CASE Completed(b, old) /\ RejectHeader(g, Head(b.list))
  <2>1. buffer' = r
    BY <1>4 DEF RejectHeader
  <2> HIDE DEF r
  <2> QED BY <1>3, <1>4, <2>1
<1>5. CASE Completed(b, old) /\ Deliver(g, Head(b.list))
  <2>1. buffer' = r \/ buffer' = u
    <3>1. Head(b.list) = h
      BY <1>3, <1>5
    <3>2. Deliver(g, h)
      BY <1>5, <3>1
    <3> HIDE DEF h, g
    <3> QED BY <3>2 DEF Deliver, BytesOf
  <2> HIDE DEF r, u, h, g
  <2> QED BY <1>3, <1>5, <2>1
<1> QED BY <1>1, <1>2, <1>4, <1>5

-----------------------------------------------------------------------------
(* What the receiver holds is what was sent: the invariant, for any number *)
(* of pauses and any order.                                                *)

(* The packet p is of the packets t numbered from n on.                    *)
IsOf(p, n, t) ==
  LET i == p.ext - n + 1
  IN  /\ i \in DOMAIN t
      /\ p.payload = IF p.used THEN SkipSpecialHeader(Payload(t[i])) ELSE Payload(t[i])

AreOf(b, n, t) == \A i \in DOMAIN b.list : IsOf(b.list[i], n, t)

CountsInv ==
  /\ peer \in {"dorsvr", "other"}
  /\ arrivals \in Nat /\ arrivals <= MaxArrivals[peer]
  /\ \A s \in Ssrcs : stats[s].received \in Nat /\ stats[s].received <= arrivals

WaitsInv ==
  /\ IsBuffer(buffer) /\ buffer.at <= Len(buffer.list)
  /\ peer = "dorsvr" => AreOf(buffer, NumberOf(1), sent)

(* What was sent keeps its place and its number.                           *)
LEMMA SentStays ==
  ASSUME NumbersInv, SenderNext
  PROVE  /\ NumberOf(1)' = NumberOf(1)
         /\ \A i \in DOMAIN sent : i \in DOMAIN sent' /\ sent'[i] = sent[i]
<1>1. CASE UNCHANGED <<seqNo, sent>>
  BY <1>1 DEF NumberOf
<1>2. CASE seqNo' = seqNo + 1 /\ \E packet : sent' = Append(sent, packet)
  <2>1. PICK packet : sent' = Append(sent, packet)
    BY <1>2
  <2> DEFINE E == {sent[i] : i \in DOMAIN sent} \cup {packet}
             n == Len(sent)
  <2>2. sent \in Seq(E) /\ packet \in E
    BY DEF NumbersInv, IsSeq
  <2> HIDE DEF E
  <2>3. /\ n \in Nat /\ Len(sent') = n + 1 /\ DOMAIN sent = 1 .. n /\ DOMAIN sent' = 1 .. n + 1
        /\ \A i \in 1 .. n : sent'[i] = sent[i]
    BY <2>1, <2>2
  <2>4. NumberOf(1)' = NumberOf(1)
    <3>1. seqNo \in Nat
      BY DEF NumbersInv
    <3>2. NumberOf(1) = seqNo - n + 1 - 1 /\ NumberOf(1)' = (seqNo + 1) - (n + 1) + 1 - 1
      BY <1>2, <2>3 DEF NumberOf
    <3> HIDE DEF n
    <3> QED BY <2>3, <3>1, <3>2
  <2> HIDE DEF n
  <2> QED BY <2>3, <2>4
<1> QED BY <1>1, <1>2, SendsOne

LEMMA StaysOf ==
  ASSUME NEW n, NEW t, NEW u, \A i \in DOMAIN t : i \in DOMAIN u /\ u[i] = t[i],
         NEW b, AreOf(b, n, t)
  PROVE  AreOf(b, n, u)
BY DEF AreOf, IsOf

(* What is left of a packet that was used is of it too.                    *)
LEMMA UsedIsOf ==
  ASSUME NEW p, IsPacket(p), NEW n, NEW t, IsOf(p, n, t)
  PROVE  IsOf(UsedUp(p), n, t)
<1> DEFINE d == UsedUp(p)
<1>1. BytesOf(p) = SkipSpecialHeader(Payload(t[p.ext - n + 1]))
  BY DEF BytesOf, IsOf
<1>2. d.ext = p.ext /\ d.used = TRUE /\ d.payload = BytesOf(p)
  BY DEF UsedUp, IsPacket
<1> HIDE DEF d
<1> QED BY <1>1, <1>2 DEF IsOf, d

(* A round of the loop with a buffer that holds what was sent.             *)
LEMMA RoundKeeps ==
  ASSUME NEW b, IsBuffer(b), b.at <= Len(b.list), DoGetNextFrame1(b),
         UNCHANGED <<seqNo, sent, peer>>,
         peer = "dorsvr" => AreOf(b, NumberOf(1), sent)
  PROVE  WaitsInv'
<1> DEFINE P == {b.list[i] : i \in DOMAIN b.list}
           S == P \cup (IF b.list # <<>> THEN {UsedUp(b.list[1])} ELSE {})
           n == NumberOf(1)
<1>1. WaitsOf(S, b)
  BY DEF WaitsOf
<1>2. b.list # <<>> => 1 \in DOMAIN b.list /\ UsedUp(b.list[1]) \in S
  <2>1. b.list # <<>> => Len(b.list) \in Nat /\ Len(b.list) > 0 /\ DOMAIN b.list = 1 .. Len(b.list)
    BY TailedList DEF IsBuffer
  <2> QED BY <2>1
<1>3. \A x \in S : x \in P \/ (b.list # <<>> /\ x = UsedUp(b.list[1]))
  OBVIOUS
<1> HIDE DEF S
<1>4. WaitsOf(S, buffer')
  BY <1>1, <1>2, DeliveryKeeps
<1>5. NumberOf(1)' = n /\ sent' = sent /\ peer' = peer
  BY DEF NumberOf
<1> HIDE DEF n
<1>6. ASSUME peer = "dorsvr"
      PROVE  AreOf(buffer', n, sent)
  <2>1. \A i \in DOMAIN b.list : IsOf(b.list[i], n, sent) /\ IsPacket(b.list[i])
    BY <1>6 DEF AreOf, IsBuffer, n
  <2>2. 1 \in DOMAIN b.list => IsOf(UsedUp(b.list[1]), n, sent)
    BY <2>1, UsedIsOf
  <2>3. \A x \in S : IsOf(x, n, sent)
    BY <1>2, <1>3, <2>1, <2>2
  <2> QED BY <1>4, <2>3 DEF AreOf, WaitsOf
<1> QED BY <1>4, <1>5, <1>6 DEF WaitsInv, WaitsOf

(* A datagram that arrives: the packet is one that dorsvr sent, if it is   *)
(* the peer.                                                               *)
LEMMA KnownRounds ==
  ASSUME NumbersInv, PeersInv, Arrival
  PROVE  /\ UNCHANGED <<seqNo, sent, peer>> /\ arrivals' = arrivals + 1
         /\ arrivals < MaxArrivals[peer]
         /\ \/ ReadInvalid
            \/ \E ssrc \in Ssrcs, ext \in Int : \E ts, payload :
                 /\ ReadPacket(ssrc, ext, ts, payload)
                 /\ peer = "dorsvr" =>
                      LET i == ext - NumberOf(1) + 1
                      IN  i \in DOMAIN sent /\ payload = Payload(sent[i])
<1>1. UNCHANGED <<seqNo, sent, peer>> /\ arrivals' = arrivals + 1 /\ arrivals < MaxArrivals[peer]
  BY DEF Arrival, senderVars
<1>2. ASSUME NEW i \in DOMAIN sent, Arrive(i)
      PROVE  \/ ReadInvalid
             \/ \E ssrc \in Ssrcs, ext \in Int : \E ts, payload :
                 /\ ReadPacket(ssrc, ext, ts, payload)
                 /\ peer = "dorsvr" =>
                      LET j == ext - NumberOf(1) + 1
                      IN  j \in DOMAIN sent /\ payload = Payload(sent[j])
  <2> DEFINE ext == NumberOf(i)
  <2>1. ext \in Int /\ ext - NumberOf(1) + 1 = i
    <3> DEFINE n == Len(sent)
    <3>1. n \in Nat /\ i \in 1 .. n /\ seqNo \in Nat
      BY DEF NumbersInv, IsSeq
    <3>2. NumberOf(1) = seqNo - n + 1 - 1 /\ ext = seqNo - n + i - 1
      BY DEF NumberOf
    <3> HIDE DEF n, ext
    <3> QED BY <3>1, <3>2
  <2>2. \/ ReadInvalid
        \/ \E ts : ReadPacket(1, ext, ts, Payload(sent[i]))
    BY <1>2, Zenon DEF Arrive, Payload
  <2> HIDE DEF ext
  <2>3. 1 \in Ssrcs
    BY PathAssumption
  <2>4. ASSUME NEW ts, ReadPacket(1, ext, ts, Payload(sent[i]))
        PROVE  \E ssrc \in Ssrcs, e \in Int : \E us, payload :
                 /\ ReadPacket(ssrc, e, us, payload)
                 /\ peer = "dorsvr" =>
                      LET j == e - NumberOf(1) + 1
                      IN  j \in DOMAIN sent /\ payload = Payload(sent[j])
    BY <2>1, <2>3, <2>4
  <2> QED BY <2>2, <2>4
<1>3. ASSUME NEW k \in 0 .. MaxForeign - 1, ForeignArrives(foreign.first + k)
      PROVE  \E ssrc \in Ssrcs, ext \in Int : \E ts, payload : ReadPacket(ssrc, ext, ts, payload)
  <2> DEFINE ext == foreign.first + k
  <2>1. ext \in Int /\ foreign.ssrc \in Ssrcs
    BY DEF PeersInv
  <2>2. \E ts, payload : ReadPacket(foreign.ssrc, ext, ts, payload)
    BY <1>3, Zenon DEF ForeignArrives
  <2> HIDE DEF ext
  <2> QED BY <2>1, <2>2
<1>4. \/ \E i \in DOMAIN sent : Arrive(i)
      \/ /\ peer = "other"
         /\ \/ \E k \in 0 .. MaxForeign - 1 : ForeignArrives(foreign.first + k)
            \/ ReadInvalid
  BY Zenon DEF Arrival
<1>5. CASE \E i \in DOMAIN sent : Arrive(i)
  BY <1>1, <1>2, <1>5
<1>6. CASE peer = "other" /\ \E k \in 0 .. MaxForeign - 1 : ForeignArrives(foreign.first + k)
  <2>1. peer # "dorsvr"
    BY <1>6
  <2> QED BY <1>1, <1>3, <1>6, <2>1
<1> QED BY <1>1, <1>4, <1>5, <1>6

(* One more packet was received of its sender.                             *)
LEMMA CountsOne ==
  ASSUME StatsInv, NEW ssrc \in Ssrcs, NEW ext \in Int, NEW ts, NEW payload,
         ReadPacket(ssrc, ext, ts, payload), NEW m \in Nat,
         \A s \in Ssrcs : stats[s].received \in Nat /\ stats[s].received <= m
  PROVE  \A s \in Ssrcs : stats'[s].received \in Nat /\ stats'[s].received <= m + 1
<1> DEFINE seq == ext % SeqSpace
           r == IF stats[ssrc] = NoStats THEN NewStats(seq, ts) ELSE stats[ssrc]
           n == NoteIncomingPacket(r, seq, ts)
<1>1. stats' = [stats EXCEPT ![ssrc] = n]
  BY Zenon DEF ReadPacket
<1>2. seq \in 0 .. SeqSpace - 1 /\ SeqSpace \in Nat
  BY Reduced, HalfOfSpace
<1>3. IsStats(r) /\ r.highest \in Int /\ r.received \in Nat /\ r.received <= m
  <2>1. CASE stats[ssrc] = NoStats
    <3>1. r = NewStats(seq, ts)
      BY <2>1
    <3> HIDE DEF r
    <3> QED BY <1>2, <3>1 DEF NewStats, IsStats
  <2>2. CASE stats[ssrc] # NoStats
    <3>1. r = stats[ssrc] /\ IsStats(r)
      BY <2>2 DEF StatsInv
    <3> HIDE DEF r
    <3> QED BY <3>1 DEF IsStats
  <2> QED BY <2>1, <2>2
<1> HIDE DEF r, seq
<1>4. n.received = r.received + 1
  BY <1>2, <1>3, NoteNumbers
<1> HIDE DEF n
<1>5. ASSUME NEW s \in Ssrcs
      PROVE  stats'[s].received \in Nat /\ stats'[s].received <= m + 1
  <2>1. CASE s = ssrc
    <3>1. stats'[s] = n
      BY <1>1, <2>1 DEF StatsInv
    <3> QED BY <1>3, <1>4, <3>1
  <2>2. CASE s # ssrc
    <3>1. stats'[s] = stats[s]
      BY <1>1, <2>2 DEF StatsInv
    <3> QED BY <3>1
  <2> QED BY <2>1, <2>2
<1> QED BY <1>5

(* A datagram arrives.                                                     *)
LEMMA ArrivalKeeps ==
  ASSUME IInv, CountsInv, WaitsInv, Arrival
  PROVE  CountsInv' /\ WaitsInv'
<1>1. /\ UNCHANGED <<seqNo, sent, peer>> /\ arrivals' = arrivals + 1
      /\ arrivals < MaxArrivals[peer]
      /\ \/ ReadInvalid
         \/ \E ssrc \in Ssrcs, ext \in Int : \E ts, payload :
              /\ ReadPacket(ssrc, ext, ts, payload)
              /\ peer = "dorsvr" =>
                   LET i == ext - NumberOf(1) + 1
                   IN  i \in DOMAIN sent /\ payload = Payload(sent[i])
  BY KnownRounds DEF IInv
<1>2. /\ peer \in {"dorsvr", "other"} /\ arrivals \in Nat /\ MaxArrivals[peer] \in Nat
      /\ \A s \in Ssrcs : stats[s].received \in Nat /\ stats[s].received <= arrivals
  BY PathAssumption DEF CountsInv
<1>3. /\ peer' \in {"dorsvr", "other"} /\ arrivals' \in Nat /\ arrivals' <= MaxArrivals[peer']
  BY <1>1, <1>2
<1>4. CASE ReadInvalid
  <2>1. DoGetNextFrame1(buffer) /\ stats' = stats
    BY <1>4 DEF ReadInvalid
  <2>2. WaitsInv'
    BY <1>1, <2>1, RoundKeeps DEF WaitsInv
  <2>3. \A s \in Ssrcs : stats'[s].received \in Nat /\ stats'[s].received <= arrivals'
    BY <1>1, <1>2, <2>1
  <2> QED BY <1>3, <2>2, <2>3 DEF CountsInv
<1>5. ASSUME NEW ssrc \in Ssrcs, NEW ext \in Int, NEW ts, NEW payload,
             ReadPacket(ssrc, ext, ts, payload),
             peer = "dorsvr" =>
               LET i == ext - NumberOf(1) + 1
               IN  i \in DOMAIN sent /\ payload = Payload(sent[i])
      PROVE  CountsInv' /\ WaitsInv'
  <2>1. \A s \in Ssrcs : stats'[s].received \in Nat /\ stats'[s].received <= arrivals'
    BY <1>1, <1>2, <1>5, CountsOne DEF IInv
  <2> DEFINE b == IF ssrc = lastReceivedSSRC THEN buffer ELSE ResetHaveSeenFirstPacket(buffer)
             p == [ssrc |-> ssrc, seq |-> ext % SeqSpace, ext |-> ext, payload |-> payload,
                   first |-> FALSE, used |-> FALSE]
             q == [p EXCEPT !.first = ~b.seen]
             c == StorePacket(b, p)
             S == {buffer.list[i] : i \in DOMAIN buffer.list} \cup {q}
  <2>2. DoGetNextFrame1(c)
    BY <1>5, Zenon DEF ReadPacket
  <2>3. IsPacket(p) /\ q.ext = ext /\ q.payload = payload /\ q.used = FALSE
    BY DEF IsPacket
  <2>4. WaitsOf(S, buffer)
    BY DEF WaitsOf, WaitsInv
  <2>5. q \in S /\ \A x \in S : x = q \/ \E i \in DOMAIN buffer.list : x = buffer.list[i]
    OBVIOUS
  <2> HIDE DEF S
  <2>6. WaitsOf(S, b)
    BY <2>4, ResetKeeps
  <2> HIDE DEF b, p
  <2>7. WaitsOf(S, c)
    BY <2>3, <2>5, <2>6, StoreKeeps
  <2> HIDE DEF c, q
  <2>8. peer = "dorsvr" => AreOf(c, NumberOf(1), sent)
    <3> SUFFICES ASSUME peer = "dorsvr" PROVE AreOf(c, NumberOf(1), sent)
      OBVIOUS
    <3>1. IsOf(q, NumberOf(1), sent)
      BY <1>5, <2>3 DEF IsOf
    <3>2. \A i \in DOMAIN buffer.list : IsOf(buffer.list[i], NumberOf(1), sent)
      BY DEF WaitsInv, AreOf
    <3>3. \A x \in S : IsOf(x, NumberOf(1), sent)
      BY <2>5, <3>1, <3>2
    <3> QED BY <2>7, <3>3 DEF AreOf, WaitsOf, WaitsInv
  <2>9. WaitsInv'
    BY <1>1, <2>2, <2>7, <2>8, RoundKeeps DEF WaitsOf
  <2> QED BY <1>3, <2>1, <2>9 DEF CountsInv
<1> QED BY <1>1, <1>4, <1>5

LEMMA ReceiverStarts == Init => CountsInv /\ WaitsInv
<1> SUFFICES ASSUME Init PROVE CountsInv /\ WaitsInv
  OBVIOUS
<1>1. /\ buffer = EmptyBuffer /\ stats = [s \in Ssrcs |-> NoStats]
      /\ peer \in {"dorsvr", "other"} /\ arrivals = 0
  BY DEF Init, ReceiverInit
<1>2. MaxArrivals[peer] \in Nat
  BY <1>1, PathAssumption
<1>3. \A s \in Ssrcs : stats[s].received = 0
  BY <1>1 DEF NoStats
<1>4. CountsInv
  BY <1>1, <1>2, <1>3 DEF CountsInv
<1>5. /\ buffer \in [list : {<<>>}, tail : 0 .. SeqSpace, at : Nat,
                     expected : 0 .. SeqSpace, seen : BOOLEAN]
      /\ buffer.list = <<>> /\ buffer.at = 0
  BY <1>1, HalfOfSpace DEF EmptyBuffer, NoTail
<1>6. IsSeq(<<>>) /\ DOMAIN <<>> = {} /\ Len(<<>>) = 0
  BY DEF IsSeq
<1>7. IsBuffer(buffer) /\ buffer.at <= Len(buffer.list)
  BY <1>5, <1>6 DEF IsBuffer
<1> QED BY <1>1, <1>4, <1>5, <1>6, <1>7 DEF WaitsInv, AreOf

LEMMA ReceiverKeeps == IInv /\ CountsInv /\ WaitsInv /\ [Next]_vars => CountsInv' /\ WaitsInv'
<1> SUFFICES ASSUME IInv, CountsInv, WaitsInv, [Next]_vars PROVE CountsInv' /\ WaitsInv'
  OBVIOUS
<1>1. CASE Arrival
  BY <1>1, ArrivalKeeps
<1>2. CASE UNCHANGED <<buffer, stats, peer, arrivals, sent, seqNo>>
  <2>1. NumberOf(1)' = NumberOf(1)
    BY <1>2 DEF NumberOf
  <2> QED BY <1>2, <2>1 DEF CountsInv, WaitsInv
<1>3. CASE Send
  <2>1. UNCHANGED <<buffer, stats, peer, arrivals>> /\ SenderNext
    BY <1>3 DEF Send, receiverVars, pathVars
  <2>2. CountsInv'
    BY <2>1 DEF CountsInv
  <2>3. /\ NumberOf(1)' = NumberOf(1)
        /\ \A i \in DOMAIN sent : i \in DOMAIN sent' /\ sent'[i] = sent[i]
    BY <2>1, SentStays DEF IInv
  <2>4. AreOf(buffer, NumberOf(1), sent) => AreOf(buffer, NumberOf(1), sent')
    BY <2>3, StaysOf
  <2> QED BY <2>1, <2>2, <2>3, <2>4 DEF WaitsInv
<1> QED BY <1>1, <1>2, <1>3 DEF Next, ForeignRestart, vars, senderVars, receiverVars, pathVars

-----------------------------------------------------------------------------
(* What waits in the reordering buffer is what was sent, or what is left   *)
(* of it behind its header, for every order, loss, repetition and pause.   *)
THEOREM ReceiverInductive == Spec => [](CountsInv /\ WaitsInv)
<1>1. Init => CountsInv /\ WaitsInv
  BY ReceiverStarts
<1>2. IInv /\ (CountsInv /\ WaitsInv) /\ [Next]_vars => (CountsInv /\ WaitsInv)'
  BY ReceiverKeeps
<1> QED BY <1>1, <1>2, Inductive, PTL DEF Spec

(* A packet of dorsvr's with one header that waits (storePacket) is the    *)
(* frame that the fragmenter put in it (up to the second PAUSE), and, once *)
(* it was used, what is left of it behind the payload format's header      *)
(* (processSpecialHeader): while nobody pauses, a piece of the NAL unit    *)
(* the frame was made of, however the packets were lost, repeated and      *)
(* reordered and however often one is used.                                *)
THEOREM PiecesWait == Spec => []WaitingHoldsPieces
<1>1. UntilPaused /\ WaitsInv => WaitingHoldsPieces
  <2> SUFFICES ASSUME UntilPaused, WaitsInv, peer = "dorsvr", NEW j \in DOMAIN buffer.list
               PROVE  LET p == buffer.list[j]
                          i == p.ext - NumberOf(1) + 1
                      IN  /\ i \in DOMAIN sent
                          /\ pauses <= 1 /\ Len(sent[i]) = RtpHeaderSize + Len(AllFrames[i]) =>
                               p.payload = IF p.used THEN SkipSpecialHeader(AllFrames[i])
                                           ELSE AllFrames[i]
                          /\ pauses = 0 /\ p.used => PieceOf(p.payload, nals[MadeOf(i)])
    BY DEF WaitingHoldsPieces
  <2> DEFINE p == buffer.list[j]
             i == p.ext - NumberOf(1) + 1
  <2>1. /\ i \in DOMAIN sent
        /\ p.payload = IF p.used THEN SkipSpecialHeader(Payload(sent[i]))
                       ELSE Payload(sent[i])
    BY DEF WaitsInv, AreOf, IsOf
  <2> HIDE DEF p, i
  <2>2. ASSUME pauses <= 1
        PROVE  /\ Len(sent[i]) = RtpHeaderSize + Len(AllFrames[i]) =>
                    Payload(sent[i]) = AllFrames[i]
               /\ pauses = 0 => PieceOf(SkipSpecialHeader(Payload(sent[i])), nals[MadeOf(i)])
    BY <2>1, <2>2, FramePieces DEF UntilPaused
  <2>3. pauses = 0 => pauses <= 1
    OBVIOUS
  <2>4. /\ pauses <= 1 /\ Len(sent[i]) = RtpHeaderSize + Len(AllFrames[i]) =>
             p.payload = IF p.used THEN SkipSpecialHeader(AllFrames[i])
                         ELSE AllFrames[i]
        /\ pauses = 0 /\ p.used => PieceOf(p.payload, nals[MadeOf(i)])
    BY <2>1, <2>2, <2>3
  <2> QED BY <2>1, <2>4 DEF p, i
<1> QED BY <1>1, SenderInductive, ReceiverInductive, PTL

(* The types of what sender and receiver keep, until the stream is paused  *)
(* a second time: the fragmenter's positions stay in its buffer and what   *)
(* is packed within the output buffer (NewOutPacketBuffer's size), where a *)
(* tailPacket that is in the list is found, and that the statistics count  *)
(* no more packets than datagrams may have arrived.                        *)
THEOREM TypesUntilPaused == Spec => [](pauses <= 1 => TypeOK)
<1>1. UntilPaused /\ CountsInv /\ WaitsInv => (pauses <= 1 => TypeOK)
  <2> SUFFICES ASSUME UntilPaused, CountsInv, WaitsInv, pauses <= 1 PROVE TypeOK
    OBVIOUS
  <2>1. Inv /\ Typed
    BY DEF UntilPaused, Inv
  <2>2. /\ fragmenter.valid \in 1 .. inputBufferSize
        /\ fragmenter.offset \in 1 .. inputBufferSize
    BY <2>1 DEF Typed, Fragmenters
  <2>3. /\ outBuf.limit \in Nat /\ outBuf.limit >= 2 * MaxPacketSize
        /\ outBuf.start \in Nat /\ outBuf.offset \in Nat /\ outBuf.overflowSize \in Nat
        /\ outBuf.buff \in [0 .. outBuf.limit - 1 -> Octets]
    BY <2>1 DEF Typed, IsOutBuffer, Buffers
  <2>4. outBuf.start + outBuf.offset \in 0 .. outBuf.limit
    <3>1. MaxPacketSize \in Nat /\ MaxPacketSize > 9
      BY SenderAssumption DEF RtpHeaderSize
    <3>2. \/ outBuf.start = 0 /\ outBuf.offset = 0
          \/ outBuf.start = 0 /\ outBuf.offset = 3
          \/ outBuf.offset = 0 /\ outBuf.start + 3 + outBuf.overflowSize <= outBuf.limit
      BY <2>1 DEF Inv, Empty, LeftOver, Kept
    <3> QED BY <2>3, <3>1, <3>2
  <2>5. \A i \in DOMAIN outBuf.buff : outBuf.buff[i][1] \in Cells
    <3> TAKE i \in DOMAIN outBuf.buff
    <3>1. outBuf.buff[i] \in Octets
      BY <2>3
    <3> QED BY <3>1 DEF Octets
  <2>6. seqNo \in Nat /\ source \in BOOLEAN /\ looping \in BOOLEAN
    BY <2>1 DEF Typed
  <2>7. buffer.expected \in 0 .. SeqSpace /\ buffer.at \in 0 .. Len(buffer.list)
    <3>1. buffer.expected \in 0 .. SeqSpace /\ buffer.at \in Nat /\ Len(buffer.list) \in Nat
          /\ buffer.at <= Len(buffer.list)
      BY BufferFields DEF WaitsInv
    <3> QED BY <3>1
  <2>8. \A s \in Ssrcs : stats[s].received \in 0 .. MaxArrivals[peer]
    <3> TAKE s \in Ssrcs
    <3>1. /\ stats[s].received \in Nat /\ stats[s].received <= arrivals
          /\ arrivals \in Nat /\ arrivals <= MaxArrivals[peer]
      BY DEF CountsInv
    <3>2. MaxArrivals[peer] \in Nat
      BY PathAssumption DEF CountsInv
    <3> QED BY <3>1, <3>2
  <2> QED BY <2>2, <2>4, <2>5, <2>6, <2>7, <2>8 DEF TypeOK
<1> QED BY <1>1, SenderInductive, ReceiverInductive, PTL
=============================================================================
