----------------------------- MODULE Rtcp_proofs -----------------------------
(***************************************************************************)
(* The invariants of Rtcp for any number of goroutines, packets and sizes: *)
(*   - once no goroutine is at work the shared buffer is empty, however    *)
(*     their steps were mixed;                                             *)
(*   - the packet of a goroutine that was alone is what its code says, and *)
(*     what the client takes for a BYE was sent as one or is about to be;  *)
(*   - processIncomingReport accepts a packet just when it can be cut into *)
(*     sub-packets that fill it.                                           *)
(* The first part is about the loop of processIncomingReport alone, a      *)
(* recursive function of the position in the packet, the second about what *)
(* the goroutines put into the buffer.                                     *)
(***************************************************************************)
EXTENDS Rtcp, LeastNumber, TLAPS

-----------------------------------------------------------------------------
(* At each place of a packet is at most one header, and it is all there.   *)
IsPacket(p) ==
  /\ p.size \in Nat
  /\ \A h \in p.heads : /\ h.pos \in Nat /\ h.pos + 4 <= p.size
                        /\ h.words \in Nat /\ Len(h.blocks) \in Nat
  /\ \A g, h \in p.heads : g.pos = h.pos => g = h

(* The header that the loop accepts at a position, and what it then does:  *)
(* the body of Walk's recursive function.                                  *)
Here(p, pos) ==
  {h \in HeadAt(p, pos) : /\ IF pos = 0 THEN FirstHeader(h) ELSE h.version = 2
                          /\ SubPacketOk(p, h)}

Meet(p, from, pos) ==
  IF Here(p, pos) = {} THEN [ok |-> FALSE, met |-> <<>>]
  ELSE LET h == CHOOSE x \in Here(p, pos) : TRUE
       IN  IF EndOf(h) = p.size THEN [ok |-> TRUE, met |-> <<h>>]
           ELSE IF p.size - EndOf(h) < 4
           THEN [ok |-> FALSE, met |-> <<h>>]
           ELSE [ok |-> from[EndOf(h)].ok,
                 met |-> <<h>> \o from[EndOf(h)].met]

From(p) == CHOOSE from : from = [pos \in 0 .. p.size |-> Meet(p, from, pos)]

LEMMA WalkIsFrom ==
  ASSUME NEW p
  PROVE  Walk(p) = IF p.size < 4 THEN [ok |-> FALSE, met |-> <<>>] ELSE From(p)[0]
  BY Zenon DEF Walk, From, Meet, Here

(* There is one such header, and it ends within the packet.                *)
LEMMA Ends ==
  ASSUME NEW p, IsPacket(p), NEW pos, NEW h \in Here(p, pos)
  PROVE  /\ h \in p.heads /\ h.pos = pos /\ pos \in Nat /\ Here(p, pos) = {h}
         /\ EndOf(h) \in Nat /\ pos < EndOf(h) /\ EndOf(h) <= p.size
<1>1. h \in p.heads /\ h.pos = pos /\ SubPacketOk(p, h)
  BY DEF Here, HeadAt
<1>2. pos \in Nat /\ h.words \in Nat /\ p.size \in Nat
  BY <1>1 DEF IsPacket
<1>3. 4 * h.words <= p.size - pos - 4
  BY <1>1 DEF SubPacketOk
<1>4. EndOf(h) \in Nat /\ pos < EndOf(h) /\ EndOf(h) <= p.size
  BY <1>1, <1>2, <1>3 DEF EndOf
<1>5. \A g \in Here(p, pos) : g = h
  BY <1>1 DEF Here, HeadAt, IsPacket
<1> QED BY <1>1, <1>2, <1>4, <1>5

(* A step of the walk looks only at what lies behind.                      *)
LEMMA MeetLooksAhead ==
  ASSUME NEW p, IsPacket(p), NEW f, NEW g, NEW pos \in Nat,
         \A i \in pos + 1 .. p.size : f[i] = g[i]
  PROVE  Meet(p, f, pos) = Meet(p, g, pos)
<1>1. CASE Here(p, pos) = {}
  BY <1>1 DEF Meet
<1>2. CASE Here(p, pos) # {}
  <2> DEFINE h == CHOOSE x \in Here(p, pos) : TRUE
  <2>1. h \in Here(p, pos)
    BY <1>2
  <2> HIDE DEF h
  <2>2. EndOf(h) \in Nat /\ pos < EndOf(h) /\ EndOf(h) <= p.size
    BY <2>1, Ends
  <2>3. EndOf(h) \in pos + 1 .. p.size
    BY <2>2 DEF IsPacket
  <2>4. f[EndOf(h)] = g[EndOf(h)]
    BY <2>3
  <2> QED BY <1>2, <2>4 DEF Meet, h
<1> QED BY <1>1, <1>2

(* A function that walks as from[...] does, from position n on.            *)
Ahead(p, from, n) == from = [pos \in n .. p.size |-> Meet(p, from, pos)]

(* Step by step from the end of the packet, such a function can be built.  *)
LEMMA WalkExists ==
  ASSUME NEW p, IsPacket(p)
  PROVE  \E from : Ahead(p, from, 0)
<1> DEFINE I == {n \in Nat : n <= p.size + 1 /\ ~\E from : Ahead(p, from, p.size + 1 - n)}
<1>0. p.size \in Nat
  BY DEF IsPacket
<1>1. ASSUME NEW n \in I
      PROVE  \E m \in I : m < n
  <2>1. CASE n = 0
    <3>1. p.size + 1 .. p.size = {} /\ p.size + 1 - n = p.size + 1
      BY <1>0, <2>1
    <3> DEFINE e == [pos \in {} |-> 0]
    <3>2. e = [pos \in p.size + 1 .. p.size |-> Meet(p, e, pos)]
      BY <3>1
    <3>3. Ahead(p, e, p.size + 1 - n)
      BY <3>1, <3>2 DEF Ahead
    <3> QED BY <3>3
  <2>2. CASE n # 0
    <3>1. n - 1 \in Nat /\ n - 1 <= p.size + 1 /\ n - 1 < n /\ p.size + 1 - n \in Nat
          /\ p.size + 1 - (n - 1) = (p.size + 1 - n) + 1
      BY <1>0, <2>2
    <3> SUFFICES ASSUME n - 1 \notin I PROVE FALSE
      BY <3>1
    <3> DEFINE k == p.size + 1 - n
    <3>2. PICK f : Ahead(p, f, k + 1)
      BY <3>1
    <3> DEFINE g == [pos \in k .. p.size |-> IF pos = k THEN Meet(p, f, k) ELSE f[pos]]
    <3>3. \A i \in k + 1 .. p.size : g[i] = f[i]
      BY <1>0, <3>1
    <3>7. k \in Nat
      BY <3>1
    <3> HIDE DEF k
    <3>4. \A i \in k .. p.size : g[i] = Meet(p, g, i)
      <4> TAKE i \in k .. p.size
      <4>1. \A j \in i + 1 .. p.size : f[j] = g[j]
        BY <1>0, <3>3, <3>7
      <4>2. i \in Nat
        BY <3>7
      <4> HIDE DEF g
      <4>3. Meet(p, f, i) = Meet(p, g, i)
        BY <4>1, <4>2, MeetLooksAhead
      <4>4. g[i] = Meet(p, f, i)
        <5>1. CASE i = k
          BY <5>1 DEF g
        <5>2. CASE i # k
          <6>1. i \in k + 1 .. p.size
            BY <3>7, <1>0, <5>2
          <6>2. f[i] = Meet(p, f, i)
            BY <3>2, <6>1 DEF Ahead
          <6> QED BY <3>3, <6>1, <6>2
        <5> QED BY <5>1, <5>2
      <4> QED BY <4>3, <4>4
    <3>5. Ahead(p, g, k)
      <4>1. g = [pos \in k .. p.size |-> g[pos]]
        OBVIOUS
      <4> HIDE DEF g
      <4> QED BY <3>4, <4>1 DEF Ahead
    <3> HIDE DEF g
    <3> QED BY <3>5 DEF k
  <2> QED BY <2>1, <2>2
<1>2. I = {}
  <2>1. I \subseteq Nat
    OBVIOUS
  <2> HIDE DEF I
  <2> QED BY <1>1, <2>1, NoLeast
<1>3. p.size + 1 \in Nat /\ p.size + 1 <= p.size + 1 /\ p.size + 1 - (p.size + 1) = 0
  BY <1>0
<1> QED BY <1>2, <1>3

(* So Walk's function does at every position what its definition says.     *)
LEMMA Walks ==
  ASSUME NEW p, IsPacket(p)
  PROVE  \A pos \in 0 .. p.size : From(p)[pos] = Meet(p, From(p), pos)
<1>1. \E from : from = [pos \in 0 .. p.size |-> Meet(p, from, pos)]
  BY WalkExists DEF Ahead
<1>2. From(p) = [pos \in 0 .. p.size |-> Meet(p, From(p), pos)]
  BY <1>1, Zenon DEF From
<1> QED BY <1>2

-----------------------------------------------------------------------------
(* Two ways to say that a sub-packet is long enough.                       *)
LEMMA FitsNeeds ==
  ASSUME NEW h, h.words \in Nat, Len(h.blocks) \in Nat
  PROVE  h.words >= 1 /\ ReportFits(h) <=> h.words >= Needs(h)
<1> DEFINE w == h.words
           b == Len(h.blocks)
<1>0. w \in Nat /\ b \in Nat
  OBVIOUS
<1>1. CASE h.pt = SR /\ w >= 6
  <2>1. Needs(h) = 6 * b + 6
    BY <1>1, Zenon DEF Needs
  <2>2. ReportFits(h) <=> 24 * b <= (4 * w - 4) - 20
    <3>1. 4 * w - 4 >= 20
      BY <1>0, <1>1
    <3> HIDE DEF w, b
    <3> QED BY <1>1, <3>1 DEF ReportFits, w, b
  <2> HIDE DEF w, b
  <2>3. 24 * b <= (4 * w - 4) - 20 <=> w >= 6 * b + 6
    BY <1>0
  <2> QED BY <1>1, <2>1, <2>2, <2>3 DEF w
<1>2. CASE h.pt \in {SR, RR} /\ ~(h.pt = SR /\ w >= 6)
  <2>1. Needs(h) = 6 * b + 1
    BY <1>2, Zenon DEF Needs
  <2>2. ReportFits(h) <=> 24 * b <= 4 * w - 4
    <3>1. w >= 6 <=> 4 * w - 4 >= 20
      BY <1>0
    <3> HIDE DEF w, b
    <3> QED BY <1>2, <3>1 DEF ReportFits, w, b
  <2> HIDE DEF w, b
  <2>3. w >= 1 /\ 24 * b <= 4 * w - 4 <=> w >= 6 * b + 1
    BY <1>0
  <2> QED BY <2>1, <2>2, <2>3 DEF w
<1>3. CASE h.pt \notin {SR, RR}
  <2>1. Needs(h) = 1
    BY <1>3 DEF Needs
  <2> QED BY <1>3, <2>1 DEF ReportFits
<1> QED BY <1>1, <1>2, <1>3

(* What the walk meets are headers of the packet.                          *)
LEMMA MetAreHeads ==
  ASSUME NEW p, IsPacket(p)
  PROVE  \A pos \in 0 .. p.size : From(p)[pos].met \in Seq(p.heads)
<1> DEFINE I == {n \in Nat : n <= p.size /\ From(p)[p.size - n].met \notin Seq(p.heads)}
<1>0. p.size \in Nat
  BY DEF IsPacket
<1>1. ASSUME NEW n \in I
      PROVE  \E m \in I : m < n
  <2> DEFINE pos == p.size - n
  <2>1. pos \in 0 .. p.size /\ pos \in Nat
    BY <1>0
  <2>2. From(p)[pos] = Meet(p, From(p), pos) /\ From(p)[pos].met \notin Seq(p.heads)
    BY <2>1, Walks
  <2> HIDE DEF pos
  <2>3. Here(p, pos) # {}
    <3>1. <<>> \in Seq(p.heads)
      OBVIOUS
    <3>2. Here(p, pos) = {} => From(p)[pos].met = <<>>
      BY <2>2 DEF Meet
    <3> QED BY <2>2, <3>1, <3>2
  <2> DEFINE h == CHOOSE x \in Here(p, pos) : TRUE
  <2>4. h \in Here(p, pos)
    BY <2>3
  <2>14. From(p)[pos] = IF EndOf(h) = p.size THEN [ok |-> TRUE, met |-> <<h>>]
                        ELSE IF p.size - EndOf(h) < 4
                        THEN [ok |-> FALSE, met |-> <<h>>]
                        ELSE [ok |-> From(p)[EndOf(h)].ok,
                              met |-> <<h>> \o From(p)[EndOf(h)].met]
    BY <2>2, <2>3 DEF Meet
  <2> HIDE DEF h
  <2>5. h \in p.heads /\ EndOf(h) \in Nat /\ pos < EndOf(h) /\ EndOf(h) <= p.size
    BY <2>4, Ends
  <2>6. <<h>> \in Seq(p.heads)
    <3> DEFINE H == p.heads
    <3>1. h \in H
      BY <2>5
    <3> HIDE DEF H
    <3>2. <<h>> \in Seq(H)
      BY <3>1
    <3> QED BY <3>2 DEF H
  <2>7. From(p)[pos].met = <<h>> \o From(p)[EndOf(h)].met
    <3>1. From(p)[pos].met # <<h>>
      BY <2>2, <2>6
    <3> QED BY <2>14, <3>1
  <2>8. From(p)[EndOf(h)].met \notin Seq(p.heads)
    <3> DEFINE H == p.heads
               tail == From(p)[EndOf(h)].met
    <3>1. <<h>> \in Seq(H) /\ <<h>> \o tail \notin Seq(H)
      BY <2>2, <2>6, <2>7
    <3> HIDE DEF H, tail
    <3>2. tail \notin Seq(H)
      BY <3>1
    <3> QED BY <3>2 DEF H, tail
  <2> DEFINE m == p.size - EndOf(h)
  <2>9. m \in Nat /\ m <= p.size /\ m < n /\ p.size - m = EndOf(h)
    BY <1>0, <2>1, <2>5 DEF pos
  <2> HIDE DEF m
  <2> QED BY <2>8, <2>9
<1>2. I = {}
  <2>1. I \subseteq Nat
    OBVIOUS
  <2> HIDE DEF I
  <2> QED BY <1>1, <2>1, NoLeast
<1> SUFFICES ASSUME NEW pos \in 0 .. p.size
             PROVE  From(p)[pos].met \in Seq(p.heads)
  OBVIOUS
<1>3. p.size - pos \in Nat /\ p.size - pos <= p.size /\ p.size - (p.size - pos) = pos
  BY <1>0
<1> QED BY <1>2, <1>3

LEMMA MetBye ==
  ASSUME NEW p, IsPacket(p), MeetsBye(p)
  PROVE  \E h \in p.heads : h.pt = BYE
<1>1. PICK i \in 1 .. Len(Walk(p).met) : Walk(p).met[i].pt = BYE
  BY DEF MeetsBye
<1>2. Walk(p).met \in Seq(p.heads)
  <2>1. 0 \in 0 .. p.size
    BY DEF IsPacket
  <2>2. From(p)[0].met \in Seq(p.heads)
    BY <2>1, MetAreHeads
  <2>3. <<>> \in Seq(p.heads)
    OBVIOUS
  <2> QED BY <2>2, <2>3, WalkIsFrom
<1> QED BY <1>1, <1>2

(* The walk from pos on cuts the rest of the packet up.                    *)
CutsFrom(p, pos, parts) ==
  /\ parts \subseteq p.heads
  /\ \E h \in parts : h.pos = pos /\ h \in Here(p, pos)
  /\ \A h \in parts :
       /\ h.pos >= pos
       /\ h.version = 2 \/ h.pos = 0
       /\ h.words >= Needs(h)
       /\ EndOf(h) = p.size \/ \E next \in parts : next.pos = EndOf(h)
  /\ \A g, h \in parts : g = h \/ EndOf(g) <= h.pos \/ EndOf(h) <= g.pos

LEMMA WalkCuts ==
  ASSUME NEW p, IsPacket(p)
  PROVE  \A pos \in 0 .. p.size :
           From(p)[pos].ok => \E parts \in SUBSET p.heads : CutsFrom(p, pos, parts)
<1> DEFINE I == {n \in Nat : /\ n <= p.size
                             /\ From(p)[p.size - n].ok
                             /\ ~\E parts \in SUBSET p.heads : CutsFrom(p, p.size - n, parts)}
<1>0. p.size \in Nat
  BY DEF IsPacket
<1>1. ASSUME NEW n \in I
      PROVE  \E m \in I : m < n
  <2> DEFINE pos == p.size - n
  <2>1. pos \in 0 .. p.size /\ pos \in Nat
    BY <1>0
  <2>2. From(p)[pos] = Meet(p, From(p), pos) /\ From(p)[pos].ok
        /\ ~\E parts \in SUBSET p.heads : CutsFrom(p, pos, parts)
    BY <2>1, Walks
  <2> HIDE DEF pos
  <2>3. Here(p, pos) # {}
    BY <2>2 DEF Meet
  <2> DEFINE h == CHOOSE x \in Here(p, pos) : TRUE
  <2>4. h \in Here(p, pos)
    BY <2>3
  <2>15. From(p)[pos] = IF EndOf(h) = p.size THEN [ok |-> TRUE, met |-> <<h>>]
                       ELSE IF p.size - EndOf(h) < 4
                       THEN [ok |-> FALSE, met |-> <<h>>]
                       ELSE [ok |-> From(p)[EndOf(h)].ok,
                             met |-> <<h>> \o From(p)[EndOf(h)].met]
    BY <2>2, <2>3 DEF Meet
  <2> HIDE DEF h
  <2>5. h \in p.heads /\ h.pos = pos /\ EndOf(h) \in Nat /\ pos < EndOf(h) /\ EndOf(h) <= p.size
    BY <2>4, Ends
  <2>6. h.words >= Needs(h) /\ (h.version = 2 \/ h.pos = 0)
    <3>1. h.words \in Nat /\ Len(h.blocks) \in Nat
      BY <2>5 DEF IsPacket
    <3>2. h.words >= 1 /\ ReportFits(h) /\ (h.version = 2 \/ h.pos = 0)
      BY <2>4, <2>5 DEF Here, SubPacketOk
    <3> QED BY <3>1, <3>2, FitsNeeds
  <2>7. EndOf(h) # p.size
    <3> SUFFICES ASSUME EndOf(h) = p.size PROVE FALSE
      OBVIOUS
    <3>1. CutsFrom(p, pos, {h})
      BY <2>1, <2>4, <2>5, <2>6 DEF CutsFrom
    <3> QED BY <2>2, <2>5, <3>1
  <2>8. From(p)[EndOf(h)].ok
    BY <2>2, <2>7, <2>15
  <2> DEFINE m == p.size - EndOf(h)
  <2>9. m \in Nat /\ m <= p.size /\ m < n /\ p.size - m = EndOf(h)
    BY <1>0, <2>1, <2>5 DEF pos
  <2> HIDE DEF m
  <2>10. ASSUME NEW parts \in SUBSET p.heads, CutsFrom(p, EndOf(h), parts)
         PROVE  FALSE
    <3>1. \A g \in parts : g \in p.heads /\ g.pos \in Nat /\ g.pos >= EndOf(h) /\ g.pos >= pos
      BY <2>1, <2>5, <2>10 DEF CutsFrom, IsPacket
    <3>2. CutsFrom(p, pos, parts \cup {h})
      <4>1. parts \cup {h} \subseteq p.heads
        BY <2>5
      <4>2. \E g \in parts \cup {h} : g.pos = pos /\ g \in Here(p, pos)
        BY <2>4, <2>5
      <4>3. ASSUME NEW g \in parts \cup {h}
            PROVE  /\ g.pos >= pos
                   /\ g.version = 2 \/ g.pos = 0
                   /\ g.words >= Needs(g)
                   /\ EndOf(g) = p.size \/ \E next \in parts \cup {h} : next.pos = EndOf(g)
        <5>1. CASE g = h
          <6>1. \E next \in parts : next.pos = EndOf(h)
            BY <2>10 DEF CutsFrom
          <6> QED BY <2>1, <2>5, <2>6, <5>1, <6>1
        <5>2. CASE g # h
          BY <2>10, <3>1, <5>2 DEF CutsFrom
        <5> QED BY <5>1, <5>2
      <4>4. ASSUME NEW f \in parts \cup {h}, NEW g \in parts \cup {h}
            PROVE  f = g \/ EndOf(f) <= g.pos \/ EndOf(g) <= f.pos
        BY <2>5, <2>10, <3>1 DEF CutsFrom
      <4> QED BY <4>1, <4>2, <4>3, <4>4 DEF CutsFrom
    <3> QED BY <2>2, <2>5, <3>2
  <2> QED BY <2>8, <2>9, <2>10
<1>2. I = {}
  <2>1. I \subseteq Nat
    OBVIOUS
  <2> HIDE DEF I
  <2> QED BY <1>1, <2>1, NoLeast
<1> SUFFICES ASSUME NEW pos \in 0 .. p.size, From(p)[pos].ok
             PROVE  \E parts \in SUBSET p.heads : CutsFrom(p, pos, parts)
  OBVIOUS
<1>3. p.size - pos \in Nat /\ p.size - pos <= p.size /\ p.size - (p.size - pos) = pos
  BY <1>0
<1> QED BY <1>2, <1>3

(* Where a packet can be cut, the walk gets on.                            *)
LEMMA CutsWalk ==
  ASSUME NEW p, IsPacket(p), NEW parts \in SUBSET p.heads, Cuts(p, parts)
  PROVE  \A h \in parts : From(p)[h.pos].ok
<1> DEFINE I == {n \in Nat : \E h \in parts : n = p.size - h.pos /\ ~From(p)[h.pos].ok}
<1>0. p.size \in Nat
  BY DEF IsPacket
<1>1. ASSUME NEW n \in I
      PROVE  \E m \in I : m < n
  <2>1. PICK h \in parts : n = p.size - h.pos /\ ~From(p)[h.pos].ok
    OBVIOUS
  <2>2. /\ h \in p.heads /\ h.pos \in Nat /\ h.pos + 4 <= p.size
        /\ h.words \in Nat /\ Len(h.blocks) \in Nat
    BY DEF IsPacket
  <2>3. EndOf(h) \in Nat /\ h.pos < EndOf(h)
    BY <2>2 DEF EndOf
  <2>4. h.version = 2 /\ h.words >= 1 /\ ReportFits(h)
    <3>1. h.version = 2 /\ h.words >= Needs(h)
      BY DEF Cuts
    <3> QED BY <2>2, <3>1, FitsNeeds
  <2>5. EndOf(h) = p.size \/ \E next \in parts : next.pos = EndOf(h)
    BY DEF Cuts
  <2>6. EndOf(h) <= p.size
    BY <1>0, <2>5 DEF IsPacket
  <2>7. h \in Here(p, h.pos)
    <3>1. SubPacketOk(p, h)
      BY <1>0, <2>2, <2>4, <2>6 DEF SubPacketOk, EndOf
    <3>2. h.pos = 0 => FirstHeader(h)
      <4>1. PICK g \in parts : g.pos = 0 /\ g.padding = 0 /\ g.pt \in {SR, RR}
        BY DEF Cuts
      <4>2. h.pos = 0 => g = h
        BY <4>1 DEF IsPacket
      <4> QED BY <2>4, <4>1, <4>2 DEF FirstHeader
    <3> QED BY <2>2, <2>4, <3>1, <3>2 DEF Here, HeadAt
  <2>8. Here(p, h.pos) = {h}
    BY <2>7, Ends
  <2>9. From(p)[h.pos] = Meet(p, From(p), h.pos)
    <3>1. h.pos \in 0 .. p.size
      BY <1>0, <2>2
    <3> QED BY <3>1, Walks
  <2>10. EndOf(h) # p.size /\ (p.size - EndOf(h) >= 4 => ~From(p)[EndOf(h)].ok)
    <3>1. (CHOOSE x \in {h} : TRUE) = h
      OBVIOUS
    <3>2. From(p)[h.pos] = IF EndOf(h) = p.size THEN [ok |-> TRUE, met |-> <<h>>]
                           ELSE IF p.size - EndOf(h) < 4
                           THEN [ok |-> FALSE, met |-> <<h>>]
                           ELSE [ok |-> From(p)[EndOf(h)].ok,
                                 met |-> <<h>> \o From(p)[EndOf(h)].met]
      BY <2>8, <2>9, <3>1 DEF Meet
    <3>3. EndOf(h) # p.size
      BY <2>1, <3>2
    <3>4. ASSUME p.size - EndOf(h) >= 4
          PROVE  ~From(p)[EndOf(h)].ok
      <4>1. ~(p.size - EndOf(h) < 4)
        BY <1>0, <2>3, <3>4
      <4>2. From(p)[h.pos].ok = From(p)[EndOf(h)].ok
        BY <3>2, <3>3, <4>1
      <4> QED BY <2>1, <4>2
    <3> QED BY <3>3, <3>4
  <2>11. PICK next \in parts : next.pos = EndOf(h)
    BY <2>5, <2>10
  <2>12. next.pos \in Nat /\ next.pos + 4 <= p.size
    BY DEF IsPacket
  <2>13. ~From(p)[next.pos].ok
    BY <1>0, <2>3, <2>10, <2>11, <2>12
  <2> DEFINE m == p.size - next.pos
  <2>14. m \in Nat /\ m < n
    BY <1>0, <2>1, <2>2, <2>3, <2>11, <2>12
  <2> QED BY <2>13, <2>14
<1>2. I = {}
  <2>1. I \subseteq Nat
    OBVIOUS
  <2> HIDE DEF I
  <2> QED BY <1>1, <2>1, NoLeast
<1> SUFFICES ASSUME NEW h \in parts
             PROVE  From(p)[h.pos].ok
  OBVIOUS
<1>3. p.size - h.pos \in Nat
  <2>1. h.pos \in Nat /\ h.pos + 4 <= p.size
    BY DEF IsPacket
  <2> QED BY <1>0, <2>1
<1> QED BY <1>2, <1>3

(* A packet is accepted just when it can be cut up.                        *)
THEOREM AcceptedIsCut ==
  ASSUME NEW p, IsPacket(p)
  PROVE  Accepted(p) <=> \E parts \in SUBSET p.heads : parts # {} /\ Cuts(p, parts)
<1>0. p.size \in Nat /\ 0 \in 0 .. p.size
  BY DEF IsPacket
<1>1. ASSUME Accepted(p)
      PROVE  \E parts \in SUBSET p.heads : parts # {} /\ Cuts(p, parts)
  <2>1. From(p)[0].ok
    BY <1>1, WalkIsFrom DEF Accepted
  <2>2. PICK parts \in SUBSET p.heads : CutsFrom(p, 0, parts)
    BY <1>0, <2>1, WalkCuts
  <2>3. PICK h \in parts : h.pos = 0 /\ h \in Here(p, 0)
    BY <2>2 DEF CutsFrom
  <2>4. FirstHeader(h)
    BY <2>3 DEF Here
  <2>5. \A g \in parts : g.version = 2
    BY <2>2, <2>3, <2>4 DEF CutsFrom, FirstHeader, IsPacket
  <2>6. Cuts(p, parts)
    BY <2>2, <2>3, <2>4, <2>5 DEF Cuts, CutsFrom, FirstHeader
  <2> QED BY <2>3, <2>6
<1>2. ASSUME NEW parts \in SUBSET p.heads, Cuts(p, parts)
      PROVE  Accepted(p)
  <2>1. PICK h \in parts : h.pos = 0
    BY <1>2 DEF Cuts
  <2>2. From(p)[0].ok
    BY <1>2, <2>1, CutsWalk
  <2>3. ~(p.size < 4)
    <3>1. h.pos + 4 <= p.size
      BY DEF IsPacket
    <3> QED BY <1>0, <2>1, <3>1
  <2> QED BY <2>2, <2>3, WalkIsFrom DEF Accepted
<1> QED BY <1>1, <1>2

-----------------------------------------------------------------------------
(* The buffer is a record whose offset is a number, and at one place of it *)
(* is one header at most.                                                  *)
BufferOK(b) ==
  /\ b.offset \in Nat
  /\ b = [offset |-> b.offset, heads |-> b.heads]
  /\ \A h \in b.heads : h.pos \in Nat /\ h.words \in Nat /\ Len(h.blocks) \in Nat
  /\ \A g, h \in b.heads : g.pos = h.pos => g = h

(* What a goroutine puts into its packet behind the report.                *)
TailSize(t) == IF t \in Destroyers THEN 8 ELSE 10 + NameSize
TailHead(t, pos) == IF t \in Destroyers THEN Header(pos, BYE, 1)
                    ELSE Header(pos, SDES, (4 + 2 + NameSize + 1 + 3) \div 4)
AddTail(t, b) == IF t \in Destroyers THEN AddBYE(b) ELSE AddSDES(b)

(* How far a goroutine that is alone has come with its packet.             *)
Built(t, place, b) ==
  /\ place \in {"report", "add"} => b.offset = 0
  /\ place = "add to SR" => b.offset = 28 /\ Header(0, SR, 6) \in b.heads
  /\ place = "send" => b.offset = TailSize(t) /\ TailHead(t, 0) \in b.heads
  /\ place = "send SR" => /\ b.offset = 28 + TailSize(t)
                          /\ Header(0, SR, 6) \in b.heads
                          /\ TailHead(t, 28) \in b.heads

(* A goroutine that has been alone since it began still is, and finds in   *)
(* the buffer what it put there.                                           *)
AloneInv ==
  \A t \in Senders :
    alone[t] /\ at[t] # "idle" =>
      /\ \A u \in Senders : u = t \/ at[u] = "idle"
      /\ Built(t, at[t], outBuf)

(* What it sent is what it built.                                          *)
Whole(sent) ==
  LET p == sent.packet
      start == IF sent.sr THEN 28 ELSE 0
  IN  sent.alone =>
        /\ sent.sr => Header(0, SR, 6) \in p.heads
        /\ sent.bye => Header(start, BYE, 1) \in p.heads
        /\ \E h \in HeadAt(p, start) : h.pt = IF sent.bye THEN BYE ELSE SDES
        /\ p.size = start + IF sent.bye THEN 8 ELSE 10 + NameSize

WireInv == \A sent \in wire : IsPacket(sent.packet) /\ Whole(sent)

(* Whoever reclaims the stream has sent a BYE or is about to, wherever a   *)
(* BYE is seen, and before the socket is closed.                           *)
ByeSent == \E sent \in wire : sent.bye
ByeComing == ByeSent \/ \E t \in Destroyers : at[t] \in {"send", "send SR"}
HasBye(heads) == \E h \in heads : h.pt = BYE

ByeInv ==
  /\ HasBye(outBuf.heads) \/ byeHandled => ByeComing
  /\ \A sent \in wire : HasBye(sent.packet.heads) => ByeComing
  /\ ~open => ByeSent
  /\ \A t \in Destroyers : at[t] \in {"reset", "close"} => ByeSent

IInv == TypeOK /\ BufferOK(outBuf) /\ AloneInv /\ WireInv /\ ByeInv

-----------------------------------------------------------------------------
(* The header h is put behind what is in the buffer.                       *)
Adds(b, size, h, c) ==
  /\ BufferOK(c) /\ c.offset = b.offset + size
  /\ h \in c.heads /\ c.heads \subseteq b.heads \cup {h}
  /\ \A g \in b.heads : g.pos + 4 <= b.offset => g \in c.heads

(* What enqueue does with one header at the offset.                        *)
LEMMA EnqueueAdds ==
  ASSUME NEW b, BufferOK(b), NEW data \in Nat, data >= 4, NEW size \in Nat,
         NEW pt, NEW words \in Nat,
         NEW h, h = Header(b.offset, pt, words),
         NEW c, c = Enqueue(b, data, size, {h})
  PROVE  Adds(b, size, h, c)
<1> DEFINE kept == {g \in b.heads : g.pos + 4 <= b.offset \/ g.pos >= b.offset + data}
<1>1. c.offset = b.offset + size /\ c.heads = kept \cup {h}
      /\ c = [offset |-> c.offset, heads |-> c.heads]
  BY DEF Enqueue
<1>2. h.pos = b.offset /\ h.words = words /\ Len(h.blocks) = 0
  BY DEF Header
<1>3. b.offset \in Nat /\ \A g \in b.heads : g.pos \in Nat /\ g.words \in Nat /\ Len(g.blocks) \in Nat
  BY DEF BufferOK
<1>4. \A g \in kept : g \in b.heads /\ g.pos # h.pos
  BY <1>2, <1>3
<1>5. \A g \in b.heads : g.pos + 4 <= b.offset => g \in kept
  OBVIOUS
<1> HIDE DEF kept
<1>6. BufferOK(c)
  <2>1. c.offset \in Nat
    BY <1>1, <1>3
  <2>2. \A g \in c.heads : g.pos \in Nat /\ g.words \in Nat /\ Len(g.blocks) \in Nat
    <3>1. h.pos \in Nat /\ h.words \in Nat /\ Len(h.blocks) \in Nat
      BY <1>2, <1>3
    <3>2. \A g \in kept : g.pos \in Nat /\ g.words \in Nat /\ Len(g.blocks) \in Nat
      BY <1>3, <1>4
    <3> QED BY <1>1, <3>1, <3>2
  <2>3. \A f, g \in c.heads : f.pos = g.pos => f = g
    <3>1. \A f, g \in kept : f.pos = g.pos => f = g
      BY <1>4 DEF BufferOK
    <3> QED BY <1>1, <1>4, <3>1
  <2> QED BY <1>1, <2>1, <2>2, <2>3 DEF BufferOK
<1> QED BY <1>1, <1>4, <1>5, <1>6 DEF Adds

Appends(b, size, c) ==
  /\ BufferOK(c) /\ c.offset = b.offset + size
  /\ c.heads \subseteq b.heads
  /\ \A g \in b.heads : g.pos + 4 <= b.offset => g \in c.heads

(* What it does with data that begin with no header.                       *)
LEMMA EnqueueAppends ==
  ASSUME NEW b, BufferOK(b), NEW data \in Nat, NEW size \in Nat,
         NEW c, c = Enqueue(b, data, size, {})
  PROVE  Appends(b, size, c)
<1> DEFINE kept == {g \in b.heads : g.pos + 4 <= b.offset \/ g.pos >= b.offset + data}
<1>1. c = [offset |-> b.offset + size, heads |-> kept]
  BY DEF Enqueue
<1>2. BufferOK(c)
  BY <1>1 DEF BufferOK
<1> QED BY <1>1, <1>2 DEF Appends

LEMMA ReportAdds ==
  ASSUME NEW b, BufferOK(b)
  PROVE  Adds(b, 28, Header(b.offset, SR, 6), AddSR(b))
<1>1. 28 \in Nat /\ 28 >= 4 /\ 6 \in Nat
  OBVIOUS
<1> QED BY <1>1, EnqueueAdds DEF AddSR

(* The SDES or the BYE follows what is there.                              *)
LEMMA TailAdds ==
  ASSUME NEW t \in Senders, NEW b, BufferOK(b),
         NEW h, h = TailHead(t, b.offset), NEW c, c = AddTail(t, b)
  PROVE  Adds(b, TailSize(t), h, c)
<1>1. CASE t \in Destroyers
  <2>1. /\ h = Header(b.offset, BYE, 1) /\ c = Enqueue(b, 8, 8, {h}) /\ TailSize(t) = 8
        /\ 8 \in Nat /\ 8 >= 4 /\ 1 \in Nat
    BY <1>1 DEF AddTail, AddBYE, TailHead, TailSize
  <2> QED BY <2>1, EnqueueAdds
<1>2. CASE t \notin Destroyers
  <2> DEFINE words == (4 + 2 + NameSize + 1 + 3) \div 4
             prefix == Enqueue(b, 8, 8, {h})
  <2>1. NameSize \in Nat
    BY RtcpAssumption
  <2>2. words \in Nat /\ 2 + NameSize \in Nat
    BY <2>1
  <2>3. h = Header(b.offset, SDES, words) /\ h.pos = b.offset
    BY <1>2 DEF TailHead, Header
  <2>4. c = Enqueue(prefix, 2, 2 + NameSize, {}) /\ TailSize(t) = 10 + NameSize
    BY <1>2 DEF AddTail, AddSDES, TailHead, TailSize
  <2> HIDE DEF words
  <2>5. Adds(b, 8, h, prefix)
    <3>1. 8 \in Nat /\ 8 >= 4
      OBVIOUS
    <3> QED BY <2>2, <2>3, <3>1, EnqueueAdds
  <2> HIDE DEF prefix
  <2>6. /\ BufferOK(c) /\ c.offset = prefix.offset + (2 + NameSize)
        /\ c.heads \subseteq prefix.heads
        /\ \A g \in prefix.heads : g.pos + 4 <= prefix.offset => g \in c.heads
    <3>1. 2 \in Nat /\ BufferOK(prefix)
      BY <2>5 DEF Adds
    <3>2. Appends(prefix, 2 + NameSize, c)
      BY <2>2, <2>4, <3>1, EnqueueAppends
    <3> QED BY <3>2 DEF Appends
  <2>7. b.offset \in Nat /\ \A g \in b.heads : g.pos \in Nat
    BY DEF BufferOK
  <2>8. c.offset = b.offset + TailSize(t)
    BY <2>1, <2>4, <2>5, <2>6, <2>7 DEF Adds
  <2>9. h \in c.heads
    BY <2>3, <2>5, <2>6, <2>7 DEF Adds
  <2>10. \A g \in b.heads : g.pos + 4 <= b.offset => g \in c.heads
    BY <2>5, <2>6, <2>7 DEF Adds
  <2> QED BY <2>5, <2>6, <2>8, <2>9, <2>10 DEF Adds
<1> QED BY <1>1, <1>2

(* A buffer's packet.                                                      *)
LEMMA PacketOfBuffer ==
  ASSUME NEW b, BufferOK(b)
  PROVE  IsPacket(Packet(b)) /\ Packet(b).size = b.offset
         /\ Packet(b).heads \subseteq b.heads
         /\ \A h \in b.heads : h.pos + 4 <= b.offset => h \in Packet(b).heads
  BY DEF BufferOK, Packet, IsPacket

-----------------------------------------------------------------------------
Places == {"idle", "report", "add", "add to SR", "send", "send SR", "reset", "close"}

TInv == TypeOK /\ BufferOK(outBuf)

(* A goroutine that is in the middle of a packet may leave anything in the *)
(* buffer: another one has to be idle for it to matter.                    *)
LEMMA BusyStep ==
  ASSUME TInv, NEW t \in Senders,
         NEW to \in {"report", "add", "add to SR", "send", "send SR", "reset"},
         at' = [at EXCEPT ![t] = to], BufferOK(outBuf'),
         alone' \in [Senders -> BOOLEAN], sends' \in 0 .. MaxSends,
         UNCHANGED <<preset, open, byeHandled>>
  PROVE  TInv'
<1>1. /\ at'[t] = to /\ at' \in [Senders -> Places]
      /\ \A u \in Senders : at'[u] = "close" => u \in Destroyers
  BY DEF TInv, TypeOK, Places
<1> QED BY <1>1 DEF TInv, TypeOK, BufferOK, Places

LEMMA SendingIsTyped ==
  ASSUME TInv, NEW t \in Senders, Sending(t)
  PROVE  TInv'
<1> USE DEF TInv
<1>1. CASE Begin(t)
  <2>1. sends \in 0 .. MaxSends /\ sends < MaxSends /\ sends' = sends + 1
    BY <1>1 DEF Begin, TypeOK
  <2>2. sends' \in 0 .. MaxSends
    BY <2>1, RtcpAssumption
  <2>3. \A u \in Senders : (IF u = t THEN Idle = Senders
                            ELSE alone[u] /\ u \in Idle) \in BOOLEAN
    BY Zenon
  <2>4. alone' \in [Senders -> BOOLEAN]
    BY <1>1, <2>3, Zenon DEF Begin
  <2>5. BufferOK(outBuf')
    BY <1>1 DEF Begin
  <2> QED BY <1>1, <2>2, <2>4, <2>5, BusyStep DEF Begin
<1>2. CASE Report(t)
  <2>1. BufferOK(outBuf')
    BY <1>2, ReportAdds DEF Report, AddReport, Adds
  <2> QED BY <1>2, <2>1, BusyStep DEF Report, TypeOK
<1>3. CASE Add(t)
  <2>1. outBuf' = AddTail(t, outBuf)
    BY <1>3 DEF Add, AddTail
  <2>2. BufferOK(outBuf')
    BY <2>1, TailAdds DEF Adds
  <2> QED BY <1>3, <2>2, BusyStep DEF Add, Added, TypeOK
<1>4. CASE Send(t)
  <2>1. BufferOK(outBuf')
    BY <1>4 DEF Send
  <2> QED BY <1>4, <2>1, BusyStep DEF Send, TypeOK
<1>5. CASE Reset(t)
  <2>1. outBuf'.offset = 0 /\ BufferOK(outBuf')
    BY <1>5 DEF Reset, BufferOK
  <2>2. /\ at' \in [Senders -> Places]
        /\ \A u \in Senders : at'[u] = "close" => u \in Destroyers
    BY <1>5 DEF Reset, TypeOK, Places
  <2>3. UNCHANGED <<alone, preset, open, sends, byeHandled>>
    BY <1>5 DEF Reset
  <2>4. TypeOK'
    <3>1. /\ alone' \in [Senders -> BOOLEAN]
          /\ preset' \in BOOLEAN /\ open' \in BOOLEAN /\ byeHandled' \in BOOLEAN
          /\ sends' \in 0 .. MaxSends
      BY <2>3 DEF TypeOK
    <3>2. outBuf'.offset \in Nat
      BY <2>1
    <3> QED BY <2>1, <2>2, <3>1, <3>2 DEF TypeOK, Places
  <2> QED BY <2>1, <2>4
<1>6. CASE CloseSocket(t)
  <2>1. BufferOK(outBuf') /\ outBuf' = outBuf
    BY <1>6 DEF CloseSocket
  <2> QED BY <1>6, <2>1 DEF CloseSocket, TypeOK
<1> QED BY <1>1, <1>2, <1>3, <1>4, <1>5, <1>6 DEF Sending

-----------------------------------------------------------------------------
(* Beside a goroutine at work, none that is alone is at work.              *)
LEMMA AloneStep ==
  ASSUME TInv, AloneInv, NEW t \in Senders, at[t] # "idle",
         NEW to, at' = [at EXCEPT ![t] = to], alone' = alone,
         alone[t] /\ to # "idle" /\ Built(t, at[t], outBuf) => Built(t, to, outBuf')
  PROVE  AloneInv'
<1>1. at \in [Senders -> Places] /\ at'[t] = to /\ \A u \in Senders : u = t \/ at'[u] = at[u]
  BY DEF TInv, TypeOK, Places
<1> SUFFICES ASSUME NEW u \in Senders, alone[u], at'[u] # "idle"
             PROVE  /\ \A v \in Senders : v = u \/ at'[v] = "idle"
                    /\ Built(u, at'[u], outBuf')
  BY DEF AloneInv
<1>2. u = t
  BY <1>1 DEF AloneInv
<1>3. (\A v \in Senders : v = t \/ at[v] = "idle") /\ Built(t, at[t], outBuf)
  BY <1>2 DEF AloneInv
<1> QED BY <1>1, <1>2, <1>3

LEMMA HeaderAt ==
  ASSUME NEW t
  PROVE  \A pos : /\ TailHead(t, pos).pos = pos
                  /\ Header(pos, SR, 6).pos = pos /\ Header(pos, SR, 6).words = 6
                  /\ Header(pos, SR, 6).pt = SR
                  /\ t \in Destroyers => TailHead(t, pos) = Header(pos, BYE, 1)
                                         /\ TailHead(t, pos).pt = BYE
                  /\ t \notin Destroyers => TailHead(t, pos).pt = SDES
  BY DEF TailHead, Header

LEMMA AloneKeeps ==
  ASSUME TInv, AloneInv, NEW t \in Senders, Sending(t)
  PROVE  AloneInv'
<1>1. CASE Begin(t)
  <2>1. /\ at \in [Senders -> Places] /\ at'[t] = "report" /\ at[t] = "idle"
        /\ \A u \in Senders : u = t \/ at'[u] = at[u]
        /\ outBuf' = outBuf
    BY <1>1 DEF Begin, TInv, TypeOK, Places
  <2>2. alone'[t] => Idle = Senders
    BY <1>1, Zenon DEF Begin
  <2>3. \A u \in Senders : u # t /\ alone'[u] => u \in Idle
    BY <1>1, Zenon DEF Begin
  <2>4. (\A u \in Senders : at[u] = "idle") => outBuf.offset = 0
    BY DEF TInv, TypeOK
  <2> SUFFICES ASSUME NEW u \in Senders, alone'[u], at'[u] # "idle"
               PROVE  /\ \A v \in Senders : v = u \/ at'[v] = "idle"
                      /\ Built(u, at'[u], outBuf')
    BY DEF AloneInv
  <2>5. u = t
    BY <2>1, <2>3 DEF Idle
  <2>6. \A v \in Senders : at[v] = "idle"
    BY <2>2, <2>5 DEF Idle
  <2> QED BY <2>1, <2>4, <2>5, <2>6 DEF Built
<1>2. CASE Report(t)
  <2>1. CASE preset
    <3>1. outBuf' = outBuf /\ at' = [at EXCEPT ![t] = "add"] /\ alone' = alone /\ at[t] = "report"
      BY <1>2, <2>1 DEF Report, AddReport
    <3>2. Built(t, at[t], outBuf) => Built(t, "add", outBuf')
      BY <3>1 DEF Built
    <3> QED BY <3>1, <3>2, AloneStep
  <2>2. CASE ~preset
    <3>1. outBuf' = AddSR(outBuf) /\ at' = [at EXCEPT ![t] = "add to SR"] /\ alone' = alone /\ at[t] = "report"
      BY <1>2, <2>2 DEF Report, AddReport
    <3>2. Adds(outBuf, 28, Header(outBuf.offset, SR, 6), outBuf')
      BY <3>1, ReportAdds DEF TInv
    <3>3. Built(t, at[t], outBuf) => Built(t, "add to SR", outBuf')
      <4> SUFFICES ASSUME Built(t, at[t], outBuf) PROVE Built(t, "add to SR", outBuf')
        OBVIOUS
      <4>1. outBuf.offset = 0
        BY <3>1 DEF Built
      <4>2. outBuf'.offset = 28 /\ Header(0, SR, 6) \in outBuf'.heads
        BY <3>2, <4>1 DEF Adds
      <4> QED BY <4>2 DEF Built
    <3> QED BY <3>1, <3>3, AloneStep
  <2> QED BY <2>1, <2>2
<1>3. CASE Add(t)
  <2>1. outBuf' = AddTail(t, outBuf) /\ at' = [at EXCEPT ![t] = Added(t)] /\ alone' = alone
        /\ at[t] \in {"add", "add to SR"}
    BY <1>3 DEF Add, AddTail
  <2>2. Adds(outBuf, TailSize(t), TailHead(t, outBuf.offset), outBuf')
    BY <2>1, TailAdds DEF TInv
  <2>3. ASSUME Built(t, at[t], outBuf)
        PROVE  Built(t, Added(t), outBuf')
    <3>1. CASE at[t] = "add"
      <4>1. outBuf.offset = 0 /\ Added(t) = "send"
        BY <2>3, <3>1 DEF Built, Added
      <4>2. outBuf'.offset = 0 + TailSize(t) /\ TailHead(t, 0) \in outBuf'.heads
        BY <2>2, <4>1 DEF Adds
      <4>3. TailSize(t) \in Nat
        <5>1. NameSize \in Nat
          BY RtcpAssumption
        <5> QED BY <5>1 DEF TailSize
      <4> QED BY <4>1, <4>2, <4>3 DEF Built
    <3>2. CASE at[t] = "add to SR"
      <4>1. outBuf.offset = 28 /\ Added(t) = "send SR" /\ Header(0, SR, 6) \in outBuf.heads
        BY <2>3, <3>2 DEF Built, Added
      <4>2. Header(0, SR, 6).pos + 4 <= outBuf.offset
        <5>1. Header(0, SR, 6).pos = 0
          BY HeaderAt
        <5>2. 0 + 4 <= 28
          OBVIOUS
        <5> QED BY <4>1, <5>1, <5>2, Zenon
      <4>3. outBuf'.offset = 28 + TailSize(t) /\ TailHead(t, 28) \in outBuf'.heads
            /\ Header(0, SR, 6) \in outBuf'.heads
        BY <2>2, <4>1, <4>2 DEF Adds
      <4> QED BY <4>1, <4>3 DEF Built
    <3> QED BY <2>1, <3>1, <3>2
  <2> QED BY <2>1, <2>3, AloneStep
<1>4. CASE Send(t)
  <2>1. Built(t, "reset", outBuf')
    BY DEF Built
  <2> QED BY <1>4, <2>1, AloneStep DEF Send
<1>5. CASE Reset(t)
  <2> DEFINE to == IF t \in Destroyers THEN "close" ELSE "idle"
  <2>1. Built(t, to, outBuf')
    BY DEF Built
  <2>2. at' = [at EXCEPT ![t] = to] /\ alone' = alone /\ at[t] # "idle"
    BY <1>5 DEF Reset
  <2> HIDE DEF to
  <2> QED BY <2>1, <2>2, AloneStep
<1>6. CASE CloseSocket(t)
  <2>1. Built(t, "idle", outBuf')
    BY DEF Built
  <2> QED BY <1>6, <2>1, AloneStep DEF CloseSocket
<1> QED BY <1>1, <1>2, <1>3, <1>4, <1>5, <1>6 DEF Sending

-----------------------------------------------------------------------------
(* Meet, once it is known which header is there.                           *)
LEMMA MeetOne ==
  ASSUME NEW p, IsPacket(p), NEW pos \in 0 .. p.size, NEW h \in Here(p, pos)
  PROVE  From(p)[pos] = IF EndOf(h) = p.size THEN [ok |-> TRUE, met |-> <<h>>]
                        ELSE IF p.size - EndOf(h) < 4
                        THEN [ok |-> FALSE, met |-> <<h>>]
                        ELSE [ok |-> From(p)[EndOf(h)].ok,
                              met |-> <<h>> \o From(p)[EndOf(h)].met]
<1>1. Here(p, pos) = {h}
  BY Ends
<1>2. (CHOOSE x \in {h} : TRUE) = h
  OBVIOUS
<1>3. From(p)[pos] = Meet(p, From(p), pos)
  BY Walks
<1> QED BY <1>1, <1>2, <1>3 DEF Meet

(* A BYE behind a report is accepted and seen.                             *)
LEMMA ByeBehindReport ==
  ASSUME NEW p, IsPacket(p), p.size = 36,
         Header(0, SR, 6) \in p.heads, Header(28, BYE, 1) \in p.heads
  PROVE  Accepted(p) /\ MeetsBye(p)
<1> DEFINE sr == Header(0, SR, 6)
           bye == Header(28, BYE, 1)
<1>1. /\ sr.pos = 0 /\ sr.version = 2 /\ sr.padding = 0 /\ sr.pt = SR /\ sr.words = 6
      /\ Len(sr.blocks) = 0
  BY DEF Header
<1>2. /\ bye.pos = 28 /\ bye.version = 2 /\ bye.pt = BYE /\ bye.words = 1
  BY DEF Header
<1> HIDE DEF sr, bye
<1>3. sr \in p.heads /\ bye \in p.heads
  BY DEF sr, bye
<1>4. bye \in Here(p, 28) /\ EndOf(bye) = 36
  <2>1. EndOf(bye) = 36
    BY <1>2 DEF EndOf
  <2>2. ReportFits(bye)
    BY <1>2 DEF ReportFits, SR, RR, BYE
  <2>3. SubPacketOk(p, bye)
    BY <1>2, <2>2 DEF SubPacketOk
  <2> QED BY <1>2, <1>3, <2>1, <2>3 DEF Here, HeadAt
<1>5. sr \in Here(p, 0) /\ EndOf(sr) = 28
  <2>1. EndOf(sr) = 28
    BY <1>1 DEF EndOf
  <2>2. ReportFits(sr)
    <3>1. sr.words \in Nat /\ Len(sr.blocks) \in Nat /\ Needs(sr) = 6
      BY <1>1 DEF Needs
    <3> QED BY <1>1, <3>1, FitsNeeds
  <2>3. SubPacketOk(p, sr)
    BY <1>1, <2>2 DEF SubPacketOk
  <2>4. FirstHeader(sr)
    BY <1>1 DEF FirstHeader
  <2> QED BY <1>1, <1>3, <2>1, <2>3, <2>4 DEF Here, HeadAt
<1>6. From(p)[28] = [ok |-> TRUE, met |-> <<bye>>]
  <2>1. 28 \in 0 .. p.size
    OBVIOUS
  <2> QED BY <1>4, <2>1, MeetOne
<1>7. From(p)[0] = [ok |-> TRUE, met |-> <<sr>> \o <<bye>>]
  <2>1. 0 \in 0 .. p.size /\ 28 # p.size /\ ~(p.size - 28 < 4)
    OBVIOUS
  <2>2. From(p)[0] = [ok |-> From(p)[28].ok, met |-> <<sr>> \o From(p)[28].met]
    <3>1. EndOf(sr) # p.size /\ ~(p.size - EndOf(sr) < 4)
      BY <1>5, <2>1
    <3>2. From(p)[0] = [ok |-> From(p)[EndOf(sr)].ok, met |-> <<sr>> \o From(p)[EndOf(sr)].met]
      BY <1>5, <2>1, <3>1, MeetOne
    <3> QED BY <1>5, <3>2
  <2> QED BY <1>6, <2>2
<1>8. Walk(p) = From(p)[0]
  BY WalkIsFrom
<1>9. Len(Walk(p).met) = 2 /\ Walk(p).met[2] = bye
  BY <1>7, <1>8
<1> QED BY <1>2, <1>7, <1>8, <1>9 DEF Accepted, MeetsBye

-----------------------------------------------------------------------------
LEMMA WireKeeps ==
  ASSUME TInv, AloneInv, WireInv, NEW t \in Senders, Sending(t)
  PROVE  WireInv'
<1>1. CASE wire' = wire
  BY <1>1 DEF WireInv
<1>2. CASE wire' # wire
  <2> DEFINE new == [packet |-> Packet(outBuf), alone |-> alone[t],
                     bye |-> t \in Destroyers, sr |-> at[t] = "send SR"]
  <2>1. wire' = wire \cup {new} /\ at[t] \in {"send", "send SR"}
    BY <1>2 DEF Sending, Begin, Report, Add, Send, Reset, CloseSocket
  <2>2. /\ new.packet = Packet(outBuf) /\ new.alone = alone[t]
        /\ new.bye = (t \in Destroyers) /\ new.sr = (at[t] = "send SR")
    BY Zenon
  <2> HIDE DEF new
  <2>3. BufferOK(outBuf) /\ outBuf.offset \in Nat
    BY DEF TInv, BufferOK
  <2>4. /\ IsPacket(new.packet) /\ new.packet.size = outBuf.offset
        /\ \A h \in outBuf.heads : h.pos + 4 <= outBuf.offset => h \in new.packet.heads
    BY <2>2, <2>3, PacketOfBuffer
  <2>5. Whole(new)
    <3> SUFFICES ASSUME new.alone PROVE Whole(new)
      BY DEF Whole
    <3>1. Built(t, at[t], outBuf)
      BY <2>1, <2>2 DEF AloneInv
    <3> DEFINE start == IF new.sr THEN 28 ELSE 0
    <3>2. outBuf.offset = start + TailSize(t) /\ TailHead(t, start) \in outBuf.heads
          /\ (new.sr => Header(0, SR, 6) \in outBuf.heads)
      <4>1. CASE at[t] = "send"
        <5>1. TailSize(t) \in Nat
          <6>1. NameSize \in Nat
            BY RtcpAssumption
          <6> QED BY <6>1 DEF TailSize
        <5>2. outBuf.offset = TailSize(t) /\ TailHead(t, 0) \in outBuf.heads /\ ~new.sr
          BY <2>2, <3>1, <4>1 DEF Built
        <5> QED BY <5>1, <5>2
      <4>2. CASE at[t] = "send SR"
        <5>1. outBuf.offset = 28 + TailSize(t) /\ TailHead(t, 28) \in outBuf.heads
              /\ Header(0, SR, 6) \in outBuf.heads /\ new.sr
          BY <2>2, <3>1, <4>2 DEF Built
        <5> QED BY <5>1
      <4> QED BY <2>1, <4>1, <4>2
    <3>3. start \in {0, 28} /\ (new.sr => start = 28)
      OBVIOUS
    <3> HIDE DEF start
    <3>4. TailSize(t) \in Nat /\ TailSize(t) >= 4
      <4>1. NameSize \in Nat
        BY RtcpAssumption
      <4> QED BY <4>1 DEF TailSize
    <3>5. TailHead(t, start) \in new.packet.heads
      <4>1. TailHead(t, start).pos = start
        BY HeaderAt
      <4>2. start + 4 <= outBuf.offset
        BY <3>2, <3>3, <3>4
      <4>3. TailHead(t, start).pos + 4 <= outBuf.offset
        BY <4>1, <4>2, Zenon
      <4> QED BY <2>4, <3>2, <4>3
    <3>6. new.sr => Header(0, SR, 6) \in new.packet.heads
      <4>1. Header(0, SR, 6).pos = 0
        BY HeaderAt
      <4>2. new.sr => 0 + 4 <= outBuf.offset
        BY <3>2, <3>3, <3>4
      <4>3. new.sr => Header(0, SR, 6).pos + 4 <= outBuf.offset
        BY <4>1, <4>2, Zenon
      <4> QED BY <2>4, <3>2, <4>3
    <3>7. new.bye => Header(start, BYE, 1) \in new.packet.heads
      <4>1. t \in Destroyers => TailHead(t, start) = Header(start, BYE, 1)
        BY DEF TailHead
      <4> QED BY <2>2, <3>5, <4>1, Zenon
    <3>8. TailHead(t, start) \in HeadAt(new.packet, start)
      BY <3>5, HeaderAt DEF HeadAt
    <3>9. TailHead(t, start).pt = IF new.bye THEN BYE ELSE SDES
      BY <2>2, HeaderAt
    <3>10. new.packet.size = start + IF new.bye THEN 8 ELSE 10 + NameSize
      BY <2>2, <2>4, <3>2 DEF TailSize
    <3> QED BY <3>6, <3>7, <3>8, <3>9, <3>10 DEF Whole, start
  <2> QED BY <2>1, <2>4, <2>5 DEF WireInv
<1> QED BY <1>1, <1>2

(* What a BYE in the buffer, on the wire or seen by the client says.       *)
LEMMA ByeKeeps ==
  ASSUME TInv, ByeInv, NEW t \in Senders, Sending(t)
  PROVE  ByeInv'
<1>0. at \in [Senders -> Places]
  BY DEF TInv, TypeOK, Places
<1>1. CASE Begin(t) \/ CloseSocket(t) \/ Reset(t)
  <2>1. /\ wire' = wire /\ byeHandled' = byeHandled
        /\ outBuf'.heads = outBuf.heads
        /\ at[t] \notin {"send", "send SR"}
        /\ \A u \in Senders : u = t \/ at'[u] = at[u]
        /\ at'[t] = "close" => at[t] = "reset"
        /\ at'[t] # "reset"
        /\ ~open' => ~open \/ (at[t] = "close" /\ t \in Destroyers)
    <3>1. CASE Begin(t)
      BY <1>0, <3>1 DEF Begin
    <3>2. CASE CloseSocket(t)
      BY <1>0, <3>2 DEF CloseSocket, TInv, TypeOK
    <3>3. CASE Reset(t)
      <4>1. outBuf' = [outBuf EXCEPT !.offset = 0]
        BY <3>3 DEF Reset
      <4>2. outBuf'.heads = outBuf.heads
        BY <4>1 DEF TInv, BufferOK
      <4> QED BY <1>0, <3>3, <4>2 DEF Reset
    <3> QED BY <1>1, <3>1, <3>2, <3>3
  <2>2. ByeSent' = ByeSent
    BY <2>1 DEF ByeSent
  <2>3. ByeComing => ByeComing'
    BY <2>1, <2>2 DEF ByeComing, Senders
  <2>4. HasBye(outBuf'.heads) = HasBye(outBuf.heads)
    BY <2>1
  <2> QED BY <2>1, <2>2, <2>3, <2>4 DEF ByeInv, Senders
<1>2. CASE Report(t) \/ Add(t)
  <2>1. /\ wire' = wire /\ byeHandled' = byeHandled /\ open' = open
        /\ at[t] \notin {"send", "send SR"}
        /\ \A u \in Senders : u = t \/ at'[u] = at[u]
        /\ at'[t] \notin {"reset", "close"}
    BY <1>0, <1>2 DEF Report, Add, Added
  <2>2. ByeSent' = ByeSent
    BY <2>1 DEF ByeSent
  <2>3. ByeComing => ByeComing'
    BY <2>1, <2>2 DEF ByeComing, Senders
  <2>4. HasBye(outBuf'.heads) => HasBye(outBuf.heads) \/ ByeComing'
    <3>1. CASE Report(t)
      <4>1. CASE preset
        BY <3>1, <4>1 DEF Report, AddReport
      <4>2. CASE ~preset
        <5>1. outBuf' = AddSR(outBuf)
          BY <3>1, <4>2 DEF Report, AddReport
        <5>2. outBuf'.heads \subseteq outBuf.heads \cup {Header(outBuf.offset, SR, 6)}
          BY <5>1, ReportAdds DEF TInv, Adds
        <5>3. Header(outBuf.offset, SR, 6).pt # BYE
          BY DEF Header, SR, BYE
        <5> QED BY <5>2, <5>3 DEF HasBye
      <4> QED BY <4>1, <4>2
    <3>2. CASE Add(t)
      <4>1. outBuf' = AddTail(t, outBuf)
        BY <3>2 DEF Add, AddTail
      <4>2. outBuf'.heads \subseteq outBuf.heads \cup {TailHead(t, outBuf.offset)}
        BY <4>1, TailAdds DEF TInv, Adds
      <4>3. CASE t \in Destroyers
        <5>1. at'[t] \in {"send", "send SR"}
          BY <1>0, <3>2 DEF Add, Added
        <5> QED BY <4>3, <5>1 DEF ByeComing
      <4>4. CASE t \notin Destroyers
        <5>1. TailHead(t, outBuf.offset).pt # BYE
          BY <4>4 DEF TailHead, Header, SDES, BYE
        <5> QED BY <4>2, <5>1 DEF HasBye
      <4> QED BY <4>3, <4>4
    <3> QED BY <1>2, <3>1, <3>2
  <2> QED BY <2>1, <2>2, <2>3, <2>4 DEF ByeInv, Senders
<1>3. CASE Send(t)
  <2>1. /\ outBuf' = outBuf /\ byeHandled' = byeHandled /\ open' = open
        /\ \A u \in Senders : u = t \/ at'[u] = at[u]
        /\ at'[t] = "reset"
    BY <1>0, <1>3 DEF Send
  <2> DEFINE new == [packet |-> Packet(outBuf), alone |-> alone[t],
                     bye |-> t \in Destroyers, sr |-> at[t] = "send SR"]
  <2>2. wire' = IF open THEN wire \cup {new} ELSE wire
    BY <1>3 DEF Send
  <2>3. new.packet = Packet(outBuf) /\ new.bye = (t \in Destroyers)
    BY Zenon
  <2> HIDE DEF new
  <2>4. ByeSent => ByeSent'
    BY <2>2 DEF ByeSent
  <2>5. t \in Destroyers => ByeSent'
    <3>1. CASE open
      BY <2>2, <2>3, <3>1 DEF ByeSent
    <3>2. CASE ~open
      BY <2>4, <3>2 DEF ByeInv
    <3> QED BY <3>1, <3>2
  <2>6. ByeComing => ByeComing'
    BY <2>1, <2>4, <2>5 DEF ByeComing, Senders
  <2>7. HasBye(new.packet.heads) => HasBye(outBuf.heads)
    BY <2>3, PacketOfBuffer DEF HasBye, TInv
  <2> QED BY <2>1, <2>2, <2>4, <2>5, <2>6, <2>7 DEF ByeInv, Senders
<1> QED BY <1>1, <1>2, <1>3 DEF Sending

-----------------------------------------------------------------------------
LEMMA InitHolds == Init => IInv
<1> SUFFICES ASSUME Init PROVE IInv
  OBVIOUS
<1>1. outBuf.offset = 0 /\ outBuf.heads = {} /\ BufferOK(outBuf)
  BY DEF Init, BufferOK
<1>2. sends \in 0 .. MaxSends
  BY RtcpAssumption DEF Init
<1>3. TypeOK
  BY <1>1, <1>2 DEF Init, TypeOK
<1>4. AloneInv /\ WireInv
  BY DEF Init, AloneInv, WireInv
<1>5. ByeInv
  <2>1. \A t \in Destroyers : at[t] = "idle"
    BY DEF Init, Senders
  <2>2. ~HasBye(outBuf.heads) /\ wire = {} /\ open /\ ~byeHandled
    BY <1>1, Zenon DEF Init, HasBye
  <2> QED BY <2>1, <2>2 DEF ByeInv
<1> QED BY <1>1, <1>3, <1>4, <1>5 DEF IInv

(* A packet in which the client sees a BYE has one.                        *)
LEMMA ReceivedKeeps ==
  ASSUME IInv, ClientReceives
  PROVE  IInv'
<1>1. UNCHANGED <<outBuf, at, alone, preset, open, wire, sends, stats>>
  BY DEF ClientReceives
<1>2. PICK sent \in wire : byeHandled' = (byeHandled \/ (Accepted(sent.packet) /\ MeetsBye(sent.packet)))
  BY DEF ClientReceives
<1>3. byeHandled' \in BOOLEAN
  BY <1>2, Zenon DEF IInv, TypeOK
<1>4. byeHandled' => ByeComing
  <2>1. MeetsBye(sent.packet) => HasBye(sent.packet.heads)
    BY MetBye DEF IInv, WireInv, HasBye
  <2> QED BY <1>2, <2>1 DEF IInv, ByeInv
<1>5. TypeOK'
  BY <1>1, <1>3 DEF IInv, TypeOK
<1>6. AloneInv' /\ WireInv' /\ BufferOK(outBuf)'
  BY <1>1 DEF IInv, AloneInv, WireInv, BufferOK, Built
<1>7. ByeComing' = ByeComing /\ ByeSent' = ByeSent
  BY <1>1 DEF ByeComing, ByeSent
<1>8. ByeInv'
  BY <1>1, <1>4, <1>7 DEF IInv, ByeInv
<1> QED BY <1>5, <1>6, <1>8 DEF IInv

(* What the invariant reads.                                               *)
LEMMA Unread ==
  ASSUME IInv, UNCHANGED <<outBuf, at, alone, open, wire, sends, byeHandled>>, preset' \in BOOLEAN
  PROVE  IInv'
<1>1. TypeOK'
  BY DEF IInv, TypeOK
<1>2. AloneInv' /\ WireInv' /\ BufferOK(outBuf)'
  BY DEF IInv, AloneInv, WireInv, BufferOK, Built
<1>3. ByeComing' = ByeComing /\ ByeSent' = ByeSent
  BY DEF ByeComing, ByeSent
<1>4. ByeInv'
  BY <1>3 DEF IInv, ByeInv
<1> QED BY <1>1, <1>2, <1>4 DEF IInv

LEMMA StepKeeps == IInv /\ [Next]_vars => IInv'
<1> SUFFICES ASSUME IInv, [Next]_vars PROVE IInv'
  OBVIOUS
<1>1. ASSUME NEW t \in Senders, Sending(t)
      PROVE  IInv'
  <2>1. TInv
    BY DEF IInv, TInv
  <2>2. TInv'
    BY <1>1, <2>1, SendingIsTyped
  <2> QED BY <1>1, <2>1, <2>2, AloneKeeps, WireKeeps, ByeKeeps DEF IInv, TInv
<1>2. CASE PresetNextTimestamp \/ ConvertToRTPTimestamp
  BY <1>2, Unread DEF PresetNextTimestamp, ConvertToRTPTimestamp
<1>3. CASE ClientReceives
  BY <1>3, ReceivedKeeps
<1>4. CASE ServerReceives
  BY <1>4, Unread DEF ServerReceives, IInv, TypeOK
<1>5. CASE UNCHANGED vars
  BY <1>5, Unread DEF vars, IInv, TypeOK
<1> QED BY <1>1, <1>2, <1>3, <1>4, <1>5 DEF Next

-----------------------------------------------------------------------------
(* The inductive invariant: what a goroutine that is alone has built, what *)
(* each packet sent is, and that a BYE seen anywhere was sent or is about  *)
(* to be (rtcp_linux_amd64.go).                                            *)
THEOREM Inductive == Spec => []IInv
BY InitHolds, StepKeeps, PTL DEF Spec

(* Every variable has its type, and the buffer that timer, players and     *)
(* destroyers share without a lock is empty whenever none of them is at    *)
(* work on it (sendBuiltPacket).                                           *)
THEOREM TypeCorrect == Spec => []TypeOK
<1>1. IInv => TypeOK
  BY DEF IInv
<1> QED BY <1>1, Inductive, PTL

(* A packet that one goroutine built without another beside it is what its *)
(* code says, a BYE behind a report is accepted and seen, and what the     *)
(* client takes for a BYE was sent as one or is about to be (sendReport,   *)
(* sendBye, processIncomingReport).                                        *)
THEOREM WholePackets == Spec => []AloneIsWhole
<1>1. IInv => AloneIsWhole
  <2> SUFFICES ASSUME IInv PROVE AloneIsWhole
    OBVIOUS
  <2>1. ASSUME NEW sent \in wire, sent.alone
        PROVE  LET p == sent.packet
                   start == IF sent.sr THEN 28 ELSE 0
               IN  /\ sent.sr => \E h \in HeadAt(p, 0) : h.pt = SR /\ EndOf(h) = 28
                   /\ \E h \in HeadAt(p, start) : h.pt = IF sent.bye THEN BYE ELSE SDES
                   /\ p.size = start + IF sent.bye THEN 8 ELSE 10 + NameSize
                   /\ sent.sr /\ sent.bye => Accepted(p) /\ MeetsBye(p)
    <3>1. IsPacket(sent.packet) /\ Whole(sent)
      BY DEF IInv, WireInv
    <3>2. sent.sr => \E h \in HeadAt(sent.packet, 0) : h.pt = SR /\ EndOf(h) = 28
      <4>1. Header(0, SR, 6).pos = 0 /\ Header(0, SR, 6).pt = SR /\ Header(0, SR, 6).words = 6
        BY DEF Header
      <4>2. EndOf(Header(0, SR, 6)) = 28
        BY <4>1 DEF EndOf
      <4>3. sent.sr => Header(0, SR, 6) \in HeadAt(sent.packet, 0)
        BY <2>1, <3>1, <4>1 DEF Whole, HeadAt
      <4> QED BY <4>1, <4>2, <4>3
    <3>3. sent.sr /\ sent.bye => Accepted(sent.packet) /\ MeetsBye(sent.packet)
      <4> SUFFICES ASSUME sent.sr, sent.bye
                   PROVE  Accepted(sent.packet) /\ MeetsBye(sent.packet)
        OBVIOUS
      <4>1. /\ Header(0, SR, 6) \in sent.packet.heads
            /\ Header(28, BYE, 1) \in sent.packet.heads
            /\ sent.packet.size = 36
        BY <2>1, <3>1 DEF Whole
      <4> QED BY <3>1, <4>1, ByeBehindReport
    <3> QED BY <2>1, <3>1, <3>2, <3>3 DEF Whole
  <2> QED BY <2>1 DEF IInv, ByeInv, AloneIsWhole, ByeComing, ByeSent
<1> QED BY <1>1, Inductive, PTL

(* Every packet that either side may receive is accepted just when it can  *)
(* be cut into sub-packets that fill it: what the server's goroutines      *)
(* built, alone or mixed, and what any receiver sends                      *)
(* (processIncomingReport).                                                *)
THEOREM CutPacketsAccepted == Spec => []AcceptsWhatCanBeCut
<1>1. IInv => AcceptsWhatCanBeCut
  <2> SUFFICES ASSUME IInv, NEW p \in {sent.packet : sent \in wire} \cup Foreign
               PROVE  Accepted(p) <=> \E parts \in SUBSET p.heads : parts # {} /\ Cuts(p, parts)
    BY DEF AcceptsWhatCanBeCut
  <2>1. IsPacket(p)
    BY RtcpAssumption DEF IInv, WireInv, IsPacket
  <2> QED BY <2>1, AcceptedIsCut
<1> QED BY <1>1, Inductive, PTL
=============================================================================
