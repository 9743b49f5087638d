------------------------ MODULE ReorderingPacketBuffer ------------------------
(***************************************************************************)
(* ReorderingPacketBuffer of multi_framed_rtp_source_linux_amd64.go: the   *)
(* packets a receiver holds until it is their turn.                        *)
(*                                                                         *)
(* It is a list from headPacket on, linked by nextPacket, and a second     *)
(* pointer, tailPacket, that new packets are appended to.  The two do not  *)
(* always belong together, so that a buffer is                             *)
(*   list      the packets reachable from headPacket                       *)
(*   tail      the number of tailPacket, or NoTail: it is nil              *)
(*   at        where in the list tailPacket is; 0: it is not reachable     *)
(*   expected  nextExpectedSeqNo, which is never reduced to 16 bits        *)
(*   seen      haveSeenFirstPacket                                         *)
(* A packet has the fields seq and first (firstPacketFlag) and others that *)
(* the buffer does not look at.                                            *)
(***************************************************************************)
EXTENDS SeqNum, Sequences, SequencesExt

NoTail == SeqSpace

EmptyBuffer == [list |-> <<>>, tail |-> NoTail, at |-> 0,
                expected |-> 0, seen |-> FALSE]

ResetHaveSeenFirstPacket(b) == [b EXCEPT !.seen = FALSE]

(* The first packet decides which number is expected.                      *)
NoteFirst(b, p) ==
  IF b.seen THEN b ELSE [b EXCEPT !.expected = p.seq, !.seen = TRUE]

(* The only packet: what the list held is no longer reachable.             *)
StoreAlone(b, p) == [b EXCEPT !.list = <<p>>, !.tail = p.seq, !.at = 1]

(* tailPacket.nextPacket = packet, wherever tailPacket is.                 *)
StoreLast(b, p) ==
  [b EXCEPT !.list = IF b.at = 0 THEN @ ELSE Append(SubSeq(@, 1, b.at), p),
            !.tail = p.seq,
            !.at = IF @ = 0 THEN 0 ELSE @ + 1]

(* Where the search from the head stops: at a packet that is later or has  *)
(* the same number, or behind the last one.                                *)
Stops(b, p) ==
  {i \in 1 .. Len(b.list) :
     SeqNumLT(p.seq, b.list[i].seq) \/ p.seq = b.list[i].seq}

Position(b, p) ==
  IF Stops(b, p) = {} THEN Len(b.list) + 1
  ELSE CHOOSE i \in Stops(b, p) : \A j \in Stops(b, p) : i <= j

(* Mutant: no duplicate is found.                                          *)
DuplicateNone(b, p) == FALSE

Duplicate(b, p) ==
  LET i == Position(b, p) IN i <= Len(b.list) /\ b.list[i].seq = p.seq

StoreBefore(b, p) ==
  LET i == Position(b, p)
  IN  [b EXCEPT !.list = InsertAt(@, i, p), !.at = IF @ >= i THEN @ + 1 ELSE @]

(* Mutant: late packets are stored.                                        *)
RejectedSame(b, p) ==
  b.tail # NoTail /\ ~SeqNumLT(b.tail, p.seq) /\ (p.seq = b.tail \/ Duplicate(b, p))

(* The packet is not stored: it comes too late, or a second time.          *)
Rejected(b, p) ==
  \/ SeqNumLT(p.seq, b.expected)
  \/ b.tail # NoTail /\ ~SeqNumLT(b.tail, p.seq)
       /\ (p.seq = b.tail \/ Duplicate(b, p))

StorePacket(b0, p0) ==
  LET b == NoteFirst(b0, p0)
      p == [p0 EXCEPT !.first = ~b0.seen]
  IN  IF Rejected(b, p) THEN b
      ELSE IF b.tail = NoTail THEN StoreAlone(b, p)
      ELSE IF SeqNumLT(b.tail, p.seq) THEN StoreLast(b, p)
      ELSE StoreBefore(b, p)

(* getNextCompletedPacket: the head, when its number is the expected one,  *)
(* or when it was received longer than thresholdTime ago (old).            *)
HeadExpected(b) == b.list # <<>> /\ Head(b.list).seq = b.expected
Completed(b, old) == HeadExpected(b) \/ (b.list # <<>> /\ old)

(* Mutant: the numbers before are still waited for.                        *)
GiveUpNothing(b) == b

(* What lies before the head is given up.                                  *)
GiveUpEarlier(b) == [b EXCEPT !.expected = Head(b.list).seq]

ReleaseUsedPacket(b) ==
  [b EXCEPT !.expected = @ + 1,
            !.list = Tail(@),
            !.tail = IF Len(b.list) > 1 THEN NoTail ELSE @,
            !.at = 0]
=============================================================================
