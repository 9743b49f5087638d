------------------------------ MODULE MediaPath ------------------------------
(***************************************************************************)
(* A stream from a sender to the client: the packets of RtpSender, a       *)
(* network that loses, repeats and reorders them, and RtpReceiver.  The    *)
(* sender is dorsvr's own or another server's, whose numbers stay within   *)
(* 16 bits, whose packets hold whatever the receiver distinguishes, and    *)
(* which may begin anew with another SSRC.                                 *)
(***************************************************************************)
EXTENDS RtpSender, RtpReceiver

CONSTANTS
  FirstForeign,   \* numbers the other server may start from
  MaxForeign,     \* bound: the packets it sends under one SSRC
  MaxArrivals     \* bound: the datagrams that arrive, of each peer's

ASSUME PathAssumption ==
  /\ FirstForeign \subseteq Nat /\ MaxForeign \in Nat
  /\ MaxArrivals \in [{"dorsvr", "other"} -> Nat]
  /\ PayloadFormat = PayloadType /\ 1 \in Ssrcs

VARIABLES
  peer,       \* who sends: "dorsvr" or "other"
  foreign,    \* the other server: its current SSRC and its first number
  arrivals    \* how many datagrams have arrived

pathVars == <<peer, foreign, arrivals>>
vars == <<senderVars, receiverVars, pathVars>>

-----------------------------------------------------------------------------
(* Reordering and loss stay below half the space of numbers (and one less, *)
(* for the buffer compares with the number after the latest), or nobody    *)
(* could tell what is late.                                                *)
InWindow(ssrc, ext) ==
  \/ arrived[ssrc] = NoneArrived
  \/ /\ ext - arrived[ssrc].max < Half - 1
     /\ arrived[ssrc].max - ext < Half - 1

(* The number of the i-th packet sent, not reduced to 16 bits.             *)
NumberOf(i) == seqNo - Len(sent) + i - 1

Accepted(packet) == packet[1][2] = PayloadFormat

(* A packet of dorsvr's arrives, for the first time or again.              *)
Arrive(i) ==
  /\ InWindow(1, NumberOf(i))
  /\ IF Accepted(sent[i])
     THEN ReadPacket(1, NumberOf(i), sent[i][2][2],
                     SubSeq(sent[i], RtpHeaderSize + 1, Len(sent[i])))
     ELSE ReadInvalid

(* What the other server's packets hold: nothing, a fragment too short for *)
(* its header, one without data, or data.  Two packets share a timestamp.  *)
ForeignPayload(ext) ==
  CASE ext % 4 = 0 -> <<Nal(3, 1)>>
    [] ext % 4 = 1 -> <<Nal(3, FuA)>>
    [] ext % 4 = 2 -> <<Nal(3, FuA), Fu(0, 0, 1)>>
    [] OTHER       -> <<Nal(2, 24)>>

ForeignArrives(ext) ==
  /\ InWindow(foreign.ssrc, ext)
  /\ ReadPacket(foreign.ssrc, ext, (ext \div 2) % TsMod, ForeignPayload(ext))

Arrival ==
  /\ arrivals < MaxArrivals[peer]
  /\ arrivals' = arrivals + 1
  /\ \/ \E i \in DOMAIN sent : Arrive(i)
     \/ /\ peer = "other"
        /\ \/ \E k \in 0 .. MaxForeign - 1 : ForeignArrives(foreign.first + k)
           \/ ReadInvalid
  /\ UNCHANGED <<senderVars, peer, foreign>>

Send ==
  /\ peer = "dorsvr"
  /\ SenderNext
  /\ UNCHANGED <<receiverVars, pathVars>>

ForeignRestart ==
  /\ peer = "other"
  /\ foreign.ssrc + 1 \in Ssrcs
  /\ \E first \in FirstForeign :
       foreign' = [ssrc |-> foreign.ssrc + 1, first |-> first]
  /\ UNCHANGED <<senderVars, receiverVars, peer, arrivals>>

Init ==
  /\ SenderInit /\ ReceiverInit
  /\ peer \in {"dorsvr", "other"}
  /\ \E first \in FirstForeign : foreign = [ssrc |-> 1, first |-> first]
  /\ arrivals = 0

Next == Send \/ Arrival \/ ForeignRestart

Spec == Init /\ [][Next]_vars

-----------------------------------------------------------------------------
Cells == {"hdr", "ts", "ssrc", "nal", "fu", "data", "zero"}

(* The types of what sender and receiver keep.                             *)
TypeOK ==
  /\ fragmenter.valid \in 1 .. inputBufferSize
  /\ fragmenter.offset \in 1 .. inputBufferSize
  /\ outBuf.start + outBuf.offset \in 0 .. outBuf.limit
  /\ \A i \in DOMAIN outBuf.buff : outBuf.buff[i][1] \in Cells
  /\ seqNo \in Nat /\ source \in BOOLEAN /\ looping \in BOOLEAN
  /\ buffer.expected \in 0 .. SeqSpace /\ buffer.at \in 0 .. Len(buffer.list)
  /\ \A s \in Ssrcs : stats[s].received \in 0 .. MaxArrivals[peer]

(* The fragments of a NAL unit, put together by the receiver's rules, are  *)
(* the unit, and those sent so far a beginning of it: the fragmenter       *)
(* neither loses nor repeats a byte though it writes headers into the      *)
(* buffer it still reads from.  (After a PAUSE it may get more of a unit   *)
(* while it sends it.)                                                     *)
FragmentsMakeUnits ==
  pauses = 0 => \A k \in DOMAIN nals :
    LET whole == FlattenSeq([i \in DOMAIN frames[k] |->
                               SkipSpecialHeader(frames[k][i])])
    IN  IF k < Len(nals) \/ fragmenter.valid = 1 THEN whole = nals[k]
        ELSE IsStrictPrefix(whole, nals[k])

AllFrames == FlattenSeq(frames)

(* The i-th packet ends with the i-th frame, has the next number and no    *)
(* more than the maximal size: no frame is left out, sent twice or sent    *)
(* out of order.  (After a PAUSE a header is left over, and the frame is   *)
(* asked for behind that and the next; a parser that parses again after a  *)
(* second PAUSE delivers it to that place, whatever is there by then.)     *)
PacketsCarryFrames ==
  \A i \in DOMAIN sent :
    /\ i <= Len(AllFrames)
    /\ Len(sent[i]) <= MaxPacketSize
    /\ pauses <= 1 => IsSuffix(AllFrames[i], sent[i])
    /\ sent[i][1][3] = NumberOf(i) % SeqSpace

(* A frame that did not fit into its packet is used for the next, before   *)
(* another one is read, as packFrame says.                                 *)
KeptIsUsed ==
  [][outBuf.overflowSize > 0 /\ outBuf' # outBuf => Len(sent') = Len(sent) + 1]_vars

(* The marker bit is only in packets that end a NAL unit, and it is the    *)
(* last fragment of the unit that ends a picture that gets it: between a   *)
(* unit that ends one and the packet that says so no other unit is read.   *)
Completes(i) ==
  \E k \in DOMAIN nals :
    /\ i = Len(FlattenSeq(SubSeq(frames, 1, k)))
    /\ k < Len(nals) \/ fragmenter.valid = 1

MarkerEndsUnit ==
  /\ \A i \in DOMAIN sent : sent[i][1][4] = 1 => Completes(i)
  /\ pictureEndMarker /\ outBuf.overflowSize = 0 => fragmenter.valid > 1

(* The highest extended number is that of the latest packet however they   *)
(* came in, until its 32 bits are used up: a wrap of the 16 bits is        *)
(* counted once, and a late packet from before it does not count another.  *)
HighestIsLatest ==
  \A s \in Ssrcs :
    arrived[s] # NoneArrived /\ arrived[s].max - arrived[s].first <= ExtMod - 2 * SeqSpace =>
    stats[s].highest - (SeqSpace + (arrived[s].first % SeqSpace))
      = arrived[s].max - arrived[s].first

(* How far the order of a list reaches that compares 16-bit numbers and is *)
(* not emptied when another sender takes over: one sender, and less than   *)
(* half of the numbers.  (A packet may wait for ever: one with data stays  *)
(* the head.  Those of the next round of numbers go in between.)           *)
OneRange == foreign.ssrc = 1 /\ arrived[1].max - arrived[1].min < Half - 1

(* The packets that wait are in the order of their numbers and none waits  *)
(* twice, however they came in.                                            *)
ListInOrder ==
  OneRange => \A i, j \in DOMAIN buffer.list :
                i < j => buffer.list[i].ext < buffer.list[j].ext

(* No frame is delivered after a later one: late and repeated packets are  *)
(* dropped, or wait behind the head.                                       *)
DeliveredForward ==
  [][OneRange' /\ frame # NoFrame => frame'.ext >= frame.ext]_vars

(* A packet that waits holds what the sender put in it, and one that was   *)
(* used the piece of the NAL unit that its reader should get: the payload  *)
(* format's header is taken off once, though a packet that has data is     *)
(* used again in every round.  (Said of packets with one header, as        *)
(* before; of the unit, while nobody pauses.  The reader itself gets no    *)
(* byte of it, for use() copies none.)                                     *)
PieceOf(bytes, unit) ==
  \E from \in 1 .. Len(unit) : \E to \in from .. Len(unit) :
    bytes = SubSeq(unit, from, to)
MadeOf(i) ==
  CHOOSE k \in DOMAIN nals :
    Len(FlattenSeq(SubSeq(frames, 1, k - 1))) < i
      /\ i <= Len(FlattenSeq(SubSeq(frames, 1, k)))

WaitingHoldsPieces ==
  peer = "dorsvr" => \A j \in DOMAIN buffer.list :
    LET p == buffer.list[j]
        i == p.ext - NumberOf(1) + 1
    IN  /\ i \in DOMAIN sent
        /\ pauses <= 1 /\ Len(sent[i]) = RtpHeaderSize + Len(AllFrames[i]) =>
             p.payload = IF p.used THEN SkipSpecialHeader(AllFrames[i])
                         ELSE AllFrames[i]
        /\ pauses = 0 /\ p.used => PieceOf(p.payload, nals[MadeOf(i)])

-----------------------------------------------------------------------------
(* DummySink.AfterGettingFrame prints the size it is told as "Received %d  *)
(* bytes.": what the application is told is the size of the frame it gets, *)
(* whose packet is then the head.  (A frame without data is left out.)     *)
ToldItsSize ==
  [][frameSize' # frameSize => frameSize' = Len(Head(buffer'.list).payload)]_vars
=============================================================================
