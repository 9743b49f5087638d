----------------------------- MODULE RtpReceiver -----------------------------
(***************************************************************************)
(* How the client turns datagrams into frames: MultiFramedRTPSource        *)
(* (multi_framed_rtp_source_linux_amd64.go) with the payload format of     *)
(* H264VideoRTPSource.  One goroutine runs networkReadHandler for ever: it *)
(* reads a datagram, checks it, notes it in the statistics, stores it in   *)
(* the reordering buffer and then looks once whether the buffer has a      *)
(* packet to deliver.  A step is one round of that loop.                   *)
(*                                                                         *)
(* DummySink.AfterGettingFrame asks for no further frame, and the source   *)
(* delivers without being asked.  MultiFramedRTPSource's                   *)
(* currentPacketBeginsFrame and currentPacketCompletesFrame are true for   *)
(* ever, for H264VideoRTPSource sets fields of its own with these names:   *)
(* every packet is a frame, and the branch that drops the rest of a        *)
(* fragmented frame after a loss is never taken.  It is left out.          *)
(***************************************************************************)
EXTENDS ReorderingPacketBuffer, ReceptionStats

CONSTANTS
  Ssrcs,           \* who may send: numbers from 1 on
  PayloadFormat    \* rtpPayloadFormat

ASSUME ReceiverAssumption ==
  Ssrcs \subseteq Nat \ {0} /\ PayloadFormat \in Nat

VARIABLES
  buffer,            \* reOrderingBuffer
  lastReceivedSSRC,
  stats,             \* receptionStatsDB.table: a record, or NoStats
  frame,             \* the packet of the frame delivered last, or NoFrame
  frameSize,         \* what the application is told of the size of a frame
  arrived            \* history: the numbers noted of each sender, not
                     \* reduced to 16 bits: [first, min, max], or NoneArrived

receiverVars ==
  <<buffer, lastReceivedSSRC, stats, frame, frameSize, arrived>>

NoStats == [received |-> 0]
NoFrame == [ssrc |-> 0, ext |-> 0]
NoneArrived == [first |-> 0, min |-> 0, max |-> -1]

-----------------------------------------------------------------------------
(* H264VideoRTPSource.processSpecialHeader.  Behind the payload lie zeros. *)

PayloadTypeOf(payload) == IF payload = <<>> THEN 0 ELSE TypeOf(payload[1])
Fragmented(payload) == PayloadTypeOf(payload) \in {FuA, 29}
StartBit(payload) == Len(payload) > 1 /\ payload[2][2] = 1

SpecialHeaderSize(payload) ==
  CASE PayloadTypeOf(payload) = 24           -> 1
    [] PayloadTypeOf(payload) \in {25,26,27} -> 3
    [] Fragmented(payload)                   -> IF StartBit(payload) THEN 1 ELSE 2
    [] OTHER                                 -> 0

ProcessOK(payload) ==
  Fragmented(payload) /\ ~StartBit(payload) => Len(payload) >= 2

(* Mutant: the header of the NAL unit is not put together again.           *)
SkipSpecialHeaderAsIs(payload) ==
  SubSeq(payload, SpecialHeaderSize(payload) + 1, Len(payload))

(* What is left behind the header; in a first fragment the header of the   *)
(* NAL unit is put together again.                                         *)
SkipSpecialHeader(payload) ==
  LET rewritten == IF Fragmented(payload) /\ StartBit(payload)
                   THEN [payload EXCEPT ![2] = Nal(payload[1][2], TypeOf(@))]
                   ELSE payload
  IN  SubSeq(rewritten, SpecialHeaderSize(payload) + 1, Len(payload))

-----------------------------------------------------------------------------
(* doGetNextFrame1 with the buffer b.  The head is older than the          *)
(* threshold only if it was there before this round (old).                 *)

NothingCompleted(b, old) ==
  /\ ~Completed(b, old)
  /\ buffer' = b
  /\ UNCHANGED <<frame, frameSize>>

RejectHeader(b, p) ==
  /\ ~p.used /\ ~ProcessOK(p.payload)
  /\ buffer' = ReleaseUsedPacket(b)
  /\ UNCHANGED <<frame, frameSize>>

(* use() counts the bytes but neither copies nor consumes them: a packet   *)
(* that has any stays at the head and is delivered again and again, and    *)
(* the application's buffer stays empty.  The sizes add up, for only a     *)
(* reader that asks for a frame sets frameSize to 0.                       *)
Deliver(b, p) ==
  LET bytes == IF p.used THEN p.payload ELSE SkipSpecialHeader(p.payload)
  IN  /\ p.used \/ ProcessOK(p.payload)
      /\ frame' = [ssrc |-> p.ssrc, ext |-> p.ext]
      /\ frameSize' = frameSize + Len(bytes)
      /\ buffer' = IF bytes = <<>> THEN ReleaseUsedPacket(b)
                   ELSE [b EXCEPT !.list[1].used = TRUE, !.list[1].payload = bytes]

DoGetNextFrame1(b) ==
  \E old \in BOOLEAN :
    /\ old => /\ b.list # <<>> /\ buffer.list # <<>>
              /\ Head(b.list) = Head(buffer.list)
    /\ \/ NothingCompleted(b, old)
       \/ /\ Completed(b, old)
          /\ LET taken == GiveUpEarlier(b)
             IN  RejectHeader(taken, Head(b.list)) \/ Deliver(taken, Head(b.list))

-----------------------------------------------------------------------------
(* One round of networkReadHandler.                                        *)

(* The read fails, the datagram is shorter than its header, CSRC list,     *)
(* extension or padding make it, or version or payload type are wrong.     *)
ReadInvalid ==
  /\ DoGetNextFrame1(buffer)
  /\ UNCHANGED <<lastReceivedSSRC, stats, arrived>>

Noted(a, ext) ==
  IF a = NoneArrived THEN [first |-> ext, min |-> ext, max |-> ext]
  ELSE [a EXCEPT !.min = IF ext < @ THEN ext ELSE @,
                 !.max = IF ext > @ THEN ext ELSE @]

ReadPacket(ssrc, ext, ts, payload) ==
  LET seq == ext % SeqSpace
      b == IF ssrc = lastReceivedSSRC THEN buffer
           ELSE ResetHaveSeenFirstPacket(buffer)
      s == IF stats[ssrc] = NoStats THEN NewStats(seq, ts) ELSE stats[ssrc]
      p == [ssrc |-> ssrc, seq |-> seq, ext |-> ext, payload |-> payload,
            first |-> FALSE, used |-> FALSE]
  IN  /\ lastReceivedSSRC' = ssrc
      /\ stats' = [stats EXCEPT ![ssrc] = NoteIncomingPacket(s, seq, ts)]
      /\ arrived' = [arrived EXCEPT ![ssrc] = Noted(@, ext)]
      /\ DoGetNextFrame1(StorePacket(b, p))

ReceiverInit ==
  /\ buffer = EmptyBuffer
  /\ lastReceivedSSRC = 0
  /\ stats = [s \in Ssrcs |-> NoStats]
  /\ frame = NoFrame
  /\ frameSize = 0
  /\ arrived = [s \in Ssrcs |-> NoneArrived]
=============================================================================
