------------------------------ MODULE RtpSender ------------------------------
(***************************************************************************)
(* How the server turns NAL units into RTP packets: H264FUAFragmenter      *)
(* (h264_video_rtp_sink.go) cuts a NAL unit into FU-A fragments inside     *)
(* the buffer it was read into, MultiFramedRTPSink puts one frame at a     *)
(* time behind an RTP header in its OutPacketBuffer (media_sink.go), sends *)
(* it and waits until the next one is due.                                 *)
(*                                                                         *)
(* The loop over the packets is one goroutine, and a step of it is what it *)
(* does between two waits.  PAUSE takes the sink's source away while it    *)
(* waits; PLAY gives it back once the loop has ended.  (PLAY while the old *)
(* loop still waits makes two loops: module OnDemandStream.)  The loop is  *)
(* a recursion through the parser, whose calls that had to read the file   *)
(* parse on when it unwinds: after a PAUSE they deliver frames that nobody *)
(* asked for.  Pacing and the durations that decide it are left out.       *)
(***************************************************************************)
EXTENDS SeqNum, Sequences, FiniteSets

CONSTANTS
  MaxPacketSize,   \* ourMaxPacketSize, in cells
  MaxSizes,        \* what OutPacketBufferMaxSize may be when a sink is made
  NalSizes,        \* sizes of NAL units in the file; the fragmenter reads
                   \* over empty ones, which are left out
  PayloadType,     \* _rtpPayloadType
  FirstSeqNos,     \* values of seqNo to start from (OurRandom16)
  MaxNals,         \* bound: the NAL units in the file
  MaxPauses        \* bound: how often the stream is paused

RtpHeaderSize == 3                             \* rtpHeaderSize, in cells
MaxOutput == MaxPacketSize - RtpHeaderSize     \* maxOutputPacketSize

ASSUME SenderAssumption ==
  /\ MaxPacketSize \in Nat /\ MaxPacketSize > 3 * RtpHeaderSize
  /\ MaxSizes \subseteq Nat /\ \A m \in MaxSizes : m > MaxPacketSize
  /\ NalSizes \subseteq Nat \ {0}
  /\ PayloadType \in Nat
  /\ FirstSeqNos \subseteq 0 .. SeqSpace - 1
  /\ MaxNals \in Nat /\ MaxPauses \in Nat

VARIABLES
  inputBufferSize, \* H264FUAFragmenter: the size of inputBuffer
  fragmenter,      \* its buffer, numValidDataBytes, curDataOffset and
                   \* lastFragmentCompletedNALUnit, where the frame it was
                   \* asked for goes and how big it may be, and how much the
                   \* parser has saved since it was asked
  outBuf,          \* OutPacketBuffer
  seqNo,           \* RTPSink.seqNo, a uint32
  timestamp,       \* the presentation time of the frame in hand: its NAL unit
  pictureEndMarker,\* of the framer that the fragmenter reads
  reads,           \* calls of the parser that will parse again
  source,          \* whether MediaSink.Source is not nil
  looping,         \* whether the goroutine that sends is in its loop
  nals,            \* history: the NAL units read, as the fragmenter got them
  frames,          \* history: the frames the fragmenter made of each
  sent,            \* history: the packets that were sent
  pauses           \* how often the stream was paused

senderVars == <<inputBufferSize, fragmenter, outBuf, seqNo, timestamp,
  pictureEndMarker, reads, source, looping, nals, frames, sent, pauses>>

-----------------------------------------------------------------------------
(* H264FUAFragmenter.                                                      *)

(* NAL unit k of n bytes, of one of the types 1 to 23, cut off where the   *)
(* buffer ends.                                                            *)
NalUnit(k, n, saved) ==
  [j \in 1 .. (IF saved + n < inputBufferSize THEN n
               ELSE inputBufferSize - 1 - saved) |->
     IF j = 1 THEN Nal(3, (k % 23) + 1) ELSE Data(k, j)]

(* The parser puts it behind what it saved before.                         *)
AfterGettingNal(f, unit) ==
  LET size == f.saved + Len(unit)
  IN  [f EXCEPT !.buffer = Copy(@, 1 + f.saved, unit, Len(unit)),
                !.valid = @ + size, !.saved = size]

(* The pointers are reset when all of the data was delivered.              *)
Delivered(f) ==
  IF f.offset >= f.valid THEN [f EXCEPT !.valid = 1, !.offset = 1] ELSE f

(* Each case gives the frame delivered and the fragmenter after it.        *)
WholeNal(f) ==
  [frame |-> Slice(f.buffer, 1, f.valid),
   next  |-> [f EXCEPT !.offset = f.valid, !.completed = TRUE]]

FirstFragment(f) ==
  LET first == f.buffer[1]
      b == [f.buffer EXCEPT ![0] = Nal(first[2], FuA),
                            ![1] = Fu(1, 0, TypeOf(first))]
  IN  [frame |-> Slice(b, 0, f.maxSize),
       next  |-> [f EXCEPT !.buffer = b, !.offset = @ + f.maxSize - 1,
                           !.completed = FALSE]]

(* Mutant: the data goes on behind the one byte that a header replaces.    *)
NextFragmentOneHeader(f) ==
  LET left == 2 + f.valid - f.offset
      last == left <= f.maxSize
      n == IF last THEN left ELSE f.maxSize
      header == Fu(0, IF last THEN 1 ELSE f.buffer[1][3], f.buffer[1][4])
      b == [f.buffer EXCEPT ![f.offset - 2] = f.buffer[0],
                            ![f.offset - 1] = header]
  IN  [frame |-> Slice(b, f.offset - 2, f.offset - 2 + n),
       next  |-> [f EXCEPT !.buffer = b, !.offset = @ + n - 1,
                           !.completed = last]]

(* The bytes before the rest of the data were sent, and two of them become *)
(* the headers of this fragment.                                           *)
NextFragment(f) ==
  LET left == 2 + f.valid - f.offset
      last == left <= f.maxSize
      n == IF last THEN left ELSE f.maxSize
      header == Fu(0, IF last THEN 1 ELSE f.buffer[1][3], f.buffer[1][4])
      b == [f.buffer EXCEPT ![f.offset - 2] = f.buffer[0],
                            ![f.offset - 1] = header]
  IN  [frame |-> Slice(b, f.offset - 2, f.offset - 2 + n),
       next  |-> [f EXCEPT !.buffer = b, !.offset = @ + n - 2,
                           !.completed = last]]

Fragment(f) ==
  LET out == IF f.offset # 1 THEN NextFragment(f)
             ELSE IF f.valid - 1 <= f.maxSize THEN WholeNal(f)
             ELSE FirstFragment(f)
  IN  [out EXCEPT !.next = Delivered(@)]

-----------------------------------------------------------------------------
(* OutPacketBuffer.                                                        *)

NewOutPacketBuffer(maxSize) ==
  LET limit == ((maxSize + MaxPacketSize - 1) \div MaxPacketSize) * MaxPacketSize
  IN  [buff |-> [i \in 0 .. limit - 1 |-> Zero], limit |-> limit,
       start |-> 0, offset |-> 0, overflowOffset |-> 0, overflowSize |-> 0]

BytesAvailable(b) == b.limit - (b.start + b.offset)
WouldOverflow(b, n) == b.offset + n > MaxPacketSize

(* enqueue copies all the cells it gets, also those behind the first size. *)
Enqueue(b, cells, size) ==
  LET n == IF size > BytesAvailable(b) THEN BytesAvailable(b) ELSE size
  IN  [b EXCEPT !.buff = Copy(@, b.start + b.offset, cells, Len(cells)),
                !.offset = @ + n]

(* insertWord at a position before the offset.                             *)
InsertWord(b, cell, position) ==
  [b EXCEPT !.buff[b.start + position] = cell]

UseOverflowData(b) ==
  LET from == b.start + b.overflowOffset
  IN  Enqueue(b, Slice(b.buff, from, b.limit), b.overflowSize)

AdjustPacketStart(b, n) ==
  [b EXCEPT !.start = @ + n,
            !.overflowOffset = IF @ >= n THEN @ - n ELSE 0,
            !.overflowSize = IF b.overflowOffset >= n THEN @ ELSE 0]

ResetPacketStart(b) ==
  [b EXCEPT !.overflowOffset = IF b.overflowSize > 0 THEN @ + b.start ELSE @,
            !.start = 0]

-----------------------------------------------------------------------------
(* MultiFramedRTPSink, for a sink that puts one frame in a packet.         *)

(* buildAndSendPacket puts a header behind what the buffer already holds.  *)
(* The timestamp is skipped: the cell keeps what an earlier packet left.   *)
(* seqNo is or-ed into the word, bits above the 16th into the payload type *)
(* (whose low five bits are 0: PayloadType + n stands for the or).         *)
WithHeader(b) ==
  LET word == Hdr(PayloadType + seqNo \div SeqSpace, seqNo % SeqSpace, 0)
      skipped == [Enqueue(b, <<word>>, 1) EXCEPT !.offset = @ + 1]
  IN  Enqueue(skipped, <<Ssrc(1)>>, 1)

(* Where the header just written has its timestamp.                        *)
TimestampPosition(b) == b.offset - 2

(* Mutant: every fragment of the last unit gets the marker bit.            *)
SpecialHandlingEach(b, frame) ==
  LET marked == IF frame.marker
                THEN InsertWord(b, [b.buff[b.start] EXCEPT ![4] = 1], 0) ELSE b
  IN  InsertWord(marked, Ts(frame.time), frame.position)

(* doSpecialFrameHandling: the marker bit goes into the first word of the  *)
(* packet, the timestamp behind the header that was written last.          *)
SpecialHandling(b, frame) ==
  LET marked == IF frame.completed /\ frame.marker
                THEN InsertWord(b, [b.buff[b.start] EXCEPT ![4] = 1], 0) ELSE b
  IN  InsertWord(marked, Ts(frame.time), frame.position)

(* Mutant: without resetOffset.                                            *)
AfterSendingNoReset(b) ==
  IF b.overflowSize > 0 /\ BytesAvailable(b) > b.limit \div 2
  THEN AdjustPacketStart(b, b.offset - RtpHeaderSize)
  ELSE ResetPacketStart(b)

(* sendPacketIfNecessary, what it does to the buffer.                      *)
AfterSending(b) ==
  LET adjusted == IF b.overflowSize > 0 /\ BytesAvailable(b) > b.limit \div 2
                  THEN AdjustPacketStart(b, b.offset - RtpHeaderSize)
                  ELSE ResetPacketStart(b)
  IN  [adjusted EXCEPT !.offset = 0]

(* afterGettingFrame: the frame lies behind the offset of b and goes out.  *)
FrameFits(b, frame) ==
  LET packed == SpecialHandling([b EXCEPT !.offset = @ + frame.size], frame)
  IN  /\ ~WouldOverflow(b, frame.size)
      /\ sent' = Append(sent, Slice(packed.buff, packed.start,
                                    packed.start + packed.offset))
      /\ seqNo' = seqNo + 1
      /\ outBuf' = AfterSending(packed)
      /\ pictureEndMarker' = (frame.marker /\ ~frame.completed)

(* ... or does not fit and is kept for the next packet; the sink cuts up   *)
(* only frames that are too big for any packet, which a fragment is not.   *)
FrameOverflows(b, frame) ==
  /\ WouldOverflow(b, frame.size)
  /\ outBuf' = AfterSending([b EXCEPT !.overflowOffset = b.offset,
                                      !.overflowSize = frame.size])
  /\ pictureEndMarker' = frame.marker
  /\ UNCHANGED <<seqNo, sent>>

AfterGettingFrame(b, frame) == FrameFits(b, frame) \/ FrameOverflows(b, frame)

(* The loop packs the overflow data before it reads on.                    *)
PackOverflow ==
  LET b == WithHeader(outBuf)
  IN  /\ looping /\ outBuf.overflowSize > 0
      /\ AfterGettingFrame(UseOverflowData(b),
           [size |-> outBuf.overflowSize, time |-> timestamp,
            completed |-> fragmenter.completed, marker |-> pictureEndMarker,
            position |-> TimestampPosition(b)])
      /\ UNCHANGED <<inputBufferSize, fragmenter, timestamp, reads, source,
                     looping, nals, frames, pauses>>

(* GetNextFrame: the frame goes behind the header and may fill the packet. *)
Asked(f, b) ==
  LET available == BytesAvailable(b)
  IN  [f EXCEPT !.to = b.start + b.offset, !.saved = 0,
                !.maxSize = IF available < MaxOutput THEN available ELSE MaxOutput]

(* The fragmenter delivers its next frame.                                 *)
PackFragment(b, f, marker, soFar) ==
  LET out == Fragment(f)
      n == Len(out.frame)
  IN  /\ looping /\ outBuf.overflowSize = 0
      /\ fragmenter' = out.next
      /\ frames' = [frames EXCEPT ![Len(nals')] = Append(soFar, out.frame)]
      /\ AfterGettingFrame(
           [b EXCEPT !.buff = Copy(@, f.to, out.frame, n)],
           [size |-> n, time |-> timestamp', completed |-> out.next.completed,
            marker |-> marker, position |-> TimestampPosition(b)])
      /\ UNCHANGED <<inputBufferSize, source, looping, pauses>>

(* It has no data: it reads a NAL unit, for which the parser may have to   *)
(* read the file, and the framer notes when the unit ends a picture.       *)
SendNal(n, ends, more) ==
  LET b == WithHeader(outBuf)
      unit == NalUnit(Len(nals) + 1, n, 0)
  IN  /\ source /\ fragmenter.valid = 1 /\ Len(nals) < MaxNals
      /\ nals = <<>> => more = 1
      /\ reads' = reads + more
      /\ nals' = Append(nals, unit)
      /\ timestamp' = timestamp + 1
      /\ PackFragment(b, AfterGettingNal(Asked(fragmenter, b), unit),
                      pictureEndMarker \/ ends, <<>>)

SendFragment ==
  LET b == WithHeader(outBuf)
  IN  /\ source /\ fragmenter.valid > 1
      /\ UNCHANGED <<nals, timestamp, reads>>
      /\ PackFragment(b, [Asked(fragmenter, b) EXCEPT !.saved = fragmenter.saved],
                      pictureEndMarker, frames[Len(nals)])

(* packFrame finds no source and returns, through all the callers up to    *)
(* the last that read the file.  It parses the next NAL unit, and what the *)
(* parser saved goes to the fragmenter on top of what that has.            *)
ParseAgain(n, ends, more) ==
  LET f == AfterGettingNal(fragmenter,
             NalUnit(Len(nals) + 1, n, fragmenter.saved))
      fresh == fragmenter.valid = 1
  IN  /\ ~source /\ reads > 0 /\ Len(nals) < MaxNals
      /\ f.valid <= inputBufferSize
      /\ reads' = reads - 1 + more
      /\ nals' = IF fresh THEN Append(nals, Slice(f.buffer, 1, f.valid)) ELSE nals
      /\ timestamp' = timestamp + 1
      /\ PackFragment(WithHeader(outBuf), f, pictureEndMarker \/ ends,
                      IF fresh THEN <<>> ELSE frames[Len(nals)])

(* The file has ended, also for a call that parses again:                 *)
(* ourHandlerClosure sends what is packed, nothing, and the loop ends, the *)
(* other calls finding the end as well.                                    *)
OurHandlerClosure ==
  /\ looping /\ outBuf.overflowSize = 0
  /\ IF source THEN fragmenter.valid = 1 ELSE reads > 0
  /\ outBuf' = AfterSending(WithHeader(outBuf))
  /\ looping' = FALSE
  /\ reads' = 0
  /\ UNCHANGED <<inputBufferSize, fragmenter, seqNo, timestamp, source,
                 pictureEndMarker, nals, frames, sent, pauses>>

(* packFrame finds no source and no caller parses again: the loop ends,    *)
(* with a header in the buffer.                                            *)
SourceGone ==
  /\ looping /\ ~source /\ outBuf.overflowSize = 0
  /\ reads = 0
  /\ outBuf' = WithHeader(outBuf)
  /\ looping' = FALSE
  /\ UNCHANGED <<inputBufferSize, fragmenter, seqNo, timestamp, source,
                 pictureEndMarker, reads, nals, frames, sent, pauses>>

(* PAUSE and PLAY, as far as the sink sees them.                           *)
StopPlaying ==
  /\ source /\ pauses < MaxPauses
  /\ source' = FALSE
  /\ pauses' = pauses + 1
  /\ UNCHANGED <<inputBufferSize, fragmenter, outBuf, seqNo, timestamp,
                 pictureEndMarker, reads, looping, nals, frames, sent>>

StartPlaying ==
  /\ ~source /\ ~looping
  /\ source' = TRUE
  /\ looping' = TRUE
  /\ UNCHANGED <<inputBufferSize, fragmenter, outBuf, seqNo, timestamp,
                 pictureEndMarker, reads, nals, frames, sent, pauses>>

SenderInit ==
  /\ \E m \in MaxSizes :
       /\ inputBufferSize = m + 1
       /\ fragmenter = [buffer |-> [i \in 0 .. m |-> Zero],
                        valid |-> 1, offset |-> 1, completed |-> FALSE,
                        to |-> 0, maxSize |-> 0, saved |-> 0]
  /\ \E m \in MaxSizes : outBuf = NewOutPacketBuffer(m)
  /\ seqNo \in FirstSeqNos
  /\ timestamp = 0
  /\ pictureEndMarker = FALSE
  /\ reads = 0
  /\ source = FALSE
  /\ looping = FALSE
  /\ nals = <<>>
  /\ frames = [k \in 1 .. MaxNals |-> <<>>]
  /\ sent = <<>>
  /\ pauses = 0

Loop ==
  \/ \E n \in NalSizes, ends \in BOOLEAN, more \in 0 .. 1 :
       SendNal(n, ends, more) \/ ParseAgain(n, ends, more)
  \/ SendFragment \/ PackOverflow \/ OurHandlerClosure \/ SourceGone

SenderNext == Loop \/ StopPlaying \/ StartPlaying
=============================================================================
