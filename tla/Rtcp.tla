--------------------------------- MODULE Rtcp ---------------------------------
(***************************************************************************)
(* RTCP as the server and the client of this repository speak it           *)
(* (rtcp_linux_amd64.go): the RTCPInstance of a stream builds its reports  *)
(* and its BYE in one OutPacketBuffer, for three kinds of goroutines that  *)
(* no lock keeps apart - a player that starts, the timer, and whoever      *)
(* reclaims the stream, a TEARDOWN or the end of the file -, and sends     *)
(* them as datagrams to the client's instance, which checks them as the    *)
(* server's checks what receivers send.                                    *)
(*                                                                         *)
(* Of a packet the model keeps its size in bytes and where in it headers   *)
(* of sub-packets are, with what they say.  Other bytes (an SSRC, a time)  *)
(* are never taken for a header: the chance that one passes for the header *)
(* of a sub-packet that ends exactly at the end of the datagram is left    *)
(* out.  What enqueueWord appends between two steps of a goroutine is one  *)
(* step.                                                                   *)
(***************************************************************************)
EXTENDS Integers, Sequences, FiniteSets

CONSTANTS
  Reporters,   \* goroutines that send a report: players, the timer
  Destroyers,  \* goroutines that reclaim the stream
  NameSize,    \* how long the host name is, as newSDESItem counts it
  OurSsrc,     \* the SSRC of the server's sink
  Foreign,     \* packets that receivers of any make send to the server
  MaxSends     \* bound: how many packets the server sends

Senders == Reporters \cup Destroyers

ASSUME RtcpAssumption ==
  /\ Reporters \cap Destroyers = {}
  /\ NameSize \in 0 .. 255
  /\ MaxSends \in Nat
  \* the bytes at one place of a packet are at most one header
  /\ \A p \in Foreign :
       /\ p.size \in Nat
       /\ \A h \in p.heads : /\ h.pos \in Nat /\ h.pos + 4 <= p.size
                             /\ h.words \in Nat /\ Len(h.blocks) \in Nat
       /\ \A g, h \in p.heads : g.pos = h.pos => g = h

SR == 200
RR == 201
SDES == 202
BYE == 203

VARIABLES
  outBuf,      \* OutPacketBuffer: its offset and the headers in it
  at,          \* where each goroutine is
  alone,       \* history: whether it has been the only one since it began
  preset,      \* _nextTimestampHasBeenPreset
  open,        \* whether the stream's RTCP socket is open
  wire,        \* history: the packets sent; each may arrive, late or again
  sends,       \* how many
  byeHandled,  \* whether the client's instance has called its byeHandlerTask
  stats        \* RTPTransmissionStatsDB: what each receiver last reported

vars == <<outBuf, at, alone, preset, open, wire, sends, byeHandled, stats>>

-----------------------------------------------------------------------------
(* A header: where it is, its version, padding bit and count, its type, as *)
(* many words as it says follow, and the report blocks behind it.          *)
Header(pos, pt, words) ==
  [pos |-> pos, version |-> 2, padding |-> 0, pt |-> pt, words |-> words,
   sender |-> OurSsrc, blocks |-> <<>>]

(* OutPacketBuffer.enqueue: what was there is overwritten as far as there  *)
(* are data, and the offset goes on by the size.                           *)
Enqueue(b, data, size, heads) ==
  [offset |-> b.offset + size,
   heads |-> {h \in b.heads : h.pos + 4 <= b.offset \/ h.pos >= b.offset + data}
             \cup heads]

(* addReport, for an instance with a sink: header, SSRC and sender info.   *)
AddSR(b) == Enqueue(b, 28, 28, {Header(b.offset, SR, 6)})

AddReport(b) == IF preset THEN b ELSE AddSR(b)

(* addSDES: of the CNAME item only tag and length are there, and nothing   *)
(* pads it to the words that the header says.                              *)
AddSDES(b) ==
  LET words == (4 + 2 + NameSize + 1 + 3) \div 4
      prefix == Enqueue(b, 8, 8, {Header(b.offset, SDES, words)})
  IN  Enqueue(prefix, 2, 2 + NameSize, {})

(* Mutant: as many words as the packet has.                                *)
AddBYEWords(b) == Enqueue(b, 8, 8, {Header(b.offset, BYE, 2)})

AddBYE(b) == Enqueue(b, 8, 8, {Header(b.offset, BYE, 1)})

Packet(b) == [size |-> b.offset,
              heads |-> {h \in b.heads : h.pos + 4 <= b.offset}]

-----------------------------------------------------------------------------
(* processIncomingReport.                                                  *)

HeadAt(p, pos) == {h \in p.heads : h.pos = pos}

(* The test of the first header leaves the lowest bit of the type out.     *)
FirstHeader(h) == h.version = 2 /\ h.padding = 0 /\ h.pt \in {SR, RR}

(* Mutant: the sender info is not counted.                                 *)
ReportFitsAny(h) ==
  h.pt \in {SR, RR} => 24 * Len(h.blocks) <= 4 * h.words

(* What is left of a report behind its SSRC holds its blocks; a sender's   *)
(* report too short for the sender info is checked as a receiver's.        *)
ReportFits(h) ==
  LET length == 4 * h.words - 4
      left == IF h.pt = SR /\ length >= 20 THEN length - 20 ELSE length
  IN  h.pt \in {SR, RR} => 24 * Len(h.blocks) <= left

SubPacketOk(p, h) ==
  /\ 4 * h.words <= p.size - h.pos - 4
  /\ h.words >= 1
  /\ ReportFits(h)

EndOf(h) == h.pos + 4 + 4 * h.words

(* The headers that the loop meets, one after the other, and whether it    *)
(* ends where the packet does.                                             *)
Walk(p) ==
  LET from[pos \in 0 .. p.size] ==
        LET here == {h \in HeadAt(p, pos) :
                       /\ IF pos = 0 THEN FirstHeader(h) ELSE h.version = 2
                       /\ SubPacketOk(p, h)}
        IN  IF here = {} THEN [ok |-> FALSE, met |-> <<>>]
            ELSE LET h == CHOOSE x \in here : TRUE
                 IN  IF EndOf(h) = p.size THEN [ok |-> TRUE, met |-> <<h>>]
                     ELSE IF p.size - EndOf(h) < 4
                     THEN [ok |-> FALSE, met |-> <<h>>]
                     ELSE [ok |-> from[EndOf(h)].ok,
                           met |-> <<h>> \o from[EndOf(h)].met]
  IN  IF p.size < 4 THEN [ok |-> FALSE, met |-> <<>>] ELSE from[0]

Accepted(p) == Walk(p).ok
MeetsBye(p) == \E i \in 1 .. Len(Walk(p).met) : Walk(p).met[i].pt = BYE

(* noteIncomingRR: the first report is treated as any other, since         *)
(* firstPacket is never set.                                               *)
NoteIncomingRR(s, number) == [last |-> number, old |-> s.last]

(* The blocks about our own transmission, of one sub-packet after another. *)
NoteBlocks(table, h) ==
  LET ours == SelectSeq(h.blocks, LAMBDA b : b.ssrc = OurSsrc)
      after[i \in 0 .. Len(ours)] ==
        IF i = 0 THEN table[h.sender]
        ELSE NoteIncomingRR(after[i - 1], ours[i].number)
  IN  IF h.pt \in {SR, RR} THEN [table EXCEPT ![h.sender] = after[Len(ours)]]
      ELSE table

NoteReports(met) ==
  LET after[i \in 0 .. Len(met)] ==
        IF i = 0 THEN stats ELSE NoteBlocks(after[i - 1], met[i])
  IN  after[Len(met)]

-----------------------------------------------------------------------------
Idle == {t \in Senders : at[t] = "idle"}

(* OnExpire with a report that is due, startPlaying, reclaim: sendReport   *)
(* or sendBye is called.  Whether the timer finds a report due, and when,  *)
(* depends on a random number alone.                                       *)
Begin(t) ==
  /\ at[t] = "idle" /\ sends < MaxSends
  /\ at' = [at EXCEPT ![t] = "report"]
  /\ sends' = sends + 1
  /\ alone' = [u \in Senders |->
                 IF u = t THEN Idle = Senders ELSE alone[u] /\ u \in Idle]
  /\ UNCHANGED <<outBuf, preset, open, wire, byeHandled, stats>>

(* addReport.                                                              *)
Report(t) ==
  /\ at[t] = "report"
  /\ outBuf' = AddReport(outBuf)
  /\ at' = [at EXCEPT ![t] = IF preset THEN "add" ELSE "add to SR"]
  /\ UNCHANGED <<alone, preset, open, wire, sends, byeHandled, stats>>

(* addSDES or addBYE.                                                      *)
Added(t) == IF at[t] = "add" THEN "send" ELSE "send SR"
Add(t) ==
  /\ at[t] \in {"add", "add to SR"}
  /\ outBuf' = IF t \in Destroyers THEN AddBYE(outBuf) ELSE AddSDES(outBuf)
  /\ at' = [at EXCEPT ![t] = Added(t)]
  /\ UNCHANGED <<alone, preset, open, wire, sends, byeHandled, stats>>

(* sendBuiltPacket: through a socket that is closed nothing goes.          *)
Send(t) ==
  /\ at[t] \in {"send", "send SR"}
  /\ wire' = IF open
             THEN wire \cup {[packet |-> Packet(outBuf), alone |-> alone[t],
                              bye |-> t \in Destroyers,
                              sr |-> at[t] = "send SR"]}
             ELSE wire
  /\ at' = [at EXCEPT ![t] = "reset"]
  /\ UNCHANGED <<outBuf, alone, preset, open, sends, byeHandled, stats>>

(* Mutant: the offset stays where the packet ended.                        *)
ResetNothing(t) ==
  /\ at[t] = "reset"
  /\ at' = [at EXCEPT ![t] = IF t \in Destroyers THEN "close" ELSE "idle"]
  /\ UNCHANGED <<outBuf, alone, preset, open, wire, sends, byeHandled, stats>>

(* resetOffset.                                                            *)
Reset(t) ==
  /\ at[t] = "reset"
  /\ outBuf' = [outBuf EXCEPT !.offset = 0]
  /\ at' = [at EXCEPT ![t] = IF t \in Destroyers THEN "close" ELSE "idle"]
  /\ UNCHANGED <<alone, preset, open, wire, sends, byeHandled, stats>>

(* destroy: stopNetworkReading closes the socket, which may be closed.     *)
CloseSocket(t) ==
  /\ at[t] = "close"
  /\ open' = FALSE
  /\ at' = [at EXCEPT ![t] = "idle"]
  /\ UNCHANGED <<outBuf, alone, preset, wire, sends, byeHandled, stats>>

(* PLAY presets the next timestamp, and the next packet of the stream uses *)
(* it (rtp_sink.go).                                                       *)
PresetNextTimestamp ==
  /\ preset' = TRUE
  /\ UNCHANGED <<outBuf, at, alone, open, wire, sends, byeHandled, stats>>

ConvertToRTPTimestamp ==
  /\ preset' = FALSE
  /\ UNCHANGED <<outBuf, at, alone, open, wire, sends, byeHandled, stats>>

(* A packet of the server reaches the client, whose SETUP has set the task *)
(* (subsessionByeHandler).  Its instance has neither sink nor source.      *)
ClientReceives ==
  /\ \E sent \in wire :
       byeHandled' = (byeHandled \/ (Accepted(sent.packet) /\ MeetsBye(sent.packet)))
  /\ UNCHANGED <<outBuf, at, alone, preset, open, wire, sends, stats>>

(* A packet of a receiver reaches the server: its statistics change also   *)
(* when the rest of the packet turns out to be bad.                        *)
ServerReceives ==
  /\ open
  /\ \E p \in Foreign : stats' = NoteReports(Walk(p).met)
  /\ UNCHANGED <<outBuf, at, alone, preset, open, wire, sends, byeHandled>>

Ssrcs == {h.sender : h \in UNION {p.heads : p \in Foreign}}

Init ==
  /\ outBuf = [offset |-> 0, heads |-> {}]
  /\ at = [t \in Senders |-> "idle"]
  /\ alone = [t \in Senders |-> FALSE]
  /\ preset = FALSE
  /\ open = TRUE
  /\ wire = {}
  /\ sends = 0
  /\ byeHandled = FALSE
  /\ stats = [s \in Ssrcs |-> [last |-> 0, old |-> 0]]

Sending(t) == Begin(t) \/ Report(t) \/ Add(t) \/ Send(t) \/ Reset(t) \/ CloseSocket(t)

Next ==
  \/ \E t \in Senders : Sending(t)
  \/ PresetNextTimestamp \/ ConvertToRTPTimestamp
  \/ ClientReceives \/ ServerReceives

Spec == Init /\ [][Next]_vars

-----------------------------------------------------------------------------
(* The goroutines leave the buffer as they found it once none of them is   *)
(* at work, and the offset is within what MaxSends packets can fill.       *)
TypeOK ==
  /\ at \in [Senders -> {"idle", "report", "add", "add to SR", "send",
                         "send SR", "reset", "close"}]
  /\ alone \in [Senders -> BOOLEAN]
  /\ preset \in BOOLEAN /\ open \in BOOLEAN /\ byeHandled \in BOOLEAN
  /\ sends \in 0 .. MaxSends
  /\ outBuf.offset \in Nat
  /\ \A t \in Senders : at[t] = "close" => t \in Destroyers
  /\ (\A t \in Senders : at[t] \in {"idle", "close"}) => outBuf.offset = 0

(* A packet that one goroutine built without another beside it is what its *)
(* code says: the report, unless the next timestamp was preset, and behind *)
(* it the SDES or the BYE, although the buffer still holds what packets    *)
(* before it left (sendReport, sendBye).  A BYE behind a report is         *)
(* accepted and seen by the client, and what the client takes for a BYE is *)
(* one, in whichever packet it came: whoever reclaims the stream has sent  *)
(* a BYE or is about to (subsessionByeHandler).                            *)
AloneIsWhole ==
  /\ \A sent \in wire :
       LET p == sent.packet
           start == IF sent.sr THEN 28 ELSE 0
       IN  sent.alone =>
             /\ sent.sr => \E h \in HeadAt(p, 0) : h.pt = SR /\ EndOf(h) = 28
             /\ \E h \in HeadAt(p, start) : h.pt = IF sent.bye THEN BYE ELSE SDES
             /\ p.size = start + IF sent.bye THEN 8 ELSE 10 + NameSize
             /\ sent.sr /\ sent.bye => Accepted(p) /\ MeetsBye(p)
  /\ byeHandled => \/ \E sent \in wire : sent.bye
                   \/ \E t \in Destroyers : at[t] \in {"send", "send SR"}

(* Every packet that either side may receive is accepted just when it can  *)
(* be cut into sub-packets that fill it: each begins with a header of      *)
(* version 2 that says its length, has room for the SSRC and the report    *)
(* blocks it announces, and the first is a report without padding          *)
(* (processIncomingReport).                                                *)
Needs(h) ==
  IF h.pt \notin {SR, RR} THEN 1
  ELSE 6 * Len(h.blocks) + IF h.pt = SR /\ h.words >= 6 THEN 6 ELSE 1
Cuts(p, parts) ==
  /\ \E h \in parts : h.pos = 0 /\ h.padding = 0 /\ h.pt \in {SR, RR}
  /\ \A h \in parts :
       /\ h.version = 2 /\ h.words >= Needs(h)
       /\ EndOf(h) = p.size \/ \E next \in parts : next.pos = EndOf(h)
  /\ \A g, h \in parts : g = h \/ EndOf(g) <= h.pos \/ EndOf(h) <= g.pos
AcceptsWhatCanBeCut ==
  \A p \in {sent.packet : sent \in wire} \cup Foreign :
    Accepted(p) <=> \E parts \in SUBSET p.heads : parts # {} /\ Cuts(p, parts)
=============================================================================
