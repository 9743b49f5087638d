# A verification development for dorsvr

dorsvr is a streaming media server (RTSP for control, RTP and RTCP for media) with a small
client, written in Go. This directory holds TLA+ models of it, from the file to the frame that
a client's application is told of, the TLC configurations that check them on small instances, and
proofs, checked by TLAPS, of what holds for instances of every size.

| file | what it is |
|---|---|
| `RtspServer.tla` | the server's tables, connections, sessions and timers |
| `SessionRegistry.tla` | what the table of sessions promises, abstractly |
| `OnDemandStream.tla` | one shared stream: session commands against the goroutines that send |
| `StreamLife.tla` | what `RtspServer` assumes of a stream, which `OnDemandStream` provides |
| `H264Framer.tla` | the file, the parser's banks and its recursion: how a file becomes NAL units |
| `NalSource.tla` | what the framer promises to its reader, which `H264Framer` provides |
| `RtpSender.tla` | how NAL units become fragments and packets |
| `RtpReceiver.tla` | how the client's source takes packets apart |
| `ReorderingPacketBuffer.tla`, `ReceptionStats.tla` | its buffer and its statistics, as operators |
| `SeqNum.tla` | sequence numbers and the cells that packets are made of |
| `MediaPath.tla` | `RtpSender`, a network and `RtpReceiver` composed |
| `Rtcp.tla` | reports and BYEs, built by several goroutines in one buffer, and their parser |
| `Sdp.tla` | the lines of session descriptions: what the server writes, what a client reads |
| `UdpPorts.tla` | a machine's ports and the server's search for a pair |
| `MediaSession.tla` | the client's media session: `Sdp` and `UdpPorts` composed |
| `RtspClient.tla` | the client's requests, its queue, and the chain of its callbacks |
| `LeastNumber.tla` | two lemmas that stand for induction in the proofs |
| `*_proofs.tla` | theorems about `RtspServer`, `OnDemandStream`, `MediaSession`, `Rtcp`, `RtspClient`, `MediaPath` and `H264Framer` |
| `MC*.tla`, `*.cfg` | the instances for TLC |
| `PROJECT.json` | the index: components, runs, mutants, map from definitions to source lines, findings, hazards, theorems |

## 1. Inventory

### The system

```
  TCP clients                     files (.264, .ts)
      |  RTSP requests                  |
      v                                 v
  RTSPServer ---- ServerMediaSession -- OnDemandServerMediaSubsession
   | tables            (per name)         | lastStreamToken, destinations
   v                                      v
  RTSPClientConnection                 StreamState --- MediaSource (framer, parser, file)
   (a goroutine each)                     | (startPlaying: a goroutine for each PLAY)
   v                                      v
  RTSPClientSession                     RTPSink (fragmenter, packets) --> rtpGS --> UDP
   (a timer goroutine each)             RTCPInstance (timer goroutine, reader) --> rtcpGS

  RTSPClient -- MediaSession -- RTPSource (reordering buffer, statistics) <-- UDP
```

| component | state | operations | interacts with |
|---|---|---|---|
| `RTSPServer` (`rtspserver/server.go`) | `clientSessions`, `serverMediaSessions`, one mutex each | accept, lookup / add / remove of both kinds | connections and sessions call it |
| `RTSPClientConnection` (`connection.go`) | `clientSession`, CSeq, response buffer | one request at a time: OPTIONS, DESCRIBE, SETUP, the commands within a session, HTTP tunnelling | sessions, tables |
| `RTSPClientSession` (`session.go`) | id, its ServerMediaSession, `streamStates`, liveness timer | SETUP, PLAY, PAUSE, TEARDOWN, GET/SET_PARAMETER, `noteLiveness`, `destroy` | tables, subsessions; its timer's goroutine |
| `OnDemandServerMediaSubsession` | `lastStreamToken`, `destinations` | GetStreamParameters, StartStream, PauseStream, DeleteStream | called by sessions, owns the stream |
| `StreamState` (`stream_state.go`) | sink, source, groupsocks, `rtcpInstance`, `areCurrentlyPlaying` | startPlaying, pause, endPlaying, reclaim | sink, RTCP |
| RTP sink (`media_sink.go`, `multi_framed_rtp_sink*`, `h264_video_rtp_sink.go`) | `Source`, `afterFunc`, `noFramesLeft`, output buffer, sequence number | StartPlaying, StopPlaying, the packet loop, FU-A fragmentation | reads a FramedSource, sends |
| Sources (`framed_source.go`, framers, `stream_parser.go`) | `isCurrentlyAwaitingData`, banks and indices of the parser | GetNextFrame, afterGetting, handleClosure, parse | called back by the sink and by the file |
| RTCP (`rtcp_*`, `rtcp_from_spec.go`) | report times, average size, buffers | newRTCPInstance, onExpire, schedule, reports in and out, destroy | sink or source statistics |
| RTP source (`multi_framed_rtp_source*`, `rtp_reception_stats*`) | list of packets, next expected number, counters | networkReadHandler, storePacket, getNextCompletedPacket, releaseUsedPacket, noteIncomingPacket | network, client's sink |
| RTP over TCP (`rtp_interface.go`) | list of TCP streams, reader's state | add / del stream socket, sendRTPOverTCP, tcpReadHandler | RTSP's own socket |
| RTSP client (`rtspclient`) | request queue, CSeq, session id, callbacks' iterator | send\*Command, handleResponseBytes, the chain DESCRIBE → SETUP\* → PLAY | server, MediaSession |
| MediaSession (`media_session.go`) | subsessions, sockets | parse SDP, Initiate | client |
| auth, bit and byte helpers, request text | - / nonce | pure functions | - |

### What is hard

Only the two tables of `RTSPServer` have a lock. Everything else is shared by goroutines
without one: a session may be commanded from several connections, is destroyed by the
handler of TEARDOWN, by the end of a connection and by its timer, and every PLAY starts
a goroutine on a stream that all sessions of the file share. The send loop is a recursion
(sink → source → parser → file → parser → source → sink), so that a PAUSE does not return
control to anybody: it changes fields that the recursion reads later. On the client,
responses are matched to requests by number and packets come out of order.

The hazards are in `PROJECT.json`, each at its line, with the properties aimed at it or the
reason why there is none yet. What makes each component correct:

* tables: a session is found only under its own id, from its SETUP to its end and never
  again; nothing is leaked, whichever of the three destroyers comes first; the sessions of
  a name share one ServerMediaSession;
* liveness timer: a silent session is reclaimed, one in use is not; a destroyed one is left alone;
* stream: RTCP exists before media flows; the stream is reclaimed for a reason; one
  reader on a source; each destination once; PAUSE stops, EOF ends the goroutine;
* packets: what is sent is the NAL units in order, each unfragmented or as a complete series
  of fragments; sequence numbers advance by one modulo 2^16;
* parser: every NAL unit of the file once, whole, however the file falls into reads; the end
  of the file is reached and told;
* reordering: packets are delivered in order, late and repeated ones are not; the highest
  number seen is that of the latest packet;
* RTCP: a packet is whole, and accepted just when it can be cut into sub-packets;
* descriptions and ports: what one side writes the other reads; a port that is named is held
  by who names it;
* client: each response reaches the handler of its request, once.

## 2. The models and the code

### RtspServer

Threads are the connections (`incomingRequestHandler`) and one goroutine per session
(`livenessTimeoutTask`); `pc` says where each is. A step is what happens between two
accesses to state that another thread sees: a critical section of `smsMutex` or
`sessionMutex`, or one unsynchronised access to a session's fields. `request[c]` holds the
locals of the handler (the id drawn, the SMS read), which is how stale reads stay stale.

* SETUP is `SetupNew` (ids are drawn until one is not in the table), `RegisterSession`
  (`newClientSession` and `addClientSession`), the lookup (`GetServerMediaSession`, then
  `FileMissing`, `FoundServerMediaSession`, `AddServerMediaSession` or `AddNil`), `BindSms`,
  `AdoptSms`, `MakeStreamStates`, `GetStreamParameters`; with a Session header it starts
  with `SetupAgain`.
* DESCRIBE uses the same lookup. PLAY, PAUSE, TEARDOWN and the parameters start with
  `SessionCommand`.
* `destroy()` is `StopTimer`, `RemoveClientSession`, `RemoveServerMediaSession`, run by any
  thread. The timer is `StartTimer`, `TimerFires`, `LivenessTimeout`; as in Go, stopping
  or resetting it does not take a tick out of its channel.
* A nil dereference in a goroutine ends the process: `Panic` moves every thread to
  "dead". The guards name each one the code can meet (`NilMet`, `StopPanics`, `AddNil`).

`SessionRegistry` says what a reader of `server.go` expects of the table: a session is
fresh, then registered, then gone. Entering may push another session out, because ids
are drawn in one critical section and stored in another; the implementation does so,
and the abstract module says it openly. `RegistrySpec` is the refinement.

### OnDemandStream

The threads are the handlers of several sessions, one command at a time each, and the
goroutines `startPlaying`, one per PLAY ("players"). None of this code holds a lock, so a
step is one access to a field another thread distinguishes.

| code | model |
|---|---|
| `lastStreamToken`, `destinations`, the session's `streamToken` | `lastStreamToken`, `destinations`, `token` |
| `StreamState.rtcpInstance`, `areCurrentlyPlaying` | the same names |
| `rtpSink.Source`: nil, the framer, or the fragmenter wrapped around it | `source` |
| `MediaSink.afterFunc` # nil | `afterFunc` |
| the fragmenter's `inputSource` | `input` |
| `isCurrentlyAwaitingData` of both sources | `fragmenterAwaits`, `framerAwaits` |
| `noFramesLeft`; RTP headers in `outBuf` (0, 1 or more); whether it has overflow data | `noFramesLeft`, `headers`, `kept` |
| frames left in the file | `left` |
| pending `continueReadProcessing` calls on the goroutine's stack | `nested` |
| `rtpGS.dests` (a list with repetitions) | `dests` (a count) |
| the RTCP socket | `closed` |

The recursion is unrolled: `PackFrame`, `GetNextFrame`, `AwaitData`, `ReadFrame`,
`SendPacket`, `NextPacket` are its cycle; when it ends (`HandleClosure`, or no source),
the goroutine unwinds and runs what each caller still had to do. There
`ContinueReadProcessing` matters: `ensureValidBytes1` returns an error even after a
successful read, so that each parse that read the file is retried while unwinding.

`PackFrame` writes a header and uses the frame that is kept before it looks at the source; a loop
that finds no source leaves its header behind. `SendPacket` sends a frame, or keeps one that lies
behind more than one header and does not fit. How large frames are is `RtpSender`'s; here one with
two headers may fit or not, and one that is kept never fits (section 4, 3).

`StreamLife` is the interface of the two modules: `RtspServer` keeps only how far a stream
got (nil, ready, starting, rtcp), because `TEARDOWN` dereferences the RTCP instance.
`OnDemandStream` refines it, which justifies the abstraction.

Simplifications: UDP destinations only; a frame is a NAL unit that fits one packet
behind one header, and a small one that is kept behind more than 60 headers and then sent is left
out; the file has a long start code; a second fragmenter (two players that test `ourFragmenter`
together) is left out; `Source` and `afterFunc` are set in one step; a session whose commands come
from several connections is in `RtspServer` only.

### RtspClient

The threads are the caller of `SendRequest` ("main"), `incomingDataHandler` ("reader"), which
runs the callbacks, and goroutines that shut the stream down (`Close`, or the RTCP reader
of a subsession at a BYE). There is no lock.

| code | model |
|---|---|
| the `RequestRecord`s | `made`, in the order they were made; elsewhere a record is its index |
| `requestsAwaitingResponse` | `requestRecords` and `index` (from 1) |
| `scs.Session`, `scs.Subsession`, the session's `subsessionIndex` | `session`, `subsession`, `subsessionIndex` |
| `lastSessionID`, `digest.Realm` | whether they are set |
| the TCP connection | `connected`, `requests`, `responses` |
| the locals of `handleResponseBytes` | `response` |

A command is `Number` (`c.cseq++`), `NewRequestRecord`, then `sendRequest`: `Write` or one of
its failures, and `Enqueue`. A response is `ReadSocket`, one `MatchCSeq` for each `dequeue` of
the search, `Fallback` when no record was found, then `Deliver`, `Authenticate`, `Redirect` or
`Discard`. The callbacks are `ContinueAfterDESCRIBE`, `ContinueAfterSETUP`,
`ContinueAfterPLAY`, `SetupNextSubSession` and `PlaySession`. The server answers requests in
order with codes that the client tells apart, or without CSeq as its own
`handleCommandBad` does; TCP may join responses or cut one in two.

`answers` and `resends` are history. `Undisturbed` says when the client works in lock-step:
only the callbacks have sent requests and every response came whole, with its number. The
properties of `client_dialogue` but `ResentOnce` hold under it; without it they do not
(section 4, 7).

Simplifications: what is in flight is lost with the connection (a server that closes
later is another behaviour of the model); the record of a failed write, enqueued for a
connection nobody reads any more, is not; `c.cseq++` is one step; the code 302 stands for 301
as well, 404 for every other.

### H264Framer

A file is a sequence of bytes and the parser is a record of what `StreamParser` and
`H264VideoStreamParser` keep: the bank up to `totNumValidBytes`, `curParserIndex` and
`savedParserIndex`, what was saved for the reader, the first byte of the unit. `parse()` is
`FindStart`, `SaveBytes`, `FinishUnit` and, after the end of the file, `SaveRemaining`; each of
them first asks for bytes, `EnsureValidBytes`.

The difficulty is the recursion. A call that has to read the file does not go on where it was: the
read restores the state saved last and starts another `parse()`, which delivers, from which the
reader asks for the next frame, and so on; the call returns when the whole chain has ended.
`callers` is that stack. What a call does when it returns at last depends on where it was:
most report an error that has `continueReadProcessing` parse once more ("parse"), one that
read at the end reports EOF ("quiet"), and the one that wanted to look at a slice header
delivers what it had ("slice"). So a reader that stops asking, as PAUSE makes it, is given
frames it never asked for (`frame.asked` is false).

`NalSource` is what the reader is promised: unit after unit, then the end. It openly allows what
the code does: units parsed for nobody are skipped once the reader stopped, and the last
few of a file may not come (`Lost`): the last one is never followed by a start code, and one that
waits for the next slice header goes with it, and so do all that begin in what should have been this
header. With a header of 12 bytes these are five at most (`LostAtEnd`). `GivesTheUnits` is the
refinement.

Simplifications: what a slice header says is a choice (`differ`); a read fills the bank
as far as the file goes; the sizes of banks and headers are parameters.

### RtpSender, RtpReceiver and MediaPath

Buffers are functions to cells; a cell is a word of the RTP header or a byte of payload
(`SeqNum`), so that what a header overwrites, and what an old packet left behind, is visible.

| code | model |
|---|---|
| `H264FUAFragmenter`: `inputBuffer`, `numValidDataBytes`, `curDataOffset`, `lastFragmentCompletedNALUnit`, `maxSize`, where the frame goes | `fragmenter` |
| `OutPacketBuffer`: `packetStart`, `curOffset`, `overflowDataOffset`, `overflowDataSize`, the bytes | `outBuf` |
| `seqNo` (not masked), presentation time, `pictureEndMarker`, `Source` # nil | `seqNo`, `timestamp`, `pictureEndMarker`, `source` |
| calls of the parser that parse again while the loop unwinds | `reads` |
| `reOrderingBuffer`, `lastReceivedSSRC`, `receptionStatsDB` | `buffer`, `lastReceivedSSRC`, `stats` |

One round of the send loop, from one sleep to the next, is one step: `SendNal`, `SendFragment`,
`PackOverflow`, or its end (`OurHandlerClosure`, `SourceGone`), with `ParseAgain` for what
`H264Framer` delivers after a PAUSE. One round of `networkReadHandler` is one step: `ReadPacket`
stores the packet, notes it and delivers the head of the list if it is expected or old.
`headPacket` and `tailPacket` are modelled apart, because `releaseUsedPacket` forgets the
tail while the list still has packets.

`MediaPath` puts a network in between that loses, repeats and reorders; packets arrive
less than half the number space out of order (`InWindow`). What the application is given of a
packet is what it is told: which packet (`frame`) and its size (`frameSize`). Its buffer stays empty,
for `use()` copies no byte into it. As the client may talk to any
server, the sender may also be another one, with any payload the receiver tells apart, and
it may start anew under another SSRC.

How far the receiver keeps order is a question the code does not ask. It compares 16-bit numbers, a
packet with data stays at the head of the list for ever (section 4, 11), and the list is not emptied
when another SSRC takes over. So packets of the next round of numbers go in between those that
wait: with numbers modulo 8, arrivals 8, 17, 10, 11 leave the list 8, 17, 10, 11, and 10, 19, 12
delivers 12 after 19. `OneRange` says where order is kept: one sender, and less than half of the
numbers between the first packet and the last. `ListInOrder` and `DeliveredForward` hold there, for
every width of the numbers. `HighestIsLatest` needs no such limit but that of the 32 bits it
counts in.

Simplifications: pacing is left out; a sink that cuts frames up is not reached, because a
fragment fits; the loop is one goroutine (two on one sink are `OnDemandStream`'s).

### Rtcp

Three kinds of goroutines build packets in the instance's `outBuf`: players (the initial report),
the timer, and whoever reclaims the stream. `addReport`, `addSDES` or `addBYE`,
`sendBuiltPacket` and `resetOffset` are steps of their own. A packet is its size and where in it
headers are; `Enqueue` overwrites headers as the code overwrites bytes. `Walk` is the loop of
`processIncomingReport`, for packets the server sent to its client and for those any receiver may
send (`Foreign`). `alone` is history: whether a goroutine had the buffer to itself.

### Sdp, UdpPorts and MediaSession

`Sdp` has descriptions as sequences of lines and what `parseSDPLine` makes of the end of a line:
it cuts two characters off, whatever ends it. `UdpPorts` is who holds which port of a machine,
with the server's search (`FindRtp`, `FindRtcp`, `FindOne` for raw UDP) as steps between which
others take ports. `MediaSession` is the client: `NewMediaSession` reads the description with
`ReadLine`, line after line, as `initWithSDP` does, and `Initiate` is `CodecUnspecified`,
`BindRtp`, `CloseOdd`, `BindRtcp`, `CreateSourceObject`.

Simplifications: a value is a model value or a number, and what cutting a character does to it is
modelled (`CutValue`); the odd ports the system gives and the ports others take are bounded.

## 3. The runs

All are within the limits of a laptop; states are distinct ones.

| run | instance | checks | states |
|---|---|---|---|
| `server_tables` | 2 connections, 2 sessions, 2 ids, 2 SMSes, a streamable name and one that is not, 3 requests; symmetric | `TypeOK`, `DestroyedIsNotFound`, `EntryHasItsId`, `RegisteredIsWatched`, `ClosedLeavesNoSession`, `RegistrySpec` | 1.3 M |
| `server_liveness` | 2 connections, 1 session, 1 id, 2 SMSes, 4 requests; `FairSpec` | `SilentIsReclaimed` | 0.8 M |
| `stream_players` | 2 sessions, 1 stream, 2 players, 2 frames; symmetric | `TypeOK`, `PlayedWithRtcp`, `ClosedForAReason`, `StreamsLiveAsAssumed` | 4.0 M |
| `stream_end` | 1 session, 1 stream, 2 players, 2 frames; `FairSpec` | `PlayersEnd` | 0.4 M |
| `stream_one_reader` | 2 sessions, 2 streams, 2 players, 2 frames | `NeverReadsTwice` is violated | |
| `client_dialogue` | 1 goroutine that closes, 2 tracks, 4 requests, 1 unnumbered response | `TypeOK`, `AnswersMatch`, `ChainIsAnswered`, `PlaysWhenSetUp`, `NoPanic`, `ResentOnce` | 4.0 M |
| `media_path` | numbers modulo 12, packets of 10 cells, 2 NAL units of 2, 8 or 13 bytes, 2 pauses, 2 arrivals from dorsvr, 5 from another server, 2 SSRCs | `TypeOK`, `FragmentsMakeUnits`, `PacketsCarryFrames`, `MarkerEndsUnit`, `HighestIsLatest`, `ListInOrder`, `WaitingHoldsPieces`, `DeliveredForward` | 0.6 M |
| `media_path_kept` | the same sender with units of 2 or 13 bytes and 1 pause, no arrivals | `KeptIsUsed` is violated | |
| `framer` | all files of a start code, bytes before it or not, and 5 pieces out of 6; 5 files without a long start code; a bank of 40, 6 bytes of the next slice header, 1 pause | `TypeOK`, `SetsAreUnits`, `PicturesEnd`, `GivesTheUnits`, `Ends` | 0.4 M |
| `framer_banks` | the same with a bank of 12 | `SavedAllPreviousBytes` is violated | |
| `sessions` | some 230 descriptions, 2 streams (one of raw UDP), ports 2 to 12, 1 port taken and 1 odd port | `TypeOK`, `ReadAsWritten`, `DescribedIsUnderstood`, `PairsAreOwned`, `SearchEnds` | 0.7 M |
| `rtcp` | the timer, a teardown, 3 packets, 16 packets of receivers | `TypeOK`, `AloneIsWhole`, `AcceptsWhatCanBeCut` | 0.3 M |

**Why the bounds are enough.** Two of every kind is the least with a race between equals:
two connections draw one id, command one session, or look one name up; two sessions share
a stream; two players share a sink. Three requests are a SETUP, a second request that races
with it or with its session's end, and one more to run on what they left; the bound is on
`requests`, and connections may close and be accepted again without a bound. Four requests
in `server_liveness` are SETUP and commands until one comes in every phase of the timer. Two
players are two PLAYs with any number of PAUSEs between them; two frames
let one player be asleep after a packet while the other reads, and reach the end of the
file. Two tracks are two SETUPs before one PLAY, and with DESCRIBE the four requests of a
complete dialogue; a request sent again after a 401 or a redirect is not counted. One response
that is cut, or comes without a number, is enough for a second chain of callbacks.
`server_tables`, `stream_players` and `sessions` are what the proofs generalise to every size.

*media_path*: a packet holds 7 cells of payload, so that units of 2, 8 and 13 bytes are sent
whole, in two fragments and in three; the second unit is built on what the first left in both
buffers. With two pauses the properties' limits at the second one are reached. Numbers start at 0 or 10 of 12, so that they wrap, on dorsvr's side into the payload type.
Five packets of the other server arrive in any order, more than once or not, which gives lists of
up to four with gaps, duplicates at the head, the middle and the tail, and late packets;
`ForeignPayload` has one of each kind that `processSpecialHeader` tells apart.
*framer*: the pieces are both start codes, single bytes that could begin one or be the last of one,
and the three kinds of unit the parser treats differently; five of them make units that are empty,
end in zeros, and pictures of several slices; the files without a long start code are empty, shorter
than one, as long, and one with a short code; a header of 6 bytes is the least in which a unit can
begin and end. A file is read in one go, and a bank of 12 instead of
40 makes the parser switch banks: `framer_banks`. With the bank of 40 the "internal error" of a unit
larger than a bank is not reached.
*sessions*: descriptions of up to four lines with every kind of line cut, repeated, missing or
contradicting another, and the server's own. One port taken by others, any number of
times, makes every search step fail once; `LastPort` is far enough for both streams to succeed, as
a search that passes the last port never ends.
*rtcp*: two goroutines and three packets are the least in which one overtakes another that has
already overtaken; with three goroutines and four packets no violation was found in the part of
the state space that was searched, which is too large for a run.

**Deadlock** is not checked: clients may stop sending, dialogues, files and datagrams end, and a
process that panicked has ended.

**Fairness.** Go runs every goroutine that is not blocked: weak fairness of every handler, of
the timer's goroutine and of the steps of a player. A timer that stays armed fires: weak
fairness of `TimerFires`. No client is assumed to send, or to close. `NewRTCPInstance` is
not fair: it runs `schedule()`, whose sleep is computed as seconds times 10^9
*microseconds*, so the goroutine that creates the instance may never come back. In `H264Framer`
the parser, its returning calls and the reader's requests are one goroutine and go on; whether the
reader stops is up to clients, but a reader that was told of the end stops. In `MediaSession` every
search of the server goes on; the client and everybody else may stop anywhere.

**What the liveness properties say.** `SilentIsReclaimed`: a registered session leaves the
table (or the process ends) once no more requests come, also when no connection refers to
it. `PlayersEnd`: a player past its RTCP instance ends if from some time on it is alone in the loop
of its sink and the sink keeps no frame. Without these conditions it does not hold: two players on
one sink may undo each other's `noFramesLeft` at the end of the file for ever, and a frame that a
PAUSE made the sink keep (section 4, 3) is packed again for ever, with no look at the source. It says
nothing of a player whose RTCP instance never comes. `Ends`: every file is parsed to its end,
which the reader is told, and, when the file has a long start code, every call of the recursion
returns. In a file without one it never does (section 4, 20). `SearchEnds`: a search for ports
ends although others take ports and every failed pair costs the server a socket.

**Mutants.** Every property of a passing run is paired in `PROJECT.json` with a definition that
replaces an action by a plausible mistake (the operators whose comment says "Mutant"), under
which the property fails: e.g. `RemoveIfBound`, a `destroy()` that skips sessions
without an SMS, `CheckRtcpUnfinished`, a `startPlaying` that takes an instance that is
still being created to be there, or `SaveSizeAny`, a parser that skips four bytes at a one.

## 4. Where the code and its comments disagree

With a run that shows it:

1. **Two readers on one source** (`framed_source.go:37`): two PLAYs pass `StartPlaying`'s test for a
   source together; the second makes the fragmenter, which the first put in the sink, its own input.
   GetNextFrame's assertion fails, which ends the process (`stream_one_reader`). PAUSE and PLAY while
   a player sleeps put two players on one sink as well.
2. **The wrong bytes change banks** (`stream_parser.go:138`): the bytes not yet parsed are copied
   from `p.saveParserIndex`, which is never written; the parser keeps its place in
   `savedParserIndex`. In a file longer than a bank a NAL unit is delivered with bytes of the
   file's start (`framer_banks`).
3. **A kept frame is not used** (`multi_framed_rtp_sink_linux_amd64.go:78`): the comment says that a
   frame which did not fit into its packet is used before another one is read. `useOverflowData` moves
   the offset past the frame and `afterGettingFrame` tests whether it fits behind that, so a fragment
   of more than half a packet is kept again in every round, and the stream is silent from then on. A
   fragment of full size is kept when it comes behind the header that a PAUSE left (9):
   `media_path_kept`. The loop that packs it never looks at the source again, so neither the end of
   the file nor a PAUSE ends it.

Stated as a property of a module, which TLC finds violated when a configuration names it (and so is 21):

4. **Two ServerMediaSessions for one name** (`server.go:143-158`; `OneSmsPerName`): checked, then
   created after the lock is gone.
5. **A destroyed session's timer runs** (`session.go:39`, `440`; `DestroyedIsNotTimed`): a command
   that found the session before it was destroyed Resets the timer.
6. **A destination twice** (`stream_state.go:59`, `groupsock.go:82`; `EachDestinationOnce`): each
   PLAY appends it again.
7. **A request is handled twice** (`client.go:361`, `977`, `399`; `HandledOnce`): the queue removes
   no record and a response that matches none is given to the first one, so that DESCRIBE's
   handler runs again for half a response or for the answer to a TEARDOWN of another goroutine.
8. **PAUSE is not the end of reading** (`media_sink.go:256`, `stream_parser.go:163`;
   `StoppedReadsNoMore`): the unwinding recursion parses, and sends, once for each read of the
   file on its stack.

In the models as the code has them, and allowed for by the properties, which say what holds beside
them:

9. After a PAUSE the output buffer keeps a header (`multi_framed_rtp_sink_linux_amd64.go:87`), and
   the first packet after PLAY has two. `WaitingHoldsPieces` speaks of packets with one. A second PAUSE
   leaves a second header, and a parser that parses again delivers its frame to the place it was asked
   for, wherever the packet goes on by then: what a packet ends with is promised up to there only.
10. The timestamp of a header is skipped, not cleared, and `seqNo` is or-ed in without a mask: after
   65535 it reaches the payload type, and the receiver drops the packets.
11. `use()` of a received packet neither copies nor consumes it: a packet with data stays at the head
    and is delivered again each round, to an application whose buffer stays empty (21). `releaseUsedPacket` drops the tail of a list that is
    not empty, and the packet stored next replaces the list.
12. The receiver's expected number is not masked either; after 65535 only the time threshold moves it on.
13. Of the units of a file up to five at its end are never delivered (the last; a slice before it for
    which 12 bytes of the next are missing, the next, and those that begin in these bytes), and after a
    PAUSE a parameter set that is parsed for nobody is kept behind the bytes saved before it.
14. The SDES announces an end item and padding that it does not write (`rtcp_linux_amd64.go:386-404`):
    whatever the host name, the packet ends before its last sub-packet does, and this repository's
    own client rejects it, the initial SR of `stream_state.go:73` included. The BYE's packet is
    accepted.
15. Statistics are noted from the part of a packet before the part that has it rejected, and
    `firstPacket` is never set (`rtp_transmission_stats.go:82`).
16. A report that races with the first packet of a stream consumes the timestamp that was preset for
    it (`rtp_sink.go:118-123`).
17. Lines that end with LF lose their last character (`media_session.go:234`), and a description that
    begins with an empty one of them has none to lose: the slice panics there (not modelled, no
    description of `sessions` is of this kind); only the first "m=" section
    is read; `a=range`, `a=type` and `a=source-filter` never match their formats; `a=fmtp` accepts
    every line that is left.
18. A client whose subsession finds no source keeps both sockets open (`media_session.go:566-573`); a
    server's search that finds the RTCP half of a pair taken leaves the RTP socket open
    (`on_demand_server_media_subsession.go:100`) and goes on past the last port for ever.
19. TEARDOWN of one session sends BYE and closes the RTCP socket for all, more than once if several do.
20. At the first end of a file the source closes it, so that the next read fails with "file already
    closed". Before the first start code `parse()` returns this error, and `continueReadProcessing`
    takes any error but "EOF" for one to parse again after (`mpeg_video_stream_framer_linux_amd64.go:106`):
    for a file without `00 00 00 01` it calls itself until Go's stack is full and the process ends.
21. **The sizes add up** (`multi_framed_rtp_source_linux_amd64.go:99`; `ToldItsSize`): `frameSize` is
    set to 0 by a reader that asks for a frame, DummySink asks once, and the source goes on delivering,
    so that the size in DummySink's "Received %d bytes." (`dummy_sink.go:33`) is that of all deliveries
    so far. The second round after a packet with data shows it.

Nil dereferences that the models contain but no comment of the code denies (TEARDOWN without
PLAY, an unknown file extension, a session destroyed before its timer exists, two PAUSEs
at once) are actions of the models and hazards in `PROJECT.json`.

## 5. What is proved

The theorems hold for every value of the constants that satisfies the modules' assumptions
(`ServerAssumption`, `StreamAssumption`, `PortsAssumption`, `ClientAssumption`,
`RtcpAssumption`, `SenderAssumption`, `PathAssumption`, `SeqSpaceAssumption`, `FramerAssumption`): that different
things have different names, that bounds are numbers, for ports that `initialPortNum` is even
and the last port not before it, for descriptions that they are finite sequences of lines (`IsLine`),
for packets that one is longer than three RTP headers and shorter than `OutPacketBufferMaxSize` (1448
bytes against 12 each and 2000000, or 1450 while another goroutine makes an RTCP instance), and that half of the sequence numbers is a number. They say nothing of
bounds being reached: `MaxRequests`, the number of players and the like are arbitrary.

### RtspServer_proofs

The invariant to prove is not inductive as TLC checks it. `DestroyedIsNotFound` says no
entry of the table was destroyed, and the step that could break it, `RegisterSession`, adds
a session that was not allocated: one must know that destroyed sessions are allocated.
`RegisteredIsWatched` needs to know, for every thread at "remove", which session it
removes, and that the goroutine of a session exists exactly while the session is
allocated. `EntryHasItsId` is what makes removal by id remove the right
session. So

    IInv == TypeOK /\ Shape /\ EntryHasItsId /\ DestroyedIsNotFound /\ RegisteredIsWatched

where `Shape` says what each program counter implies: which locals of a request are set
at each step of a handler, that the session a thread works on is allocated and bound where
the code dereferences it, and that a session's timer exists once its goroutine is past
`StartTimer`. `IInv` was first checked with TLC, then proved: initially, and for each action
of `Next` (one lemma per action or group of actions, one step per conjunct the action
disturbs).

| theorem | says |
|---|---|
| `Inductive` | `Spec => []IInv` |
| `TypeCorrect`, `EntriesHaveTheirIds`, `DestroyedStaysOut`, `NoSessionIsForgotten` | the conjuncts of `IInv` that `server_tables` checks |
| `ClosingReclaims` | `ClosedLeavesNoSession`: only two steps end a connection, and after the second its session's id has been taken out and cannot have come back |
| `ImplementsRegistry` | `RegistrySpec`: every step of the server is a step of the registry or a stutter |

### OnDemandStream_proofs

`PlayedWithRtcp` and `ClosedForAReason` are about what happened many steps of several threads
ago. That a goroutine in the loop finds an instance follows from its having passed
`CheckRtcp` or `NewRTCPInstance`, and from nobody taking an instance away, though another may put
its own in its place: `PlayersInv` says so for every program counter behind these steps. That a
closed socket was closed for a reason rests on `noFramesLeft`: a player sets it at the end of the
file and others clear it, but when it is set the file has ended, and a file stays ended
(`SinksInv`). `RtcpInv` (an instance belongs to a stream that a player was started for) is what
the refinement needs: `StreamLife` gives instances to started streams only.

    IInv == TypeOK /\ PlayersInv /\ HandlersInv /\ SinksInv /\ RtcpInv /\ ClosedForAReason

| theorem | says |
|---|---|
| `Inductive` | `Spec => []IInv` |
| `TypeCorrect`, `SendersHaveRtcp`, `PauseNeverCloses` | `TypeOK`, `PlayedWithRtcp`, `ClosedForAReason` |
| `ImplementsStreamLife` | `StreamsLiveAsAssumed`: three kinds of steps change how far a stream is, each by one stage, and every other step leaves it |

That two SETUPs may create a stream each needs two streams, which no passing run has; the theorem covers it.
With `ImplementsStreamLife` and the proofs about `RtspServer` the composition rests on the checked
interface of the two modules, at every size.

### MediaSession_proofs

That a port somebody names is his is a statement about one moment; to keep it, one must know who
holds which port at every stage on the way: a search at "rtcp" holds its even port, nobody's
`Close` frees another's, and a port that is found free is bound by one owner. `SearchHolds`
(for each stream) and `ClientInv` (for each stage of the client) say this, and the ports a search
left behind, which stay its own for ever, do no harm.

The parser is the second half, and its invariant is short: what the client holds is what
`InitWithSDP` read (`ReadInv`). What `InitWithSDP` reads is the work. `Read(d, i, r)` says of the
first `i` lines of any description how far the reader is - among the session's lines, in the first
section, behind it, or refused because some line so far is invalid - and that what it has by then
is, field by field, the last thing of its kind that those lines say; `ReadMore` keeps it from one
line to the next, and `Section` places the head and the end of the first section. What no line gave
is added at the end (`Completes`). For the server's own description `GeneratedSays` finds the
section and the lines that count.

| theorem | says |
|---|---|
| `Inductive` | `Spec => []IInv`, who holds which port |
| `TypeCorrect`, `NamedPortsAreOwned` | `TypeOK`, `PairsAreOwned` |
| `ReadsWhatIsWritten` | `ReadAsWritten`: of descriptions of any length, with any lines in any order |
| `UnderstandsWhatIsDescribed` | `DescribedIsUnderstood` |

An earlier form of `ReadAsWritten` was wrong for lines that no instance had: it took the payload
type from an "m=" line of a protocol that the formats do not match, and let a "b=" line
without a number hide the one before it, which the code does not (`media_session.go:99-116`, and
the parser of "b="). `Numberless` in `MCMediaSession` has such lines now.

### Rtcp_proofs

There are two parts. The first is about `Walk`, the loop of `processIncomingReport`, alone: a
recursive function of the position in the packet. `AcceptedIsCut` says that it accepts a
packet just when the packet can be cut into sub-packets that fill it, for every packet in which
the bytes of one place are at most one header (`IsPacket`; `RtcpAssumption` says it of `Foreign`).
`Walks` opens the recursion: that a function with `Walk`'s equation exists is shown from the end of
the packet backwards. `WalkCuts` and `CutsWalk` are the two directions.

The second part is about the goroutines. That the packet of one that was alone is whole says
nothing of the steps before; to keep it, one must know how far the goroutine has come
(`AloneInv`: while it is at work every other is idle, and the buffer holds the report, and behind it
the SDES or the BYE, at offsets known for each of its places), although the headers of old packets
are still behind the offset. That the client's BYE handler runs only for a BYE needs to
follow a BYE from the buffer over the wire to the client (`ByeInv`), and that a socket is closed only
after one.

    IInv == TypeOK /\ BufferOK(outBuf) /\ AloneInv /\ WireInv /\ ByeInv

| theorem | says |
|---|---|
| `AcceptedIsCut` | of every packet: accepted is the same as can be cut |
| `Inductive` | `Spec => []IInv` |
| `TypeCorrect` | `TypeOK`, with the buffer empty whenever no goroutine is at work |
| `WholePackets` | `AloneIsWhole` |
| `CutPacketsAccepted` | `AcceptsWhatCanBeCut`: also packets that goroutines built into each other are accepted only if they can be cut |

### RtspClient_proofs

The client relies on speaking in turns and checks it nowhere: its queue keeps every record, the
search for a number goes on from where it stopped, and the callbacks take the next command from
an index that the last one left. `TurnInv` says what keeps this together while the client is
`Undisturbed`: there is one place where the dialogue goes on - a thread that works on a request, or
the wire that carries it or its response -, the request is the latest one made, its record is at
the queue's end, and the search has not passed it. `BaseInv` is what holds whatever disturbs it:
types, in full, which place a thread may be at with which request, how often a record was sent.

    IInv == BaseInv /\ (Undisturbed => TurnInv)

What makes it hard is a request that is enqueued after it was written, so that its response may be
looked for before its record is there: `MainInv` says that this can happen to DESCRIBE alone,
because only DESCRIBE is sent by another thread than the one that reads.

| theorem | says |
|---|---|
| `Inductive` | `Spec => []IInv` |
| `TypeCorrect`, `SentAgainOnce` | `TypeOK`, `ResentOnce`: whatever disturbs the client |
| `ResponsesMatch`, `OnlyDESCRIBEIsOvertaken` | `AnswersMatch`, `ChainIsAnswered` |
| `SetUpBeforePlay`, `NoNilDereference` | `PlaysWhenSetUp`, `NoPanic` |

### MediaPath_proofs: the receiver

For every width of the numbers. Packets carry numbers reduced
modulo `SeqSpace`; the history keeps them whole. The lemmas come first: when `seqNumLT` on reduced
numbers agrees with the order of whole ones (less than half of the numbers apart), what each
operation of the reordering buffer does to a list in order (`InOrder`), and that the statistics
count a wrap once. Where a packet is stored is an `InsertAt` that searches; that the search ends at
the right place is an induction over the list.

    IInv == NumbersInv /\ PeersInv /\ ArrivedInv /\ StatsInv /\ RangeInv

`RangeInv` is the one that was missing: it names a number `e` at which the list, the expected number
and the frame delivered last meet - everything that waits is at least `e`, everything delivered
at most `e` - and says which of the shapes that the forgotten tail leaves the list is in.

| theorem | says |
|---|---|
| `Inductive` | `Spec => []IInv` |
| `StatisticsCountOn` | `HighestIsLatest` |
| `WaitingInOrder`, `FramesGoForward` | `ListInOrder` and, for every step, `DeliveredForward` |

The proof showed that these properties, as they had been stated without `OneRange`, fail beyond half
of the numbers, which no run had reached.

### MediaPath_proofs: the sender

For packets, buffers and units of every size, up to the second
PAUSE. Its properties speak of histories (all frames so far, put together) and the code of two
buffers that it overwrites, so the invariant says how the two meet:

* `Units`: the fragmenter's buffer `Holds` the part of the unit from `curDataOffset` on, and its first
  two bytes hold what is needed of the unit's header once that was overwritten; what the receiver's
  rules make of the fragments so far is the part before (`IsBegun`). That the two bytes which
  `NextFragment` overwrites belong to data already sent is `Rests`: between two frames the offset is
  beyond the two headers (here a packet must have room for more than them: `SenderAssumption`).
* What the output buffer holds between two steps is one of three things: nothing (`Empty`), the header
  that a PAUSE left (`LeftOver`), or a fragment that will be kept for ever (`Kept`; section 4, 3).
* `Packets`: packet `i` ends with frame `i`, and a frame that is kept is the only one without a packet.
* `Looped`: who may deliver a frame - the loop, or after a PAUSE a parser that parses again - and that
  what it was asked for then still lies behind the header.

      Inv == Typed /\ Looped /\ (Empty \/ LeftOver \/ Kept) /\ Packets /\ Units
      UntilPaused == pauses \in Nat /\ (pauses <= 1 => Inv)

TLC checked the invariant on the instance of `media_path` before it was proved. The three steps that
deliver a frame share `FrameStep`, and `FrameKeeps` proves them together, with one lemma for each
part of the invariant (`FramePackets`, `FrameUnits`, `FrameRest`).

| theorem | says |
|---|---|
| `SenderInductive` | `Spec => []UntilPaused` |
| `UnitsArePutTogether` | `FragmentsMakeUnits` |
| `FramesInPackets` | `PacketsCarryFrames`, while `pauses <= 1` |
| `MarkedPacketsEndUnits` | `MarkerEndsUnit`, while `pauses <= 1` |

The proof corrected the model. `PacketsCarryFrames` had been checked with one PAUSE and is false after
a second; a type of NAL unit that grew without bound would have met that of a fragment (28); and the
case `Kept` was found by asking what the buffer may hold.

### MediaPath_proofs: both

`WaitingHoldsPieces` relates the ends of the path: the bytes of a packet that waits at the client and
the NAL unit they were cut from. The argument has three parts, which meet in the packet:

* `SkippedIsPiece`: of a unit whose fragments so far, put together by the receiver's rules, are its
  beginning (`Units`), each fragment is a piece, the one from where the fragments before it end
  (`FlatBefore`). A piece is not empty, so `Units` also says that no fragment is (`Pieces`).
* `PayloadIsFrame`: behind one header a packet holds its frame and nothing else. While nobody pauses
  every packet is of this kind, which `Packets` says too.
* The receiver holds nothing that was not sent, whatever was lost, repeated or late, and with any number
  of pauses: each packet that waits has the payload of the packet sent with its number, with the payload
  format's header or, once it was used, without: it is used again in every round, and the header must
  not be taken off a second time.

      WaitsInv == IsBuffer(buffer) /\ buffer.at <= Len(buffer.list)
                    /\ (peer = "dorsvr" => AreOf(buffer, ...))

The last part needs no order: `WaitsOf(S, b)`, that the buffer's packets are of a set `S`, is kept by
every operation of the buffer, also beyond `OneRange`, where the list may be in disorder.

| theorem | says |
|---|---|
| `ReceiverInductive` | `Spec => [](CountsInv /\ WaitsInv)` |
| `PiecesWait` | `WaitingHoldsPieces` |
| `TypesUntilPaused` | `TypeOK`, while `pauses <= 1` |

`TypeOK` is proved up to the second PAUSE because every PAUSE may leave another header in the output
buffer (section 4, 9): that the buffer's content ends within the buffer depends, from then on, on how
many there may be (`MaxPauses`) and how large the buffer is. What it says of the receiver is in
`CountsInv` and `WaitsInv`, for any number of pauses.

### H264Framer_proofs

For every set of files that fit (`FilesFit`): a bank of the parser holds the file and what is looked
at behind its end (150000 bytes), and the reader's buffer each of its NAL units. The
condition on the bank cannot be dropped: a longer file makes the parser switch banks, which
carries over the wrong bytes, and `framer_banks` shows a unit delivered with them. The files of
`framer` fit.

The units of a file are what lies between start codes, a recursive function of the place in the file;
the parser finds them by looking at four bytes, saving four or one, starting again at each read
and when a reader has stopped. `UnitAt` says how the two meet: there is a byte `s` where the
unit begins that the parser is in; the units from `s` on are those not yet finished (`Remaining`);
no start code lies between `s` and the parser; and what somebody asked for is saved from `s` on.

    Inv == Typed /\ Bounded(parser) /\ ReadWhole /\ Flow /\ BeforeStart
             /\ WithinUnit /\ AtEnd /\ SetsAreUnits /\ PicturesEnd

`Flow` is about control: who is parsing though nobody asked must have been told to pause before, or
the source was closed. `SavedBytes` is the lemma that saving four bytes at a time skips no code,
`UnitBeforeCode` takes a unit off, and `RoomBehind` counts how many units may begin in a number of
bytes. `ReadKeeps` is common to all reads: one that finds the end of the file keeps the
invariant if no more than `LostAtEnd` units are left, and the lemmas `NoMoreCodes`, `NothingBehind` and
`FewBehind` show this for each place that reads.

| theorem | says |
|---|---|
| `FramerInvariant` | `Spec => []Inv` |
| `FramerTypeCorrect`, `ParameterSetsAreWhole`, `MarkerEndsPictures` | `TypeOK`, `SetsAreUnits`, `PicturesEnd` |
| `FramerGivesTheUnits` | `GivesTheUnits`: every step is one that `NalSource` allows, or a stutter |

The proof corrected the abstract specification. `NalSource` had said that no more than two units at the
end of a file do not come, and the run, with 3 bytes of the next slice header, agreed. The bound the
proof needs depends on the size of that header, and with 6 bytes TLC finds three units lost; 12 bytes
lose five.

### How recursion is reasoned about

No theorem of the library that takes a predicate can be used, but a set can stand for the predicate:
`Least` (from `NatLessThanWellFounded` and `WFMin`) says that a non-empty set of numbers has a
least one, and `NoLeast` that a set in which every number has a smaller one is empty. An induction
is `NoLeast` for the set of numbers at which the statement fails. `LeastNumber` has these two
lemmas; `Rtcp_proofs`, `MediaPath_proofs`, `MediaSession_proofs` and `H264Framer_proofs` work in this
way. `FlattenSeq` of the community modules is a recursive function too: `Flat` names it, `FlatExists`
and `FlatUnique` open it, and `FlatStep` is its equation.

### Only model-checked

The liveness properties (`SilentIsReclaimed`, `PlayersEnd`, `Ends`, `SearchEnds`: ENABLED and fairness
are out of the prover's reach); `PacketsCarryFrames`, `MarkerEndsUnit` and what `TypeOK` says of the
sender beyond the second PAUSE; and `H264Framer` for files that do not fit.

## 6. Not modelled, and what could come next

Not modelled, and why:

* **RTP over TCP** (`rtp_interface.go`): the client asks for UDP; what could go wrong is in the bytes
  on a socket that the RTSP responses share.
* **Text and the response buffer**: parsing and formatting of requests, headers and parameters, digest
  authentication (a function of strings), the parameter sets' bits, bit and byte helpers.
* **Time**: when reports are due, pacing, durations, jitter and PCR arithmetic, most of it on floats; in
  the models what depends on time may happen at any time.
* **Programs, system calls, HTTP tunnelling** (whose POST side is a stub), the transport-stream path
  (its sink's `ContinuePlaying` is empty), the 386 builds of files that are modelled from the amd64
  build.

What could come next: the list of TCP streams with `delStreamSocket`.
