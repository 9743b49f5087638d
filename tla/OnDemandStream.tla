---------------------------- MODULE OnDemandStream ----------------------------
(***************************************************************************)
(* A subsession's stream and everything that touches it:                   *)
(* OnDemandServerMediaSubsession hands it to sessions and runs their       *)
(* commands, StreamState.startPlaying is a goroutine started by every      *)
(* PLAY, and the one of them that gets the sink sends the file.  None of   *)
(* it is under a lock.                                                     *)
(*                                                                         *)
(* The threads are the handlers of the sessions (one command at a time     *)
(* each; RtspServer has the case of one session commanded by several       *)
(* connections) and the startPlaying goroutines, called players.  A step   *)
(* reads or writes one field that another thread uses, or a few that no    *)
(* other thread distinguishes.  (ContinuePlaying's test and creation of    *)
(* the fragmenter is one step: a second fragmenter is left out.)           *)
(*                                                                         *)
(* The loop over the packets is a recursion: source, parser and sink call  *)
(* each other, and a call returns only when the loop has ended.  A player  *)
(* that unwinds then runs what its callers still had to do.                *)
(*                                                                         *)
(* Modelled is RTP over UDP.  A frame is a NAL unit that fits a packet     *)
(* behind one header; a file has a start code and is how many frames of it *)
(* are left.                                                               *)
(***************************************************************************)
EXTENDS Naturals, FiniteSets

CONSTANTS
  Sessions,   \* client sessions that use the subsession
  Streams,    \* StreamState objects, allocated once each
  Players,    \* startPlaying goroutines, one for each PLAY (bounds the PLAYs)
  None,       \* Go's nil
  MaxFrames   \* bound: the frames in the file

Panics == {"nilRtcp", "nilSource", "readTwice"}

ASSUME StreamAssumption ==
  /\ None \notin Sessions \cup Streams \cup Players \cup Panics
  /\ MaxFrames \in Nat

VARIABLES
  lastStreamToken, \* OnDemandServerMediaSubsession.lastStreamToken
  destinations,    \* the sessions with an entry in its map of destinations
  token,           \* the streamToken each session holds
  handler,         \* where the handler of each session is
  player,          \* where each startPlaying goroutine is
  playerOf,        \* the session whose PLAY started it
  streamOf,        \* the StreamState it runs on
  created,         \* the StreamStates allocated so far
  rtcpInstance,    \* StreamState.rtcpInstance: the player that created it
  areCurrentlyPlaying,
  source,          \* rtpSink.Source: nil, the framer, or the fragmenter before it
  afterFunc,       \* whether MediaSink.afterFunc is not nil
  input,           \* the fragmenter's inputSource
  nested,          \* the calls of parse() each player has on its stack that
                   \* read the file and will be told that they have to retry
  fragmenterAwaits,\* isCurrentlyAwaitingData of the sink's H264FUAFragmenter
  framerAwaits,    \* ... and of the H264VideoStreamFramer it reads
  noFramesLeft,    \* MultiFramedRTPSink.noFramesLeft
  headers,         \* how many RTP headers lie in its outBuf: 2 for more
  kept,            \* whether outBuf has overflow data: a frame that did not fit
  left,            \* how many frames the file has left
  dests,           \* how often each session is in rtpGS.dests
  closed,          \* whether rtcpGS was closed
  panic            \* what ended the process, or None

subsession == <<lastStreamToken, destinations, token, created>>
threads    == <<playerOf, streamOf>>
sink       == <<source, afterFunc, input>>
awaiting   == <<fragmenterAwaits, framerAwaits>>
reading    == <<awaiting, noFramesLeft, left, nested>>
outBuf     == <<headers, kept>>
network    == <<dests, closed>>

vars == <<subsession, handler, player, threads, rtcpInstance,
          areCurrentlyPlaying, sink, reading, outBuf, network, panic>>

HandlerSteps == {"idle", "create", "tell", "clear", "clearFunc", "unset",
                 "torn", "dead"}

(* The steps of a player whose frames may still be sent.                   *)
Loop == {"pack", "get", "await", "awaitFramer", "read", "send", "close",
         "unwind"}

PlayerSteps == {"none", "check", "create", "addDest", "checkPlaying",
                "startSink", "setSource", "wrap", "setFragmenter",
                "setPlaying", "done", "dead"} \cup Loop

SourceKinds == {"nil", "framer", "fragmenter"}

Init ==
  /\ lastStreamToken = None
  /\ destinations = {}
  /\ token = [o \in Sessions |-> None]
  /\ handler = [o \in Sessions |-> "idle"]
  /\ player = [p \in Players |-> "none"]
  /\ playerOf = [p \in Players |-> None]
  /\ streamOf = [p \in Players |-> None]
  /\ created = {}
  /\ rtcpInstance = [k \in Streams |-> None]
  /\ areCurrentlyPlaying = [k \in Streams |-> FALSE]
  /\ source = [k \in Streams |-> "nil"]
  /\ afterFunc = [k \in Streams |-> FALSE]
  /\ input = [k \in Streams |-> "nil"]
  /\ nested = [p \in Players |-> 0]
  /\ fragmenterAwaits = [k \in Streams |-> FALSE]
  /\ framerAwaits = [k \in Streams |-> FALSE]
  /\ noFramesLeft = [k \in Streams |-> FALSE]
  /\ headers = [k \in Streams |-> 0]
  /\ kept = [k \in Streams |-> FALSE]
  /\ left = [k \in Streams |-> MaxFrames]
  /\ dests = [k \in Streams |-> [o \in Sessions |-> 0]]
  /\ closed = [k \in Streams |-> FALSE]
  /\ panic = None

-----------------------------------------------------------------------------
Handle(o, step) == handler' = [handler EXCEPT ![o] = step]
Move(p, step)   == player' = [player EXCEPT ![p] = step]

(* A panic in any goroutine ends all of them.                              *)
Panic(why) ==
  /\ panic' = why
  /\ handler' = [o \in Sessions |-> "dead"]
  /\ player' = [p \in Players |-> "dead"]
  /\ UNCHANGED <<subsession, threads, rtcpInstance, areCurrentlyPlaying, sink,
                 reading, outBuf, network>>

-----------------------------------------------------------------------------
(* The commands of a session.                                              *)

(* GetStreamParameters reuses lastStreamToken, or finds none.              *)
GetStreamParameters(o) ==
  /\ handler[o] = "idle"
  /\ IF lastStreamToken # None
     THEN /\ token' = [token EXCEPT ![o] = lastStreamToken]
          /\ destinations' = destinations \cup {o}
          /\ UNCHANGED handler
     ELSE Handle(o, "create") /\ UNCHANGED <<token, destinations>>
  /\ UNCHANGED <<lastStreamToken, created, player, threads, rtcpInstance,
                 areCurrentlyPlaying, sink, reading, outBuf, network, panic>>

(* It then makes a StreamState, whoever else made one meanwhile.           *)
NewStreamState(o) ==
  /\ handler[o] = "create"
  /\ \E k \in Streams \ created :
       /\ created' = created \cup {k}
       /\ lastStreamToken' = k
       /\ token' = [token EXCEPT ![o] = k]
  /\ destinations' = destinations \cup {o}
  /\ Handle(o, "idle")
  /\ UNCHANGED <<player, threads, rtcpInstance, areCurrentlyPlaying, sink,
                 reading, outBuf, network, panic>>

(* StartStream looks the session's destination up and starts the           *)
(* goroutine, which returns at once for a session without one.             *)
StartStream(o) ==
  /\ handler[o] = "idle"
  /\ token[o] # None
  /\ o \in destinations
  /\ \E p \in Players :
       /\ player[p] = "none"
       /\ Move(p, "check")
       /\ playerOf' = [playerOf EXCEPT ![p] = o]
       /\ streamOf' = [streamOf EXCEPT ![p] = token[o]]
  /\ UNCHANGED <<subsession, handler, rtcpInstance, areCurrentlyPlaying, sink,
                 reading, outBuf, network, panic>>

(* PauseStream: MediaSink.StopPlaying looks whether there is a source ...  *)
PauseStream(o) ==
  LET k == token[o]
  IN  /\ handler[o] = "idle"
      /\ k # None
      /\ Handle(o, IF source[k] = "nil" THEN "clear" ELSE "tell")
      /\ UNCHANGED <<subsession, player, threads, rtcpInstance,
                     areCurrentlyPlaying, sink, reading, outBuf, network,
                     panic>>

(* ... tells it that it is no longer being read ...                        *)
StopGettingFrames(o) ==
  LET k == token[o]
  IN  /\ handler[o] = "tell"
      /\ source[k] # "nil"
      /\ fragmenterAwaits' =
           [fragmenterAwaits EXCEPT ![k] = @ /\ source[k] # "fragmenter"]
      /\ framerAwaits' = [framerAwaits EXCEPT ![k] = @ /\ source[k] # "framer"]
      /\ Handle(o, "clear")
      /\ UNCHANGED <<subsession, player, threads, rtcpInstance,
                     areCurrentlyPlaying, sink, noFramesLeft, left, nested,
                     outBuf, network, panic>>

(* ... if no other PAUSE took it away ...                                  *)
StopGettingFramesPanics(o) ==
  /\ handler[o] = "tell"
  /\ source[token[o]] = "nil"
  /\ Panic("nilSource")

(* ... and forgets it ...                                                  *)
ClearSource(o) ==
  LET k == token[o]
  IN  /\ handler[o] = "clear"
      /\ source' = [source EXCEPT ![k] = "nil"]
      /\ Handle(o, "clearFunc")
      /\ UNCHANGED <<subsession, player, threads, rtcpInstance, afterFunc,
                     input, areCurrentlyPlaying, reading, outBuf, network,
                     panic>>

(* ... and the closure handler ...                                         *)
ClearAfterFunc(o) ==
  /\ handler[o] = "clearFunc"
  /\ afterFunc' = [afterFunc EXCEPT ![token[o]] = FALSE]
  /\ Handle(o, "unset")
  /\ UNCHANGED <<subsession, player, threads, rtcpInstance, source, input,
                 areCurrentlyPlaying, reading, outBuf, network, panic>>

(* ... and StreamState.pause says that nothing is playing.                 *)
UnsetPlaying(o) ==
  /\ handler[o] = "unset"
  /\ areCurrentlyPlaying' = [areCurrentlyPlaying EXCEPT ![token[o]] = FALSE]
  /\ Handle(o, "idle")
  /\ UNCHANGED <<subsession, player, threads, rtcpInstance, sink, reading,
                 outBuf, network, panic>>

(* Mutant: reclaim() drops the instance it destroyed.                      *)
DeleteStreamForgets(o) ==
  LET k == token[o]
  IN  /\ handler[o] = "idle"
      /\ k # None
      /\ rtcpInstance[k] # None
      /\ rtcpInstance' = [rtcpInstance EXCEPT ![k] = None]
      /\ destinations' = destinations \ {o}
      /\ closed' = [closed EXCEPT ![k] = TRUE]
      /\ Handle(o, "torn")
      /\ UNCHANGED <<lastStreamToken, token, created, player, threads,
                     areCurrentlyPlaying, sink, reading, outBuf, dests, panic>>

(* DeleteStream: endPlaying does nothing for UDP; the stream every session *)
(* shares is reclaimed: a BYE is sent and the RTCP socket closed.  (A      *)
(* session that times out or whose connection ends is destroyed without:   *)
(* here it is a session that sends no more commands.)                      *)
DeleteStream(o) ==
  LET k == token[o]
  IN  /\ handler[o] = "idle"
      /\ k # None
      /\ rtcpInstance[k] # None
      /\ destinations' = destinations \ {o}
      /\ closed' = [closed EXCEPT ![k] = TRUE]
      /\ Handle(o, "torn")
      /\ UNCHANGED <<lastStreamToken, token, created, player, threads,
                     rtcpInstance, areCurrentlyPlaying, sink, reading, dests,
                     outBuf, panic>>

(* reclaim() calls destroy() on the instance there may not be yet.         *)
DeleteStreamPanics(o) ==
  /\ handler[o] = "idle"
  /\ token[o] # None
  /\ rtcpInstance[token[o]] = None
  /\ Panic("nilRtcp")

-----------------------------------------------------------------------------
(* StreamState.startPlaying.                                               *)

(* Mutant: an instance somebody is creating is taken to be there.          *)
CheckRtcpUnfinished(p) ==
  LET k == streamOf[p]
      creating == \E q \in Players : streamOf[q] = k /\ player[q] = "create"
  IN  /\ player[p] = "check"
      /\ Move(p, IF rtcpInstance[k] = None /\ ~creating THEN "create" ELSE "addDest")
      /\ UNCHANGED <<subsession, handler, threads, rtcpInstance,
                     areCurrentlyPlaying, sink, reading, outBuf, network,
                     panic>>

CheckRtcp(p) ==
  /\ player[p] = "check"
  /\ Move(p, IF rtcpInstance[streamOf[p]] = None THEN "create" ELSE "addDest")
  /\ UNCHANGED <<subsession, handler, threads, rtcpInstance,
                 areCurrentlyPlaying, sink, reading, outBuf, network, panic>>

(* newRTCPInstance returns.  It first runs onExpire, which sleeps for as   *)
(* long as schedule() computes: it may not return at all.                  *)
NewRTCPInstance(p) ==
  /\ player[p] = "create"
  /\ rtcpInstance' = [rtcpInstance EXCEPT ![streamOf[p]] = p]
  /\ Move(p, "addDest")
  /\ UNCHANGED <<subsession, handler, threads, areCurrentlyPlaying, sink,
                 reading, outBuf, network, panic>>

(* AddDestination appends, and may lose what another player appends at the *)
(* same time; then a report is sent.                                       *)
AddDestination(p) ==
  LET k == streamOf[p]
      races == \E q \in Players \ {p} : player[q] = "addDest" /\ streamOf[q] = k
  IN  /\ player[p] = "addDest"
      /\ \/ dests' = [dests EXCEPT ![k][playerOf[p]] = @ + 1]
         \/ races /\ UNCHANGED dests
      /\ Move(p, "checkPlaying")
      /\ UNCHANGED <<subsession, handler, threads, rtcpInstance,
                     areCurrentlyPlaying, sink, reading, outBuf, closed, panic>>

CheckPlaying(p) ==
  /\ player[p] = "checkPlaying"
  /\ Move(p, IF areCurrentlyPlaying[streamOf[p]] THEN "done" ELSE "startSink")
  /\ UNCHANGED <<subsession, handler, threads, rtcpInstance,
                 areCurrentlyPlaying, sink, reading, outBuf, network, panic>>

(* MediaSink.StartPlaying refuses when the sink has a source ...           *)
StartSink(p) ==
  /\ player[p] = "startSink"
  /\ Move(p, IF source[streamOf[p]] # "nil" THEN "setPlaying" ELSE "setSource")
  /\ UNCHANGED <<subsession, handler, threads, rtcpInstance,
                 areCurrentlyPlaying, sink, reading, outBuf, network, panic>>

(* ... or gives it the framer and the closure handler ...                  *)
SetSource(p) ==
  LET k == streamOf[p]
  IN  /\ player[p] = "setSource"
      /\ source' = [source EXCEPT ![k] = "framer"]
      /\ afterFunc' = [afterFunc EXCEPT ![k] = TRUE]
      /\ Move(p, "wrap")
      /\ UNCHANGED <<subsession, handler, threads, rtcpInstance,
                     areCurrentlyPlaying, input, awaiting, noFramesLeft, left,
                     nested, outBuf, network, panic>>

(* ... ContinuePlaying has the fragmenter read whatever the source is ...  *)
WrapSource(p) ==
  LET k == streamOf[p]
  IN  /\ player[p] = "wrap"
      /\ input' = [input EXCEPT ![k] = source[k]]
      /\ Move(p, "setFragmenter")
      /\ UNCHANGED <<subsession, handler, threads, rtcpInstance, source,
                     afterFunc, areCurrentlyPlaying, reading, outBuf, network,
                     panic>>

(* ... puts the fragmenter in its place, PAUSE or not, and starts sending. *)
SetFragmenter(p) ==
  LET k == streamOf[p]
  IN  /\ player[p] = "setFragmenter"
      /\ source' = [source EXCEPT ![k] = "fragmenter"]
      /\ Move(p, "pack")
      /\ UNCHANGED <<subsession, handler, threads, rtcpInstance,
                     areCurrentlyPlaying, afterFunc, input, awaiting,
                     noFramesLeft, left, nested, outBuf, network, panic>>

(* The flag is set only when StartPlaying has returned.                    *)
SetPlaying(p) ==
  /\ player[p] = "setPlaying"
  /\ areCurrentlyPlaying' = [areCurrentlyPlaying EXCEPT ![streamOf[p]] = TRUE]
  /\ Move(p, "done")
  /\ UNCHANGED <<subsession, handler, threads, rtcpInstance, sink, reading,
                 outBuf, network, panic>>

-----------------------------------------------------------------------------
(* MultiFramedRTPSink's loop, one packet at a time.                        *)

(* Mutant: packFrame takes a missing source for the end of the file.       *)
PackFrameCloses(p) ==
  LET k == streamOf[p]
  IN  /\ player[p] = "pack"
      /\ headers' = [headers EXCEPT ![k] = IF @ = 0 THEN 1 ELSE 2]
      /\ noFramesLeft' = [noFramesLeft EXCEPT ![k] = ~kept[k] /\ source[k] = "nil"]
      /\ Move(p, IF kept[k] THEN "send"
                 ELSE IF source[k] # "nil" THEN "get" ELSE "close")
      /\ UNCHANGED <<subsession, handler, threads, rtcpInstance,
                     areCurrentlyPlaying, sink, awaiting, left, nested, kept,
                     network, panic>>

(* buildAndSendPacket writes a header, then packFrame uses the frame that  *)
(* is kept, or asks for one, or returns without a source: the header stays.*)
PackFrame(p) ==
  LET k == streamOf[p]
  IN  /\ player[p] = "pack"
      /\ headers' = [headers EXCEPT ![k] = IF @ = 0 THEN 1 ELSE 2]
      /\ noFramesLeft' = [noFramesLeft EXCEPT ![k] = FALSE]
      /\ Move(p, IF kept[k] THEN "send"
                 ELSE IF source[k] # "nil" THEN "get" ELSE "unwind")
      /\ UNCHANGED <<subsession, handler, threads, rtcpInstance,
                     areCurrentlyPlaying, sink, awaiting, left, nested, kept,
                     network, panic>>

(* What GetNextFrame of the sink's source meets: the fragmenter calls its  *)
(* inputSource, and every source checks that nobody is reading it.         *)
GetMet(k) ==
  CASE source[k] = "nil" -> "nilSource"
    [] source[k] = "fragmenter" /\ fragmenterAwaits[k] -> "readTwice"
    [] source[k] = "fragmenter" /\ input[k] = "fragmenter" -> "readTwice"
    [] source[k] = "fragmenter" /\ ~fragmenterAwaits[k] /\ input[k] = "nil" -> "nilSource"
    [] OTHER -> IF framerAwaits[k] THEN "readTwice" ELSE None

GetNextFrame(p) ==
  LET k == streamOf[p]
  IN  /\ player[p] = "get"
      /\ GetMet(k) = None
      /\ Move(p, IF source[k] = "framer" THEN "awaitFramer" ELSE "await")
      /\ UNCHANGED <<subsession, handler, threads, rtcpInstance,
                     areCurrentlyPlaying, sink, reading, outBuf, network,
                     panic>>

GetNextFramePanics(p) ==
  LET met == GetMet(streamOf[p])
  IN  /\ player[p] = "get"
      /\ met # None
      /\ Panic(met)

(* The sources say that they are being read.                               *)
AwaitData(p) ==
  LET k == streamOf[p]
  IN  /\ player[p] \in {"await", "awaitFramer"}
      /\ fragmenterAwaits' =
           [fragmenterAwaits EXCEPT ![k] = @ \/ player[p] = "await"]
      /\ framerAwaits' = [framerAwaits EXCEPT ![k] = TRUE]
      /\ Move(p, "read")
      /\ UNCHANGED <<subsession, handler, threads, rtcpInstance,
                     areCurrentlyPlaying, sink, noFramesLeft, left, nested,
                     outBuf, network, panic>>

(* Mutant: the end of the file is seen one read too late.                  *)
ReadFramePastEnd(p) ==
  LET k == streamOf[p]
  IN  /\ player[p] = "read"
      /\ left' = [left EXCEPT ![k] = @ - 1]
      /\ nested' = nested
      /\ fragmenterAwaits' = [fragmenterAwaits EXCEPT ![k] = FALSE]
      /\ framerAwaits' = [framerAwaits EXCEPT ![k] = FALSE]
      /\ Move(p, "send")
      /\ UNCHANGED <<subsession, handler, threads, rtcpInstance,
                     areCurrentlyPlaying, sink, noFramesLeft, outBuf, network,
                     panic>>

(* parse() finds the frame in its bank, or reads the file first: then the  *)
(* call is left on the stack.  afterGetting delivers the frame.            *)
ReadFrame(p) ==
  LET k == streamOf[p]
  IN  /\ player[p] = "read"
      /\ left[k] > 0
      /\ left' = [left EXCEPT ![k] = @ - 1]
      /\ \E reads \in {0, 1} :
           /\ left[k] = MaxFrames => reads = 1
           /\ nested' = [nested EXCEPT ![p] = @ + reads]
      /\ fragmenterAwaits' = [fragmenterAwaits EXCEPT ![k] = FALSE]
      /\ framerAwaits' = [framerAwaits EXCEPT ![k] = FALSE]
      /\ Move(p, "send")
      /\ UNCHANGED <<subsession, handler, threads, rtcpInstance,
                     areCurrentlyPlaying, sink, noFramesLeft, outBuf, network,
                     panic>>

(* Mutant: the end of the file is not told to the sink.                    *)
ClosureUntold(p) ==
  LET k == streamOf[p]
  IN  /\ player[p] = "read"
      /\ left[k] = 0
      /\ noFramesLeft' = noFramesLeft
      /\ fragmenterAwaits' = [fragmenterAwaits EXCEPT ![k] = FALSE]
      /\ framerAwaits' = [framerAwaits EXCEPT ![k] = FALSE]
      /\ headers' = [headers EXCEPT ![k] = 0]
      /\ Move(p, "close")
      /\ UNCHANGED <<subsession, handler, threads, rtcpInstance,
                     areCurrentlyPlaying, sink, left, nested, kept, network,
                     panic>>

(* The file has ended: handleClosure tells the sink, which takes what is   *)
(* in its buffer for sent.                                                 *)
HandleClosure(p) ==
  LET k == streamOf[p]
  IN  /\ player[p] = "read"
      /\ left[k] = 0
      /\ noFramesLeft' = [noFramesLeft EXCEPT ![k] = TRUE]
      /\ fragmenterAwaits' = [fragmenterAwaits EXCEPT ![k] = FALSE]
      /\ framerAwaits' = [framerAwaits EXCEPT ![k] = FALSE]
      /\ headers' = [headers EXCEPT ![k] = 0]
      /\ Move(p, "close")
      /\ UNCHANGED <<subsession, handler, threads, rtcpInstance,
                     areCurrentlyPlaying, sink, left, nested, kept, network,
                     panic>>

(* No other player is in the loop of p's sink.                             *)
Alone(p) ==
  \A q \in Players \ {p} : player[q] \in Loop => streamOf[q] # streamOf[p]

(* afterGettingFrame and sendPacketIfNecessary.  The frame goes out, or it *)
(* does not fit behind more than one header, is kept, and nothing goes out.*)
(* One that is kept has been copied into the packet and is counted again,  *)
(* so that it never fits (unless it is a small one, kept behind more than  *)
(* 60 headers: left out).  Two players in one outBuf may do anything to it.*)
SendPacket(p) ==
  LET k == streamOf[p]
      mayKeep == kept[k] \/ headers[k] > 1 \/ ~Alone(p)
      maySend == ~kept[k] \/ ~Alone(p)
  IN  /\ player[p] = "send"
      /\ \E keeps \in BOOLEAN :
           /\ IF keeps THEN mayKeep ELSE maySend
           /\ kept' = [kept EXCEPT ![k] = keeps]
      /\ headers' = [headers EXCEPT ![k] = 0]
      /\ Move(p, "close")
      /\ UNCHANGED <<subsession, handler, threads, rtcpInstance,
                     areCurrentlyPlaying, sink, reading, network, panic>>

(* The rest of sendPacketIfNecessary: unless a closure was seen, sleep and *)
(* build the next packet; otherwise OnSourceClosure reclaims the stream,   *)
(* if no PAUSE took the handler away.                                      *)
NextPacket(p) ==
  LET k == streamOf[p]
      reclaims == noFramesLeft[k] /\ afterFunc[k]
  IN  /\ player[p] = "close"
      /\ IF reclaims /\ rtcpInstance[k] = None
         THEN Panic("nilRtcp")
         ELSE /\ Move(p, IF noFramesLeft[k] THEN "unwind" ELSE "pack")
              /\ closed' = [closed EXCEPT ![k] = @ \/ reclaims]
              /\ UNCHANGED <<subsession, handler, threads, rtcpInstance,
                             areCurrentlyPlaying, sink, reading, outBuf, dests,
                             panic>>

(* A call of parse() that read the file returns an error even when it got  *)
(* the bytes, long after their frames were sent, and continueReadProcessing *)
(* parses once more, PAUSE or not.                                         *)
ContinueReadProcessing(p) ==
  /\ player[p] = "unwind"
  /\ IF nested[p] > 0
     THEN nested' = [nested EXCEPT ![p] = @ - 1] /\ Move(p, "read")
     ELSE Move(p, "setPlaying") /\ UNCHANGED nested
  /\ UNCHANGED <<subsession, handler, threads, rtcpInstance,
                 areCurrentlyPlaying, sink, awaiting, noFramesLeft, left,
                 outBuf, network, panic>>

-----------------------------------------------------------------------------
Command(o) ==
  \/ GetStreamParameters(o) \/ NewStreamState(o)
  \/ StartStream(o)
  \/ PauseStream(o) \/ StopGettingFrames(o) \/ StopGettingFramesPanics(o)
  \/ ClearSource(o) \/ ClearAfterFunc(o) \/ UnsetPlaying(o)
  \/ DeleteStream(o) \/ DeleteStreamPanics(o)

StartPlaying(p) ==
  \/ CheckRtcp(p) \/ AddDestination(p) \/ CheckPlaying(p)
  \/ StartSink(p) \/ SetSource(p) \/ WrapSource(p) \/ SetFragmenter(p)
  \/ SetPlaying(p)

Send(p) ==
  \/ PackFrame(p) \/ GetNextFrame(p) \/ GetNextFramePanics(p)
  \/ AwaitData(p) \/ ReadFrame(p) \/ HandleClosure(p) \/ SendPacket(p)
  \/ NextPacket(p) \/ ContinueReadProcessing(p)

Next ==
  \/ \E o \in Sessions : Command(o)
  \/ \E p \in Players : StartPlaying(p) \/ NewRTCPInstance(p) \/ Send(p)

Spec == Init /\ [][Next]_vars

(* Go runs every goroutine that can run.  newRTCPInstance is not assumed   *)
(* to return, nor any client to send a command.                            *)
FairSpec == Spec /\ \A p \in Players : WF_vars(StartPlaying(p) \/ Send(p))

-----------------------------------------------------------------------------
(* The types of the variables: a stream is set only once it is created, a  *)
(* session's counts are within the number of PLAYs, and nothing is read    *)
(* past the end of the file (stream_state.go, media_sink.go).              *)
TypeOK ==
  /\ lastStreamToken \in created \cup {None}
  /\ destinations \subseteq Sessions
  /\ created \subseteq Streams
  /\ token \in [Sessions -> created \cup {None}]
  /\ handler \in [Sessions -> HandlerSteps]
  /\ player \in [Players -> PlayerSteps]
  /\ playerOf \in [Players -> Sessions \cup {None}]
  /\ streamOf \in [Players -> created \cup {None}]
  /\ rtcpInstance \in [Streams -> Players \cup {None}]
  /\ areCurrentlyPlaying \in [Streams -> BOOLEAN]
  /\ afterFunc \in [Streams -> BOOLEAN]
  /\ fragmenterAwaits \in [Streams -> BOOLEAN]
  /\ framerAwaits \in [Streams -> BOOLEAN]
  /\ noFramesLeft \in [Streams -> BOOLEAN]
  /\ headers \in [Streams -> {0, 1, 2}]
  /\ kept \in [Streams -> BOOLEAN]
  /\ closed \in [Streams -> BOOLEAN]
  /\ source \in [Streams -> SourceKinds]
  /\ input \in [Streams -> SourceKinds]
  /\ left \in [Streams -> 0..MaxFrames]
  /\ dests \in [Streams -> [Sessions -> Nat]]
  /\ nested \in [Players -> Nat]
  /\ panic \in Panics \cup {None}

(* A goroutine that has the sink has an RTCP instance too, whoever made    *)
(* it: the end of the file never finds the nil that a TEARDOWN may find,   *)
(* although startPlaying tests and sets rtcpInstance without a lock.       *)
PlayedWithRtcp ==
  \A p \in Players : player[p] \in Loop => rtcpInstance[streamOf[p]] # None

(* The RTCP socket of a stream is closed only because a session that used  *)
(* the stream was torn down, or because a player came to the end of the    *)
(* file: however PAUSE, PLAY and the unwinding players interleave, a pause *)
(* never ends up in reclaim().                                             *)
ClosedForAReason ==
  \A k \in Streams :
    closed[k] => \/ left[k] = 0
                 \/ \E o \in Sessions :
                      token[o] = k /\ handler[o] \in {"torn", "dead"}

(* What RtspServer assumes of a stream, and of the nil its TEARDOWN meets. *)
Assumed == INSTANCE StreamLife WITH
  life <- [k \in Streams |->
             IF k \notin created THEN "nil"
             ELSE IF rtcpInstance[k] # None THEN "rtcp"
             ELSE IF \E p \in Players : streamOf[p] = k THEN "starting"
             ELSE "ready"]

(* A stream is set up, started and given its RTCP instance once, in that   *)
(* order, and keeps the instance, whatever the sessions' commands do.      *)
StreamsLiveAsAssumed == Assumed!Spec

KeepsNoFrame(p) == \A k \in Streams : streamOf[p] = k => ~kept[k]

(* A goroutine StartStream started ends once it has its RTCP instance, if  *)
(* from some time on it is alone with its sink and the sink keeps no frame,*)
(* whatever PLAYs and PAUSEs come: the loop reads to the end of the file,  *)
(* or to a PAUSE, and what it left on its stack comes to an end as well.   *)
(* (Two players with one sink may undo each other's noFramesLeft for ever, *)
(* and a frame that a PAUSE made the sink keep is packed again for ever,   *)
(* with no look at the source: that loop never ends, and the stream is     *)
(* never reclaimed by it.)                                                 *)
PlayersEnd ==
  \A p \in Players :
    <>[](Alone(p) /\ KeepsNoFrame(p))
      => (player[p] = "addDest" ~> player[p] \in {"done", "dead"})

-----------------------------------------------------------------------------
(* Three things the source says of itself, and the code does not do.       *)

(* GetNextFrame's assertion: nobody reads a source while it is being read. *)
NeverReadsTwice == panic # "readTwice"

(* startPlaying's comment: the groupsocks are told about a destination     *)
(* "in case they don't already have it".                                   *)
EachDestinationOnce ==
  \A k \in Streams, o \in Sessions : dests[k][o] <= 1

(* StopPlaying's comment: the source is told "that we're no longer         *)
(* interested".  A player that finds the sink without a source then reads  *)
(* nothing until a PLAY gives the sink a source again.                     *)
StoppedReadsNoMore ==
  [][\A p \in Players :
       player[p] = "unwind" /\ source[streamOf[p]] = "nil"
         => player'[p] # "read" \/ left[streamOf[p]] = 0]_vars
=============================================================================
