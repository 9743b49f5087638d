------------------------ MODULE OnDemandStream_proofs ------------------------
(***************************************************************************)
(* The invariants of OnDemandStream, and that it implements StreamLife,    *)
(* for any number of sessions, streams, players and frames.                *)
(*                                                                         *)
(* PlayedWithRtcp is not inductive: that a goroutine in the loop finds an  *)
(* instance follows from what startPlaying did many steps before, and      *)
(* nobody ever takes an instance away.  ClosedForAReason rests on the      *)
(* sink's noFramesLeft: what is set by a read at the end of the file is    *)
(* true of the file for ever, whoever clears and sets it in between.       *)
(***************************************************************************)
EXTENDS OnDemandStream, TLAPS

(* Where a player is that has got an instance for its stream.              *)
WithRtcp == PlayerSteps \ {"none", "check", "create", "dead"}

(* A player runs on a stream, for a session, and has passed the creation   *)
(* of the instance where its program counter says so.                      *)
PlayersInv ==
  \A p \in Players :
    /\ player[p] \notin {"none", "dead"} =>
         streamOf[p] \in created /\ playerOf[p] \in Sessions
    /\ player[p] = "none" => streamOf[p] = None
    /\ player[p] \in WithRtcp => rtcpInstance[streamOf[p]] # None

(* A session in the middle of a command has a stream.                      *)
HandlersInv ==
  \A o \in Sessions :
    handler[o] \notin {"idle", "create", "dead"} => token[o] \in created

(* The sink knows of the end of the file only when it was reached.         *)
SinksInv ==
  \A k \in Streams : noFramesLeft[k] => left[k] = 0

(* An instance is created for a stream that a player was started for.      *)
RtcpInv ==
  \A k \in Streams :
    rtcpInstance[k] # None => k \in created /\ \E p \in Players : streamOf[p] = k

IInv ==
  TypeOK /\ PlayersInv /\ HandlersInv /\ SinksInv /\ RtcpInv /\ ClosedForAReason

-----------------------------------------------------------------------------
LEMMA NoneIsNone ==
  /\ None \notin Sessions /\ None \notin Streams /\ None \notin Players
  /\ None \notin Panics
  BY StreamAssumption

LEMMA InitHolds == Init => IInv
<1> SUFFICES ASSUME Init PROVE IInv
  OBVIOUS
<1> USE DEF Init
<1>1. TypeOK
  BY StreamAssumption DEF TypeOK, HandlerSteps, PlayerSteps, SourceKinds
<1>2. PlayersInv /\ HandlersInv /\ SinksInv /\ RtcpInv /\ ClosedForAReason
  BY DEF PlayersInv, HandlersInv, SinksInv, RtcpInv, ClosedForAReason, WithRtcp
<1> QED BY <1>1, <1>2 DEF IInv

LEMMA GetStreamParametersKeeps ==
  ASSUME IInv, NEW o \in Sessions, GetStreamParameters(o)
  PROVE  IInv'
<1> USE NoneIsNone DEF IInv, GetStreamParameters, Handle, Move, subsession, threads, sink,
        awaiting, reading, outBuf, network
<1>1. TypeOK'
  <2>1. CASE lastStreamToken # None
    <3>1. /\ lastStreamToken \in created
          /\ token \in [Sessions -> created \cup {None}]
          /\ destinations \subseteq Sessions
      BY <2>1 DEF TypeOK
    <3>2. /\ token' = [token EXCEPT ![o] = lastStreamToken]
          /\ destinations' = destinations \cup {o}
          /\ UNCHANGED <<lastStreamToken, created, handler, player, threads,
                         rtcpInstance, areCurrentlyPlaying, sink, reading,
                         outBuf, network, panic>>
      BY <2>1
    <3>3. token' \in [Sessions -> created' \cup {None}]
      BY <3>1, <3>2
    <3> QED BY <3>1, <3>2, <3>3 DEF TypeOK
  <2>2. CASE lastStreamToken = None
    BY <2>2 DEF TypeOK, HandlerSteps
  <2> QED BY <2>1, <2>2
<1>2. PlayersInv'
  BY DEF PlayersInv, TypeOK, WithRtcp, PlayerSteps, Loop
<1>3. HandlersInv'
  BY DEF HandlersInv, TypeOK
<1>4. SinksInv'
  BY DEF SinksInv, TypeOK
<1>5. RtcpInv'
  BY DEF RtcpInv, PlayersInv, TypeOK
<1>6. ClosedForAReason'
  BY DEF ClosedForAReason, TypeOK
<1> QED BY <1>1, <1>2, <1>3, <1>4, <1>5, <1>6

LEMMA NewStreamStateKeeps ==
  ASSUME IInv, NEW o \in Sessions, NewStreamState(o)
  PROVE  IInv'
<1> USE NoneIsNone DEF IInv, NewStreamState, Handle, Move, subsession, threads, sink,
        awaiting, reading, outBuf, network
<1>1. TypeOK'
  BY DEF TypeOK, HandlerSteps, PlayerSteps, Loop, SourceKinds, HandlersInv, PlayersInv
<1>2. PlayersInv'
  BY DEF PlayersInv, TypeOK, WithRtcp, PlayerSteps, Loop
<1>3. HandlersInv'
  BY DEF HandlersInv, TypeOK
<1>4. SinksInv'
  BY DEF SinksInv, TypeOK
<1>5. RtcpInv'
  BY DEF RtcpInv, PlayersInv, TypeOK
<1>6. ClosedForAReason'
  BY DEF ClosedForAReason, TypeOK
<1> QED BY <1>1, <1>2, <1>3, <1>4, <1>5, <1>6

LEMMA PauseStreamKeeps ==
  ASSUME IInv, NEW o \in Sessions, PauseStream(o)
  PROVE  IInv'
<1> USE NoneIsNone DEF IInv, PauseStream, Handle, Move, subsession, threads, sink,
        awaiting, reading, outBuf, network
<1>1. TypeOK'
  BY DEF TypeOK, HandlerSteps, PlayerSteps, Loop, SourceKinds, HandlersInv, PlayersInv
<1>2. PlayersInv'
  BY DEF PlayersInv, TypeOK, WithRtcp, PlayerSteps, Loop
<1>3. HandlersInv'
  BY DEF HandlersInv, TypeOK
<1>4. SinksInv'
  BY DEF SinksInv, TypeOK
<1>5. RtcpInv'
  BY DEF RtcpInv, PlayersInv, TypeOK
<1>6. ClosedForAReason'
  BY DEF ClosedForAReason, TypeOK
<1> QED BY <1>1, <1>2, <1>3, <1>4, <1>5, <1>6

LEMMA StopGettingFramesKeeps ==
  ASSUME IInv, NEW o \in Sessions, StopGettingFrames(o)
  PROVE  IInv'
<1> USE NoneIsNone DEF IInv, StopGettingFrames, Handle, Move, subsession, threads, sink,
        awaiting, reading, outBuf, network
<1>1. TypeOK'
  BY DEF TypeOK, HandlerSteps, PlayerSteps, Loop, SourceKinds, HandlersInv, PlayersInv
<1>2. PlayersInv'
  BY DEF PlayersInv, TypeOK, WithRtcp, PlayerSteps, Loop
<1>3. HandlersInv'
  BY DEF HandlersInv, TypeOK
<1>4. SinksInv'
  BY DEF SinksInv, TypeOK
<1>5. RtcpInv'
  BY DEF RtcpInv, PlayersInv, TypeOK
<1>6. ClosedForAReason'
  BY DEF ClosedForAReason, TypeOK
<1> QED BY <1>1, <1>2, <1>3, <1>4, <1>5, <1>6

LEMMA ClearSourceKeeps ==
  ASSUME IInv, NEW o \in Sessions, ClearSource(o)
  PROVE  IInv'
<1> USE NoneIsNone DEF IInv, ClearSource, Handle, Move, subsession, threads, sink,
        awaiting, reading, outBuf, network
<1>1. TypeOK'
  BY DEF TypeOK, HandlerSteps, PlayerSteps, Loop, SourceKinds, HandlersInv, PlayersInv
<1>2. PlayersInv'
  BY DEF PlayersInv, TypeOK, WithRtcp, PlayerSteps, Loop
<1>3. HandlersInv'
  BY DEF HandlersInv, TypeOK
<1>4. SinksInv'
  BY DEF SinksInv, TypeOK
<1>5. RtcpInv'
  BY DEF RtcpInv, PlayersInv, TypeOK
<1>6. ClosedForAReason'
  BY DEF ClosedForAReason, TypeOK
<1> QED BY <1>1, <1>2, <1>3, <1>4, <1>5, <1>6

LEMMA ClearAfterFuncKeeps ==
  ASSUME IInv, NEW o \in Sessions, ClearAfterFunc(o)
  PROVE  IInv'
<1> USE NoneIsNone DEF IInv, ClearAfterFunc, Handle, Move, subsession, threads, sink,
        awaiting, reading, outBuf, network
<1>1. TypeOK'
  BY DEF TypeOK, HandlerSteps, PlayerSteps, Loop, SourceKinds, HandlersInv, PlayersInv
<1>2. PlayersInv'
  BY DEF PlayersInv, TypeOK, WithRtcp, PlayerSteps, Loop
<1>3. HandlersInv'
  BY DEF HandlersInv, TypeOK
<1>4. SinksInv'
  BY DEF SinksInv, TypeOK
<1>5. RtcpInv'
  BY DEF RtcpInv, PlayersInv, TypeOK
<1>6. ClosedForAReason'
  BY DEF ClosedForAReason, TypeOK
<1> QED BY <1>1, <1>2, <1>3, <1>4, <1>5, <1>6

LEMMA UnsetPlayingKeeps ==
  ASSUME IInv, NEW o \in Sessions, UnsetPlaying(o)
  PROVE  IInv'
<1> USE NoneIsNone DEF IInv, UnsetPlaying, Handle, Move, subsession, threads, sink,
        awaiting, reading, outBuf, network
<1>1. TypeOK'
  BY DEF TypeOK, HandlerSteps, PlayerSteps, Loop, SourceKinds, HandlersInv, PlayersInv
<1>2. PlayersInv'
  BY DEF PlayersInv, TypeOK, WithRtcp, PlayerSteps, Loop
<1>3. HandlersInv'
  BY DEF HandlersInv, TypeOK
<1>4. SinksInv'
  BY DEF SinksInv, TypeOK
<1>5. RtcpInv'
  BY DEF RtcpInv, PlayersInv, TypeOK
<1>6. ClosedForAReason'
  BY DEF ClosedForAReason, TypeOK
<1> QED BY <1>1, <1>2, <1>3, <1>4, <1>5, <1>6

LEMMA DeleteStreamKeeps ==
  ASSUME IInv, NEW o \in Sessions, DeleteStream(o)
  PROVE  IInv'
<1> USE NoneIsNone DEF IInv, DeleteStream, Handle, Move, subsession, threads, sink,
        awaiting, reading, outBuf, network
<1>1. TypeOK'
  BY DEF TypeOK, HandlerSteps, PlayerSteps, Loop, SourceKinds, HandlersInv, PlayersInv
<1>2. PlayersInv'
  BY DEF PlayersInv, TypeOK, WithRtcp, PlayerSteps, Loop
<1>3. HandlersInv'
  BY DEF HandlersInv, TypeOK
<1>4. SinksInv'
  BY DEF SinksInv, TypeOK
<1>5. RtcpInv'
  BY DEF RtcpInv, PlayersInv, TypeOK
<1>6. ClosedForAReason'
  BY DEF ClosedForAReason, TypeOK
<1> QED BY <1>1, <1>2, <1>3, <1>4, <1>5, <1>6

LEMMA StartStreamKeeps ==
  ASSUME IInv, NEW o \in Sessions, StartStream(o)
  PROVE  IInv'
<1> USE NoneIsNone DEF IInv, StartStream, Handle, Move, subsession, threads, sink,
        awaiting, reading, outBuf, network
<1>1. TypeOK'
  BY DEF TypeOK, HandlerSteps, PlayerSteps, Loop, SourceKinds, HandlersInv, PlayersInv
<1>2. PlayersInv'
  BY DEF PlayersInv, TypeOK, WithRtcp, PlayerSteps, Loop
<1>3. HandlersInv'
  BY DEF HandlersInv, TypeOK
<1>4. SinksInv'
  BY DEF SinksInv, TypeOK
<1>5. RtcpInv'
  BY DEF RtcpInv, PlayersInv, TypeOK
<1>6. ClosedForAReason'
  BY DEF ClosedForAReason, TypeOK
<1> QED BY <1>1, <1>2, <1>3, <1>4, <1>5, <1>6

LEMMA CheckRtcpKeeps ==
  ASSUME IInv, NEW p \in Players, CheckRtcp(p)
  PROVE  IInv'
<1> USE NoneIsNone DEF IInv, CheckRtcp, Handle, Move, subsession, threads, sink,
        awaiting, reading, outBuf, network
<1>1. TypeOK'
  BY DEF TypeOK, HandlerSteps, PlayerSteps, Loop, SourceKinds, HandlersInv, PlayersInv
<1>2. PlayersInv'
  BY DEF PlayersInv, TypeOK, WithRtcp, PlayerSteps, Loop
<1>3. HandlersInv'
  BY DEF HandlersInv, TypeOK
<1>4. SinksInv'
  BY DEF SinksInv, TypeOK
<1>5. RtcpInv'
  BY DEF RtcpInv, PlayersInv, TypeOK
<1>6. ClosedForAReason'
  BY DEF ClosedForAReason, TypeOK
<1> QED BY <1>1, <1>2, <1>3, <1>4, <1>5, <1>6

LEMMA AddDestinationKeeps ==
  ASSUME IInv, NEW p \in Players, AddDestination(p)
  PROVE  IInv'
<1> USE NoneIsNone DEF IInv, AddDestination, Handle, Move, subsession, threads, sink,
        awaiting, reading, outBuf, network
<1>1. TypeOK'
  <2>1. /\ streamOf[p] \in Streams /\ playerOf[p] \in Sessions
        /\ dests \in [Streams -> [Sessions -> Nat]]
    BY DEF PlayersInv, TypeOK
  <2>2. dests' \in [Streams -> [Sessions -> Nat]]
    BY <2>1
  <2> QED BY <2>2 DEF TypeOK, PlayerSteps, Loop
<1>2. PlayersInv'
  BY DEF PlayersInv, TypeOK, WithRtcp, PlayerSteps, Loop
<1>3. HandlersInv'
  BY DEF HandlersInv, TypeOK
<1>4. SinksInv'
  BY DEF SinksInv, TypeOK
<1>5. RtcpInv'
  BY DEF RtcpInv, PlayersInv, TypeOK
<1>6. ClosedForAReason'
  BY DEF ClosedForAReason, TypeOK
<1> QED BY <1>1, <1>2, <1>3, <1>4, <1>5, <1>6

LEMMA CheckPlayingKeeps ==
  ASSUME IInv, NEW p \in Players, CheckPlaying(p)
  PROVE  IInv'
<1> USE NoneIsNone DEF IInv, CheckPlaying, Handle, Move, subsession, threads, sink,
        awaiting, reading, outBuf, network
<1>1. TypeOK'
  BY DEF TypeOK, HandlerSteps, PlayerSteps, Loop, SourceKinds, HandlersInv, PlayersInv
<1>2. PlayersInv'
  BY DEF PlayersInv, TypeOK, WithRtcp, PlayerSteps, Loop
<1>3. HandlersInv'
  BY DEF HandlersInv, TypeOK
<1>4. SinksInv'
  BY DEF SinksInv, TypeOK
<1>5. RtcpInv'
  BY DEF RtcpInv, PlayersInv, TypeOK
<1>6. ClosedForAReason'
  BY DEF ClosedForAReason, TypeOK
<1> QED BY <1>1, <1>2, <1>3, <1>4, <1>5, <1>6

LEMMA StartSinkKeeps ==
  ASSUME IInv, NEW p \in Players, StartSink(p)
  PROVE  IInv'
<1> USE NoneIsNone DEF IInv, StartSink, Handle, Move, subsession, threads, sink,
        awaiting, reading, outBuf, network
<1>1. TypeOK'
  BY DEF TypeOK, HandlerSteps, PlayerSteps, Loop, SourceKinds, HandlersInv, PlayersInv
<1>2. PlayersInv'
  BY DEF PlayersInv, TypeOK, WithRtcp, PlayerSteps, Loop
<1>3. HandlersInv'
  BY DEF HandlersInv, TypeOK
<1>4. SinksInv'
  BY DEF SinksInv, TypeOK
<1>5. RtcpInv'
  BY DEF RtcpInv, PlayersInv, TypeOK
<1>6. ClosedForAReason'
  BY DEF ClosedForAReason, TypeOK
<1> QED BY <1>1, <1>2, <1>3, <1>4, <1>5, <1>6

LEMMA SetSourceKeeps ==
  ASSUME IInv, NEW p \in Players, SetSource(p)
  PROVE  IInv'
<1> USE NoneIsNone DEF IInv, SetSource, Handle, Move, subsession, threads, sink,
        awaiting, reading, outBuf, network
<1>1. TypeOK'
  BY DEF TypeOK, HandlerSteps, PlayerSteps, Loop, SourceKinds, HandlersInv, PlayersInv
<1>2. PlayersInv'
  BY DEF PlayersInv, TypeOK, WithRtcp, PlayerSteps, Loop
<1>3. HandlersInv'
  BY DEF HandlersInv, TypeOK
<1>4. SinksInv'
  BY DEF SinksInv, TypeOK
<1>5. RtcpInv'
  BY DEF RtcpInv, PlayersInv, TypeOK
<1>6. ClosedForAReason'
  BY DEF ClosedForAReason, TypeOK
<1> QED BY <1>1, <1>2, <1>3, <1>4, <1>5, <1>6

LEMMA WrapSourceKeeps ==
  ASSUME IInv, NEW p \in Players, WrapSource(p)
  PROVE  IInv'
<1> USE NoneIsNone DEF IInv, WrapSource, Handle, Move, subsession, threads, sink,
        awaiting, reading, outBuf, network
<1>1. TypeOK'
  BY DEF TypeOK, HandlerSteps, PlayerSteps, Loop, SourceKinds, HandlersInv, PlayersInv
<1>2. PlayersInv'
  BY DEF PlayersInv, TypeOK, WithRtcp, PlayerSteps, Loop
<1>3. HandlersInv'
  BY DEF HandlersInv, TypeOK
<1>4. SinksInv'
  BY DEF SinksInv, TypeOK
<1>5. RtcpInv'
  BY DEF RtcpInv, PlayersInv, TypeOK
<1>6. ClosedForAReason'
  BY DEF ClosedForAReason, TypeOK
<1> QED BY <1>1, <1>2, <1>3, <1>4, <1>5, <1>6

LEMMA SetFragmenterKeeps ==
  ASSUME IInv, NEW p \in Players, SetFragmenter(p)
  PROVE  IInv'
<1> USE NoneIsNone DEF IInv, SetFragmenter, Handle, Move, subsession, threads, sink,
        awaiting, reading, outBuf, network
<1>1. TypeOK'
  BY DEF TypeOK, HandlerSteps, PlayerSteps, Loop, SourceKinds, HandlersInv, PlayersInv
<1>2. PlayersInv'
  BY DEF PlayersInv, TypeOK, WithRtcp, PlayerSteps, Loop
<1>3. HandlersInv'
  BY DEF HandlersInv, TypeOK
<1>4. SinksInv'
  BY DEF SinksInv, TypeOK
<1>5. RtcpInv'
  BY DEF RtcpInv, PlayersInv, TypeOK
<1>6. ClosedForAReason'
  BY DEF ClosedForAReason, TypeOK
<1> QED BY <1>1, <1>2, <1>3, <1>4, <1>5, <1>6

LEMMA SetPlayingKeeps ==
  ASSUME IInv, NEW p \in Players, SetPlaying(p)
  PROVE  IInv'
<1> USE NoneIsNone DEF IInv, SetPlaying, Handle, Move, subsession, threads, sink,
        awaiting, reading, outBuf, network
<1>1. TypeOK'
  BY DEF TypeOK, HandlerSteps, PlayerSteps, Loop, SourceKinds, HandlersInv, PlayersInv
<1>2. PlayersInv'
  BY DEF PlayersInv, TypeOK, WithRtcp, PlayerSteps, Loop
<1>3. HandlersInv'
  BY DEF HandlersInv, TypeOK
<1>4. SinksInv'
  BY DEF SinksInv, TypeOK
<1>5. RtcpInv'
  BY DEF RtcpInv, PlayersInv, TypeOK
<1>6. ClosedForAReason'
  BY DEF ClosedForAReason, TypeOK
<1> QED BY <1>1, <1>2, <1>3, <1>4, <1>5, <1>6

LEMMA NewRTCPInstanceKeeps ==
  ASSUME IInv, NEW p \in Players, NewRTCPInstance(p)
  PROVE  IInv'
<1> USE NoneIsNone DEF IInv, NewRTCPInstance, Handle, Move, subsession, threads, sink,
        awaiting, reading, outBuf, network
<1>1. TypeOK'
  BY DEF TypeOK, HandlerSteps, PlayerSteps, Loop, SourceKinds, HandlersInv, PlayersInv
<1>2. PlayersInv'
  BY DEF PlayersInv, TypeOK, WithRtcp, PlayerSteps, Loop
<1>3. HandlersInv'
  BY DEF HandlersInv, TypeOK
<1>4. SinksInv'
  BY DEF SinksInv, TypeOK
<1>5. RtcpInv'
  BY DEF RtcpInv, PlayersInv, TypeOK
<1>6. ClosedForAReason'
  BY DEF ClosedForAReason, TypeOK
<1> QED BY <1>1, <1>2, <1>3, <1>4, <1>5, <1>6

LEMMA PackFrameKeeps ==
  ASSUME IInv, NEW p \in Players, PackFrame(p)
  PROVE  IInv'
<1> USE NoneIsNone DEF IInv, PackFrame, Handle, Move, subsession, threads, sink,
        awaiting, reading, outBuf, network
<1>1. TypeOK'
  <2>1. headers' \in [Streams -> {0, 1, 2}]
    BY DEF TypeOK
  <2>2. player' \in [Players -> PlayerSteps]
    BY DEF TypeOK, PlayerSteps, Loop
  <2>3. noFramesLeft' \in [Streams -> BOOLEAN]
    BY DEF TypeOK
  <2> QED BY <2>1, <2>2, <2>3 DEF TypeOK
<1>2. PlayersInv'
  BY DEF PlayersInv, TypeOK, WithRtcp, PlayerSteps, Loop
<1>3. HandlersInv'
  BY DEF HandlersInv, TypeOK
<1>4. SinksInv'
  BY DEF SinksInv, TypeOK
<1>5. RtcpInv'
  BY DEF RtcpInv, PlayersInv, TypeOK
<1>6. ClosedForAReason'
  BY DEF ClosedForAReason, TypeOK
<1> QED BY <1>1, <1>2, <1>3, <1>4, <1>5, <1>6

LEMMA GetNextFrameKeeps ==
  ASSUME IInv, NEW p \in Players, GetNextFrame(p)
  PROVE  IInv'
<1> USE NoneIsNone DEF IInv, GetNextFrame, Handle, Move, subsession, threads, sink,
        awaiting, reading, outBuf, network
<1>1. TypeOK'
  BY DEF TypeOK, HandlerSteps, PlayerSteps, Loop, SourceKinds, HandlersInv, PlayersInv
<1>2. PlayersInv'
  BY DEF PlayersInv, TypeOK, WithRtcp, PlayerSteps, Loop
<1>3. HandlersInv'
  BY DEF HandlersInv, TypeOK
<1>4. SinksInv'
  BY DEF SinksInv, TypeOK
<1>5. RtcpInv'
  BY DEF RtcpInv, PlayersInv, TypeOK
<1>6. ClosedForAReason'
  BY DEF ClosedForAReason, TypeOK
<1> QED BY <1>1, <1>2, <1>3, <1>4, <1>5, <1>6

LEMMA AwaitDataKeeps ==
  ASSUME IInv, NEW p \in Players, AwaitData(p)
  PROVE  IInv'
<1> USE NoneIsNone DEF IInv, AwaitData, Handle, Move, subsession, threads, sink,
        awaiting, reading, outBuf, network
<1>1. TypeOK'
  BY DEF TypeOK, HandlerSteps, PlayerSteps, Loop, SourceKinds, HandlersInv, PlayersInv
<1>2. PlayersInv'
  BY DEF PlayersInv, TypeOK, WithRtcp, PlayerSteps, Loop
<1>3. HandlersInv'
  BY DEF HandlersInv, TypeOK
<1>4. SinksInv'
  BY DEF SinksInv, TypeOK
<1>5. RtcpInv'
  BY DEF RtcpInv, PlayersInv, TypeOK
<1>6. ClosedForAReason'
  BY DEF ClosedForAReason, TypeOK
<1> QED BY <1>1, <1>2, <1>3, <1>4, <1>5, <1>6

LEMMA ReadFrameKeeps ==
  ASSUME IInv, NEW p \in Players, ReadFrame(p)
  PROVE  IInv'
<1> USE NoneIsNone DEF IInv, ReadFrame, Handle, Move, subsession, threads, sink,
        awaiting, reading, outBuf, network
<1>1. TypeOK'
  <2>1. nested' \in [Players -> Nat]
    BY DEF TypeOK
  <2>2. left' \in [Streams -> 0 .. MaxFrames]
    <3>1. left[streamOf[p]] \in 0 .. MaxFrames /\ left[streamOf[p]] > 0
      BY DEF TypeOK, PlayersInv
    <3>2. left[streamOf[p]] - 1 \in 0 .. MaxFrames
      BY <3>1, StreamAssumption
    <3> QED BY <3>2 DEF TypeOK
  <2> QED BY <2>1, <2>2 DEF TypeOK, PlayerSteps, Loop
<1>2. PlayersInv'
  BY DEF PlayersInv, TypeOK, WithRtcp, PlayerSteps, Loop
<1>3. HandlersInv'
  BY DEF HandlersInv, TypeOK
<1>4. SinksInv'
  BY DEF SinksInv, TypeOK
<1>5. RtcpInv'
  BY DEF RtcpInv, PlayersInv, TypeOK
<1>6. ClosedForAReason'
  BY DEF ClosedForAReason, TypeOK
<1> QED BY <1>1, <1>2, <1>3, <1>4, <1>5, <1>6

LEMMA HandleClosureKeeps ==
  ASSUME IInv, NEW p \in Players, HandleClosure(p)
  PROVE  IInv'
<1> USE NoneIsNone DEF IInv, HandleClosure, Handle, Move, subsession, threads, sink,
        awaiting, reading, outBuf, network
<1>1. TypeOK'
  <2>1. headers' \in [Streams -> {0, 1, 2}]
    BY DEF TypeOK
  <2>2. player' \in [Players -> PlayerSteps]
    BY DEF TypeOK, PlayerSteps, Loop
  <2>3. /\ noFramesLeft' \in [Streams -> BOOLEAN]
        /\ fragmenterAwaits' \in [Streams -> BOOLEAN]
        /\ framerAwaits' \in [Streams -> BOOLEAN]
    BY DEF TypeOK
  <2> QED BY <2>1, <2>2, <2>3 DEF TypeOK
<1>2. PlayersInv'
  BY DEF PlayersInv, TypeOK, WithRtcp, PlayerSteps, Loop
<1>3. HandlersInv'
  BY DEF HandlersInv, TypeOK
<1>4. SinksInv'
  BY DEF SinksInv, TypeOK
<1>5. RtcpInv'
  BY DEF RtcpInv, PlayersInv, TypeOK
<1>6. ClosedForAReason'
  BY DEF ClosedForAReason, TypeOK
<1> QED BY <1>1, <1>2, <1>3, <1>4, <1>5, <1>6

LEMMA SendPacketKeeps ==
  ASSUME IInv, NEW p \in Players, SendPacket(p)
  PROVE  IInv'
<1> USE NoneIsNone DEF IInv, SendPacket, Handle, Move, subsession, threads, sink,
        awaiting, reading, outBuf, network
<1>1. TypeOK'
  <2>1. headers' \in [Streams -> {0, 1, 2}]
    BY DEF TypeOK
  <2>3. kept' \in [Streams -> BOOLEAN]
    <3>1. PICK keeps \in BOOLEAN : kept' = [kept EXCEPT ![streamOf[p]] = keeps]
      OBVIOUS
    <3>2. kept \in [Streams -> BOOLEAN]
      BY DEF TypeOK
    <3> QED BY ONLY <3>1, <3>2
  <2>2. player' \in [Players -> PlayerSteps]
    BY DEF TypeOK, PlayerSteps, Loop
  <2> QED BY <2>1, <2>2, <2>3 DEF TypeOK
<1>2. PlayersInv'
  BY DEF PlayersInv, TypeOK, WithRtcp, PlayerSteps, Loop
<1>3. HandlersInv'
  BY DEF HandlersInv, TypeOK
<1>4. SinksInv'
  BY DEF SinksInv, TypeOK
<1>5. RtcpInv'
  BY DEF RtcpInv, PlayersInv, TypeOK
<1>6. ClosedForAReason'
  BY DEF ClosedForAReason, TypeOK
<1> QED BY <1>1, <1>2, <1>3, <1>4, <1>5, <1>6

LEMMA ContinueReadProcessingKeeps ==
  ASSUME IInv, NEW p \in Players, ContinueReadProcessing(p)
  PROVE  IInv'
<1> USE NoneIsNone DEF IInv, ContinueReadProcessing, Handle, Move, subsession, threads, sink,
        awaiting, reading, outBuf, network
<1>1. TypeOK'
  <2>1. CASE nested[p] > 0
    <3>1. nested[p] - 1 \in Nat
      BY <2>1 DEF TypeOK
    <3>2. nested' \in [Players -> Nat]
      BY <2>1, <3>1 DEF TypeOK
    <3>3. player' \in [Players -> PlayerSteps]
      <4>1. player' = [player EXCEPT ![p] = "read"]
        BY <2>1
      <4>2. "read" \in PlayerSteps
        BY DEF PlayerSteps, Loop
      <4> QED BY <4>1, <4>2 DEF TypeOK
    <3> QED BY <2>1, <3>2, <3>3 DEF TypeOK
  <2>2. CASE ~(nested[p] > 0)
    BY <2>2 DEF TypeOK, PlayerSteps, Loop
  <2> QED BY <2>1, <2>2
<1>2. PlayersInv'
  BY DEF PlayersInv, TypeOK, WithRtcp, PlayerSteps, Loop
<1>3. HandlersInv'
  BY DEF HandlersInv, TypeOK
<1>4. SinksInv'
  BY DEF SinksInv, TypeOK
<1>5. RtcpInv'
  BY DEF RtcpInv, PlayersInv, TypeOK
<1>6. ClosedForAReason'
  BY DEF ClosedForAReason, TypeOK
<1> QED BY <1>1, <1>2, <1>3, <1>4, <1>5, <1>6

-----------------------------------------------------------------------------
(* The end of the process: nobody is in the middle of anything any more.   *)
LEMMA PanicKeeps ==
  ASSUME IInv, NEW why \in Panics, Panic(why)
  PROVE  IInv'
<1> USE DEF IInv, Panic, subsession, threads, sink, awaiting, reading, outBuf, network
<1>1. TypeOK'
  BY DEF TypeOK, HandlerSteps, PlayerSteps
<1>2. PlayersInv' /\ HandlersInv' /\ SinksInv' /\ RtcpInv'
  BY DEF PlayersInv, HandlersInv, SinksInv, RtcpInv, WithRtcp
<1>3. ClosedForAReason'
  BY DEF ClosedForAReason
<1> QED BY <1>1, <1>2, <1>3

LEMMA PanicsKeep ==
  /\ \A o \in Sessions :
       IInv /\ (StopGettingFramesPanics(o) \/ DeleteStreamPanics(o)) => IInv'
  /\ \A p \in Players : IInv /\ GetNextFramePanics(p) => IInv'
<1>1. "nilSource" \in Panics /\ "nilRtcp" \in Panics /\ "readTwice" \in Panics
  BY DEF Panics
<1>2. \A k \in Streams : GetMet(k) # None => GetMet(k) \in Panics
  BY <1>1 DEF GetMet
<1>3. ASSUME NEW p \in Players, IInv, GetNextFramePanics(p) PROVE IInv'
  <2>1. streamOf[p] \in Streams
    BY <1>3 DEF IInv, PlayersInv, TypeOK, GetNextFramePanics
  <2> QED BY <1>2, <1>3, <2>1, PanicKeeps DEF GetNextFramePanics
<1> QED BY <1>1, <1>3, PanicKeeps DEF StopGettingFramesPanics, DeleteStreamPanics

(* The one that reclaims the stream itself: it has an instance.            *)
LEMMA NextPacketKeeps ==
  ASSUME IInv, NEW p \in Players, NextPacket(p)
  PROVE  IInv'
<1> USE NoneIsNone DEF IInv, Move, subsession, threads, sink, awaiting, reading,
        outBuf, network
<1>0. /\ player[p] = "close" /\ streamOf[p] \in Streams
      /\ rtcpInstance[streamOf[p]] # None
  BY DEF NextPacket, PlayersInv, WithRtcp, PlayerSteps, Loop, TypeOK
<1>1. TypeOK'
  <2>1. closed' \in [Streams -> BOOLEAN]
    BY <1>0 DEF NextPacket, TypeOK
  <2>2. player' \in [Players -> PlayerSteps]
    <3>1. player' = [player EXCEPT ![p] =
                       IF noFramesLeft[streamOf[p]] THEN "unwind" ELSE "pack"]
      BY <1>0 DEF NextPacket
    <3>2. "unwind" \in PlayerSteps /\ "pack" \in PlayerSteps
      BY DEF PlayerSteps, Loop
    <3> QED BY <3>1, <3>2 DEF TypeOK
  <2>3. UNCHANGED <<subsession, handler, threads, rtcpInstance,
                    areCurrentlyPlaying, sink, reading, outBuf, dests, panic>>
    BY <1>0 DEF NextPacket
  <2> QED BY <2>1, <2>2, <2>3 DEF TypeOK
<1>2. PlayersInv'
  BY <1>0 DEF NextPacket, PlayersInv, TypeOK, WithRtcp, PlayerSteps, Loop
<1>3. HandlersInv' /\ SinksInv' /\ RtcpInv'
  BY <1>0 DEF NextPacket, HandlersInv, SinksInv, RtcpInv
<1>4. ClosedForAReason'
  <2>1. UNCHANGED <<left, token, handler>>
    BY <1>0 DEF NextPacket
  <2>2. ASSUME NEW k \in Streams, closed'[k] PROVE closed[k] \/ left[k] = 0
    <3>1. closed' = [closed EXCEPT ![streamOf[p]] =
                       @ \/ (noFramesLeft[streamOf[p]] /\ afterFunc[streamOf[p]])]
      BY <1>0 DEF NextPacket
    <3>2. closed \in [Streams -> BOOLEAN]
      BY DEF TypeOK
    <3>3. noFramesLeft[streamOf[p]] => left[streamOf[p]] = 0
      BY <1>0 DEF SinksInv
    <3> QED BY ONLY <2>2, <3>1, <3>2, <3>3
  <2> QED BY <2>1, <2>2 DEF ClosedForAReason
<1> QED BY <1>1, <1>2, <1>3, <1>4

-----------------------------------------------------------------------------
LEMMA StepKeeps == IInv /\ [Next]_vars => IInv'
<1> SUFFICES ASSUME IInv, [Next]_vars PROVE IInv'
  OBVIOUS
<1>1. ASSUME NEW o \in Sessions, Command(o) PROVE IInv'
  BY <1>1, GetStreamParametersKeeps, NewStreamStateKeeps, StartStreamKeeps,
     PauseStreamKeeps, StopGettingFramesKeeps, ClearSourceKeeps,
     ClearAfterFuncKeeps, UnsetPlayingKeeps, DeleteStreamKeeps, PanicsKeep
     DEF Command
<1>2. ASSUME NEW p \in Players, StartPlaying(p) PROVE IInv'
  BY <1>2, CheckRtcpKeeps, AddDestinationKeeps, CheckPlayingKeeps, StartSinkKeeps,
     SetSourceKeeps, WrapSourceKeeps, SetFragmenterKeeps, SetPlayingKeeps
     DEF StartPlaying
<1>3. ASSUME NEW p \in Players, Send(p) PROVE IInv'
  BY <1>3, PackFrameKeeps, GetNextFrameKeeps, PanicsKeep, AwaitDataKeeps,
     ReadFrameKeeps, HandleClosureKeeps, SendPacketKeeps, NextPacketKeeps,
     ContinueReadProcessingKeeps
     DEF Send
<1>4. CASE UNCHANGED vars
  BY <1>4 DEF vars, subsession, threads, sink, awaiting, reading, outBuf, network, IInv,
     TypeOK, PlayersInv, HandlersInv, SinksInv, RtcpInv, ClosedForAReason
<1> QED BY <1>1, <1>2, <1>3, <1>4, NewRTCPInstanceKeeps DEF Next

(* IInv holds in every reachable state, for any number of sessions,        *)
(* players and streams (startPlaying, StopPlaying, sendPacketIfNecessary). *)
THEOREM Inductive == Spec => []IInv
  BY InitHolds, StepKeeps, PTL DEF Spec

(* Every variable has its type; nothing is read past the end of the file   *)
(* (doGetNextFrame).                                                       *)
THEOREM TypeCorrect == Spec => []TypeOK
<1>1. IInv => TypeOK
  BY DEF IInv
<1> QED BY <1>1, Inductive, PTL

(* Whoever sends packets of a stream has an RTCP instance to reclaim at    *)
(* the end of the file, though startPlaying tests and sets it without a    *)
(* lock.                                                                   *)
THEOREM SendersHaveRtcp == Spec => []PlayedWithRtcp
<1>1. IInv => PlayedWithRtcp
  BY DEF IInv, PlayersInv, PlayedWithRtcp, WithRtcp, PlayerSteps, Loop
<1> QED BY <1>1, Inductive, PTL

(* The RTCP socket of a stream is closed only by a TEARDOWN of one of its  *)
(* sessions or at the end of the file, never by a pause (OnSourceClosure). *)
THEOREM PauseNeverCloses == Spec => []ClosedForAReason
<1>1. IInv => ClosedForAReason
  BY DEF IInv
<1> QED BY <1>1, Inductive, PTL

-----------------------------------------------------------------------------
(* The refinement.  How far a stream is, as StreamLife sees it:            *)
Life ==
  [k \in Streams |->
     IF k \notin created THEN "nil"
     ELSE IF rtcpInstance[k] # None THEN "rtcp"
     ELSE IF \E p \in Players : streamOf[p] = k THEN "starting"
     ELSE "ready"]

LEMMA LifeStarts == Init => Assumed!Init
  BY DEF Init, Assumed!Init

(* A step that changes neither which streams there are nor who runs on     *)
(* them nor their instances is none of StreamLife's.                       *)
LEMMA NoLife ==
  ASSUME UNCHANGED <<created, rtcpInstance, streamOf>>
  PROVE  Life' = Life
  BY DEF Life

LEMMA SetUp ==
  ASSUME IInv, NEW o \in Sessions, NewStreamState(o)
  PROVE  \E k \in Streams : Life[k] = "nil" /\ Life' = [Life EXCEPT ![k] = "ready"]
<1>1. PICK k \in Streams \ created : created' = created \cup {k}
  BY DEF NewStreamState
<1>2. Life[k] = "nil"
  BY <1>1 DEF Life
<1>3. rtcpInstance[k] = None /\ ~\E p \in Players : streamOf[p] = k
  BY <1>1, NoneIsNone DEF IInv, RtcpInv, TypeOK
<1>4. UNCHANGED <<rtcpInstance, streamOf>>
  BY DEF NewStreamState, threads
<1>5. Life' = [Life EXCEPT ![k] = "ready"]
  BY <1>1, <1>3, <1>4 DEF Life
<1> QED BY <1>2, <1>5

LEMMA Started ==
  ASSUME IInv, NEW o \in Sessions, StartStream(o)
  PROVE  \/ Life' = Life
         \/ \E k \in Streams :
              Life[k] = "ready" /\ Life' = [Life EXCEPT ![k] = "starting"]
<1>0. token[o] \in created /\ token[o] \in Streams
  BY DEF StartStream, IInv, TypeOK
<1>1. PICK p \in Players :
        /\ player[p] = "none"
        /\ streamOf' = [streamOf EXCEPT ![p] = token[o]]
  BY DEF StartStream
<1>2. /\ streamOf[p] = None /\ p \in DOMAIN streamOf
      /\ UNCHANGED <<created, rtcpInstance>>
  BY <1>1 DEF IInv, PlayersInv, TypeOK, StartStream, subsession
<1>3. \A k \in Streams : k # token[o] =>
        ((\E q \in Players : streamOf'[q] = k) <=> (\E q \in Players : streamOf[q] = k))
  BY <1>1, <1>2, NoneIsNone
<1>4. \E q \in Players : streamOf'[q] = token[o]
  BY <1>1, <1>2
<1>5. CASE Life[token[o]] = "ready"
  <2>1. Life' = [Life EXCEPT ![token[o]] = "starting"]
    BY <1>0, <1>2, <1>3, <1>4, <1>5 DEF Life
  <2> QED BY <1>0, <1>5, <2>1
<1>6. CASE Life[token[o]] # "ready"
  <2>1. rtcpInstance[token[o]] # None \/ \E q \in Players : streamOf[q] = token[o]
    BY <1>0, <1>6 DEF Life
  <2>2. Life' = Life
    BY <1>0, <1>2, <1>3, <1>4, <2>1 DEF Life
  <2> QED BY <2>2
<1> QED BY <1>5, <1>6

LEMMA GivenRtcp ==
  ASSUME IInv, NEW p \in Players, NewRTCPInstance(p)
  PROVE  \/ Life' = Life
         \/ \E k \in Streams :
              Life[k] = "starting" /\ Life' = [Life EXCEPT ![k] = "rtcp"]
<1> DEFINE k == streamOf[p]
<1>1. /\ k \in created /\ k \in Streams /\ p # None
      /\ rtcpInstance' = [rtcpInstance EXCEPT ![k] = p]
      /\ k \in DOMAIN rtcpInstance
      /\ UNCHANGED <<created, streamOf>>
  BY NoneIsNone DEF NewRTCPInstance, IInv, PlayersInv, TypeOK, subsession, threads
<1> HIDE DEF k
<1>2. Life' = [Life EXCEPT ![k] = "rtcp"]
  <2>1. /\ rtcpInstance'[k] # None
        /\ \A j \in Streams \ {k} : rtcpInstance'[j] = rtcpInstance[j]
    BY <1>1, NoneIsNone
  <2>2. \A j \in Streams : Life'[j] = IF j = k THEN "rtcp" ELSE Life[j]
    BY <1>1, <2>1 DEF Life
  <2>3. /\ Life' = [j \in Streams |-> Life'[j]]
        /\ Life = [j \in Streams |-> Life[j]]
    BY <1>1 DEF Life
  <2> QED BY <2>2, <2>3
<1>3. CASE rtcpInstance[k] = None
  <2>1. Life[k] = "starting"
    BY <1>1, <1>3 DEF Life, k
  <2> QED BY <1>1, <1>2, <2>1
<1>4. CASE rtcpInstance[k] # None
  <2>1. Life[k] = "rtcp" /\ Life = [j \in Streams |-> Life[j]]
    BY <1>1, <1>4 DEF Life
  <2>2. Life' = Life
    BY <1>1, <1>2, <2>1
  <2> QED BY <2>2
<1> QED BY <1>3, <1>4

LEMMA OthersChangeNoLife ==
  ASSUME [Next]_vars,
         \A o \in Sessions : ~NewStreamState(o) /\ ~StartStream(o),
         \A p \in Players : ~NewRTCPInstance(p)
  PROVE  UNCHANGED <<created, rtcpInstance, streamOf>>
<1> USE DEF subsession, threads, sink, reading, outBuf, network
<1>1. ASSUME NEW why, Panic(why) PROVE UNCHANGED <<created, rtcpInstance, streamOf>>
  BY <1>1 DEF Panic
<1>2. ASSUME NEW o \in Sessions, Command(o)
      PROVE  UNCHANGED <<created, rtcpInstance, streamOf>>
  BY <1>1, <1>2 DEF Command, GetStreamParameters, PauseStream, StopGettingFrames,
     StopGettingFramesPanics, ClearSource, ClearAfterFunc, UnsetPlaying,
     DeleteStream, DeleteStreamPanics
<1>3. ASSUME NEW p \in Players, StartPlaying(p)
      PROVE  UNCHANGED <<created, rtcpInstance, streamOf>>
  BY <1>3 DEF StartPlaying, CheckRtcp, AddDestination, CheckPlaying, StartSink,
     SetSource, WrapSource, SetFragmenter, SetPlaying
<1>4. ASSUME NEW p \in Players, Send(p)
      PROVE  UNCHANGED <<created, rtcpInstance, streamOf>>
  BY <1>1, <1>4 DEF Send, PackFrame, GetNextFrame, GetNextFramePanics, AwaitData,
     ReadFrame, HandleClosure, SendPacket, NextPacket, ContinueReadProcessing
<1>5. CASE UNCHANGED vars
  BY <1>5 DEF vars
<1> QED BY <1>2, <1>3, <1>4, <1>5 DEF Next

LEMMA StepIsALife == IInv /\ [Next]_vars => [Assumed!Next]_Life
<1> SUFFICES ASSUME IInv, [Next]_vars PROVE [Assumed!Next]_Life
  OBVIOUS
<1> USE DEF Assumed!Next, Assumed!Advance
<1>1. CASE \E o \in Sessions : NewStreamState(o)
  BY <1>1, SetUp DEF Life
<1>2. CASE \E o \in Sessions : StartStream(o)
  BY <1>2, Started DEF Life
<1>3. CASE \E p \in Players : NewRTCPInstance(p)
  BY <1>3, GivenRtcp DEF Life
<1>4. CASE /\ \A o \in Sessions : ~NewStreamState(o) /\ ~StartStream(o)
           /\ \A p \in Players : ~NewRTCPInstance(p)
  BY <1>4, OthersChangeNoLife, NoLife
<1> QED BY <1>1, <1>2, <1>3, <1>4

(* A stream is set up, started and given its RTCP instance once, in that   *)
(* order, and keeps it: what RtspServer takes for granted of its streams   *)
(* (GetStreamParameters, startPlaying).                                    *)
THEOREM ImplementsStreamLife == Spec => StreamsLiveAsAssumed
<1>1. IInv /\ [Next]_vars => [Assumed!Next]_Life
  BY StepIsALife
<1>2. Life = Life
  OBVIOUS
<1> QED BY LifeStarts, <1>1, Inductive, PTL
    DEF Spec, StreamsLiveAsAssumed, Assumed!Spec, Life
=============================================================================
