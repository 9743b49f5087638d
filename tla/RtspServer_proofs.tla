--------------------------- MODULE RtspServer_proofs ---------------------------
(***************************************************************************)
(* Theorems about RtspServer for any number of connections, sessions, ids, *)
(* server media sessions and names.                                        *)
(***************************************************************************)
EXTENDS RtspServer, TLAPS

USE DEF Threads

(* Where a thread is says what it holds: a handler past its lookup has a   *)
(* session, sessions are referred to only once they are allocated, and a   *)
(* thread past removeClientSession runs on a session out of the table.     *)
HoldsSession == {"bind", "adopt", "states", "params", "within", "stop",
                 "remove", "removeSms"}

ConnShape(c) ==
  /\ pc[c] = "register" => request[c].id \in Ids /\ request[c].name \in Names
  /\ pc[c] \in {"lookup", "resolve"} => request[c].name \in Names
  /\ pc[c] \in {"lookup", "resolve"} /\ request[c].cmd = "SETUP"
       => clientSession[c] # None
  /\ pc[c] \in HoldsSession => clientSession[c] # None
  /\ clientSession[c] # None => Allocated(clientSession[c])
  /\ pc[c] = "removeSms" => clientSession[c] \in destroyed

SessionShape(o) ==
  /\ pc[o] \notin {"none", "dead"} => Allocated(o)
  /\ o \in destroyed => Allocated(o)
  /\ ~Allocated(o) => session[o].timer = "nil"

Shape == (\A c \in Conns : ConnShape(c)) /\ (\A o \in Sessions : SessionShape(o))

(* The inductive invariant.                                                *)
IInv ==
  /\ TypeOK
  /\ Shape
  /\ EntryHasItsId
  /\ DestroyedIsNotFound
  /\ RegisteredIsWatched

-----------------------------------------------------------------------------
(* The invariant holds before the first connection is accepted.            *)
LEMMA InitIInv == Init => IInv
<1> SUFFICES ASSUME Init PROVE IInv
  OBVIOUS
<1> USE ServerAssumption DEF Init
<1>1. TypeOK
  BY DEF TypeOK, PcOK, TablesOK, HistoryOK, ConnSteps, TaskSteps, Request,
         NoRequest, Cmds, Fields, NoFields, StreamStates
<1>2. Shape
  BY DEF Shape, ConnShape, SessionShape, HoldsSession, Allocated, NoFields
<1>3. EntryHasItsId /\ DestroyedIsNotFound /\ RegisteredIsWatched
  BY DEF EntryHasItsId, DestroyedIsNotFound, RegisteredIsWatched, Registered
<1> QED BY <1>1, <1>2, <1>3 DEF IInv

(* Type correctness, one group of variables at a time: every thread stays  *)
(* at a step of its own code.                                              *)
LEMMA PcStep == TypeOK /\ [Next]_vars => PcOK'
<1> SUFFICES ASSUME PcOK, [Next]_vars PROVE PcOK'
  BY DEF TypeOK
<1> USE ServerAssumption DEF PcOK, ConnSteps, TaskSteps, Goto, Done
<1>1. ASSUME NEW c \in Conns, Connection(c) PROVE PcOK'
  BY <1>1 DEF Connection, NewClientConnection, SetupNew, SetupAgain, Describe,
              SessionCommand, Eof, Receive
<1>2. ASSUME NEW c \in Conns, Handler(c) PROVE PcOK'
  BY <1>2 DEF Handler, RegisterSession, GetServerMediaSession, FileMissing,
              FoundServerMediaSession, AddServerMediaSession, AddNil, BindSms,
              AdoptSms, MakeStreamStates, GetStreamParameters, CommandPanics,
              NoteCommand, CommandPlay, CommandTearDown, Resolved, Panic
<1>3. ASSUME NEW o \in Sessions, Timer(o) PROVE PcOK'
  BY <1>3 DEF Timer, StartTimer, TimerFires, LivenessTimeout
<1>4. ASSUME NEW m \in Smses, StartPlaying(m) PROVE PcOK'
  BY <1>4 DEF StartPlaying
<1>5. ASSUME NEW t \in Threads, Destroy(t) PROVE PcOK'
  BY <1>5 DEF Destroy, StopTimer, StopPanics, RemoveClientSession,
              RemoveServerMediaSession, Destroyed, Panic
<1>6. CASE UNCHANGED vars
  BY <1>6 DEF vars
<1> QED BY <1>1, <1>2, <1>3, <1>4, <1>5, <1>6 DEF Next

(* The tables refer to sessions, media sessions and streams only.          *)
LEMMA TablesStep == TypeOK /\ Shape /\ [Next]_vars => TablesOK'
<1> SUFFICES ASSUME TypeOK, Shape, [Next]_vars PROVE TablesOK'
  OBVIOUS
<1> USE ServerAssumption DEF TypeOK, TablesOK, tables, StreamStates, Goto, Done
<1>1. ASSUME NEW c \in Conns, Connection(c) PROVE TablesOK'
  BY <1>1 DEF Connection, NewClientConnection, SetupNew, SetupAgain, Describe,
              SessionCommand, Eof, Receive
<1>2. ASSUME NEW c \in Conns, Handler(c) PROVE TablesOK'
  <2>1. CASE RegisterSession(c)
    <3>1. PICK o \in Sessions :
            /\ clientSession' = [clientSession EXCEPT ![c] = o]
            /\ clientSessions' = [clientSessions EXCEPT ![request[c].id] = o]
      BY <2>1 DEF RegisterSession
    <3>2. UNCHANGED <<serverMediaSessions, streamName, stream>>
      BY <2>1 DEF RegisterSession
    <3> QED BY <3>1, <3>2
  <2>2. CASE FileMissing(c)
    BY <2>2 DEF FileMissing
  <2>3. CASE AddServerMediaSession(c)
    BY <2>3 DEF AddServerMediaSession
  <2>4. CASE GetStreamParameters(c)
    BY <2>4 DEF GetStreamParameters
  <2>5. CASE CommandPlay(c)
    BY <2>5 DEF CommandPlay
  <2>6. CASE \/ GetServerMediaSession(c) \/ FoundServerMediaSession(c) \/ AddNil(c)
             \/ BindSms(c) \/ AdoptSms(c) \/ MakeStreamStates(c)
             \/ CommandPanics(c) \/ NoteCommand(c) \/ CommandTearDown(c)
    BY <2>6 DEF GetServerMediaSession, FoundServerMediaSession, AddNil, BindSms,
                AdoptSms, MakeStreamStates, CommandPanics, NoteCommand,
                CommandTearDown, Panic
  <2> QED BY <1>2, <2>1, <2>2, <2>3, <2>4, <2>5, <2>6 DEF Handler
<1>3. ASSUME NEW o \in Sessions, Timer(o) PROVE TablesOK'
  BY <1>3 DEF Timer, StartTimer, TimerFires, LivenessTimeout
<1>4. ASSUME NEW m \in Smses, StartPlaying(m) PROVE TablesOK'
  BY <1>4 DEF StartPlaying
<1>5. ASSUME NEW t \in Threads, Destroy(t) PROVE TablesOK'
  BY <1>5 DEF Destroy, StopTimer, StopPanics, RemoveClientSession,
              RemoveServerMediaSession, Panic
<1>6. CASE UNCHANGED vars
  BY <1>6 DEF vars
<1> QED BY <1>1, <1>2, <1>3, <1>4, <1>5, <1>6 DEF Next

(* What a command meets is a kind of panic, or None.                       *)
LEMMA NilMetType ==
  ASSUME NEW o, NEW cmd PROVE NilMet(o, cmd) \in Panics \cup {None}
  BY DEF NilMet, Panics

(* The counters, the history and the panic keep their types.               *)
LEMMA HistoryStep == TypeOK /\ Shape /\ [Next]_vars => HistoryOK'
<1> SUFFICES ASSUME TypeOK, Shape, [Next]_vars PROVE HistoryOK'
  OBVIOUS
<1> USE ServerAssumption DEF TypeOK, HistoryOK, history
<1>1. ASSUME NEW c \in Conns, Connection(c) PROVE HistoryOK'
  <2>1. UNCHANGED <<destroyed, panic>>
    BY <1>1 DEF Connection, NewClientConnection, SetupNew, SetupAgain, Describe,
                SessionCommand, Eof
  <2>2. requests' = requests \/ (requests < MaxRequests /\ requests' = requests + 1)
    BY <1>1 DEF Connection, NewClientConnection, SetupNew, SetupAgain, Describe,
                SessionCommand, Eof, Receive
  <2> QED BY <2>1, <2>2
<1>2. ASSUME NEW c \in Conns, Handler(c) PROVE HistoryOK'
  <2>1. CASE AddNil(c) \/ CommandPanics(c)
    BY <2>1, NilMetType DEF AddNil, CommandPanics, Panic, Panics
  <2>2. CASE RegisterSession(c)
    BY <2>2 DEF RegisterSession
  <2>3. CASE \/ GetServerMediaSession(c) \/ FileMissing(c)
             \/ FoundServerMediaSession(c) \/ AddServerMediaSession(c)
             \/ BindSms(c) \/ AdoptSms(c) \/ MakeStreamStates(c)
             \/ GetStreamParameters(c)
    BY <2>3 DEF GetServerMediaSession, FileMissing, FoundServerMediaSession,
                AddServerMediaSession, BindSms, AdoptSms, MakeStreamStates,
                GetStreamParameters
  <2>4. CASE NoteCommand(c) \/ CommandPlay(c) \/ CommandTearDown(c)
    BY <2>4 DEF NoteCommand, CommandPlay, CommandTearDown
  <2> QED BY <1>2, <2>1, <2>2, <2>3, <2>4 DEF Handler
<1>3. ASSUME NEW o \in Sessions, Timer(o) PROVE HistoryOK'
  BY <1>3 DEF Timer, StartTimer, TimerFires, LivenessTimeout
<1>4. ASSUME NEW m \in Smses, StartPlaying(m) PROVE HistoryOK'
  BY <1>4 DEF StartPlaying
<1>5. ASSUME NEW t \in Threads, Destroy(t) PROVE HistoryOK'
  <2>1. CASE RemoveClientSession(t)
    <3>1. Receiver(t) \in Sessions
      BY <1>5, <2>1 DEF RemoveClientSession, Receiver, Shape, ConnShape, SessionShape, HoldsSession, TablesOK
    <3> QED BY <2>1, <3>1 DEF RemoveClientSession
  <2>2. CASE StopTimer(t) \/ StopPanics(t) \/ RemoveServerMediaSession(t)
    BY <2>2 DEF StopTimer, StopPanics, RemoveServerMediaSession, Panic, Panics
  <2> QED BY <1>5, <2>1, <2>2 DEF Destroy
<1>6. CASE UNCHANGED vars
  BY <1>6 DEF vars
<1> QED BY <1>1, <1>2, <1>3, <1>4, <1>5, <1>6 DEF Next

(* destroy() always runs on an allocated session.                          *)
LEMMA ReceiverType ==
  ASSUME TypeOK, Shape, NEW t \in Threads, pc[t] \in {"stop", "remove", "removeSms"}
  PROVE  Receiver(t) \in Sessions /\ Allocated(Receiver(t))
<1>1. CASE t \in Conns
  BY <1>1 DEF Receiver, Shape, ConnShape, SessionShape, HoldsSession, TypeOK, TablesOK
<1>2. CASE t \in Sessions
  BY <1>2, ServerAssumption DEF Receiver, Shape, ConnShape, SessionShape
<1> QED BY <1>1, <1>2

(* A connection's locals keep their types.                                 *)
LEMMA RequestStep ==
  TypeOK /\ Shape /\ [Next]_vars => request' \in [Conns -> Request]
<1> DEFINE OK == request \in [Conns -> Request]
<1> SUFFICES ASSUME TypeOK, Shape, [Next]_vars PROVE OK'
  OBVIOUS
<1>0. OK /\ NoRequest \in Request
  BY DEF TypeOK, Request, NoRequest, Cmds
<1> USE ServerAssumption DEF Done
<1>1. ASSUME NEW c \in Conns, Connection(c) PROVE OK'
  <2>1. CASE NewClientConnection(c)
    BY <1>0, <2>1 DEF NewClientConnection
  <2>2. CASE SetupNew(c) \/ SetupAgain(c) \/ Describe(c) \/ SessionCommand(c) \/ Eof(c)
    <3>1. PICK r \in Request : \/ request' = [request EXCEPT ![c] = r]
                               \/ UNCHANGED request
      <4>1. ASSUME NEW cmd \in Cmds, NEW n \in Names
            PROVE  [NoRequest EXCEPT !.cmd = cmd, !.name = n] \in Request
        BY DEF NoRequest, Request
      <4>2. ASSUME NEW i \in Ids, NEW n \in Names
            PROVE  [cmd |-> "SETUP", name |-> n, id |-> i, sms |-> None] \in Request
        BY DEF Request, Cmds
      <4>3. ASSUME NEW cmd \in Cmds PROVE [NoRequest EXCEPT !.cmd = cmd] \in Request
        BY DEF NoRequest, Request
      <4>4. CASE SetupNew(c)
        BY <4>2, <4>4 DEF SetupNew
      <4>5. CASE SetupAgain(c)
        BY <1>0, <4>1, <4>5 DEF SetupAgain, Cmds
      <4>6. CASE Describe(c)
        BY <4>1, <4>6 DEF Describe, Cmds
      <4>7. CASE SessionCommand(c)
        BY <1>0, <4>7, <4>3 DEF SessionCommand, Cmds
      <4>8. CASE Eof(c)
        BY <1>0, <4>8, <4>3 DEF Eof, Cmds
      <4> QED BY <2>2, <4>4, <4>5, <4>6, <4>7, <4>8
    <3> QED BY <1>0, <3>1
  <2> QED BY <1>1, <2>1, <2>2 DEF Connection
<1>2. ASSUME NEW c \in Conns, Handler(c) PROVE OK'
  <2>1. CASE GetServerMediaSession(c)
    <3>1. serverMediaSessions[request[c].name] \in Smses \cup {None}
      BY <2>1 DEF GetServerMediaSession, Shape, ConnShape, SessionShape, TypeOK, TablesOK
    <3>2. [request[c] EXCEPT !.sms = serverMediaSessions[request[c].name]] \in Request
      BY <1>0, <3>1 DEF Request
    <3>3. request' = [request EXCEPT ![c] =
            [request[c] EXCEPT !.sms = serverMediaSessions[request[c].name]]]
      BY <2>1 DEF GetServerMediaSession
    <3> QED BY <1>0, <3>2, <3>3
  <2>2. CASE FileMissing(c) \/ FoundServerMediaSession(c) \/ AddServerMediaSession(c)
    BY <1>0, <2>2 DEF FileMissing, FoundServerMediaSession, AddServerMediaSession,
                      Resolved, Request
  <2>3. CASE \/ RegisterSession(c) \/ AddNil(c) \/ AdoptSms(c)
             \/ MakeStreamStates(c) \/ CommandPanics(c) \/ CommandTearDown(c)
    BY <1>0, <2>3 DEF RegisterSession, AddNil, AdoptSms, MakeStreamStates,
                      CommandPanics, CommandTearDown, Panic
  <2>4. CASE \/ BindSms(c) \/ GetStreamParameters(c) \/ NoteCommand(c)
             \/ CommandPlay(c)
    BY <1>0, <2>4 DEF BindSms, GetStreamParameters, NoteCommand, CommandPlay
  <2> QED BY <1>2, <2>1, <2>2, <2>3, <2>4 DEF Handler
<1>3. ASSUME NEW o \in Sessions, Timer(o) PROVE OK'
  BY <1>0, <1>3 DEF Timer, StartTimer, TimerFires, LivenessTimeout
<1>4. ASSUME NEW m \in Smses, StartPlaying(m) PROVE OK'
  BY <1>0, <1>4 DEF StartPlaying
<1>5. ASSUME NEW t \in Threads, Destroy(t) PROVE OK'
  BY <1>0, <1>5 DEF Destroy, StopTimer, StopPanics, RemoveClientSession,
                    RemoveServerMediaSession, Destroyed, Panic
<1>6. CASE UNCHANGED vars
  BY <1>0, <1>6 DEF vars
<1> QED BY <1>1, <1>2, <1>3, <1>4, <1>5, <1>6 DEF Next

(* Assigning to some fields of a session leaves it one.                    *)
LEMMA FieldsUpdate ==
  ASSUME NEW f \in Fields
  PROVE  /\ \A x \in {"nil", "armed", "idle"} : [f EXCEPT !.timer = x] \in Fields
         /\ \A x \in {"nil", "armed", "idle"}, b \in BOOLEAN :
              [f EXCEPT !.timer = x, !.tick = b] \in Fields
         /\ \A x \in {"nil", "armed", "idle"}, b \in BOOLEAN :
              [[f EXCEPT !.timer = x] EXCEPT !.dest = b] \in Fields
         /\ \A b \in BOOLEAN : [f EXCEPT !.tick = b] \in Fields
         /\ \A m \in Smses \cup {None} : [f EXCEPT !.sms = m] \in Fields
         /\ \A m \in Smses \cup {None} : [f EXCEPT !.states = m] \in Fields
         /\ \A a, b \in BOOLEAN : [f EXCEPT !.token = a, !.dest = b] \in Fields
BY DEF Fields

(* The fields of every session keep their types.                           *)
LEMMA SessionStep ==
  TypeOK /\ Shape /\ [Next]_vars => session' \in [Sessions -> Fields]
<1> DEFINE OK == session \in [Sessions -> Fields]
<1> SUFFICES ASSUME TypeOK, Shape, [Next]_vars PROVE OK'
  OBVIOUS
<1>0. OK /\ request \in [Conns -> Request]
  BY DEF TypeOK
<1>7. ASSUME NEW o \in Sessions, NEW f \in Fields, session' = [session EXCEPT ![o] = f]
      PROVE  OK'
  BY <1>0, <1>7
<1>8. ASSUME NEW o \in Sessions
      PROVE  /\ session[o] \in Fields
             /\ session[o].sms \in Smses \cup {None}
             /\ session[o].states \in Smses \cup {None}
  BY <1>0 DEF Fields
<1>1. ASSUME NEW c \in Conns, Connection(c) PROVE OK'
  BY <1>0, <1>1 DEF Connection, NewClientConnection, SetupNew, SetupAgain,
                    Describe, SessionCommand, Eof
<1>2. ASSUME NEW c \in Conns, Handler(c) PROVE OK'
  <2> DEFINE o == clientSession[c]
  <2>0. pc[c] \in HoldsSession => o \in Sessions
    BY DEF Shape, ConnShape, SessionShape, TypeOK, TablesOK
  <2>1. CASE RegisterSession(c)
    <3>1. request[c].id \in Ids
      BY <2>1 DEF RegisterSession, Shape, ConnShape, SessionShape
    <3>2. [NoFields EXCEPT !.id = request[c].id] \in Fields
      BY <3>1 DEF NoFields, Fields
    <3> QED BY <1>7, <2>1, <3>2 DEF RegisterSession
  <2>2. CASE AdoptSms(c)
    <3>1. o \in Sessions /\ request[c].sms \in Smses \cup {None}
      BY <1>0, <2>0, <2>2 DEF AdoptSms, HoldsSession, Request
    <3>2. session' = [session EXCEPT ![o] = [session[o] EXCEPT !.sms = request[c].sms]]
      BY <2>2 DEF AdoptSms
    <3> QED BY <1>7, <1>8, <3>1, <3>2, FieldsUpdate
  <2>3. CASE MakeStreamStates(c)
    <3>1. o \in Sessions
      BY <2>0, <2>3 DEF MakeStreamStates, HoldsSession
    <3>2. PICK m \in Smses \cup {None} :
            session' = [session EXCEPT ![o] = [session[o] EXCEPT !.states = m]]
      BY <1>8, <2>3, <3>1 DEF MakeStreamStates
    <3> QED BY <1>7, <1>8, <3>1, <3>2, FieldsUpdate
  <2>4. CASE GetStreamParameters(c)
    <3>1. o \in Sessions
      BY <2>0, <2>4 DEF GetStreamParameters, HoldsSession
    <3>2. session' = [session EXCEPT ![o] =
                        [session[o] EXCEPT !.token = TRUE, !.dest = TRUE]]
      BY <2>4 DEF GetStreamParameters
    <3> QED BY <1>7, <1>8, <3>1, <3>2, FieldsUpdate
  <2>5. CASE NoteCommand(c) \/ CommandPlay(c) \/ CommandTearDown(c)
    <3>1. o \in Sessions
      BY <2>0, <2>5 DEF NoteCommand, CommandPlay, CommandTearDown, HoldsSession
    <3>2. \/ session' = [session EXCEPT ![o] = [session[o] EXCEPT !.timer = "armed"]]
          \/ session' = [session EXCEPT ![o] =
               [[session[o] EXCEPT !.timer = "armed"] EXCEPT !.dest = FALSE]]
      BY <2>5 DEF NoteCommand, CommandPlay, CommandTearDown, NoteLiveness
    <3> QED BY <1>7, <1>8, <3>1, <3>2, FieldsUpdate
  <2>6. CASE \/ GetServerMediaSession(c) \/ FileMissing(c)
             \/ FoundServerMediaSession(c) \/ AddServerMediaSession(c)
             \/ AddNil(c) \/ BindSms(c) \/ CommandPanics(c)
    BY <1>0, <2>6 DEF GetServerMediaSession, FileMissing, FoundServerMediaSession,
                      AddServerMediaSession, AddNil, BindSms, CommandPanics, Panic
  <2> QED BY <1>2, <2>1, <2>2, <2>3, <2>4, <2>5, <2>6 DEF Handler
<1>3. ASSUME NEW o \in Sessions, Timer(o) PROVE OK'
  <2>1. \/ session' = [session EXCEPT ![o] = [session[o] EXCEPT !.timer = "armed"]]
        \/ session' = [session EXCEPT ![o] =
                         [session[o] EXCEPT !.timer = "idle", !.tick = TRUE]]
        \/ session' = [session EXCEPT ![o] = [session[o] EXCEPT !.tick = FALSE]]
    BY <1>3 DEF Timer, StartTimer, TimerFires, LivenessTimeout
  <2> QED BY <1>7, <1>8, <2>1, FieldsUpdate
<1>4. ASSUME NEW m \in Smses, StartPlaying(m) PROVE OK'
  BY <1>0, <1>4 DEF StartPlaying
<1>5. ASSUME NEW t \in Threads, Destroy(t) PROVE OK'
  <2>1. CASE StopTimer(t)
    <3>1. Receiver(t) \in Sessions
      BY <2>1, ReceiverType DEF StopTimer
    <3>2. session' = [session EXCEPT ![Receiver(t)] =
                        [session[Receiver(t)] EXCEPT !.timer = "idle"]]
      BY <2>1 DEF StopTimer
    <3> QED BY <1>7, <1>8, <3>1, <3>2, FieldsUpdate
  <2>2. CASE StopPanics(t) \/ RemoveClientSession(t) \/ RemoveServerMediaSession(t)
    BY <1>0, <2>2 DEF StopPanics, RemoveClientSession, RemoveServerMediaSession, Panic
  <2> QED BY <1>5, <2>1, <2>2 DEF Destroy
<1>6. CASE UNCHANGED vars
  BY <1>0, <1>6 DEF vars
<1> QED BY <1>1, <1>2, <1>3, <1>4, <1>5, <1>6 DEF Next

(* Every step preserves the types.                                         *)
LEMMA TypeStep == TypeOK /\ Shape /\ [Next]_vars => TypeOK'
BY PcStep, TablesStep, HistoryStep, RequestStep, SessionStep DEF TypeOK

-----------------------------------------------------------------------------
(* A session keeps the id it was allocated with, and no step deallocates   *)
(* it.                                                                     *)
LEMMA IdStep ==
  ASSUME TypeOK, Shape, [Next]_vars, NEW o \in Sessions, Allocated(o)
  PROVE  session'[o].id = session[o].id /\ Allocated(o)'
<1> SUFFICES session'[o].id = session[o].id
  BY DEF Allocated
<1>0. session \in [Sessions -> Fields]
  BY DEF TypeOK
<1>1. ASSUME NEW c \in Conns, Connection(c) PROVE UNCHANGED session
  BY <1>1 DEF Connection, NewClientConnection, SetupNew, SetupAgain, Describe,
              SessionCommand, Eof
<1>2. ASSUME NEW c \in Conns, Handler(c) PROVE session'[o].id = session[o].id
  <2>1. CASE RegisterSession(c)
    BY <1>0, <2>1 DEF RegisterSession, Allocated
  <2>2. CASE AdoptSms(c) \/ MakeStreamStates(c) \/ GetStreamParameters(c)
    BY <1>0, <2>2 DEF AdoptSms, MakeStreamStates, GetStreamParameters, Fields
  <2>3. CASE NoteCommand(c) \/ CommandPlay(c) \/ CommandTearDown(c)
    <3>1. \/ session' = [session EXCEPT ![clientSession[c]] =
               [session[clientSession[c]] EXCEPT !.timer = "armed"]]
          \/ session' = [session EXCEPT ![clientSession[c]] =
               [[session[clientSession[c]] EXCEPT !.timer = "armed"] EXCEPT !.dest = FALSE]]
      BY <2>3 DEF NoteCommand, CommandPlay, CommandTearDown, NoteLiveness
    <3>2. /\ [session[o] EXCEPT !.timer = "armed"].id = session[o].id
          /\ [[session[o] EXCEPT !.timer = "armed"] EXCEPT !.dest = FALSE].id = session[o].id
      BY <1>0 DEF Fields
    <3> QED BY <1>0, <3>1, <3>2
  <2>4. CASE \/ GetServerMediaSession(c) \/ FileMissing(c)
             \/ FoundServerMediaSession(c) \/ AddServerMediaSession(c)
             \/ AddNil(c) \/ BindSms(c) \/ CommandPanics(c)
    BY <2>4 DEF GetServerMediaSession, FileMissing, FoundServerMediaSession,
                AddServerMediaSession, AddNil, BindSms, CommandPanics, Panic
  <2> QED BY <1>2, <2>1, <2>2, <2>3, <2>4 DEF Handler
<1>3. ASSUME NEW p \in Sessions, Timer(p) PROVE session'[o].id = session[o].id
  BY <1>0, <1>3 DEF Timer, StartTimer, TimerFires, LivenessTimeout, Fields
<1>4. ASSUME NEW m \in Smses, StartPlaying(m) PROVE UNCHANGED session
  BY <1>4 DEF StartPlaying
<1>5. ASSUME NEW t \in Threads, Destroy(t) PROVE session'[o].id = session[o].id
  BY <1>0, <1>5 DEF Destroy, StopTimer, StopPanics, RemoveClientSession,
                    RemoveServerMediaSession, Panic, Fields
<1>6. CASE UNCHANGED vars
  BY <1>6 DEF vars
<1> QED BY <1>1, <1>2, <1>3, <1>4, <1>5, <1>6 DEF Next

(* A session that is registered was not allocated before, gets the id it   *)
(* is stored under, and was never destroyed.                               *)
LEMMA RegisterEffect ==
  ASSUME TypeOK, Shape, NEW c \in Conns, RegisterSession(c)
  PROVE  \E o \in Sessions :
           /\ ~Allocated(o) /\ o \notin destroyed
           /\ Allocated(o)'
           /\ request[c].id \in Ids /\ session'[o].id = request[c].id
           /\ clientSessions' = [clientSessions EXCEPT ![request[c].id] = o]
           /\ pc' = [pc EXCEPT ![c] = "lookup", ![o] = "spawned"]
           /\ session' = [session EXCEPT ![o] = session'[o]]
           /\ clientSession' = [clientSession EXCEPT ![c] = o]
           /\ destroyed' = destroyed
<1>1. PICK o \in Sessions :
        /\ ~Allocated(o)
        /\ clientSession' = [clientSession EXCEPT ![c] = o]
        /\ session' = [session EXCEPT ![o] = [NoFields EXCEPT !.id = request[c].id]]
        /\ clientSessions' = [clientSessions EXCEPT ![request[c].id] = o]
        /\ pc' = [pc EXCEPT ![c] = "lookup", ![o] = "spawned"]
        /\ destroyed' = destroyed
  BY DEF RegisterSession, history
<1>2. request[c].id \in Ids
  BY DEF RegisterSession, Shape, ConnShape
<1>3. session'[o] = [NoFields EXCEPT !.id = request[c].id]
  BY <1>1 DEF TypeOK
<1>4. session'[o].id = request[c].id
  BY <1>3 DEF NoFields
<1>5. o \notin destroyed
  BY <1>1 DEF Shape, SessionShape
<1>6. Allocated(o)'
  BY <1>2, <1>4, ServerAssumption DEF Allocated
<1> QED BY <1>1, <1>2, <1>3, <1>4, <1>5, <1>6

(* Only newClientSession touches a session that is not allocated.          *)
LEMMA FreshStep ==
  ASSUME TypeOK, Shape, [Next]_vars, NEW o \in Sessions, ~Allocated(o),
         \A c \in Conns : ~RegisterSession(c)
  PROVE  session'[o] = session[o]
<1>0. /\ session \in [Sessions -> Fields]
      /\ \A c \in Conns : pc[c] \in HoldsSession => clientSession[c] # o
  BY DEF TypeOK, Shape, ConnShape, HoldsSession
<1>1. ASSUME NEW c \in Conns, Connection(c) PROVE session'[o] = session[o]
  BY <1>1 DEF Connection, NewClientConnection, SetupNew, SetupAgain, Describe,
              SessionCommand, Eof
<1>2. ASSUME NEW c \in Conns, Handler(c) PROVE session'[o] = session[o]
  BY <1>0, <1>2 DEF Handler, GetServerMediaSession, FileMissing,
              FoundServerMediaSession, AddServerMediaSession, AddNil, BindSms,
              AdoptSms, MakeStreamStates, GetStreamParameters, CommandPanics,
              NoteCommand, CommandPlay, CommandTearDown, Panic, HoldsSession
<1>3. ASSUME NEW p \in Sessions, Timer(p) PROVE session'[o] = session[o]
  <2>1. CASE p = o
    <3>1. pc[o] \in {"none", "dead"} /\ session[o].timer # "armed"
      BY DEF Shape, SessionShape
    <3> QED BY <1>3, <2>1, <3>1 DEF Timer, StartTimer, TimerFires, LivenessTimeout
  <2>2. CASE p # o
    BY <1>0, <1>3, <2>2 DEF Timer, StartTimer, TimerFires, LivenessTimeout
  <2> QED BY <2>1, <2>2
<1>4. ASSUME NEW m \in Smses, StartPlaying(m) PROVE session'[o] = session[o]
  BY <1>4 DEF StartPlaying
<1>5. ASSUME NEW t \in Threads, Destroy(t) PROVE session'[o] = session[o]
  <2>1. Receiver(t) # o
    BY <1>5, ReceiverType DEF Destroy, StopTimer, StopPanics, RemoveClientSession,
                              RemoveServerMediaSession
  <2> QED BY <1>0, <1>5, <2>1 DEF Destroy, StopTimer, StopPanics,
              RemoveClientSession, RemoveServerMediaSession, Panic
<1>6. CASE UNCHANGED vars
  BY <1>6 DEF vars
<1> QED BY <1>1, <1>2, <1>3, <1>4, <1>5, <1>6 DEF Next

(* What a session's goroutine relies on is preserved by every step.        *)
LEMMA SessionShapeStep ==
  ASSUME TypeOK, Shape, [Next]_vars, NEW o \in Sessions
  PROVE  SessionShape(o)'
<1>1. CASE Allocated(o)
  BY <1>1, IdStep DEF SessionShape
<1>2. CASE ~Allocated(o)
  <2> DEFINE Core == /\ pc[o] \notin {"none", "dead"} => Allocated(o)
                     /\ o \in destroyed => Allocated(o)
  <2>0. (~Allocated(o) => session[o].timer = "nil")'
    <3>1. session[o].timer = "nil"
      BY <1>2 DEF Shape, SessionShape
    <3>2. CASE \A c \in Conns : ~RegisterSession(c)
      BY <1>2, <3>1, <3>2, FreshStep
    <3>3. ASSUME NEW c \in Conns, RegisterSession(c), ~Allocated(o)'
          PROVE  session'[o] = session[o]
      BY <3>3, RegisterEffect DEF TypeOK
    <3> QED BY <3>1, <3>2, <3>3
  <2>1. pc[o] \in {"none", "dead"} /\ o \notin destroyed
    BY <1>2 DEF Shape, SessionShape
  <2> USE ServerAssumption DEF Goto, Done
  <2>2. PcOK /\ clientSession \in [Conns -> Sessions \cup {None}]
    BY DEF TypeOK, TablesOK
  <2>3. ASSUME NEW c \in Conns, Connection(c) PROVE Core'
    BY <2>1, <2>2, <2>3 DEF Connection, NewClientConnection, SetupNew, SetupAgain,
              Describe, SessionCommand, Eof, Receive, history, PcOK
  <2>4. ASSUME NEW c \in Conns, RegisterSession(c) PROVE Core'
    <3>1. request[c].id # None
      BY <2>4 DEF RegisterSession, Shape, ConnShape
    <3>2. PICK p \in Sessions :
            /\ session' = [session EXCEPT ![p] = [NoFields EXCEPT !.id = request[c].id]]
            /\ pc' = [pc EXCEPT ![c] = "lookup", ![p] = "spawned"]
            /\ destroyed' = destroyed
      BY <2>4 DEF RegisterSession, history
    <3>3. CASE p = o
      <4>1. session'[o].id = request[c].id
        BY <3>2, <3>3 DEF NoFields, TypeOK
      <4> QED BY <3>1, <4>1 DEF Allocated
    <3>4. CASE p # o
      BY <2>1, <2>2, <3>2, <3>4 DEF PcOK
    <3> QED BY <3>3, <3>4
  <2>5. ASSUME NEW c \in Conns, Handler(c), ~RegisterSession(c) PROVE Core'
    BY <2>1, <2>2, <2>5 DEF Handler, GetServerMediaSession, FileMissing,
              FoundServerMediaSession, AddServerMediaSession, AddNil, BindSms,
              AdoptSms, MakeStreamStates, GetStreamParameters, CommandPanics,
              NoteCommand, CommandPlay, CommandTearDown, Resolved, Panic, history, PcOK
  <2>6. ASSUME NEW p \in Sessions, Timer(p) PROVE Core'
    BY <2>1, <2>2, <2>6 DEF Timer, StartTimer, TimerFires, LivenessTimeout, history, PcOK
  <2>7. ASSUME NEW m \in Smses, StartPlaying(m) PROVE Core'
    BY <2>1, <2>7 DEF StartPlaying, history
  <2>8. ASSUME NEW t \in Threads, Destroy(t) PROVE Core'
    <3>1. pc[t] \in {"stop", "remove", "removeSms"} /\ Receiver(t) # o /\ t # o
      BY <1>2, <2>1, <2>8, ReceiverType DEF Destroy, StopTimer, StopPanics,
              RemoveClientSession, RemoveServerMediaSession
    <3> QED BY <2>1, <2>2, <2>8, <3>1 DEF Destroy, StopTimer, StopPanics,
              RemoveClientSession, RemoveServerMediaSession, Destroyed, Panic,
              history, PcOK
  <2>9. ASSUME UNCHANGED vars PROVE Core'
    BY <2>1, <2>9 DEF vars
  <2> QED BY <2>0, <2>3, <2>4, <2>5, <2>6, <2>7, <2>8, <2>9 DEF Next, SessionShape
<1> QED BY <1>1, <1>2

(* A thread's own steps move it; another thread only ends the process.     *)
LEMMA OtherConn ==
  ASSUME TypeOK, Shape, NEW c \in Conns, NEW t \in Threads \ {c},
         \/ t \in Conns /\ (Connection(t) \/ Handler(t))
         \/ t \in Sessions /\ Timer(t)
         \/ Destroy(t)
  PROVE  /\ pc'[c] = pc[c] \/ (pc'[c] = "dead" /\ panic' # None)
         /\ UNCHANGED <<request[c], clientSession[c]>>
<1>0. /\ pc \in [Threads -> ConnSteps \cup TaskSteps]
      /\ clientSession \in [Conns -> Sessions \cup {None}]
      /\ request \in [Conns -> Request]
      /\ c \notin Sessions
      /\ \A p \in Panics : p # None
  BY ServerAssumption DEF TypeOK, PcOK, TablesOK
<1> USE <1>0, NilMetType DEF Goto, Done, Panics
<1>1. CASE t \in Conns /\ Connection(t)
  BY <1>1 DEF Connection, NewClientConnection, SetupNew, SetupAgain, Describe,
              SessionCommand, Eof, Receive
<1>2. CASE t \in Conns /\ Handler(t)
  BY <1>2 DEF Handler, RegisterSession, GetServerMediaSession, FileMissing,
              FoundServerMediaSession, AddServerMediaSession, AddNil, BindSms,
              AdoptSms, MakeStreamStates, GetStreamParameters, CommandPanics,
              NoteCommand, CommandPlay, CommandTearDown, Resolved, Panic
<1>3. CASE t \in Sessions /\ Timer(t)
  BY <1>3 DEF Timer, StartTimer, TimerFires, LivenessTimeout
<1>4. CASE Destroy(t)
  BY <1>4 DEF Destroy, StopTimer, StopPanics, RemoveClientSession,
              RemoveServerMediaSession, Destroyed, Panic
<1> QED BY <1>1, <1>2, <1>3, <1>4

(* A session that was destroyed stays so.                                  *)
LEMMA DestroyedGrows ==
  ASSUME [Next]_vars PROVE destroyed \subseteq destroyed'
<1> USE DEF history
<1>1. ASSUME NEW c \in Conns, Connection(c) PROVE destroyed \subseteq destroyed'
  BY <1>1 DEF Connection, NewClientConnection, SetupNew, SetupAgain, Describe,
              SessionCommand, Eof
<1>2. ASSUME NEW c \in Conns, Handler(c) PROVE destroyed \subseteq destroyed'
  BY <1>2 DEF Handler, RegisterSession, GetServerMediaSession, FileMissing,
              FoundServerMediaSession, AddServerMediaSession, AddNil, BindSms,
              AdoptSms, MakeStreamStates, GetStreamParameters, CommandPanics,
              NoteCommand, CommandPlay, CommandTearDown, Panic, NoFields, NoRequest
<1>3. ASSUME NEW o \in Sessions, Timer(o) PROVE destroyed \subseteq destroyed'
  BY <1>3 DEF Timer, StartTimer, TimerFires, LivenessTimeout
<1>4. ASSUME NEW m \in Smses, StartPlaying(m) PROVE destroyed \subseteq destroyed'
  BY <1>4 DEF StartPlaying
<1>5. ASSUME NEW t \in Threads, Destroy(t) PROVE destroyed \subseteq destroyed'
  BY <1>5 DEF Destroy, StopTimer, StopPanics, RemoveClientSession,
              RemoveServerMediaSession, Panic
<1>6. CASE UNCHANGED vars
  BY <1>6 DEF vars
<1> QED BY <1>1, <1>2, <1>3, <1>4, <1>5, <1>6 DEF Next

(* What a connection's handler relies on is preserved by every step.       *)
LEMMA ConnShapeStep ==
  ASSUME TypeOK, Shape, EntryHasItsId, [Next]_vars, NEW c \in Conns
  PROVE  ConnShape(c)'
<1>0. /\ pc \in [Threads -> ConnSteps \cup TaskSteps]
      /\ clientSession \in [Conns -> Sessions \cup {None}]
      /\ clientSessions \in [Ids -> Sessions \cup {None}]
      /\ request \in [Conns -> Request]
      /\ c \notin Sessions
      /\ ConnShape(c)
  BY ServerAssumption DEF TypeOK, PcOK, TablesOK, Shape
<1>1. \A o \in Sessions : Allocated(o) => Allocated(o)'
  BY IdStep
<1>2. destroyed \subseteq destroyed'
  BY DestroyedGrows
<1>3. ASSUME pc'[c] \in {pc[c], "dead"}, UNCHANGED <<request[c], clientSession[c]>>
      PROVE  ConnShape(c)'
  BY <1>0, <1>1, <1>2, <1>3 DEF ConnShape, HoldsSession
<1>4. ASSUME NEW t \in Threads \ {c},
             \/ t \in Conns /\ (Connection(t) \/ Handler(t))
             \/ t \in Sessions /\ Timer(t)
             \/ Destroy(t)
      PROVE  ConnShape(c)'
  BY <1>3, <1>4, OtherConn
<1>5. CASE Connection(c)
  <2> USE <1>0, <1>1, <1>2 DEF ConnShape, Receive, Goto, Done, HoldsSession, ConnSteps
  <2>1. CASE NewClientConnection(c)
    BY <2>1 DEF NewClientConnection
  <2>2. CASE SetupNew(c)
    BY <2>2 DEF SetupNew
  <2>3. CASE SetupAgain(c)
    <3>1. PICK i \in Ids, n \in Names :
            /\ clientSession' = [clientSession EXCEPT ![c] = clientSessions[i]]
            /\ IF clientSessions[i] = None
               THEN UNCHANGED <<pc, request>>
               ELSE /\ pc' = [pc EXCEPT ![c] = "lookup"]
                    /\ request' = [request EXCEPT ![c] =
                         [NoRequest EXCEPT !.cmd = "SETUP", !.name = n]]
      BY <2>3 DEF SetupAgain
    <3>2. clientSessions[i] # None => Allocated(clientSessions[i])
      BY DEF EntryHasItsId
    <3>3. CASE clientSessions[i] = None
      BY <2>3, <3>1, <3>3 DEF SetupAgain
    <3>4. CASE clientSessions[i] # None
      <4>1. /\ clientSession'[c] # None
            /\ Allocated(clientSession'[c])
            /\ clientSession'[c] \in Sessions
        BY <3>1, <3>2, <3>4
      <4>2. pc'[c] = "lookup" /\ request'[c].name \in Names
        BY <3>1, <3>4 DEF NoRequest
      <4> QED BY <4>1, <4>2
    <3> QED BY <3>3, <3>4
  <2>4. CASE Describe(c)
    BY <2>4 DEF Describe, NoRequest
  <2>5. CASE SessionCommand(c)
    BY <2>5 DEF SessionCommand, EntryHasItsId, NoRequest
  <2>6. CASE Eof(c)
    BY <2>6 DEF Eof, NoRequest
  <2> QED BY <1>5, <2>1, <2>2, <2>3, <2>4, <2>5, <2>6 DEF Connection
<1>6. CASE Handler(c)
  <2> USE <1>0, <1>1, <1>2 DEF ConnShape, Goto, Done, HoldsSession, NoRequest
  <2>1. CASE RegisterSession(c)
    <3>1. PICK o \in Sessions :
            /\ clientSession' = [clientSession EXCEPT ![c] = o]
            /\ session' = [session EXCEPT ![o] = [NoFields EXCEPT !.id = request[c].id]]
            /\ pc' = [pc EXCEPT ![c] = "lookup", ![o] = "spawned"]
            /\ request' = request
      BY <2>1 DEF RegisterSession
    <3>2. request[c].id # None /\ request[c].id = [NoFields EXCEPT !.id = request[c].id].id
      BY <2>1, ServerAssumption DEF RegisterSession, NoFields
    <3>3. session'[o].id # None
      BY <3>1, <3>2 DEF TypeOK
    <3>4. clientSession'[c] = o /\ pc'[c] = "lookup" /\ request'[c].name = request[c].name
      BY <3>1
    <3>5. request[c].name \in Names
      BY <2>1 DEF RegisterSession
    <3> QED BY <3>3, <3>4, <3>5, ServerAssumption DEF Allocated
  <2>2. CASE GetServerMediaSession(c)
    BY <2>2 DEF GetServerMediaSession, Request
  <2>3. CASE FileMissing(c) \/ FoundServerMediaSession(c) \/ AddServerMediaSession(c)
    BY <2>3 DEF FileMissing, FoundServerMediaSession, AddServerMediaSession, Resolved
  <2>4. CASE BindSms(c)
    BY <2>4 DEF BindSms
  <2>5. CASE \/ AdoptSms(c) \/ MakeStreamStates(c)
             \/ GetStreamParameters(c) \/ NoteCommand(c) \/ CommandPlay(c)
             \/ CommandTearDown(c)
    BY <2>5 DEF AdoptSms, MakeStreamStates, GetStreamParameters,
                NoteCommand, CommandPlay, CommandTearDown
  <2>6. CASE AddNil(c) \/ CommandPanics(c)
    BY <2>6 DEF AddNil, CommandPanics, Panic
  <2> QED BY <1>6, <2>1, <2>2, <2>3, <2>4, <2>5, <2>6 DEF Handler
<1>7. CASE Destroy(c)
  <2> USE <1>0, <1>1, <1>2 DEF ConnShape, Goto, HoldsSession, NoRequest, Receiver
  <2>1. CASE StopTimer(c)
    BY <2>1 DEF StopTimer
  <2>2. CASE StopPanics(c)
    BY <2>2 DEF StopPanics, Panic
  <2>3. CASE RemoveClientSession(c)
    BY <2>3 DEF RemoveClientSession, Destroyed
  <2>4. CASE RemoveServerMediaSession(c)
    BY <2>4 DEF RemoveServerMediaSession, Destroyed
  <2> QED BY <1>7, <2>1, <2>2, <2>3, <2>4 DEF Destroy
<1>8. ASSUME NEW m \in Smses, StartPlaying(m) PROVE ConnShape(c)'
  BY <1>3, <1>8 DEF StartPlaying
<1>9. CASE UNCHANGED vars
  BY <1>3, <1>9 DEF vars
<1>10. ASSUME NEW t \in Threads,
              \/ t \in Conns /\ (Connection(t) \/ Handler(t))
              \/ t \in Sessions /\ Timer(t)
              \/ Destroy(t)
       PROVE  ConnShape(c)'
  <2>1. CASE t = c
    BY <1>0, <1>5, <1>6, <1>7, <1>10, <2>1
  <2>2. CASE t # c
    BY <1>4, <1>10, <2>2
  <2> QED BY <2>1, <2>2
<1> QED BY <1>8, <1>9, <1>10 DEF Next

(* Every step preserves what the threads hold.                             *)
LEMMA ShapeStep == TypeOK /\ Shape /\ EntryHasItsId /\ [Next]_vars => Shape'
BY ConnShapeStep, SessionShapeStep DEF Shape

-----------------------------------------------------------------------------
(* Only newClientSession and destroy() touch the table of sessions.        *)
LEMMA TableChanges ==
  ASSUME [Next]_vars
  PROVE  \/ UNCHANGED <<clientSessions, destroyed>>
         \/ \E c \in Conns : RegisterSession(c)
         \/ \E t \in Threads : RemoveClientSession(t)
<1> DEFINE Same == UNCHANGED <<clientSessions, destroyed>>
<1> USE DEF tables, history
<1>1. ASSUME NEW c \in Conns, Connection(c) PROVE Same
  BY <1>1 DEF Connection, NewClientConnection, SetupNew, SetupAgain, Describe,
              SessionCommand, Eof
<1>2. ASSUME NEW c \in Conns, Handler(c), ~RegisterSession(c) PROVE Same
  BY <1>2 DEF Handler, GetServerMediaSession, FileMissing,
              FoundServerMediaSession, AddServerMediaSession, AddNil, BindSms,
              AdoptSms, MakeStreamStates, GetStreamParameters, CommandPanics,
              NoteCommand, CommandPlay, CommandTearDown, Panic
<1>3. ASSUME NEW o \in Sessions, Timer(o) PROVE Same
  BY <1>3 DEF Timer, StartTimer, TimerFires, LivenessTimeout
<1>4. ASSUME NEW m \in Smses, StartPlaying(m) PROVE Same
  BY <1>4 DEF StartPlaying
<1>5. ASSUME NEW t \in Threads, Destroy(t), ~RemoveClientSession(t) PROVE Same
  BY <1>5 DEF Destroy, StopTimer, StopPanics, RemoveServerMediaSession, Panic
<1>6. CASE UNCHANGED vars
  BY <1>6 DEF vars
<1> QED BY <1>1, <1>2, <1>3, <1>4, <1>5, <1>6 DEF Next

(* Every step leaves each entry under its own session's id.                *)
LEMMA EntryStep ==
  TypeOK /\ Shape /\ EntryHasItsId /\ [Next]_vars => EntryHasItsId'
<1> SUFFICES ASSUME TypeOK, Shape, EntryHasItsId, [Next]_vars PROVE EntryHasItsId'
  OBVIOUS
<1>0. clientSessions \in [Ids -> Sessions \cup {None}]
  BY DEF TypeOK, TablesOK
<1>1. ASSUME NEW i \in Ids, clientSessions'[i] # None, clientSessions'[i] = clientSessions[i]
      PROVE  Allocated(clientSessions[i])' /\ session'[clientSessions[i]].id = i
  BY <1>0, <1>1, IdStep DEF EntryHasItsId
<1>2. CASE UNCHANGED clientSessions
  BY <1>1, <1>2 DEF EntryHasItsId
<1>3. ASSUME NEW c \in Conns, RegisterSession(c) PROVE EntryHasItsId'
  <2>1. PICK o \in Sessions :
          /\ Allocated(o)'
          /\ request[c].id \in Ids /\ session'[o].id = request[c].id
          /\ clientSessions' = [clientSessions EXCEPT ![request[c].id] = o]
    BY <1>3, RegisterEffect
  <2> QED BY <1>0, <1>1, <2>1 DEF EntryHasItsId, Allocated
<1>4. ASSUME NEW t \in Threads, RemoveClientSession(t) PROVE EntryHasItsId'
  BY <1>0, <1>1, <1>4 DEF RemoveClientSession, EntryHasItsId, Allocated
<1> QED BY <1>2, <1>3, <1>4, TableChanges

(* destroy() clears every entry of its session, because they all are the   *)
(* one under the session's id.                                             *)
LEMMA RemovedIsNotRegistered ==
  ASSUME TypeOK, Shape, EntryHasItsId, NEW t \in Threads, RemoveClientSession(t)
  PROVE  ~Registered(Receiver(t))'
<1>1. Receiver(t) \in Sessions
  BY ReceiverType DEF RemoveClientSession
<1>2. \A i \in Ids : clientSessions[i] = Receiver(t) => i = session[Receiver(t)].id
  BY <1>1, ServerAssumption DEF EntryHasItsId
<1>3. clientSessions' = [clientSessions EXCEPT ![session[Receiver(t)].id] = None]
      /\ UNCHANGED clientSession
  BY DEF RemoveClientSession
<1>4. \A i \in Ids : clientSessions'[i] # Receiver(t)
  BY <1>1, <1>2, <1>3, ServerAssumption DEF TypeOK, TablesOK
<1> QED BY <1>3, <1>4 DEF Registered, Receiver

(* No step brings a destroyed session back.                                *)
LEMMA NotFoundStep ==
  ASSUME TypeOK, Shape, EntryHasItsId, DestroyedIsNotFound, [Next]_vars
  PROVE  DestroyedIsNotFound'
<1>0. clientSessions \in [Ids -> Sessions \cup {None}]
  BY DEF TypeOK, TablesOK
<1>1. CASE UNCHANGED <<clientSessions, destroyed>>
  BY <1>1 DEF DestroyedIsNotFound
<1>2. ASSUME NEW c \in Conns, RegisterSession(c) PROVE DestroyedIsNotFound'
  <2>1. PICK o \in Sessions :
          /\ o \notin destroyed
          /\ clientSessions' = [clientSessions EXCEPT ![request[c].id] = o]
          /\ destroyed' = destroyed
    BY <1>2, RegisterEffect
  <2> QED BY <1>0, <2>1 DEF DestroyedIsNotFound
<1>3. ASSUME NEW t \in Threads, RemoveClientSession(t) PROVE DestroyedIsNotFound'
  <2>1. clientSessions' = [clientSessions EXCEPT ![session[Receiver(t)].id] = None]
        /\ destroyed' = destroyed \cup {Receiver(t)} /\ Receiver(t)' = Receiver(t)
    BY <1>3 DEF RemoveClientSession, Receiver
  <2>2. \A i \in Ids : clientSessions'[i] # Receiver(t)
    BY <1>3, <2>1, RemovedIsNotRegistered DEF Registered
  <2>3. None \notin destroyed
    BY ServerAssumption DEF TypeOK, HistoryOK
  <2>4. None # Receiver(t)
    BY <1>3, ReceiverType, ServerAssumption DEF RemoveClientSession
  <2> QED BY <1>0, <2>1, <2>2, <2>3, <2>4 DEF DestroyedIsNotFound
<1> QED BY <1>1, <1>2, <1>3, TableChanges

(* Another thread moves a session's goroutine only by ending the process.  *)
LEMMA OtherSession ==
  ASSUME TypeOK, Shape, NEW o \in Sessions, Allocated(o), NEW t \in Threads \ {o},
         \/ t \in Conns /\ (Connection(t) \/ Handler(t))
         \/ t \in Sessions /\ Timer(t)
         \/ Destroy(t)
  PROVE  pc'[o] = pc[o] \/ panic' # None
<1>0. /\ pc \in [Threads -> ConnSteps \cup TaskSteps]
      /\ \A p \in Panics : p # None
  BY ServerAssumption DEF TypeOK, PcOK
<1> USE <1>0, NilMetType DEF Goto, Done, Panics
<1>1. CASE t \in Conns /\ Connection(t)
  BY <1>1 DEF Connection, NewClientConnection, SetupNew, SetupAgain, Describe,
              SessionCommand, Eof
<1>2. CASE t \in Conns /\ RegisterSession(t)
  BY <1>2, RegisterEffect
<1>3. CASE t \in Conns /\ Handler(t) /\ ~RegisterSession(t)
  BY <1>3 DEF Handler, GetServerMediaSession, FileMissing,
              FoundServerMediaSession, AddServerMediaSession, AddNil, BindSms,
              AdoptSms, MakeStreamStates, GetStreamParameters, CommandPanics,
              NoteCommand, CommandPlay, CommandTearDown, Resolved, Panic
<1>4. CASE t \in Sessions /\ Timer(t)
  BY <1>4 DEF Timer, StartTimer, TimerFires, LivenessTimeout
<1>5. CASE Destroy(t)
  BY <1>5 DEF Destroy, StopTimer, StopPanics, RemoveClientSession,
              RemoveServerMediaSession, Destroyed, Panic
<1> QED BY <1>1, <1>2, <1>3, <1>4, <1>5

(* A thread about to remove o does so, or is still about to.               *)
LEMMA RemovalStep ==
  ASSUME TypeOK, Shape, EntryHasItsId, [Next]_vars, panic' = None,
         NEW o \in Sessions, BeingRemoved(o)
  PROVE  BeingRemoved(o)' \/ ~Registered(o)'
<1>1. PICK t \in Threads : Receiver(t) = o /\ pc[t] = "remove"
  BY DEF BeingRemoved
<1>2. ASSUME pc'[t] = pc[t], t \in Conns => clientSession'[t] = clientSession[t]
      PROVE  BeingRemoved(o)'
  BY <1>1, <1>2 DEF BeingRemoved, Receiver
<1>3. CASE RemoveClientSession(t)
  <2>1. Receiver(t)' = Receiver(t)
    BY <1>3 DEF RemoveClientSession, Receiver
  <2> QED BY <1>1, <1>3, <2>1, RemovedIsNotRegistered DEF Registered
<1>4. ASSUME NEW u \in Threads,
             \/ u \in Conns /\ (Connection(u) \/ Handler(u))
             \/ u \in Sessions /\ Timer(u)
             \/ Destroy(u),
             ~RemoveClientSession(t)
      PROVE  BeingRemoved(o)'
  <2>1. CASE u = t
    <3>1. CASE t \in Conns /\ (Connection(t) \/ Handler(t))
      BY <1>1, <3>1 DEF Connection, NewClientConnection, SetupNew, SetupAgain,
              Describe, SessionCommand, Eof, Receive, Handler, RegisterSession,
              GetServerMediaSession, FileMissing, FoundServerMediaSession,
              AddServerMediaSession, AddNil, BindSms, AdoptSms, MakeStreamStates,
              GetStreamParameters, CommandPanics, NoteCommand, CommandPlay,
              CommandTearDown
    <3>2. CASE t \in Sessions /\ Timer(t)
      <4>1. UNCHANGED <<pc, clientSession>>
        BY <1>1, <3>2 DEF Timer, StartTimer, TimerFires, LivenessTimeout
      <4> QED BY <1>2, <4>1
    <3>3. CASE Destroy(t)
      BY <1>1, <1>4, <3>3 DEF Destroy, StopTimer, StopPanics, RemoveServerMediaSession
    <3> QED BY <1>4, <2>1, <3>1, <3>2, <3>3
  <2>2. CASE u # t /\ t \in Conns
    <3>1. pc'[t] = pc[t] /\ clientSession'[t] = clientSession[t]
      BY <1>4, <2>2, OtherConn
    <3> QED BY <1>2, <3>1
  <2>3. CASE u # t /\ t \in Sessions
    <3>1. Allocated(t)
      BY <1>1, <2>3, ReceiverType DEF Receiver, Shape, SessionShape
    <3>2. pc'[t] = pc[t]
      BY <1>4, <2>3, <3>1, OtherSession
    <3> QED BY <1>2, <2>3, <3>2, ServerAssumption
  <2> QED BY <2>1, <2>2, <2>3
<1>5. ASSUME NEW m \in Smses, StartPlaying(m) PROVE BeingRemoved(o)'
  BY <1>2, <1>5 DEF StartPlaying
<1>6. CASE UNCHANGED vars
  BY <1>2, <1>6 DEF vars
<1> QED BY <1>3, <1>4, <1>5, <1>6 DEF Next

(* What a handler may do to the timer of an allocated session: reset it.   *)
LEMMA HandlerTimer ==
  ASSUME TypeOK, Shape, NEW c \in Conns, Handler(c), NEW o \in Sessions, Allocated(o)
  PROVE  /\ session'[o].tick = session[o].tick
         /\ session'[o].timer \in {session[o].timer, "armed"}
<1>0. session \in [Sessions -> Fields]
  BY DEF TypeOK
<1>1. CASE RegisterSession(c)
  BY <1>0, <1>1 DEF RegisterSession
<1>2. CASE AdoptSms(c) \/ MakeStreamStates(c) \/ GetStreamParameters(c)
  BY <1>0, <1>2 DEF AdoptSms, MakeStreamStates, GetStreamParameters, Fields
<1>3. CASE NoteCommand(c) \/ CommandPlay(c) \/ CommandTearDown(c)
  <2>1. \/ session' = [session EXCEPT ![clientSession[c]] =
             [session[clientSession[c]] EXCEPT !.timer = "armed"]]
        \/ session' = [session EXCEPT ![clientSession[c]] =
             [[session[clientSession[c]] EXCEPT !.timer = "armed"] EXCEPT !.dest = FALSE]]
    BY <1>3 DEF NoteCommand, CommandPlay, CommandTearDown, NoteLiveness
  <2>2. /\ [session[o] EXCEPT !.timer = "armed"].tick = session[o].tick
        /\ [session[o] EXCEPT !.timer = "armed"].timer = "armed"
        /\ [[session[o] EXCEPT !.timer = "armed"] EXCEPT !.dest = FALSE].tick
             = session[o].tick
        /\ [[session[o] EXCEPT !.timer = "armed"] EXCEPT !.dest = FALSE].timer = "armed"
    BY <1>0 DEF Fields
  <2> QED BY <1>0, <2>1, <2>2
<1>4. CASE \/ GetServerMediaSession(c) \/ FileMissing(c)
           \/ FoundServerMediaSession(c) \/ AddServerMediaSession(c)
           \/ AddNil(c) \/ BindSms(c) \/ CommandPanics(c)
  BY <1>4 DEF GetServerMediaSession, FileMissing, FoundServerMediaSession,
              AddServerMediaSession, AddNil, BindSms, CommandPanics, Panic
<1> QED BY <1>1, <1>2, <1>3, <1>4 DEF Handler

(* A watched session stays watched, is about to be removed, or is removed. *)
LEMMA WatchedOrRemoved ==
  ASSUME IInv, [Next]_vars, panic' = None, NEW o \in Sessions, Registered(o), Watched(o)
  PROVE  Watched(o)' \/ BeingRemoved(o)' \/ ~Registered(o)'
<1>0. /\ TypeOK /\ Shape /\ EntryHasItsId
      /\ session \in [Sessions -> Fields]
      /\ pc \in [Threads -> ConnSteps \cup TaskSteps]
      /\ o \notin Conns
  BY ServerAssumption DEF IInv, TypeOK, PcOK
<1>1. Allocated(o)
  BY <1>0, ServerAssumption DEF EntryHasItsId, Registered
<1>2. ASSUME UNCHANGED pc[o], session'[o].tick = session[o].tick,
             session'[o].timer \in {session[o].timer, "armed"}
      PROVE  Watched(o)'
  BY <1>2 DEF Watched
<1>3. ASSUME NEW c \in Conns, Connection(c) PROVE Watched(o)'
  <2>1. UNCHANGED session
    BY <1>3 DEF Connection, NewClientConnection, SetupNew, SetupAgain, Describe,
                SessionCommand, Eof
  <2>2. UNCHANGED pc[o]
    BY <1>0, <1>1, <1>3, OtherSession
  <2> QED BY <1>2, <2>1, <2>2
<1>4. ASSUME NEW c \in Conns, Handler(c) PROVE Watched(o)'
  <2>1. UNCHANGED pc[o]
    BY <1>0, <1>1, <1>4, OtherSession
  <2> QED BY <1>0, <1>1, <1>2, <1>4, <2>1, HandlerTimer
<1>5. ASSUME NEW p \in Sessions, Timer(p) PROVE Watched(o)'
  <2>1. CASE p = o
    BY <1>0, <1>5, <2>1 DEF Timer, StartTimer, TimerFires, LivenessTimeout, Goto,
                            Watched, Fields
  <2>2. CASE p # o
    <3>1. UNCHANGED session[o]
      BY <1>0, <1>5, <2>2 DEF Timer, StartTimer, TimerFires, LivenessTimeout
    <3>2. UNCHANGED pc[o]
      BY <1>0, <1>1, <1>5, <2>2, OtherSession
    <3> QED BY <1>2, <3>1, <3>2
  <2> QED BY <2>1, <2>2
<1>6. ASSUME NEW m \in Smses, StartPlaying(m) PROVE Watched(o)'
  BY <1>2, <1>6 DEF StartPlaying
<1>7. ASSUME NEW t \in Threads, Destroy(t)
      PROVE  Watched(o)' \/ BeingRemoved(o)' \/ ~Registered(o)'
  <2>0. t # o => UNCHANGED pc[o]
    BY <1>0, <1>1, <1>7, OtherSession
  <2>1. CASE StopTimer(t)
    <3>1. CASE Receiver(t) = o
      BY <1>0, <2>1, <3>1 DEF StopTimer, Goto, BeingRemoved, Receiver
    <3>2. CASE Receiver(t) # o
      <4>1. t # o
        BY <1>0, <3>2 DEF Receiver
      <4>2. UNCHANGED session[o]
        BY <1>0, <2>1, <3>2 DEF StopTimer
      <4> QED BY <1>2, <2>0, <4>1, <4>2
    <3> QED BY <3>1, <3>2
  <2>2. CASE StopPanics(t)
    BY <2>2, ServerAssumption DEF StopPanics, Panic, Panics
  <2>3. CASE RemoveClientSession(t)
    <3>1. CASE Receiver(t) = o
      <4>1. Receiver(t)' = Receiver(t)
        BY <2>3 DEF RemoveClientSession, Receiver
      <4> QED BY <1>0, <2>3, <3>1, <4>1, RemovedIsNotRegistered DEF Registered
    <3>2. CASE Receiver(t) # o
      <4>1. t # o
        BY <1>0, <3>2 DEF Receiver
      <4>2. UNCHANGED session
        BY <2>3 DEF RemoveClientSession
      <4> QED BY <1>2, <2>0, <4>1, <4>2
    <3> QED BY <3>1, <3>2
  <2>4. CASE RemoveServerMediaSession(t)
    <3>1. UNCHANGED session
      BY <2>4 DEF RemoveServerMediaSession
    <3>2. CASE t = o
      BY <2>4, <3>1, <3>2 DEF RemoveServerMediaSession, Watched
    <3> QED BY <1>2, <2>0, <3>1, <3>2
  <2> QED BY <1>7, <2>1, <2>2, <2>3, <2>4 DEF Destroy
<1>8. CASE UNCHANGED vars
  BY <1>2, <1>8 DEF vars
<1> QED BY <1>3, <1>4, <1>5, <1>6, <1>7, <1>8 DEF Next

(* A process that panicked stays so.                                       *)
LEMMA PanicStays ==
  ASSUME [Next]_vars, panic # None PROVE panic' # None
<1>0. \A p \in Panics : p # None
  BY ServerAssumption
<1> USE <1>0, NilMetType
<1>1. ASSUME NEW c \in Conns, Connection(c) PROVE UNCHANGED panic
  BY <1>1 DEF Connection, NewClientConnection, SetupNew, SetupAgain, Describe,
              SessionCommand, Eof
<1>2. ASSUME NEW c \in Conns, Handler(c) PROVE panic' # None
  <2>1. CASE AddNil(c) \/ CommandPanics(c)
    BY <2>1 DEF AddNil, CommandPanics, Panic, Panics
  <2>2. CASE ~AddNil(c) /\ ~CommandPanics(c)
    BY <1>2, <2>2 DEF Handler, RegisterSession, GetServerMediaSession, FileMissing,
                FoundServerMediaSession, AddServerMediaSession, BindSms,
                AdoptSms, MakeStreamStates, GetStreamParameters,
                NoteCommand, CommandPlay, CommandTearDown, NoFields, NoRequest
  <2> QED BY <2>1, <2>2
<1>3. ASSUME NEW o \in Sessions, Timer(o) PROVE UNCHANGED panic
  BY <1>3 DEF Timer, StartTimer, TimerFires, LivenessTimeout
<1>4. ASSUME NEW m \in Smses, StartPlaying(m) PROVE UNCHANGED panic
  BY <1>4 DEF StartPlaying
<1>5. ASSUME NEW t \in Threads, Destroy(t) PROVE panic' # None
  BY <1>5 DEF Destroy, StopTimer, StopPanics, RemoveClientSession,
              RemoveServerMediaSession, Panic, Panics
<1>6. CASE UNCHANGED vars
  BY <1>6 DEF vars
<1> QED BY <1>1, <1>2, <1>3, <1>4, <1>5, <1>6 DEF Next

(* Every step leaves the registered sessions watched.                      *)
LEMMA WatchedStep == IInv /\ [Next]_vars => RegisteredIsWatched'
<1> SUFFICES ASSUME IInv, [Next]_vars, NEW o \in Sessions,
                    panic' = None, Registered(o)'
             PROVE  Watched(o)' \/ BeingRemoved(o)'
  BY DEF RegisteredIsWatched
<1>0. TypeOK /\ Shape /\ EntryHasItsId /\ RegisteredIsWatched
  BY DEF IInv
<1>1. CASE Registered(o)
  <2>1. panic = None
    BY <1>0, ServerAssumption, PanicStays
  <2>2. CASE Watched(o)
    BY <1>1, <2>2, WatchedOrRemoved
  <2>3. CASE BeingRemoved(o)
    BY <1>0, <2>3, RemovalStep
  <2> QED BY <1>0, <1>1, <2>1, <2>2, <2>3 DEF RegisteredIsWatched
<1>2. CASE ~Registered(o)
  <2>0. clientSessions \in [Ids -> Sessions \cup {None}]
    BY <1>0 DEF TypeOK, TablesOK
  <2>1. PICK c \in Conns : RegisterSession(c)
    <3>1. ~UNCHANGED clientSessions
      BY <1>2 DEF Registered
    <3>2. ASSUME NEW t \in Threads, RemoveClientSession(t) PROVE FALSE
      BY <1>2, <2>0, <3>2, ServerAssumption DEF RemoveClientSession, Registered
    <3> QED BY <3>1, <3>2, TableChanges
  <2>2. PICK p \in Sessions :
          /\ clientSessions' = [clientSessions EXCEPT ![request[c].id] = p]
          /\ pc' = [pc EXCEPT ![c] = "lookup", ![p] = "spawned"]
    BY <1>0, <2>1, RegisterEffect
  <2>3. p = o
    BY <1>2, <2>0, <2>2 DEF Registered
  <2> QED BY <1>0, <2>2, <2>3 DEF Watched, TypeOK, PcOK
<1> QED BY <1>1, <1>2

-----------------------------------------------------------------------------
(* Every step preserves the invariant.                                     *)
LEMMA IInvStep == IInv /\ [Next]_vars => IInv'
<1> SUFFICES ASSUME IInv, [Next]_vars PROVE IInv'
  OBVIOUS
<1>1. TypeOK'
  BY TypeStep DEF IInv
<1>2. Shape'
  BY ShapeStep DEF IInv
<1>3. EntryHasItsId'
  BY EntryStep DEF IInv
<1>4. DestroyedIsNotFound'
  BY NotFoundStep DEF IInv
<1>5. RegisteredIsWatched'
  BY WatchedStep
<1> QED BY <1>1, <1>2, <1>3, <1>4, <1>5 DEF IInv

(* The conjunction the properties below follow from is an invariant of the *)
(* server, however many clients, sessions and files there are.             *)
THEOREM Inductive == Spec => []IInv
BY InitIInv, IInvStep, PTL DEF Spec

(* Every variable keeps its type: no handler or timer of connection.go,    *)
(* session.go and server.go leaves a thread or a reference outside it.     *)
THEOREM TypeCorrect == Spec => []TypeOK
<1>1. IInv => TypeOK
  BY DEF IInv
<1> QED BY <1>1, Inductive, PTL

(* The table's keys and the sessions' ids agree, although the id is drawn  *)
(* and looked up before it is stored (handleRequestBytes).                 *)
THEOREM EntriesHaveTheirIds == Spec => []EntryHasItsId
<1>1. IInv => EntryHasItsId
  BY DEF IInv
<1> QED BY <1>1, Inductive, PTL

(* getClientSession never finds a session that destroy() removed.          *)
THEOREM DestroyedStaysOut == Spec => []DestroyedIsNotFound
<1>1. IInv => DestroyedIsNotFound
  BY DEF IInv
<1> QED BY <1>1, Inductive, PTL

(* No race between noteLiveness, the timer and the three callers of        *)
(* destroy() leaves a session in the table with no timeout to come.        *)
THEOREM NoSessionIsForgotten == Spec => []RegisteredIsWatched
<1>1. IInv => RegisteredIsWatched
  BY DEF IInv
<1> QED BY <1>1, Inductive, PTL

(* incomingRequestHandler ends only with its session out of the table:     *)
(* either the connection never had one, or destroy() ran to its end, even  *)
(* if a timeout or another connection destroyed the session first.         *)
THEOREM ClosingReclaims == Spec => ClosedLeavesNoSession
<1>1. ASSUME IInv, [Next]_vars, NEW c \in Conns,
             pc[c] # "closed", pc'[c] = "closed", clientSession[c] # None
      PROVE  ~Registered(clientSession[c])'
  <2>0. /\ TypeOK /\ Shape /\ EntryHasItsId /\ DestroyedIsNotFound
        /\ pc \in [Threads -> ConnSteps \cup TaskSteps]
        /\ c \notin Sessions
        /\ clientSession \in [Conns -> Sessions \cup {None}]
    BY <1>1, ServerAssumption DEF IInv, TypeOK, PcOK, TablesOK
  <2>1. ASSUME NEW t \in Threads \ {c},
               \/ t \in Conns /\ (Connection(t) \/ Handler(t))
               \/ t \in Sessions /\ Timer(t)
               \/ Destroy(t)
        PROVE  FALSE
    BY <1>1, <2>0, <2>1, OtherConn
  <2>2. CASE Connection(c)
    BY <1>1, <2>0, <2>2 DEF Connection, NewClientConnection, SetupNew, SetupAgain,
              Describe, SessionCommand, Eof, Goto
  <2>3. CASE Handler(c)
    <3>1. CASE RegisterSession(c)
      BY <1>1, <2>0, <3>1 DEF RegisterSession
    <3>2. CASE ~RegisterSession(c)
      BY <1>1, <2>0, <2>3, <3>2 DEF Handler, GetServerMediaSession, FileMissing,
              FoundServerMediaSession, AddServerMediaSession, AddNil, BindSms,
              AdoptSms, MakeStreamStates, GetStreamParameters, CommandPanics,
              NoteCommand, CommandPlay, CommandTearDown, Resolved, Panic, Goto, Done
    <3> QED BY <3>1, <3>2
  <2>4. CASE Destroy(c)
    <3>1. CASE StopTimer(c) \/ StopPanics(c)
      BY <1>1, <2>0, <3>1 DEF StopTimer, StopPanics, Panic, Goto
    <3>2. CASE RemoveClientSession(c)
      <4>1. Receiver(c)' = clientSession'[c]
        BY DEF Receiver
      <4>2. ~Registered(Receiver(c))'
        BY <2>0, <3>2, RemovedIsNotRegistered
      <4> QED BY <4>1, <4>2 DEF Registered
    <3>3. CASE RemoveServerMediaSession(c)
      <4>1. clientSession[c] \in destroyed /\ UNCHANGED <<clientSession, clientSessions>>
        BY <2>0, <3>3 DEF RemoveServerMediaSession, Shape, ConnShape
      <4> QED BY <2>0, <4>1 DEF DestroyedIsNotFound, Registered
    <3> QED BY <2>4, <3>1, <3>2, <3>3 DEF Destroy
  <2>5. ASSUME NEW m \in Smses, StartPlaying(m) PROVE FALSE
    BY <1>1, <2>5 DEF StartPlaying
  <2>6. CASE UNCHANGED vars
    BY <1>1, <2>6 DEF vars
  <2> DEFINE Acts(t) == \/ t \in Conns /\ (Connection(t) \/ Handler(t))
                        \/ t \in Sessions /\ Timer(t)
                        \/ Destroy(t)
  <2>7. ASSUME NEW t \in Threads, Acts(t) PROVE ~Registered(clientSession[c])'
    <3>1. CASE t = c
      BY <2>0, <2>2, <2>3, <2>4, <2>7, <3>1
    <3>2. CASE t # c
      BY <2>1, <2>7, <3>2
    <3> QED BY <3>1, <3>2
  <2> QED BY <1>1, <2>5, <2>6, <2>7 DEF Next
<1> DEFINE A == \A c \in Conns :
             pc[c] # "closed" /\ pc'[c] = "closed" /\ clientSession[c] # None
               => ~Registered(clientSession[c])'
<1>2. IInv /\ [Next]_vars => [A]_vars
  BY <1>1
<1> QED BY <1>2, Inductive, PTL DEF Spec, ClosedLeavesNoSession

-----------------------------------------------------------------------------
(* The refinement of SessionRegistry.                                      *)
Life(o) == IF ~Allocated(o) THEN "fresh"
           ELSE IF Registered(o) THEN "registered" ELSE "gone"

life == [o \in Sessions |-> Life(o)]

(* Every step is a step of the registry, or none.                          *)
LEMMA LifeStep ==
  ASSUME IInv, [Next]_vars
  PROVE  Registry!Next \/ UNCHANGED life
<1>0. /\ TypeOK /\ Shape /\ EntryHasItsId
      /\ clientSessions \in [Ids -> Sessions \cup {None}]
      /\ None \notin Sessions
  BY ServerAssumption DEF IInv, TypeOK, TablesOK
<1>1. ASSUME NEW o \in Sessions, Registered(o) PROVE Allocated(o)
  BY <1>0, <1>1 DEF EntryHasItsId, Registered
<1>2. ASSUME NEW o \in Sessions, Allocated(o) PROVE Allocated(o)'
  BY <1>0, <1>2, IdStep
<1>3. ASSUME NEW c \in Conns, RegisterSession(c) PROVE Registry!Enter
  <2> DEFINE i == request[c].id
             other == clientSessions[i]
  <2>1. PICK o \in Sessions :
          /\ ~Allocated(o) /\ Allocated(o)' /\ i \in Ids
          /\ session' = [session EXCEPT ![o] = session'[o]]
          /\ clientSessions' = [clientSessions EXCEPT ![i] = o]
    BY <1>0, <1>3, RegisterEffect
  <2>2. ~Registered(o) /\ Registered(o)'
    BY <1>0, <1>1, <2>1 DEF Registered
  <2>3. ASSUME NEW p \in Sessions \ {o} PROVE Allocated(p)' <=> Allocated(p)
    BY <1>0, <2>1 DEF TypeOK, Allocated
  <2>4. ASSUME NEW p \in Sessions \ {o}, p # other PROVE Registered(p)' <=> Registered(p)
    BY <1>0, <2>1, <2>4 DEF Registered
  <2>5. other \in Sessions => Registered(other) /\ other # o
    BY <1>0, <2>1, <2>2 DEF Registered
  <2>6. other \in Sessions => \A k \in Ids : clientSessions'[k] # other
    BY <1>0, <2>1, <2>5 DEF EntryHasItsId
  <2>7. CASE other \in Sessions
    <3>1. life' = [life EXCEPT ![o] = "registered", ![other] = "gone"]
      <4>1. ASSUME NEW p \in Sessions
            PROVE  Life(p)' = IF p = other THEN "gone"
                              ELSE IF p = o THEN "registered" ELSE Life(p)
        <5>1. CASE p = other
          <6>1. Allocated(p)' /\ ~Registered(p)'
            BY <1>1, <1>2, <2>5, <2>6, <2>7, <5>1 DEF Registered
          <6> QED BY <5>1, <6>1 DEF Life
        <5>2. CASE p = o
          BY <2>1, <2>2, <2>5, <2>7, <5>2 DEF Life
        <5>3. CASE p # other /\ p # o
          BY <2>3, <2>4, <5>3 DEF Life
        <5> QED BY <5>1, <5>2, <5>3
      <4> QED BY <2>5, <2>7, <4>1 DEF life
    <3>2. life[o] = "fresh" /\ life[other] = "registered"
      BY <1>1, <2>1, <2>5, <2>7 DEF life, Life
    <3> QED BY <2>7, <3>1, <3>2 DEF Registry!Enter, Registry!Live, life, Life
  <2>8. CASE other \notin Sessions
    <3>1. life' = [life EXCEPT ![o] = "registered"]
      <4>1. ASSUME NEW p \in Sessions
            PROVE  Life(p)' = IF p = o THEN "registered" ELSE Life(p)
        BY <2>1, <2>2, <2>3, <2>4, <2>8 DEF Life
      <4> QED BY <4>1 DEF life
    <3>2. life[o] = "fresh"
      BY <2>1 DEF life, Life
    <3> QED BY <3>1, <3>2 DEF Registry!Enter, life, Life
  <2> QED BY <2>7, <2>8
<1>4. ASSUME \A c \in Conns : ~RegisterSession(c), NEW o \in Sessions
      PROVE  Allocated(o)' <=> Allocated(o)
  BY <1>0, <1>2, <1>4, FreshStep DEF Allocated
<1>5. ASSUME NEW t \in Threads, RemoveClientSession(t), \A c \in Conns : ~RegisterSession(c)
      PROVE  Registry!Leave \/ UNCHANGED life
  <2> DEFINE i == session[Receiver(t)].id
             other == clientSessions[i]
  <2>1. clientSessions' = [clientSessions EXCEPT ![i] = None]
    BY <1>5 DEF RemoveClientSession
  <2>2. i \in Ids
    BY <1>0, <1>5, ReceiverType DEF RemoveClientSession, TypeOK, Fields, Allocated
  <2>3. ASSUME NEW p \in Sessions, p # other PROVE Registered(p)' <=> Registered(p)
    BY <1>0, <2>1, <2>2, <2>3 DEF Registered
  <2>4. CASE other \in Sessions
    <3>1. Registered(other)
      BY <2>2, <2>4 DEF Registered
    <3>2. \A k \in Ids : clientSessions'[k] # other
      BY <1>0, <2>1, <2>2, <2>4 DEF EntryHasItsId
    <3>3. life' = [life EXCEPT ![other] = "gone"]
      <4>1. ASSUME NEW p \in Sessions
            PROVE  Life(p)' = IF p = other THEN "gone" ELSE Life(p)
        <5>1. CASE p = other
          <6>1. Allocated(p)' /\ ~Registered(p)'
            BY <1>1, <1>2, <3>1, <3>2, <5>1 DEF Registered
          <6> QED BY <5>1, <6>1 DEF Life
        <5>2. CASE p # other
          BY <1>4, <1>5, <2>3, <5>2 DEF Life
        <5> QED BY <5>1, <5>2
      <4> QED BY <4>1 DEF life
    <3>4. life[other] = "registered"
      BY <1>1, <2>4, <3>1 DEF life, Life
    <3> QED BY <2>4, <3>3, <3>4 DEF Registry!Leave, Registry!Live, life, Life
  <2>5. CASE other \notin Sessions
    BY <1>4, <1>5, <2>3, <2>5 DEF life, Life
  <2> QED BY <2>4, <2>5
<1>6. ASSUME UNCHANGED clientSessions, \A c \in Conns : ~RegisterSession(c)
      PROVE  UNCHANGED life
  BY <1>4, <1>6 DEF life, Life, Registered
<1> QED BY <1>3, <1>5, <1>6, TableChanges DEF Registry!Next

(* Whatever the connections and timers do, the table of sessions behaves   *)
(* as the registry of SessionRegistry: every session has one span in it.   *)
THEOREM ImplementsRegistry == Spec => RegistrySpec
<1>1. Init => Registry!Init
  BY DEF Init, Registry!Init, Allocated, NoFields
<1>2. IInv /\ [Next]_vars => [Registry!Next]_life
  BY LifeStep
<1>3. life = [o \in Sessions |->
               IF ~Allocated(o) THEN "fresh"
               ELSE IF Registered(o) THEN "registered" ELSE "gone"]
  BY DEF life, Life
<1> QED BY <1>1, <1>2, <1>3, Inductive, PTL DEF Spec, RegistrySpec, Registry!Spec, life, Life
=============================================================================
