------------------------------ MODULE RtspServer ------------------------------
(***************************************************************************)
(* The RTSP server's two tables and everything that changes them: the      *)
(* goroutine of every TCP connection (rtspserver/connection.go), the       *)
(* client sessions and their liveness timers (rtspserver/session.go), and  *)
(* the server media sessions looked up by stream name                      *)
(* (rtspserver/server.go).                                                 *)
(*                                                                         *)
(* There are two kinds of thread: a connection c \in Conns runs            *)
(* incomingRequestHandler, and a session o \in Sessions has a goroutine    *)
(* that runs livenessTimeoutTask.  A step is what a thread does between    *)
(* two accesses to state another thread can see: a section under smsMutex  *)
(* or sessionMutex, or one unsynchronised access to a session's fields.    *)
(*                                                                         *)
(* Responses are output no later step reads and are left out, and so are   *)
(* OPTIONS, RECORD, the HTTP commands and requests that do not parse,      *)
(* which read and write neither table.  What is kept of a stream           *)
(* (livemedia.StreamState) is how far it got: module OnDemandStream has    *)
(* the rest.  Sessions stream RTP over UDP; interleaving it in the TCP     *)
(* connection uses the tables in the same way but is not modelled.         *)
(***************************************************************************)
EXTENDS Naturals, FiniteSets

CONSTANTS
  Conns,        \* connections, each a goroutine; one that closed may be accepted again
  Sessions,     \* RTSPClientSession objects, allocated once each
  Ids,          \* the strings a session id is drawn from
  Smses,        \* ServerMediaSession objects, allocated once each
  Names,        \* stream names, which are file names
  Streamable,   \* the names whose extension createNewSMS knows
  None,         \* Go's nil
  MaxRequests   \* bound: the requests clients send in all

(* The nil dereferences that end the process, and panic's values.          *)
Panics == {"nilSms", "nilTimer", "nilStates", "nilToken", "nilRtcp"}

ASSUME ServerAssumption ==
  /\ Streamable \subseteq Names
  /\ Conns \cap Sessions = {}
  /\ None \notin Conns \cup Sessions \cup Ids \cup Smses \cup Names \cup Panics
  /\ MaxRequests \in Nat

VARIABLES
  pc,                  \* where each thread is
  clientSession,       \* RTSPClientConnection.clientSession
  request,             \* the locals of the request a connection handles
  clientSessions,      \* RTSPServer.clientSessions, under sessionMutex
  serverMediaSessions, \* RTSPServer.serverMediaSessions, under smsMutex
  session,             \* the fields of every RTSPClientSession
  streamName,          \* ServerMediaSession.streamName; None: not allocated
  stream,              \* the subsession's lastStreamToken, see StreamStates
  requests,            \* how many requests were sent (bounded by MaxRequests)
  destroyed,           \* history: the sessions destroy() took out of the table
  panic                \* the nil dereference that ended the process, or None

vars == <<pc, clientSession, request, clientSessions, serverMediaSessions,
          session, streamName, stream, requests, destroyed, panic>>

tables  == <<clientSessions, serverMediaSessions, streamName>>
history == <<requests, destroyed>>

Threads == Conns \cup Sessions

ConnSteps == {"closed", "idle", "register", "lookup", "resolve", "bind",
              "adopt", "states", "params", "within", "stop", "remove",
              "removeSms", "dead"}
TaskSteps == {"none", "spawned", "waiting", "stop", "remove", "removeSms",
              "dead"}

WithinCmds == {"PLAY", "PAUSE", "TEARDOWN", "PARAMETER"}
Cmds == {"none", "DESCRIBE", "SETUP", "EOF"} \cup WithinCmds

(* "nil": lastStreamToken is nil.  "ready": a StreamState without an       *)
(* rtcpInstance.  "starting": a startPlaying goroutine is creating one.    *)
(* "rtcp": rtcpInstance is set; nothing ever resets it.                    *)
StreamStates == {"nil", "ready", "starting", "rtcp"}

NoRequest == [cmd |-> "none", name |-> None, id |-> None, sms |-> None]

(* A session that is not allocated.  timer: livenessTimeoutTimer is nil,   *)
(* armed, or idle (stopped or fired); tick: its channel holds a value;     *)
(* states: the SMS whose subsession streamStates points to.                *)
NoFields == [id |-> None, sms |-> None, timer |-> "nil", tick |-> FALSE,
             states |-> None, token |-> FALSE, dest |-> FALSE]

Allocated(o) == session[o].id # None
Registered(o) == \E i \in Ids : clientSessions[i] = o

(* The session a thread's handler or destroy() runs on.                    *)
Receiver(t) == IF t \in Conns THEN clientSession[t] ELSE t

Init ==
  /\ pc = [t \in Threads |-> IF t \in Conns THEN "closed" ELSE "none"]
  /\ clientSession = [c \in Conns |-> None]
  /\ request = [c \in Conns |-> NoRequest]
  /\ clientSessions = [i \in Ids |-> None]
  /\ serverMediaSessions = [n \in Names |-> None]
  /\ session = [o \in Sessions |-> NoFields]
  /\ streamName = [m \in Smses |-> None]
  /\ stream = [m \in Smses |-> "nil"]
  /\ requests = 0
  /\ destroyed = {}
  /\ panic = None

-----------------------------------------------------------------------------
(* Steps shared by the handlers.                                           *)

Goto(t, step) == pc' = [pc EXCEPT ![t] = step]

(* A request is read by an idle connection.                                *)
Receive(c) ==
  /\ pc[c] = "idle"
  /\ requests < MaxRequests
  /\ requests' = requests + 1

(* The handler of connection c returns to the read loop.                   *)
Done(c) ==
  /\ Goto(c, "idle")
  /\ request' = [request EXCEPT ![c] = NoRequest]

(* A nil dereference in any goroutine ends the process, every thread of it. *)
Panic(p) ==
  /\ panic' = p
  /\ pc' = [t \in Threads |-> "dead"]
  /\ UNCHANGED <<clientSession, request, session, stream, tables, history>>

-----------------------------------------------------------------------------
(* Connections.                                                            *)

(* incomingConnectionHandler accepts and starts incomingRequestHandler.    *)
NewClientConnection(c) ==
  /\ pc[c] = "closed"
  /\ Goto(c, "idle")
  /\ clientSession' = [clientSession EXCEPT ![c] = None]
  /\ UNCHANGED <<request, session, stream, tables, history, panic>>

(* SETUP without a Session header: ids are drawn until one is not in the   *)
(* table.                                                                  *)
SetupNew(c) ==
  /\ Receive(c)
  /\ \E i \in Ids, n \in Names :
       /\ clientSessions[i] = None
       /\ request' = [request EXCEPT ![c] =
            [cmd |-> "SETUP", name |-> n, id |-> i, sms |-> None]]
  /\ Goto(c, "register")
  /\ UNCHANGED <<clientSession, session, stream, tables, destroyed, panic>>

(* Mutant: the session is not told its id.                                 *)
RegisterWithoutId(c) ==
  /\ pc[c] = "register"
  /\ \E o \in Sessions :
       /\ ~Allocated(o)
       /\ clientSession' = [clientSession EXCEPT ![c] = o]
       /\ session' = session
       /\ clientSessions' = [clientSessions EXCEPT ![request[c].id] = o]
       /\ pc' = [pc EXCEPT ![c] = "lookup", ![o] = "spawned"]
  /\ UNCHANGED <<request, serverMediaSessions, streamName, stream, history, panic>>

(* newClientSession, whose noteLiveness starts the timer goroutine, then   *)
(* addClientSession.                                                       *)
RegisterSession(c) ==
  /\ pc[c] = "register"
  /\ \E o \in Sessions :
       /\ ~Allocated(o)
       /\ clientSession' = [clientSession EXCEPT ![c] = o]
       /\ session' = [session EXCEPT ![o] = [NoFields EXCEPT !.id = request[c].id]]
       /\ clientSessions' = [clientSessions EXCEPT ![request[c].id] = o]
       /\ pc' = [pc EXCEPT ![c] = "lookup", ![o] = "spawned"]
  /\ UNCHANGED <<request, serverMediaSessions, streamName, stream, history, panic>>

(* Mutant: an id the table lost is given back to the connection's session. *)
SetupAgainRevives(c) ==
  /\ Receive(c)
  /\ \E i \in Ids, n \in Names :
       /\ clientSession[c] # None
       /\ clientSessions[i] \in {None, clientSession[c]}
       /\ clientSessions' = [clientSessions EXCEPT ![i] = clientSession[c]]
       /\ Goto(c, "lookup")
       /\ request' = [request EXCEPT ![c] =
            [NoRequest EXCEPT !.cmd = "SETUP", !.name = n]]
  /\ UNCHANGED <<clientSession, serverMediaSessions, streamName, session, stream,
                 destroyed, panic>>

(* SETUP with a Session header: an unknown id sets clientSession to nil.   *)
SetupAgain(c) ==
  /\ Receive(c)
  /\ \E i \in Ids, n \in Names :
       /\ clientSession' = [clientSession EXCEPT ![c] = clientSessions[i]]
       /\ IF clientSessions[i] = None
          THEN UNCHANGED <<pc, request>>
          ELSE /\ Goto(c, "lookup")
               /\ request' = [request EXCEPT ![c] =
                    [NoRequest EXCEPT !.cmd = "SETUP", !.name = n]]
  /\ UNCHANGED <<session, stream, tables, destroyed, panic>>

(* DESCRIBE, past authenticationOK.                                        *)
Describe(c) ==
  /\ Receive(c)
  /\ \E n \in Names : request' = [request EXCEPT ![c] =
       [NoRequest EXCEPT !.cmd = "DESCRIBE", !.name = n]]
  /\ Goto(c, "lookup")
  /\ UNCHANGED <<clientSession, session, stream, tables, destroyed, panic>>

(* PLAY, PAUSE, TEARDOWN, GET_PARAMETER and SET_PARAMETER look the id up;  *)
(* an unknown id sets clientSession to nil and is answered with 454.       *)
SessionCommand(c) ==
  /\ Receive(c)
  /\ \E i \in Ids, cmd \in WithinCmds :
       /\ clientSession' = [clientSession EXCEPT ![c] = clientSessions[i]]
       /\ IF clientSessions[i] = None
          THEN UNCHANGED <<pc, request>>
          ELSE /\ Goto(c, "within")
               /\ request' = [request EXCEPT ![c] = [NoRequest EXCEPT !.cmd = cmd]]
  /\ UNCHANGED <<session, stream, tables, destroyed, panic>>

(* The read loop ends (EOF, or the response could not be written): the     *)
(* session the connection last used, if any, is destroyed.                 *)
Eof(c) ==
  /\ pc[c] = "idle"
  /\ IF clientSession[c] = None
     THEN Goto(c, "closed") /\ UNCHANGED request
     ELSE /\ Goto(c, "stop")
          /\ request' = [request EXCEPT ![c] = [NoRequest EXCEPT !.cmd = "EOF"]]
  /\ UNCHANGED <<clientSession, session, stream, tables, history, panic>>

-----------------------------------------------------------------------------
(* lookupServerMediaSession, and handleCommandSetup after it.              *)

(* getServerMediaSession reads the table under smsMutex ...                *)
GetServerMediaSession(c) ==
  /\ pc[c] = "lookup"
  /\ request' = [request EXCEPT ![c].sms = serverMediaSessions[request[c].name]]
  /\ Goto(c, "resolve")
  /\ UNCHANGED <<clientSession, session, stream, tables, history, panic>>

(* ... and is done with it: DESCRIBE answers, SETUP goes on to bind the    *)
(* SMS it got to its session.                                              *)
Resolved(c, m) ==
  IF request[c].cmd = "SETUP" /\ m # None
  THEN /\ Goto(c, "bind")
       /\ request' = [request EXCEPT ![c].sms = m]
  ELSE Done(c)

(* The file does not open: the entry read earlier, if any, is removed and  *)
(* the request is answered with 404, or 400 when the session had an SMS.   *)
FileMissing(c) ==
  /\ pc[c] = "resolve"
  /\ serverMediaSessions' =
       IF request[c].sms # None
       THEN [serverMediaSessions EXCEPT ![request[c].name] = None]
       ELSE serverMediaSessions
  /\ Resolved(c, None)
  /\ UNCHANGED <<clientSession, clientSessions, session, streamName, stream,
                 history, panic>>

(* The file opens and the table had an SMS for it.                         *)
FoundServerMediaSession(c) ==
  /\ pc[c] = "resolve"
  /\ request[c].sms # None
  /\ Resolved(c, request[c].sms)
  /\ UNCHANGED <<clientSession, session, stream, tables, history, panic>>

(* The file opens and the table had none: createNewSMS makes one, which    *)
(* addServerMediaSession puts in the table whatever is there by now.  For  *)
(* an extension createNewSMS does not know it returns nil, and             *)
(* addServerMediaSession asks nil for its StreamName.                      *)
AddServerMediaSession(c) ==
  /\ pc[c] = "resolve"
  /\ request[c].sms = None
  /\ request[c].name \in Streamable
  /\ \E m \in Smses :
       /\ streamName[m] = None
       /\ streamName' = [streamName EXCEPT ![m] = request[c].name]
       /\ serverMediaSessions' = [serverMediaSessions EXCEPT ![request[c].name] = m]
       /\ Resolved(c, m)
  /\ UNCHANGED <<clientSession, clientSessions, session, stream, history, panic>>

AddNil(c) ==
  /\ pc[c] = "resolve"
  /\ request[c].sms = None
  /\ request[c].name \notin Streamable
  /\ Panic("nilSms")

(* s.serverMediaSession is compared with the SMS looked up: nil is         *)
(* replaced (by the next step), another one is answered with 400.          *)
BindSms(c) ==
  /\ pc[c] = "bind"
  /\ LET bound == session[clientSession[c]].sms
     IN  CASE bound = None           -> Goto(c, "adopt") /\ UNCHANGED request
           [] bound = request[c].sms -> Goto(c, "states") /\ UNCHANGED request
           [] OTHER                  -> Done(c)
  /\ UNCHANGED <<clientSession, session, stream, tables, history, panic>>

AdoptSms(c) ==
  /\ pc[c] = "adopt"
  /\ session' = [session EXCEPT ![clientSession[c]].sms = request[c].sms]
  /\ Goto(c, "states")
  /\ UNCHANGED <<clientSession, request, stream, tables, history, panic>>

(* streamStates is made, on the subsession of the SMS bound by now.        *)
MakeStreamStates(c) ==
  LET o == clientSession[c]
  IN  /\ pc[c] = "states"
      /\ session' = [session EXCEPT ![o].states = IF @ = None THEN session[o].sms ELSE @]
      /\ Goto(c, "params")
      /\ UNCHANGED <<clientSession, request, stream, tables, history, panic>>

(* GetStreamParameters creates the subsession's stream or reuses it,       *)
(* records the session's destination, and the session keeps the token.     *)
GetStreamParameters(c) ==
  LET o == clientSession[c]
      m == session[o].states
  IN  /\ pc[c] = "params"
      /\ stream' = [stream EXCEPT ![m] = IF @ = "nil" THEN "ready" ELSE @]
      /\ session' = [session EXCEPT ![o].token = TRUE, ![o].dest = TRUE]
      /\ Done(c)
      /\ UNCHANGED <<clientSession, tables, history, panic>>

-----------------------------------------------------------------------------
(* handleCommandWithinSession.                                             *)

(* Mutant: the timer is stopped where it should be reset.                  *)
StopLiveness(o) == [session[o] EXCEPT !.timer = "idle"]

(* noteLiveness on a session whose timer goroutine was started: the timer  *)
(* is Reset.  A value already in its channel stays there.                  *)
NoteLiveness(o) == [session[o] EXCEPT !.timer = "armed"]

(* The nil a command's handler dereferences first; None when it completes. *)
NilMet(o, cmd) ==
  LET s == session[o]
  IN  IF s.timer = "nil" THEN "nilTimer"
      ELSE IF s.sms = None \/ cmd = "PARAMETER" THEN None
      ELSE IF s.states = None THEN "nilStates"
      ELSE IF cmd # "TEARDOWN" THEN IF s.token THEN None ELSE "nilToken"
      ELSE IF s.token /\ stream[s.states] # "rtcp" THEN "nilRtcp"
      ELSE None

CommandPanics(c) ==
  /\ pc[c] = "within"
  /\ NilMet(clientSession[c], request[c].cmd) # None
  /\ Panic(NilMet(clientSession[c], request[c].cmd))

(* A session without a SETUP is answered with 405, GET_PARAMETER and       *)
(* SET_PARAMETER (and a URL that does not match, with 404) only note       *)
(* liveness, and PAUSE changes nothing the tables depend on.               *)
NoteCommand(c) ==
  LET o == clientSession[c]
  IN  /\ pc[c] = "within"
      /\ NilMet(o, request[c].cmd) = None
      /\ request[c].cmd \in {"PAUSE", "PARAMETER"} \/ session[o].sms = None
      /\ session' = [session EXCEPT ![o] = NoteLiveness(o)]
      /\ Done(c)
      /\ UNCHANGED <<clientSession, stream, tables, history, panic>>

(* StartStream starts startPlaying, which returns at once for a session    *)
(* without a destination.                                                  *)
CommandPlay(c) ==
  LET o == clientSession[c]
      m == session[o].states
  IN  /\ pc[c] = "within"
      /\ request[c].cmd = "PLAY"
      /\ NilMet(o, "PLAY") = None
      /\ session[o].sms # None
      /\ session' = [session EXCEPT ![o] = NoteLiveness(o)]
      /\ stream' = [stream EXCEPT ![m] =
                      IF @ = "ready" /\ session[o].dest THEN "starting" ELSE @]
      /\ Done(c)
      /\ UNCHANGED <<clientSession, tables, history, panic>>

(* startPlaying has its RTCPInstance.                                      *)
StartPlaying(m) ==
  /\ panic = None
  /\ stream[m] = "starting"
  /\ stream' = [stream EXCEPT ![m] = "rtcp"]
  /\ UNCHANGED <<pc, clientSession, request, session, tables, history, panic>>

(* DeleteStream forgets the destination and reclaims the stream; then the  *)
(* session is destroyed.                                                   *)
CommandTearDown(c) ==
  LET o == clientSession[c]
  IN  /\ pc[c] = "within"
      /\ request[c].cmd = "TEARDOWN"
      /\ NilMet(o, "TEARDOWN") = None
      /\ session[o].sms # None
      /\ session' = [session EXCEPT ![o] = [NoteLiveness(o) EXCEPT !.dest = FALSE]]
      /\ Goto(c, "stop")
      /\ UNCHANGED <<clientSession, request, stream, tables, history, panic>>

-----------------------------------------------------------------------------
(* livenessTimeoutTask: NewTimer, then destroy() at every tick, for ever.  *)

StartTimer(o) ==
  /\ pc[o] = "spawned"
  /\ session' = [session EXCEPT ![o].timer = "armed"]
  /\ Goto(o, "waiting")
  /\ UNCHANGED <<clientSession, request, stream, tables, history, panic>>

(* reclamationTestSeconds have passed.                                     *)
TimerFires(o) ==
  /\ panic = None
  /\ session[o].timer = "armed"
  /\ session' = [session EXCEPT ![o].timer = "idle", ![o].tick = TRUE]
  /\ UNCHANGED <<pc, clientSession, request, stream, tables, history, panic>>

(* Mutant: a timeout finds nothing to reclaim in a session without an SMS. *)
LivenessTimeoutIfBound(o) ==
  /\ pc[o] = "waiting"
  /\ session[o].tick
  /\ session' = [session EXCEPT ![o].tick = FALSE]
  /\ IF session[o].sms = None THEN UNCHANGED pc ELSE Goto(o, "stop")
  /\ UNCHANGED <<clientSession, request, stream, tables, history, panic>>

LivenessTimeout(o) ==
  /\ pc[o] = "waiting"
  /\ session[o].tick
  /\ session' = [session EXCEPT ![o].tick = FALSE]
  /\ Goto(o, "stop")
  /\ UNCHANGED <<clientSession, request, stream, tables, history, panic>>

-----------------------------------------------------------------------------
(* RTSPClientSession.destroy(), run by the handler of TEARDOWN, by the     *)
(* goroutine of a connection that ended, and by livenessTimeoutTask.       *)

(* Mutant: the timeout's goroutine returns to a connection's read loop.    *)
DestroyedToIdle(t) ==
  /\ Goto(t, "idle")
  /\ UNCHANGED request

Destroyed(t) ==
  IF t \in Sessions
  THEN Goto(t, "waiting") /\ UNCHANGED request
  ELSE /\ Goto(t, IF request[t].cmd = "EOF" THEN "closed" ELSE "idle")
       /\ request' = [request EXCEPT ![t] = NoRequest]

(* livenessTimeoutTimer.Stop(), on a timer its goroutine may not have      *)
(* created yet.                                                            *)
StopTimer(t) ==
  LET o == Receiver(t)
  IN  /\ pc[t] = "stop"
      /\ session[o].timer # "nil"
      /\ session' = [session EXCEPT ![o].timer = "idle"]
      /\ Goto(t, "remove")
      /\ UNCHANGED <<clientSession, request, stream, tables, history, panic>>

StopPanics(t) ==
  /\ pc[t] = "stop"
  /\ session[Receiver(t)].timer = "nil"
  /\ Panic("nilTimer")

(* Mutant: a session without an SMS is left in the table.                  *)
RemoveIfBound(t) ==
  LET o == Receiver(t)
  IN  /\ pc[t] = "remove"
      /\ clientSessions' = IF session[o].sms = None THEN clientSessions
                           ELSE [clientSessions EXCEPT ![session[o].id] = None]
      /\ destroyed' = destroyed \cup {o}
      /\ IF session[o].sms = None
         THEN Destroyed(t)
         ELSE Goto(t, "removeSms") /\ UNCHANGED request
      /\ UNCHANGED <<clientSession, serverMediaSessions, session, streamName,
                     stream, requests, panic>>

(* removeClientSession deletes whatever the id maps to.                    *)
RemoveClientSession(t) ==
  LET o == Receiver(t)
  IN  /\ pc[t] = "remove"
      /\ clientSessions' = [clientSessions EXCEPT ![session[o].id] = None]
      /\ destroyed' = destroyed \cup {o}
      /\ IF session[o].sms = None
         THEN Destroyed(t)
         ELSE Goto(t, "removeSms") /\ UNCHANGED request
      /\ UNCHANGED <<clientSession, serverMediaSessions, session, streamName,
                     stream, requests, panic>>

(* removeServerMediaSession deletes whatever the stream name maps to.      *)
RemoveServerMediaSession(t) ==
  LET n == streamName[session[Receiver(t)].sms]
  IN  /\ pc[t] = "removeSms"
      /\ serverMediaSessions' = [serverMediaSessions EXCEPT ![n] = None]
      /\ Destroyed(t)
      /\ UNCHANGED <<clientSession, clientSessions, session, streamName, stream,
                     history, panic>>

-----------------------------------------------------------------------------
Connection(c) ==
  \/ NewClientConnection(c)
  \/ SetupNew(c) \/ SetupAgain(c) \/ Describe(c) \/ SessionCommand(c)
  \/ Eof(c)

(* What the goroutine of c does with a request it has read.                *)
Handler(c) ==
  \/ RegisterSession(c)
  \/ GetServerMediaSession(c)
  \/ FileMissing(c) \/ FoundServerMediaSession(c)
  \/ AddServerMediaSession(c) \/ AddNil(c)
  \/ BindSms(c) \/ AdoptSms(c) \/ MakeStreamStates(c) \/ GetStreamParameters(c)
  \/ CommandPanics(c) \/ NoteCommand(c) \/ CommandPlay(c) \/ CommandTearDown(c)

Destroy(t) ==
  \/ StopTimer(t) \/ StopPanics(t)
  \/ RemoveClientSession(t) \/ RemoveServerMediaSession(t)

Timer(o) == StartTimer(o) \/ TimerFires(o) \/ LivenessTimeout(o)

Next ==
  \/ \E c \in Conns : Connection(c) \/ Handler(c)
  \/ \E o \in Sessions : Timer(o)
  \/ \E m \in Smses : StartPlaying(m)
  \/ \E t \in Threads : Destroy(t)

Spec == Init /\ [][Next]_vars

(* The Go scheduler runs every goroutine that can run, and a timer that is *)
(* armed and not reset fires.  Nothing makes a client send or close.       *)
Fairness ==
  /\ \A c \in Conns : WF_vars(Handler(c) \/ Destroy(c))
  /\ \A o \in Sessions :
       /\ WF_vars(StartTimer(o) \/ LivenessTimeout(o) \/ Destroy(o))
       /\ WF_vars(TimerFires(o))

FairSpec == Spec /\ Fairness

-----------------------------------------------------------------------------
Fields == [id : Ids \cup {None}, sms : Smses \cup {None},
           timer : {"nil", "armed", "idle"}, tick : BOOLEAN,
           states : Smses \cup {None}, token : BOOLEAN, dest : BOOLEAN]

Request == [cmd : Cmds, name : Names \cup {None}, id : Ids \cup {None},
            sms : Smses \cup {None}]

PcOK ==
  /\ pc \in [Threads -> ConnSteps \cup TaskSteps]
  /\ \A c \in Conns : pc[c] \in ConnSteps
  /\ \A o \in Sessions : pc[o] \in TaskSteps

TablesOK ==
  /\ clientSession \in [Conns -> Sessions \cup {None}]
  /\ clientSessions \in [Ids -> Sessions \cup {None}]
  /\ serverMediaSessions \in [Names -> Smses \cup {None}]
  /\ streamName \in [Smses -> Names \cup {None}]
  /\ stream \in [Smses -> StreamStates]

HistoryOK ==
  /\ requests \in 0..MaxRequests
  /\ destroyed \subseteq Sessions
  /\ panic \in Panics \cup {None}

(* The types of the variables: every thread is at a step of its own code,  *)
(* and every reference is nil or an object of its class (connection.go,    *)
(* session.go, server.go).                                                 *)
TypeOK ==
  /\ PcOK
  /\ TablesOK
  /\ HistoryOK
  /\ request \in [Conns -> Request]
  /\ session \in [Sessions -> Fields]

(* A session that destroy() took out of the table is never found again: no *)
(* thread puts it back, whichever of TEARDOWN, the end of a connection and *)
(* the timeout destroyed it, and however often.                            *)
DestroyedIsNotFound ==
  \A i \in Ids : clientSessions[i] \notin destroyed

(* A session found under an id is the session that was given that id.      *)
EntryHasItsId ==
  \A i \in Ids : clientSessions[i] # None =>
    /\ Allocated(clientSessions[i])
    /\ session[clientSessions[i]].id = i

(* Some thread is about to take o out of the table.                        *)
BeingRemoved(o) == \E t \in Threads : Receiver(t) = o /\ pc[t] = "remove"

(* o is going to be destroyed unless it is heard of: its goroutine has yet *)
(* to create the timer, or the timer runs, or the goroutine has its tick.  *)
Watched(o) ==
  \/ pc[o] = "spawned"
  \/ session[o].timer = "armed"
  \/ session[o].tick
  \/ pc[o] = "stop"

(* No session is leaked by the races on its timer: as long as it is in the *)
(* table, either its liveness check is pending or it is being destroyed.   *)
RegisteredIsWatched ==
  \A o \in Sessions :
    panic = None /\ Registered(o) => Watched(o) \/ BeingRemoved(o)

(* When the goroutine of a connection ends, the session the connection     *)
(* last used is out of the table, whatever other threads did to it.        *)
ClosedLeavesNoSession ==
  [][\A c \in Conns :
       pc[c] # "closed" /\ pc'[c] = "closed" /\ clientSession[c] # None
         => ~Registered(clientSession[c])']_vars

(* A session whose client goes silent (here: every request has been sent)  *)
(* is reclaimed, even when no connection refers to it any more.            *)
SilentIsReclaimed ==
  \A o \in Sessions : Registered(o) ~> (~Registered(o) \/ panic # None)

(* Seen through the table alone, the server is the registry of sessions    *)
(* SessionRegistry describes.                                              *)
Registry == INSTANCE SessionRegistry WITH
  life <- [o \in Sessions |->
             IF ~Allocated(o) THEN "fresh"
             ELSE IF Registered(o) THEN "registered" ELSE "gone"]

(* A client session enters clientSessions once, leaves it once and never   *)
(* comes back, whatever handlers, timeouts and closing connections do.     *)
RegistrySpec == Registry!Spec

-----------------------------------------------------------------------------
(* Two things the comments say of the code, and the code does not do.      *)

(* "check whether we already have a ServerMediaSession for server file":   *)
(* sessions set up on one stream name at one time share its SMS.           *)
OneSmsPerName ==
  \A o1, o2 \in Sessions :
    /\ Registered(o1) /\ session[o1].sms # None
    /\ Registered(o2) /\ session[o2].sms # None
    /\ streamName[session[o1].sms] = streamName[session[o2].sms]
    => session[o1].sms = session[o2].sms

(* "turn off any liveness check": after destroy() the timer does not run.  *)
DestroyedIsNotTimed ==
  \A o \in destroyed : session[o].timer # "armed"
=============================================================================
