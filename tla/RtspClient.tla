------------------------------ MODULE RtspClient ------------------------------
(***************************************************************************)
(* The RTSP client (rtspclient/client.go, rtspclient/callback.go): how     *)
(* requests are numbered, sent and remembered, how a response finds the    *)
(* request it answers, and the chain DESCRIBE, a SETUP for every           *)
(* subsession, PLAY that the handlers of the responses make.               *)
(*                                                                         *)
(* The threads are the goroutine that calls SendRequest, the one that      *)
(* reads the responses (incomingDataHandler), and the ones that shut the   *)
(* stream down on their own: a caller of Close, or the RTCP reader of a    *)
(* subsession that receives a BYE.  Nothing is under a lock; a step is one *)
(* access to a field that another thread uses.                             *)
(*                                                                         *)
(* The server answers the requests of the connection in order, with        *)
(* whatever it likes, and may close it.  Authentication is whether there   *)
(* is a realm; the tunnel over HTTP, which cannot be set up, is left out.  *)
(***************************************************************************)
EXTENDS Naturals, Sequences

CONSTANTS
  Closers,      \* goroutines that shut the stream down
  Tracks,       \* how many subsessions a good SDP describes
  MaxRequests,  \* bound: RequestRecords made in all
  MaxUnnumbered \* bound: what reaches the client without a CSeq header, a
                \* half of a response that TCP cut in two or the 400 of
                \* handleCommandBad

ASSUME ClientAssumption ==
  /\ Closers \cap {"main", "reader"} = {}
  /\ {Tracks, MaxRequests, MaxUnnumbered} \subseteq Nat

VARIABLES
  pc,              \* where each thread is
  local,           \* the command, RequestRecord and result a thread is at
  cseq,            \* RTSPClient.cseq
  made,            \* the RequestRecords made: the fields of each
  requestRecords,  \* RequestQueue.requestRecords, as indices into made
  index,           \* RequestQueue.index, counted from 1
  lastSessionID,   \* whether lastSessionID is not ""
  realm,           \* whether digest.Realm is not ""
  session,         \* whether scs.Session is not nil
  subsession,      \* scs.Subsession: a track, or 0 for nil
  subsessionIndex, \* scs.Session.subsessionIndex
  response,        \* the response the reader is at
  connected,       \* whether tcpConn is open
  requests,        \* what is on the wire to the server
  responses,       \* what is on the wire from it
  unnumbered,      \* how much came without a number
  answers,         \* history: the results each record's Handle was given
  resends,         \* history: how often each record was sent again
  panic            \* whether a nil dereference ended the process

client  == <<lastSessionID, realm, session, subsession, subsessionIndex>>
queue   == <<requestRecords, index>>
network == <<connected, requests, responses, unnumbered>>
history == <<answers, resends>>

vars == <<pc, local, cseq, made, queue, client, response, network, history,
          panic>>

Threads == {"main", "reader"} \cup Closers

Steps == {"idle", "number", "record", "write", "enqueue", "next", "read",
          "scan", "fallback", "matched", "handle", "done", "dead"}

Commands == {"none", "DESCRIBE", "SETUP", "PLAY", "TEARDOWN"}

(* The codes handleResponseBytes tells apart.  0: the first line is not a  *)
(* status line, which parseResponseCode takes for one all the same.        *)
Codes == {0, 200, 302, 401, 404}

NoLocal    == [cmd |-> "none", session |-> FALSE, id |-> 0, ok |-> FALSE]

(* to: the request the server answered, which the client does not see;     *)
(* found: the record the client takes it for; cseq 0: it has no CSeq.      *)
NoResponse == [to |-> 0, cseq |-> 0, code |-> 0, found |-> 0]

Init ==
  /\ pc = [t \in Threads |-> IF t = "reader" THEN "read" ELSE "idle"]
  /\ local = [t \in Threads |-> NoLocal]
  /\ cseq = 1
  /\ made = <<>>
  /\ requestRecords = <<>>
  /\ index = 1
  /\ lastSessionID = FALSE
  /\ realm = FALSE
  /\ session = FALSE
  /\ subsession = 0
  /\ subsessionIndex = 0
  /\ response = NoResponse
  /\ connected = TRUE
  /\ requests = <<>>
  /\ responses = <<>>
  /\ unnumbered = 0
  /\ answers = <<>>
  /\ resends = <<>>
  /\ panic = FALSE

-----------------------------------------------------------------------------
Goto(t, step) == pc' = [pc EXCEPT ![t] = step]

(* Thread t is done with its command: the reader reads on.                 *)
Return(t) ==
  /\ Goto(t, IF t = "reader" THEN "read" ELSE "done")
  /\ local' = [local EXCEPT ![t] = NoLocal]

(* Thread t calls the send function of a command; s: scs.Session is there. *)
Command(t, cmd, s) ==
  /\ Goto(t, "number")
  /\ local' = [local EXCEPT ![t] = [NoLocal EXCEPT !.cmd = cmd, !.session = s]]

(* Record id is handed a result: of a response, or (to = 0) of an error.   *)
Result(t, id, to, ok) ==
  /\ answers' = [answers EXCEPT ![id] = Append(@, to)]
  /\ Goto(t, "handle")
  /\ local' = [local EXCEPT ![t] = [NoLocal EXCEPT !.id = id, !.ok = ok]]

(* What is on the wire is lost with the connection.                        *)
Disconnect ==
  /\ connected' = FALSE
  /\ requests' = <<>>
  /\ responses' = <<>>

(* A nil dereference, on whatever thread, ends the process.                *)
Panic ==
  /\ panic' = TRUE
  /\ pc' = [t \in Threads |-> IF pc[t] = "idle" THEN "idle" ELSE "dead"]
  /\ UNCHANGED <<local, cseq, made, queue, client, response, network, history>>

-----------------------------------------------------------------------------
(* Sending a command, on any thread.                                       *)

SendRequest ==
  /\ pc["main"] = "idle" /\ ~panic
  /\ Command("main", "DESCRIBE", session)
  /\ UNCHANGED <<cseq, made, queue, client, response, network, history, panic>>

(* Close, or shutdownStream called by subsessionByeHandler.                *)
Close(t) ==
  /\ t \in Closers
  /\ pc[t] = "idle" /\ ~panic
  /\ Command(t, "TEARDOWN", session)
  /\ UNCHANGED <<cseq, made, queue, client, response, network, history, panic>>

(* c.cseq++ ...                                                            *)
Number(t) ==
  /\ pc[t] = "number"
  /\ cseq' = cseq + 1
  /\ Goto(t, "record")
  /\ UNCHANGED <<local, made, queue, client, response, network, history, panic>>

(* ... and newRequestRecord(c.cseq, ...).                                  *)
NewRequestRecord(t) ==
  /\ pc[t] = "record"
  /\ Len(made) < MaxRequests
  /\ made' = Append(made, [cseq |-> cseq, cmd |-> local[t].cmd,
                           session |-> local[t].session])
  /\ local' = [local EXCEPT ![t].id = Len(made) + 1]
  /\ answers' = Append(answers, <<>>)
  /\ resends' = Append(resends, 0)
  /\ Goto(t, "write")
  /\ UNCHANGED <<cseq, queue, client, response, network, panic>>

(* PLAY and TEARDOWN are sent within a session only.                       *)
WithinSession(id) == made[id].cmd \in {"PLAY", "TEARDOWN"}

(* sendRequest writes the command ...                                      *)
Write(t) ==
  LET id == local[t].id
  IN  /\ pc[t] = "write"
      /\ WithinSession(id) => lastSessionID /\ made[id].session
      /\ connected
      /\ requests' = Append(requests, id)
      /\ Goto(t, "enqueue")
      /\ UNCHANGED <<local, cseq, made, queue, client, response, connected,
                     responses, unnumbered, history, panic>>

(* ... or has no session to write it for, or fails, and the handler is     *)
(* told at once.  (The record of a failed write is enqueued in the end,    *)
(* where nobody reads it: the connection is never opened again.)           *)
WriteFails(t) ==
  LET id == local[t].id
  IN  /\ pc[t] = "write"
      /\ IF WithinSession(id)
         THEN lastSessionID => made[id].session /\ ~connected
         ELSE ~connected
      /\ Result(t, id, 0, FALSE)
      /\ UNCHANGED <<cseq, made, queue, client, response, network, resends, panic>>

(* A command within a session needs the MediaSession or a subsession.      *)
WritePanics(t) ==
  LET id == local[t].id
  IN  /\ pc[t] = "write"
      /\ WithinSession(id) /\ lastSessionID /\ ~made[id].session
      /\ Panic

(* Mutant: the next SETUP does not wait for the answer to this one.        *)
EnqueueGoesOn(t) ==
  /\ pc[t] = "enqueue"
  /\ requestRecords' = Append(requestRecords, local[t].id)
  /\ IF made[local[t].id].cmd = "SETUP"
     THEN Goto(t, "next") /\ UNCHANGED local
     ELSE Return(t)
  /\ UNCHANGED <<cseq, made, index, client, response, network, history, panic>>

(* ... and enqueues the record, after the server may have answered it; of  *)
(* two appends at a time one may be lost.                                  *)
Enqueue(t) ==
  /\ pc[t] = "enqueue"
  /\ \/ requestRecords' = Append(requestRecords, local[t].id)
     \/ /\ \E u \in Threads \ {t} : pc[u] = "enqueue"
        /\ UNCHANGED requestRecords
  /\ Return(t)
  /\ UNCHANGED <<cseq, made, index, client, response, network, history, panic>>

-----------------------------------------------------------------------------
(* The handlers of callback.go, called with a result.                      *)

Handling(t, cmd) == pc[t] = "handle" /\ made[local[t].id].cmd = cmd

(* Mutant: it is not looked whether there is a MediaSession.               *)
ContinueAfterBadSDP(t) ==
  /\ Handling(t, "DESCRIBE")
  /\ IF local[t].ok
     THEN session' \in BOOLEAN /\ Goto(t, "next") /\ UNCHANGED local
     ELSE Command(t, "TEARDOWN", session) /\ UNCHANGED session
  /\ subsessionIndex' = 0
  /\ UNCHANGED <<cseq, made, queue, lastSessionID, realm, subsession, response,
                 network, history, panic>>

(* A good SDP makes a MediaSession; without one the stream is shut down.   *)
ContinueAfterDESCRIBE(t) ==
  /\ Handling(t, "DESCRIBE")
  /\ \/ /\ local[t].ok
        /\ session' = TRUE
        /\ subsessionIndex' = 0
        /\ Goto(t, "next")
        /\ UNCHANGED local
     \/ /\ session' = (session /\ ~local[t].ok)
        /\ Command(t, "TEARDOWN", session')
        /\ UNCHANGED subsessionIndex
  /\ UNCHANGED <<cseq, made, queue, lastSessionID, realm, subsession, response,
                 network, history, panic>>

(* A good result needs scs.Subsession, whatever SETUP it is of.            *)
ContinueAfterSETUP(t) ==
  /\ Handling(t, "SETUP")
  /\ local[t].ok => subsession # 0
  /\ Goto(t, "next")
  /\ UNCHANGED <<local, cseq, made, queue, client, response, network, history,
                 panic>>

ContinueAfterSETUPPanics(t) ==
  /\ Handling(t, "SETUP")
  /\ local[t].ok /\ subsession = 0
  /\ Panic

ContinueAfterPLAY(t) ==
  /\ Handling(t, "PLAY")
  /\ IF local[t].ok THEN Return(t) ELSE Command(t, "TEARDOWN", session)
  /\ UNCHANGED <<cseq, made, queue, client, response, network, history, panic>>

(* TEARDOWN is sent without a handler.                                     *)
NoHandler(t) ==
  /\ Handling(t, "TEARDOWN")
  /\ Return(t)
  /\ UNCHANGED <<cseq, made, queue, client, response, network, history, panic>>

(* setupNextSubSession takes the next subsession, sets it up if it         *)
(* initiates, and else goes on to the one after it ...                     *)
SetupNextSubSession(t) ==
  /\ pc[t] = "next"
  /\ session
  /\ subsessionIndex < Tracks
  /\ subsessionIndex' = subsessionIndex + 1
  /\ subsession' = subsessionIndex'
  /\ \/ Command(t, "SETUP", TRUE)
     \/ UNCHANGED <<pc, local>>
  /\ UNCHANGED <<cseq, made, queue, lastSessionID, realm, session, response,
                 network, history, panic>>

(* ... and plays when there is none.                                       *)
PlaySession(t) ==
  /\ pc[t] = "next"
  /\ session
  /\ subsessionIndex >= Tracks
  /\ subsessionIndex' = subsessionIndex + 1
  /\ subsession' = 0
  /\ Command(t, "PLAY", TRUE)
  /\ UNCHANGED <<cseq, made, queue, lastSessionID, realm, session, response,
                 network, history, panic>>

NextPanics(t) == pc[t] = "next" /\ ~session /\ Panic

-----------------------------------------------------------------------------
(* handleResponseBytes, on the reader.                                     *)

(* One read returns a response, with what joined it (which is taken for    *)
(* its body), or the first part of it: the rest, which no status line      *)
(* begins, is the next read, and the CSeq header is in one of the two.     *)
ReadSocket ==
  LET first == Head(responses)
  IN  /\ pc["reader"] = "read"
      /\ connected
      /\ responses # <<>>
      /\ \/ /\ response' = first
            /\ \E n \in 1..Len(responses) :
                 responses' = SubSeq(responses, n + 1, Len(responses))
            /\ UNCHANGED unnumbered
         \/ /\ first.cseq # 0
            /\ unnumbered < MaxUnnumbered
            /\ unnumbered' = unnumbered + 1
            /\ \E numbers \in {<<first.cseq, 0>>, <<0, first.cseq>>} :
                 /\ response' = [first EXCEPT !.cseq = numbers[1]]
                 /\ responses' = <<[first EXCEPT !.cseq = numbers[2], !.code = 0]>>
                                   \o Tail(responses)
      /\ Goto("reader", IF response'.cseq = 0 THEN "fallback" ELSE "scan")
      /\ UNCHANGED <<local, cseq, made, queue, client, connected, requests,
                     history, panic>>

(* The read fails: incomingDataHandler ends.                               *)
ReadFails ==
  /\ pc["reader"] = "read"
  /\ ~connected
  /\ Goto("reader", "done")
  /\ UNCHANGED <<local, cseq, made, queue, client, response, network, history,
                 panic>>

(* Mutant: the index is not reset at the end of the queue.                 *)
DequeueOn == index' = index + 1

(* dequeue does not remove: it moves the index, back to the start from     *)
(* the end.                                                                *)
Dequeue == index' = IF index > Len(requestRecords) THEN 1 ELSE index + 1

Dequeued == IF index > Len(requestRecords) THEN 0 ELSE requestRecords[index]

(* Mutant: the first record that is not later is taken, as if the ones     *)
(* before it had been removed.                                             *)
MatchFirst ==
  LET id == Dequeued
      ends == id = 0 \/ made[id].cseq > response.cseq
      found == IF ~ends /\ response.found = 0 THEN id ELSE response.found
  IN  /\ pc["reader"] = "scan"
      /\ Dequeue
      /\ response' = [response EXCEPT !.found = found]
      /\ IF ~ends THEN UNCHANGED pc
         ELSE Goto("reader", IF found = 0 THEN "fallback" ELSE "matched")
      /\ UNCHANGED <<local, cseq, made, requestRecords, client, network, history,
                     panic>>

(* Mutant: the record with the response's CSeq ends the search already.    *)
MatchEarlier ==
  LET id == Dequeued
  IN  /\ pc["reader"] = "scan"
      /\ Dequeue
      /\ IF id # 0 /\ made[id].cseq < response.cseq THEN UNCHANGED pc
         ELSE Goto("reader", "fallback")
      /\ UNCHANGED <<local, cseq, made, requestRecords, client, response, network,
                     history, panic>>

(* The records before and with the response's CSeq are passed; the first   *)
(* one after it ends the search and is passed too.                         *)
MatchCSeq ==
  LET id == Dequeued
      ends == id = 0 \/ made[id].cseq > response.cseq
      found == IF ~ends /\ made[id].cseq = response.cseq THEN id ELSE response.found
  IN  /\ pc["reader"] = "scan"
      /\ Dequeue
      /\ response' = [response EXCEPT !.found = found]
      /\ IF ~ends THEN UNCHANGED pc
         ELSE Goto("reader", IF found = 0 THEN "fallback" ELSE "matched")
      /\ UNCHANGED <<local, cseq, made, requestRecords, client, network, history,
                     panic>>

(* No record was found: the response is taken for the next one's.          *)
Fallback ==
  /\ pc["reader"] = "fallback"
  /\ Dequeue
  /\ response' = [response EXCEPT !.found = Dequeued]
  /\ Goto("reader", "matched")
  /\ UNCHANGED <<local, cseq, made, requestRecords, client, network, history,
                 panic>>

Matched == pc["reader"] = "matched"

Discard ==
  /\ Matched
  /\ response.found = 0
  /\ Return("reader")
  /\ response' = NoResponse
  /\ UNCHANGED <<cseq, made, queue, client, network, history, panic>>

(* handleSetupResponse keeps the session id, if there is one.              *)
Deliver ==
  /\ Matched
  /\ response.found # 0
  /\ response.code # 302
  /\ IF response.code = 200 /\ made[response.found].cmd = "SETUP"
     THEN lastSessionID' \in {lastSessionID, TRUE}
     ELSE UNCHANGED lastSessionID
  /\ realm' \in {realm, realm \/ response.code = 401}
  /\ Result("reader", response.found, response.to, response.code \in {0, 200})
  /\ response' = NoResponse
  /\ UNCHANGED <<cseq, made, queue, session, subsession, subsessionIndex,
                 network, resends, panic>>

(* sendRequest(foundRequest): the same record, under the same CSeq.        *)
SendAgain ==
  /\ Goto("reader", "write")
  /\ local' = [local EXCEPT !["reader"] = [NoLocal EXCEPT !.id = response.found]]
  /\ resends' = [resends EXCEPT ![response.found] = @ + 1]
  /\ response' = NoResponse

(* Mutant: the realm of an earlier 401 does not matter.                    *)
AuthenticateAlways ==
  /\ Matched
  /\ response.found # 0
  /\ response.code = 401
  /\ realm' = TRUE
  /\ SendAgain
  /\ UNCHANGED <<cseq, made, queue, lastSessionID, session, subsession,
                 subsessionIndex, network, answers, panic>>

(* handleAuthenticationFailure succeeds with the first realm only (and     *)
(* with a username and a password, otherwise see Deliver).                 *)
Authenticate ==
  /\ Matched
  /\ response.found # 0
  /\ response.code = 401
  /\ ~realm
  /\ realm' = TRUE
  /\ SendAgain
  /\ UNCHANGED <<cseq, made, queue, lastSessionID, session, subsession,
                 subsessionIndex, network, answers, panic>>

(* A redirect closes the connection and sends the request on it.           *)
Redirect ==
  /\ Matched
  /\ response.found # 0
  /\ response.code = 302
  /\ Disconnect
  /\ SendAgain
  /\ UNCHANGED <<cseq, made, queue, client, unnumbered, answers, panic>>

-----------------------------------------------------------------------------
(* The server.  Its 400 Bad Request has no CSeq (handleCommandBad).        *)
Answer ==
  LET id == Head(requests)
  IN  /\ connected /\ ~panic
      /\ requests # <<>>
      /\ requests' = Tail(requests)
      /\ \/ /\ \E code \in Codes \ {0} :
                 responses' = Append(responses,
                   [NoResponse EXCEPT !.to = id, !.cseq = made[id].cseq, !.code = code])
            /\ UNCHANGED unnumbered
         \/ /\ unnumbered < MaxUnnumbered
            /\ unnumbered' = unnumbered + 1
            /\ responses' = Append(responses,
                 [NoResponse EXCEPT !.to = id, !.code = 404])
      /\ UNCHANGED <<pc, local, cseq, made, queue, client, response, connected,
                     history, panic>>

ServerCloses ==
  /\ connected /\ ~panic
  /\ Disconnect
  /\ UNCHANGED <<pc, local, cseq, made, queue, client, response, unnumbered,
                 history, panic>>

-----------------------------------------------------------------------------
Send(t) ==
  \/ Number(t) \/ NewRequestRecord(t)
  \/ Write(t) \/ WriteFails(t) \/ WritePanics(t) \/ Enqueue(t)

Continue(t) ==
  \/ ContinueAfterDESCRIBE(t)
  \/ ContinueAfterSETUP(t) \/ ContinueAfterSETUPPanics(t)
  \/ ContinueAfterPLAY(t) \/ NoHandler(t)
  \/ SetupNextSubSession(t) \/ PlaySession(t) \/ NextPanics(t)

HandleResponse ==
  \/ ReadSocket \/ ReadFails
  \/ MatchCSeq \/ Fallback
  \/ Discard \/ Deliver \/ Authenticate \/ Redirect

Next ==
  \/ SendRequest
  \/ \E t \in Closers : Close(t)
  \/ \E t \in Threads : Send(t) \/ Continue(t)
  \/ HandleResponse
  \/ Answer \/ ServerCloses

Spec == Init /\ [][Next]_vars

-----------------------------------------------------------------------------
Records == DOMAIN made

(* The types of the variables: whatever refers to a record refers to one   *)
(* that was made, and the queue is a list of them (client.go).             *)
TypeOK ==
  /\ pc \in [Threads -> Steps]
  /\ \A t \in Threads : local[t].id \in Records \cup {0}
  /\ \A id \in Records :
       made[id].cseq \in 2..cseq /\ made[id].cmd \in Commands \ {"none"}
  /\ requestRecords \in Seq(Records)
  /\ index \in 1..(Len(requestRecords) + 1)
  /\ requests \in Seq(Records)
  /\ \A i \in DOMAIN responses : responses[i].to \in Records
  /\ response.found \in Records \cup {0}
  /\ DOMAIN answers = Records /\ DOMAIN resends = Records
  /\ subsession \in 0..Tracks
  /\ unnumbered \in 0..MaxUnnumbered
  /\ {lastSessionID, realm, session, connected, panic} \subseteq BOOLEAN

(* Nothing but the chain of the handlers has sent a request so far, and    *)
(* every response had its number and came in one piece.                    *)
Undisturbed == unnumbered = 0 /\ \A t \in Closers : pc[t] = "idle"

(* "This is the handler that we want.  Remove its record, but remember it, *)
(* so that we can later call its handler" (client.go): no handler is called *)
(* twice.                                                                  *)
HandledOnce == \A id \in Records : Len(answers[id]) <= 1

(* As long as the client speaks to the server in turns, the queue that     *)
(* never forgets a record, and restarts from the first, works: every       *)
(* result is of the request's own response, and it is given once.          *)
AnswersMatch ==
  Undisturbed =>
    \A id \in Records : answers[id] \in {<<>>, <<0>>, <<id>>}

(* ... only the response to DESCRIBE, which another goroutine sends than   *)
(* reads it, can overtake its own enqueue and find no handler ...          *)
ChainIsAnswered ==
  Undisturbed /\ pc["reader"] = "matched" /\ response.found = 0
    => made[response.to].cmd = "DESCRIBE"

(* ... PLAY waits for the answer to each of its SETUPs ...                 *)
PlaysWhenSetUp ==
  Undisturbed =>
    \A p, s \in Records :
      made[p].cmd = "PLAY" /\ made[s].cmd = "SETUP" => answers[s] # <<>>

(* ... and no handler meets the nil that another one left.                 *)
NoPanic == Undisturbed => ~panic

(* A server that answers 401 again and again is given credentials once:    *)
(* no request is sent over and over on a connection, Close or not.         *)
ResentOnce ==
  connected => \A i, j \in Records :
                 resends[i] > 0 /\ resends[j] > 0 => i = j /\ resends[i] = 1
=============================================================================
