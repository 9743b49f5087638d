-------------------------- MODULE RtspClient_proofs --------------------------
(***************************************************************************)
(* The invariants of RtspClient, for any number of subsessions, closing    *)
(* goroutines, requests and unnumbered responses.                          *)
(*                                                                         *)
(* What the client relies on without checking it is that it speaks in      *)
(* turns: while nothing disturbs it there is one place where the dialogue  *)
(* goes on (TurnsInv), a thread that works on a request or the wire that   *)
(* carries it, and the request is the latest one made.  The queue keeps    *)
(* every record and restarts from the first; it works because the latest   *)
(* record is at its end and the search has not passed it (WaitInv).        *)
(***************************************************************************)
EXTENDS RtspClient, TLAPS, SequenceTheorems

LocalRecords ==
  [cmd : Commands, session : BOOLEAN, id : Records \cup {0}, ok : BOOLEAN]
RequestRecords == [cseq : Nat, cmd : Commands \ {"none"}, session : BOOLEAN]
Responses == [to : Records, cseq : Nat, code : Codes, found : {0}]
ResponsesTaken ==
  [to : Records \cup {0}, cseq : Nat, code : Codes, found : Records \cup {0}]

(* The types in full.                                                      *)
ThreadTypes ==
  /\ pc \in [Threads -> Steps]
  /\ local \in [Threads -> LocalRecords]

RecordTypes ==
  /\ made \in Seq(RequestRecords)
  /\ cseq \in Nat /\ cseq > 0
  /\ answers \in Seq(Seq(Records \cup {0})) /\ Len(answers) = Len(made)
  /\ resends \in Seq(Nat) /\ Len(resends) = Len(made)

QueueTypes ==
  /\ requestRecords \in Seq(Records)
  /\ index \in 1 .. Len(requestRecords) + 1

WireTypes ==
  /\ requests \in Seq(Records)
  /\ responses \in Seq(Responses)
  /\ response \in ResponsesTaken

ClientTypes ==
  /\ subsession \in 0 .. Tracks /\ subsessionIndex \in Nat
  /\ unnumbered \in 0 .. MaxUnnumbered
  /\ lastSessionID \in BOOLEAN /\ realm \in BOOLEAN /\ session \in BOOLEAN
  /\ connected \in BOOLEAN /\ panic \in BOOLEAN

TypesInv == ThreadTypes /\ RecordTypes /\ QueueTypes /\ WireTypes /\ ClientTypes

(* No number was given out that cseq has not reached.                      *)
NumbersInv == \A id \in Records : made[id].cseq \in 2 .. cseq

(* What a thread's place says of its local variables.                      *)
Place(t) ==
  /\ pc[t] \in {"number", "record"} => local[t].cmd # "none"
  /\ pc[t] = "record" => cseq >= 2
  /\ pc[t] \in {"write", "enqueue", "handle"} => local[t].id \in Records
  /\ pc[t] \in {"read", "scan", "fallback", "matched"} => t = "reader"

PlacesInv ==
  /\ \A t \in Threads : Place(t)
  /\ pc["reader"] # "idle"
  /\ pc["reader"] \in {"scan", "fallback", "matched"} => response.to \in Records

(* A connection that is closed carries nothing.                            *)
WireInv == ~connected => requests = <<>> /\ responses = <<>>

(* Who has been sent again on this connection was sent with the realm.     *)
RealmInv == connected => \A i \in Records : resends[i] > 0 => realm

BaseInv ==
  TypesInv /\ NumbersInv /\ PlacesInv /\ WireInv /\ RealmInv /\ ResentOnce

-----------------------------------------------------------------------------
(* While the client is undisturbed.  The latest record is what the         *)
(* dialogue is about.                                                      *)
Latest == Len(made)

Busy(t) == pc[t] \notin {"read", "enqueue", "done"}
Wire == Len(requests) + Len(responses)

(* One thread, or the wire, has the turn; only the record of DESCRIBE may  *)
(* still be on its way into the queue while the response is taken.         *)
TurnsInv ==
  /\ ~panic
  /\ Wire <= 1
  /\ Busy("main") => pc["reader"] \in {"read", "done"} /\ Wire = 0
  /\ Busy("reader") => pc["main"] \in {"enqueue", "done"} /\ Wire = 0
  /\ pc["main"] = "enqueue" =>
       /\ Latest = 1
       /\ requestRecords = <<>>
       /\ pc["reader"] \in {"read", "done", "scan", "fallback", "matched"}

(* Records are numbered one by one, all but the latest are answered, what  *)
(* they need of the session is there, and nothing is set up after PLAY.    *)
MadeInv ==
  /\ \A id \in Records :
       /\ made[id].cseq = id + 1
       /\ (made[id].cmd = "DESCRIBE") <=> (id = 1)
       /\ id < Latest => answers[id] # <<>>
       /\ answers[id] \in {<<>>, <<0>>, <<id>>}
       /\ made[id].cmd \in {"SETUP", "PLAY"} => session
       /\ made[id].cmd \in {"PLAY", "TEARDOWN"} => (made[id].session <=> session)
  /\ \A p, s \in Records :
       made[p].cmd \in {"PLAY", "TEARDOWN"} /\ made[s].cmd = "SETUP" => s < p
  /\ cseq = Latest + (IF pc["main"] = "record" \/ pc["reader"] = "record" THEN 2 ELSE 1)
  /\ lastSessionID => session /\ Latest >= 2

StepInv(t) ==
  /\ pc[t] = "idle" => Latest = 0
  /\ pc[t] \in {"number", "record"} =>
       /\ (local[t].cmd = "DESCRIBE") <=> (Latest = 0)
       /\ local[t].cmd \in {"SETUP", "PLAY"} => session
       /\ local[t].cmd \in {"PLAY", "TEARDOWN"} => (local[t].session <=> session)
       /\ local[t].cmd = "SETUP" => subsession # 0
  /\ pc[t] \in {"number", "record", "handle", "next"} /\ Latest > 0 =>
       answers[Latest] # <<>>
  /\ pc[t] = "next" => session /\ Latest > 0
  /\ pc[t] = "next" \/ (pc[t] \in {"number", "record"} /\ local[t].cmd = "SETUP") =>
       \A p \in Records : made[p].cmd \notin {"PLAY", "TEARDOWN"}
  /\ pc[t] \in {"write", "enqueue", "handle"} => local[t].id = Latest
  /\ pc[t] \in {"write", "enqueue"} => answers[Latest] = <<>>

StepsInv == StepInv("main") /\ StepInv("reader")

(* The goroutine that sent DESCRIBE goes on only when that failed.         *)
MainInv ==
  Busy("main") =>
    /\ ~session /\ requestRecords = <<>>
    /\ Latest <= 2
    /\ pc["main"] \in {"number", "record"} => Latest <= 1
    /\ pc["main"] = "handle" => ~local["main"].ok
    /\ pc["main"] \notin {"next", "dead"}

(* The latest record is at the end of the queue.                           *)
AtEnd == requestRecords # <<>> /\ requestRecords[Len(requestRecords)] = Latest

(* What is on the wire is about the latest record, which the search will   *)
(* meet.                                                                   *)
WaitInv ==
  /\ pc["reader"] # "dead"
  /\ pc["reader"] = "done" => ~connected
  /\ Wire = 1 => answers[Latest] = <<>> /\ Latest > 0
  /\ Wire = 1 /\ pc["main"] # "enqueue" /\ pc["reader"] # "enqueue" =>
       AtEnd /\ index <= Len(requestRecords)
  /\ \A i \in DOMAIN requests : requests[i] = Latest
  /\ \A i \in DOMAIN responses :
       /\ responses[i].to = Latest /\ responses[i].cseq = Latest + 1
       /\ responses[i].code # 0
  /\ Latest > 0 /\ pc["reader"] \notin {"next", "number", "record"} =>
       (made[Latest].cmd = "SETUP" => subsession # 0)

(* The response that is looked at is the latest record's, and only that of *)
(* DESCRIBE may find no record.                                            *)
ScanInv ==
  pc["reader"] \in {"scan", "fallback", "matched"} =>
    /\ Latest > 0 /\ answers[Latest] = <<>>
    /\ response.to = Latest /\ response.cseq = Latest + 1 /\ response.code # 0
    /\ response.found \in {0, Latest}
    /\ pc["reader"] = "scan" /\ pc["main"] = "done" =>
         AtEnd /\ (response.found = 0 => index <= Len(requestRecords))
    /\ pc["reader"] = "fallback" =>
         /\ Latest = 1 /\ response.found = 0 /\ index = 1
         /\ requestRecords = <<>> \/ requestRecords = <<1>>
    /\ pc["reader"] = "matched" /\ response.found = 0 => Latest = 1
    /\ response.found # 0 => pc["main"] = "done"

TurnInv == TurnsInv /\ MadeInv /\ StepsInv /\ MainInv /\ WaitInv /\ ScanInv

IInv == BaseInv /\ (Undisturbed => TurnInv)

-----------------------------------------------------------------------------
(* Threads, records and what the common steps do to them.                  *)

LEMMA ThreadsApart ==
  /\ "main" \in Threads /\ "reader" \in Threads
  /\ Threads = {"main", "reader"} \cup Closers
  /\ Tracks \in Nat /\ MaxUnnumbered \in Nat
  /\ \A t \in Closers : t \in Threads /\ t # "main" /\ t # "reader"
  BY ClientAssumption DEF Threads

LEMMA MoreRecords ==
  ASSUME NEW S, NEW T, S \subseteq T, NEW s \in Seq(S)
  PROVE  s \in Seq(T)
  OBVIOUS

LEMMA RecordsAreNumbers ==
  ASSUME RecordTypes
  PROVE  Records = 1 .. Latest /\ Latest \in Nat
  BY DEF RecordTypes, Records, Latest

LEMMA RecordFields ==
  ASSUME RecordTypes
  PROVE  \A i \in Records : made[i].cseq \in Nat /\ made[i].cmd \in Commands \ {"none"}
<1>1. \A i \in Records : made[i] \in RequestRecords
  BY RecordsAreNumbers DEF RecordTypes, Latest
<1> QED BY <1>1 DEF RequestRecords

(* A thread goes to a step; nobody else moves.                             *)
LEMMA GotoEffect ==
  ASSUME ThreadTypes, NEW t \in Threads, NEW step \in Steps, Goto(t, step)
  PROVE  /\ pc' \in [Threads -> Steps]
         /\ pc'[t] = step
         /\ \A u \in Threads \ {t} : pc'[u] = pc[u]
  BY DEF Goto, ThreadTypes

LEMMA CommandTyped ==
  ASSUME NEW cmd \in Commands, NEW s \in BOOLEAN
  PROVE  [NoLocal EXCEPT !.cmd = cmd, !.session = s] \in LocalRecords
  BY DEF NoLocal, LocalRecords

LEMMA CommandEffect ==
  ASSUME ThreadTypes, NEW t \in Threads, NEW cmd \in Commands, NEW s \in BOOLEAN,
         Command(t, cmd, s)
  PROVE  /\ pc' \in [Threads -> Steps]
         /\ local' \in [Threads -> LocalRecords]
         /\ pc'[t] = "number"
         /\ local'[t].cmd = cmd
         /\ local'[t].session = s
         /\ \A u \in Threads \ {t} : pc'[u] = pc[u] /\ local'[u] = local[u]
<1>1. /\ pc' \in [Threads -> Steps]
      /\ pc'[t] = "number"
      /\ \A u \in Threads \ {t} : pc'[u] = pc[u]
  BY GotoEffect DEF Command, Steps
<1>2. local' = [local EXCEPT ![t] = [NoLocal EXCEPT !.cmd = cmd, !.session = s]]
  BY DEF Command
<1>3. local' \in [Threads -> LocalRecords]
  BY <1>2, CommandTyped DEF ThreadTypes
<1>4. local'[t].cmd = cmd
  BY <1>2 DEF ThreadTypes, NoLocal
<1>5. local'[t].session = s
  BY <1>2 DEF ThreadTypes, NoLocal
<1>6. \A u \in Threads \ {t} : local'[u] = local[u]
  BY <1>2 DEF ThreadTypes
<1> QED BY <1>1, <1>3, <1>4, <1>5, <1>6

LEMMA ReturnEffect ==
  ASSUME ThreadTypes, NEW t \in Threads, Return(t)
  PROVE  /\ pc' \in [Threads -> Steps]
         /\ local' \in [Threads -> LocalRecords]
         /\ pc'[t] = IF t = "reader" THEN "read" ELSE "done"
         /\ \A u \in Threads \ {t} : pc'[u] = pc[u] /\ local'[u] = local[u]
<1>1. NoLocal \in LocalRecords
  BY DEF NoLocal, LocalRecords, Commands
<1> QED BY <1>1 DEF Return, Goto, ThreadTypes, Steps

(* A record's handler is called.                                           *)
LEMMA ResultEffect ==
  ASSUME TypesInv, NEW t \in Threads, NEW id \in Records,
         NEW to \in Records \cup {0}, NEW ok \in BOOLEAN, Result(t, id, to, ok)
  PROVE  /\ pc' \in [Threads -> Steps]
         /\ local' \in [Threads -> LocalRecords]
         /\ pc'[t] = "handle"
         /\ local'[t].id = id
         /\ local'[t].ok = ok
         /\ \A u \in Threads \ {t} : pc'[u] = pc[u] /\ local'[u] = local[u]
         /\ answers' \in Seq(Seq(Records \cup {0})) /\ Len(answers') = Len(answers)
         /\ answers'[id] = Append(answers[id], to)
         /\ \A i \in Records \ {id} : answers'[i] = answers[i]
<1> USE DEF TypesInv
<1>1. /\ pc' \in [Threads -> Steps]
      /\ pc'[t] = "handle"
      /\ \A u \in Threads \ {t} : pc'[u] = pc[u]
  BY GotoEffect DEF Result, Steps
<1>2. local' = [local EXCEPT ![t] = [NoLocal EXCEPT !.id = id, !.ok = ok]]
  BY DEF Result
<1>3. [NoLocal EXCEPT !.id = id, !.ok = ok] \in LocalRecords
  BY DEF NoLocal, LocalRecords, Commands
<1>4. local' \in [Threads -> LocalRecords]
  BY <1>2, <1>3 DEF ThreadTypes
<1>5. local'[t].id = id
  BY <1>2 DEF ThreadTypes, NoLocal
<1>6. local'[t].ok = ok
  BY <1>2 DEF ThreadTypes, NoLocal
<1>7. \A u \in Threads \ {t} : local'[u] = local[u]
  BY <1>2 DEF ThreadTypes
<1>8. /\ id \in 1 .. Len(answers) /\ Records = 1 .. Len(answers)
      /\ answers' = [answers EXCEPT ![id] = Append(answers[id], to)]
      /\ Append(answers[id], to) \in Seq(Records \cup {0})
  BY DEF Result, RecordTypes, Records
<1>9. /\ answers' \in Seq(Seq(Records \cup {0})) /\ Len(answers') = Len(answers)
      /\ answers'[id] = Append(answers[id], to)
      /\ \A i \in Records \ {id} : answers'[i] = answers[i]
  BY <1>8 DEF RecordTypes
<1> QED BY <1>1, <1>4, <1>5, <1>6, <1>7, <1>9

(* The same when whether the result is good depends on the response.       *)
LEMMA HandleTyped ==
  ASSUME NEW id \in Records, NEW c, NEW S
  PROVE  [NoLocal EXCEPT !.id = id, !.ok = c \in S] \in LocalRecords
<1>1. PICK ok \in BOOLEAN : ok <=> (c \in S)
  OBVIOUS
<1>4. ok = (c \in S)
  BY <1>1
<1>2. [NoLocal EXCEPT !.id = id, !.ok = ok] \in LocalRecords
  BY DEF NoLocal, LocalRecords, Commands
<1>3. [NoLocal EXCEPT !.id = id, !.ok = ok] = [NoLocal EXCEPT !.id = id, !.ok = c \in S]
  BY <1>4
<1> QED BY <1>2, <1>3

LEMMA ReplacedAt ==
  ASSUME NEW S, NEW s \in Seq(S), NEW i \in 1 .. Len(s), NEW x \in S
  PROVE  LET t == [s EXCEPT ![i] = x]
         IN  /\ t \in Seq(S) /\ Len(t) = Len(s) /\ t[i] = x
             /\ \A j \in 1 .. Len(s) \ {i} : t[j] = s[j]
  OBVIOUS

LEMMA DeliverEffect ==
  ASSUME TypesInv, Deliver, response.to \in Records
  PROVE  /\ response.found \in Records
         /\ pc' \in [Threads -> Steps]
         /\ local' \in [Threads -> LocalRecords]
         /\ pc'["reader"] = "handle"
         /\ local'["reader"].id = response.found
         /\ \A u \in Threads \ {"reader"} : pc'[u] = pc[u] /\ local'[u] = local[u]
         /\ answers' \in Seq(Seq(Records \cup {0})) /\ Len(answers') = Len(answers)
         /\ answers'[response.found] = Append(answers[response.found], response.to)
         /\ \A i \in Records \ {response.found} : answers'[i] = answers[i]
<1> USE ThreadsApart DEF TypesInv
<1> DEFINE ofResponse ==
      [NoLocal EXCEPT !.id = response.found, !.ok = response.code \in {0, 200}]
<1>1. response.found \in Records
  BY DEF Deliver, WireTypes, ResponsesTaken
<1>2. /\ Goto("reader", "handle")
      /\ local' = [local EXCEPT !["reader"] = ofResponse]
      /\ answers' = [answers EXCEPT ![response.found] =
                       Append(answers[response.found], response.to)]
  BY DEF Deliver, Result
<1>3. /\ pc' \in [Threads -> Steps]
      /\ pc'["reader"] = "handle"
      /\ \A u \in Threads \ {"reader"} : pc'[u] = pc[u]
  BY <1>2, GotoEffect DEF Steps
<1>4. ofResponse \in LocalRecords /\ ofResponse.id = response.found
  BY <1>1, HandleTyped DEF NoLocal
<1> HIDE DEF ofResponse
<1>5. /\ local' \in [Threads -> LocalRecords]
      /\ local'["reader"].id = response.found
      /\ \A u \in Threads \ {"reader"} : local'[u] = local[u]
  BY <1>2, <1>4 DEF ThreadTypes
<1>6. /\ response.found \in 1 .. Len(answers) /\ Records = 1 .. Len(answers)
      /\ Append(answers[response.found], response.to) \in Seq(Records \cup {0})
  BY <1>1 DEF RecordTypes, Records
<1>7. /\ answers' \in Seq(Seq(Records \cup {0})) /\ Len(answers') = Len(answers)
      /\ answers'[response.found] = Append(answers[response.found], response.to)
      /\ \A i \in Records \ {response.found} : answers'[i] = answers[i]
  <2> DEFINE S == Seq(Records \cup {0})
             i == response.found
             x == Append(answers[i], response.to)
  <2>1. answers \in Seq(S) /\ i \in 1 .. Len(answers) /\ x \in S
    BY <1>6 DEF RecordTypes
  <2> HIDE DEF S, i, x
  <2>2. LET t == [answers EXCEPT ![i] = x]
        IN  /\ t \in Seq(S) /\ Len(t) = Len(answers) /\ t[i] = x
            /\ \A j \in 1 .. Len(answers) \ {i} : t[j] = answers[j]
    BY ONLY <2>1, ReplacedAt
  <2> QED BY <1>2, <1>6, <2>2, Zenon DEF S, i, x
<1> QED BY <1>1, <1>3, <1>5, <1>7

(* A request is about to be sent again.                                    *)
LEMMA SendAgainEffect ==
  ASSUME TypesInv, SendAgain, response.found # 0
  PROVE  /\ pc' \in [Threads -> Steps]
         /\ local' \in [Threads -> LocalRecords]
         /\ pc'["reader"] = "write"
         /\ local'["reader"].id = response.found
         /\ \A u \in Threads \ {"reader"} : pc'[u] = pc[u] /\ local'[u] = local[u]
         /\ resends' \in Seq(Nat) /\ Len(resends') = Len(resends)
         /\ resends'[response.found] = resends[response.found] + 1
         /\ \A i \in Records \ {response.found} : resends'[i] = resends[i]
         /\ response' \in ResponsesTaken
<1> USE ThreadsApart DEF TypesInv
<1>1. response.found \in Records
  BY DEF WireTypes, ResponsesTaken
<1>2. /\ pc' \in [Threads -> Steps]
      /\ pc'["reader"] = "write"
      /\ \A u \in Threads \ {"reader"} : pc'[u] = pc[u]
  BY GotoEffect DEF SendAgain, Steps
<1>3. local' = [local EXCEPT !["reader"] = [NoLocal EXCEPT !.id = response.found]]
  BY DEF SendAgain
<1>4. [NoLocal EXCEPT !.id = response.found] \in LocalRecords
  BY <1>1 DEF NoLocal, LocalRecords, Commands
<1>5. /\ local' \in [Threads -> LocalRecords]
      /\ \A u \in Threads \ {"reader"} : local'[u] = local[u]
  BY <1>3, <1>4 DEF ThreadTypes
<1>6. local'["reader"].id = response.found
  BY <1>3 DEF ThreadTypes, NoLocal
<1>7. /\ resends' \in Seq(Nat) /\ Len(resends') = Len(resends)
      /\ resends'[response.found] = resends[response.found] + 1
      /\ \A i \in Records \ {response.found} : resends'[i] = resends[i]
  <2> DEFINE f == response.found
  <2>1. f \in 1 .. Len(resends) /\ Records = 1 .. Len(resends) /\ resends \in Seq(Nat)
    BY <1>1, RecordsAreNumbers DEF RecordTypes, Latest
  <2>2. resends[f] + 1 \in Nat
    BY <2>1
  <2>3. resends' = [resends EXCEPT ![f] = resends[f] + 1]
    BY DEF SendAgain
  <2> QED BY <2>1, <2>2, <2>3
<1>8. response' \in ResponsesTaken
  BY DEF SendAgain, NoResponse, ResponsesTaken, Codes
<1> QED BY <1>2, <1>5, <1>6, <1>7, <1>8

(* What dequeue returns is a record, or 0 for none.                        *)
LEMMA DequeueEffect ==
  ASSUME QueueTypes, Dequeue
  PROVE  /\ Dequeued \in Records \cup {0}
         /\ index <= Len(requestRecords) =>
              Dequeued = requestRecords[index] /\ index' = index + 1
         /\ index > Len(requestRecords) => Dequeued = 0 /\ index' = 1
         /\ index' \in 1 .. Len(requestRecords) + 1
  BY DEF QueueTypes, Dequeue, Dequeued

-----------------------------------------------------------------------------
(* What holds however the client is disturbed.                             *)

LEMMA InitBase == Init => BaseInv
<1> SUFFICES ASSUME Init PROVE BaseInv
  OBVIOUS
<1> USE ClientAssumption DEF Init
<1>1. Records = {} /\ response \in ResponsesTaken
  BY DEF Records, ResponsesTaken, NoResponse, Codes
<1>2. ThreadTypes
  BY DEF ThreadTypes, Steps, LocalRecords, Commands, NoLocal
<1>3. RecordTypes /\ QueueTypes /\ WireTypes
  BY <1>1 DEF RecordTypes, QueueTypes, WireTypes
<1>5. ClientTypes
  <2>1. 0 \in 0 .. Tracks /\ 0 \in 0 .. MaxUnnumbered
    BY ThreadsApart
  <2> QED BY <2>1 DEF ClientTypes
<1>4. NumbersInv /\ PlacesInv /\ WireInv /\ RealmInv /\ ResentOnce
  BY <1>1 DEF NumbersInv, PlacesInv, Place, Threads, WireInv, RealmInv, ResentOnce
<1> QED BY <1>2, <1>3, <1>4, <1>5 DEF BaseInv, TypesInv

(* Steps that only move a thread and change what the client knows.         *)
LEMMA MoveBase ==
  ASSUME BaseInv, NEW t \in Threads,
         UNCHANGED <<cseq, made, queue, realm, response, network, history>>,
         pc' \in [Threads -> Steps], local' \in [Threads -> LocalRecords],
         \A u \in Threads \ {t} : pc'[u] = pc[u] /\ local'[u] = local[u],
         Place(t)', t = "reader" => pc'[t] \notin {"idle", "scan", "fallback", "matched"},
         ClientTypes'
  PROVE  BaseInv'
<1> USE DEF BaseInv, TypesInv, queue, network, history
<1>1. ThreadTypes' /\ RecordTypes' /\ QueueTypes' /\ WireTypes'
  BY DEF ThreadTypes, RecordTypes, QueueTypes, WireTypes, LocalRecords, Records,
         Responses, ResponsesTaken
<1>2. NumbersInv' /\ WireInv' /\ RealmInv' /\ ResentOnce'
  BY DEF NumbersInv, WireInv, RealmInv, ResentOnce, Records
<1>3. PlacesInv'
  BY ThreadsApart DEF PlacesInv, Place, Records
<1> QED BY <1>1, <1>2, <1>3

(* A thread sends the next command.                                        *)
LEMMA CommandBase ==
  ASSUME BaseInv, NEW t \in Threads, NEW cmd \in Commands \ {"none"}, NEW s \in BOOLEAN,
         Command(t, cmd, s), ClientTypes',
         UNCHANGED <<cseq, made, queue, realm, response, network, history>>
  PROVE  BaseInv'
<1>1. /\ pc' \in [Threads -> Steps] /\ local' \in [Threads -> LocalRecords]
      /\ pc'[t] = "number" /\ local'[t].cmd = cmd
      /\ \A u \in Threads \ {t} : pc'[u] = pc[u] /\ local'[u] = local[u]
  BY CommandEffect DEF BaseInv, TypesInv
<1>2. Place(t)'
  BY <1>1 DEF Place
<1> QED BY <1>1, <1>2, MoveBase

LEMMA ReturnBase ==
  ASSUME BaseInv, NEW t \in Threads, Return(t),
         UNCHANGED <<cseq, made, queue, client, response, network, history, panic>>
  PROVE  BaseInv'
<1>1. /\ pc' \in [Threads -> Steps] /\ local' \in [Threads -> LocalRecords]
      /\ pc'[t] = IF t = "reader" THEN "read" ELSE "done"
      /\ \A u \in Threads \ {t} : pc'[u] = pc[u] /\ local'[u] = local[u]
  BY ReturnEffect DEF BaseInv, TypesInv
<1>2. Place(t)'
  BY <1>1 DEF Place
<1>3. ClientTypes'
  BY DEF BaseInv, TypesInv, ClientTypes, client, network
<1> QED BY <1>1, <1>2, <1>3, MoveBase DEF client

LEMMA SendRequestBase ==
  ASSUME BaseInv, SendRequest
  PROVE  BaseInv'
<1>1. ClientTypes' /\ session \in BOOLEAN
  BY DEF SendRequest, BaseInv, TypesInv, ClientTypes, client, network
<1> QED BY <1>1, CommandBase, ThreadsApart DEF SendRequest, Commands, client

LEMMA CloseBase ==
  ASSUME BaseInv, NEW t \in Closers, Close(t)
  PROVE  BaseInv'
<1>1. ClientTypes' /\ session \in BOOLEAN
  BY DEF Close, BaseInv, TypesInv, ClientTypes, client, network
<1> QED BY <1>1, CommandBase, ThreadsApart DEF Close, Commands, client

LEMMA PanicBase ==
  ASSUME BaseInv, Panic
  PROVE  BaseInv'
<1> USE DEF BaseInv, TypesInv, Panic, queue, client, network, history
<1>1. ThreadTypes' /\ RecordTypes' /\ QueueTypes' /\ WireTypes' /\ ClientTypes'
  BY DEF ThreadTypes, Steps, RecordTypes, QueueTypes, WireTypes, ClientTypes, LocalRecords,
         Records, Responses, ResponsesTaken
<1>2. NumbersInv' /\ WireInv' /\ RealmInv' /\ ResentOnce'
  BY DEF NumbersInv, WireInv, RealmInv, ResentOnce, Records
<1>3. PlacesInv'
  BY ThreadsApart DEF PlacesInv, Place
<1> QED BY <1>1, <1>2, <1>3

LEMMA NumberBase ==
  ASSUME BaseInv, NEW t \in Threads, Number(t)
  PROVE  BaseInv'
<1> USE DEF BaseInv, TypesInv, queue, client, network, history
<1>1. /\ pc[t] = "number" /\ cseq' = cseq + 1 /\ Goto(t, "record")
      /\ UNCHANGED <<local, made, queue, client, response, network, history, panic>>
  BY DEF Number
<1>2. /\ pc' \in [Threads -> Steps] /\ pc'[t] = "record"
      /\ \A u \in Threads \ {t} : pc'[u] = pc[u]
  BY <1>1, GotoEffect DEF Steps
<1>3. ThreadTypes' /\ RecordTypes' /\ QueueTypes' /\ WireTypes' /\ ClientTypes'
  BY <1>1, <1>2 DEF ThreadTypes, RecordTypes, QueueTypes, WireTypes, ClientTypes,
         LocalRecords, Records, Responses, ResponsesTaken
<1>4. NumbersInv'
  BY <1>1 DEF NumbersInv, RecordTypes, RequestRecords, Records
<1>5. WireInv' /\ RealmInv' /\ ResentOnce'
  BY <1>1 DEF WireInv, RealmInv, ResentOnce, Records
<1>6. PlacesInv'
  <2>1. cseq' >= 2
    BY <1>1 DEF RecordTypes
  <2>2. ASSUME NEW u \in Threads PROVE Place(u)'
    BY <1>1, <1>2, <2>1 DEF PlacesInv, Place, Records
  <2> QED BY <1>1, <1>2, <2>2, ThreadsApart DEF PlacesInv, Records
<1> QED BY <1>3, <1>4, <1>5, <1>6

(* A new record is the last one; the others stay as they are.              *)
LEMMA NewRecordEffect ==
  ASSUME BaseInv, NEW t \in Threads, NewRequestRecord(t)
  PROVE  /\ Records = 1 .. Latest /\ Latest \in Nat
         /\ Records' = 1 .. Latest' /\ Latest' = Latest + 1
         /\ made' \in Seq(RequestRecords)
         /\ \A id \in Records : /\ made'[id] = made[id]
                                /\ answers'[id] = answers[id]
                                /\ resends'[id] = resends[id]
         /\ made'[Latest'].cseq = cseq
         /\ made'[Latest'].cmd = local[t].cmd
         /\ made'[Latest'].session = local[t].session
         /\ answers'[Latest'] = <<>> /\ resends'[Latest'] = 0
         /\ pc' \in [Threads -> Steps] /\ local' \in [Threads -> LocalRecords']
         /\ pc[t] = "record" /\ pc'[t] = "write" /\ local'[t].id = Latest'
         /\ \A u \in Threads \ {t} : pc'[u] = pc[u] /\ local'[u] = local[u]
<1> USE DEF BaseInv, TypesInv
<1> DEFINE r == [cseq |-> cseq, cmd |-> local[t].cmd, session |-> local[t].session]
<1>1. /\ pc[t] = "record" /\ made' = Append(made, r) /\ answers' = Append(answers, <<>>)
      /\ resends' = Append(resends, 0) /\ Goto(t, "write")
      /\ local' = [local EXCEPT ![t].id = Len(made) + 1]
  BY DEF NewRequestRecord
<1>2. r \in RequestRecords
  BY <1>1 DEF ThreadTypes, PlacesInv, Place, RecordTypes, LocalRecords, RequestRecords
<1>3. /\ Records = 1 .. Latest /\ Latest \in Nat
      /\ Records' = 1 .. Latest' /\ Latest' = Latest + 1
      /\ made' \in Seq(RequestRecords) /\ made'[Latest'] = r
      /\ \A id \in Records : made'[id] = made[id]
  BY <1>1, <1>2 DEF RecordTypes, Records, Latest
<1>4. /\ \A id \in Records : answers'[id] = answers[id] /\ resends'[id] = resends[id]
      /\ answers'[Latest'] = <<>> /\ resends'[Latest'] = 0
  BY <1>1, <1>3 DEF RecordTypes, Latest
<1>5. /\ pc' \in [Threads -> Steps] /\ pc'[t] = "write"
      /\ \A u \in Threads \ {t} : pc'[u] = pc[u]
  BY <1>1, GotoEffect DEF Steps
<1>6. local[t] \in LocalRecords /\ LocalRecords \subseteq LocalRecords'
  BY <1>3 DEF ThreadTypes, LocalRecords
<1>7. [local[t] EXCEPT !.id = Len(made) + 1] \in LocalRecords'
  BY <1>3, <1>6 DEF LocalRecords, Latest
<1>8. local' = [local EXCEPT ![t] = [local[t] EXCEPT !.id = Len(made) + 1]]
  BY <1>1
<1>9. /\ local' \in [Threads -> LocalRecords']
      /\ local'[t] = [local[t] EXCEPT !.id = Len(made) + 1]
      /\ \A u \in Threads \ {t} : local'[u] = local[u]
  BY <1>6, <1>7, <1>8 DEF ThreadTypes
<1>10. local'[t].id = Latest'
  BY <1>3, <1>6, <1>9 DEF LocalRecords, Latest
<1>11. /\ made'[Latest'].cseq = cseq
       /\ made'[Latest'].cmd = local[t].cmd
       /\ made'[Latest'].session = local[t].session
  BY <1>3
<1> HIDE DEF r
<1> QED BY <1>1, <1>3, <1>4, <1>5, <1>9, <1>10, <1>11

LEMMA NewRequestRecordBase ==
  ASSUME BaseInv, NEW t \in Threads, NewRequestRecord(t)
  PROVE  BaseInv'
<1> USE NewRecordEffect DEF BaseInv, TypesInv
<1>1. Records \subseteq Records'
  OBVIOUS
<1>2. UNCHANGED <<cseq, requestRecords, index, lastSessionID, realm, session, subsession,
                  subsessionIndex, response, connected, requests, responses, unnumbered,
                  panic>>
  BY DEF NewRequestRecord, queue, client, network
<1>3. RecordTypes'
  <2>1. answers \in Seq(Seq(Records' \cup {0}))
    <3>1. Seq(Records \cup {0}) \subseteq Seq(Records' \cup {0})
      BY <1>1, MoreRecords
    <3> QED BY <3>1, MoreRecords DEF RecordTypes
  <2>2. answers' = Append(answers, <<>>) /\ resends' = Append(resends, 0)
    BY DEF NewRequestRecord
  <2> QED BY <1>2, <2>1, <2>2 DEF RecordTypes, Latest
<1>4. ThreadTypes' /\ QueueTypes' /\ ClientTypes'
  BY <1>1, <1>2, MoreRecords DEF ThreadTypes, QueueTypes, ClientTypes
<1>5. WireTypes'
  <2>1. Responses \subseteq Responses' /\ ResponsesTaken \subseteq ResponsesTaken'
    BY <1>1 DEF Responses, ResponsesTaken
  <2> QED BY <1>1, <1>2, <2>1, MoreRecords DEF WireTypes
<1>6. NumbersInv'
  <2>1. cseq \in Nat /\ cseq >= 2
    BY DEF RecordTypes, PlacesInv, Place
  <2>2. ASSUME NEW id \in Records' PROVE made'[id].cseq \in 2 .. cseq
    BY <2>1 DEF NumbersInv
  <2> QED BY <1>2, <2>2 DEF NumbersInv
<1>7. PlacesInv'
  BY <1>1, <1>2, ThreadsApart DEF PlacesInv, Place
<1>8. \A i \in Records' : resends'[i] > 0 => i \in Records /\ resends'[i] = resends[i]
  OBVIOUS
<1>9. WireInv' /\ RealmInv' /\ ResentOnce'
  BY <1>2, <1>8 DEF WireInv, RealmInv, ResentOnce
<1> QED BY <1>3, <1>4, <1>5, <1>6, <1>7, <1>9

LEMMA WriteBase ==
  ASSUME BaseInv, NEW t \in Threads, Write(t)
  PROVE  BaseInv'
<1> USE DEF BaseInv, TypesInv
<1>1. /\ pc[t] = "write" /\ connected /\ requests' = Append(requests, local[t].id)
      /\ Goto(t, "enqueue")
      /\ UNCHANGED <<local, cseq, made, requestRecords, index, lastSessionID, realm,
                     session, subsession, subsessionIndex, response, connected, responses,
                     unnumbered, answers, resends, panic>>
  BY DEF Write, queue, client, history
<1>2. /\ pc' \in [Threads -> Steps] /\ pc'[t] = "enqueue"
      /\ \A u \in Threads \ {t} : pc'[u] = pc[u]
  BY <1>1, GotoEffect DEF Steps
<1>3. local[t].id \in Records
  BY <1>1 DEF PlacesInv, Place
<1>4. ThreadTypes' /\ RecordTypes' /\ QueueTypes' /\ ClientTypes'
  BY <1>1, <1>2 DEF ThreadTypes, RecordTypes, QueueTypes, ClientTypes, LocalRecords, Records
<1>5. WireTypes'
  BY <1>1, <1>3 DEF WireTypes, Records, Responses, ResponsesTaken
<1>6. NumbersInv' /\ WireInv' /\ RealmInv' /\ ResentOnce'
  BY <1>1 DEF NumbersInv, WireInv, RealmInv, ResentOnce, Records
<1>7. PlacesInv'
  BY <1>1, <1>2, <1>3, ThreadsApart DEF PlacesInv, Place, Records
<1> QED BY <1>4, <1>5, <1>6, <1>7

LEMMA WriteFailsBase ==
  ASSUME BaseInv, NEW t \in Threads, WriteFails(t)
  PROVE  BaseInv'
<1> USE DEF BaseInv, TypesInv
<1>1. /\ pc[t] = "write" /\ Result(t, local[t].id, 0, FALSE)
      /\ UNCHANGED <<cseq, made, requestRecords, index, lastSessionID, realm, session,
                     subsession, subsessionIndex, response, connected, requests, responses,
                     unnumbered, resends, panic>>
  BY DEF WriteFails, queue, client, network
<1>2. local[t].id \in Records
  BY <1>1 DEF PlacesInv, Place
<1>3. /\ pc' \in [Threads -> Steps] /\ local' \in [Threads -> LocalRecords]
      /\ pc'[t] = "handle" /\ local'[t].id = local[t].id
      /\ \A u \in Threads \ {t} : pc'[u] = pc[u] /\ local'[u] = local[u]
      /\ answers' \in Seq(Seq(Records \cup {0})) /\ Len(answers') = Len(answers)
  BY <1>1, <1>2, ResultEffect
<1>4. ThreadTypes' /\ RecordTypes' /\ QueueTypes' /\ WireTypes' /\ ClientTypes'
  BY <1>1, <1>3
  DEF ThreadTypes, RecordTypes, QueueTypes, WireTypes, ClientTypes, LocalRecords,
         Records, Responses, ResponsesTaken
<1>5. NumbersInv' /\ WireInv' /\ RealmInv' /\ ResentOnce'
  BY <1>1 DEF NumbersInv, WireInv, RealmInv, ResentOnce, Records
<1>6. PlacesInv'
  BY <1>1, <1>2, <1>3, ThreadsApart DEF PlacesInv, Place, Records
<1> QED BY <1>4, <1>5, <1>6

LEMMA EnqueueBase ==
  ASSUME BaseInv, NEW t \in Threads, Enqueue(t)
  PROVE  BaseInv'
<1> USE DEF BaseInv, TypesInv
<1>1. /\ pc[t] = "enqueue" /\ Return(t)
      /\ requestRecords' = Append(requestRecords, local[t].id) \/ UNCHANGED requestRecords
      /\ UNCHANGED <<cseq, made, index, lastSessionID, realm, session, subsession,
                     subsessionIndex, response, connected, requests, responses, unnumbered,
                     answers, resends, panic>>
  BY DEF Enqueue, client, network, history
<1>2. local[t].id \in Records
  BY <1>1 DEF PlacesInv, Place
<1>3. /\ pc' \in [Threads -> Steps] /\ local' \in [Threads -> LocalRecords]
      /\ pc'[t] = IF t = "reader" THEN "read" ELSE "done"
      /\ \A u \in Threads \ {t} : pc'[u] = pc[u] /\ local'[u] = local[u]
  BY <1>1, ReturnEffect
<1>4. ThreadTypes' /\ RecordTypes' /\ WireTypes' /\ ClientTypes'
  BY <1>1, <1>3 DEF ThreadTypes, RecordTypes, WireTypes, ClientTypes, LocalRecords, Records,
         Responses, ResponsesTaken
<1>5. QueueTypes'
  BY <1>1, <1>2 DEF QueueTypes, Records
<1>6. NumbersInv' /\ WireInv' /\ RealmInv' /\ ResentOnce'
  BY <1>1 DEF NumbersInv, WireInv, RealmInv, ResentOnce, Records
<1>7. PlacesInv'
  BY <1>1, <1>3, ThreadsApart DEF PlacesInv, Place, Records
<1> QED BY <1>4, <1>5, <1>6, <1>7

LEMMA ContinueAfterDESCRIBEBase ==
  ASSUME BaseInv, NEW t \in Threads, ContinueAfterDESCRIBE(t)
  PROVE  BaseInv'
<1>1. /\ session \in BOOLEAN /\ local[t].ok \in BOOLEAN /\ subsessionIndex \in Nat
      /\ local \in [Threads -> LocalRecords]
  BY DEF BaseInv, TypesInv, ClientTypes, ThreadTypes, LocalRecords
<1>2. /\ session' \in BOOLEAN
      /\ subsessionIndex' \in {0, subsessionIndex}
      /\ UNCHANGED <<cseq, made, queue, realm, lastSessionID, subsession, response, network,
                     history, panic>>
      /\ \/ Goto(t, "next") /\ local' = local
         \/ Command(t, "TEARDOWN", session')
  BY <1>1, Zenon DEF ContinueAfterDESCRIBE
<1>3. ClientTypes'
  BY <1>1, <1>2 DEF BaseInv, TypesInv, ClientTypes, network
<1>4. CASE Goto(t, "next") /\ local' = local
  <2>1. /\ pc' \in [Threads -> Steps] /\ pc'[t] = "next"
        /\ \A u \in Threads \ {t} : pc'[u] = pc[u]
    BY <1>4, GotoEffect DEF BaseInv, TypesInv, Steps
  <2>2. Place(t)'
    BY <2>1 DEF Place
  <2> QED BY <1>1, <1>2, <1>3, <1>4, <2>1, <2>2, MoveBase
<1>5. CASE Command(t, "TEARDOWN", session')
  <2>1. "TEARDOWN" \in Commands \ {"none"}
    BY DEF Commands
  <2> QED BY <1>2, <1>3, <1>5, <2>1, CommandBase
<1> QED BY <1>2, <1>4, <1>5

LEMMA ContinueAfterSETUPBase ==
  ASSUME BaseInv, NEW t \in Threads, ContinueAfterSETUP(t)
  PROVE  BaseInv'
<1>1. Goto(t, "next") /\ UNCHANGED <<local, cseq, made, queue, client, response, network,
                                     history, panic>>
  BY DEF ContinueAfterSETUP
<1>2. /\ pc' \in [Threads -> Steps] /\ pc'[t] = "next"
      /\ \A u \in Threads \ {t} : pc'[u] = pc[u]
  BY <1>1, GotoEffect DEF BaseInv, TypesInv, Steps
<1>3. Place(t)'
  BY <1>2 DEF Place
<1>4. ClientTypes' /\ local' \in [Threads -> LocalRecords] /\ realm' = realm
  BY <1>1 DEF BaseInv, TypesInv, ClientTypes, ThreadTypes, client, network
<1> QED BY <1>1, <1>2, <1>3, <1>4, MoveBase

LEMMA ContinueAfterPLAYBase ==
  ASSUME BaseInv, NEW t \in Threads, ContinueAfterPLAY(t)
  PROVE  BaseInv'
<1>1. /\ Return(t) \/ Command(t, "TEARDOWN", session)
      /\ UNCHANGED <<cseq, made, queue, client, response, network, history, panic>>
  BY DEF ContinueAfterPLAY
<1>2. ClientTypes' /\ session \in BOOLEAN /\ realm' = realm
  BY <1>1 DEF BaseInv, TypesInv, ClientTypes, client, network
<1> QED BY <1>1, <1>2, ReturnBase, CommandBase DEF Commands

LEMMA SetupNextSubSessionBase ==
  ASSUME BaseInv, NEW t \in Threads, SetupNextSubSession(t)
  PROVE  BaseInv'
<1>1. /\ pc[t] = "next"
      /\ subsessionIndex < Tracks
      /\ subsessionIndex' = subsessionIndex + 1 /\ subsession' = subsessionIndex'
      /\ Command(t, "SETUP", TRUE) \/ UNCHANGED <<pc, local>>
      /\ UNCHANGED <<cseq, made, queue, lastSessionID, realm, session, response, network,
                     history, panic>>
  BY DEF SetupNextSubSession
<1>2. subsessionIndex \in Nat /\ Tracks \in Nat
  BY ThreadsApart DEF BaseInv, TypesInv, ClientTypes
<1>3. subsession' \in 0 .. Tracks /\ subsessionIndex' \in Nat
  BY <1>1, <1>2
<1>4. ClientTypes'
  BY <1>1, <1>3 DEF BaseInv, TypesInv, ClientTypes, network
<1>5. CASE UNCHANGED <<pc, local>>
  BY <1>1, <1>4, <1>5, MoveBase
  DEF BaseInv, TypesInv, ThreadTypes, PlacesInv, Place, Records
<1> QED BY <1>1, <1>4, <1>5, CommandBase DEF Commands

LEMMA PlaySessionBase ==
  ASSUME BaseInv, NEW t \in Threads, PlaySession(t)
  PROVE  BaseInv'
<1>1. /\ subsessionIndex' = subsessionIndex + 1 /\ subsession' = 0
      /\ Command(t, "PLAY", TRUE)
      /\ UNCHANGED <<cseq, made, queue, lastSessionID, realm, session, response, network,
                     history, panic>>
  BY DEF PlaySession
<1>2. subsession' \in 0 .. Tracks /\ subsessionIndex' \in Nat
  BY <1>1, ThreadsApart DEF BaseInv, TypesInv, ClientTypes
<1>3. ClientTypes'
  BY <1>1, <1>2 DEF BaseInv, TypesInv, ClientTypes, network
<1> QED BY <1>1, <1>3, CommandBase DEF Commands

(* What one read takes off the wire.                                       *)
LEMMA ReadSocketEffect ==
  ASSUME BaseInv, ReadSocket
  PROVE  /\ response' \in ResponsesTaken /\ response'.to \in Records
         /\ responses' \in Seq(Responses) /\ unnumbered' \in 0 .. MaxUnnumbered
<1>1. /\ Head(responses) \in Responses /\ Tail(responses) \in Seq(Responses)
      /\ responses \in Seq(Responses)
      /\ unnumbered \in 0 .. MaxUnnumbered /\ MaxUnnumbered \in Nat
  BY ThreadsApart DEF BaseInv, TypesInv, ClientTypes, WireTypes, ReadSocket
<1>2. CASE /\ response' = Head(responses)
           /\ \E n \in 1 .. Len(responses) :
                responses' = SubSeq(responses, n + 1, Len(responses))
           /\ UNCHANGED unnumbered
  <2>1. PICK n \in 1 .. Len(responses) :
          responses' = SubSeq(responses, n + 1, Len(responses))
    BY <1>2
  <2>2. responses' \in Seq(Responses)
    BY <1>1, <2>1, SubSeqProperties
  <2> QED BY <1>1, <1>2, <2>2 DEF Responses, ResponsesTaken
<1>3. CASE /\ unnumbered < MaxUnnumbered
           /\ unnumbered' = unnumbered + 1
           /\ \E numbers \in {<<Head(responses).cseq, 0>>, <<0, Head(responses).cseq>>} :
                /\ response' = [Head(responses) EXCEPT !.cseq = numbers[1]]
                /\ responses' = <<[Head(responses) EXCEPT !.cseq = numbers[2], !.code = 0]>>
                                  \o Tail(responses)
  <2> DEFINE first == Head(responses)
  <2>1. PICK numbers \in {<<first.cseq, 0>>, <<0, first.cseq>>} :
          /\ response' = [first EXCEPT !.cseq = numbers[1]]
          /\ responses' = <<[first EXCEPT !.cseq = numbers[2], !.code = 0]>> \o Tail(responses)
    BY <1>3
  <2>2. numbers[1] \in Nat /\ numbers[2] \in Nat
    BY <1>1, <2>1 DEF Responses
  <2>3. response' \in ResponsesTaken /\ response'.to \in Records
    BY <1>1, <2>1, <2>2 DEF Responses, ResponsesTaken
  <2>4. [first EXCEPT !.cseq = numbers[2], !.code = 0] \in Responses
    BY <1>1, <2>2 DEF Responses, Codes
  <2>5. responses' \in Seq(Responses)
    BY <1>1, <2>1, <2>4
  <2>6. unnumbered' \in 0 .. MaxUnnumbered
    BY <1>1, <1>3
  <2> QED BY <2>3, <2>5, <2>6
<1> QED BY <1>2, <1>3 DEF ReadSocket

LEMMA ReadSocketBase ==
  ASSUME BaseInv, ReadSocket
  PROVE  BaseInv'
<1> USE DEF BaseInv, TypesInv
<1>1. /\ pc["reader"] = "read" /\ connected
      /\ \E step \in {"fallback", "scan"} : Goto("reader", step)
      /\ UNCHANGED <<local, cseq, made, requestRecords, index, lastSessionID, realm,
                     session, subsession, subsessionIndex, connected, requests, answers,
                     resends, panic>>
  BY DEF ReadSocket, queue, client, history
<1>2. /\ pc' \in [Threads -> Steps] /\ pc'["reader"] \in {"fallback", "scan"}
      /\ \A u \in Threads \ {"reader"} : pc'[u] = pc[u]
  BY <1>1, GotoEffect, ThreadsApart DEF Steps
<1>3. ThreadTypes' /\ RecordTypes' /\ QueueTypes' /\ ClientTypes'
  BY <1>1, <1>2, ReadSocketEffect
  DEF ThreadTypes, LocalRecords, RecordTypes, Records, QueueTypes, ClientTypes
<1>4. WireTypes'
  BY <1>1, ReadSocketEffect DEF WireTypes, Records, Responses, ResponsesTaken
<1>5. NumbersInv' /\ WireInv' /\ RealmInv' /\ ResentOnce'
  BY <1>1 DEF NumbersInv, WireInv, RealmInv, ResentOnce, Records
<1>6. PlacesInv'
  BY <1>1, <1>2, ReadSocketEffect DEF PlacesInv, Place, Records
<1> QED BY <1>3, <1>4, <1>5, <1>6

LEMMA ReadFailsBase ==
  ASSUME BaseInv, ReadFails
  PROVE  BaseInv'
<1>1. Goto("reader", "done") /\ UNCHANGED <<local, cseq, made, queue, client, response,
                                            network, history, panic>>
  BY DEF ReadFails
<1>2. /\ pc' \in [Threads -> Steps] /\ pc'["reader"] = "done"
      /\ \A u \in Threads \ {"reader"} : pc'[u] = pc[u]
  BY <1>1, GotoEffect, ThreadsApart DEF BaseInv, TypesInv, Steps
<1>3. Place("reader")'
  BY <1>2 DEF Place
<1>4. ClientTypes' /\ local' \in [Threads -> LocalRecords] /\ realm' = realm
  BY <1>1 DEF BaseInv, TypesInv, ClientTypes, ThreadTypes, client, network
<1> QED BY <1>1, <1>2, <1>3, <1>4, MoveBase, ThreadsApart

(* The search takes a record off the queue and moves on.                   *)
LEMMA SearchBase ==
  ASSUME BaseInv, pc["reader"] \in {"scan", "fallback"}, Dequeue,
         response.to \in Records,
         NEW found \in {Dequeued, response.found},
         response' = [response EXCEPT !.found = found],
         UNCHANGED pc \/ \E step \in {"fallback", "matched"} : Goto("reader", step),
         UNCHANGED <<local, cseq, made, requestRecords, client, network, history, panic>>
  PROVE  BaseInv'
<1> USE DEF BaseInv, TypesInv
<1>1. response' \in ResponsesTaken /\ index' \in 1 .. Len(requestRecords) + 1
      /\ response'.to = response.to
  BY DequeueEffect DEF WireTypes, ResponsesTaken
<1>2. /\ pc' \in [Threads -> Steps] /\ pc'["reader"] \in {"scan", "fallback", "matched"}
      /\ \A u \in Threads \ {"reader"} : pc'[u] = pc[u]
  <2>1. CASE UNCHANGED pc
    BY <2>1 DEF ThreadTypes
  <2>2. CASE \E step \in {"fallback", "matched"} : Goto("reader", step)
    BY <2>2, GotoEffect, ThreadsApart DEF Steps
  <2> QED BY <2>1, <2>2
<1>3. ThreadTypes' /\ RecordTypes' /\ QueueTypes' /\ WireTypes' /\ ClientTypes'
  BY <1>1, <1>2
  DEF ThreadTypes, RecordTypes, QueueTypes, WireTypes, ClientTypes, LocalRecords,
         Records, Responses, ResponsesTaken, client, network, history
<1>4. NumbersInv' /\ WireInv' /\ RealmInv' /\ ResentOnce'
  BY DEF NumbersInv, WireInv, RealmInv, ResentOnce, Records, client, network, history
<1>5. PlacesInv'
  BY <1>1, <1>2 DEF PlacesInv, Place, Records
<1> QED BY <1>3, <1>4, <1>5

LEMMA MatchCSeqBase ==
  ASSUME BaseInv, MatchCSeq
  PROVE  BaseInv'
<1>1. \E found \in {Dequeued, response.found} :
        response' = [response EXCEPT !.found = found]
  BY DEF MatchCSeq
<1>2. /\ pc["reader"] = "scan" /\ Dequeue
      /\ UNCHANGED pc \/ \E step \in {"fallback", "matched"} : Goto("reader", step)
      /\ UNCHANGED <<local, cseq, made, requestRecords, client, network, history, panic>>
  BY DEF MatchCSeq
<1>3. response.to \in Records
  BY <1>2 DEF BaseInv, PlacesInv
<1> QED BY <1>1, <1>2, <1>3, SearchBase

LEMMA FallbackBase ==
  ASSUME BaseInv, Fallback
  PROVE  BaseInv'
<1>1. response.to \in Records
  BY DEF Fallback, BaseInv, PlacesInv
<1> QED BY <1>1, SearchBase DEF Fallback

LEMMA DiscardBase ==
  ASSUME BaseInv, Discard
  PROVE  BaseInv'
<1> USE DEF BaseInv, TypesInv
<1>1. /\ Return("reader") /\ response' = NoResponse
      /\ UNCHANGED <<cseq, made, queue, client, network, history, panic>>
  BY DEF Discard
<1>2. /\ pc' \in [Threads -> Steps] /\ local' \in [Threads -> LocalRecords]
      /\ pc'["reader"] = "read"
      /\ \A u \in Threads \ {"reader"} : pc'[u] = pc[u] /\ local'[u] = local[u]
  BY <1>1, ReturnEffect, ThreadsApart
<1>3. NoResponse \in ResponsesTaken
  BY DEF NoResponse, ResponsesTaken, Codes
<1>4. ThreadTypes' /\ RecordTypes' /\ QueueTypes' /\ WireTypes' /\ ClientTypes'
  BY <1>1, <1>2, <1>3 DEF ThreadTypes, RecordTypes, QueueTypes, WireTypes, ClientTypes,
         LocalRecords, Records, Responses, ResponsesTaken, queue, client, network, history
<1>5. NumbersInv' /\ WireInv' /\ RealmInv' /\ ResentOnce'
  BY <1>1 DEF NumbersInv, WireInv, RealmInv, ResentOnce, Records, client, network, history
<1>6. PlacesInv'
  BY <1>1, <1>2 DEF PlacesInv, Place, Records
<1> QED BY <1>4, <1>5, <1>6

LEMMA DeliverBase ==
  ASSUME BaseInv, Deliver
  PROVE  BaseInv'
<1> USE DEF BaseInv, TypesInv
<1>1. response.found \in Records /\ response.to \in Records /\ response.code \in Codes
  BY DEF Deliver, Matched, PlacesInv, WireTypes, ResponsesTaken
<1>2. /\ response' = NoResponse
      /\ UNCHANGED <<cseq, made, requestRecords, index, session, subsession,
                     subsessionIndex, connected, requests, responses, unnumbered, resends,
                     panic>>
  BY DEF Deliver, queue, network
<1>3. lastSessionID' \in BOOLEAN /\ realm' \in BOOLEAN /\ (realm => realm')
  <2>1. lastSessionID \in BOOLEAN /\ realm \in BOOLEAN
    BY DEF ClientTypes
  <2>2. lastSessionID' \in {lastSessionID, TRUE}
    BY DEF Deliver
  <2>3. realm' \in {realm, realm \/ response.code = 401}
    BY DEF Deliver
  <2> QED BY <2>1, <2>2, <2>3, Zenon
<1>4. /\ pc' \in [Threads -> Steps] /\ local' \in [Threads -> LocalRecords]
      /\ pc'["reader"] = "handle" /\ local'["reader"].id = response.found
      /\ \A u \in Threads \ {"reader"} : pc'[u] = pc[u] /\ local'[u] = local[u]
      /\ answers' \in Seq(Seq(Records \cup {0})) /\ Len(answers') = Len(answers)
  BY <1>1, DeliverEffect
<1>5. NoResponse \in ResponsesTaken
  BY DEF NoResponse, ResponsesTaken, Codes
<1>6. ThreadTypes' /\ RecordTypes' /\ QueueTypes' /\ WireTypes'
  BY <1>2, <1>4, <1>5 DEF ThreadTypes, RecordTypes, QueueTypes, WireTypes,
         LocalRecords, Records, Responses, ResponsesTaken
<1>7. ClientTypes'
  BY <1>2, <1>3 DEF ClientTypes
<1>8. NumbersInv' /\ WireInv' /\ RealmInv' /\ ResentOnce'
  BY <1>2, <1>3 DEF NumbersInv, WireInv, RealmInv, ResentOnce, Records
<1>9. PlacesInv'
  BY <1>1, <1>2, <1>4 DEF PlacesInv, Place, Records
<1> QED BY <1>6, <1>7, <1>8, <1>9

(* On an open connection this is the first request sent again.             *)
LEMMA AuthenticateBase ==
  ASSUME BaseInv, Authenticate
  PROVE  BaseInv'
<1> USE DEF BaseInv, TypesInv
<1>1. response.found \in Records /\ response.found # 0 /\ ~realm
  BY DEF Authenticate, WireTypes, ResponsesTaken
<1>2. /\ SendAgain /\ realm' = TRUE
      /\ UNCHANGED <<cseq, made, requestRecords, index, lastSessionID, session, subsession,
                     subsessionIndex, connected, requests, responses, unnumbered, answers,
                     panic>>
  BY DEF Authenticate, queue, network
<1>3. /\ pc' \in [Threads -> Steps] /\ local' \in [Threads -> LocalRecords]
      /\ pc'["reader"] = "write" /\ local'["reader"].id = response.found
      /\ \A u \in Threads \ {"reader"} : pc'[u] = pc[u] /\ local'[u] = local[u]
      /\ resends' \in Seq(Nat) /\ Len(resends') = Len(resends)
      /\ resends'[response.found] = resends[response.found] + 1
      /\ \A i \in Records \ {response.found} : resends'[i] = resends[i]
      /\ response' \in ResponsesTaken
  BY <1>1, <1>2, SendAgainEffect
<1>4. ThreadTypes' /\ RecordTypes' /\ QueueTypes' /\ WireTypes' /\ ClientTypes'
  BY <1>2, <1>3 DEF ThreadTypes, RecordTypes, QueueTypes, WireTypes, ClientTypes,
         LocalRecords, Records, Responses, ResponsesTaken
<1>5. NumbersInv' /\ WireInv' /\ RealmInv'
  BY <1>2 DEF NumbersInv, WireInv, RealmInv, Records
<1>6. ResentOnce'
  <2>1. ASSUME connected PROVE \A i \in Records : resends[i] = 0
    BY <1>1, <2>1, RecordsAreNumbers DEF RealmInv, RecordTypes, Latest
  <2> QED BY <1>1, <1>2, <1>3, <2>1 DEF ResentOnce, Records
<1>7. PlacesInv'
  BY <1>1, <1>2, <1>3 DEF PlacesInv, Place, Records
<1> QED BY <1>4, <1>5, <1>6, <1>7

LEMMA RedirectBase ==
  ASSUME BaseInv, Redirect
  PROVE  BaseInv'
<1> USE DEF BaseInv, TypesInv
<1>1. response.found \in Records /\ response.found # 0
  BY DEF Redirect, WireTypes, ResponsesTaken
<1>2. /\ SendAgain /\ connected' = FALSE /\ requests' = <<>> /\ responses' = <<>>
      /\ UNCHANGED <<cseq, made, requestRecords, index, lastSessionID, realm, session,
                     subsession, subsessionIndex, unnumbered, answers, panic>>
  BY DEF Redirect, Disconnect, queue, client
<1>3. /\ pc' \in [Threads -> Steps] /\ local' \in [Threads -> LocalRecords]
      /\ pc'["reader"] = "write" /\ local'["reader"].id = response.found
      /\ \A u \in Threads \ {"reader"} : pc'[u] = pc[u] /\ local'[u] = local[u]
      /\ resends' \in Seq(Nat) /\ Len(resends') = Len(resends)
      /\ response' \in ResponsesTaken
  BY <1>1, <1>2, SendAgainEffect
<1>4. ThreadTypes' /\ RecordTypes' /\ QueueTypes'
  BY <1>2, <1>3 DEF ThreadTypes, RecordTypes, QueueTypes, LocalRecords, Records
<1>7. WireTypes'
  BY <1>2, <1>3 DEF WireTypes, Records, Responses, ResponsesTaken
<1>8. ClientTypes'
  BY <1>2 DEF ClientTypes
<1>5. NumbersInv' /\ WireInv' /\ RealmInv' /\ ResentOnce'
  BY <1>2 DEF NumbersInv, WireInv, RealmInv, ResentOnce, Records
<1>6. PlacesInv'
  BY <1>1, <1>2, <1>3 DEF PlacesInv, Place, Records
<1> QED BY <1>4, <1>5, <1>6, <1>7, <1>8

(* The server's steps leave the threads alone.                             *)
LEMMA ServerBase ==
  ASSUME BaseInv,
         requests' \in Seq(Records), responses' \in Seq(Responses),
         unnumbered' \in 0 .. MaxUnnumbered, connected' \in BOOLEAN,
         connected' => connected, WireInv',
         UNCHANGED <<pc, local, cseq, made, queue, client, response, history, panic>>
  PROVE  BaseInv'
<1> USE DEF BaseInv, TypesInv, queue, client, history
<1>1. ThreadTypes' /\ RecordTypes' /\ QueueTypes' /\ WireTypes' /\ ClientTypes'
  BY DEF ThreadTypes, RecordTypes, QueueTypes, WireTypes, ClientTypes,
         LocalRecords, Records, Responses, ResponsesTaken
<1>2. NumbersInv' /\ RealmInv' /\ ResentOnce' /\ PlacesInv'
  BY DEF NumbersInv, RealmInv, ResentOnce, PlacesInv, Place, Records
<1> QED BY <1>1, <1>2

LEMMA AnswerBase ==
  ASSUME BaseInv, Answer
  PROVE  BaseInv'
<1> USE DEF BaseInv, TypesInv
<1> DEFINE id == Head(requests)
<1>4. requests \in Seq(Records) /\ requests # <<>> /\ responses \in Seq(Responses)
  BY DEF Answer, WireTypes
<1>0. /\ id \in Records /\ Tail(requests) \in Seq(Records)
      /\ responses \in Seq(Responses)
      /\ unnumbered \in 0 .. MaxUnnumbered /\ MaxUnnumbered \in Nat
  BY <1>4, ThreadsApart DEF ClientTypes
<1>1. made[id].cseq \in Nat
  BY <1>0, RecordFields
<1>2. responses' \in Seq(Responses) /\ unnumbered' \in 0 .. MaxUnnumbered
  <2>1. CASE /\ \E code \in Codes \ {0} :
                  responses' = Append(responses,
                    [NoResponse EXCEPT !.to = id, !.cseq = made[id].cseq, !.code = code])
             /\ UNCHANGED unnumbered
    <3>1. PICK code \in Codes \ {0} :
            responses' = Append(responses,
              [NoResponse EXCEPT !.to = id, !.cseq = made[id].cseq, !.code = code])
      BY <2>1
    <3>2. [NoResponse EXCEPT !.to = id, !.cseq = made[id].cseq, !.code = code] \in Responses
      BY <1>0, <1>1, <3>1 DEF NoResponse, Responses
    <3> QED BY <1>0, <2>1, <3>1, <3>2
  <2>2. CASE /\ unnumbered < MaxUnnumbered
             /\ unnumbered' = unnumbered + 1
             /\ responses' = Append(responses, [NoResponse EXCEPT !.to = id, !.code = 404])
    <3>1. 404 \in Codes /\ 0 \in Nat
      BY DEF Codes
    <3>2. [NoResponse EXCEPT !.to = id, !.code = 404] \in Responses
      BY <1>0, <3>1 DEF NoResponse, Responses
    <3> QED BY <1>0, <2>2, <3>2
  <2> QED BY <2>1, <2>2 DEF Answer
<1>3. /\ connected' = connected /\ connected \in BOOLEAN /\ connected
      /\ requests' = Tail(requests)
      /\ UNCHANGED <<pc, local, cseq, made, queue, client, response, history, panic>>
  BY DEF Answer, ClientTypes
<1> QED BY <1>0, <1>2, <1>3, ServerBase DEF WireInv

LEMMA ServerClosesBase ==
  ASSUME BaseInv, ServerCloses
  PROVE  BaseInv'
<1>1. /\ requests' = <<>> /\ responses' = <<>>
      /\ connected' = FALSE /\ unnumbered' = unnumbered
      /\ UNCHANGED <<pc, local, cseq, made, queue, client, response, history, panic>>
  BY DEF ServerCloses, Disconnect
<1>2. unnumbered' \in 0 .. MaxUnnumbered
  BY <1>1 DEF BaseInv, TypesInv, ClientTypes
<1>3. requests' \in Seq(Records) /\ responses' \in Seq(Responses) /\ WireInv'
  BY <1>1 DEF WireInv
<1> QED BY <1>1, <1>2, <1>3, ServerBase

LEMMA BaseKept == BaseInv /\ [Next]_vars => BaseInv'
<1> SUFFICES ASSUME BaseInv, [Next]_vars PROVE BaseInv'
  OBVIOUS
<1>1. ASSUME NEW t \in Threads, Send(t) PROVE BaseInv'
  BY <1>1, NumberBase, NewRequestRecordBase, WriteBase, WriteFailsBase, PanicBase,
     EnqueueBase
  DEF Send, WritePanics
<1>2. ASSUME NEW t \in Threads, Continue(t) PROVE BaseInv'
  <2>1. CASE NoHandler(t)
    BY <2>1, ReturnBase DEF NoHandler
  <2>2. CASE ContinueAfterSETUPPanics(t) \/ NextPanics(t)
    BY <2>2, PanicBase DEF ContinueAfterSETUPPanics, NextPanics
  <2> QED BY <1>2, <2>1, <2>2, ContinueAfterDESCRIBEBase, ContinueAfterSETUPBase,
             ContinueAfterPLAYBase, SetupNextSubSessionBase, PlaySessionBase DEF Continue
<1>3. CASE HandleResponse
  BY <1>3, ReadSocketBase, ReadFailsBase, MatchCSeqBase, FallbackBase, DiscardBase,
     DeliverBase,
     AuthenticateBase, RedirectBase DEF HandleResponse
<1>4. CASE UNCHANGED vars
  <2> USE <1>4 DEF BaseInv, TypesInv, vars, queue, client, network, history
  <2>1. ThreadTypes' /\ RecordTypes' /\ QueueTypes' /\ WireTypes' /\ ClientTypes'
    BY DEF ThreadTypes, RecordTypes, QueueTypes, WireTypes, ClientTypes,
           LocalRecords, Records, Responses, ResponsesTaken
  <2>2. NumbersInv' /\ PlacesInv' /\ WireInv' /\ RealmInv' /\ ResentOnce'
    BY DEF NumbersInv, PlacesInv, Place, WireInv, RealmInv, ResentOnce, Records
  <2> QED BY <2>1, <2>2
<1> QED BY <1>1, <1>2, <1>3, <1>4, SendRequestBase, CloseBase, AnswerBase, ServerClosesBase
        DEF Next


-----------------------------------------------------------------------------
(* While the client is undisturbed.                                        *)

(* No record was made.                                                     *)
LEMMA UnchangedRecords ==
  ASSUME UNCHANGED made
  PROVE  Records' = Records /\ Latest' = Latest
  BY DEF Records, Latest

LEMMA SendRequestTurn ==
  ASSUME BaseInv, TurnInv, SendRequest
  PROVE  TurnInv'
<1>1. session \in BOOLEAN /\ ThreadTypes
  BY DEF BaseInv, TypesInv, ClientTypes
<1>2. /\ pc["main"] = "idle" /\ pc'["main"] = "number" /\ pc'["reader"] = pc["reader"]
      /\ local'["main"].cmd = "DESCRIBE" /\ local'["reader"] = local["reader"]
  BY <1>1, CommandEffect, ThreadsApart DEF SendRequest, Commands
<1>3. UNCHANGED <<cseq, made, requestRecords, index, lastSessionID, realm, session,
                  subsession, response, connected, requests, responses, answers, resends,
                  panic>>
  BY DEF SendRequest, queue, client, network, history
<1>4. Records' = Records /\ Latest' = Latest /\ Records = 1 .. Latest /\ Latest \in Nat
  BY <1>3, UnchangedRecords, RecordsAreNumbers DEF BaseInv, TypesInv
<1> QED BY <1>2, <1>3, <1>4
        DEF TurnInv, TurnsInv, MadeInv, StepsInv, StepInv, MainInv, WaitInv, ScanInv, Busy,
            Wire, AtEnd

LEMMA NumberTurn ==
  ASSUME BaseInv, TurnInv, NEW t \in {"main", "reader"}, Number(t)
  PROVE  TurnInv'
<1>1. /\ pc[t] = "number" /\ pc'[t] = "record" /\ cseq' = cseq + 1
      /\ \A u \in {"main", "reader"} \ {t} : pc'[u] = pc[u]
  BY GotoEffect, ThreadsApart DEF Number, BaseInv, TypesInv, Steps
<1>2. UNCHANGED <<local, made, requestRecords, index, lastSessionID, realm, session,
                  subsession, response, connected, requests, responses, answers, resends,
                  panic>>
  BY DEF Number, queue, client, network, history
<1>3. Records' = Records /\ Latest' = Latest /\ Records = 1 .. Latest /\ Latest \in Nat
  BY <1>2, UnchangedRecords, RecordsAreNumbers DEF BaseInv, TypesInv
<1> QED BY <1>1, <1>2, <1>3
        DEF TurnInv, TurnsInv, MadeInv, StepsInv, StepInv, MainInv, WaitInv, ScanInv, Busy,
            Wire, AtEnd

(* The wire is empty and the number is the next one: the new record is the *)
(* latest.                                                                 *)
LEMMA NewRequestRecordTurn ==
  ASSUME BaseInv, TurnInv, NEW t \in {"main", "reader"}, NewRequestRecord(t)
  PROVE  TurnInv'
<1> DEFINE record == [cseq |-> cseq, cmd |-> local[t].cmd, session |-> local[t].session]
<1>1. /\ pc[t] = "record" /\ pc'[t] = "write"
      /\ \A u \in {"main", "reader"} \ {t} : pc'[u] = pc[u]
  BY GotoEffect, ThreadsApart DEF NewRequestRecord, BaseInv, TypesInv, Steps
<1>2. UNCHANGED <<cseq, requestRecords, index, lastSessionID, realm, session, subsession,
                  response, connected, requests, responses, panic>>
  BY DEF NewRequestRecord, queue, client, network
<1>3. /\ Records = 1 .. Latest /\ Latest \in Nat /\ Latest' = Latest + 1 
      /\ Records' = 1 .. Latest + 1
      /\ made'[Latest + 1].cseq = cseq
      /\ made'[Latest + 1].cmd = local[t].cmd
      /\ made'[Latest + 1].session = local[t].session
      /\ \A i \in Records : made'[i] = made[i]
  BY RecordsAreNumbers DEF BaseInv, TypesInv, RecordTypes, NewRequestRecord, Latest, Records
<1>4. /\ answers'[Latest + 1] = <<>>
      /\ \A i \in Records : answers'[i] = answers[i]
  BY <1>3 DEF NewRequestRecord, BaseInv, TypesInv, RecordTypes, Latest
<1>5. /\ local'[t].id = Latest + 1
      /\ \A u \in {"main", "reader"} \ {t} : local'[u] = local[u]
  <2>1. local' = [local EXCEPT ![t].id = Latest + 1] /\ t \in Threads
    BY ThreadsApart DEF NewRequestRecord, Latest
  <2> QED BY <2>1, ThreadsApart DEF BaseInv, TypesInv, ThreadTypes, LocalRecords
<1>6. requests = <<>> /\ responses = <<>>
  BY <1>1 DEF TurnInv, TurnsInv, Wire, Busy, BaseInv, TypesInv, WireTypes
<1>7. cseq = Latest + 2
  BY <1>1 DEF TurnInv, MadeInv
<1>8. TurnsInv'
  BY <1>1, <1>2, <1>3, <1>6 DEF TurnInv, TurnsInv, Busy, Wire
<1>9. MadeInv'
  BY <1>1, <1>2, <1>3, <1>4, <1>7 DEF TurnInv, TurnsInv, MadeInv, StepsInv, StepInv, Busy
<1>10. StepsInv'
  BY <1>1, <1>2, <1>3, <1>4, <1>5 DEF TurnInv, TurnsInv, StepsInv, StepInv, Busy
<1>11. MainInv' /\ WaitInv' /\ ScanInv'
  BY <1>1, <1>2, <1>3, <1>4, <1>5, <1>6
  DEF TurnInv, TurnsInv, MainInv, WaitInv, ScanInv, Busy, StepsInv, StepInv, Wire
<1> QED BY <1>8, <1>9, <1>10, <1>11 DEF TurnInv

(* A request goes onto an empty wire.                                      *)
LEMMA WriteTurn ==
  ASSUME BaseInv, TurnInv, NEW t \in {"main", "reader"}, Write(t)
  PROVE  TurnInv'
<1>1. /\ pc[t] = "write" /\ pc'[t] = "enqueue"
      /\ \A u \in {"main", "reader"} \ {t} : pc'[u] = pc[u]
  BY GotoEffect, ThreadsApart DEF Write, BaseInv, TypesInv, Steps
<1>2. UNCHANGED <<local, cseq, made, requestRecords, index, lastSessionID, realm, session,
                  subsession, response, connected, responses, answers, resends, panic>>
  BY DEF Write, queue, client, history
<1>3. Records' = Records /\ Latest' = Latest /\ Records = 1 .. Latest /\ Latest \in Nat
  BY <1>2, UnchangedRecords, RecordsAreNumbers DEF BaseInv, TypesInv
<1>4. local[t].id = Latest /\ requests = <<>> /\ responses = <<>> /\ Latest > 0
  BY <1>1, <1>3
  DEF TurnInv, TurnsInv, StepsInv, StepInv, Wire, Busy, BaseInv, TypesInv, WireTypes,
      PlacesInv, Place, Threads
<1>5. requests' = <<Latest>>
  BY <1>4 DEF Write
<1>6. t = "main" => Latest = 1
  <2> SUFFICES ASSUME t = "main" PROVE Latest = 1
    OBVIOUS
  <2>1. ~session /\ Latest <= 2 /\ ~lastSessionID
    BY <1>1 DEF TurnInv, MainInv, MadeInv, Busy
  <2>2. made[Latest].cmd \in Commands \ {"none"}
    BY <1>3, <1>4, RecordFields DEF BaseInv, TypesInv
  <2>3. made[Latest].cmd = "DESCRIBE"
    BY <1>2, <1>3, <1>4, <2>1, <2>2 DEF Write, WithinSession, Commands, TurnInv, MadeInv
  <2> QED BY <1>3, <1>4, <2>3 DEF TurnInv, MadeInv
<1>7. /\ Wire' = 1 /\ DOMAIN requests' = {1} /\ requests'[1] = Latest
      /\ DOMAIN responses = {}
  BY <1>2, <1>4, <1>5 DEF Wire
<1>8. TurnsInv'
  BY <1>1, <1>2, <1>3, <1>4, <1>6, <1>7 DEF TurnInv, TurnsInv, Busy, MainInv
<1>9. MadeInv' /\ StepsInv' /\ MainInv'
  BY <1>1, <1>2, <1>3, <1>4 DEF TurnInv, TurnsInv, MadeInv, StepsInv, StepInv, MainInv, Busy
<1>10. WaitInv' /\ ScanInv'
  BY <1>1, <1>2, <1>3, <1>4, <1>7
  DEF TurnInv, TurnsInv, StepsInv, StepInv, WaitInv, ScanInv, Busy, Write
<1> QED BY <1>8, <1>9, <1>10 DEF TurnInv

(* A session id is known only after a SETUP, which needs a MediaSession, and*)
(* that is not given up again.                                             *)
LEMMA WritePanicsNever ==
  ASSUME BaseInv, TurnInv, NEW t \in {"main", "reader"}, WritePanics(t)
  PROVE  FALSE
<1>1. /\ local[t].id \in Records /\ WithinSession(local[t].id)
      /\ lastSessionID /\ ~made[local[t].id].session
  BY ThreadsApart DEF WritePanics, BaseInv, PlacesInv, Place
<1> QED BY <1>1 DEF TurnInv, MadeInv, WithinSession

LEMMA WriteFailsTurn ==
  ASSUME BaseInv, TurnInv, NEW t \in {"main", "reader"}, WriteFails(t)
  PROVE  TurnInv'
<1> DEFINE id == local[t].id
<1>1. /\ t \in Threads /\ pc[t] = "write" /\ id \in Records
      /\ 0 \in Records \cup {0} /\ Result(t, id, 0, FALSE)
  BY ThreadsApart DEF WriteFails, BaseInv, PlacesInv, Place
<1>2. /\ pc'[t] = "handle"
      /\ local'[t].id = id
      /\ local'[t].ok = FALSE
      /\ \A u \in {"main", "reader"} \ {t} : pc'[u] = pc[u] /\ local'[u] = local[u]
      /\ answers'[id] = Append(answers[id], 0)
      /\ \A i \in Records \ {id} : answers'[i] = answers[i]
  <2> HIDE DEF id
  <2> QED BY <1>1, ResultEffect, ThreadsApart DEF BaseInv
<1>3. UNCHANGED <<cseq, made, requestRecords, index, lastSessionID, realm, session,
                  subsession, response, connected, requests, responses, panic>>
  BY DEF WriteFails, queue, client, network
<1>4. Records' = Records /\ Latest' = Latest /\ Records = 1 .. Latest /\ Latest \in Nat
  BY <1>3, UnchangedRecords, RecordsAreNumbers DEF BaseInv, TypesInv
<1>5. id = Latest /\ answers[id] = <<>> /\ Wire = 0
  BY <1>1 DEF TurnInv, TurnsInv, StepsInv, StepInv, Busy
<1>6. answers'[id] = <<0>>
  BY <1>2, <1>5
<1>7. TurnsInv' /\ MadeInv'
  <2>1. TurnsInv'
    BY <1>1, <1>2, <1>3, <1>4 DEF TurnInv, TurnsInv, Busy, Wire
  <2>2. \A i \in Records : /\ answers'[i] \in {<<>>, <<0>>, <<i>>}
                           /\ answers[i] # <<>> => answers'[i] # <<>>
    BY <1>2, <1>5, <1>6 DEF TurnInv, MadeInv
  <2> QED BY <1>1, <1>2, <1>3, <1>4, <2>1, <2>2 DEF TurnInv, MadeInv
<1>8. StepsInv' /\ MainInv'
  BY <1>1, <1>2, <1>3, <1>4, <1>5, <1>6
  DEF TurnInv, TurnsInv, StepsInv, StepInv, MainInv, Busy
<1>9. WaitInv' /\ ScanInv'
  BY <1>1, <1>2, <1>3, <1>4, <1>5, <1>6
  DEF TurnInv, TurnsInv, WaitInv, ScanInv, Busy, Wire, AtEnd
<1> QED BY <1>7, <1>8, <1>9 DEF TurnInv

(* Only DESCRIBE can be written while its answer is read; nobody else      *)
(* enqueues then, so that no append is lost.                               *)
LEMMA EnqueueTurn ==
  ASSUME BaseInv, TurnInv, Undisturbed, NEW t \in {"main", "reader"}, Enqueue(t)
  PROVE  TurnInv'
<1>1. /\ pc[t] = "enqueue"
      /\ pc'[t] = IF t = "reader" THEN "read" ELSE "done"
      /\ \A u \in {"main", "reader"} \ {t} : pc'[u] = pc[u] /\ local'[u] = local[u]
  BY ReturnEffect, ThreadsApart DEF Enqueue, BaseInv, TypesInv
<1>2. UNCHANGED <<cseq, made, index, lastSessionID, realm, session, subsession, response,
                  connected, requests, responses, answers, resends, panic>>
  BY DEF Enqueue, client, network, history
<1>3. Records' = Records /\ Latest' = Latest /\ Records = 1 .. Latest /\ Latest \in Nat
  BY <1>2, UnchangedRecords, RecordsAreNumbers DEF BaseInv, TypesInv
<1>4. local[t].id = Latest /\ Latest > 0 /\ local[t].id \in Records
  BY <1>1, <1>3, ThreadsApart DEF TurnInv, StepsInv, StepInv, BaseInv, PlacesInv, Place
<1>5. \A u \in Threads \ {t} : pc[u] # "enqueue"
  BY <1>1, ThreadsApart DEF TurnInv, TurnsInv, Undisturbed
<1>6. /\ requestRecords' = Append(requestRecords, Latest)
      /\ requestRecords \in Seq(Records) /\ index \in 1 .. Len(requestRecords) + 1
  BY <1>4, <1>5 DEF Enqueue, BaseInv, TypesInv, QueueTypes
<1>7. /\ Len(requestRecords') = Len(requestRecords) + 1
      /\ requestRecords' # <<>> /\ requestRecords'[Len(requestRecords')] = Latest
      /\ index <= Len(requestRecords')
      /\ requestRecords = <<>> /\ Latest = 1 => requestRecords' = <<1>>
  <2> HIDE DEF Records
  <2>1. Latest \in Records
    BY <1>4
  <2>2. /\ Len(requestRecords') = Len(requestRecords) + 1
        /\ requestRecords'[Len(requestRecords')] = Latest
    BY <1>6, <2>1
  <2>3. requestRecords' # <<>> /\ index <= Len(requestRecords')
    BY <1>6, <2>2
  <2>4. requestRecords = <<>> /\ Latest = 1 => requestRecords' = <<1>>
    BY <1>6
  <2> QED BY <2>2, <2>3, <2>4
<1>8. TurnsInv' /\ MadeInv' /\ StepsInv' /\ MainInv'
  BY <1>1, <1>2, <1>3, <1>4
  DEF TurnInv, TurnsInv, MadeInv, StepsInv, StepInv, MainInv, Busy, Wire
<1>9. WaitInv' /\ ScanInv'
  BY <1>1, <1>2, <1>3, <1>4, <1>7
  DEF TurnInv, TurnsInv, StepsInv, StepInv, WaitInv, ScanInv, Busy, Wire, AtEnd
<1> QED BY <1>8, <1>9 DEF TurnInv

(* A thread works on the answered latest record.                           *)
LEMMA HandlingLatest ==
  ASSUME BaseInv, TurnInv, NEW t \in {"main", "reader"}, pc[t] = "handle"
  PROVE  /\ t \in Threads /\ ThreadTypes /\ session \in BOOLEAN /\ subsession \in Nat
         /\ Records = 1 .. Latest /\ Latest \in Nat /\ Latest > 0
         /\ local[t].id = Latest /\ answers[Latest] # <<>> /\ Wire = 0
<1>1. t \in Threads /\ local[t].id \in Records
  BY ThreadsApart DEF BaseInv, PlacesInv, Place
<1>2. ThreadTypes /\ session \in BOOLEAN /\ subsession \in Nat
  BY ThreadsApart DEF BaseInv, TypesInv, ClientTypes
<1>3. Records = 1 .. Latest /\ Latest \in Nat
  BY RecordsAreNumbers DEF BaseInv, TypesInv
<1> QED BY <1>1, <1>2, <1>3 DEF TurnInv, TurnsInv, StepsInv, StepInv, Busy

(* The command that follows an answer, when the session is as it was.      *)
LEMMA CommandTurn ==
  ASSUME BaseInv, TurnInv, NEW t \in {"main", "reader"}, pc[t] \in {"handle", "next"},
         NEW cmd \in {"SETUP", "PLAY", "TEARDOWN"}, Command(t, cmd, session),
         cmd \in {"SETUP", "PLAY"} => t = "reader" /\ session,
         t = "main" => Latest = 1,
         cmd = "SETUP" => pc[t] = "next" /\ subsession' # 0,
         UNCHANGED <<cseq, made, requestRecords, index, lastSessionID, realm, session,
                     response, connected, requests, responses, answers, resends, panic>>
  PROVE  TurnInv'
<1>1. t \in Threads /\ ThreadTypes /\ session \in BOOLEAN
  BY ThreadsApart DEF BaseInv, TypesInv, ClientTypes
<1>2. /\ pc'[t] = "number" /\ local'[t].cmd = cmd /\ local'[t].session = session
      /\ \A u \in {"main", "reader"} \ {t} : pc'[u] = pc[u] /\ local'[u] = local[u]
  BY <1>1, CommandEffect, ThreadsApart DEF Commands
<1>3. Records' = Records /\ Latest' = Latest /\ Records = 1 .. Latest /\ Latest \in Nat
  BY UnchangedRecords, RecordsAreNumbers DEF BaseInv, TypesInv
<1>4. Latest > 0 /\ answers[Latest] # <<>> /\ Wire = 0
  BY <1>3, HandlingLatest DEF TurnInv, TurnsInv, StepsInv, StepInv, Busy
<1>5. TurnsInv' /\ MadeInv' /\ StepsInv'
  BY <1>2, <1>3, <1>4 DEF TurnInv, TurnsInv, MadeInv, StepsInv, StepInv, Busy, Wire
<1>6. MainInv'
  BY <1>2, <1>3, <1>4 DEF TurnInv, TurnsInv, MainInv, Busy
<1>7. WaitInv' /\ ScanInv'
  BY <1>2, <1>3, <1>4
  DEF TurnInv, TurnsInv, MadeInv, MainInv, WaitInv, ScanInv, Busy, Wire, AtEnd
<1> QED BY <1>5, <1>6, <1>7 DEF TurnInv

LEMMA ReturnTurn ==
  ASSUME BaseInv, TurnInv, NEW t \in {"main", "reader"}, pc[t] = "handle", Return(t),
         UNCHANGED <<cseq, made, queue, client, response, network, history, panic>>
  PROVE  TurnInv'
<1>1. /\ pc'[t] = IF t = "reader" THEN "read" ELSE "done"
      /\ \A u \in {"main", "reader"} \ {t} : pc'[u] = pc[u] /\ local'[u] = local[u]
  BY HandlingLatest, ReturnEffect, ThreadsApart
<1>2. UNCHANGED <<cseq, made, requestRecords, index, lastSessionID, realm, session,
                  subsession, response, connected, requests, responses, answers, resends,
                  panic>>
  BY DEF queue, client, network, history
<1>3. Records' = Records /\ Latest' = Latest /\ Records = 1 .. Latest /\ Latest \in Nat
  BY <1>2, UnchangedRecords, HandlingLatest
<1>4. Latest > 0 /\ answers[Latest] # <<>> /\ Wire = 0
  BY HandlingLatest
<1> QED BY <1>1, <1>2, <1>3, <1>4
        DEF TurnInv, TurnsInv, MadeInv, StepsInv, StepInv, MainInv, WaitInv, ScanInv, Busy,
            Wire, AtEnd

(* DESCRIBE is the first record, so that no session id is known yet.       *)
LEMMA ContinueAfterDESCRIBETurn ==
  ASSUME BaseInv, TurnInv, NEW t \in {"main", "reader"}, ContinueAfterDESCRIBE(t)
  PROVE  TurnInv'
<1>1. pc[t] = "handle" /\ made[local[t].id].cmd = "DESCRIBE"
  BY DEF ContinueAfterDESCRIBE, Handling
<1>2. /\ t \in Threads /\ ThreadTypes /\ session \in BOOLEAN
      /\ Records = 1 .. Latest /\ Latest \in Nat
      /\ local[t].id = Latest /\ answers[Latest] # <<>> /\ Wire = 0 /\ Latest > 0
  BY <1>1, HandlingLatest
<1>3. Latest = 1 /\ ~lastSessionID
  BY <1>1, <1>2 DEF TurnInv, MadeInv
<1>4. UNCHANGED <<cseq, made, requestRecords, index, lastSessionID, realm, subsession,
                  response, connected, requests, responses, answers, resends, panic>>
  BY DEF ContinueAfterDESCRIBE, queue, network, history
<1>5. Records' = Records /\ Latest' = Latest
  BY <1>4, UnchangedRecords
<1>6. CASE local[t].ok /\ session' = TRUE /\ Goto(t, "next") /\ UNCHANGED local
  <2>1. /\ pc'[t] = "next"
        /\ \A u \in {"main", "reader"} \ {t} : pc'[u] = pc[u]
    BY <1>2, <1>6, GotoEffect, ThreadsApart DEF Steps
  <2>2. t = "reader"
    BY <1>1, <1>6 DEF TurnInv, MainInv, Busy
  <2>3. TurnsInv' /\ MadeInv' /\ StepsInv'
    BY <1>1, <1>2, <1>3, <1>4, <1>5, <1>6, <2>1, <2>2
    DEF TurnInv, TurnsInv, MadeInv, StepsInv, StepInv, Busy, Wire
  <2>4. MainInv' /\ WaitInv' /\ ScanInv'
    BY <1>1, <1>2, <1>3, <1>4, <1>5, <1>6, <2>1, <2>2
    DEF TurnInv, TurnsInv, MainInv, WaitInv, ScanInv, Busy, Wire, AtEnd
  <2> QED BY <2>3, <2>4 DEF TurnInv
<1>7. CASE session' = (session /\ ~local[t].ok) /\ Command(t, "TEARDOWN", session')
  <2>1. session' \in BOOLEAN
    BY <1>2, <1>7
  <2>2. /\ pc'[t] = "number" /\ local'[t].cmd = "TEARDOWN" /\ local'[t].session = session'
        /\ \A u \in {"main", "reader"} \ {t} : pc'[u] = pc[u] /\ local'[u] = local[u]
    BY <1>2, <1>7, <2>1, CommandEffect, ThreadsApart DEF Commands
  <2>3. TurnsInv' /\ MadeInv' /\ StepsInv'
    BY <1>1, <1>2, <1>3, <1>4, <1>5, <2>2
    DEF TurnInv, TurnsInv, MadeInv, StepsInv, StepInv, Busy, Wire
  <2>4. MainInv'
    BY <1>1, <1>2, <1>3, <1>4, <1>5, <1>7, <2>2 DEF TurnInv, TurnsInv, MainInv, Busy
  <2>5. WaitInv' /\ ScanInv'
    BY <1>1, <1>2, <1>3, <1>4, <1>5, <2>2
    DEF TurnInv, TurnsInv, WaitInv, ScanInv, Busy, Wire, AtEnd
  <2> QED BY <2>3, <2>4, <2>5 DEF TurnInv
<1> QED BY <1>6, <1>7 DEF ContinueAfterDESCRIBE

LEMMA ContinueAfterSETUPTurn ==
  ASSUME BaseInv, TurnInv, NEW t \in {"main", "reader"}, ContinueAfterSETUP(t)
  PROVE  TurnInv'
<1>1. pc[t] = "handle" /\ made[local[t].id].cmd = "SETUP"
  BY DEF ContinueAfterSETUP, Handling
<1>2. /\ t \in Threads /\ ThreadTypes
      /\ Records = 1 .. Latest /\ Latest \in Nat
      /\ local[t].id = Latest /\ answers[Latest] # <<>> /\ Wire = 0 /\ Latest > 0
  BY <1>1, HandlingLatest
<1>3. UNCHANGED <<local, cseq, made, requestRecords, index, lastSessionID, realm, session,
                  subsession, response, connected, requests, responses, answers, resends,
                  panic>>
  BY DEF ContinueAfterSETUP, queue, client, network, history
<1>4. Records' = Records /\ Latest' = Latest
  BY <1>3, UnchangedRecords
<1>5. session /\ t = "reader"
  BY <1>1, <1>2 DEF TurnInv, MadeInv, MainInv, Busy
<1>6. pc'["reader"] = "next" /\ pc'["main"] = pc["main"]
  BY <1>2, <1>5, GotoEffect, ThreadsApart DEF ContinueAfterSETUP, Steps
<1> QED BY <1>1, <1>2, <1>3, <1>4, <1>5, <1>6
        DEF TurnInv, TurnsInv, MadeInv, StepsInv, StepInv, MainInv, WaitInv, ScanInv, Busy,
            Wire, AtEnd

(* scs.Subsession is set before SETUP is sent and nil only for PLAY.       *)
LEMMA SETUPPanicsNever ==
  ASSUME BaseInv, TurnInv, NEW t \in {"main", "reader"}, ContinueAfterSETUPPanics(t)
  PROVE  FALSE
<1>1. pc[t] = "handle" /\ made[local[t].id].cmd = "SETUP" /\ subsession = 0
  BY DEF ContinueAfterSETUPPanics, Handling
<1>2. Latest \in Records /\ local[t].id = Latest /\ Latest > 0
  BY <1>1, HandlingLatest
<1>3. t = "reader"
  BY <1>1, <1>2 DEF TurnInv, MadeInv, MainInv, Busy
<1> QED BY <1>1, <1>2, <1>3 DEF TurnInv, WaitInv

LEMMA ContinueAfterPLAYTurn ==
  ASSUME BaseInv, TurnInv, NEW t \in {"main", "reader"}, ContinueAfterPLAY(t)
  PROVE  TurnInv'
<1>1. pc[t] = "handle" /\ made[local[t].id].cmd = "PLAY"
  BY DEF ContinueAfterPLAY, Handling
<1>2. t = "reader"
  BY <1>1, HandlingLatest DEF TurnInv, MadeInv, MainInv, Busy
<1>3. CASE Return(t)
  BY <1>1, <1>3, ReturnTurn DEF ContinueAfterPLAY
<1>4. CASE Command(t, "TEARDOWN", session)
  BY <1>1, <1>2, <1>4, CommandTurn DEF ContinueAfterPLAY, queue, client, network, history
<1> QED BY <1>3, <1>4 DEF ContinueAfterPLAY

LEMMA SetupNextSubSessionTurn ==
  ASSUME BaseInv, TurnInv, NEW t \in {"main", "reader"}, SetupNextSubSession(t)
  PROVE  TurnInv'
<1>1. pc[t] = "next" /\ t = "reader" /\ session
  BY DEF SetupNextSubSession, TurnInv, MainInv, Busy
<1>2. subsession' # 0
  BY DEF SetupNextSubSession, BaseInv, TypesInv, ClientTypes
<1>3. UNCHANGED <<cseq, made, requestRecords, index, lastSessionID, realm, session,
                  response, connected, requests, responses, answers, resends, panic>>
  BY DEF SetupNextSubSession, queue, network, history
<1>4. CASE Command(t, "SETUP", TRUE)
  <2>1. session = TRUE
    BY <1>1 DEF BaseInv, TypesInv, ClientTypes
  <2>2. Command(t, "SETUP", session)
    BY <1>4, <2>1
  <2> QED BY <1>1, <1>2, <1>3, <2>2, CommandTurn
<1>5. CASE UNCHANGED <<pc, local>>
  <2>1. Records' = Records /\ Latest' = Latest
    BY <1>3, UnchangedRecords
  <2> QED BY <1>1, <1>2, <1>3, <1>5, <2>1
          DEF TurnInv, TurnsInv, MadeInv, StepsInv, StepInv, MainInv, WaitInv, ScanInv,
              Busy, Wire, AtEnd
<1> QED BY <1>4, <1>5 DEF SetupNextSubSession

LEMMA PlaySessionTurn ==
  ASSUME BaseInv, TurnInv, NEW t \in {"main", "reader"}, PlaySession(t)
  PROVE  TurnInv'
<1>1. pc[t] = "next" /\ t = "reader" /\ session /\ session = TRUE
  BY DEF PlaySession, TurnInv, MainInv, Busy, BaseInv, TypesInv, ClientTypes
<1>2. UNCHANGED <<cseq, made, requestRecords, index, lastSessionID, realm, session,
                  response, connected, requests, responses, answers, resends, panic>>
  BY DEF PlaySession, queue, network, history
<1>3. Command(t, "PLAY", session)
  BY <1>1 DEF PlaySession
<1> QED BY <1>1, <1>2, <1>3, CommandTurn

LEMMA NextPanicsNever ==
  ASSUME TurnInv, NEW t \in {"main", "reader"}, NextPanics(t)
  PROVE  FALSE
  BY DEF NextPanics, TurnInv, StepsInv, StepInv

(* Of two counts that add up to one at most.                               *)
LEMMA OneOfTwo ==
  ASSUME NEW m \in Nat, NEW n \in Nat, m + n <= 1 \/ n + m <= 1, m # 0
  PROVE  m = 1 /\ n = 0
  OBVIOUS

(* The one response on the wire is the latest record's.                    *)
LEMMA ReadSocketTurn ==
  ASSUME BaseInv, TurnInv, ReadSocket, unnumbered' = 0
  PROVE  TurnInv'
<1>1. /\ pc["reader"] = "read" /\ connected /\ responses # <<>>
      /\ UNCHANGED <<local, cseq, made, requestRecords, index, lastSessionID, realm,
                     session, subsession, connected, requests, answers, resends, panic>>
      /\ Goto("reader", IF response'.cseq = 0 THEN "fallback" ELSE "scan")
  BY DEF ReadSocket, queue, client, history
<1>2. /\ responses \in Seq(Responses) /\ requests \in Seq(Records)
      /\ unnumbered \in Nat /\ Records = 1 .. Latest /\ Latest \in Nat
  BY ThreadsApart, RecordsAreNumbers DEF BaseInv, TypesInv, WireTypes, ClientTypes
<1>3. Len(responses) = 1 /\ requests = <<>> /\ Wire = 1
  <2>1. /\ Len(responses) \in Nat /\ Len(responses) # 0 /\ Len(requests) \in Nat
        /\ Len(requests) = 0 => requests = <<>>
    BY <1>1, <1>2
  <2>2. Len(requests) + Len(responses) <= 1
    BY DEF TurnInv, TurnsInv, Wire
  <2>3. Len(responses) = 1 /\ Len(requests) = 0
    BY <2>1, <2>2, OneOfTwo
  <2> QED BY <2>1, <2>3 DEF Wire
<1>4. /\ response' = responses[1]
      /\ \E n \in 1 .. 1 : responses' = SubSeq(responses, n + 1, 1)
  BY <1>2, <1>3 DEF ReadSocket
<1>5. responses' = <<>>
  BY <1>2, <1>3, <1>4
<1>6. responses[1] \in Responses /\ 1 \in DOMAIN responses
  BY <1>2, <1>3
<1>7. /\ response'.to = Latest /\ response'.cseq = Latest + 1
      /\ response'.code # 0 /\ response'.found = 0
      /\ Latest > 0 /\ answers[Latest] = <<>>
  BY <1>3, <1>4, <1>6 DEF TurnInv, WaitInv, Responses
<1>8. /\ pc'["reader"] = "scan" /\ pc'["main"] = pc["main"]
  BY <1>1, <1>2, <1>7, GotoEffect, ThreadsApart DEF BaseInv, TypesInv, Steps
<1>9. pc["main"] \in {"enqueue", "done"}
  BY <1>3, ThreadsApart DEF TurnInv, TurnsInv, Busy, BaseInv, PlacesInv, Place
<1>10. Records' = Records /\ Latest' = Latest /\ Wire' = 0
  BY <1>1, <1>3, <1>5, UnchangedRecords DEF Wire
<1>11. TurnsInv' /\ MadeInv' /\ StepsInv' /\ MainInv'
  BY <1>1, <1>2, <1>7, <1>8, <1>9, <1>10
  DEF TurnInv, TurnsInv, MadeInv, StepsInv, StepInv, MainInv, Busy
<1>12. WaitInv' /\ ScanInv'
  BY <1>1, <1>2, <1>3, <1>5, <1>7, <1>8, <1>9, <1>10 DEF TurnInv, WaitInv, ScanInv, AtEnd
<1> QED BY <1>11, <1>12 DEF TurnInv

LEMMA ReadFailsTurn ==
  ASSUME BaseInv, TurnInv, ReadFails
  PROVE  TurnInv'
<1>1. /\ pc["reader"] = "read" /\ ~connected
      /\ pc'["reader"] = "done" /\ pc'["main"] = pc["main"]
  BY GotoEffect, ThreadsApart DEF ReadFails, BaseInv, TypesInv, Steps
<1>2. UNCHANGED <<local, cseq, made, requestRecords, index, lastSessionID, realm, session,
                  subsession, response, connected, requests, responses, answers, resends,
                  panic>>
  BY DEF ReadFails, queue, client, network, history
<1>3. Records' = Records /\ Latest' = Latest /\ requests = <<>> /\ responses = <<>>
  BY <1>1, <1>2, UnchangedRecords DEF BaseInv, WireInv
<1> QED BY <1>1, <1>2, <1>3
        DEF TurnInv, TurnsInv, MadeInv, StepsInv, StepInv, MainInv, WaitInv, ScanInv, Busy,
            Wire, AtEnd

(* Every number is the latest or an earlier one: only the end of the queue *)
(* ends the search, and the latest record is met before it.                *)
LEMMA MatchCSeqTurn ==
  ASSUME BaseInv, TurnInv, MatchCSeq
  PROVE  TurnInv'
<1>1. /\ pc["reader"] = "scan" /\ Dequeue
      /\ UNCHANGED <<local, cseq, made, requestRecords, lastSessionID, realm, session,
                     subsession, connected, requests, responses, answers, resends, panic>>
  BY DEF MatchCSeq, client, network, history
<1>2. /\ Records' = Records /\ Latest' = Latest /\ Records = 1 .. Latest /\ Latest \in Nat
      /\ ThreadTypes /\ QueueTypes /\ WireTypes
  BY <1>1, UnchangedRecords, RecordsAreNumbers DEF BaseInv, TypesInv
<1>3. /\ Latest > 0 /\ answers[Latest] = <<>>
      /\ response.to = Latest /\ response.cseq = Latest + 1 /\ response.code # 0
      /\ response.found \in {0, Latest}
      /\ pc["main"] = "done" =>
           AtEnd /\ (response.found = 0 => index <= Len(requestRecords))
      /\ response.found # 0 => pc["main"] = "done"
  BY <1>1 DEF TurnInv, ScanInv
<1>4. /\ Wire = 0 /\ pc["main"] \in {"enqueue", "done"}
      /\ pc["main"] = "enqueue" => Latest = 1 /\ requestRecords = <<>>
  BY <1>1 DEF TurnInv, TurnsInv, Busy
<1>5. \A i \in Records : made[i].cseq = i + 1
  BY DEF TurnInv, MadeInv
<1> DEFINE found == IF Dequeued = Latest THEN Latest ELSE response.found
<1>6. /\ response' = [response EXCEPT !.found = found]
      /\ IF Dequeued # 0 THEN UNCHANGED pc
         ELSE Goto("reader", IF found = 0 THEN "fallback" ELSE "matched")
  <2>1. Dequeued \in Records \cup {0}
    BY <1>1, <1>2, DequeueEffect
  <2>2. Dequeued # 0 => (made[Dequeued].cseq > response.cseq) = FALSE
                        /\ (made[Dequeued].cseq = response.cseq <=> Dequeued = Latest)
    BY <1>2, <1>3, <1>5, <2>1
  <2> QED BY <1>2, <1>3, <2>1, <2>2 DEF MatchCSeq
<1>7. response'.to = response.to /\ response'.cseq = response.cseq
      /\ response'.code = response.code /\ response'.found = found
  BY <1>2, <1>6 DEF WireTypes, ResponsesTaken
<1>8. CASE index <= Len(requestRecords)
  <2>1. Dequeued = requestRecords[index] /\ index' = index + 1 /\ Dequeued # 0
    BY <1>1, <1>2, <1>8, DequeueEffect DEF QueueTypes
  <2>2. pc' = pc /\ pc["main"] = "done"
    BY <1>2, <1>4, <1>6, <1>8, <2>1 DEF QueueTypes
  <2>3. found = 0 => index' <= Len(requestRecords)
    <3> SUFFICES ASSUME found = 0 PROVE index + 1 <= Len(requestRecords)
      BY <2>1
    <3>1. requestRecords[index] # Latest /\ requestRecords[Len(requestRecords)] = Latest
      BY <1>3, <2>1, <2>2 DEF AtEnd
    <3>2. index # Len(requestRecords)
      BY <3>1
    <3> QED BY <1>2, <1>8, <3>2 DEF QueueTypes
  <2>4. TurnsInv' /\ MadeInv' /\ StepsInv' /\ MainInv'
    BY <1>1, <1>2, <2>2
    DEF TurnInv, TurnsInv, MadeInv, StepsInv, StepInv, MainInv, Busy, Wire
  <2>5. WaitInv'
    BY <1>1, <1>2, <1>4, <2>2 DEF TurnInv, WaitInv, Wire, AtEnd
  <2>6. ScanInv'
    BY <1>1, <1>2, <1>3, <1>7, <2>2, <2>3 DEF ScanInv, AtEnd
  <2> QED BY <2>4, <2>5, <2>6 DEF TurnInv
<1>9. CASE index > Len(requestRecords)
  <2>1. Dequeued = 0 /\ index' = 1
    BY <1>1, <1>2, <1>9, DequeueEffect
  <2>2. found = response.found
    BY <1>3, <2>1
  <2> HIDE DEF found
  <2>3. found = 0 => pc["main"] = "enqueue"
    BY <1>2, <1>3, <1>4, <1>9, <2>2 DEF QueueTypes
  <2>4. /\ pc'["reader"] = IF found = 0 THEN "fallback" ELSE "matched"
        /\ pc'["main"] = pc["main"]
    BY <1>2, <1>6, <2>1, GotoEffect, ThreadsApart DEF Steps
  <2>5. TurnsInv' /\ MadeInv' /\ StepsInv' /\ MainInv'
    BY <1>1, <1>2, <1>4, <2>4
    DEF TurnInv, TurnsInv, MadeInv, StepsInv, StepInv, MainInv, Busy, Wire
  <2>6. WaitInv'
    BY <1>1, <1>2, <1>4, <2>4 DEF TurnInv, WaitInv, Wire, AtEnd
  <2>7. ScanInv'
    BY <1>1, <1>2, <1>3, <1>4, <1>7, <2>1, <2>2, <2>3, <2>4 DEF ScanInv
  <2> QED BY <2>5, <2>6, <2>7 DEF TurnInv
<1> QED BY <1>2, <1>8, <1>9 DEF QueueTypes

(* Only the answer to DESCRIBE comes here, with nothing or DESCRIBE queued.*)
LEMMA FallbackTurn ==
  ASSUME BaseInv, TurnInv, Fallback
  PROVE  TurnInv'
<1>1. /\ pc["reader"] = "fallback" /\ Dequeue
      /\ response' = [response EXCEPT !.found = Dequeued]
      /\ UNCHANGED <<local, cseq, made, requestRecords, lastSessionID, realm, session,
                     subsession, connected, requests, responses, answers, resends, panic>>
  BY DEF Fallback, client, network, history
<1>2. /\ Records' = Records /\ Latest' = Latest
      /\ ThreadTypes /\ QueueTypes /\ WireTypes
  BY <1>1, UnchangedRecords DEF BaseInv, TypesInv
<1>3. pc'["reader"] = "matched" /\ pc'["main"] = pc["main"]
  BY <1>2, GotoEffect, ThreadsApart DEF Fallback, Steps
<1>4. /\ response'.to = response.to /\ response'.cseq = response.cseq
      /\ response'.code = response.code /\ response'.found = Dequeued
  BY <1>1, <1>2 DEF WireTypes, ResponsesTaken
<1>5. /\ Latest = 1 /\ index = 1
      /\ requestRecords = <<>> \/ requestRecords = <<1>>
      /\ Wire = 0 /\ pc["main"] \in {"enqueue", "done"}
      /\ pc["main"] = "enqueue" => requestRecords = <<>>
  BY <1>1 DEF TurnInv, TurnsInv, ScanInv, Busy
<1>6. Dequeued \in {0, 1} /\ (requestRecords = <<>> => Dequeued = 0)
  <2>1. CASE requestRecords = <<>>
    BY <1>5, <2>1 DEF Dequeued
  <2>2. CASE requestRecords = <<1>>
    <3>1. Len(requestRecords) = 1 /\ requestRecords[1] = 1 /\ requestRecords # <<>>
      BY <2>2
    <3> QED BY <1>5, <3>1 DEF Dequeued
  <2> QED BY <1>5, <2>1, <2>2
<1>7. TurnsInv' /\ MadeInv' /\ StepsInv' /\ MainInv'
  BY <1>1, <1>2, <1>3, <1>5
  DEF TurnInv, TurnsInv, MadeInv, StepsInv, StepInv, MainInv, Busy, Wire
<1>8. WaitInv' /\ ScanInv'
  BY <1>1, <1>2, <1>3, <1>4, <1>5, <1>6 DEF TurnInv, WaitInv, ScanInv, Wire, AtEnd
<1> QED BY <1>7, <1>8 DEF TurnInv

LEMMA DiscardTurn ==
  ASSUME BaseInv, TurnInv, Discard
  PROVE  TurnInv'
<1>1. /\ pc["reader"] = "matched" /\ pc'["reader"] = "read"
      /\ pc'["main"] = pc["main"] /\ local'["main"] = local["main"]
  BY ReturnEffect, ThreadsApart DEF Discard, Matched, BaseInv, TypesInv
<1>2. UNCHANGED <<cseq, made, requestRecords, index, lastSessionID, realm, session,
                  subsession, connected, requests, responses, answers, resends, panic>>
  BY DEF Discard, queue, client, network, history
<1>3. Records' = Records /\ Latest' = Latest
  BY <1>2, UnchangedRecords
<1> QED BY <1>1, <1>2, <1>3
        DEF TurnInv, TurnsInv, MadeInv, StepsInv, StepInv, MainInv, WaitInv, ScanInv, Busy,
            Wire, AtEnd

(* What the reader has found is the latest record, which was not answered. *)
LEMMA MatchedLatest ==
  ASSUME BaseInv, TurnInv, pc["reader"] = "matched", response.found # 0
  PROVE  /\ Records = 1 .. Latest /\ Latest \in Nat /\ Latest > 0
         /\ response.found = Latest /\ response.to = Latest
         /\ answers[Latest] = <<>> /\ pc["main"] = "done" /\ Wire = 0
  BY RecordsAreNumbers DEF BaseInv, TypesInv, TurnInv, TurnsInv, ScanInv, Busy

LEMMA DeliverTurn ==
  ASSUME BaseInv, TurnInv, Deliver
  PROVE  TurnInv'
<1>1. /\ pc["reader"] = "matched" /\ response.found # 0
      /\ UNCHANGED <<cseq, made, requestRecords, index, session, subsession, connected,
                     requests, responses, resends, panic>>
  BY DEF Deliver, Matched, queue, network
<1>2. /\ Records = 1 .. Latest /\ Latest \in Nat /\ Latest > 0
      /\ response.found = Latest /\ response.to = Latest
      /\ answers[Latest] = <<>> /\ pc["main"] = "done" /\ Wire = 0
      /\ Records' = Records /\ Latest' = Latest
  BY <1>1, MatchedLatest, UnchangedRecords
<1>3. /\ pc'["reader"] = "handle" /\ local'["reader"].id = Latest
      /\ pc'["main"] = "done"
      /\ answers'[Latest] = Append(<<>>, Latest)
      /\ \A i \in Records \ {Latest} : answers'[i] = answers[i]
  BY <1>2, DeliverEffect, ThreadsApart DEF BaseInv
<1>4. \A i \in Records : /\ answers'[i] \in {<<>>, <<0>>, <<i>>}
                         /\ answers[i] # <<>> => answers'[i] # <<>>
  <2>1. answers'[Latest] = <<Latest>>
    BY <1>3
  <2> QED BY <1>2, <1>3, <2>1 DEF TurnInv, MadeInv
<1>5. lastSessionID' => session /\ Latest >= 2
  <2>1. lastSessionID' => lastSessionID \/ made[Latest].cmd = "SETUP"
    BY <1>2 DEF Deliver
  <2> QED BY <1>2, <2>1 DEF TurnInv, MadeInv
<1>6. TurnsInv' /\ StepsInv' /\ MainInv'
  BY <1>1, <1>2, <1>3 DEF TurnInv, TurnsInv, StepsInv, StepInv, MainInv, Busy, Wire
<1>7. MadeInv'
  BY <1>1, <1>2, <1>3, <1>4, <1>5 DEF TurnInv, MadeInv
<1>8. WaitInv' /\ ScanInv'
  BY <1>1, <1>2, <1>3 DEF TurnInv, WaitInv, ScanInv, Wire, AtEnd
<1> QED BY <1>6, <1>7, <1>8 DEF TurnInv

(* Sent again, the latest record is where it was when it was made.         *)
LEMMA SendAgainTurn ==
  ASSUME BaseInv, TurnInv, pc["reader"] = "matched", response.found # 0, SendAgain,
         UNCHANGED <<cseq, made, requestRecords, index, lastSessionID, session, subsession,
                     answers, panic>>,
         \/ UNCHANGED <<connected, requests, responses>>
         \/ ~connected' /\ requests' = <<>> /\ responses' = <<>>
  PROVE  TurnInv'
<1>1. /\ Records = 1 .. Latest /\ Latest \in Nat /\ Latest > 0
      /\ response.found = Latest /\ answers[Latest] = <<>> /\ pc["main"] = "done" /\ Wire = 0
      /\ Records' = Records /\ Latest' = Latest
  BY MatchedLatest, UnchangedRecords
<1>2. pc'["reader"] = "write" /\ local'["reader"].id = Latest /\ pc'["main"] = "done"
  BY <1>1, SendAgainEffect, ThreadsApart DEF BaseInv
<1>3. Wire' = 0
  BY <1>1 DEF Wire
<1>4. /\ DOMAIN requests' \subseteq DOMAIN requests
      /\ DOMAIN responses' \subseteq DOMAIN responses
  OBVIOUS
<1>5. TurnsInv' /\ StepsInv' /\ MainInv' /\ MadeInv'
  BY <1>1, <1>2, <1>3 DEF TurnInv, TurnsInv, StepsInv, StepInv, MainInv, MadeInv, Busy
<1>6. WaitInv' /\ ScanInv'
  BY <1>1, <1>2, <1>3, <1>4 DEF TurnInv, WaitInv, ScanInv, AtEnd
<1> QED BY <1>5, <1>6 DEF TurnInv

LEMMA AuthenticateTurn ==
  ASSUME BaseInv, TurnInv, Authenticate
  PROVE  TurnInv'
  BY SendAgainTurn DEF Authenticate, Matched, queue, network

LEMMA RedirectTurn ==
  ASSUME BaseInv, TurnInv, Redirect
  PROVE  TurnInv'
  BY SendAgainTurn DEF Redirect, Matched, Disconnect, queue, client

LEMMA AnswerTurn ==
  ASSUME BaseInv, TurnInv, Answer, unnumbered' = 0
  PROVE  TurnInv'
<1>1. /\ connected /\ requests # <<>> /\ requests' = Tail(requests)
      /\ UNCHANGED <<pc, local, cseq, made, requestRecords, index, lastSessionID, realm,
                     session, subsession, response, connected, answers, resends, panic>>
  BY DEF Answer, queue, client, history
<1>2. /\ requests \in Seq(Records) /\ responses \in Seq(Responses)
      /\ unnumbered \in Nat /\ Records = 1 .. Latest /\ Latest \in Nat
      /\ Records' = Records /\ Latest' = Latest
  BY <1>1, UnchangedRecords, ThreadsApart, RecordsAreNumbers
  DEF BaseInv, TypesInv, WireTypes, ClientTypes
<1>3. Len(requests) = 1 /\ responses = <<>> /\ Wire = 1
  <2>1. /\ Len(requests) \in Nat /\ Len(requests) # 0 /\ Len(responses) \in Nat
        /\ Len(responses) = 0 => responses = <<>>
    BY <1>1, <1>2
  <2>2. Len(requests) + Len(responses) <= 1
    BY DEF TurnInv, TurnsInv, Wire
  <2>3. Len(requests) = 1 /\ Len(responses) = 0
    BY <2>1, <2>2, OneOfTwo
  <2> QED BY <2>1, <2>3 DEF Wire
<1>4. requests' = <<>> /\ Head(requests) = requests[1] /\ 1 \in DOMAIN requests
  BY <1>1, <1>2, <1>3
<1>5. Head(requests) = Latest /\ Latest > 0
  BY <1>3, <1>4 DEF TurnInv, WaitInv
<1>6. PICK code \in Codes \ {0} :
        responses' = Append(responses,
          [NoResponse EXCEPT !.to = Latest, !.cseq = made[Latest].cseq, !.code = code])
  <2>1. (\E code \in Codes \ {0} :
           responses' = Append(responses,
             [NoResponse EXCEPT !.to = Head(requests), !.cseq = made[Head(requests)].cseq,
                                !.code = code]))
        \/ unnumbered' = unnumbered + 1
    BY DEF Answer
  <2>2. unnumbered' # unnumbered + 1
    BY <1>2
  <2> QED BY <1>5, <2>1, <2>2
<1> DEFINE answer ==
      [NoResponse EXCEPT !.to = Latest, !.cseq = made[Latest].cseq, !.code = code]
<1>7. answer.to = Latest /\ answer.cseq = Latest + 1 /\ answer.code # 0
  BY <1>2, <1>5 DEF NoResponse, TurnInv, MadeInv
<1> HIDE DEF answer
<1>8. responses' = <<answer>>
  BY <1>3, <1>6 DEF answer
<1>9. /\ Wire' = 1 /\ DOMAIN requests' = {}
      /\ DOMAIN responses' = {1} /\ responses'[1] = answer
  BY <1>4, <1>8 DEF Wire
<1>10. TurnsInv' /\ MadeInv' /\ StepsInv' /\ MainInv'
  BY <1>1, <1>2, <1>3, <1>9 DEF TurnInv, TurnsInv, MadeInv, StepsInv, StepInv, MainInv, Busy
<1>11. WaitInv' /\ ScanInv'
  BY <1>1, <1>2, <1>3, <1>7, <1>9 DEF TurnInv, WaitInv, ScanInv, AtEnd
<1> QED BY <1>10, <1>11 DEF TurnInv

LEMMA ServerClosesTurn ==
  ASSUME BaseInv, TurnInv, ServerCloses
  PROVE  TurnInv'
<1>1. /\ ~connected' /\ requests' = <<>> /\ responses' = <<>>
      /\ UNCHANGED <<pc, local, cseq, made, requestRecords, index, lastSessionID, realm,
                     session, subsession, response, answers, resends, panic>>
  BY DEF ServerCloses, Disconnect, queue, client, history
<1>2. Records' = Records /\ Latest' = Latest /\ Wire' = 0
  BY <1>1, UnchangedRecords DEF Wire
<1>3. DOMAIN requests' = {} /\ DOMAIN responses' = {}
  BY <1>1
<1> QED BY <1>1, <1>2, <1>3
        DEF TurnInv, TurnsInv, MadeInv, StepsInv, StepInv, MainInv, WaitInv, ScanInv, Busy,
            AtEnd

-----------------------------------------------------------------------------
(* Nothing undoes a disturbance.                                           *)
LEMMA DisturbedForGood ==
  ASSUME BaseInv, Next
  PROVE  /\ unnumbered' # 0 \/ unnumbered = 0
         /\ \A u \in Threads : pc'[u] = "idle" => pc[u] = "idle"
<1> DEFINE Moved == \E t \in Threads : \E step \in Steps \ {"idle"} : Goto(t, step)
<1>1. Panic \/ Moved \/ UNCHANGED pc
  <2> USE ThreadsApart
  <2>1. \A t \in Threads :
          \A step \in {"number", "record", "write", "enqueue", "next", "read", "scan",
                      "fallback", "matched", "handle", "done"} : Goto(t, step) => Moved
    BY DEF Steps
  <2> HIDE DEF Moved
  <2>2. \A t \in Threads : \A cmd, s : Command(t, cmd, s) => Moved
    BY <2>1 DEF Command
  <2>3. \A t \in Threads : Return(t) => Moved
    BY <2>1 DEF Return
  <2>4. \A t \in Threads : \A id, to, ok : Result(t, id, to, ok) => Moved
    BY <2>1 DEF Result
  <2>5. SendAgain => Moved
    BY <2>1 DEF SendAgain
  <2>6. ASSUME NEW t \in Threads, Send(t) PROVE Panic \/ Moved
    BY <2>1, <2>3, <2>4, <2>6
    DEF Send, Number, NewRequestRecord, Write, WriteFails, WritePanics, Enqueue
  <2>7. ASSUME NEW t \in Threads, Continue(t) PROVE Panic \/ Moved \/ UNCHANGED pc
    BY <2>1, <2>2, <2>3, <2>7
    DEF Continue, ContinueAfterDESCRIBE, ContinueAfterSETUP, ContinueAfterSETUPPanics,
        ContinueAfterPLAY, NoHandler, SetupNextSubSession, PlaySession, NextPanics
  <2>8. ASSUME HandleResponse PROVE Moved \/ UNCHANGED pc
    BY <2>1, <2>3, <2>4, <2>5, <2>8
    DEF HandleResponse, ReadSocket, ReadFails, MatchCSeq, Fallback, Discard, Deliver,
        Authenticate, Redirect
  <2> QED BY <2>2, <2>6, <2>7, <2>8
      DEF Next, SendRequest, Close, Answer, ServerCloses
<1>2. \A u \in Threads : pc'[u] = "idle" => pc[u] = "idle"
  <2>1. CASE Panic
    BY <2>1 DEF Panic
  <2>2. CASE Moved
    BY <2>2 DEF Goto, BaseInv, TypesInv, ThreadTypes
  <2> QED BY <1>1, <2>1, <2>2
<1>3. unnumbered' # 0 \/ unnumbered = 0
  <2>1. unnumbered \in Nat
    BY ThreadsApart DEF BaseInv, TypesInv, ClientTypes
  <2>2. unnumbered' = unnumbered \/ unnumbered' = unnumbered + 1
    BY
    DEF Next, Send, Continue, HandleResponse, SendRequest, Close, Number, NewRequestRecord,
        Write,
           WriteFails, WritePanics, Enqueue, ContinueAfterDESCRIBE, ContinueAfterSETUP,
           ContinueAfterSETUPPanics, ContinueAfterPLAY, NoHandler, SetupNextSubSession,
           PlaySession, NextPanics, ReadSocket, ReadFails, MatchCSeq, Fallback, Discard,
           Deliver,
           Authenticate, Redirect, Answer, ServerCloses, Panic, network
  <2> QED BY <2>1, <2>2
<1> QED BY <1>2, <1>3

LEMMA InitTurn == Init => TurnInv
<1> SUFFICES ASSUME Init PROVE TurnInv
  OBVIOUS
<1> USE ThreadsApart DEF Init
<1>1. /\ Records = {} /\ Latest = 0 /\ Wire = 0
      /\ pc["main"] = "idle" /\ pc["reader"] = "read"
  BY DEF Records, Latest, Wire
<1>2. TurnsInv /\ MadeInv /\ StepsInv
  BY <1>1 DEF TurnsInv, MadeInv, StepsInv, StepInv, Busy
<1>3. MainInv /\ WaitInv /\ ScanInv
  BY <1>1 DEF MainInv, WaitInv, ScanInv, Busy
<1> QED BY <1>2, <1>3 DEF TurnInv

(* A step either is taken while the client is undisturbed, and keeps the   *)
(* turns, or it disturbs it for good.                                      *)
LEMMA TurnKept == IInv /\ [Next]_vars => (Undisturbed => TurnInv)'
<1> SUFFICES ASSUME BaseInv, Undisturbed => TurnInv, [Next]_vars, Undisturbed'
             PROVE  TurnInv'
  BY DEF IInv
<1>1. CASE UNCHANGED vars
  <2>1. Undisturbed
    BY <1>1 DEF Undisturbed, vars, network
  <2>2. UNCHANGED <<pc, local, cseq, made, requestRecords, index, lastSessionID, realm,
                    session, subsession, response, connected, requests, responses, answers,
                    panic>>
    BY <1>1 DEF vars, queue, client, network, history
  <2>3. Records' = Records /\ Latest' = Latest
    BY <2>2, UnchangedRecords
  <2> QED BY <2>1, <2>2, <2>3
          DEF TurnInv, TurnsInv, MadeInv, StepsInv, StepInv, MainInv, WaitInv,
             ScanInv, Busy, Wire, AtEnd
<1>2. CASE Next
  <2>1. Undisturbed /\ unnumbered' = 0 /\ TurnInv
    BY <1>2, DisturbedForGood, ThreadsApart DEF Undisturbed
  <2>2. \A t \in Closers : pc[t] = "idle" /\ pc'[t] = "idle"
    BY <2>1 DEF Undisturbed
  <2>3. ASSUME NEW t \in Closers PROVE ~Close(t) /\ ~Send(t) /\ ~Continue(t)
    <3>1. ~Close(t)
      <4> SUFFICES ASSUME Close(t) PROVE FALSE
        OBVIOUS
      <4> QED BY <2>2, GotoEffect, ThreadsApart DEF Close, Command, Steps, BaseInv, TypesInv
    <3>2. ~Send(t)
      BY <2>2 DEF Send, Number, NewRequestRecord, Write, WriteFails, WritePanics, Enqueue
    <3>3. ~Continue(t)
      BY <2>2
      DEF Continue, ContinueAfterDESCRIBE, ContinueAfterSETUP, ContinueAfterSETUPPanics,
                  ContinueAfterPLAY, NoHandler, SetupNextSubSession, PlaySession,
                  NextPanics, Handling
    <3> QED BY <3>1, <3>2, <3>3
  <2>4. ASSUME NEW t \in {"main", "reader"}, Send(t) PROVE TurnInv'
    BY <2>1, <2>4, NumberTurn, NewRequestRecordTurn, WriteTurn, WriteFailsTurn,
       WritePanicsNever,
       EnqueueTurn DEF Send
  <2>5. ASSUME NEW t \in {"main", "reader"}, Continue(t) PROVE TurnInv'
    <3>1. CASE NoHandler(t)
      BY <2>1, <3>1, ReturnTurn DEF NoHandler, Handling
    <3> QED BY <2>1, <2>5, <3>1, ContinueAfterDESCRIBETurn, ContinueAfterSETUPTurn,
               SETUPPanicsNever,
               ContinueAfterPLAYTurn, SetupNextSubSessionTurn,
               PlaySessionTurn, NextPanicsNever
            DEF Continue
  <2>6. CASE HandleResponse
    BY <2>1, <2>6, ReadSocketTurn, ReadFailsTurn, MatchCSeqTurn, FallbackTurn, DiscardTurn,
       DeliverTurn, AuthenticateTurn, RedirectTurn DEF HandleResponse
  <2> QED BY <1>2, <2>1, <2>3, <2>4, <2>5, <2>6, SendRequestTurn, AnswerTurn,
             ServerClosesTurn,
             ThreadsApart DEF Next
<1> QED BY <1>1, <1>2

-----------------------------------------------------------------------------
(* The inductive invariant of the client: its types and places, and, while *)
(* it is undisturbed, that it speaks in turns.                             *)
THEOREM Inductive == Spec => []IInv
<1>1. Init => IInv
  BY InitBase, InitTurn DEF IInv
<1>2. IInv /\ [Next]_vars => IInv'
  BY BaseKept, TurnKept DEF IInv
<1> QED BY <1>1, <1>2, PTL DEF Spec

(* Whatever the wire, the threads, the queue and the response refer to is  *)
(* a RequestRecord that was made, and dequeue's index stays in the queue   *)
(* or right behind it (client.go).                                         *)
THEOREM TypeCorrect == Spec => []TypeOK
<1>1. IInv => TypeOK
  <2> SUFFICES ASSUME BaseInv PROVE TypeOK
    BY DEF IInv
  <2> USE ThreadsApart DEF BaseInv, TypesInv
  <2>1. /\ pc \in [Threads -> Steps]
        /\ \A t \in Threads : local[t].id \in Records \cup {0}
    BY DEF ThreadTypes, LocalRecords
  <2>2. \A id \in Records :
          made[id].cseq \in 2 .. cseq /\ made[id].cmd \in Commands \ {"none"}
    BY RecordFields DEF NumbersInv
  <2>3. /\ requestRecords \in Seq(Records) /\ index \in 1 .. (Len(requestRecords) + 1)
        /\ requests \in Seq(Records)
        /\ response.found \in Records \cup {0}
    BY DEF QueueTypes, WireTypes, ResponsesTaken
  <2>4. \A i \in DOMAIN responses : responses[i].to \in Records
    <3>1. \A i \in DOMAIN responses : responses[i] \in Responses
      BY DEF WireTypes
    <3> QED BY <3>1 DEF Responses
  <2>5. DOMAIN answers = Records /\ DOMAIN resends = Records
    BY DEF RecordTypes, Records
  <2>6. /\ subsession \in 0 .. Tracks /\ unnumbered \in 0 .. MaxUnnumbered
        /\ {lastSessionID, realm, session, connected, panic} \subseteq BOOLEAN
    BY DEF ClientTypes
  <2> QED BY <2>1, <2>2, <2>3, <2>4, <2>5, <2>6 DEF TypeOK
<1> QED BY <1>1, Inductive, PTL

(* handleAuthenticationFailure sends a request again with the first realm  *)
(* only: on a connection one request is sent again, once, however often    *)
(* the server answers 401, and whoever closes the stream meanwhile.        *)
THEOREM SentAgainOnce == Spec => []ResentOnce
<1>1. IInv => ResentOnce
  BY DEF IInv, BaseInv
<1> QED BY <1>1, Inductive, PTL

(* handleResponseBytes gives a request's handler one result, that of the   *)
(* response the server made to this very request, although the queue keeps *)
(* the records of all earlier requests and restarts from the first.        *)
THEOREM ResponsesMatch == Spec => []AnswersMatch
<1>1. IInv => AnswersMatch
  BY DEF IInv, TurnInv, MadeInv, AnswersMatch
<1> QED BY <1>1, Inductive, PTL

(* A response that finds no record is that to DESCRIBE: sendRequest        *)
(* enqueues after it writes, but every later request is written by the     *)
(* goroutine that also reads the responses.                                *)
THEOREM OnlyDESCRIBEIsOvertaken == Spec => []ChainIsAnswered
<1>1. IInv => ChainIsAnswered
  <2> SUFFICES ASSUME BaseInv, TurnInv, pc["reader"] = "matched", response.found = 0
               PROVE  made[response.to].cmd = "DESCRIBE"
    BY DEF IInv, ChainIsAnswered
  <2>1. Latest = 1 /\ response.to = 1 /\ 1 \in Records
    BY RecordsAreNumbers DEF TurnInv, ScanInv, BaseInv, TypesInv
  <2> QED BY <2>1 DEF TurnInv, MadeInv
<1> QED BY <1>1, Inductive, PTL

(* PLAY is sent only when every SETUP has its answer: continueAfterSETUP   *)
(* is what takes the next subsession, and playSession comes after the last.*)
THEOREM SetUpBeforePlay == Spec => []PlaysWhenSetUp
<1>1. IInv => PlaysWhenSetUp
  <2> SUFFICES ASSUME BaseInv, TurnInv, NEW p \in Records, NEW s \in Records,
                      made[p].cmd = "PLAY", made[s].cmd = "SETUP"
               PROVE  answers[s] # <<>>
    BY DEF IInv, PlaysWhenSetUp
  <2>1. s < p
    BY DEF TurnInv, MadeInv
  <2>2. s < Latest
    BY <2>1, RecordsAreNumbers DEF BaseInv, TypesInv
  <2> QED BY <2>2 DEF TurnInv, MadeInv
<1> QED BY <1>1, Inductive, PTL

(* No handler meets a nil: continueAfterSETUP has its subsession,          *)
(* setupNextSubSession its Session, and PLAY and TEARDOWN are written with *)
(* a session id only when they were made with a MediaSession.              *)
THEOREM NoNilDereference == Spec => []NoPanic
<1>1. IInv => NoPanic
  BY DEF IInv, TurnInv, TurnsInv, NoPanic
<1> QED BY <1>1, Inductive, PTL
=============================================================================
