------------------------- MODULE MediaSession_proofs -------------------------
(***************************************************************************)
(* What MediaSession says of ports, for any number of streams, ports and   *)
(* attempts.  Neither invariant of the run is inductive: while a pair is   *)
(* being looked for, its first port must already be its owner's, and even, *)
(* and a port that is none's must stay so until somebody binds it.         *)
(*                                                                         *)
(* Then what it says of descriptions, for all of them: the invariant is    *)
(* that the session holds what initWithSDP read, and what that reads       *)
(* follows line by line, by the principle of the least number.             *)
(***************************************************************************)
EXTENDS MediaSession, LeastNumber, TLAPS

Owners == Streams \cup {Client, Outsider, Free}
HeldByClient == {p \in Ports : bound[p] = Client}

-----------------------------------------------------------------------------
(* What a stream's search has in its hands.                                *)
SearchHolds(s) ==
  /\ search[s].at # "idle" => search[s].port >= InitialPort
  /\ search[s].at # "idle" /\ s \notin RawStreams => search[s].port % 2 = 0
  /\ search[s].at = "rtcp" =>
       /\ s \notin RawStreams
       /\ search[s].port \in Ports /\ bound[search[s].port] = s
  /\ search[s].at = "found" =>
       /\ search[s].port \in Ports /\ bound[search[s].port] = s
       /\ s \notin RawStreams => /\ search[s].port + 1 \in Ports
                                 /\ bound[search[s].port + 1] = s

StreamsInv == \A s \in Streams : SearchHolds(s)

(* What the client has in its hands, at every stage of its session.        *)
ClientInv ==
  /\ stage \in {"described", "refused", "parsed", "no codec", "bind", "no port"} =>
       HeldByClient = {}
  /\ stage = "bound" => rtp \in Ports /\ HeldByClient = {rtp}
  /\ stage \in {"pair", "no source", "initiated"} =>
       /\ rtp \in Ports /\ rtp + 1 \in Ports /\ rtp % 2 = 0
       /\ HeldByClient = {rtp, rtp + 1}

IInv == TypeOK /\ StreamsInv /\ ClientInv

-----------------------------------------------------------------------------
LEMMA PortsAreNumbers ==
  /\ Ports \subseteq Nat /\ None \notin Ports
  /\ \A p \in Ports : p >= InitialPort /\ p <= LastPort
  /\ InitialPort \in Ports /\ Ephemeral \subseteq Ports
  BY PortsAssumption, ClientAssumption DEF Ports, None

(* Whoever asks for another port is above the first, at a port of the same *)
(* parity.                                                                 *)
LEMMA NextPorts ==
  ASSUME NEW p \in InitialPort .. LastPort + 2
  PROVE  /\ Next2(p) \in InitialPort .. LastPort + 2
         /\ Next1(p) \in InitialPort .. LastPort + 2
         /\ p % 2 = 0 => Next2(p) % 2 = 0
  BY PortsAssumption DEF Next2, Next1

(* A port that is bound for its owner is the only one that changes, and    *)
(* was nobody's.                                                           *)
LEMMA BindOne ==
  ASSUME TypeOK, NEW p, CanBind(p), NEW owner \in Owners, Bind(p, owner)
  PROVE  /\ p \in Ports /\ bound[p] = Free
         /\ bound' \in [Ports -> Owners]
         /\ bound'[p] = owner
         /\ \A q \in Ports : q # p => bound'[q] = bound[q]
  BY DEF TypeOK, PortsTypeOK, CanBind, Bind, Owners

LEMMA CloseOne ==
  ASSUME TypeOK, NEW p \in Ports, Close(p)
  PROVE  /\ bound' \in [Ports -> Owners]
         /\ bound'[p] = Free
         /\ \A q \in Ports : q # p => bound'[q] = bound[q]
  BY DEF TypeOK, PortsTypeOK, Close, Owners

LEMMA Disjoint ==
  /\ \A s \in Streams : s # Client /\ s # Free /\ s # Outsider
  /\ Client # Free /\ Client # Outsider /\ Outsider # Free
  BY PortsAssumption, ClientAssumption

-----------------------------------------------------------------------------
LEMMA InitHolds == Init => IInv
<1> SUFFICES ASSUME Init PROVE IInv
  OBVIOUS
<1> USE DEF Init, PortsInit
<1>1. TypeOK
  BY PortsAssumption, ClientAssumption DEF TypeOK, PortsTypeOK, None
<1>2. StreamsInv
  BY DEF StreamsInv, SearchHolds
<1>3. ClientInv
  BY Disjoint DEF ClientInv, HeldByClient
<1> QED BY <1>1, <1>2, <1>3 DEF IInv

-----------------------------------------------------------------------------
(* Binding a free port takes nothing from anybody.                         *)
LEMMA BindKeepsSearches ==
  ASSUME IInv, NEW p, CanBind(p), NEW owner \in Owners, Bind(p, owner),
         NEW s \in Streams, search'[s] = search[s]
  PROVE  SearchHolds(s)'
<1>1. /\ \A q \in Ports : bound[q] = s => bound'[q] = s
      /\ SearchHolds(s)
  BY BindOne, Disjoint DEF IInv, StreamsInv
<1> QED BY <1>1 DEF SearchHolds

LEMMA BindForOthers ==
  ASSUME IInv, NEW p, CanBind(p), NEW owner \in Owners, owner # Client,
         Bind(p, owner), UNCHANGED <<stage, rtp>>
  PROVE  ClientInv'
<1>1. HeldByClient' = HeldByClient
  BY BindOne, Disjoint DEF HeldByClient, IInv
<1> QED BY <1>1 DEF ClientInv, IInv

(* Closing a port takes it from its owner alone.                           *)
LEMMA CloseKeepsSearches ==
  ASSUME IInv, NEW p \in Ports, Close(p), bound[p] \notin Streams,
         UNCHANGED search
  PROVE  StreamsInv'
<1>1. \A s \in Streams : SearchHolds(s)
  BY DEF IInv, StreamsInv
<1>2. \A s \in Streams : \A q \in Ports : bound[q] = s => bound'[q] = s
  BY CloseOne DEF IInv
<1> QED BY <1>1, <1>2 DEF StreamsInv, SearchHolds

LEMMA ClosedByOthers ==
  ASSUME IInv, NEW p \in Ports, Close(p), bound[p] # Client,
         UNCHANGED <<stage, rtp>>
  PROVE  ClientInv'
<1>1. HeldByClient' = HeldByClient
  BY CloseOne, Disjoint DEF HeldByClient, IInv
<1> QED BY <1>1 DEF ClientInv, IInv

-----------------------------------------------------------------------------
(* The search of a stream for its ports.                                   *)

LEMMA SearchTypes ==
  ASSUME IInv, NEW s \in Streams
  PROVE  /\ search \in [Streams -> [at : {"idle", "rtp", "rtcp", "found"},
                                    port : {None} \cup InitialPort .. LastPort + 2]]
         /\ search[s].at # "idle" => search[s].port \in InitialPort .. LastPort + 2
         /\ SearchHolds(s)
<1>1. SearchHolds(s) /\ search \in [Streams ->
        [at : {"idle", "rtp", "rtcp", "found"},
         port : {None} \cup InitialPort .. LastPort + 2]]
  BY DEF IInv, StreamsInv, TypeOK, PortsTypeOK
<1> QED BY <1>1, PortsAssumption DEF SearchHolds, None

LEMMA StartSearchKeeps ==
  ASSUME IInv, NEW s \in Streams, StartSearch(s), UNCHANGED clientVars
  PROVE  IInv'
<1> USE DEF StartSearch, clientVars
<1>0. InitialPort \in InitialPort .. LastPort + 2
  BY PortsAssumption
<1>1. TypeOK'
  BY <1>0, SearchTypes DEF IInv, TypeOK, PortsTypeOK
<1>2. StreamsInv'
  <2> SUFFICES ASSUME NEW r \in Streams PROVE SearchHolds(r)'
    BY DEF StreamsInv
  <2>1. CASE r = s
    BY <2>1, SearchTypes, PortsAssumption DEF SearchHolds
  <2>2. CASE r # s
    BY <2>2, SearchTypes DEF SearchHolds
  <2> QED BY <2>1, <2>2
<1>3. ClientInv'
  BY DEF IInv, ClientInv, HeldByClient
<1> QED BY <1>1, <1>2, <1>3 DEF IInv

(* A step of a search that goes on elsewhere, or that binds a port.        *)
LEMMA SearchGoesOn ==
  ASSUME IInv, NEW s \in Streams, NEW q \in InitialPort .. LastPort + 2,
         s \notin RawStreams => q % 2 = 0,
         search' = [search EXCEPT ![s] = [at |-> "rtp", port |-> q]],
         UNCHANGED <<bound, taken, clientVars>>
  PROVE  IInv'
<1> USE DEF clientVars
<1>1. TypeOK'
  BY SearchTypes DEF IInv, TypeOK, PortsTypeOK
<1>2. StreamsInv'
  <2> SUFFICES ASSUME NEW r \in Streams PROVE SearchHolds(r)'
    BY DEF StreamsInv
  <2>1. CASE r = s
    BY <2>1, SearchTypes, PortsAssumption DEF SearchHolds
  <2>2. CASE r # s
    BY <2>2, SearchTypes DEF SearchHolds
  <2> QED BY <2>1, <2>2
<1>3. ClientInv'
  BY DEF IInv, ClientInv, HeldByClient
<1> QED BY <1>1, <1>2, <1>3 DEF IInv

LEMMA SearchBinds ==
  ASSUME IInv, NEW s \in Streams, NEW p, CanBind(p), Bind(p, s),
         NEW stop \in {"rtcp", "found"},
         search' = [search EXCEPT ![s].at = stop],
         SearchHolds(s)', UNCHANGED <<taken, clientVars>>
  PROVE  IInv'
<1> USE DEF clientVars
<1>0. s \in Owners /\ s # Client
  BY Disjoint DEF Owners
<1>1. TypeOK'
  <2>1. bound' \in [Ports -> Owners]
    BY <1>0, BindOne DEF IInv
  <2> QED BY <2>1, SearchTypes DEF IInv, TypeOK, PortsTypeOK, Owners
<1>2. StreamsInv'
  <2> SUFFICES ASSUME NEW r \in Streams, r # s PROVE SearchHolds(r)'
    BY DEF StreamsInv
  <2>1. search'[r] = search[r]
    BY SearchTypes
  <2> QED BY <1>0, <2>1, BindKeepsSearches
<1>3. ClientInv'
  BY <1>0, BindForOthers
<1> QED BY <1>1, <1>2, <1>3 DEF IInv

LEMMA FindOneKeeps ==
  ASSUME IInv, NEW s \in Streams, FindOne(s), UNCHANGED clientVars
  PROVE  IInv'
<1> DEFINE p == search[s].port
<1>0. p \in InitialPort .. LastPort + 2
  BY SearchTypes DEF FindOne
<1>1. CASE CanBind(p)
  <2>1. /\ Bind(p, s) /\ UNCHANGED <<taken, clientVars>>
        /\ search' = [search EXCEPT ![s].at = "found"]
    BY <1>1 DEF FindOne
  <2>2. SearchHolds(s)'
    BY <1>0, <1>1, <2>1, BindOne, SearchTypes DEF SearchHolds, FindOne, IInv, Owners
  <2> HIDE DEF p
  <2> QED BY <1>1, <2>1, <2>2, SearchBinds
<1>2. CASE ~CanBind(p)
  <2>1. search' = [search EXCEPT ![s] = [at |-> "rtp", port |-> Next1(p)]]
    BY <1>2, SearchTypes DEF FindOne
  <2> QED BY <1>0, <1>2, <2>1, NextPorts, SearchGoesOn DEF FindOne
<1> QED BY <1>1, <1>2

LEMMA FindRtpKeeps ==
  ASSUME IInv, NEW s \in Streams, FindRtp(s), UNCHANGED clientVars
  PROVE  IInv'
<1> DEFINE p == search[s].port
<1>0. p \in InitialPort .. LastPort + 2 /\ p % 2 = 0
  BY SearchTypes DEF FindRtp, SearchHolds
<1>1. CASE CanBind(p)
  <2>1. /\ Bind(p, s) /\ UNCHANGED <<taken, clientVars>>
        /\ search' = [search EXCEPT ![s].at = "rtcp"]
    BY <1>1 DEF FindRtp
  <2>2. SearchHolds(s)'
    BY <1>0, <1>1, <2>1, BindOne, SearchTypes DEF SearchHolds, FindRtp, IInv, Owners
  <2> HIDE DEF p
  <2> QED BY <1>1, <2>1, <2>2, SearchBinds
<1>2. CASE ~CanBind(p)
  <2>1. search' = [search EXCEPT ![s] = [at |-> "rtp", port |-> Next2(p)]]
    BY <1>2, SearchTypes DEF FindRtp
  <2> QED BY <1>0, <1>2, <2>1, NextPorts, SearchGoesOn DEF FindRtp
<1> QED BY <1>1, <1>2

LEMMA FindRtcpKeeps ==
  ASSUME IInv, NEW s \in Streams, FindRtcp(s), UNCHANGED clientVars
  PROVE  IInv'
<1> DEFINE p == search[s].port
<1>0. /\ p \in InitialPort .. LastPort + 2 /\ p % 2 = 0
      /\ s \notin RawStreams /\ p \in Ports /\ bound[p] = s
  BY SearchTypes DEF FindRtcp, SearchHolds
<1>1. CASE CanBind(p + 1)
  <2>1. /\ Bind(p + 1, s) /\ UNCHANGED <<taken, clientVars>>
        /\ search' = [search EXCEPT ![s].at = "found"]
    BY <1>1 DEF FindRtcp
  <2>2. /\ p + 1 \in Ports /\ bound'[p + 1] = s /\ bound'[p] = s
    BY <1>0, <1>1, <2>1, BindOne, PortsAreNumbers DEF IInv, Owners
  <2>3. SearchHolds(s)'
    BY <1>0, <2>1, <2>2, SearchTypes DEF SearchHolds, FindRtcp
  <2> HIDE DEF p
  <2> QED BY <1>1, <2>1, <2>3, SearchBinds
<1>2. CASE ~CanBind(p + 1)
  <2>1. search' = [search EXCEPT ![s] = [at |-> "rtp", port |-> Next2(p)]]
    BY <1>2, SearchTypes DEF FindRtcp
  <2> QED BY <1>0, <1>2, <2>1, NextPorts, SearchGoesOn DEF FindRtcp
<1> QED BY <1>1, <1>2

-----------------------------------------------------------------------------
(* What others do to ports.                                                *)

LEMMA OutsideKeeps ==
  ASSUME IInv, NEW p \in Ports, OutsiderTakes(p) \/ OutsiderCloses(p),
         UNCHANGED clientVars
  PROVE  IInv'
<1> USE DEF clientVars
<1>1. CASE OutsiderTakes(p)
  <2> USE <1>1 DEF OutsiderTakes
  <2>0. Outsider \in Owners /\ Outsider # Client
    BY Disjoint DEF Owners
  <2>1. TypeOK'
    <3>1. bound' \in [Ports -> Owners]
      BY <2>0, BindOne DEF IInv
    <3>2. taken \in 0 .. MaxTaken /\ taken < MaxTaken /\ taken' = taken + 1
      BY DEF IInv, TypeOK, PortsTypeOK
    <3>3. taken' \in 0 .. MaxTaken
      BY <3>2, PortsAssumption
    <3> QED BY <3>1, <3>3 DEF IInv, TypeOK, PortsTypeOK, Owners
  <2>2. StreamsInv'
    BY <2>0, BindKeepsSearches DEF StreamsInv
  <2>3. ClientInv'
    BY <2>0, BindForOthers
  <2> QED BY <2>1, <2>2, <2>3 DEF IInv
<1>2. CASE OutsiderCloses(p)
  <2> USE <1>2 DEF OutsiderCloses
  <2>1. TypeOK'
    <3>1. bound' \in [Ports -> Owners]
      BY CloseOne DEF IInv
    <3> QED BY <3>1 DEF IInv, TypeOK, PortsTypeOK, Owners
  <2>2. StreamsInv'
    BY CloseKeepsSearches, Disjoint
  <2>3. ClientInv'
    BY ClosedByOthers, Disjoint
  <2> QED BY <2>1, <2>2, <2>3 DEF IInv
<1> QED BY <1>1, <1>2

-----------------------------------------------------------------------------
(* The client.                                                             *)

LEMMA ClientTypes ==
  ASSUME IInv
  PROVE  /\ Client \in Owners
         /\ bound \in [Ports -> Owners]
         /\ rtp = None \/ rtp \in Ephemeral
         /\ odd \in 0 .. MaxOdd
  BY DEF IInv, TypeOK, PortsTypeOK, Owners

LEMMA NewMediaSessionKeeps ==
  ASSUME IInv, NewMediaSession
  PROVE  IInv'
<1>1. /\ stage = "described" /\ stage' \in {"refused", "parsed"}
      /\ UNCHANGED <<rtp, source, odd, portVars>>
  BY DEF NewMediaSession
<1>2. TypeOK'
  BY <1>1 DEF IInv, TypeOK, PortsTypeOK, portVars
<1>3. StreamsInv'
  BY <1>1 DEF IInv, StreamsInv, SearchHolds, portVars
<1>4. ClientInv'
  BY <1>1 DEF IInv, ClientInv, HeldByClient, portVars
<1> QED BY <1>2, <1>3, <1>4 DEF IInv

LEMMA CodecUnspecifiedKeeps ==
  ASSUME IInv, CodecUnspecified
  PROVE  IInv'
<1> USE DEF CodecUnspecified, Parsed
<1>1. TypeOK'
  BY DEF IInv, TypeOK, PortsTypeOK
<1>2. StreamsInv'
  BY DEF IInv, StreamsInv, SearchHolds
<1>3. ClientInv'
  BY DEF IInv, ClientInv, HeldByClient
<1> QED BY <1>1, <1>2, <1>3 DEF IInv

LEMMA BindRtpKeeps ==
  ASSUME IInv, BindRtp
  PROVE  IInv'
<1>0. stage \in {"parsed", "bind"} /\ UNCHANGED <<search, taken, source>>
  BY DEF BindRtp, Parsed
<1>1. CASE \E p \in Ephemeral :
             /\ CanBind(p) /\ Bind(p, Client)
             /\ odd' = odd + (p % 2) /\ odd' <= MaxOdd
             /\ rtp' = p /\ stage' = "bound"
  <2>1. PICK p \in Ephemeral :
             /\ CanBind(p) /\ Bind(p, Client)
             /\ odd' = odd + (p % 2) /\ odd' <= MaxOdd
             /\ rtp' = p /\ stage' = "bound"
    BY <1>1
  <2>2. p \in Ports /\ p \in Nat
    BY PortsAreNumbers
  <2>3. odd' \in 0 .. MaxOdd
    BY <2>1, <2>2, ClientTypes, ClientAssumption
  <2>4. bound' \in [Ports -> Owners]
    BY <2>1, ClientTypes, BindOne DEF IInv
  <2>5. TypeOK'
    BY <1>0, <2>1, <2>3, <2>4 DEF IInv, TypeOK, PortsTypeOK, Owners
  <2>6. StreamsInv'
    BY <1>0, <2>1, ClientTypes, BindKeepsSearches DEF StreamsInv
  <2>7. HeldByClient = {}
    BY <1>0 DEF IInv, ClientInv
  <2>8. HeldByClient' = {p}
    BY <2>1, <2>2, <2>7, ClientTypes, BindOne DEF HeldByClient, IInv
  <2>9. ClientInv'
    BY <2>1, <2>2, <2>8 DEF ClientInv
  <2> QED BY <2>5, <2>6, <2>9 DEF IInv
<1>2. CASE stage' = "no port" /\ UNCHANGED <<bound, rtp, odd>>
  <2>1. TypeOK'
    BY <1>0, <1>2 DEF IInv, TypeOK, PortsTypeOK
  <2>2. StreamsInv'
    BY <1>0, <1>2 DEF IInv, StreamsInv, SearchHolds
  <2>3. ClientInv'
    BY <1>0, <1>2 DEF IInv, ClientInv, HeldByClient
  <2> QED BY <2>1, <2>2, <2>3 DEF IInv
<1> QED BY <1>1, <1>2 DEF BindRtp

(* Closing the one port that the client has leaves it none.                *)
LEMMA ClientCloses ==
  ASSUME IInv, stage = "bound", Close(rtp), UNCHANGED <<search, taken, source, odd>>,
         rtp' = None, stage' \in {"bind", "no port"}
  PROVE  IInv'
<1>1. rtp \in Ports /\ HeldByClient = {rtp}
  BY DEF IInv, ClientInv
<1>2. bound[rtp] = Client
  BY <1>1 DEF HeldByClient
<1>3. TypeOK'
  <2>1. bound' \in [Ports -> Owners]
    BY <1>1, CloseOne DEF IInv
  <2> QED BY <2>1 DEF IInv, TypeOK, PortsTypeOK, Owners
<1>4. StreamsInv'
  BY <1>1, <1>2, CloseKeepsSearches, Disjoint
<1>5. HeldByClient' = {}
  <2>1. /\ bound'[rtp] = Free /\ \A q \in Ports : q # rtp => bound'[q] = bound[q]
    BY <1>1, CloseOne DEF IInv
  <2> QED BY <1>1, <2>1, Disjoint DEF HeldByClient
<1>6. ClientInv'
  BY <1>5 DEF ClientInv
<1> QED BY <1>3, <1>4, <1>6 DEF IInv

LEMMA CloseOddKeeps ==
  ASSUME IInv, CloseOdd
  PROVE  IInv'
  BY ClientCloses DEF CloseOdd, Parsed

LEMMA BindRtcpKeeps ==
  ASSUME IInv, BindRtcp
  PROVE  IInv'
<1>0. /\ stage = "bound" /\ rtp % 2 = 0 /\ rtp \in Ports
      /\ HeldByClient = {rtp} /\ UNCHANGED <<search, taken, source, odd>>
  BY DEF BindRtcp, Parsed, IInv, ClientInv
<1>1. CASE CanBind(rtp + 1)
  <2>1. Bind(rtp + 1, Client) /\ stage' = "pair" /\ rtp' = rtp
    BY <1>1 DEF BindRtcp
  <2>2. /\ rtp + 1 \in Ports /\ bound' \in [Ports -> Owners]
        /\ bound'[rtp + 1] = Client
        /\ \A q \in Ports : q # rtp + 1 => bound'[q] = bound[q]
    BY <1>1, <2>1, ClientTypes, BindOne DEF IInv
  <2>3. TypeOK'
    BY <1>0, <2>1, <2>2 DEF IInv, TypeOK, PortsTypeOK, Owners
  <2>4. StreamsInv'
    BY <1>0, <1>1, <2>1, ClientTypes, BindKeepsSearches DEF StreamsInv
  <2>5. HeldByClient' = {rtp, rtp + 1}
    BY <1>0, <2>2 DEF HeldByClient
  <2>6. ClientInv'
    BY <1>0, <2>1, <2>2, <2>5 DEF ClientInv
  <2> QED BY <2>3, <2>4, <2>6 DEF IInv
<1>2. CASE ~CanBind(rtp + 1)
  BY <1>0, <1>2, ClientCloses DEF BindRtcp
<1> QED BY <1>1, <1>2

LEMMA CreateSourceObjectKeeps ==
  ASSUME IInv, CreateSourceObject
  PROVE  IInv'
<1>1. /\ stage = "pair" /\ stage' \in {"no source", "initiated"}
      /\ source' \in {"nil", "BasicUDPSource", "H264VideoRTPSource"}
      /\ UNCHANGED <<rtp, odd, bound, search, taken>>
  BY DEF CreateSourceObject, Parsed
<1>2. TypeOK'
  BY <1>1 DEF IInv, TypeOK, PortsTypeOK
<1>3. StreamsInv'
  BY <1>1 DEF IInv, StreamsInv, SearchHolds
<1>4. ClientInv'
  BY <1>1 DEF IInv, ClientInv, HeldByClient
<1> QED BY <1>2, <1>3, <1>4 DEF IInv

-----------------------------------------------------------------------------
(* Every step of anybody keeps the invariant.                              *)
LEMMA StepKeeps == IInv /\ [Next]_vars => IInv'
<1> SUFFICES ASSUME IInv, [Next]_vars PROVE IInv'
  OBVIOUS
<1>1. CASE NewMediaSession
  BY <1>1, NewMediaSessionKeeps
<1>2. CASE Initiate
  BY <1>2, CodecUnspecifiedKeeps, BindRtpKeeps, CloseOddKeeps, BindRtcpKeeps,
     CreateSourceObjectKeeps DEF Initiate
<1>3. CASE ServerOnly
  BY <1>3, StartSearchKeeps, FindOneKeeps, FindRtpKeeps, FindRtcpKeeps
     DEF ServerOnly, Server
<1>4. CASE OutsideOnly
  BY <1>4, OutsideKeeps DEF OutsideOnly, Outside
<1>5. CASE UNCHANGED vars
  BY <1>5 DEF vars, clientVars, portVars, IInv, TypeOK, PortsTypeOK,
     StreamsInv, SearchHolds, ClientInv, HeldByClient
<1> QED BY <1>1, <1>2, <1>3, <1>4, <1>5 DEF Next

(* Who holds which port, and what every search and the client has in its   *)
(* hands, is as IInv says in every reachable state, however streams, the   *)
(* client and others interleave (GetStreamParameters, Initiate).           *)
THEOREM Inductive == Spec => []IInv
  BY InitHolds, StepKeeps, PTL DEF Spec

(* Every variable has its type (NewGroupSock, GetStreamParameters,         *)
(* Initiate).                                                              *)
THEOREM TypeCorrect == Spec => []TypeOK
<1>1. IInv => TypeOK
  BY DEF IInv
<1> QED BY <1>1, Inductive, PTL

(* Nobody is told a port that is not his own: the pairs that a SETUP and   *)
(* its answer name are held by who names them (GetStreamParameters,        *)
(* Initiate).                                                              *)
THEOREM NamedPortsAreOwned == Spec => []PairsAreOwned
<1>1. IInv => ClientOwnsItsPair
  BY DEF IInv, ClientInv, ClientOwnsItsPair, HeldByClient
<1>2. IInv => StreamOwnsItsPorts
  BY DEF IInv, StreamsInv, SearchHolds, StreamOwnsItsPorts
<1>3. IInv => PairsAreOwned
  BY <1>1, <1>2 DEF PairsAreOwned
<1> QED BY <1>3, Inductive, PTL

-----------------------------------------------------------------------------
(* A description: what ClientAssumption says of every one.                 *)
IsDescription(d) ==
  /\ Len(d) \in Nat
  /\ d # <<>> => Len(d) > 0
  /\ \A i \in 1 .. Len(d) : IsLine(d[i])

-----------------------------------------------------------------------------
(* The recursion of initWithSDP.                                           *)

Start(d) == [at |-> IF d = <<>> THEN "refused" ELSE "session",
             session |-> NoSession, sub |-> NoSub]

ReadTo(d, upTo, i) ==
  IF i = 0 THEN Start(d)
  ELSE CHOOSE next \in {ReadLine(d, read, i) : read \in {upTo[i - 1]}} : TRUE

UpTo(d) == CHOOSE upTo : upTo = [i \in 0 .. Len(d) |-> ReadTo(d, upTo, i)]

LEMMA InitIsUpTo ==
  ASSUME NEW d
  PROVE  InitWithSDP(d) = UpTo(d)[Len(d)]
  BY Zenon DEF InitWithSDP, UpTo, ReadTo, Start

LEMMA ReadOne ==
  ASSUME NEW d, NEW f, NEW i \in Nat
  PROVE  ReadTo(d, f, i) = IF i = 0 THEN Start(d) ELSE ReadLine(d, f[i - 1], i)
<1>1. {ReadLine(d, read, i) : read \in {f[i - 1]}} = {ReadLine(d, f[i - 1], i)}
  BY Zenon
<1>2. (CHOOSE next \in {ReadLine(d, f[i - 1], i)} : TRUE) = ReadLine(d, f[i - 1], i)
  OBVIOUS
<1> QED BY <1>1, <1>2 DEF ReadTo

(* Line by line, the function can be built.                                *)
Behind(d, upTo, n) == upTo = [i \in 0 .. n |-> ReadTo(d, upTo, i)]

LEMMA UpToExists ==
  ASSUME NEW d, Len(d) \in Nat
  PROVE  \E upTo : Behind(d, upTo, Len(d))
<1> DEFINE I == {n \in Nat : ~\E upTo : Behind(d, upTo, n)}
<1>1. ASSUME NEW n \in I
      PROVE  \E m \in I : m < n
  <2>1. CASE n = 0
    <3> DEFINE e == [i \in 0 .. 0 |-> Start(d)]
    <3>1. \A i \in 0 .. 0 : i = 0 /\ e[i] = Start(d) /\ ReadTo(d, e, i) = Start(d)
      BY DEF ReadTo
    <3>2. e = [i \in 0 .. 0 |-> e[i]]
      OBVIOUS
    <3> HIDE DEF e
    <3>3. Behind(d, e, n)
      BY <2>1, <3>1, <3>2 DEF Behind
    <3> QED BY <3>3
  <2>2. CASE n # 0
    <3>1. n - 1 \in Nat /\ n - 1 < n /\ n \in Nat
      BY <2>2
    <3> SUFFICES ASSUME n - 1 \notin I PROVE FALSE
      BY <3>1
    <3>2. PICK f : Behind(d, f, n - 1)
      BY <3>1
    <3> DEFINE g == [i \in 0 .. n |-> IF i = n THEN ReadTo(d, f, n) ELSE f[i]]
    <3>3. \A i \in 0 .. n - 1 : g[i] = f[i]
      BY <3>1
    <3>4. g = [i \in 0 .. n |-> g[i]]
      OBVIOUS
    <3>5. g[n] = ReadTo(d, f, n)
      BY <3>1
    <3> HIDE DEF g
    <3>6. ASSUME NEW i \in 0 .. n
          PROVE  g[i] = ReadTo(d, g, i)
      <4>1. i \in Nat /\ (i # 0 => i - 1 \in 0 .. n - 1)
        BY <3>1
      <4>2. ReadTo(d, f, i) = ReadTo(d, g, i)
        BY <3>3, <4>1, ReadOne
      <4>3. CASE i = n
        BY <3>5, <4>2, <4>3
      <4>4. CASE i # n
        <5>1. i \in 0 .. n - 1
          BY <3>1, <4>4
        <5>2. f[i] = ReadTo(d, f, i)
          BY <3>2, <5>1 DEF Behind
        <5> QED BY <3>3, <4>2, <5>1, <5>2
      <4> QED BY <4>3, <4>4
    <3>7. Behind(d, g, n)
      BY <3>4, <3>6 DEF Behind
    <3> QED BY <3>7
  <2> QED BY <2>1, <2>2
<1>2. I = {}
  <2>1. I \subseteq Nat
    OBVIOUS
  <2> HIDE DEF I
  <2> QED BY <1>1, <2>1, NoLeast
<1> QED BY <1>2

LEMMA Reads ==
  ASSUME NEW d, Len(d) \in Nat
  PROVE  /\ UpTo(d)[0] = Start(d)
         /\ \A i \in 1 .. Len(d) : UpTo(d)[i] = ReadLine(d, UpTo(d)[i - 1], i)
<1>1. \E upTo : upTo = [i \in 0 .. Len(d) |-> ReadTo(d, upTo, i)]
  BY UpToExists DEF Behind
<1>2. UpTo(d) = [i \in 0 .. Len(d) |-> ReadTo(d, UpTo(d), i)]
  BY <1>1, Zenon DEF UpTo
<1>3. \A i \in 0 .. Len(d) : UpTo(d)[i] = ReadTo(d, UpTo(d), i)
  BY <1>2
<1>4. 0 \in 0 .. Len(d)
  OBVIOUS
<1>5. ASSUME NEW i \in 1 .. Len(d)
      PROVE  UpTo(d)[i] = ReadLine(d, UpTo(d)[i - 1], i)
  <2>1. i \in 0 .. Len(d) /\ i \in Nat /\ i # 0
    OBVIOUS
  <2> QED BY <1>3, <2>1, ReadOne
<1> QED BY <1>3, <1>4, <1>5, ReadOne

-----------------------------------------------------------------------------
(* The last line of a kind, as lines are read.                             *)

LEMMA LastIsNew ==
  ASSUME NEW d, NEW i \in Nat, NEW S, S \subseteq 1 .. i - 1, NEW default
  PROVE  LastSaid(d, S \cup {i}, default) = d[i].value
<1>1. \A k \in S \cup {i} : (\A j \in S \cup {i} : j <= k) => k = i
  OBVIOUS
<1>2. \A j \in S \cup {i} : j <= i
  OBVIOUS
<1>3. (CHOOSE k \in S \cup {i} : \A j \in S \cup {i} : j <= k) = i
  BY <1>1, <1>2
<1> QED BY <1>3 DEF LastSaid

LEMMA LastOfNone ==
  ASSUME NEW d, NEW default
  PROVE  LastSaid(d, {}, default) = default
  BY DEF LastSaid

(* The lines from the section's head on that have been read and of which   *)
(* some are meant.                                                         *)
LinesTo(d, i, kind) == {j \in FirstMedia(d) + 1 .. i : d[j].kind = kind}
CodecsTo(d, i) == {j \in LinesTo(d, i, "rtpmap") : NamesCodec(d, j)}
ClocksTo(d, i) == {j \in LinesTo(d, i, "rtpmap") : NamesCodec(d, j) /\ d[j].value.frequency # Missing}
WidthsTo(d, i) == {j \in LinesTo(d, i, "b") : d[j].value # Missing}

(* Where the section is.                                                   *)
LEMMA Section ==
  ASSUME NEW d, IsDescription(d), d # <<>>
  PROVE  /\ FirstMedia(d) \in 1 .. Len(d)
         /\ SectionEnd(d) \in FirstMedia(d) .. Len(d)
         /\ \A i \in 1 .. Len(d) : i < FirstMedia(d) => d[i].kind # "m" /\ i # Len(d)
         /\ d[FirstMedia(d)].kind = "m" \/ FirstMedia(d) = Len(d)
         /\ (d[FirstMedia(d)].kind = "m") <=> (Media(d) # {})
         /\ \A i \in FirstMedia(d) + 1 .. SectionEnd(d) : d[i].kind # "m"
         /\ SectionEnd(d) < Len(d) => d[SectionEnd(d) + 1].kind = "m"
<1>1. Media(d) \subseteq Nat /\ Len(d) \in Nat /\ Len(d) > 0
  BY DEF Media, IsDescription
<1>2. /\ FirstMedia(d) \in 1 .. Len(d)
      /\ \A i \in Media(d) : FirstMedia(d) <= i
      /\ IF Media(d) = {} THEN FirstMedia(d) = Len(d) ELSE FirstMedia(d) \in Media(d)
  <2>1. CASE Media(d) = {}
    BY <1>1, <2>1 DEF FirstMedia
  <2>2. CASE Media(d) # {}
    <3>1. PICK i \in Media(d) : \A j \in Media(d) : i <= j
      BY <1>1, <2>2, Least
    <3>2. FirstMedia(d) \in Media(d) /\ \A j \in Media(d) : FirstMedia(d) <= j
      BY <2>2, <3>1, Zenon DEF FirstMedia
    <3> QED BY <2>2, <3>2 DEF Media
  <2> QED BY <2>1, <2>2
<1> DEFINE F == FirstMedia(d)
           later == {i \in Media(d) : i > F}
<1> HIDE DEF F
<1>3. F \in 1 .. Len(d) /\ (\A i \in Media(d) : F <= i)
      /\ IF Media(d) = {} THEN F = Len(d) ELSE F \in Media(d)
  BY <1>2 DEF F
<1>4. /\ SectionEnd(d) \in F .. Len(d)
      /\ \A i \in later : SectionEnd(d) < i
      /\ SectionEnd(d) < Len(d) => SectionEnd(d) + 1 \in later
  <2>1. CASE later = {}
    <3>1. SectionEnd(d) = Len(d)
      BY <2>1 DEF SectionEnd, F
    <3> QED BY <1>1, <1>3, <2>1, <3>1
  <2>2. CASE later # {}
    <3>1. later \subseteq Nat
      BY <1>1
    <3>2. PICK i \in later : \A j \in later : i <= j
      BY <2>2, <3>1, Least
    <3> DEFINE next == CHOOSE k \in later : \A j \in later : k <= j
    <3>3. next \in later /\ \A j \in later : next <= j
      BY <3>2, Zenon
    <3>4. SectionEnd(d) = next - 1
      BY <2>2 DEF SectionEnd, F
    <3> HIDE DEF next
    <3>5. next \in F + 1 .. Len(d)
      BY <1>1, <1>3, <3>3 DEF Media
    <3>6. \A j \in later : j \in Nat /\ next <= j
      BY <3>1, <3>3
    <3> QED BY <1>1, <1>3, <3>3, <3>4, <3>5, <3>6
  <2> QED BY <2>1, <2>2
<1>5. \A i \in 1 .. Len(d) : i < F => i \notin Media(d) /\ i # Len(d)
  BY <1>1, <1>3
<1>6. \A i \in F + 1 .. SectionEnd(d) : i \in 1 .. Len(d) /\ i \notin Media(d)
  <2> TAKE i \in F + 1 .. SectionEnd(d)
  <2>1. i \in 1 .. Len(d) /\ i > F
    BY <1>1, <1>3, <1>4
  <2>2. i \notin later
    BY <1>1, <1>3, <1>4
  <2> QED BY <2>1, <2>2
<1>7. \A i \in 1 .. Len(d) : i \in Media(d) <=> d[i].kind = "m"
  BY DEF Media
<1>8. SectionEnd(d) < Len(d) => SectionEnd(d) + 1 \in 1 .. Len(d) /\ SectionEnd(d) + 1 \in Media(d)
  BY <1>1, <1>3, <1>4
<1>9. F \in Media(d) <=> Media(d) # {}
  BY <1>3
<1> QED BY <1>3, <1>4, <1>5, <1>6, <1>7, <1>8, <1>9 DEF F

-----------------------------------------------------------------------------
(* What was read, line by line.                                            *)

IsSession(s) ==
  s \in [sessionName : {s.sessionName}, sessionDescription : {s.sessionDescription},
         connectionEndpointName : {s.connectionEndpointName},
         controlPath : {s.controlPath}]

IsSub(m) ==
  m \in [mediumName : {m.mediumName}, protocolName : {m.protocolName},
         serverPortNum : {m.serverPortNum}, rtpPayloadFormat : {m.rtpPayloadFormat},
         codecName : {m.codecName}, rtpTimestampFrequency : {m.rtpTimestampFrequency},
         bandWidth : {m.bandWidth},
         connectionEndpointName : {m.connectionEndpointName},
         controlPath : {m.controlPath}]

SaidTo(d, i, kind) == {j \in 1 .. i : d[j].kind = kind}

Said(d, i, s) ==
  /\ IsSession(s)
  /\ s.sessionName = LastSaid(d, SaidTo(d, i, "s"), "")
  /\ s.controlPath = LastSaid(d, SaidTo(d, i, "control"), "")

Medium(d) == IF Media(d) = {} THEN "" ELSE d[FirstMedia(d)].value.medium
Protocol(d) ==
  LET value == d[FirstMedia(d)].value
  IN  IF /\ Media(d) # {} /\ value.protocol \in {"RTP", "UDP"}
         /\ value.payload # Missing /\ value.payload <= 127
      THEN value.protocol ELSE ""
FirstPayload(d) ==
  IF Media(d) = {} THEN 0 ELSE MediaPayload(d[FirstMedia(d)].value)

Described(d, i, m) ==
  /\ IsSub(m)
  /\ m.mediumName = Medium(d) /\ m.protocolName = Protocol(d)
  /\ m.controlPath = LastSaid(d, LinesTo(d, i, "control"), "")
  /\ m.bandWidth = LastSaid(d, WidthsTo(d, i), 0)
  /\ m.rtpPayloadFormat =
       LastSaid(d, LinesTo(d, i, "rtpmap"), [payload |-> FirstPayload(d)]).payload
  /\ m.codecName = LastSaid(d, CodecsTo(d, i), RtpmapValue(0, "", 0, 2)).codec
  /\ m.rtpTimestampFrequency =
       LastSaid(d, ClocksTo(d, i), RtpmapValue(0, "", 0, 2)).frequency

(* One more line.                                                          *)
LEMMA SaidMore ==
  ASSUME NEW d, NEW i \in Nat, i > 0, NEW kind, NEW default
  PROVE  LastSaid(d, SaidTo(d, i, kind), default) =
           IF d[i].kind = kind THEN d[i].value ELSE LastSaid(d, SaidTo(d, i - 1, kind), default)
<1> DEFINE S == SaidTo(d, i - 1, kind)
           T == SaidTo(d, i, kind)
           new == d[i].kind = kind
<1>1. S \subseteq 1 .. i - 1
  BY DEF SaidTo
<1>2. (new => T = S \cup {i}) /\ (~new => T = S)
  BY DEF SaidTo
<1> HIDE DEF S, T
<1>3. CASE new
  <2>1. LastSaid(d, S \cup {i}, default) = d[i].value
    BY <1>1, LastIsNew
  <2> QED BY <1>2, <1>3, <2>1 DEF S, T
<1>4. CASE ~new
  BY <1>2, <1>4 DEF S, T
<1> QED BY <1>3, <1>4

(* Of the lines behind the section's head, those of some property.         *)
Some(d, i, P) == {j \in FirstMedia(d) + 1 .. i : j \in P}

LEMMA SomeMore ==
  ASSUME NEW d, FirstMedia(d) \in Nat, NEW i \in Nat, i > FirstMedia(d), NEW P, NEW default
  PROVE  LastSaid(d, Some(d, i, P), default) =
           IF i \in P THEN d[i].value ELSE LastSaid(d, Some(d, i - 1, P), default)
<1> DEFINE S == Some(d, i - 1, P)
           T == Some(d, i, P)
           new == i \in P
<1>1. S \subseteq 1 .. i - 1
  BY DEF Some
<1>2. (new => T = S \cup {i}) /\ (~new => T = S)
  BY DEF Some
<1> HIDE DEF S, T
<1>3. CASE new
  <2>1. LastSaid(d, S \cup {i}, default) = d[i].value
    BY <1>1, LastIsNew
  <2> QED BY <1>2, <1>3, <2>1 DEF S, T
<1>4. CASE ~new
  BY <1>2, <1>4 DEF S, T
<1> QED BY <1>3, <1>4

(* The properties: of a kind, and with something that is meant.            *)
OfKind(d, kind) == {j \in Nat : d[j].kind = kind}
MapsIn(d) == {j \in OfKind(d, "rtpmap") : NamesCodec(d, j)}
ClocksIn(d) == {j \in MapsIn(d) : d[j].value.frequency # Missing}
WidthsIn(d) == {j \in OfKind(d, "b") : d[j].value # Missing}

LEMMA Kinds ==
  ASSUME NEW d, NEW i \in Nat, FirstMedia(d) \in Nat
  PROVE  /\ \A kind : LinesTo(d, i, kind) = Some(d, i, OfKind(d, kind))
         /\ CodecsTo(d, i) = Some(d, i, MapsIn(d))
         /\ ClocksTo(d, i) = Some(d, i, ClocksIn(d))
         /\ WidthsTo(d, i) = Some(d, i, WidthsIn(d))
<1>1. \A j \in FirstMedia(d) + 1 .. i : j \in Nat
  OBVIOUS
<1>2. \A kind : LinesTo(d, i, kind) = Some(d, i, OfKind(d, kind))
  BY <1>1 DEF LinesTo, Some, OfKind
<1>3. CodecsTo(d, i) = Some(d, i, MapsIn(d))
  BY <1>1 DEF CodecsTo, LinesTo, Some, MapsIn, OfKind
<1>4. ClocksTo(d, i) = Some(d, i, ClocksIn(d))
  BY <1>1 DEF ClocksTo, LinesTo, Some, ClocksIn, MapsIn, OfKind
<1>5. WidthsTo(d, i) = Some(d, i, WidthsIn(d))
  BY <1>1 DEF WidthsTo, LinesTo, Some, WidthsIn, OfKind
<1> QED BY <1>2, <1>3, <1>4, <1>5

LEMMA LinesMore ==
  ASSUME NEW d, FirstMedia(d) \in Nat, NEW i \in Nat, i > FirstMedia(d), NEW kind, NEW default
  PROVE  LastSaid(d, LinesTo(d, i, kind), default) =
           IF d[i].kind = kind THEN d[i].value ELSE LastSaid(d, LinesTo(d, i - 1, kind), default)
<1>1. i - 1 \in Nat
  OBVIOUS
<1>2. /\ LinesTo(d, i, kind) = Some(d, i, OfKind(d, kind))
      /\ LinesTo(d, i - 1, kind) = Some(d, i - 1, OfKind(d, kind))
  BY <1>1, Kinds, Zenon
<1>3. LastSaid(d, Some(d, i, OfKind(d, kind)), default) =
        IF i \in OfKind(d, kind) THEN d[i].value
        ELSE LastSaid(d, Some(d, i - 1, OfKind(d, kind)), default)
  BY SomeMore
<1>4. i \in OfKind(d, kind) <=> d[i].kind = kind
  BY DEF OfKind
<1> QED BY <1>2, <1>3, <1>4

LEMMA CodecsMore ==
  ASSUME NEW d, FirstMedia(d) \in Nat, NEW i \in Nat, i > FirstMedia(d), NEW default
  PROVE  LastSaid(d, CodecsTo(d, i), default) =
           IF d[i].kind = "rtpmap" /\ d[i].value.parts = 2
           THEN d[i].value ELSE LastSaid(d, CodecsTo(d, i - 1), default)
<1>1. i - 1 \in Nat
  OBVIOUS
<1>2. /\ CodecsTo(d, i) = Some(d, i, MapsIn(d))
      /\ CodecsTo(d, i - 1) = Some(d, i - 1, MapsIn(d))
  BY <1>1, Kinds, Zenon
<1>3. LastSaid(d, Some(d, i, MapsIn(d)), default) =
        IF i \in MapsIn(d) THEN d[i].value
        ELSE LastSaid(d, Some(d, i - 1, MapsIn(d)), default)
  BY SomeMore
<1>4. i \in MapsIn(d) <=> d[i].kind = "rtpmap" /\ d[i].value.parts = 2
  BY DEF MapsIn, OfKind, NamesCodec
<1> QED BY <1>2, <1>3, <1>4

LEMMA ClocksMore ==
  ASSUME NEW d, FirstMedia(d) \in Nat, NEW i \in Nat, i > FirstMedia(d), NEW default
  PROVE  LastSaid(d, ClocksTo(d, i), default) =
           IF d[i].kind = "rtpmap" /\ d[i].value.parts = 2 /\ d[i].value.frequency # Missing
           THEN d[i].value ELSE LastSaid(d, ClocksTo(d, i - 1), default)
<1>1. i - 1 \in Nat
  OBVIOUS
<1>2. /\ ClocksTo(d, i) = Some(d, i, ClocksIn(d))
      /\ ClocksTo(d, i - 1) = Some(d, i - 1, ClocksIn(d))
  BY <1>1, Kinds, Zenon
<1>3. LastSaid(d, Some(d, i, ClocksIn(d)), default) =
        IF i \in ClocksIn(d) THEN d[i].value
        ELSE LastSaid(d, Some(d, i - 1, ClocksIn(d)), default)
  BY SomeMore
<1>4. i \in ClocksIn(d) <=>
        d[i].kind = "rtpmap" /\ d[i].value.parts = 2 /\ d[i].value.frequency # Missing
  BY DEF ClocksIn, MapsIn, OfKind, NamesCodec
<1> QED BY <1>2, <1>3, <1>4

LEMMA WidthsMore ==
  ASSUME NEW d, FirstMedia(d) \in Nat, NEW i \in Nat, i > FirstMedia(d), NEW default
  PROVE  LastSaid(d, WidthsTo(d, i), default) =
           IF d[i].kind = "b" /\ d[i].value # Missing
           THEN d[i].value ELSE LastSaid(d, WidthsTo(d, i - 1), default)
<1>1. i - 1 \in Nat
  OBVIOUS
<1>2. /\ WidthsTo(d, i) = Some(d, i, WidthsIn(d))
      /\ WidthsTo(d, i - 1) = Some(d, i - 1, WidthsIn(d))
  BY <1>1, Kinds, Zenon
<1>3. LastSaid(d, Some(d, i, WidthsIn(d)), default) =
        IF i \in WidthsIn(d) THEN d[i].value
        ELSE LastSaid(d, Some(d, i - 1, WidthsIn(d)), default)
  BY SomeMore
<1>4. i \in WidthsIn(d) <=> d[i].kind = "b" /\ d[i].value # Missing
  BY DEF WidthsIn, OfKind
<1> QED BY <1>2, <1>3, <1>4

(* A line that two characters end is taken as it is.                       *)
LEMMA LineTaken ==
  ASSUME NEW l, IsLine(l)
  PROVE  /\ ThisLine(l).kind = l.kind
         /\ l.end = 2 => ThisLine(l).value = l.value
<1> DEFINE v == CASE l.end = 1 -> CutValue(l)
                  [] l.end > 2 -> TailValue(l)
                  [] OTHER -> l.value
<1>1. ThisLine(l) = [l EXCEPT !.value = v]
  BY DEF ThisLine
<1>2. l.end = 2 => v = l.value
  OBVIOUS
<1> HIDE DEF v
<1> QED BY <1>1, <1>2 DEF IsLine

LEMMA SessionReads ==
  ASSUME NEW d, NEW i \in Nat, i > 0, NEW s, Said(d, i - 1, s),
         NEW l, l.kind = d[i].kind, l.value = d[i].value
  PROVE  Said(d, i, SessionLine(s, l))
<1> DEFINE t == SessionLine(s, l)
<1>1. /\ IsSession(t)
      /\ t.sessionName = IF l.kind = "s" THEN l.value ELSE s.sessionName
      /\ t.controlPath = IF l.kind = "control" THEN l.value ELSE s.controlPath
  <2>1. CASE l.kind = "s"
    <3>1. t = [s EXCEPT !.sessionName = l.value]
      BY <2>1 DEF SessionLine
    <3> QED BY <2>1, <3>1 DEF IsSession, Said
  <2>2. CASE l.kind = "i"
    <3>1. t = [s EXCEPT !.sessionDescription = l.value]
      BY <2>2 DEF SessionLine
    <3> QED BY <2>2, <3>1 DEF IsSession, Said
  <2>3. CASE l.kind = "c"
    <3>1. t = [s EXCEPT !.connectionEndpointName = l.value]
      BY <2>3 DEF SessionLine
    <3> QED BY <2>3, <3>1 DEF IsSession, Said
  <2>4. CASE l.kind = "control"
    <3>1. t = [s EXCEPT !.controlPath = l.value]
      BY <2>4 DEF SessionLine
    <3> QED BY <2>4, <3>1 DEF IsSession, Said
  <2>5. CASE l.kind \notin {"s", "i", "c", "control"}
    <3>1. t = s
      BY <2>5 DEF SessionLine
    <3> QED BY <2>5, <3>1 DEF Said
  <2> QED BY <2>1, <2>2, <2>3, <2>4, <2>5
<1> HIDE DEF t
<1> DEFINE blank == ""
<1> HIDE DEF blank
<1>2. LastSaid(d, SaidTo(d, i, "s"), blank) =
        IF d[i].kind = "s" THEN d[i].value ELSE LastSaid(d, SaidTo(d, i - 1, "s"), blank)
  BY SaidMore
<1>3. LastSaid(d, SaidTo(d, i, "control"), blank) =
        IF d[i].kind = "control" THEN d[i].value
        ELSE LastSaid(d, SaidTo(d, i - 1, "control"), blank)
  BY SaidMore
<1>4. /\ s.sessionName = LastSaid(d, SaidTo(d, i - 1, "s"), blank)
      /\ s.controlPath = LastSaid(d, SaidTo(d, i - 1, "control"), blank)
  BY DEF Said, blank
<1>5. Said(d, i, t)
  BY <1>1, <1>2, <1>3, <1>4 DEF Said, blank
<1> QED BY <1>5 DEF t

LEMMA MediaReads ==
  ASSUME NEW d, FirstMedia(d) \in Nat, NEW i \in Nat, i > FirstMedia(d),
         NEW m, Described(d, i - 1, m),
         NEW l, l.kind = d[i].kind, l.value = d[i].value
  PROVE  Described(d, i, MediaLine(m, l))
<1> DEFINE n == MediaLine(m, l)
           map == l.kind = "rtpmap"
<1>1. /\ IsSub(n) /\ n.mediumName = m.mediumName /\ n.protocolName = m.protocolName
      /\ n.controlPath = IF l.kind = "control" THEN l.value ELSE m.controlPath
      /\ n.bandWidth = IF l.kind = "b" /\ l.value # Missing THEN l.value ELSE m.bandWidth
      /\ n.rtpPayloadFormat = IF map THEN l.value.payload ELSE m.rtpPayloadFormat
      /\ n.codecName = IF map /\ l.value.parts = 2 THEN l.value.codec ELSE m.codecName
      /\ n.rtpTimestampFrequency =
           IF map /\ l.value.parts = 2 /\ l.value.frequency # Missing
           THEN l.value.frequency ELSE m.rtpTimestampFrequency
  <2>0. IsSub(m)
    BY DEF Described
  <2>1. CASE l.kind = "c"
    <3>1. n = [m EXCEPT !.connectionEndpointName = l.value]
      BY <2>1 DEF MediaLine
    <3> QED BY <2>0, <2>1, <3>1 DEF IsSub
  <2>2. CASE l.kind = "b"
    <3>1. CASE l.value = Missing
      <4>1. n = m
        BY <2>2, <3>1 DEF MediaLine
      <4> QED BY <2>0, <2>2, <3>1, <4>1
    <3>2. CASE l.value # Missing
      <4>1. n = [m EXCEPT !.bandWidth = l.value]
        BY <2>2, <3>2 DEF MediaLine
      <4> QED BY <2>0, <2>2, <3>2, <4>1 DEF IsSub
    <3> QED BY <3>1, <3>2
  <2>3. CASE l.kind = "rtpmap"
    <3> DEFINE codec == IF l.value.parts = 2 THEN l.value.codec ELSE m.codecName
               clock == IF l.value.parts = 2 /\ l.value.frequency # Missing
                        THEN l.value.frequency ELSE m.rtpTimestampFrequency
    <3>1. n = [m EXCEPT !.rtpPayloadFormat = l.value.payload, !.codecName = codec,
                        !.rtpTimestampFrequency = clock]
      BY <2>3 DEF MediaLine, Rtpmap
    <3> HIDE DEF codec, clock
    <3>2. /\ IsSub(n) /\ n.mediumName = m.mediumName /\ n.protocolName = m.protocolName
          /\ n.controlPath = m.controlPath /\ n.bandWidth = m.bandWidth
          /\ n.rtpPayloadFormat = l.value.payload
          /\ n.codecName = codec /\ n.rtpTimestampFrequency = clock
      BY <2>0, <3>1 DEF IsSub
    <3> QED BY <2>3, <3>2 DEF codec, clock
  <2>4. CASE l.kind = "control"
    <3>1. n = [m EXCEPT !.controlPath = l.value]
      BY <2>4 DEF MediaLine
    <3> QED BY <2>0, <2>4, <3>1 DEF IsSub
  <2>5. CASE l.kind \notin {"c", "b", "rtpmap", "control"}
    <3>1. n = m
      BY <2>5 DEF MediaLine
    <3> QED BY <2>0, <2>5, <3>1
  <2> QED BY <2>1, <2>2, <2>3, <2>4, <2>5
<1> HIDE DEF n
<1> DEFINE head == [payload |-> FirstPayload(d)]
           none == RtpmapValue(0, "", 0, 2)
           blank == ""
           zero == 0
<1> HIDE DEF head, none, blank, zero
<1>2. /\ m.mediumName = Medium(d) /\ m.protocolName = Protocol(d)
      /\ m.controlPath = LastSaid(d, LinesTo(d, i - 1, "control"), blank)
      /\ m.bandWidth = LastSaid(d, WidthsTo(d, i - 1), zero)
      /\ m.rtpPayloadFormat = LastSaid(d, LinesTo(d, i - 1, "rtpmap"), head).payload
      /\ m.codecName = LastSaid(d, CodecsTo(d, i - 1), none).codec
      /\ m.rtpTimestampFrequency = LastSaid(d, ClocksTo(d, i - 1), none).frequency
  BY DEF Described, head, none, blank, zero
<1>3. n.controlPath = LastSaid(d, LinesTo(d, i, "control"), blank)
  <2>1. LastSaid(d, LinesTo(d, i, "control"), blank) =
          IF d[i].kind = "control" THEN d[i].value
          ELSE LastSaid(d, LinesTo(d, i - 1, "control"), blank)
    BY LinesMore
  <2> QED BY <1>1, <1>2, <2>1
<1>4. n.bandWidth = LastSaid(d, WidthsTo(d, i), zero)
  <2>1. LastSaid(d, WidthsTo(d, i), zero) =
          IF d[i].kind = "b" /\ d[i].value # Missing THEN d[i].value
          ELSE LastSaid(d, WidthsTo(d, i - 1), zero)
    BY WidthsMore
  <2> QED BY <1>1, <1>2, <2>1
<1>5. n.rtpPayloadFormat = LastSaid(d, LinesTo(d, i, "rtpmap"), head).payload
  <2>1. LastSaid(d, LinesTo(d, i, "rtpmap"), head) =
          IF d[i].kind = "rtpmap" THEN d[i].value
          ELSE LastSaid(d, LinesTo(d, i - 1, "rtpmap"), head)
    BY LinesMore
  <2> QED BY <1>1, <1>2, <2>1
<1>6. n.codecName = LastSaid(d, CodecsTo(d, i), none).codec
  <2>1. LastSaid(d, CodecsTo(d, i), none) =
          IF d[i].kind = "rtpmap" /\ d[i].value.parts = 2 THEN d[i].value
          ELSE LastSaid(d, CodecsTo(d, i - 1), none)
    BY CodecsMore
  <2> QED BY <1>1, <1>2, <2>1
<1>7. n.rtpTimestampFrequency = LastSaid(d, ClocksTo(d, i), none).frequency
  <2>1. LastSaid(d, ClocksTo(d, i), none) =
          IF d[i].kind = "rtpmap" /\ d[i].value.parts = 2 /\ d[i].value.frequency # Missing
          THEN d[i].value ELSE LastSaid(d, ClocksTo(d, i - 1), none)
    BY ClocksMore
  <2> QED BY <1>1, <1>2, <2>1
<1>8. Described(d, i, n)
  BY <1>1, <1>2, <1>3, <1>4, <1>5, <1>6, <1>7 DEF Described, head, none, blank, zero
<1> QED BY <1>8 DEF n

(* The section's head.                                                     *)
LEMMA HeadReads ==
  ASSUME NEW d, IsDescription(d), d # <<>>,
         NEW l, l.kind = d[FirstMedia(d)].kind, l.value = d[FirstMedia(d)].value
  PROVE  Described(d, FirstMedia(d), NewMediaSubsession(l))
<1> DEFINE F == FirstMedia(d)
           m == NewMediaSubsession(l)
           none == RtpmapValue(0, "", 0, 2)
<1>1. F \in Nat /\ IsLine(d[F]) /\ ((d[F].kind = "m") <=> (Media(d) # {}))
  BY Section DEF IsDescription
<1>2. F + 1 .. F = {}
  BY <1>1
<1>3. /\ \A kind : LinesTo(d, F, kind) = {}
      /\ CodecsTo(d, F) = {} /\ ClocksTo(d, F) = {} /\ WidthsTo(d, F) = {}
  BY <1>2 DEF LinesTo, CodecsTo, ClocksTo, WidthsTo
<1>4. /\ IsSub(m)
      /\ m.mediumName = Medium(d)
      /\ m.controlPath = "" /\ m.bandWidth = 0
      /\ m.codecName = "" /\ m.rtpTimestampFrequency = 0
  BY <1>1 DEF NewMediaSubsession, IsSub, Medium
<1>5. m.protocolName = Protocol(d)
  BY <1>1 DEF NewMediaSubsession, Protocol
<1>6. m.rtpPayloadFormat = FirstPayload(d)
  BY <1>1 DEF NewMediaSubsession, FirstPayload, MediaPayload, IsLine
<1>7. none.codec = "" /\ none.frequency = 0
  BY DEF RtpmapValue
<1>8. [payload |-> FirstPayload(d)].payload = FirstPayload(d)
  OBVIOUS
<1> HIDE DEF m, F
<1>9. Described(d, F, m)
  BY <1>3, <1>4, <1>5, <1>6, <1>7, <1>8, LastOfNone DEF Described
<1> QED BY <1>9 DEF m, F

(* What has been read after i lines, when two characters end those that    *)
(* matter.                                                                 *)
Written(d) == \A i \in 1 .. SectionEnd(d) : d[i].end = 2

Read(d, i, r) ==
  /\ r \in [at : {"session", "section", "behind", "refused"},
            session : {r.session}, sub : {r.sub}]
  /\ r.at = "session" => i < FirstMedia(d) /\ Said(d, i, r.session)
  /\ r.at = "section" => /\ i \in FirstMedia(d) .. SectionEnd(d)
                         /\ Said(d, FirstMedia(d) - 1, r.session)
                         /\ Described(d, i, r.sub)
  /\ r.at = "behind" => /\ i > SectionEnd(d)
                        /\ Said(d, FirstMedia(d) - 1, r.session)
                        /\ Described(d, SectionEnd(d), r.sub)
  /\ r.at = "refused" => \E j \in 1 .. i : ~ValidLine(d[j])

LEMMA ReadNone ==
  ASSUME NEW d, IsDescription(d), d # <<>>
  PROVE  Read(d, 0, Start(d))
<1>1. SaidTo(d, 0, "s") = {} /\ SaidTo(d, 0, "control") = {}
  BY DEF SaidTo
<1>2. Said(d, 0, NoSession)
  BY <1>1, LastOfNone DEF Said, NoSession, IsSession
<1>3. 0 < FirstMedia(d)
  BY Section DEF IsDescription
<1>4. /\ Start(d).at = "session" /\ Start(d).session = NoSession
      /\ Start(d) \in [at : {"session"}, session : {Start(d).session}, sub : {Start(d).sub}]
  BY DEF Start
<1> HIDE DEF Start
<1> QED BY <1>2, <1>3, <1>4 DEF Read

LEMMA ReadMore ==
  ASSUME NEW d, IsDescription(d), d # <<>>, Written(d),
         NEW i \in 1 .. Len(d), NEW r, Read(d, i - 1, r)
  PROVE  Read(d, i, ReadLine(d, r, i))
<1> DEFINE line == ThisLine(d[i])
           F == FirstMedia(d)
           E == SectionEnd(d)
           n == ReadLine(d, r, i)
<1>1. /\ Len(d) \in Nat /\ F \in 1 .. Len(d) /\ E \in F .. Len(d)
      /\ i < F => d[i].kind # "m" /\ i # Len(d)
      /\ i = F => d[i].kind = "m" \/ i = Len(d)
      /\ (i > F /\ i <= E) => d[i].kind # "m"
      /\ i = E + 1 => d[i].kind = "m"
      /\ IsLine(d[i])
  BY Section DEF IsDescription
<1>2. line.kind = d[i].kind /\ (i <= E => line.value = d[i].value)
  BY <1>1, LineTaken DEF Written
<1> HIDE DEF line
<1>3. /\ r.at \in {"session", "section", "behind", "refused"}
      /\ r \in [at : {r.at}, session : {r.session}, sub : {r.sub}]
  BY DEF Read
<1>4. n = CASE r.at \in {"refused", "behind"} -> r
        [] r.at \in {"session", "section"} /\ ~ValidLine(d[i]) ->
             [r EXCEPT !.at = "refused"]
        [] r.at = "session" /\ ValidLine(d[i]) ->
             IF line.kind = "m" \/ i = Len(d)
             THEN [r EXCEPT !.at = "section", !.sub = NewMediaSubsession(line)]
             ELSE [r EXCEPT !.session = SessionLine(@, line)]
        [] OTHER ->
             IF line.kind = "m" THEN [r EXCEPT !.at = "behind"]
             ELSE [r EXCEPT !.sub = MediaLine(@, line)]
  BY DEF ReadLine, line
<1> HIDE DEF F, E, n
<1>5. CASE r.at \in {"refused", "behind"}
  <2>1. n = r
    BY <1>4, <1>5
  <2>2. r.at = "refused" => \E j \in 1 .. i : ~ValidLine(d[j])
    BY <1>1 DEF Read
  <2> QED BY <1>1, <1>5, <2>1, <2>2 DEF Read, n, E
<1>6. CASE r.at \in {"session", "section"} /\ ~ValidLine(d[i])
  <2>1. n = [r EXCEPT !.at = "refused"]
    BY <1>4, <1>6
  <2>2. n \in [at : {"refused"}, session : {n.session}, sub : {n.sub}]
    BY <1>3, <2>1
  <2>3. \E j \in 1 .. i : ~ValidLine(d[j])
    BY <1>6
  <2> QED BY <2>2, <2>3 DEF Read, n
<1>7. CASE r.at = "session" /\ ValidLine(d[i])
  <2>1. i - 1 < F /\ Said(d, i - 1, r.session)
    BY <1>7 DEF Read, F
  <2>2. i <= E /\ line.value = d[i].value
    BY <1>1, <1>2, <2>1
  <2>3. CASE line.kind = "m" \/ i = Len(d)
    <3>1. n = [r EXCEPT !.at = "section", !.sub = NewMediaSubsession(line)]
      BY <1>4, <1>7, <2>3
    <3>2. i = F
      BY <1>1, <1>2, <2>1, <2>3
    <3>3. Described(d, i, NewMediaSubsession(line))
      BY <1>2, <2>2, <3>2, HeadReads DEF F
    <3>4. /\ n \in [at : {"section"}, session : {n.session}, sub : {n.sub}]
          /\ n.session = r.session /\ n.sub = NewMediaSubsession(line)
      BY <1>3, <3>1
    <3>5. Said(d, F - 1, n.session) /\ Described(d, i, n.sub) /\ i \in F .. E
      BY <1>1, <2>1, <3>2, <3>3, <3>4
    <3> QED BY <3>4, <3>5 DEF Read, n, F, E
  <2>4. CASE ~(line.kind = "m" \/ i = Len(d))
    <3>1. n = [r EXCEPT !.session = SessionLine(r.session, line)]
      BY <1>4, <1>7, <2>4
    <3>2. i < F
      BY <1>1, <1>2, <2>1, <2>4
    <3>3. Said(d, i, SessionLine(r.session, line))
      BY <1>2, <2>1, <2>2, SessionReads
    <3>4. /\ n \in [at : {"session"}, session : {n.session}, sub : {n.sub}]
          /\ n.session = SessionLine(r.session, line)
      BY <1>3, <1>7, <3>1
    <3> QED BY <3>2, <3>3, <3>4 DEF Read, n, F
  <2> QED BY <2>3, <2>4
<1>8. CASE r.at = "section" /\ ValidLine(d[i])
  <2>1. i - 1 \in F .. E /\ Said(d, F - 1, r.session) /\ Described(d, i - 1, r.sub)
    BY <1>8 DEF Read, F, E
  <2>2. CASE line.kind = "m"
    <3>1. n = [r EXCEPT !.at = "behind"]
      BY <1>4, <1>8, <2>2
    <3>2. i - 1 = E
      BY <1>1, <1>2, <2>1, <2>2
    <3>3. /\ n \in [at : {"behind"}, session : {n.session}, sub : {n.sub}]
          /\ n.session = r.session /\ n.sub = r.sub
      BY <1>3, <3>1
    <3>4. i > E /\ Described(d, E, n.sub) /\ Said(d, F - 1, n.session)
      BY <1>1, <2>1, <3>2, <3>3
    <3> QED BY <3>3, <3>4 DEF Read, n, F, E
  <2>3. CASE line.kind # "m"
    <3>1. n = [r EXCEPT !.sub = MediaLine(r.sub, line)]
      BY <1>4, <1>8, <2>3
    <3>2. i > F /\ i <= E /\ line.value = d[i].value
      BY <1>1, <1>2, <2>1, <2>3
    <3>3. Described(d, i, MediaLine(r.sub, line))
      BY <1>1, <1>2, <2>1, <3>2, MediaReads DEF F
    <3>4. /\ n \in [at : {"section"}, session : {n.session}, sub : {n.sub}]
          /\ n.session = r.session /\ n.sub = MediaLine(r.sub, line)
      BY <1>3, <1>8, <3>1
    <3>5. Said(d, F - 1, n.session) /\ Described(d, i, n.sub) /\ i \in F .. E
      BY <1>1, <2>1, <3>2, <3>3, <3>4
    <3> QED BY <3>4, <3>5 DEF Read, n, F, E
  <2> QED BY <2>2, <2>3
<1> QED BY <1>3, <1>5, <1>6, <1>7, <1>8

LEMMA AllRead ==
  ASSUME NEW d, IsDescription(d), d # <<>>, Written(d)
  PROVE  Read(d, Len(d), InitWithSDP(d))
<1> DEFINE I == {i \in 0 .. Len(d) : ~Read(d, i, UpTo(d)[i])}
<1>0. Len(d) \in Nat /\ I \subseteq Nat
  BY DEF IsDescription
<1>1. ASSUME NEW i \in I
      PROVE  \E j \in I : j < i
  <2>1. CASE i = 0
    BY <1>0, <2>1, ReadNone, Reads
  <2>2. CASE i # 0
    <3>1. i \in 1 .. Len(d) /\ i - 1 \in 0 .. Len(d) /\ i - 1 < i
      BY <1>0, <2>2
    <3>2. UpTo(d)[i] = ReadLine(d, UpTo(d)[i - 1], i)
      BY <1>0, <3>1, Reads
    <3>3. Read(d, i - 1, UpTo(d)[i - 1]) => Read(d, i, UpTo(d)[i])
      BY <3>1, <3>2, ReadMore
    <3> QED BY <3>1, <3>3
  <2> QED BY <2>1, <2>2
<1>2. I = {}
  <2> HIDE DEF I
  <2> QED BY <1>0, <1>1, NoLeast
<1>3. Len(d) \in 0 .. Len(d)
  BY <1>0
<1> QED BY <1>2, <1>3, InitIsUpTo

-----------------------------------------------------------------------------
(* The session and the subsession are what was read.                       *)
ReadInv ==
  /\ stage \in {"described", "parsed", "refused"} => description \in Descriptions
  /\ stage = "parsed" => /\ InitWithSDP(description).at # "refused"
                         /\ session = InitWithSDP(description).session
                         /\ sub = Completed(InitWithSDP(description).sub)
  /\ stage = "refused" => InitWithSDP(description).at = "refused"

LEMMA ReadInvStarts == Init => ReadInv
  BY DEF Init, ReadInv

LEMMA ReadInvStays ==
  ASSUME ReadInv, [Next]_vars
  PROVE  ReadInv'
<1>1. CASE NewMediaSession
  BY <1>1 DEF NewMediaSession, ReadInv
<1>2. CASE Initiate
  <2>1. stage' \notin {"described", "parsed", "refused"}
    BY <1>2 DEF Initiate, CodecUnspecified, BindRtp, CloseOdd, BindRtcp, CreateSourceObject
  <2> QED BY <2>1 DEF ReadInv
<1>3. CASE UNCHANGED clientVars
  BY <1>3 DEF clientVars, ReadInv
<1> QED BY <1>1, <1>2, <1>3 DEF Next, ServerOnly, OutsideOnly, vars

LEMMA DescriptionsAre ==
  ASSUME NEW d \in Descriptions
  PROVE  IsDescription(d)
  BY ClientAssumption DEF IsDescription

LEMMA NothingRefused ==
  ASSUME NEW d, d = <<>>
  PROVE  InitWithSDP(d).at = "refused"
<1>1. Len(d) = 0
  OBVIOUS
<1>2. UpTo(d)[0] = Start(d)
  BY <1>1, Reads
<1>3. Start(d).at = "refused"
  BY DEF Start
<1> QED BY <1>1, <1>2, <1>3, InitIsUpTo

(* What a session that was parsed consists of.                             *)
LEMMA ParsedIs ==
  ASSUME ReadInv, stage = "parsed", Written(description)
  PROVE  /\ Said(description, FirstMedia(description) - 1, session)
         /\ \E m : /\ Described(description, SectionEnd(description), m)
                   /\ sub = Completed(m)
<1> DEFINE d == description
           r == InitWithSDP(d)
<1>1. IsDescription(d) /\ r.at # "refused"
  BY DescriptionsAre DEF ReadInv
<1>2. d # <<>>
  BY <1>1, NothingRefused
<1>3. Read(d, Len(d), r)
  BY <1>1, <1>2, AllRead
<1>4. Len(d) \in Nat /\ FirstMedia(d) \in 1 .. Len(d) /\ SectionEnd(d) \in FirstMedia(d) .. Len(d)
  BY <1>1, <1>2, Section DEF IsDescription
<1>5. session = r.session /\ sub = Completed(r.sub)
  BY DEF ReadInv
<1> HIDE DEF r, d
<1>6. r.at \in {"session", "section", "behind", "refused"}
  BY <1>3 DEF Read
<1>7. r.at # "session"
  BY <1>3, <1>4 DEF Read
<1>8. Said(d, FirstMedia(d) - 1, r.session) /\ Described(d, SectionEnd(d), r.sub)
  <2>1. CASE r.at = "section"
    <3>1. Len(d) = SectionEnd(d)
      BY <1>3, <1>4, <2>1 DEF Read
    <3> QED BY <1>3, <2>1, <3>1 DEF Read
  <2>2. CASE r.at = "behind"
    BY <1>3, <2>2 DEF Read
  <2> QED BY <1>1, <1>6, <1>7, <2>1, <2>2
<1> QED BY <1>5, <1>8 DEF d

(* What no line gave.                                                      *)
LEMMA Completes ==
  ASSUME NEW m, IsSub(m)
  PROVE  LET c == Completed(m)
             looked == LookupPayloadFormat(m.rtpPayloadFormat)
             frequency == IF m.codecName # "" THEN m.rtpTimestampFrequency ELSE looked[3]
         IN  /\ c.protocolName = m.protocolName /\ c.controlPath = m.controlPath
             /\ c.bandWidth = m.bandWidth /\ c.rtpPayloadFormat = m.rtpPayloadFormat
             /\ c.codecName = IF m.codecName # "" THEN m.codecName ELSE looked[2]
             /\ c.rtpTimestampFrequency =
                  IF frequency # 0 THEN frequency
                  ELSE GuessRTPTimestampFrequency(m.mediumName, c.codecName)
<1> DEFINE c == Completed(m)
           looked == LookupPayloadFormat(m.rtpPayloadFormat)
           frequency == IF m.codecName # "" THEN m.rtpTimestampFrequency ELSE looked[3]
<1> DEFINE known == IF m.codecName # "" THEN m
                    ELSE [m EXCEPT !.codecName = looked[2],
                                   !.rtpTimestampFrequency = looked[3]]
<1>1. /\ IsSub(known) /\ known.mediumName = m.mediumName
      /\ known.protocolName = m.protocolName /\ known.controlPath = m.controlPath
      /\ known.bandWidth = m.bandWidth /\ known.rtpPayloadFormat = m.rtpPayloadFormat
      /\ known.codecName = IF m.codecName # "" THEN m.codecName ELSE looked[2]
      /\ known.rtpTimestampFrequency = frequency
  BY DEF IsSub
<1>2. c = IF known.rtpTimestampFrequency # 0 THEN known
          ELSE [known EXCEPT !.rtpTimestampFrequency =
                  GuessRTPTimestampFrequency(known.mediumName, known.codecName)]
  BY DEF Completed
<1> HIDE DEF known, c, looked, frequency
<1> DEFINE Filled ==
      /\ c.protocolName = m.protocolName /\ c.controlPath = m.controlPath
      /\ c.bandWidth = m.bandWidth /\ c.rtpPayloadFormat = m.rtpPayloadFormat
      /\ c.codecName = IF m.codecName # "" THEN m.codecName ELSE looked[2]
      /\ c.rtpTimestampFrequency =
           IF frequency # 0 THEN frequency
           ELSE GuessRTPTimestampFrequency(m.mediumName, c.codecName)
<1>3. ASSUME known.rtpTimestampFrequency # 0 PROVE Filled
  <2>1. c = known
    BY <1>2, <1>3
  <2> QED BY <1>1, <1>3, <2>1
<1>4. ASSUME known.rtpTimestampFrequency = 0 PROVE Filled
  <2>1. c = [known EXCEPT !.rtpTimestampFrequency =
               GuessRTPTimestampFrequency(known.mediumName, known.codecName)]
    BY <1>2, <1>4
  <2>2. /\ c.protocolName = known.protocolName /\ c.controlPath = known.controlPath
        /\ c.bandWidth = known.bandWidth /\ c.rtpPayloadFormat = known.rtpPayloadFormat
        /\ c.codecName = known.codecName
        /\ c.rtpTimestampFrequency = GuessRTPTimestampFrequency(known.mediumName, known.codecName)
    BY <1>1, <2>1 DEF IsSub
  <2> QED BY <1>1, <1>4, <2>2
<1> QED BY <1>3, <1>4 DEF c, looked, frequency

LEMMA ParsedAsWritten ==
  ASSUME ReadInv
  PROVE  ReadAsWritten
<1> DEFINE d == description
           F == FirstMedia(d)
           E == SectionEnd(d)
<1> SUFFICES ASSUME stage = "parsed", Written(d)
             PROVE  LET medium == IF Media(d) = {} THEN "" ELSE d[F].value.medium
                        looked == LookupPayloadFormat(Payload(d))
                        codec == IF Codec(d) # "" THEN Codec(d) ELSE looked[2]
                        frequency == IF Codec(d) # "" THEN Frequency(d) ELSE looked[3]
                    IN  /\ session.sessionName = SaidBySession(d, "s")
                        /\ session.controlPath = SaidBySession(d, "control")
                        /\ sub.controlPath = LastSaid(d, SectionLines(d, "control"), "")
                        /\ sub.bandWidth = Bandwidth(d)
                        /\ sub.rtpPayloadFormat = Payload(d)
                        /\ sub.codecName = codec
                        /\ sub.rtpTimestampFrequency =
                             IF frequency # 0 THEN frequency
                             ELSE GuessRTPTimestampFrequency(medium, codec)
  BY DEF ReadAsWritten, Written
<1>1. PICK m : Described(d, E, m) /\ sub = Completed(m)
  BY ParsedIs
<1>2. Said(d, F - 1, session)
  BY ParsedIs
<1> HIDE DEF d, F, E
<1>3. /\ session.sessionName = SaidBySession(d, "s")
      /\ session.controlPath = SaidBySession(d, "control")
  BY <1>2 DEF Said, SaidTo, SaidBySession, F
<1>4. IsSub(m) /\ m.mediumName = IF Media(d) = {} THEN "" ELSE d[F].value.medium
  BY <1>1 DEF Described, Medium, F
<1>5. /\ \A kind : LinesTo(d, E, kind) = SectionLines(d, kind)
      /\ CodecsTo(d, E) = {i \in SectionLines(d, "rtpmap") : NamesCodec(d, i)}
      /\ ClocksTo(d, E) = {i \in SectionLines(d, "rtpmap") :
                             NamesCodec(d, i) /\ d[i].value.frequency # Missing}
      /\ WidthsTo(d, E) = {i \in SectionLines(d, "b") : d[i].value # Missing}
  BY DEF LinesTo, SectionLines, CodecsTo, ClocksTo, WidthsTo, E
<1>6. /\ m.controlPath = LastSaid(d, SectionLines(d, "control"), "")
      /\ m.bandWidth = Bandwidth(d) /\ m.rtpPayloadFormat = Payload(d)
      /\ m.codecName = Codec(d) /\ m.rtpTimestampFrequency = Frequency(d)
  BY <1>1, <1>5, Zenon DEF Described, Bandwidth, Payload, Codec, Frequency, FirstPayload
<1> DEFINE looked == LookupPayloadFormat(Payload(d))
           frequency == IF Codec(d) # "" THEN Frequency(d) ELSE looked[3]
<1>7. /\ sub.controlPath = m.controlPath
      /\ sub.bandWidth = m.bandWidth /\ sub.rtpPayloadFormat = m.rtpPayloadFormat
      /\ sub.codecName = IF m.codecName # "" THEN m.codecName ELSE looked[2]
      /\ sub.rtpTimestampFrequency =
           IF frequency # 0 THEN frequency
           ELSE GuessRTPTimestampFrequency(m.mediumName, sub.codecName)
  BY <1>1, <1>4, <1>6, Completes
<1> HIDE DEF looked, frequency
<1> QED BY <1>3, <1>4, <1>6, <1>7 DEF looked, frequency

-----------------------------------------------------------------------------
(* The description that this server writes.                                *)

(* That u is s and then t.                                                 *)
AreJoined(S, s, t, u) ==
  /\ u \in Seq(S) /\ Len(u) = Len(s) + Len(t)
  /\ \A i \in 1 .. Len(s) : u[i] = s[i]
  /\ \A i \in 1 .. Len(t) : u[Len(s) + i] = t[i]

LEMMA Joined ==
  ASSUME NEW S, NEW s \in Seq(S), NEW t \in Seq(S)
  PROVE  AreJoined(S, s, t, s \o t)
  BY DEF AreJoined

LEMMA SectionJoined ==
  ASSUME NEW S, NEW a \in S, NEW b \in S, NEW c \in S, NEW e \in S, NEW f \in S, NEW g \in S
  PROVE  LET t == <<a, b, c>> \o <<e>> \o <<f, g>>
         IN  /\ t \in Seq(S) /\ Len(t) = 6
             /\ t[1] = a /\ t[2] = b /\ t[3] = c /\ t[4] = e /\ t[5] = f /\ t[6] = g
<1> DEFINE p == <<a, b, c>>
           q == <<e>>
           r == <<f, g>>
           u == p \o q
<1>1. /\ p \in Seq(S) /\ q \in Seq(S) /\ r \in Seq(S)
      /\ Len(p) = 3 /\ Len(q) = 1 /\ Len(r) = 2
      /\ p[1] = a /\ p[2] = b /\ p[3] = c /\ q[1] = e /\ r[1] = f /\ r[2] = g
  OBVIOUS
<1> HIDE DEF p, q, r
<1>2. AreJoined(S, p, q, u)
  BY <1>1, Joined
<1> HIDE DEF u
<1>3. AreJoined(S, u, r, u \o r)
  <2>1. u \in Seq(S)
    BY <1>2 DEF AreJoined
  <2> QED BY <1>1, <2>1, Joined
<1> DEFINE v == u \o r
<1> HIDE DEF v
<1>4. /\ Len(u) = 4 /\ u[1] = a /\ u[2] = b /\ u[3] = c
      /\ u[3 + 1] = e
  BY <1>1, <1>2 DEF AreJoined
<1>5. /\ v \in Seq(S) /\ Len(v) = 6
      /\ v[1] = u[1] /\ v[2] = u[2] /\ v[3] = u[3] /\ v[4] = u[4]
      /\ v[4 + 1] = r[1] /\ v[4 + 2] = r[2]
  BY <1>1, <1>3, <1>4 DEF AreJoined, v
<1>6. 3 + 1 = 4 /\ 4 + 1 = 5 /\ 4 + 2 = 6
  OBVIOUS
<1> QED BY <1>1, <1>4, <1>5, <1>6 DEF v, u, p, q, r

LEMMA PrefixJoined ==
  ASSUME NEW S, NEW a \in S, NEW b \in S, NEW c \in S, NEW e \in S,
         NEW f \in S, NEW g \in S, NEW h \in S, NEW k \in S,
         NEW t \in Seq(S), Len(t) = 6
  PROVE  LET s == <<a, b, c, e, f, g, h, k>> \o t
         IN  /\ Len(s) = 14
             /\ s[1] = a /\ s[2] = b /\ s[3] = c /\ s[4] = e
             /\ s[5] = f /\ s[6] = g /\ s[7] = h /\ s[8] = k
             /\ \A i \in 1 .. 6 : s[8 + i] = t[i]
<1> DEFINE p == <<a, b, c, e, f, g, h, k>>
<1>1. /\ p \in Seq(S) /\ Len(p) = 8
      /\ p[1] = a /\ p[2] = b /\ p[3] = c /\ p[4] = e
      /\ p[5] = f /\ p[6] = g /\ p[7] = h /\ p[8] = k
  OBVIOUS
<1> HIDE DEF p
<1> DEFINE s == p \o t
<1>2. AreJoined(S, p, t, s)
  BY <1>1, Joined
<1> HIDE DEF s
<1>3. /\ Len(s) = 14
      /\ s[1] = a /\ s[2] = b /\ s[3] = c /\ s[4] = e
      /\ s[5] = f /\ s[6] = g /\ s[7] = h /\ s[8] = k
      /\ \A i \in 1 .. 6 : s[8 + i] = t[i]
  BY <1>1, <1>2 DEF AreJoined
<1> QED BY <1>3 DEF s, p

TrackPath(track) == <<"track", track>>

IsGenerated(d, track) ==
  /\ Len(d) = 14
  /\ \A i \in 1 .. 14 : d[i].end = 2 /\ d[i].kind # "invalid"
  /\ d[9] = Line("m", MediaValue("video", "RTP", PayloadTypeOfTrack(track)), 2)
  /\ d[12] = Line("rtpmap", RtpmapValue(PayloadTypeOfTrack(track), "H264", 90000, 2), 2)
  /\ d[14] = Line("control", TrackPath(track), 2)
  /\ \A i \in 1 .. 14 : /\ d[i].kind = "m" <=> i = 9
                        /\ i > 9 => (d[i].kind = "rtpmap" <=> i = 12)
                        /\ i > 9 => (d[i].kind = "control" <=> i = 14)

LEMMA GeneratedIs ==
  ASSUME NEW name, NEW track \in 1 .. 2
  PROVE  IsGenerated(GenerateSDPDescription(name, track), track)
<1> DEFINE payload == PayloadTypeOfTrack(track)
           l1 == Line("other", "v=0", 2)
           l2 == Line("other", "o=", 2)
           l3 == Line("s", "description", 2)
           l4 == Line("i", name, 2)
           l5 == Line("other", "t=0 0", 2)
           l6 == Line("control", "*", 2)
           l7 == Line("other", "a=range", 2)
           l8 == Line("other", "a=x-qt-text-nam", 2)
           l9 == Line("m", MediaValue("video", "RTP", payload), 2)
           l10 == Line("c", "0.0.0.0", 2)
           l11 == Line("b", 500, 2)
           l12 == Line("rtpmap", RtpmapValue(payload, "H264", 90000, 2), 2)
           l13 == Line("other", "a=fmtp", 2)
           l14 == Line("control", TrackPath(track), 2)
           w == SubsessionLines(track)
           d == GenerateSDPDescription(name, track)
           S == {l1, l2, l3, l4, l5, l6, l7, l8, l9, l10, l11, l12, l13, l14}
<1>1. payload >= 96
  BY DEF PayloadTypeOfTrack
<1> HIDE DEF payload
<1>2. RtpmapLine(payload) = <<l12>>
  <2>1. RtpmapLine(payload) = IF payload >= 96 THEN <<l12>> ELSE <<>>
    BY DEF RtpmapLine
  <2> HIDE DEF l12
  <2> QED BY <1>1, <2>1
<1>3. w = <<l9, l10, l11>> \o <<l12>> \o <<l13, l14>>
  <2>1. w = <<l9, l10, l11>> \o RtpmapLine(payload) \o <<l13, l14>>
    BY Zenon DEF SubsessionLines, TrackPath, payload
  <2> HIDE DEF w, l9, l10, l11, l12, l13, l14
  <2> QED BY <1>2, <2>1, Zenon
<1>4. d = <<l1, l2, l3, l4, l5, l6, l7, l8>> \o w
  BY Zenon DEF GenerateSDPDescription
<1>5. /\ l1.end = 2 /\ l1.kind = "other" /\ l2.end = 2 /\ l2.kind = "other"
      /\ l3.end = 2 /\ l3.kind = "s" /\ l4.end = 2 /\ l4.kind = "i"
      /\ l5.end = 2 /\ l5.kind = "other" /\ l6.end = 2 /\ l6.kind = "control"
      /\ l7.end = 2 /\ l7.kind = "other" /\ l8.end = 2 /\ l8.kind = "other"
      /\ l9.end = 2 /\ l9.kind = "m" /\ l10.end = 2 /\ l10.kind = "c"
      /\ l11.end = 2 /\ l11.kind = "b" /\ l12.end = 2 /\ l12.kind = "rtpmap"
      /\ l13.end = 2 /\ l13.kind = "other" /\ l14.end = 2 /\ l14.kind = "control"
  BY DEF Line
<1>6. /\ l1 \in S /\ l2 \in S /\ l3 \in S /\ l4 \in S /\ l5 \in S /\ l6 \in S
      /\ l7 \in S /\ l8 \in S /\ l9 \in S /\ l10 \in S /\ l11 \in S /\ l12 \in S
      /\ l13 \in S /\ l14 \in S
  <2> HIDE DEF l1, l2, l3, l4, l5, l6, l7, l8, l9, l10, l11, l12, l13, l14
  <2> QED OBVIOUS
<1> HIDE DEF l1, l2, l3, l4, l5, l6, l7, l8, l9, l10, l11, l12, l13, l14, w, d, S
<1>7. /\ w \in Seq(S) /\ Len(w) = 6
      /\ w[1] = l9 /\ w[2] = l10 /\ w[3] = l11 /\ w[4] = l12 /\ w[5] = l13 /\ w[6] = l14
  BY <1>3, <1>6, SectionJoined
<1>8. /\ Len(d) = 14
      /\ d[1] = l1 /\ d[2] = l2 /\ d[3] = l3 /\ d[4] = l4
      /\ d[5] = l5 /\ d[6] = l6 /\ d[7] = l7 /\ d[8] = l8
      /\ \A i \in 1 .. 6 : d[8 + i] = w[i]
  BY <1>4, <1>6, <1>7, PrefixJoined
<1>9. /\ d[9] = l9 /\ d[10] = l10 /\ d[11] = l11
      /\ d[12] = l12 /\ d[13] = l13 /\ d[14] = l14
  BY <1>7, <1>8
<1>10. \A i \in 1 .. 14 : \/ i = 1 \/ i = 2 \/ i = 3 \/ i = 4 \/ i = 5 \/ i = 6 \/ i = 7
                          \/ i = 8 \/ i = 9 \/ i = 10 \/ i = 11 \/ i = 12 \/ i = 13 \/ i = 14
  OBVIOUS
<1>11. \A i \in 1 .. 14 : d[i].end = 2 /\ d[i].kind # "invalid"
  BY <1>5, <1>8, <1>9, <1>10
<1>12. \A i \in 1 .. 14 : /\ d[i].kind = "m" <=> i = 9
                          /\ i > 9 => (d[i].kind = "rtpmap" <=> i = 12)
                          /\ i > 9 => (d[i].kind = "control" <=> i = 14)
  BY <1>5, <1>8, <1>9, <1>10
<1> QED BY <1>8, <1>9, <1>11, <1>12 DEF d, l9, l12, l14, payload, IsGenerated

(* Where its section is, and what it says.                                 *)
Understood(m, track) ==
  /\ m.protocolName = "RTP" /\ m.codecName = "H264"
  /\ m.rtpPayloadFormat = PayloadTypeOfTrack(track)
  /\ m.rtpTimestampFrequency = 90000
  /\ m.controlPath = TrackPath(track)

Says(d, track) ==
  /\ d # <<>> /\ Written(d) /\ \A i \in 1 .. Len(d) : ValidLine(d[i])
  /\ \A m : Described(d, SectionEnd(d), m) => Understood(m, track)

LEMMA GeneratedSays ==
  ASSUME NEW track \in 1 .. 2, NEW d, IsGenerated(d, track)
  PROVE  Says(d, track)
<1> DEFINE payload == PayloadTypeOfTrack(track)
           map == RtpmapValue(payload, "H264", 90000, 2)
           path == TrackPath(track)
           head == MediaValue("video", "RTP", payload)
           none == RtpmapValue(0, "", 0, 2)
<1>1. /\ Len(d) = 14
      /\ \A i \in 1 .. 14 : d[i].end = 2 /\ d[i].kind # "invalid"
      /\ d[9] = Line("m", head, 2) /\ d[12] = Line("rtpmap", map, 2)
      /\ d[14] = Line("control", path, 2)
      /\ \A i \in 1 .. 14 : /\ d[i].kind = "m" <=> i = 9
                            /\ i > 9 => (d[i].kind = "rtpmap" <=> i = 12)
                            /\ i > 9 => (d[i].kind = "control" <=> i = 14)
  BY DEF IsGenerated
<1>2. payload \in 96 .. 97
  BY DEF PayloadTypeOfTrack
<1>3. d[9].value = head /\ d[12].value = map /\ d[14].value = path
  BY <1>1 DEF Line
<1>4. /\ head.protocol = "RTP" /\ head.payload = payload
      /\ map.codec = "H264" /\ map.frequency = 90000 /\ map.parts = 2 /\ map.payload = payload
  BY DEF MediaValue, RtpmapValue
<1> HIDE DEF payload, map, path, head, none
<1>5. d # <<>>
  <2>1. Len(d) = 14
    BY <1>1
  <2> QED BY ONLY <2>1
<1>6. Media(d) = {9}
  BY <1>1 DEF Media
<1>7. FirstMedia(d) = 9
  <2>1. \A i \in {9} : i = 9 /\ \A j \in {9} : i <= j
    OBVIOUS
  <2>2. (CHOOSE i \in {9} : \A j \in {9} : i <= j) = 9
    BY <2>1
  <2>3. Media(d) # {}
    BY <1>6
  <2> QED BY <1>6, <2>2, <2>3 DEF FirstMedia
<1>8. SectionEnd(d) = 14
  <2>1. {i \in Media(d) : i > FirstMedia(d)} = {}
    BY <1>6, <1>7
  <2> QED BY <1>1, <2>1 DEF SectionEnd
<1>9. Written(d)
  BY <1>1, <1>8 DEF Written
<1>10. ASSUME NEW i \in 1 .. Len(d) PROVE ValidLine(d[i])
  <2>1. d[i].end = 2 /\ d[i].kind # "invalid"
    BY <1>1
  <2> QED BY ONLY <2>1 DEF ValidLine
<1>11. /\ LinesTo(d, 14, "control") = {14} /\ LinesTo(d, 14, "rtpmap") = {12}
       /\ CodecsTo(d, 14) = {12} /\ ClocksTo(d, 14) = {12}
  <2>1. LinesTo(d, 14, "control") = {14}
    BY <1>1, <1>7 DEF LinesTo
  <2>2. LinesTo(d, 14, "rtpmap") = {12}
    BY <1>1, <1>7 DEF LinesTo
  <2>3. NamesCodec(d, 12) /\ d[12].value.frequency # Missing
    BY <1>3, <1>4 DEF NamesCodec, Missing
  <2> QED BY <2>1, <2>2, <2>3 DEF CodecsTo, ClocksTo
<1>12. ASSUME NEW k \in Nat, NEW default
       PROVE  LastSaid(d, {k}, default) = d[k].value
  <2>1. (CHOOSE i \in {k} : \A j \in {k} : j <= i) = k
    OBVIOUS
  <2> QED BY <2>1 DEF LastSaid
<1>13. Protocol(d) = "RTP"
  BY <1>2, <1>3, <1>4, <1>6, <1>7 DEF Protocol, Missing
<1>14. ASSUME NEW m, Described(d, 14, m)
       PROVE  /\ m.protocolName = "RTP" /\ m.codecName = "H264"
              /\ m.rtpPayloadFormat = payload
              /\ m.rtpTimestampFrequency = 90000
              /\ m.controlPath = path
  <2> DEFINE first == [payload |-> FirstPayload(d)]
             blank == ""
  <2>1. /\ m.protocolName = Protocol(d)
        /\ m.controlPath = LastSaid(d, {14}, blank)
        /\ m.rtpPayloadFormat = LastSaid(d, {12}, first).payload
        /\ m.codecName = LastSaid(d, {12}, none).codec
        /\ m.rtpTimestampFrequency = LastSaid(d, {12}, none).frequency
    BY <1>11, <1>14, Zenon DEF Described, none
  <2> HIDE DEF first, blank
  <2>2. LastSaid(d, {14}, blank) = path
    BY <1>3, <1>12
  <2>3. LastSaid(d, {12}, first) = map /\ LastSaid(d, {12}, none) = map
    BY <1>3, <1>12
  <2> QED BY <1>4, <1>13, <2>1, <2>2, <2>3
<1>15. ASSUME NEW m, Described(d, SectionEnd(d), m)
       PROVE  Understood(m, track)
  <2>1. Described(d, 14, m)
    BY <1>8, <1>15, Zenon
  <2>2. /\ m.protocolName = "RTP" /\ m.codecName = "H264" /\ m.rtpPayloadFormat = payload
        /\ m.rtpTimestampFrequency = 90000 /\ m.controlPath = path
    BY <1>14, <2>1
  <2> QED BY <2>2 DEF Understood, path, payload
<1> QED BY <1>5, <1>9, <1>10, <1>15, Zenon DEF Says

LEMMA SaidIsUnderstood ==
  ASSUME ReadInv, stage \in {"parsed", "refused"}, NEW track, Says(description, track)
  PROVE  stage = "parsed" /\ Understood(sub, track)
<1> DEFINE d == description
<1>1. IsDescription(d)
  BY DescriptionsAre DEF ReadInv
<1>2. d # <<>> /\ Written(d) /\ \A i \in 1 .. Len(d) : ValidLine(d[i])
  BY Zenon DEF Says
<1>3. InitWithSDP(d).at # "refused"
  <2>1. Read(d, Len(d), InitWithSDP(d))
    BY <1>1, <1>2, AllRead
  <2> QED BY <1>2, <2>1 DEF Read
<1>4. stage = "parsed"
  BY <1>3 DEF ReadInv
<1>5. PICK m : Described(d, SectionEnd(d), m) /\ sub = Completed(m)
  BY <1>2, <1>4, ParsedIs
<1>6. Understood(m, track)
  BY <1>5, Zenon DEF Says
<1>7. IsSub(m)
  BY <1>5 DEF Described
<1>8. m.codecName # "" /\ m.rtpTimestampFrequency # 0
  BY <1>6 DEF Understood
<1>9. /\ sub.protocolName = m.protocolName /\ sub.controlPath = m.controlPath
      /\ sub.rtpPayloadFormat = m.rtpPayloadFormat
      /\ sub.codecName = m.codecName
      /\ sub.rtpTimestampFrequency = m.rtpTimestampFrequency
  BY <1>5, <1>7, <1>8, Completes
<1>10. Understood(sub, track)
  BY <1>6, <1>9 DEF Understood
<1> QED BY <1>4, <1>10

LEMMA GeneratedIsUnderstood ==
  ASSUME ReadInv
  PROVE  DescribedIsUnderstood
<1>1. ASSUME stage \in {"parsed", "refused"}, NEW name, NEW track \in 1 .. 2,
             description = GenerateSDPDescription(name, track)
      PROVE  stage = "parsed" /\ Understood(sub, track)
  <2>1. Says(description, track)
    BY <1>1, GeneratedIs, GeneratedSays
  <2> QED BY <1>1, <2>1, SaidIsUnderstood, Zenon
<1> SUFFICES ASSUME stage \in {"parsed", "refused"},
                    NEW name \in StreamNames, NEW track \in 1 .. 2,
                    description = GenerateSDPDescription(name, track)
             PROVE  /\ stage = "parsed"
                    /\ sub.protocolName = "RTP"
                    /\ sub.codecName = "H264"
                    /\ sub.rtpPayloadFormat = PayloadTypeOfTrack(track)
                    /\ sub.rtpTimestampFrequency = 90000
                    /\ sub.controlPath = <<"track", track>>
  BY DEF DescribedIsUnderstood
<1>2. stage = "parsed" /\ Understood(sub, track)
  BY <1>1
<1> QED BY <1>2 DEF Understood, TrackPath

-----------------------------------------------------------------------------
LEMMA AlwaysRead == Spec => []ReadInv
  BY ReadInvStarts, ReadInvStays, PTL DEF Spec

(* However many lines of whatever kinds a description has, in whatever     *)
(* order, the client's session and subsession say what it says as a whole, *)
(* if CR LF ends its lines (initWithSDP and the parsers it calls).         *)
THEOREM ReadsWhatIsWritten == Spec => []ReadAsWritten
  BY AlwaysRead, ParsedAsWritten, PTL

(* The description of a stream that the server writes is not refused, and  *)
(* brings the codec, payload type, clock and track (GenerateSDPDescription *)
(* and setSDPLinesFromRTPSink against initWithSDP).                        *)
THEOREM UnderstandsWhatIsDescribed == Spec => []DescribedIsUnderstood
  BY AlwaysRead, GeneratedIsUnderstood, PTL
=============================================================================
