------------------------------- MODULE UdpPorts -------------------------------
(***************************************************************************)
(* The UDP ports of a machine as NewGroupSock and Close (groupsock.go)     *)
(* take and give them back, and the search for a pair of ports, or for one *)
(* port, that a server makes for every stream in GetStreamParameters       *)
(* (on_demand_server_media_subsession.go).                                 *)
(*                                                                         *)
(* A socket is taken by its owner: a stream, the client, or anything else  *)
(* on the machine.  A port that is not of this machine can not be taken:   *)
(* net.ResolveUDPAddr refuses it, and NewGroupSock returns nil as it does  *)
(* for a port in use.                                                      *)
(***************************************************************************)
EXTENDS Integers

CONSTANTS
  Streams,      \* streams that the server sets up, each by a goroutine
  RawStreams,   \* those of them that are raw UDP: clientRTCPPort = 0
  InitialPort,  \* initialPortNum
  LastPort,     \* the last port there is (65535)
  Outsider,     \* anything else that takes ports
  MaxTaken      \* bound: how often an outsider takes a port

Ports == InitialPort .. LastPort
Free == "free"
None == 0                          \* no port

ASSUME PortsAssumption ==
  /\ InitialPort \in Nat \ {0} /\ InitialPort % 2 = 0
  /\ LastPort \in Nat /\ InitialPort <= LastPort
  /\ RawStreams \subseteq Streams
  /\ Free \notin Streams /\ Outsider \notin Streams /\ Outsider # Free
  /\ MaxTaken \in Nat

VARIABLES
  bound,        \* who has which port
  search,       \* per stream: where its search is
  taken         \* how often an outsider took a port

portVars == <<bound, search, taken>>

-----------------------------------------------------------------------------
(* NewGroupSock(addr, port) gives the owner the port when that is free.    *)
CanBind(port) == port \in Ports /\ bound[port] = Free
Bind(port, owner) == bound' = [bound EXCEPT ![port] = owner]
Close(port) == bound' = [bound EXCEPT ![port] = Free]

-----------------------------------------------------------------------------
(* GetStreamParameters.  Ports beyond the last are all alike.              *)
Next2(port) == IF port + 2 <= LastPort + 2 THEN port + 2 ELSE port
Next1(port) == IF port + 1 <= LastPort + 1 THEN port + 1 ELSE port

(* Mutant: initialPortNum was not set.                                     *)
StartSearchUnset(s) ==
  /\ search[s].at = "idle"
  /\ search' = [search EXCEPT ![s] = [at |-> "rtp", port |-> 0]]
  /\ UNCHANGED <<bound, taken>>

StartSearch(s) ==
  /\ search[s].at = "idle"
  /\ search' = [search EXCEPT ![s] = [at |-> "rtp", port |-> InitialPort]]
  /\ UNCHANGED <<bound, taken>>

(* Raw UDP: any port will do.                                              *)
FindOne(s) ==
  /\ s \in RawStreams /\ search[s].at = "rtp"
  /\ IF CanBind(search[s].port)
     THEN /\ Bind(search[s].port, s)
          /\ search' = [search EXCEPT ![s].at = "found"]
     ELSE /\ search' = [search EXCEPT ![s].port = Next1(@)]
          /\ UNCHANGED bound
  /\ UNCHANGED taken

(* Mutant: a taken port is tried again.                                    *)
FindRtpHere(s) ==
  /\ s \notin RawStreams /\ search[s].at = "rtp"
  /\ CanBind(search[s].port)
  /\ Bind(search[s].port, s)
  /\ search' = [search EXCEPT ![s].at = "rtcp"]
  /\ UNCHANGED taken

FindRtp(s) ==
  /\ s \notin RawStreams /\ search[s].at = "rtp"
  /\ IF CanBind(search[s].port)
     THEN /\ Bind(search[s].port, s)
          /\ search' = [search EXCEPT ![s].at = "rtcp"]
     ELSE /\ search' = [search EXCEPT ![s].port = Next2(@)]
          /\ UNCHANGED bound
  /\ UNCHANGED taken

(* The RTP socket of a pair whose other port is taken stays open.          *)
FindRtcp(s) ==
  /\ search[s].at = "rtcp"
  /\ IF CanBind(search[s].port + 1)
     THEN /\ Bind(search[s].port + 1, s)
          /\ search' = [search EXCEPT ![s].at = "found"]
     ELSE /\ search' = [search EXCEPT ![s] = [at |-> "rtp", port |-> Next2(@.port)]]
          /\ UNCHANGED bound
  /\ UNCHANGED taken

-----------------------------------------------------------------------------
OutsiderTakes(port) ==
  /\ taken < MaxTaken /\ CanBind(port)
  /\ Bind(port, Outsider)
  /\ taken' = taken + 1
  /\ UNCHANGED search

OutsiderCloses(port) ==
  /\ bound[port] = Outsider
  /\ Close(port)
  /\ UNCHANGED <<search, taken>>

PortsInit ==
  /\ bound = [p \in Ports |-> Free]
  /\ search = [s \in Streams |-> [at |-> "idle", port |-> None]]
  /\ taken = 0

Server(s) == StartSearch(s) \/ FindOne(s) \/ FindRtp(s) \/ FindRtcp(s)
Outside == \E p \in Ports : OutsiderTakes(p) \/ OutsiderCloses(p)

-----------------------------------------------------------------------------
PortsTypeOK(owners) ==
  /\ bound \in [Ports -> owners \cup {Free, Outsider}]
  /\ search \in [Streams -> [at : {"idle", "rtp", "rtcp", "found"},
                             port : {None} \cup InitialPort .. LastPort + 2]]
  /\ taken \in 0 .. MaxTaken

(* The ports that a stream has found, which the answer to SETUP names, are *)
(* the stream's own: an even RTP port and the next one for RTCP            *)
(* (on_demand_server_media_subsession.go:89-105), or the port of raw UDP.  *)
StreamOwnsItsPorts ==
  \A s \in Streams :
    search[s].at = "found" =>
      /\ search[s].port \in Ports /\ bound[search[s].port] = s
      /\ s \notin RawStreams => /\ search[s].port % 2 = 0
                                /\ search[s].port + 1 \in Ports
                                /\ bound[search[s].port + 1] = s
=============================================================================
