----------------------------- MODULE MediaSession -----------------------------
(***************************************************************************)
(* The client's media session (media_session.go): it reads the description *)
(* that DESCRIBE brought, line by line, and then initiates its subsession: *)
(* a pair of UDP ports and a source for the stream.  The ports are those   *)
(* of a machine on which servers and others look for ports as well.        *)
(*                                                                         *)
(* Of the sections that "m=" lines begin only the first is read: the loop  *)
(* over them ends in a break.  Without any such line the last line of the  *)
(* session is taken for one, and a subsession is made of nothing.          *)
(***************************************************************************)
EXTENDS Sdp, UdpPorts

CONSTANTS
  Descriptions, \* sequences of lines
  Ephemeral,    \* ports that the system gives for port 0
  Client,       \* the owner of the client's sockets
  MaxOdd        \* bound: how often the system gives it an odd port

ASSUME ClientAssumption ==
  /\ Ephemeral \subseteq Ports
  /\ Client \notin Streams /\ Client # Outsider /\ Client # Free
  /\ MaxOdd \in Nat
  /\ \A d \in Descriptions : /\ Len(d) \in Nat
                             /\ d # <<>> => Len(d) > 0
                             /\ \A i \in 1 .. Len(d) : IsLine(d[i])

VARIABLES
  description,  \* what DESCRIBE brought; forgotten when the session goes on
  stage,        \* how far the client is with its session
  session,      \* MediaSession: what its lines said
  sub,          \* its MediaSubsession
  rtp,          \* clientPortNum: the port of rtpSocket while it is open
  source,       \* readSource
  odd           \* how often the client was given an odd port

clientVars == <<description, stage, session, sub, rtp, source, odd>>
vars == <<clientVars, portVars>>

-----------------------------------------------------------------------------
(* initWithSDP, the lines of the session.                                  *)

NoSession == [sessionName |-> "", sessionDescription |-> "",
              connectionEndpointName |-> "", controlPath |-> ""]

SessionLine(s, line) ==
  CASE line.kind = "s"       -> [s EXCEPT !.sessionName = line.value]
    [] line.kind = "i"       -> [s EXCEPT !.sessionDescription = line.value]
    [] line.kind = "c"       -> [s EXCEPT !.connectionEndpointName = line.value]
    [] line.kind = "control" -> [s EXCEPT !.controlPath = line.value]
    [] OTHER                 -> s

(* The Sscanf formats: the payload type has to be the third item.          *)
NewMediaSubsession(line) ==
  LET isMedia == line.kind = "m"
      scanned == /\ isMedia /\ line.value.protocol \in {"RTP", "UDP"}
                 /\ line.value.payload # Missing
      payload == IF scanned THEN line.value.payload ELSE 0
  IN  [mediumName |-> IF isMedia THEN line.value.medium ELSE "",
       protocolName |-> IF scanned /\ payload <= 127
                        THEN line.value.protocol ELSE "",
       serverPortNum |-> IF isMedia THEN line.value.port ELSE 0,
       rtpPayloadFormat |-> payload, codecName |-> "",
       rtpTimestampFrequency |-> 0, bandWidth |-> 0,
       connectionEndpointName |-> "", controlPath |-> ""]

(* Mutant: all of an rtpmap or nothing.                                    *)
RtpmapWhole(m, value) ==
  IF value.parts # 2 \/ value.frequency = Missing THEN m
  ELSE [m EXCEPT !.rtpPayloadFormat = value.payload, !.codecName = value.codec,
                 !.rtpTimestampFrequency = value.frequency]

(* An rtpmap keeps what it has set when it turns out to be wrong; one      *)
(* without two fields, or without a number, sets nothing: kind "other".    *)
Rtpmap(m, value) ==
  [m EXCEPT !.rtpPayloadFormat = value.payload,
            !.codecName = IF value.parts = 2 THEN value.codec ELSE @,
            !.rtpTimestampFrequency =
              IF value.parts = 2 /\ value.frequency # Missing
              THEN value.frequency ELSE @]

MediaLine(m, line) ==
  CASE line.kind = "c"       -> [m EXCEPT !.connectionEndpointName = line.value]
    [] line.kind = "b"       -> IF line.value = Missing THEN m
                                ELSE [m EXCEPT !.bandWidth = line.value]
    [] line.kind = "rtpmap"  -> Rtpmap(m, line.value)
    [] line.kind = "control" -> [m EXCEPT !.controlPath = line.value]
    [] OTHER                 -> m

(* Codec and frequency, when no line gave them.                            *)
Completed(m) ==
  LET looked == LookupPayloadFormat(m.rtpPayloadFormat)
      known == IF m.codecName # "" THEN m
               ELSE [m EXCEPT !.codecName = looked[2],
                              !.rtpTimestampFrequency = looked[3]]
  IN  IF known.rtpTimestampFrequency # 0 THEN known
      ELSE [known EXCEPT !.rtpTimestampFrequency =
              GuessRTPTimestampFrequency(known.mediumName, known.codecName)]

-----------------------------------------------------------------------------
(* initWithSDP, from the first line on: where it is, in the session's      *)
(* lines, in the section, behind it, or stopped by a line that             *)
(* parseSDPLine refuses.                                                   *)

ReadLine(d, read, i) ==
  LET line == ThisLine(d[i])
  IN  CASE read.at \in {"refused", "behind"} -> read
        [] read.at \in {"session", "section"} /\ ~ValidLine(d[i]) ->
             [read EXCEPT !.at = "refused"]
        [] read.at = "session" /\ ValidLine(d[i]) ->
             IF line.kind = "m" \/ i = Len(d)
             THEN [read EXCEPT !.at = "section", !.sub = NewMediaSubsession(line)]
             ELSE [read EXCEPT !.session = SessionLine(@, line)]
        [] OTHER ->
             IF line.kind = "m" THEN [read EXCEPT !.at = "behind"]
             ELSE [read EXCEPT !.sub = MediaLine(@, line)]

NoSub == NewMediaSubsession(Line("other", "", 2))

InitWithSDP(d) ==
  LET start == [at |-> IF d = <<>> THEN "refused" ELSE "session",
                session |-> NoSession, sub |-> NoSub]
      \* "\in" makes TLC evaluate what was read once, not at every use.
      upTo[i \in 0 .. Len(d)] ==
        IF i = 0 THEN start
        ELSE CHOOSE next \in {ReadLine(d, read, i) : read \in {upTo[i - 1]}} : TRUE
  IN  upTo[Len(d)]

NewMediaSession ==
  /\ stage = "described"
  /\ LET read == InitWithSDP(description)
     IN  IF read.at = "refused"
         THEN stage' = "refused" /\ UNCHANGED <<session, sub>>
         ELSE /\ stage' = "parsed"
              /\ session' = read.session
              /\ sub' = Completed(read.sub)
  /\ UNCHANGED <<description, rtp, source, odd, portVars>>

-----------------------------------------------------------------------------
(* Initiate.  The address it binds is the machine's own, whatever the "c=" *)
(* lines said: ConnectionEndpointName overwrites it.                       *)

Parsed == UNCHANGED <<session, sub, search, taken>>

CodecUnspecified ==
  /\ stage = "parsed" /\ sub.codecName = ""
  /\ stage' = "no codec"
  /\ description' = <<>>
  /\ UNCHANGED <<rtp, source, odd, bound>> /\ Parsed

BindRtp ==
  /\ stage = "parsed" \/ stage = "bind"
  /\ sub.codecName # ""
  /\ description' = <<>>
  /\ \/ \E p \in Ephemeral : /\ CanBind(p) /\ Bind(p, Client)
                             /\ odd' = odd + (p % 2) /\ odd' <= MaxOdd
                             /\ rtp' = p /\ stage' = "bound"
     \/ /\ \A p \in Ephemeral : ~CanBind(p)
        /\ stage' = "no port" /\ UNCHANGED <<bound, rtp, odd>>
  /\ UNCHANGED source /\ Parsed

(* An odd port is given back, and the search goes on.                      *)
CloseOdd ==
  /\ stage = "bound" /\ rtp % 2 = 1
  /\ Close(rtp)
  /\ rtp' = None /\ stage' = "bind"
  /\ UNCHANGED <<description, source, odd>> /\ Parsed

(* Mutant: a failure leaves the RTP socket open.                           *)
BindRtcpLeaks ==
  /\ stage = "bound" /\ rtp % 2 = 0
  /\ IF CanBind(rtp + 1)
     THEN Bind(rtp + 1, Client) /\ stage' = "pair" /\ UNCHANGED rtp
     ELSE stage' = "no port" /\ rtp' = None /\ UNCHANGED bound
  /\ UNCHANGED <<description, source, odd>> /\ Parsed

BindRtcp ==
  /\ stage = "bound" /\ rtp % 2 = 0
  /\ IF CanBind(rtp + 1)
     THEN Bind(rtp + 1, Client) /\ stage' = "pair" /\ UNCHANGED rtp
     ELSE Close(rtp) /\ stage' = "no port" /\ rtp' = None
  /\ UNCHANGED <<description, source, odd>> /\ Parsed

(* The RTCP instance is started with the source, and without a source      *)
(* Initiate returns false with both of the sockets open.                   *)
CreateSourceObject ==
  /\ stage = "pair"
  /\ LET kind == CASE sub.protocolName = "UDP" -> "BasicUDPSource"
                   [] sub.protocolName # "UDP" /\ sub.codecName = "H264" ->
                        "H264VideoRTPSource"
                   [] OTHER -> "nil"
     IN  /\ source' = kind
         /\ stage' = IF kind = "nil" THEN "no source" ELSE "initiated"
  /\ UNCHANGED <<description, rtp, odd, bound>> /\ Parsed

-----------------------------------------------------------------------------
Init ==
  /\ description \in Descriptions
  /\ stage = "described"
  /\ session = NoSession
  /\ sub = NoSub
  /\ rtp = None
  /\ source = "nil"
  /\ odd = 0
  /\ PortsInit

Initiate ==
  CodecUnspecified \/ BindRtp \/ CloseOdd \/ BindRtcp \/ CreateSourceObject

ServerOnly == (\E s \in Streams : Server(s)) /\ UNCHANGED clientVars
OutsideOnly == Outside /\ UNCHANGED clientVars

Next == NewMediaSession \/ Initiate \/ ServerOnly \/ OutsideOnly

(* Every goroutine of the server runs on.                                  *)
Fairness == \A s \in Streams : WF_vars(Server(s) /\ UNCHANGED clientVars)

Spec == Init /\ [][Next]_vars /\ Fairness

-----------------------------------------------------------------------------
(* Every variable has the values that the code can give it.                *)
TypeOK ==
  /\ PortsTypeOK(Streams \cup {Client})
  /\ stage \in {"described", "refused", "parsed", "no codec", "bind",
                "bound", "pair", "no port", "no source", "initiated"}
  /\ rtp \in {None} \cup Ephemeral /\ odd \in 0 .. MaxOdd
  /\ source \in {"nil", "BasicUDPSource", "H264VideoRTPSource"}

-----------------------------------------------------------------------------
(* What a description says, read as a whole.                               *)

Media(d) == {i \in 1 .. Len(d) : d[i].kind = "m"}
FirstMedia(d) == IF Media(d) = {} THEN Len(d)
                 ELSE CHOOSE i \in Media(d) : \A j \in Media(d) : i <= j
SectionEnd(d) ==
  LET later == {i \in Media(d) : i > FirstMedia(d)}
  IN  IF later = {} THEN Len(d)
      ELSE (CHOOSE i \in later : \A j \in later : i <= j) - 1

(* The value of the last line of a kind among some lines.                  *)
LastSaid(d, lines, default) ==
  IF lines = {} THEN default
  ELSE d[CHOOSE i \in lines : \A j \in lines : j <= i].value

SaidBySession(d, kind) ==
  LastSaid(d, {i \in 1 .. FirstMedia(d) - 1 : d[i].kind = kind}, "")
SectionLines(d, kind) ==
  {i \in FirstMedia(d) + 1 .. SectionEnd(d) : d[i].kind = kind}

NamesCodec(d, i) == d[i].value.parts = 2
Codec(d) ==
  LET maps == {i \in SectionLines(d, "rtpmap") : NamesCodec(d, i)}
  IN  LastSaid(d, maps, RtpmapValue(0, "", 0, 2)).codec
MediaPayload(value) ==
  IF value.protocol = "other" \/ value.payload = Missing THEN 0 ELSE value.payload
Payload(d) ==
  LastSaid(d, SectionLines(d, "rtpmap"),
           [payload |-> IF Media(d) = {} THEN 0
                        ELSE MediaPayload(d[FirstMedia(d)].value)]).payload
Frequency(d) ==
  LET maps == {i \in SectionLines(d, "rtpmap") :
                 NamesCodec(d, i) /\ d[i].value.frequency # Missing}
  IN  LastSaid(d, maps, RtpmapValue(0, "", 0, 2)).frequency

Bandwidth(d) ==
  LastSaid(d, {i \in SectionLines(d, "b") : d[i].value # Missing}, 0)

(* A description whose lines end with CR LF, as RFC 4566 wants and this    *)
(* server writes them, is read as it is written: the last line of a kind   *)
(* counts, session lines before the first section and media lines within   *)
(* it, payload type, codec and frequency come from the rtpmap lines and    *)
(* what those leave out from the payload type and the medium               *)
(* (initWithSDP).                                                          *)
ReadAsWritten ==
  LET d == description
      medium == IF Media(d) = {} THEN "" ELSE d[FirstMedia(d)].value.medium
      looked == LookupPayloadFormat(Payload(d))
      codec == IF Codec(d) # "" THEN Codec(d) ELSE looked[2]
      frequency == IF Codec(d) # "" THEN Frequency(d) ELSE looked[3]
  IN  stage = "parsed" /\ (\A i \in 1 .. SectionEnd(d) : d[i].end = 2) =>
        /\ session.sessionName = SaidBySession(d, "s")
        /\ session.controlPath = SaidBySession(d, "control")
        /\ sub.controlPath = LastSaid(d, SectionLines(d, "control"), "")
        /\ sub.bandWidth = Bandwidth(d)
        /\ sub.rtpPayloadFormat = Payload(d)
        /\ sub.codecName = codec
        /\ sub.rtpTimestampFrequency =
             IF frequency # 0 THEN frequency
             ELSE GuessRTPTimestampFrequency(medium, codec)

(* Of the names of streams, that one is empty matters to the lines.        *)
StreamNames == {"a", ""}

(* What this server describes, the client understands: the codec that it   *)
(* has a source for, the payload type of the server's packets, the clock   *)
(* of their timestamps and the path of the track for SETUP.                *)
DescribedIsUnderstood ==
  stage \in {"parsed", "refused"} =>
    \A name \in StreamNames, track \in 1 .. 2 :
      description = GenerateSDPDescription(name, track) =>
        /\ stage = "parsed"
        /\ sub.protocolName = "RTP"
        /\ sub.codecName = "H264"
        /\ sub.rtpPayloadFormat = PayloadTypeOfTrack(track)
        /\ sub.rtpTimestampFrequency = 90000
        /\ sub.controlPath = <<"track", track>>

(* A subsession that was initiated has the pair of ports that its SETUP    *)
(* names, an even port and the next, and one that found no pair has left   *)
(* no socket open: Initiate closes what it has opened                      *)
(* (media_session.go:556-564).                                             *)
ClientOwnsItsPair ==
  /\ stage \in {"pair", "initiated"} =>
       /\ rtp % 2 = 0 /\ rtp + 1 \in Ports
       /\ {p \in Ports : bound[p] = Client} = {rtp, rtp + 1}
  /\ stage \in {"no port", "no codec", "refused"} =>
       \A p \in Ports : bound[p] # Client

(* Nobody is told a port that is not his: what a SETUP names and what its  *)
(* answer names are pairs that their owners hold, while all of them look   *)
(* for ports at the same time (Initiate and GetStreamParameters, which     *)
(* check no more than that NewGroupSock gave them a socket).               *)
PairsAreOwned == ClientOwnsItsPair /\ StreamOwnsItsPorts

(* A search for ports ends: SETUP is answered, although others take ports  *)
(* and every failed attempt at a pair costs the server a socket            *)
(* (on_demand_server_media_subsession.go:80-105).                          *)
SearchEnds ==
  \A s \in Streams : search[s].at = "rtp" ~> search[s].at = "found"
=============================================================================
