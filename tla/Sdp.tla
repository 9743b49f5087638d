--------------------------------- MODULE Sdp ---------------------------------
(***************************************************************************)
(* Session descriptions: what GenerateSDPDescription                       *)
(* (server_media_session.go) and setSDPLinesFromRTPSink                    *)
(* (on_demand_server_media_subsession.go) write, and what one line means   *)
(* to the client's parser (media_session.go).                              *)
(*                                                                         *)
(* A line is a record: its kind, its value and how many characters end it  *)
(* (2 for CR LF, 1 for LF alone, 4 for CR LF and an empty line, 0 for the  *)
(* end of the text).  Lines that no parser takes anything from are of the  *)
(* kind "other".  They include a=range, a=type and a=source-filter, whose  *)
(* formats fmt.Sscanf never matches (%f into a string, %[, %*s), and       *)
(* whatever follows a=fmtp in the chain of the media parsers, because      *)
(* parseSDPAttributeFmtp accepts every line.                               *)
(***************************************************************************)
EXTENDS Integers, Sequences

Missing == -1          \* a number that is not in the text, or is not one
Cut == "cut"           \* a text that has lost its last character

Line(kind, value, end) == [kind |-> kind, value |-> value, end |-> end]
MediaValue(medium, protocol, payload) ==
  [medium |-> medium, port |-> 0, protocol |-> protocol, payload |-> payload]
RtpmapValue(payload, codec, frequency, parts) ==
  [payload |-> payload, codec |-> codec, frequency |-> frequency,
   parts |-> parts]     \* how many parts there are around the slashes

-----------------------------------------------------------------------------
(* The lines there are.                                                    *)
IsLine(l) ==
  /\ l \in [kind : {l.kind}, value : {l.value}, end : {l.end}]
  /\ l.kind = "m" => l.value.protocol \in {"RTP", "UDP", "other"}

(* parseSDPLine takes off two characters of what ends the line, however    *)
(* many those are.                                                         *)

CutNumber(n) == IF n < 10 THEN Missing ELSE n \div 10

CutValue(line) ==
  CASE line.kind = "m"      -> [line.value EXCEPT !.payload = CutNumber(@)]
    [] line.kind = "b"      -> CutNumber(line.value)
    [] line.kind = "rtpmap" ->
         (CASE line.value.parts = 1 -> [line.value EXCEPT !.codec = Cut]
            [] line.value.parts = 2 -> [line.value EXCEPT !.frequency = CutNumber(@)]
            [] OTHER -> line.value)
    [] line.kind \in {"s", "i", "c", "control"} -> Cut
    [] OTHER -> line.value

(* Only a kind that keeps all of the text keeps what else ends the line.   *)
TailValue(line) ==
  IF line.kind \in {"s", "i", "control"} THEN <<line.value, "CRLF">>
  ELSE line.value

ThisLine(line) ==
  [line EXCEPT !.value = CASE line.end = 1 -> CutValue(line)
                           [] line.end > 2 -> TailValue(line)
                           [] OTHER -> line.value]

(* A line that nothing ends is empty to the parser, and one that has no    *)
(* more than "s=" is too short when it is cut.                             *)
ValidLine(line) ==
  /\ line.kind # "invalid"
  /\ line.end # 0
  /\ ~(line.end = 1 /\ line.kind \in {"s", "i"} /\ line.value = "")

-----------------------------------------------------------------------------
(* lookupPayloadFormat: codec name and frequency of a static payload type. *)

StaticTypes ==
  {<<0, "PCMU", 8000>>, <<2, "G726-32", 8000>>, <<3, "GSM", 8000>>,
   <<4, "G723", 8000>>, <<5, "DVI4", 8000>>, <<6, "DVI4", 16000>>,
   <<7, "LPC", 8000>>, <<8, "PCMA", 8000>>, <<9, "G722", 8000>>,
   <<10, "L16", 44100>>, <<11, "L16", 44100>>, <<12, "QCELP", 8000>>,
   <<14, "MPA", 90000>>, <<15, "G728", 8000>>, <<16, "DVI4", 11025>>,
   <<17, "DVI4", 22050>>, <<18, "G729", 8000>>, <<25, "CELB", 90000>>,
   <<26, "JPEG", 90000>>, <<28, "NV", 90000>>, <<31, "H261", 90000>>,
   <<32, "MPV", 90000>>, <<33, "MP2T", 90000>>, <<34, "H263", 90000>>}

LookupPayloadFormat(payload) ==
  LET known == {t \in StaticTypes : t[1] = payload}
  IN  IF known = {} THEN <<payload, "", 0>> ELSE CHOOSE t \in known : TRUE

GuessRTPTimestampFrequency(medium, codec) ==
  CASE codec = "L16" -> 44100
    [] codec \in {"MPA", "MPA-ROBUST", "X-MP3-DRAFT-00"} -> 90000
    [] OTHER -> (CASE medium = "video" -> 90000
                   [] medium = "text" -> 1000
                   [] OTHER -> 8000)

-----------------------------------------------------------------------------
(* What the server writes for a file of H.264 video.                       *)

PayloadTypeOfTrack(track) == 96 + track - 1

(* Mutant: not for the first dynamic payload type.                         *)
RtpmapLineAbove(payload) ==
  IF payload > 96
  THEN <<Line("rtpmap", RtpmapValue(payload, "H264", 90000, 2), 2)>> ELSE <<>>

RtpmapLine(payload) ==
  IF payload >= 96
  THEN <<Line("rtpmap", RtpmapValue(payload, "H264", 90000, 2), 2)>> ELSE <<>>

SubsessionLines(track) ==
  <<Line("m", MediaValue("video", "RTP", PayloadTypeOfTrack(track)), 2),
    Line("c", "0.0.0.0", 2), Line("b", 500, 2)>>
  \o RtpmapLine(PayloadTypeOfTrack(track))
  \o <<Line("other", "a=fmtp", 2), Line("control", <<"track", track>>, 2)>>

(* The prefix: v, o, s, i, t, a=tool, a=type, a=control:*, a=range and two *)
(* lines with the names again.                                             *)
GenerateSDPDescription(name, track) ==
  <<Line("other", "v=0", 2), Line("other", "o=", 2),
    Line("s", "description", 2), Line("i", name, 2),
    Line("other", "t=0 0", 2), Line("control", "*", 2),
    Line("other", "a=range", 2), Line("other", "a=x-qt-text-nam", 2)>>
  \o SubsessionLines(track)
=============================================================================
