---------------------------- MODULE MCMediaSession ----------------------------
EXTENDS MediaSession

MCEphemeral == 4 .. 7

(* Lines for the session and for a section, mixed, cut short and repeated. *)
SessionOnes ==
  {Line("s", "", 2), Line("s", "n", 1), Line("control", "*", 4),
   Line("c", "h", 2), Line("invalid", "", 2)}
MediaLines ==
  {Line("m", MediaValue("video", "RTP", 96), 2),
   Line("m", MediaValue("audio", "UDP", 33), 2),
   Line("m", MediaValue("audio", "other", 14), 1)}
SectionsLines ==
  {Line("rtpmap", RtpmapValue(96, "H264", 90000, 2), 2),
   Line("rtpmap", RtpmapValue(97, "H264", 90000, 2), 1),
   Line("rtpmap", RtpmapValue(97, "AAC", Missing, 2), 2),
   Line("rtpmap", RtpmapValue(11, "L16", 0, 3), 2),
   Line("control", "a", 2), Line("control", "b", 0), Line("b", 500, 2)}

Rtpmaps == {l \in SectionsLines : l.kind = "rtpmap"}
Sections == {<<>>} \cup {<<l>> : l \in SectionsLines}
            \cup {<<k, l>> : k \in Rtpmaps, l \in SectionsLines}
Written ==
  {<<>>} \cup {<<l>> : l \in SessionOnes} \cup {<<k, l>> : k, l \in SessionOnes}
Read == {<<m>> \o s : m \in MediaLines, s \in Sections}
Short == {r \in Read : Len(r) <= 2}

(* A section without a payload type, and a bandwidth without a number.     *)
Numberless ==
  {<<Line("m", MediaValue("audio", p, Missing), 2), Line("b", 500, 2),
     Line("b", Missing, 2)>> : p \in {"RTP", "UDP"}}

(* A description of either half, one with two sections, and the server's.  *)
MCDescriptions ==
  Written \cup Numberless
  \cup {<<Line("s", "n", 2)>> \o r : r \in Read}
  \cup {<<l, m>> : l \in SessionOnes, m \in MediaLines}
  \cup {r \o <<m, Line("control", "c", 2)>> : r \in Short, m \in MediaLines}
  \cup {GenerateSDPDescription(name, track) : name \in StreamNames, track \in 1 .. 2}
=============================================================================
