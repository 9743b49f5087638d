------------------------------ MODULE StreamLife ------------------------------
(***************************************************************************)
(* What the RTSP server relies on about the streams of a subsession: a     *)
(* stream is set up once, waits, is started by a PLAY, and has its RTCP    *)
(* instance from then on.  This is the variable stream of RtspServer, kept *)
(* there because DeleteStream dereferences the instance.                   *)
(***************************************************************************)
CONSTANT Streams

VARIABLE life

Stages == {"nil", "ready", "starting", "rtcp"}

Init == life = [k \in Streams |-> "nil"]

Advance(from, to) ==
  \E k \in Streams : life[k] = from /\ life' = [life EXCEPT ![k] = to]

Next ==
  \/ Advance("nil", "ready")
  \/ Advance("ready", "starting")
  \/ Advance("starting", "rtcp")

Spec == Init /\ [][Next]_life
=============================================================================
