---------------------------- MODULE MCH264Framer ----------------------------
EXTENDS H264Framer

(* A start code, behind other bytes or not, and five pieces: start         *)
(* codes, bytes that could be part of one, an IDR slice (type 5), another  *)
(* slice (type 1) and a sequence parameter set (type 7).                   *)
Pieces == {<<0, 0, 0, 1>>, <<0, 0, 1>>, <<0>>, <<5>>, <<33>>, <<7>>}
WithStart ==
  {lead \o LongStartCode \o FlattenSeq(pieces) :
     lead \in {<<>>, <<7, 0>>}, pieces \in [1 .. 5 -> Pieces]}

(* Files without a long start code: empty, too short for one, the          *)
(* beginning of one, and with a short one.                                 *)
WithoutStart ==
  {<<>>, <<7>>, <<0, 0, 0>>, <<7, 0, 0, 0>>, <<7, 0, 0, 1, 33, 5>>}

MCFiles == WithStart \cup WithoutStart
=============================================================================
