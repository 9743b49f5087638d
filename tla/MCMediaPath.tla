----------------------------- MODULE MCMediaPath -----------------------------
EXTENDS MediaPath

(* More datagrams of the other server, which is what tests the receiver.   *)
MCArrivals == [p \in {"dorsvr", "other"} |-> IF p = "other" THEN 5 ELSE 2]

(* None, for what is about the sender alone.                               *)
MCNoArrivals == [p \in {"dorsvr", "other"} |-> 0]
=============================================================================
