---------------------------- MODULE SessionRegistry ----------------------------
(***************************************************************************)
(* What RTSPServer.clientSessions promises: a session is in the table for  *)
(* one uninterrupted span.  It enters when a SETUP creates it, it leaves   *)
(* once, and it never comes back, whoever removed it.  Entering may push   *)
(* one other session out: ids are drawn, looked up and stored in separate  *)
(* steps, so that two SETUPs may draw the same one.                        *)
(***************************************************************************)
CONSTANT Sessions

VARIABLE life

Init == life = [o \in Sessions |-> "fresh"]

Live(o) == life[o] = "registered"

(* A new session enters; if its id was in use, that session leaves.        *)
Enter ==
  \E o \in Sessions :
    /\ life[o] = "fresh"
    /\ \/ life' = [life EXCEPT ![o] = "registered"]
       \/ \E other \in Sessions :
            /\ Live(other)
            /\ life' = [life EXCEPT ![o] = "registered", ![other] = "gone"]

(* A session leaves for good.                                              *)
Leave ==
  \E o \in Sessions :
    /\ Live(o)
    /\ life' = [life EXCEPT ![o] = "gone"]

Next == Enter \/ Leave

Spec == Init /\ [][Next]_life

(* Every life is one of the three stages of a table entry.                 *)
TypeOK == life \in [Sessions -> {"fresh", "registered", "gone"}]
=============================================================================
