------------------------------ MODULE NalSource ------------------------------
(***************************************************************************)
(* What H264VideoStreamFramer promises to whoever asks it for frames: one  *)
(* NAL unit of the file after the other and then the end.  As the code has *)
(* it, units may be skipped once the reader stopped asking, and the last   *)
(* few of the file never come.                                             *)
(***************************************************************************)
EXTENDS Naturals, Sequences

CONSTANTS
  Units,     \* of each file, the sequence of its NAL units
  Lost       \* how many of them at most never come

VARIABLES
  file,
  next,      \* how many units were given or skipped
  given,     \* the unit in the reader's hand, or <<>>
  stopped,   \* whether the reader has ever stopped asking
  ended      \* whether it was told of the end

vars == <<file, next, given, stopped, ended>>

Init ==
  /\ file \in DOMAIN Units
  /\ next = 0 /\ given = <<>> /\ stopped = FALSE /\ ended = FALSE

Give ==
  /\ ~ended /\ next < Len(Units[file])
  /\ next' = next + 1
  /\ given' = Units[file][next']
  /\ UNCHANGED <<file, stopped, ended>>

Stop ==
  /\ ~stopped
  /\ stopped' = TRUE
  /\ UNCHANGED <<file, next, given, ended>>

Skip ==
  /\ stopped \/ ended
  /\ next' \in {next, next + 1}
  /\ given' = <<>>
  /\ UNCHANGED <<file, stopped, ended>>

End ==
  /\ ~ended /\ next + Lost >= Len(Units[file])
  /\ ended' = TRUE
  /\ UNCHANGED <<file, next, given, stopped>>

Next == Give \/ Stop \/ Skip \/ End

Spec == Init /\ [][Next]_vars
=============================================================================
