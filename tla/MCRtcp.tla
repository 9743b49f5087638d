-------------------------------- MODULE MCRtcp --------------------------------
EXTENDS Rtcp

Block(ssrc, number) == [ssrc |-> ssrc, number |-> number]
Sub(pos, pt, words, blocks) ==
  [pos |-> pos, version |-> 2, padding |-> 0, pt |-> pt, words |-> words,
   sender |-> 7, blocks |-> blocks]
Ours(n) == <<Block(1, n)>>

(* Receivers' reports, whole, too short, too long, padded, with a bad or a *)
(* missing second part, and a sender's report that is none.                *)
MCForeign ==
  {[size |-> 8, heads |-> {Sub(0, RR, 1, <<>>)}],
   [size |-> 32, heads |-> {Sub(0, RR, 7, Ours(5))}],
   [size |-> 32, heads |-> {Sub(0, RR, 7, <<Block(2, 5)>>)}],
   [size |-> 56, heads |-> {Sub(0, RR, 13, Ours(5) \o Ours(6))}],
   [size |-> 32, heads |-> {Sub(0, RR, 6, Ours(6)), Sub(28, BYE, 0, <<>>)}],
   [size |-> 40, heads |-> {Sub(0, RR, 7, Ours(6)), Sub(32, BYE, 2, <<>>)}],
   [size |-> 44, heads |-> {Sub(0, RR, 7, Ours(6)), Sub(32, SDES, 1, <<>>)}],
   [size |-> 40, heads |-> {Sub(0, RR, 7, Ours(5)), Sub(32, BYE, 1, <<>>)}],
   [size |-> 34, heads |-> {Sub(0, RR, 7, Ours(5))}],
   [size |-> 52, heads |-> {Sub(0, SR, 12, Ours(6))}],
   [size |-> 32, heads |-> {Sub(0, SR, 7, Ours(6))}],
   [size |-> 8, heads |-> {Sub(0, SR, 1, <<>>)}],
   [size |-> 8, heads |-> {Sub(0, BYE, 1, <<>>)}],
   [size |-> 8, heads |-> {[Sub(0, RR, 1, <<>>) EXCEPT !.padding = 1]}],
   [size |-> 16, heads |-> {Sub(0, RR, 1, <<>>),
                            [Sub(8, BYE, 1, <<>>) EXCEPT !.version = 3]}],
   [size |-> 2, heads |-> {}]}
=============================================================================
