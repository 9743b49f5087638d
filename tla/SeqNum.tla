-------------------------------- MODULE SeqNum --------------------------------
(***************************************************************************)
(* RTP sequence numbers (livemedia/utils.go) and the bytes of a packet     *)
(* that the sender and the receiver both look into.                        *)
(*                                                                         *)
(* A buffer is a function to cells.  A cell is a 32-bit word of the RTP    *)
(* header or one byte of payload, so that sizes are counted in cells, and  *)
(* it is a tuple whose first component says what it holds:                 *)
(*   <<"hdr", pt, seq, marker>>, <<"ts", t, 0, 0>>, <<"ssrc", s, 0, 0>>    *)
(*   <<"nal", nri, type, 0>>   the first byte of a NAL unit, or with the   *)
(*                             type 28 the indicator of a FU-A fragment    *)
(*   <<"fu", s, e, type>>      the header of a FU-A fragment, bits S and E *)
(*   <<"data", k, j, 0>>       byte j of NAL unit k                        *)
(***************************************************************************)
EXTENDS Integers

CONSTANT SeqSpace   \* how many sequence numbers there are: 2^16

ASSUME SeqSpaceAssumption == SeqSpace \in Nat /\ SeqSpace > 2 /\ (SeqSpace % 2) = 0

Half == SeqSpace \div 2

(* A "less than" on sequence numbers.                                      *)
SeqNumLT(s1, s2) ==
  \/ s2 > s1 /\ s2 - s1 < Half
  \/ s2 < s1 /\ s2 - s1 < -Half

Hdr(pt, seq, marker) == <<"hdr", pt, seq, marker>>
Ts(t) == <<"ts", t, 0, 0>>
Ssrc(s) == <<"ssrc", s, 0, 0>>
Nal(nri, type) == <<"nal", nri, type, 0>>
Fu(s, e, type) == <<"fu", s, e, type>>
Data(k, j) == <<"data", k, j, 0>>
Zero == <<"zero", 0, 0, 0>>

FuA == 28

(* The low five bits of a byte; those of the first byte of an RTP header   *)
(* are 0, and those of data are not looked at.                             *)
TypeOf(cell) == CASE cell[1] = "nal" -> cell[3]
                  [] cell[1] = "fu"  -> cell[4]
                  [] OTHER           -> 0

(* b[i:j] of a Go slice, as a sequence.                                    *)
Slice(b, i, j) == [k \in 1 .. (j - i) |-> b[i + k - 1]]

(* copy(b[i:i+n], s): as much of s as there is and b has room for.         *)
Copy(b, i, s, n) ==
  [k \in DOMAIN b |->
     IF k \in i .. (i + n - 1) /\ k - i + 1 \in DOMAIN s THEN s[k - i + 1]
     ELSE b[k]]
=============================================================================
