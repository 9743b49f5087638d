---------------------------- MODULE ReceptionStats ----------------------------
(***************************************************************************)
(* RTPReceptionStats of rtp_reception_stats_linux_amd64.go: what a         *)
(* receiver notes of the packets of one sender.  Kept are the numbers that *)
(* losses are computed from, extended by how often they wrapped around,    *)
(* and the time that timestamps are translated to.  Byte counts, gaps and  *)
(* jitter are left out.  Times are counted in ticks of the timestamp clock *)
(* from the first packet on; the code computes in float32.                 *)
(***************************************************************************)
EXTENDS SeqNum

CONSTANTS
  ExtMod,   \* the width of extended sequence numbers: 2^32
  TsMod     \* the width of RTP timestamps: 2^32

ASSUME StatsAssumption ==
  /\ ExtMod \in Nat /\ (ExtMod % SeqSpace) = 0 /\ ExtMod > 2 * SeqSpace
  /\ TsMod \in Nat /\ TsMod > 0

(* initSeqNum: the first cycle is 1, for numbers may turn up before it.    *)
NewStats(seq, ts) ==
  [base |-> SeqSpace + seq, highest |-> SeqSpace + seq, received |-> 0,
   syncTimestamp |-> ts, syncTime |-> 0]

(* The differences are of unsigned 32-bit numbers.                         *)
Low(s) == s.highest % SeqSpace
Cycle(s) == s.highest - Low(s)
Difference(s, seq) == (seq - Low(s)) % ExtMod

(* The packet was not an old packet received out of order.                 *)
Newer(s, seq) == SeqNumLT(Low(s), seq)

(* Mutant: a wrap of the 16 bits is not counted.                           *)
NewerExtendedSameCycle(s, seq) == Cycle(s) + seq

NewerExtended(s, seq) ==
  (IF Difference(s, seq) >= Half THEN (Cycle(s) + SeqSpace) % ExtMod
                                 ELSE Cycle(s)) + seq

OlderExtended(s, seq) ==
  (IF Difference(s, seq) >= Half THEN (Cycle(s) - SeqSpace) % ExtMod
                                 ELSE Cycle(s)) + seq

NoteNumber(s, seq) ==
  [s EXCEPT
     !.received = @ + 1,
     !.highest = IF Newer(s, seq) /\ NewerExtended(s, seq) > @
                 THEN NewerExtended(s, seq) ELSE @,
     !.base = IF ~Newer(s, seq) /\ s.received > 0 /\ OlderExtended(s, seq) < @
              THEN OlderExtended(s, seq) ELSE @]

(* The presentation time of the packet, from which the next one's follows. *)
NoteTimestamp(s, ts) ==
  [s EXCEPT !.syncTimestamp = ts,
            !.syncTime = @ + ((ts - s.syncTimestamp) % TsMod)]

NoteIncomingPacket(s, seq, ts) == NoteTimestamp(NoteNumber(s, seq), ts)
=============================================================================
