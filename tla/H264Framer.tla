------------------------------ MODULE H264Framer ------------------------------
(***************************************************************************)
(* How a file becomes NAL units: ByteStreamFileSource reads it into a bank *)
(* of StreamParser, H264VideoStreamParser looks for start codes in it and  *)
(* copies what lies between them to whoever asked H264VideoStreamFramer    *)
(* for a frame.                                                            *)
(*                                                                         *)
(* A call of parse() that runs out of bytes reads the file, and the read   *)
(* itself continues with another call of parse(), down to the delivery of  *)
(* frames and the requests for the next ones.  Only when no more is asked  *)
(* for do the calls return, and then each goes on in its own way: most     *)
(* report an error that makes continueReadProcessing parse again (parse),  *)
(* those that read at the end of the file report EOF (quiet), and the one  *)
(* that wanted to look at the next slice header delivers what there is     *)
(* (slice).  callers are these calls, the innermost last.                  *)
(*                                                                         *)
(* A file is a sequence of bytes.  The first byte of a NAL unit holds its  *)
(* type; what slice headers say is left open.  The second bank is not      *)
(* shown: only what was copied into it is read, but for one stale byte     *)
(* that never gets anywhere.                                               *)
(***************************************************************************)
EXTENDS Naturals, Sequences, SequencesExt

CONSTANTS
  Files,        \* the files: sequences of bytes
  BankSize,     \* bankSize: 150000
  HeaderSize,   \* numNextSliceHeaderBytesToAnalyze: 12
  Limit,        \* numLimitBytes: the size of the reader's buffer
  MaxPauses     \* bound: how often the reader stops asking

ASSUME FramerAssumption ==
  /\ BankSize \in Nat /\ BankSize > 8
  /\ HeaderSize \in Nat /\ HeaderSize > 0
  /\ Limit \in Nat /\ MaxPauses \in Nat
  /\ \A f \in Files : f \in Seq(0 .. 255)

VARIABLES
  file,      \* the file
  read,      \* how many bytes of it were read
  parser,    \* the parser: its bank up to totNumValidBytes, curParserIndex,
             \* savedParserIndex, the bytes saved for the reader and how many
             \* of them count, haveSeenFirstStartCode, firstByteOfNALUnit if
             \* it was seen, haveSeenEOF
  callers,   \* the calls that wait for a read to return
  control,   \* what happens next
  closed,    \* whether the reader was told that the file has ended
  frame,     \* the frame in the reader's hand: its bytes, whether it was
             \* asked for, and pictureEndMarker
  sets,      \* lastSeenSPS and lastSeenPPS, by NAL unit type
  finished,  \* history: the NAL units parsed to their end
  pauses

vars == <<file, read, parser, callers, control, closed, frame, sets, finished, pauses>>

Controls ==
  {"idle",     \* the reader has no call in progress
   "parse",    \* in parse(), for the reader
   "again",    \* in parse(), though nobody asked
   "deliver",  \* the reader has got a frame and is free to ask for the next
   "return",   \* calls return, the innermost first
   "panic"}

NotSeen == 256
Stale == 257

-----------------------------------------------------------------------------
(* StreamParser.                                                           *)

Valid(p) == Len(p.bank)
Has(p, n) == p.idx + n <= Valid(p)
Next4(p) == SubSeq(p.bank, p.idx + 1, p.idx + 4)

(* Mutant: one byte more is marked as parsed.                              *)
SetParseStateBeyond(p) == [p EXCEPT !.savedIdx = p.idx + 1, !.savedOut = Len(p.out)]

SetParseState(p) == [p EXCEPT !.savedIdx = p.idx, !.savedOut = Len(p.out)]
Restore(p) == [p EXCEPT !.idx = p.savedIdx, !.out = SubSeq(@, 1, p.savedOut)]

(* The bytes not yet parsed move to the start of the other bank, the code  *)
(* takes as many from the start of this one.                               *)
SwitchBank(p) ==
  [p EXCEPT !.bank = SubSeq(@, 1, Valid(p) - p.savedIdx),
            !.idx = @ - p.savedIdx, !.savedIdx = 0]

(* Mutant: the reader is not told of the end.                              *)
EnsureValidBytesUntold(p0, n, how) ==
  LET p == IF p0.idx + n > BankSize THEN SwitchBank(p0) ELSE p0
      room == BankSize - Valid(p)
      more == IF Len(file) - read < room THEN Len(file) - read ELSE room
  IN  \/ /\ p.idx + n > BankSize
         /\ control' = "panic"
         /\ UNCHANGED <<read, parser, callers, closed>>
      \/ /\ p.idx + n <= BankSize /\ more > 0
         /\ parser' = Restore([p EXCEPT
              !.bank = @ \o SubSeq(file, read + 1, read + more)])
         /\ read' = read + more
         /\ callers' = Append(callers, how)
         /\ UNCHANGED <<control, closed>>
      \/ /\ p.idx + n <= BankSize /\ more = 0 /\ ~p.eof
         /\ parser' = Restore([p EXCEPT !.eof = TRUE])
         /\ callers' = Append(callers, IF how = "parse" THEN "quiet" ELSE how)
         /\ UNCHANGED <<read, control, closed>>
      \/ /\ p.idx + n <= BankSize /\ more = 0 /\ p.eof
         /\ parser' = p
         /\ control' = IF p.first THEN "return" ELSE "again"
         /\ UNCHANGED closed
         /\ UNCHANGED <<read, callers>>

(* ensureValidBytes1.  The caller will go on as how says.  At the first    *)
(* end of the file the source closes it, so that the next read fails with  *)
(* another error than EOF: behind a start code parse() does not look at    *)
(* it, before one it returns it and is called again.                       *)
EnsureValidBytes(p0, n, how) ==
  LET p == IF p0.idx + n > BankSize THEN SwitchBank(p0) ELSE p0
      room == BankSize - Valid(p)
      more == IF Len(file) - read < room THEN Len(file) - read ELSE room
  IN  \/ /\ p.idx + n > BankSize
         /\ control' = "panic"
         /\ UNCHANGED <<read, parser, callers, closed>>
      \/ /\ p.idx + n <= BankSize /\ more > 0
         /\ parser' = Restore([p EXCEPT
              !.bank = @ \o SubSeq(file, read + 1, read + more)])
         /\ read' = read + more
         /\ callers' = Append(callers, how)
         /\ UNCHANGED <<control, closed>>
      \/ /\ p.idx + n <= BankSize /\ more = 0 /\ ~p.eof
         /\ parser' = Restore([p EXCEPT !.eof = TRUE])
         /\ callers' = Append(callers, IF how = "parse" THEN "quiet" ELSE how)
         /\ UNCHANGED <<read, control, closed>>
      \/ /\ p.idx + n <= BankSize /\ more = 0 /\ p.eof
         /\ parser' = p
         /\ control' = IF p.first THEN "return" ELSE "again"
         /\ closed' = TRUE
         /\ UNCHANGED <<read, callers>>

-----------------------------------------------------------------------------
(* H264VideoStreamParser.                                                  *)

(* saveByte and save4Bytes: all of the bytes or none.                      *)
Save(p, bytes) ==
  IF Len(p.out) + Len(bytes) > Limit THEN p ELSE [p EXCEPT !.out = @ \o bytes]

LongStartCode == <<0, 0, 0, 1>>
ShortStartCode == <<0, 0, 1>>
StartCode(four) == four = LongStartCode \/ SubSeq(four, 1, 3) = ShortStartCode

TypeOf(byte) == byte % 32
RefIdc(byte) == (byte \div 32) % 4
IsVCL(type) == type \in 1 .. 5
HasSliceHeader(type) == type \in {1, 2, 5}

(* Mutant: what is no slice ends no picture.                               *)
EndsAccessUnitSlices(this, next, differ) ==
  /\ IsVCL(TypeOf(next))
  /\ \/ (TypeOf(next) = 5) # (TypeOf(this) = 5)
     \/ RefIdc(next) # RefIdc(this) /\ 0 \in {RefIdc(next), RefIdc(this)}
     \/ HasSliceHeader(TypeOf(this)) /\ HasSliceHeader(TypeOf(next)) /\ differ

(* Whether the unit that begins with byte this is the last of its picture, *)
(* for the unit that begins with byte next follows; differ is what the     *)
(* comparison of their slice headers says.                                 *)
EndsAccessUnit(this, next, differ) ==
  \/ TypeOf(next) >= 6
  \/ (TypeOf(next) = 5) # (TypeOf(this) = 5)
  \/ RefIdc(next) # RefIdc(this) /\ 0 \in {RefIdc(next), RefIdc(this)}
  \/ HasSliceHeader(TypeOf(this)) /\ HasSliceHeader(TypeOf(next)) /\ differ

ComparesSlices(this, next) ==
  /\ HasSliceHeader(TypeOf(this)) /\ HasSliceHeader(TypeOf(next))
  /\ ~EndsAccessUnit(this, next, FALSE)

Parsing == control \in {"parse", "again"}

(* Before the first start code.                                            *)
FindStart ==
  /\ Parsing /\ ~parser.first
  /\ UNCHANGED <<file, frame, sets, finished, pauses>>
  /\ \/ ~Has(parser, 4) /\ EnsureValidBytes(parser, 4, "parse")
     \/ /\ Has(parser, 4)
        /\ parser' = IF Next4(parser) = LongStartCode
                     THEN [parser EXCEPT !.idx = @ + 4, !.first = TRUE]
                     ELSE SetParseState([parser EXCEPT !.idx = @ + 1])
        /\ UNCHANGED <<read, callers, control, closed>>

(* Mutant: the byte that was looked at last.                               *)
HeaderSeenLast(p) == [p EXCEPT !.header = Next4(p)[1]]

(* The first byte of the unit is the first that is looked at since the     *)
(* last unit was finished, wherever that was.                              *)
HeaderSeen(p) ==
  IF p.header = NotSeen THEN [p EXCEPT !.header = Next4(p)[1]] ELSE p

InUnit == Parsing /\ parser.first /\ ~parser.eof

(* Mutant: a start code can begin with a one.                              *)
SaveSizeAny(four) == IF four[4] > 0 THEN 4 ELSE 1

(* Four bytes if no start code can begin in them, or one.                  *)
SaveSize(four) == IF four[4] > 1 THEN 4 ELSE 1

(* Inside a unit.                                                          *)
SaveBytes ==
  /\ InUnit
  /\ UNCHANGED <<file, frame, sets, finished, pauses>>
  /\ \/ ~Has(parser, 4) /\ EnsureValidBytes(parser, 4, "parse")
     \/ /\ Has(parser, 4) /\ ~StartCode(Next4(parser))
        /\ LET four == Next4(parser)
               n == SaveSize(four)
           IN  parser' = SetParseState([Save(HeaderSeen(parser), SubSeq(four, 1, n))
                                        EXCEPT !.idx = @ + n])
        /\ UNCHANGED <<read, callers, control, closed>>

Deliver(p, ends) ==
  /\ frame' = [bytes |-> p.out, asked |-> control = "parse",
               marker |-> frame.marker \/ ends]
  /\ parser' = SetParseState(p)
  /\ control' = "deliver"

(* At the start code behind a unit.                                        *)
FinishUnit ==
  LET four == Next4(parser)
      this == HeaderSeen(parser).header
      p == [parser EXCEPT !.idx = @ + (IF four = LongStartCode THEN 4 ELSE 3),
                          !.header = NotSeen]
      next == p.bank[p.idx + 1]
  IN  /\ InUnit /\ Has(parser, 4) /\ StartCode(four)
      /\ sets' = IF TypeOf(this) \in DOMAIN sets
                 THEN [sets EXCEPT ![TypeOf(this)] = p.out] ELSE sets
      /\ \/ /\ ~IsVCL(TypeOf(this))
            /\ Deliver(p, FALSE)
            /\ finished' = finished + 1
            /\ UNCHANGED <<read, callers, closed>>
         \/ /\ IsVCL(TypeOf(this)) /\ ~Has(p, 1)
            /\ EnsureValidBytes(p, 1, "parse")
            /\ UNCHANGED <<frame, finished>>
         \/ /\ IsVCL(TypeOf(this)) /\ Has(p, 1)
            /\ ComparesSlices(this, next) => Has(p, HeaderSize)
            /\ \E differ \in BOOLEAN : Deliver(p, EndsAccessUnit(this, next, differ))
            /\ finished' = finished + 1
            /\ UNCHANGED <<read, callers, closed>>
         \/ /\ IsVCL(TypeOf(this)) /\ Has(p, 1)
            /\ ComparesSlices(this, next) /\ ~Has(p, HeaderSize)
            /\ EnsureValidBytes(p, HeaderSize, "slice")
            /\ UNCHANGED <<frame, finished>>
      /\ UNCHANGED <<file, pauses>>

(* After the end of the file: what is left is saved, each byte after one   *)
(* that it should have been, and the read that follows closes the source.  *)
SaveRemaining ==
  LET left == Valid(parser) - parser.idx
      bytes == SubSeq(parser.bank, parser.idx + 2, Valid(parser)) \o <<Stale>>
      p == IF left = 0 THEN parser
           ELSE [parser EXCEPT
                   !.out = SubSeq(@ \o bytes, 1, IF Len(@) + left > Limit
                                                 THEN Limit ELSE Len(@) + left),
                   !.header = IF @ = NotSeen THEN bytes[1] ELSE @,
                   !.idx = Valid(parser)]
  IN  /\ Parsing /\ parser.first /\ parser.eof
      /\ EnsureValidBytes(p, 1, "parse")
      /\ UNCHANGED <<file, frame, sets, finished, pauses>>

-----------------------------------------------------------------------------
(* The reader and the callers.                                             *)

(* GetNextFrame of the framer: the reader's buffer is empty.               *)
Request ==
  /\ control \in {"idle", "deliver"} /\ ~closed
  /\ control' = "parse"
  /\ parser' = [parser EXCEPT !.out = <<>>, !.savedOut = 0]
  /\ frame' = [frame EXCEPT !.marker = FALSE]
  /\ UNCHANGED <<file, read, callers, closed, sets, finished, pauses>>

(* The reader has had its frame and does not ask for another: it was told  *)
(* to pause, or the frame came unasked.                                    *)
StopAsking ==
  /\ control = "deliver"
  /\ IF frame.asked THEN pauses < MaxPauses /\ pauses' = pauses + 1
                    ELSE UNCHANGED pauses
  /\ control' = "return"
  /\ UNCHANGED <<file, read, parser, callers, closed, frame, sets, finished>>

Return ==
  /\ control = "return"
  /\ \/ /\ callers = <<>>
        /\ control' = "idle"
        /\ UNCHANGED <<parser, callers, frame>>
     \/ /\ callers # <<>> /\ Last(callers) = "slice"
        /\ \E differ \in BOOLEAN : Deliver(parser, differ)
        /\ callers' = Front(callers)
     \/ /\ callers # <<>> /\ Last(callers) # "slice"
        /\ control' = IF Last(callers) = "parse" THEN "again" ELSE "return"
        /\ callers' = Front(callers)
        /\ UNCHANGED <<parser, frame>>
  /\ UNCHANGED <<file, read, closed, sets, finished, pauses>>

Init ==
  /\ file \in Files
  /\ read = 0
  /\ parser = [bank |-> <<>>, idx |-> 0, savedIdx |-> 0, out |-> <<>>,
               savedOut |-> 0, first |-> FALSE, header |-> NotSeen, eof |-> FALSE]
  /\ callers = <<>>
  /\ control = "idle"
  /\ closed = FALSE
  /\ frame = [bytes |-> <<>>, asked |-> FALSE, marker |-> FALSE]
  /\ sets = [type \in {7, 8} |-> <<>>]
  /\ finished = 0
  /\ pauses = 0

Parse == FindStart \/ SaveBytes \/ FinishUnit \/ SaveRemaining

Next == Parse \/ Request \/ StopAsking \/ Return

(* All of it is one goroutine, which waits for nothing but the time the    *)
(* next packet is due; the reader asks again when it may.                  *)
Spec == Init /\ [][Next]_vars /\ WF_vars(Parse \/ Request \/ Return)
             /\ WF_vars(closed /\ StopAsking)

-----------------------------------------------------------------------------
(* The NAL units of a file, what lies behind each start code up to the     *)
(* next one; a code is looked for four bytes at a time, so that one needs  *)
(* a byte behind it, and the last unit ends with the file.                 *)
CodesAt(f) == {i \in 1 .. Len(f) - 3 : StartCode(SubSeq(f, i, i + 3))}
CodeSize(f, i) == IF SubSeq(f, i, i + 3) = LongStartCode THEN 4 ELSE 3
First(S) == CHOOSE i \in S : \A j \in S : i <= j

UnitsFrom(f) ==
  LET codes == CodesAt(f)
      units[i \in 1 .. Len(f) + 1] ==
        LET later == {c \in codes : c >= i}
        IN  IF later = {} THEN <<SubSeq(f, i, Len(f))>>
            ELSE LET c == First(later)
                 IN  <<SubSeq(f, i, c - 1)>> \o units[c + CodeSize(f, c)]
  IN  units

Units ==
  [f \in Files |->
     LET starts == {i \in CodesAt(f) : SubSeq(f, i, i + 3) = LongStartCode}
     IN  IF starts = {} THEN <<>> ELSE UnitsFrom(f)[First(starts) + 4]]

(* The types of the parser's state.                                        *)
TypeOK ==
  /\ control \in Controls
  /\ read \in 0 .. Len(file)
  /\ parser.savedIdx <= parser.idx /\ parser.idx <= Len(parser.bank)
  /\ Len(parser.bank) <= BankSize
  /\ parser.savedOut <= Len(parser.out) /\ Len(parser.out) <= Limit
  /\ callers \in Seq({"parse", "quiet", "slice"})
  /\ finished \in 0 .. Len(Units[file])

(* What the reader never gets of a file: the unit in which the parser runs *)
(* out of bytes and, where that was when it looked at the next slice, this *)
(* and the units that begin in what should have been its header.           *)
LostAtEnd == 1 + (IF HeaderSize < 6 THEN 1 ELSE HeaderSize \div 3)

(* The reader gets the NAL units of the file, each once, whole, in their   *)
(* order and without a start code, until it is told of the end.  (NAL      *)
(* units that are parsed for nobody are missing after a pause.)            *)
Promise == INSTANCE NalSource WITH
  Lost <- LostAtEnd,
  next <- finished,
  given <- IF frame.asked THEN frame.bytes ELSE <<>>,
  stopped <- pauses > 0,
  ended <- closed

GivesTheUnits == Promise!Spec

(* What AuxSDPLine describes the stream with is the latest parameter sets  *)
(* of the file, whole.  (One parsed for nobody is kept with what was saved *)
(* before it.)                                                             *)
SetsAreUnits ==
  pauses = 0 => \A type \in DOMAIN sets :
    LET ofType == {k \in 1 .. finished : /\ Units[file][k] # <<>>
                                         /\ TypeOf(Units[file][k][1]) = type}
    IN  sets[type] = IF ofType = {} THEN <<>>
                     ELSE Units[file][CHOOSE k \in ofType : \A l \in ofType : l <= k]

(* A slice that another kind of NAL unit follows ends its picture, however *)
(* the parser came to know: the receiver is told by the marker bit.        *)
PicturesEnd ==
  control = "deliver" /\ frame.asked /\ finished < Len(Units[file]) =>
    LET this == Units[file][finished]
        next == Units[file][finished + 1]
    IN  this # <<>> /\ next # <<>> /\ IsVCL(TypeOf(this[1])) /\ TypeOf(next[1]) > 5
          => frame.marker

(* Every file comes to its end, whether the stream is paused or not, and   *)
(* the end is told to the reader: the recursion does not run out of bytes  *)
(* unnoticed.  In a file with a long start code all the calls return as    *)
(* well.  (In a file without one continueReadProcessing calls parse() for  *)
(* ever, that is, until Go's stack is full and the process ends.)          *)
HasStart(f) == \E i \in 1 .. Len(f) - 3 : SubSeq(f, i, i + 3) = LongStartCode

Ends ==
  /\ <>closed
  /\ HasStart(file) => <>(closed /\ control = "idle")

(* "Assert: next4Bytes starts with 0x00000001 or 0x000001, and we've saved *)
(* all previous bytes (forming a complete NAL unit)."                      *)
SavedAllPreviousBytes ==
  control = "deliver" /\ frame.asked =>
    finished <= Len(Units[file]) /\ frame.bytes = Units[file][finished]
=============================================================================
