--------------------------- MODULE GraphicsDecoder ---------------------------
(***************************************************************************)
(* The 5292 graphics decoder: what a record of graphics orders does to the *)
(* decoder, what is answered to the host, and orders whose data the host   *)
(* spreads over several records.                                           *)
(*                                                                         *)
(* A byte is one of the names below, after its code. Of the bytes that     *)
(* carry data, "in" is a legal value anywhere, "edge" a coordinate too     *)
(* close to the border for a marker, "out" one that is too large where a   *)
(* coordinate or an index is meant. What a block draws is the sequence of  *)
(* its drawing orders, with the colour they had.                           *)
(***************************************************************************)
EXTENDS Naturals, Sequences, FiniteSets, SequencesExt

CONSTANTS
  Items,        \* sequences of bytes that blocks are made of
  MaxItems,     \* items in a block
  MaxPending,   \* data bytes waiting for the end of an order
  MaxFillEdges  \* edges of a polygon that can be filled

VARIABLES
  decoder,
  before,  \* the decoder before the block the host waits for
  block,   \* that block, or none
  result   \* what came of it

graphicsVars == <<decoder, before, block, result>>

Begin == "FF"  More == "91"  EndOfData == "92"

DataBytes == {"in", "edge", "out"}

(* Orders of a fixed length, and those that End of Data ends.              *)
FixedLength == [o \in {"80", "B0", "B1", "B2", "B3", "B5", "B6", "B7", "A3", "C4"} |->
                  CASE o = "B1" -> 4 [] o \in {"80", "B7"} -> 2 [] OTHER -> 1]
Variable == {"A0", "A1", "A4", "A5", "A6", "B4", "C0", "C2", "C3"}

Reset ==
  [graphics |-> FALSE, display |-> FALSE, pending |-> "none", data |-> << >>,
   colour |-> "white", attributes |-> << >>, code |-> "none"]

NoResult == [handled |-> FALSE, error |-> "none", at |-> 0, completion |-> "None",
             suppressed |-> FALSE, reads |-> << >>, drawn |-> << >>, copy |-> FALSE]

(***************************************************************************)
(* While a block is processed: the decoder d, the result r, the position   *)
(* of the next byte of the size there are, a fixed order that is being     *)
(* read, whether the rest is left, whether more data is to come.           *)
(***************************************************************************)
Error(s, code, at) == [s EXCEPT !.d.code = code, !.r.error = code, !.r.at = at]

fail(s, code, at) ==
  [Error(s, code, at) EXCEPT
     !.r.completion = IF s.r.suppressed THEN "None" ELSE "FatalError",
     !.d.graphics = FALSE, !.d.pending = "none", !.d.data = << >>,
     !.done = TRUE, !.fatal = TRUE]

noteRecoverable(s, code, at) == Error(s, code, at)

Draw(s, kind) == [s EXCEPT !.r.drawn = Append(@, <<kind, s.d.colour>>)]

Points(data) == Len(data) \div 4
Every(data, step) == {data[i] : i \in {j \in 1 .. Len(data) : j % step = 1}}

decodePoints(s, least) ==
  /\ Len(s.d.data) % 4 = 0 /\ Points(s.d.data) >= least
  /\ "out" \notin Range(s.d.data)

drawPolyline(s) ==
  IF decodePoints(s, 2) THEN Draw(s, "A0") ELSE fail(s, "G1", Len(s.d.data))

drawScanline(s) ==
  IF Len(s.d.data) >= 5 /\ "out" \notin Range(SubSeq(s.d.data, 1, 4))
  THEN Draw(s, "A1") ELSE fail(s, "G1", s.at)

(* Markers that fit are drawn, others are skipped.                         *)
drawPolymarker(s) ==
  LET fit == \E p \in 1 .. Points(s.d.data) : "edge" \notin Range(SubSeq(s.d.data, 4 * p - 3, 4 * p))
      t   == IF "edge" \in Range(s.d.data) THEN noteRecoverable(s, "G5", s.at) ELSE s IN
  IF ~decodePoints(s, 1) THEN fail(s, "G1", s.at)
  ELSE IF fit THEN Draw(t, "A4") ELSE t

(* Every edge counts, as if none were horizontal.                          *)
fillPolygon(s) ==
  IF ~decodePoints(s, 3) THEN fail(s, "G1", s.at)
  ELSE IF Points(s.d.data) > MaxFillEdges THEN fail(s, "G4", s.at)
  ELSE Draw(s, "A5")

(* Tables: index and value, index and two values. Some indexes are fixed.  *)
LoadTable(s) ==
  LET step == IF s.d.pending = "B4" THEN 3 ELSE 2
      kind == s.d.pending IN
  IF Len(s.d.data) % step # 0 THEN fail(s, "G1", s.at)
  ELSE IF kind = "C2" /\ "out" \in Every(s.d.data, 2) THEN fail(s, "P5", s.at)
  ELSE IF kind = "B4" /\ "out" \in Every(s.d.data, 3)
  THEN fail(s, "G3", (CHOOSE i \in 1 .. Len(s.d.data) :
                        i % 3 = 1 /\ s.d.data[i] = "out"
                        /\ \A j \in 1 .. i - 1 : j % 3 = 1 => s.d.data[j] # "out") - 1)
  ELSE Draw(s, kind)

completePending(s) ==
  LET t == IF s.d.data = << >> THEN fail(s, "G1", s.at)
           ELSE CASE s.d.pending = "A0" -> drawPolyline(s)
                  [] s.d.pending = "A1" -> drawScanline(s)
                  [] s.d.pending = "A4" -> drawPolymarker(s)
                  [] s.d.pending = "A5" -> fillPolygon(s)
                  [] s.d.pending \in {"B4", "C2", "C3"} -> LoadTable(s)
                  [] OTHER -> s
  IN [t EXCEPT !.d.pending = "none", !.d.data = << >>]

(***************************************************************************)
(* A fixed order, once its data is there. An illegal colour or marker is   *)
(* kept, an illegal function is not.                                       *)
(***************************************************************************)
SetOrDraw(s, o, values) ==
  LET illegal == o \in {"80", "B0", "B3", "B5", "A3"} /\ "out" \in Range(values)
      kept    == CASE o = "B0" -> [s EXCEPT !.d.colour = values[1]]
                   [] o \in {"80", "A3"} \/ (o = "B3" /\ illegal) -> s
                   [] OTHER -> [s EXCEPT !.d.attributes =
                                  [x \in DOMAIN @ \union {o} |-> IF x = o THEN values ELSE @[x]]]
  IN IF o = "80" /\ illegal THEN fail(kept, "G1", s.at - 1)
     ELSE IF illegal THEN fail(kept, "G3", s.at)
     ELSE CASE o = "80" -> [s EXCEPT !.r.reads = Append(@, s.d.code)]
            [] o = "A3" -> Draw(s, "A3")
            [] OTHER -> kept

ReadFixed(s, byte) ==
  LET values == Append(s.values, byte) IN
  IF byte \notin DataBytes THEN fail(s, "G1", s.at)
  ELSE IF Len(values) < FixedLength[s.order] THEN [s EXCEPT !.values = values]
  ELSE SetOrDraw([s EXCEPT !.order = "none", !.values = << >>], s.order, values)

(* A mutant: an order must have data before more of it is promised.        *)
ReadVariableNotEmpty(s, byte) ==
  IF byte \in DataBytes THEN [s EXCEPT !.d.data = Append(@, byte)]
  ELSE IF byte = EndOfData THEN completePending(s)
  ELSE IF byte = More /\ s.d.data # << >> THEN [s EXCEPT !.more = TRUE, !.done = TRUE]
  ELSE fail(s, "G1", s.at)

ReadVariable(s, byte) ==
  IF byte \in DataBytes THEN [s EXCEPT !.d.data = Append(@, byte)]
  ELSE IF byte = EndOfData THEN completePending(s)
  ELSE IF byte = More THEN [s EXCEPT !.more = TRUE, !.done = TRUE]
  ELSE fail(s, "G1", s.at)

ReadOrder(s, byte) ==
  CASE byte = "90" -> [s EXCEPT !.done = TRUE]
    [] byte \in {More, EndOfData} -> fail(s, "G1", s.at)
    [] byte = "93" -> [s EXCEPT !.d.display = TRUE]
    [] byte = "94" -> [s EXCEPT !.d.display = FALSE]
    [] byte = "95" -> [s EXCEPT !.d.graphics = FALSE, !.done = TRUE]
    [] byte = "96" -> [s EXCEPT !.r.suppressed = TRUE]
    [] byte = "C1" -> [s EXCEPT !.r.copy = TRUE]
    [] byte \in DOMAIN FixedLength ->
         IF s.at + FixedLength[byte] >= s.size THEN fail(s, "G1", s.at) ELSE [s EXCEPT !.order = byte]
    [] byte \in Variable -> [s EXCEPT !.d.pending = byte]
    [] OTHER -> fail(s, "G2", s.at)

Read(s, byte) ==
  LET t == IF s.done THEN s
           ELSE IF s.order # "none" THEN ReadFixed(s, byte)
           ELSE IF s.d.pending # "none" THEN ReadVariable(s, byte)
           ELSE ReadOrder(s, byte)
  IN [t EXCEPT !.at = @ + 1]

(* The end of the block: an order may not be cut off.                      *)
Finished(s) ==
  LET t == IF s.d.pending # "none" /\ ~s.more THEN fail(s, "G1", s.size) ELSE s IN
  IF t.fatal THEN t
  ELSE [t EXCEPT !.r.completion = IF t.r.suppressed THEN "None"
                                  ELSE IF t.r.error # "none" THEN "RecoverableError"
                                  ELSE "Success"]

recognizes(d, data) == d.graphics \/ (data # << >> /\ data[1] = Begin)

Starts(d, size) ==
  [d |-> d, r |-> [NoResult EXCEPT !.handled = TRUE], at |-> 0, size |-> size,
   order |-> "none", values |-> << >>, done |-> FALSE, more |-> FALSE, fatal |-> FALSE]

(* The bytes of a block one after the other, behind Begin Graphics.        *)
Through(d, data, size) ==
  IF d.graphics THEN FoldLeft(Read, Starts(d, size), data)
  ELSE FoldLeft(Read, [Starts([d EXCEPT !.graphics = TRUE], size) EXCEPT !.at = 1], Tail(data))

process(d, data) ==
  LET s == Starts(d, Len(data)) IN
  IF ~recognizes(d, data) THEN [d |-> d, r |-> NoResult]
  ELSE IF Len(data) >= 2 /\ data[1] = Begin /\ data[2] = Begin
  THEN [d |-> Reset, r |-> [s.r EXCEPT !.completion = "SystemReset"]]
  ELSE IF data[1] = Begin /\ d.graphics THEN fail(s, "G1", 0)
  ELSE Finished(Through(d, data, Len(data)))

-----------------------------------------------------------------------------
Blocks == {FlattenSeq(items) : items \in BoundedSeq(Items, MaxItems)} \ {<< >>}

GraphicsInit ==
  /\ decoder = Reset /\ before = Reset
  /\ block = << >> /\ result = NoResult

(* A record of screen data. Orders in front of Begin Graphics are rendered *)
(* as text, and so is everything when there is none; what is left is the   *)
(* block. Its outcome is the key that is sent to the host.                 *)
handleRawScreenData ==
  /\ block = << >>
  /\ Len(decoder.data) <= MaxPending
  /\ block' \in Blocks
  /\ LET p == process(decoder, block') IN decoder' = p.d /\ result' = p.r
  /\ before' = decoder

(* The host has the answer, or was told not to wait.                       *)
HostGoesOn ==
  /\ block # << >>
  /\ block' = << >> /\ result' = NoResult
  /\ before' = decoder
  /\ UNCHANGED decoder

GraphicsNext == handleRawScreenData \/ HostGoesOn

GraphicsSpec == GraphicsInit /\ [][GraphicsNext]_graphicsVars

-----------------------------------------------------------------------------
(* A block is answered, or the host asked that it is not: the host does    *)
(* not send the next one before. A fatal error ends graphics mode, and no  *)
(* order stays pending outside it (the properties of                       *)
(* tests/unit/test_gddm_5292_fuzz.cpp:16).                                 *)
AlwaysAnswered ==
  result.handled =>
    /\ result.completion = "None" <=> result.suppressed
    /\ result.completion = "FatalError" => ~decoder.graphics /\ result.error # "none"
    /\ decoder.pending # "none" => decoder.graphics

(* Where the host spreads an order over two blocks does not matter, right  *)
(* behind its code included: ended by More Data and continued, it leaves   *)
(* the decoder as in one block (gddm_5292_decoder.cpp:627).                *)
MayEnd(k) ==
  /\ before.graphics \/ block[1] = Begin
  /\ block[k + 1] # Begin
  /\ LET s == Through(before, SubSeq(block, 1, k), Len(block)) IN ~s.done /\ s.d.pending # "none"

SplitIrrelevant ==
  \A k \in 1 .. Len(block) - 1 :
    MayEnd(k) =>
      LET first == process(before, Append(SubSeq(block, 1, k), More))
          rest  == process(first.d, SubSeq(block, k + 1, Len(block)))
      IN /\ rest.d = decoder
         /\ first.r.drawn \o rest.r.drawn = result.drawn
         /\ first.r.reads \o rest.r.reads = result.reads

\* The decoder follows the protocol on any block, cut anywhere.
BlocksAnswered == AlwaysAnswered /\ SplitIrrelevant

=============================================================================
