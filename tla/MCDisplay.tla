------------------------------ MODULE MCDisplay ------------------------------
(***************************************************************************)
(* What becomes of the host's bytes and of the screen they draw, side by   *)
(* side; a behaviour is one of part.                                       *)
(*   rules, mouse: screens of two sizes, one of them with a password in    *)
(* it, over a history of two snapshots; error messages and rules, or the   *)
(* mouse, over it.                                                         *)
(*   parser: streams are all byte sequences up to MaxStream, so every      *)
(* malformed input of that length is among them, and the encodings of two  *)
(* records, escaped and unescaped. graphics: blocks of up to two items.    *)
(* raster: lines, polygons and styles on a small plane. capture: up to     *)
(* four frames of a session and one other flow, whose sequence numbers     *)
(* wrap.                                                                   *)
(***************************************************************************)
EXTENDS TelnetParser, ScreenView

CONSTANTS
  MaxStream,  \* bound: length of the arbitrary streams
  MaxRecord,  \* bound: length of a record
  Items, MaxItems, MaxPending, MaxFillEdges,
  Width, Height, Shapes,
  HostStreams, Cuts, HostIsn, SeqModulus, OtherFrames, MaxFrames

VARIABLES
  part,
  decoder, before, block, result,
  shape,
  sentByHost, isn, hostFirst, servicePort, capture, replay

Graphics == INSTANCE GraphicsDecoder
Drawing == INSTANCE Raster
Capture == INSTANCE PcapReplay

-----------------------------------------------------------------------------
(* The view of the screen.                                                 *)
Shows(char) == [char |-> char, hidden |-> FALSE]
Hides(char) == [char |-> char, hidden |-> TRUE]
Drawn(rows, cols, cells) ==
  [rows |-> rows, cols |-> cols,
   at |-> [p \in (0 .. rows - 1) \X (0 .. cols - 1) |->
             IF p \in DOMAIN cells THEN cells[p] ELSE Blank]]

Cells(p, q, x, y) == (p :> x) @@ (q :> y)

\* A sign-on whose fields hide a label and a password, so that it reads like an empty
\* screen; a wider list.
Empty == Drawn(2, 2, <<>>)
SignOn == Drawn(2, 2, Cells(<<0, 1>>, <<1, 0>>, Attribute, Hides("F")) @@ (<<1, 1>> :> Hides("*")))
List == Drawn(2, 3, Cells(<<0, 1>>, <<1, 2>>, Shows("r"), Shows("F")))
MCScreens == {Empty, SignOn, List}

MCError == <<"r">>
MCCharacters == {" ", "F", "r", "*"}

\* Longer, a password seen, and shorter.
Rule(find, put) == [find |-> find, put |-> put, enabled |-> TRUE]
MCRules == { <<Rule("r", <<"x", "x">>), Rule("*", <<"x">>), Rule("F", <<>>)>> }

MCPointed == {<<0, 1>>, <<1, 0>>, <<1, 2>>}

-----------------------------------------------------------------------------
(* The telnet parser.                                                      *)
MCPlain == {"a", "b", "len", "gds"}

Arbitrary == UNION {[1..n -> Byte \ {"len", "gds"}] : n \in 0..MaxStream}

\* Records may hold any byte value, IAC and the command codes included.
RecordsUpTo(size) ==
  UNION {[1..n -> {"IAC", "WILL", "EOR", "a"}] : n \in 1..size}
MCRecords == RecordsUpTo(MaxRecord)
MCUnescaped == { r \in RecordsUpTo(MaxRecord + 2) : r[1] = "a" }

MCStreams == Arbitrary \cup Encodings \cup HisEncodings

-----------------------------------------------------------------------------
(* Blocks, shapes and captures.                                            *)
MCItems ==
  {<<b>> : b \in {"FF", "91", "92", "93", "95", "96", "A0", "A1", "A4", "A5", "B4", "C0", "C2", "11", "in"}}
  \cup {<<"80", "in", "in">>, <<"B0", "in">>, <<"B0", "out">>, <<"A0", "out">>,
        <<"in", "in", "in", "in">>, <<"in", "edge", "in", "in">>}

Dots == (0 .. 2) \X (0 .. 2)
Ends == (0 .. 4) \X (0 .. 4)
MCShapes ==
  [kind : {"line"}, from : Ends, to : Ends]
  \cup [kind : {"polygon"}, points : [1 .. 3 -> Dots] \cup [1 .. 4 -> Dots]]
  \cup [kind : {"style"}, style : [1 .. 4 -> 0 .. 2]]

Negotiated == <<"IAC", "WILL", "a">>
MCHostStreams ==
  {Negotiated \o <<"len", "gds", "a", "IAC", "EOR", "len", "gds", "IAC", "IAC", "IAC", "EOR">>}

Taken(flow, from, syn, ack, data) ==
  [flow |-> flow, from |-> from, syn |-> syn, ack |-> ack, seq |-> 5, data |-> data,
   padding |-> 0, fragment |-> FALSE]
MCOtherFrames ==
  {Taken("session", "client", TRUE, FALSE, << >>),
   Taken("session", "client", FALSE, TRUE, Negotiated),
   Taken("other", "host", FALSE, TRUE, <<"len", "gds", "b", "IAC", "EOR">>)}

-----------------------------------------------------------------------------
DisplayInit ==
  /\ part \in {"rules", "mouse", "parser", "graphics", "raster", "capture"}
  /\ ViewInit
  /\ ParserInit /\ Graphics!GraphicsInit /\ Drawing!RasterInit /\ Capture!CaptureInit
  /\ part # "parser" => ~parser.framed /\ stream = <<>>
  /\ part # "capture" =>
       isn = (CHOOSE n \in HostIsn : TRUE) /\ hostFirst /\ servicePort

\* The rules do not tell a locked keyboard from an open one.
ViewStep ==
  \/ part = "rules" /\ (Watch \/ Errors \/ Match) /\ keyboard' # "locked"
  \/ part = "mouse" /\ (Watch \/ Mouse)

graphicsVars == <<decoder, before, block, result>>
captureVars == <<sentByHost, isn, hostFirst, servicePort, capture, replay>>
codecVars == <<parserVars, graphicsVars, shape, captureVars>>

DisplayNext ==
  /\ UNCHANGED part
  /\ \/ ViewStep /\ UNCHANGED codecVars
     \/ /\ part = "parser" /\ ParserNext
        /\ UNCHANGED <<viewVars, graphicsVars, shape, captureVars>>
     \/ /\ part = "graphics" /\ Graphics!GraphicsNext
        /\ UNCHANGED <<viewVars, parserVars, shape, captureVars>>
     \/ /\ part = "raster" /\ Drawing!RasterNext
        /\ UNCHANGED <<viewVars, parserVars, graphicsVars, captureVars>>
     \/ /\ part = "capture" /\ Capture!CaptureNext
        /\ UNCHANGED <<viewVars, parserVars, graphicsVars, shape>>

DisplaySpec == DisplayInit /\ [][DisplayNext]_<<part, viewVars, codecVars>>

-----------------------------------------------------------------------------
\* Stated there: each block of graphics is answered as the protocol asks and its
\* dots are those meant; a capture is replayed as its host sent it.
GraphicsAsMeant == Graphics!BlocksAnswered /\ Drawing!DrawnAsMeant
ReplayIsWhatHostSent == Capture!ReplayIsWhatHostSent
=============================================================================
