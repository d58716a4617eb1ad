---------------------------- MODULE TelnetParser ----------------------------
(***************************************************************************)
(* The byte parser of TN5250Client (processTelnetData) and the escaping of *)
(* sendRawData.  TCP cuts the host's bytes into chunks anywhere; a command *)
(* cut in two waits in m_receiveBuffer.  Bytes are classes: IAC is 0xFF,   *)
(* EOR to WILL are the telnet commands, Plain are the bytes below 0xEF,    *)
(* which double as option codes.  Whether records are framed by IAC EOR is *)
(* settled before the bytes examined here (TelnetClient covers the switch).*)
(***************************************************************************)
EXTENDS Naturals, SequencesExt

CONSTANTS
  Plain,     \* the bytes below 0xEF
  Streams,   \* the byte streams the host may send
  Records,   \* the records sent by a host that doubles IAC,
  Unescaped  \* and by one that does not

Standalone == {"EOR", "SE", "NOP"}
WithOption == {"SB", "WILL"}
Byte == {"IAC"} \cup Standalone \cup WithOption \cup Plain

ASSUME BytesAssumption ==
  /\ Plain \cap ({"IAC"} \cup Standalone \cup WithOption) = {}
  /\ Streams \subseteq Seq(Byte)

(* A record is not empty: it opens with its length.                        *)
ASSUME RecordsAssumption == Records \cup Unescaped \subseteq Seq(Byte) \ {<<>>}

VARIABLES
  stream,    \* everything the host sends
  fed,       \* how many of its bytes have arrived
  parser     \* the client's parser state, see Idle

parserVars == <<stream, fed, parser>>

(***************************************************************************)
(* framed is framing(): handshake complete and EOR negotiated. receive is  *)
(* m_receiveBuffer, record is m_recordBuffer, processed is the local       *)
(* buffer of a call, sub the subnegotiation buffer; events lists what the  *)
(* parser handed on: data with its bytes, or a command.                    *)
(***************************************************************************)
Idle(framed) ==
  [framed |-> framed, receive |-> <<>>, record |-> <<>>, processed |-> <<>>,
   inSub |-> FALSE, subOption |-> "none", sub |-> <<>>, events |-> <<>>]

Data(bytes) == [kind |-> "data", bytes |-> bytes]

\* Hands bytes on, unless there are none.
Emit(p, bytes) ==
  IF bytes = <<>> THEN p.events ELSE Append(p.events, Data(bytes))

\* The first n bytes received are consumed.
After(p, n) == [p EXCEPT !.receive = SubSeq(@, n + 1, Len(@))]

\* appendData.
TakeData(p, b) ==
  IF p.framed
  THEN [p EXCEPT !.processed = <<>>, !.record = p.record \o p.processed \o <<b>>]
  ELSE [p EXCEPT !.processed = Append(@, b)]

\* A byte of a subnegotiation, or of data.
Take(p, b) == IF p.inSub THEN [p EXCEPT !.sub = Append(@, b)] ELSE TakeData(p, b)

\* Mutants: an IAC EOR inside a record is data; every IAC starts a command.
UnescapedIacSwallowsEor(p, next) ==
  ~p.inSub /\ (next \in Plain \/ (p.framed /\ p.record # <<>>))

\* An IAC that cannot start a command is a data byte the host did not double.
UnescapedIac(p, next) ==
  /\ ~p.inSub
  /\ \/ next \in Plain
     \/ p.framed /\ p.record # <<>> /\ next # "EOR"

TakeStandalone(p, next) ==
  CASE next = "SE" /\ p.inSub ->
         [p EXCEPT !.inSub = FALSE, !.sub = <<>>,
                   !.events = Append(@, [kind |-> "sub", option |-> p.subOption,
                                         bytes |-> p.sub])]
    [] next = "EOR" /\ p.framed ->
         [p EXCEPT !.record = <<>>, !.processed = <<>>,
                   !.events = Emit(p, p.processed \o p.record)]
    [] OTHER -> p

\* handleTelnetCommand, as far as the parser is concerned; a byte pair that
\* is no command is skipped with the byte that follows it.
TakeCommand(p, verb, option) ==
  CASE verb = "SB" -> [p EXCEPT !.inSub = TRUE, !.subOption = option, !.sub = <<>>]
    [] verb = "WILL" ->
         [p EXCEPT !.events = Append(@, [kind |-> "command", verb |-> verb,
                                         option |-> option])]
    [] OTHER -> p

\* The loop leaves what may be the beginning of a command for the next read.
Incomplete(p) ==
  LET b == p.receive IN
  \/ b = <<>> \/ b = <<"IAC">>
  \/ /\ Len(b) = 2 /\ b[1] = "IAC" /\ b[2] \notin Standalone \cup {"IAC"}
     /\ ~UnescapedIac(p, b[2])

\* One turn of the loop.
Turn(p) ==
  LET b == p.receive IN
  IF Incomplete(p) THEN p
  ELSE IF b[1] # "IAC" THEN Take(After(p, 1), b[1])
  ELSE IF b[2] = "IAC" THEN Take(After(p, 2), "IAC")
  ELSE IF UnescapedIac(p, b[2]) THEN TakeData(After(p, 1), "IAC")
  ELSE IF b[2] \in Standalone THEN TakeStandalone(After(p, 2), b[2])
  ELSE TakeCommand(After(p, 3), b[2], b[3])

\* Each turn takes a byte at least.
Loop(p) ==
  LET after[n \in 0 .. Len(p.receive)] == IF n = 0 THEN p ELSE Turn(after[n - 1])
  IN after[Len(p.receive)]

\* processTelnetData: unframed bytes are handed on at the end of the chunk.
Feed(p, chunk) ==
  LET q == Loop([p EXCEPT !.receive = p.receive \o chunk, !.processed = <<>>])
  IN [q EXCEPT !.events = Emit(q, q.processed), !.processed = <<>>]

-----------------------------------------------------------------------------

ParserInit ==
  /\ stream \in Streams
  /\ fed = 0
  /\ \E framed \in BOOLEAN : parser = Idle(framed)

\* The next n bytes arrive in one read.
ReadChunk(n) ==
  /\ fed + n <= Len(stream)
  /\ parser' = Feed(parser, SubSeq(stream, fed + 1, fed + n))
  /\ fed' = fed + n
  /\ UNCHANGED stream

ParserNext == \E n \in 1..(Len(stream) - fed) : ReadChunk(n)

ParserSpec == ParserInit /\ [][ParserNext]_parserVars

-----------------------------------------------------------------------------
(* Reference definitions.                                                  *)

\* sendRawData: double every IAC, end the record with IAC EOR.
Escape(record) ==
  FlattenSeq([i \in DOMAIN record |->
                IF record[i] = "IAC" THEN <<"IAC", "IAC">> ELSE <<record[i]>>])
Encode(record) == Escape(record) \o <<"IAC", "EOR">>

\* The host of KB Q327297: IAC bytes of a record are not doubled.
EncodeUnescaped(record) == record \o <<"IAC", "EOR">>

\* A run of data events counts as one: without framing the chunks decide
\* where one ends, and only the bytes matter.
DataBytes(events) ==
  FlattenSeq([i \in DOMAIN events |->
                IF events[i].kind = "data" THEN events[i].bytes ELSE <<>>])
Others(events) ==
  FlattenSeq([i \in DOMAIN events |->
                IF events[i].kind = "data" THEN <<>> ELSE <<events[i]>>])

OneRead == Feed(Idle(parser.framed), SubSeq(stream, 1, fed))

\* How TCP cuts the stream is irrelevant, for any bytes the host may send:
\* framed, the client hands on exactly the records and commands it would
\* have found in one read; unframed, the same data bytes and commands.
ChunkingIrrelevant ==
  /\ parser.receive = OneRead.receive
  /\ parser.record = OneRead.record
  /\ parser.inSub = OneRead.inSub /\ parser.sub = OneRead.sub
  /\ IF parser.framed
     THEN parser.events = OneRead.events
     ELSE /\ DataBytes(parser.events) = DataBytes(OneRead.events)
          /\ Others(parser.events) = Others(OneRead.events)

\* What sendRawData writes, the parser reads: two records of any bytes come
\* out as the same two records.
Encodings == { Encode(r) \o Encode(s) : r, s \in Records }

RoundTrip ==
  (parser.framed /\ fed = Len(stream) /\ stream \in Encodings) =>
    \E r, s \in Records :
      /\ stream = Encode(r) \o Encode(s)
      /\ parser.events = <<Data(r), Data(s)>>

\* Unescaped, an IAC is recognised as data if it does not look like the end
\* of the record or a doubled IAC, and the record's first bytes not like a
\* command.
Recognisable(bytes) ==
  /\ bytes[1] # "IAC"
  /\ \A i \in DOMAIN bytes :
       bytes[i] = "IAC" => i < Len(bytes) /\ bytes[i + 1] \notin {"IAC", "EOR"}

HisEncodings == { EncodeUnescaped(r) : r \in { x \in Unescaped : Recognisable(x) } }

\* The records of a host that does not double IAC come out unchanged as long
\* as they are recognisable (client_telnet.cpp 81-86).
UnescapedRecovered ==
  (parser.framed /\ fed = Len(stream) /\ stream \in HisEncodings) =>
    parser.events = <<Data(SubSeq(stream, 1, Len(stream) - 2))>>

\* The telnet parser hands on what the host sent, however it is cut and
\* encoded (processTelnetData, client_telnet.cpp 31-191).
StreamIsRead == ChunkingIrrelevant /\ RoundTrip /\ UnescapedRecovered

=============================================================================
