----------------------------- MODULE PcapReplay -----------------------------
(***************************************************************************)
(* A session played back from a packet capture: which TCP flow of the      *)
(* capture is the session, which of its sides the host, and what the host  *)
(* sent, from segments that were captured in any order, more than once,    *)
(* overlapping, or not at all.                                             *)
(*                                                                         *)
(* Bytes are the classes of module TelnetParser; "len" and "gds" open a    *)
(* record (its length and its type, two bytes each in the code). Sequence  *)
(* numbers wrap at SeqModulus. The pace of the replay is left out.         *)
(***************************************************************************)
EXTENDS Integers, Sequences, FiniteSets, SequencesExt, FiniteSetsExt

CONSTANTS
  Plain,       \* as in TelnetParser
  HostStreams, \* what the host may have sent
  Cuts,        \* where its segments may begin and end
  HostIsn,     \* sequence numbers its SYN may have had
  SeqModulus,
  OtherFrames, \* frames of the client and of other flows
  MaxFrames    \* frames in a capture

VARIABLES
  sentByHost,
  isn,
  hostFirst,   \* whether the host's address is the smaller one
  servicePort, \* whether its port is one of telnet's
  capture,     \* the frames, in the order they were captured
  replay       \* what was loaded

captureVars == <<sentByHost, isn, hostFirst, servicePort, capture, replay>>

Live == INSTANCE TelnetParser WITH
          Streams <- {}, Records <- {}, Unescaped <- {},
          stream <- << >>, fed <- 0, parser <- 0

Standalone == Live!Standalone

-----------------------------------------------------------------------------
(* Frames that carry no TCP, or a fragment, are skipped; what the link     *)
(* adds behind a short datagram is cut off.                                *)
parseTcpPacket(frame) ==
  IF frame.fragment THEN << >>
  ELSE <<[frame EXCEPT !.data = SubSeq(@, 1, Len(@) - frame.padding)]>>

Segments == FlattenSeq([i \in DOMAIN capture |-> parseTcpPacket(capture[i])])

Of(flow, from) == SelectSeq(Segments, LAMBDA s : s.flow = flow /\ s.from = from)

Data(flow, from) == SelectSeq(Of(flow, from), LAMBDA s : s.data # << >>)

PayloadBytes(flow, from) == FoldLeft(LAMBDA n, s : n + Len(s.data), 0, Data(flow, from))

Syns(flow, from) == SelectSeq(Of(flow, from), LAMBDA s : s.syn)
sawSyn(flow, from) == Syns(flow, from) # << >>
sawSynAck(flow, from) == sawSyn(flow, from) /\ Last(Syns(flow, from)).ack

Sides == {"host", "client"}
Other(from) == CHOOSE s \in Sides : s # from

(***************************************************************************)
(* The bytes of a direction, from behind its SYN, or from the smallest     *)
(* sequence number when there was none, up to the first hole.              *)
(***************************************************************************)
Signed(n) == LET m == n % SeqModulus IN IF m >= SeqModulus \div 2 THEN m - SeqModulus ELSE m

Base(flow, from) ==
  IF sawSyn(flow, from) THEN Last(Syns(flow, from)).seq + 1
  ELSE FoldLeft(LAMBDA base, s : IF Signed(s.seq - base) < 0 THEN s.seq ELSE base,
                Data(flow, from)[1].seq, Data(flow, from))

(* A mutant: sequence numbers are compared as they are.                    *)
reassembleDirectionUnsigned(flow, from) ==
  LET ordered == SortSeq(Data(flow, from), LAMBDA l, r : l.seq < r.seq)
      Take(s, segment) ==
        LET start == segment.seq - Base(flow, from)
            skip  == Len(s.bytes) - start IN
        IF s.hole \/ start > Len(s.bytes) THEN [s EXCEPT !.hole = TRUE]
        ELSE IF skip >= Len(segment.data) THEN s
        ELSE [s EXCEPT !.bytes = @ \o SubSeq(segment.data, skip + 1, Len(segment.data))]
  IN FoldLeft(Take, [bytes |-> << >>, hole |-> FALSE], ordered).bytes

reassembleDirection(flow, from) ==
  LET Start(s) == Signed(s.seq - Base(flow, from))
      ordered == SortSeq(Data(flow, from), LAMBDA l, r : Start(l) < Start(r))
      Take(s, segment) ==
        LET skip == Len(s.bytes) - Start(segment) IN
        IF s.hole \/ skip < 0 THEN [s EXCEPT !.hole = TRUE]
        ELSE IF skip >= Len(segment.data) THEN s
        ELSE [s EXCEPT !.bytes = @ \o SubSeq(segment.data, skip + 1, Len(segment.data))]
  IN FoldLeft(Take, [bytes |-> << >>, hole |-> FALSE], ordered).bytes

(***************************************************************************)
(* The records of a stream: the telnet commands are taken out. A byte is   *)
(* read with up to two behind it; skip counts those already read.          *)
(***************************************************************************)
extractRecords(stream) ==
  LET At(i) == IF i \in DOMAIN stream THEN stream[i] ELSE "end"
      Read(s, i) ==
        IF s.skip > 0 THEN [s EXCEPT !.skip = @ - 1]
        ELSE IF s.cutOff THEN s
        ELSE IF stream[i] # "IAC"
        THEN IF s.inSub THEN s ELSE [s EXCEPT !.current = Append(@, stream[i])]
        ELSE CASE At(i + 1) = "end" -> [s EXCEPT !.cutOff = TRUE]
               [] At(i + 1) = "IAC" ->
                    [s EXCEPT !.skip = 1, !.current = IF s.inSub THEN @ ELSE Append(@, "IAC")]
               [] At(i + 1) = "SE" -> [s EXCEPT !.skip = 1, !.inSub = FALSE]
               [] At(i + 1) = "EOR" ->
                    [s EXCEPT !.skip = 1, !.current = << >>,
                              !.records = IF s.current = << >> THEN @ ELSE Append(@, s.current)]
               [] At(i + 1) \in Standalone \ {"SE", "EOR"} -> [s EXCEPT !.skip = 1]
               [] OTHER ->
                    IF At(i + 2) = "end" THEN [s EXCEPT !.cutOff = TRUE]
                    ELSE [s EXCEPT !.skip = 2, !.inSub = @ \/ At(i + 1) = "SB"]
      end == FoldLeft(Read, [records |-> << >>, current |-> << >>, inSub |-> FALSE,
                             skip |-> 0, cutOff |-> FALSE],
                      [i \in DOMAIN stream |-> i])
  IN IF end.current = << >> THEN end.records ELSE Append(end.records, end.current)

(* By the first data that was captured.                                    *)
looksLikeTn5250(flow, from) ==
  /\ Data(flow, from) # << >>
  /\ LET first == Data(flow, from)[1].data IN
     first[1] = "IAC" \/ (Len(first) >= 2 /\ first[2] = "gds")

-----------------------------------------------------------------------------
(* A flow keeps the place of its first frame; of two with as much data,    *)
(* the earlier one is taken.                                               *)
Flows == {Segments[i].flow : i \in DOMAIN Segments}
FirstFrame(flow) == CHOOSE i \in DOMAIN Segments :
                      Segments[i].flow = flow /\ \A j \in 1 .. i - 1 : Segments[j].flow # flow
Candidates == {f \in Flows : \E from \in Sides : looksLikeTn5250(f, from)}
Bytes(flow) == PayloadBytes(flow, "host") + PayloadBytes(flow, "client")

Selected == CHOOSE f \in Candidates :
              \A g \in Candidates \ {f} :
                Bytes(f) > Bytes(g) \/ (Bytes(f) = Bytes(g) /\ FirstFrame(f) < FirstFrame(g))

(* Endpoint A is the one with the smaller address.                         *)
A == IF hostFirst THEN "host" ELSE "client"
B == Other(A)

ServerSide(flow) ==
  IF sawSynAck(flow, A) \/ sawSynAck(flow, B) THEN IF sawSynAck(flow, A) THEN A ELSE B
  ELSE IF sawSyn(flow, A) \/ sawSyn(flow, B) THEN IF sawSyn(flow, B) THEN A ELSE B
  ELSE IF servicePort THEN "host"
  ELSE IF PayloadBytes(flow, A) >= PayloadBytes(flow, B) THEN A ELSE B

Failed == [ok |-> FALSE, flow |-> "none", records |-> << >>]

loadData ==
  /\ replay.flow = "not loaded"
  /\ replay' =
       IF Candidates = {} THEN Failed
       ELSE LET flow    == Selected
                from    == ServerSide(flow)
                records == IF Data(flow, from) = << >> THEN << >>
                           ELSE extractRecords(reassembleDirection(flow, from))
            IN IF records = << >> THEN Failed ELSE [ok |-> TRUE, flow |-> flow, records |-> records]
  /\ UNCHANGED <<sentByHost, isn, hostFirst, servicePort, capture>>

-----------------------------------------------------------------------------
(* The capture: frames of the host's side of the session, and others.      *)
Frame(syn, seq, data, padding) ==
  [flow |-> "session", from |-> "host", syn |-> syn, ack |-> TRUE, seq |-> seq % SeqModulus,
   data |-> data, padding |-> padding, fragment |-> FALSE]

HostFrames ==
  {Frame(TRUE, isn, << >>, 0)}
  \cup {Frame(FALSE, isn + 1 + i, SubSeq(sentByHost, i + 1, j), 0) :
          i \in Cuts, j \in {c \in Cuts : c <= Len(sentByHost)}}
  \cup {Frame(FALSE, isn + 1, SubSeq(sentByHost, 1, 1) \o <<"a", "b">>, 2)}
  \cup {[Frame(FALSE, isn + 1, SubSeq(sentByHost, 1, 3), 0) EXCEPT !.fragment = TRUE]}

CaptureInit ==
  /\ sentByHost \in HostStreams /\ isn \in HostIsn
  /\ hostFirst \in BOOLEAN /\ servicePort \in BOOLEAN
  /\ capture = << >>
  /\ replay = [Failed EXCEPT !.flow = "not loaded"]

Captured ==
  /\ replay.flow = "not loaded" /\ Len(capture) < MaxFrames
  /\ \E frame \in HostFrames \cup OtherFrames :
       /\ frame.data = << >> => frame.syn
       /\ capture' = Append(capture, frame)
  /\ UNCHANGED <<sentByHost, isn, hostFirst, servicePort, replay>>

CaptureNext == Captured \/ loadData

CaptureSpec == CaptureInit /\ [][CaptureNext]_captureVars

-----------------------------------------------------------------------------
(* What is played back the host has sent, in the order it sent it, however *)
(* the capture was cut, doubled and mixed: when it is known which side is  *)
(* the host, the records are those of its stream from the beginning, or    *)
(* from where the capture begins, up to the first byte that was not        *)
(* captured.                                                               *)
Offset(s) == Signed(s.seq - isn - 1)
CapturedBytes == UNION {Offset(s) + 1 .. Offset(s) + Len(s.data) : s \in Range(Data("session", "host"))}
From == IF sawSyn("session", "host") THEN 0
        ELSE Min({Offset(s) : s \in Range(Data("session", "host"))})
UpTo == Max({n \in From .. Len(sentByHost) : From + 1 .. n \subseteq CapturedBytes})

ReplayIsWhatHostSent ==
  replay.ok /\ replay.flow = "session"
  /\ (servicePort \/ sawSyn("session", "host") \/ sawSyn("session", "client")) =>
    replay.records = extractRecords(SubSeq(sentByHost, From + 1, UpTo))

=============================================================================
