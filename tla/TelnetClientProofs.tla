-------------------------- MODULE TelnetClientProofs --------------------------
(***************************************************************************)
(* Proofs about TelnetClient for every set of host options and every       *)
(* bound: the byte stream reaches the application whole and in order, the  *)
(* device name is offered once, an attempt in progress is timed, and the   *)
(* client keeps the promise of ClientLifecycle.  And about ScreenView, for *)
(* any screens and rules: what the widget derives from the screen that the *)
(* stream drew is current, and the past screen viewed stays.  And about    *)
(* TelnetParser, for any streams: the client hands on what the host sent,  *)
(* however its bytes are cut and encoded.  About TelnetNegotiation: at     *)
(* rest, the client and any host that follows RFC 854 agree on every       *)
(* option.  And about HostServer: what a caller gets answers its own call. *)
(***************************************************************************)
EXTENDS TelnetNegotiation, ScreenView, TelnetParser, SequenceTheorems, NaturalsInduction,
        WellFoundedInduction, TLAPS

-----------------------------------------------------------------------------
(* The inductive invariant.                                                *)

ControlOK ==
  /\ state \in ConnectionState
  /\ link \in Link
  /\ attempt \in Nat
  /\ connectTimer \in Nat
  /\ heartbeat \in BOOLEAN
  /\ handshakeComplete \in BOOLEAN
  /\ binaryNegotiated \in BOOLEAN
  /\ eorNegotiated \in BOOLEAN
  /\ terminalTypeSent \in BOOLEAN
  /\ reading \in BOOLEAN

StreamOK ==
  /\ received \in Nat
  /\ processed \in Seq(Nat)
  /\ recordBuffer \in Seq(Nat)
  /\ handshakeBuffer \in Seq(Nat)
  /\ delivered \in Seq(Nat)

\* The state the owner sees and the socket behind it agree, and the timers
\* belong to what the connection is doing.
LinkMatchesState ==
  /\ link \in {"opening", "tcp"} <=> state = "Connecting"
  /\ link = "up" =>
       state = IF handshakeComplete THEN "Connected" ELSE "Negotiating"
  /\ link = "closing" => state = "Error"
  /\ reading => link = "up"
  /\ state = "Connecting" => connectTimer = attempt /\ ~handshakeComplete
  /\ heartbeat => handshakeComplete /\ link \in {"up", "closing"}
  /\ state = "Disconnected" => ~heartbeat

\* Bytes wait in one place at a time: before the handshake in its buffer, then
\* in the record being collected or in the chunk being read.
BuffersApart ==
  /\ processed # <<>> => reading
  /\ recordBuffer # <<>> => Framing /\ processed = <<>>
  /\ handshakeComplete => handshakeBuffer = <<>>

\* The device name was sent if and only if some answer was, and that answer,
\* the first, named it.
NameFollowsAnswer ==
  \/ deviceNameSent = FALSE /\ environAnswers = NoAnswer
  \/ deviceNameSent = TRUE /\ environAnswers = [first |-> "named", renamed |-> FALSE]

StreamKept == StreamOK /\ BuffersApart /\ StreamInOrder

IInv ==
  /\ ControlOK
  /\ LinkMatchesState
  /\ NameFollowsAnswer
  /\ StreamKept

-----------------------------------------------------------------------------
(* Control: the socket, the state and the timers.                          *)

\* Initially there is no connection.
LEMMA ControlInit == Init => ControlOK /\ LinkMatchesState
  <1> SUFFICES ASSUME Init PROVE ControlOK /\ LinkMatchesState
    OBVIOUS
  <1>1. ControlOK
    BY DEF Init, ControlOK, ConnectionState, Link
  <1>2. LinkMatchesState
    BY DEF Init, LinkMatchesState
  <1> QED BY <1>1, <1>2

\* A telnet command touches neither the socket nor a timer, and may only
\* complete the handshake, of a connection that is up.
LEMMA CommandControl ==
  ASSUME ControlOK, LinkMatchesState, reading, reading' \in BOOLEAN,
         UNCHANGED <<link, attempt, connectTimer>>,
         binaryNegotiated' \in BOOLEAN, eorNegotiated' \in BOOLEAN,
         terminalTypeSent' \in BOOLEAN,
         \/ UNCHANGED <<handshakeComplete, state, heartbeat>>
         \/ /\ handshakeComplete' = TRUE /\ state' = "Connected"
            /\ heartbeat' = KeepAlive
  PROVE  ControlOK' /\ LinkMatchesState'
  <1>1. ControlOK'
    BY KeepAliveAssumption DEF ControlOK, ConnectionState
  <1>2. link = "up" /\ link' = "up"
    BY DEF LinkMatchesState
  <1>3. LinkMatchesState'
    <2>1. CASE UNCHANGED <<handshakeComplete, state, heartbeat>>
      BY <1>2, <2>1 DEF LinkMatchesState
    <2>2. CASE handshakeComplete' = TRUE /\ state' = "Connected"
      BY <1>2, <2>2 DEF LinkMatchesState
    <2> QED BY <2>1, <2>2
  <1> QED BY <1>1, <1>3

\* CheckHandshakeComplete completes the handshake or leaves it as it is.
LEMMA CheckControl ==
  ASSUME NEW pending, CheckHandshakeComplete(pending)
  PROVE  \/ UNCHANGED <<handshakeComplete, state, heartbeat>>
         \/ /\ handshakeComplete' = TRUE /\ state' = "Connected"
            /\ heartbeat' = KeepAlive
  BY DEF CheckHandshakeComplete

\* Aborting leaves a client that is disconnected and has no timer.
LEMMA AbortControl ==
  ASSUME ControlOK, LinkMatchesState, ~reading, NEW after, Abort(after)
  PROVE  ControlOK' /\ LinkMatchesState'
  BY DEF Abort, ControlOK, LinkMatchesState, ConnectionState, Link, negotiation

\* Every step keeps the types and the agreement of socket, state and timers.
LEMMA ControlStep ==
  ASSUME ControlOK, LinkMatchesState, [Next]_vars
  PROVE  ControlOK' /\ LinkMatchesState'
  <1> DEFINE Kept == UNCHANGED <<handshakeComplete, state, heartbeat>>
             Completed == /\ handshakeComplete' = TRUE /\ state' = "Connected"
                          /\ heartbeat' = KeepAlive
  <1>1. ASSUME NEW tls \in BOOLEAN, ConnectToHost(tls)
        PROVE  ControlOK' /\ LinkMatchesState'
    <2>0. ~reading /\ ~heartbeat
      BY <1>1 DEF ConnectToHost, LinkMatchesState
    <2>1. /\ attempt' = attempt + 1
          /\ \/ state' = "Connecting" /\ link' = "opening" /\ connectTimer' = attempt'
             \/ state' = "Error" /\ link' = "none" /\ connectTimer' = connectTimer
          /\ UNCHANGED <<heartbeat, reading>>
          /\ handshakeComplete' = FALSE /\ binaryNegotiated' = FALSE
          /\ eorNegotiated' = FALSE /\ terminalTypeSent' = FALSE
      BY <1>1 DEF ConnectToHost, ArmedConnectTimer
    <2>2. ControlOK'
      <3>1. state' \in ConnectionState /\ link' \in Link
        BY <2>1 DEF ConnectionState, Link
      <3>2. attempt' \in Nat /\ connectTimer' \in Nat
        BY <2>1 DEF ControlOK
      <3>3. heartbeat' \in BOOLEAN /\ reading' \in BOOLEAN
        BY <2>1 DEF ControlOK
      <3>4. /\ handshakeComplete' \in BOOLEAN /\ binaryNegotiated' \in BOOLEAN
            /\ eorNegotiated' \in BOOLEAN /\ terminalTypeSent' \in BOOLEAN
        BY <2>1
      <3> QED BY <3>1, <3>2, <3>3, <3>4 DEF ControlOK
    <2>3. LinkMatchesState'
      BY <2>0, <2>1 DEF LinkMatchesState
    <2> QED BY <2>2, <2>3
  <1>2. CASE DisconnectFromHost
    BY <1>2, AbortControl DEF DisconnectFromHost
  <1>3. CASE OnSocketConnected
    BY <1>3 DEF OnSocketConnected, ControlOK, LinkMatchesState, ConnectionState,
                Link, negotiation
  <1>4. CASE OnSocketError
    BY <1>4 DEF OnSocketError, ControlOK, LinkMatchesState, ConnectionState,
                Link, negotiation
  <1>5. CASE OnSocketDisconnected
    BY <1>5 DEF OnSocketDisconnected, ControlOK, LinkMatchesState,
                ConnectionState, Link, negotiation
  <1>6. CASE OnSslErrors
    BY <1>6 DEF OnSslErrors, ControlOK, LinkMatchesState, ConnectionState,
                Link, negotiation
  <1>7. CASE OnSocketReadyRead
    BY <1>7 DEF OnSocketReadyRead, ControlOK, LinkMatchesState, connection,
                negotiation
  <1>8. CASE OnConnectTimeout
    <2>1. CASE state = "Connecting"
      BY <1>8, <2>1, AbortControl DEF OnConnectTimeout
    <2>2. CASE state # "Connecting"
      BY <1>8, <2>2 DEF OnConnectTimeout, ControlOK, LinkMatchesState, negotiation
    <2> QED BY <2>1, <2>2
  <1>9. ASSUME NEW verb, NEW opt, RepeatedRequest(verb, opt)
        PROVE  ControlOK' /\ LinkMatchesState'
    BY <1>9, CommandControl
    DEF RepeatedRequest, CommandsTaken, CommandFrame, NoHandshakeStep, ControlOK
  <1>10. ASSUME NEW opt, HostWill(opt)
         PROVE  ControlOK' /\ LinkMatchesState'
    <2>1. Kept \/ Completed
      BY <1>10, CheckControl DEF HostWill, NoHandshakeStep
    <2> QED BY <1>10, <2>1, CommandControl
            DEF HostWill, CommandsTaken, CommandFrame, ControlOK
  <1>11. ASSUME NEW opt, HostDo(opt)
         PROVE  ControlOK' /\ LinkMatchesState'
    <2>1. Kept \/ Completed
      BY <1>11, CheckControl DEF HostDo, NoHandshakeStep
    <2> QED BY <1>11, <2>1, CommandControl
            DEF HostDo, CommandsTaken, CommandFrame, ControlOK
  <1>12. ASSUME NEW opt, HostWont(opt) \/ HostDont(opt)
         PROVE  ControlOK' /\ LinkMatchesState'
    BY <1>12, CommandControl DEF HostWont, HostDont, CommandsTaken, CommandFrame,
                NoHandshakeStep, ControlOK
  <1>13. CASE HostAsksTerminalType
    <2>1. Kept \/ Completed
      BY <1>13, CheckControl DEF HostAsksTerminalType
    <2> QED BY <1>13, <2>1, CommandControl
            DEF HostAsksTerminalType, CommandsTaken, CommandFrame, ControlOK
  <1>14. ASSUME NEW asks \in BOOLEAN, HostSendsEnviron(asks)
         PROVE  ControlOK' /\ LinkMatchesState'
    BY <1>14, CommandControl DEF HostSendsEnviron, CommandsTaken, CommandFrame,
                NoHandshakeStep, ControlOK
  <1>15. CASE HostData
    BY <1>15 DEF HostData, ControlOK, LinkMatchesState, connection, negotiation
  <1>16. CASE HostEndOfRecord
    BY <1>16 DEF HostEndOfRecord, ControlOK, LinkMatchesState, connection,
                 negotiation
  <1>17. CASE EndOfChunk
    <2>1. Kept \/ Completed
      BY <1>17, CheckControl DEF EndOfChunk, NoHandshakeStep
    <2> QED BY <1>17, <2>1, CommandControl DEF EndOfChunk, NoHandshakeStep, ControlOK
  <1>18. CASE UNCHANGED vars
    BY <1>18 DEF vars, connection, negotiation, ControlOK, LinkMatchesState
  <1> QED
    BY <1>1, <1>2, <1>3, <1>4, <1>5, <1>6, <1>7, <1>8, <1>9, <1>10, <1>11,
       <1>12, <1>13, <1>14, <1>15, <1>16, <1>17, <1>18
    DEF Next, Owner, Socket, HostCommand

-----------------------------------------------------------------------------
(* The device name.                                                        *)

\* Only NEW-ENVIRON answers and a new attempt touch the device name; the first
\* answer names it, a later one does not.
LEMMA NameStep ==
  ASSUME NameFollowsAnswer, [Next]_vars
  PROVE  NameFollowsAnswer'
  <1> DEFINE Same == UNCHANGED <<deviceNameSent, environAnswers>>
  <1>1. ASSUME NEW tls \in BOOLEAN, ConnectToHost(tls)
        PROVE  NameFollowsAnswer'
    BY <1>1 DEF ConnectToHost, NameFollowsAnswer, NoAnswer
  <1>2. ASSUME NEW asks \in BOOLEAN, HostSendsEnviron(asks)
        PROVE  NameFollowsAnswer'
    <2>1. CASE asks /\ deviceNameSent = FALSE /\ environAnswers = NoAnswer
      BY <1>2, <2>1 DEF HostSendsEnviron, EnvironAnswered, NameFollowsAnswer, NoAnswer
    <2>2. CASE /\ asks /\ deviceNameSent = TRUE
               /\ environAnswers = [first |-> "named", renamed |-> FALSE]
      <3>1. environAnswers.first = "named" /\ environAnswers.renamed = FALSE
        BY <2>2
      <3>2. (environAnswers.renamed \/ ~deviceNameSent) = FALSE
        BY <2>2, <3>1
      <3>3. EnvironAnswered = [environAnswers EXCEPT !.renamed = FALSE]
        BY <3>1, <3>2, Zenon DEF EnvironAnswered
      <3>4. EnvironAnswered = environAnswers
        BY <2>2, <3>1, <3>3, Zenon
      <3> QED BY <1>2, <2>2, <3>4 DEF HostSendsEnviron, NameFollowsAnswer
    <2>3. CASE ~asks
      BY <1>2, <2>3 DEF HostSendsEnviron, NameFollowsAnswer
    <2> QED BY <2>1, <2>2, <2>3 DEF NameFollowsAnswer
  <1>3. CASE DisconnectFromHost \/ Socket \/ OnConnectTimeout
    <2>1. Same
      BY <1>3 DEF DisconnectFromHost, Socket, OnSocketConnected, OnSocketError,
         OnSocketDisconnected, OnSslErrors, OnSocketReadyRead, OnConnectTimeout,
         Abort, negotiation
    <2> QED BY <2>1 DEF NameFollowsAnswer
  <1>4. ASSUME NEW verb, NEW opt,
               \/ RepeatedRequest(verb, opt) \/ HostWill(opt) \/ HostDo(opt)
               \/ HostWont(opt) \/ HostDont(opt)
        PROVE  NameFollowsAnswer'
    <2>1. Same
      BY <1>4 DEF RepeatedRequest, HostWill, HostDo, HostWont, HostDont
    <2> QED BY <2>1 DEF NameFollowsAnswer
  <1>5. CASE HostAsksTerminalType \/ HostData \/ HostEndOfRecord \/ EndOfChunk
    <2>1. Same
      BY <1>5 DEF HostAsksTerminalType, HostData, HostEndOfRecord, EndOfChunk,
         negotiation
    <2> QED BY <2>1 DEF NameFollowsAnswer
  <1>6. CASE UNCHANGED vars
    BY <1>6 DEF vars, negotiation, NameFollowsAnswer
  <1> QED BY <1>1, <1>2, <1>3, <1>4, <1>5, <1>6 DEF Next, Owner, HostCommand

-----------------------------------------------------------------------------
(* The byte stream.                                                        *)

Numbers(n) == [i \in 1..n |-> i]

\* The next byte extends the stream received so far.
LEMMA NumbersGrow ==
  ASSUME NEW n \in Nat
  PROVE  /\ Numbers(n) \in Seq(Nat)
         /\ Numbers(n + 1) = Numbers(n) \o <<n + 1>>
  <1>1. Numbers(n) \in Seq(Nat) /\ Len(Numbers(n)) = n
    BY DEF Numbers
  <1>2. Numbers(n + 1) \in Seq(Nat) /\ Len(Numbers(n + 1)) = n + 1
    BY DEF Numbers
  <1>3. <<n + 1>> \in Seq(Nat) /\ Len(<<n + 1>>) = 1 /\ <<n + 1>>[1] = n + 1
    OBVIOUS
  <1> DEFINE longer == Numbers(n) \o <<n + 1>>
  <1>4. /\ longer \in Seq(Nat) /\ Len(longer) = n + 1
        /\ \A i \in 1..(n + 1) : longer[i] =
              IF i <= n THEN Numbers(n)[i] ELSE <<n + 1>>[i - n]
    BY <1>1, <1>3, ConcatProperties
  <1>5. \A i \in 1..(n + 1) : longer[i] = i
    BY <1>3, <1>4 DEF Numbers
  <1>6. \A i \in 1..(n + 1) : Numbers(n + 1)[i] = i
    BY DEF Numbers
  <1> HIDE DEF longer
  <1>7. Numbers(n + 1) = longer
    BY <1>2, <1>4, <1>5, <1>6, SeqEqual
  <1> QED BY <1>1, <1>7 DEF longer

Whole(d, h, r, p) == d \o h \o r \o p

\* Concatenation of byte sequences may be regrouped.
LEMMA Regroup ==
  ASSUME NEW s \in Seq(Nat), NEW t \in Seq(Nat), NEW u \in Seq(Nat)
  PROVE  s \o (t \o u) = (s \o t) \o u
  <1>1. (s \o t) \o u = s \o (t \o u)
    BY ConcatAssociative
  <1> QED BY <1>1, Zenon

\* A byte may join the record being collected behind w; q is that record and
\* the unframed bytes before it.
LEMMA RecordGrows ==
  ASSUME NEW w \in Seq(Nat), NEW q \in Seq(Nat), NEW n \in Nat
  PROVE  (w \o (q \o <<n>>)) \o <<>> = (w \o q) \o <<n>> /\ q \o <<n>> \in Seq(Nat)
  <1>1. <<n>> \in Seq(Nat)
    OBVIOUS
  <1>2. q \o <<n>> \in Seq(Nat)
    BY <1>1, ConcatProperties
  <1>3. w \o (q \o <<n>>) \in Seq(Nat)
    BY <1>2, ConcatProperties
  <1>4. w \o (q \o <<n>>) = (w \o q) \o <<n>>
    BY <1>1, ConcatAssociative
  <1> QED BY <1>2, <1>3, <1>4, ConcatEmptySeq

\* Or it joins the unframed bytes themselves.
LEMMA ChunkGrows ==
  ASSUME NEW w \in Seq(Nat), NEW p \in Seq(Nat), NEW n \in Nat
  PROVE  w \o Append(p, n) = (w \o p) \o <<n>> /\ Append(p, n) \in Seq(Nat)
  <1>1. <<n>> \in Seq(Nat)
    OBVIOUS
  <1>2. Append(p, n) = p \o <<n>> /\ Append(p, n) \in Seq(Nat)
    BY AppendIsConcat
  <1> QED BY <1>1, <1>2, ConcatAssociative

\* The handshake data may be handed over, whatever waits behind it.
LEMMA HandshakeMoves ==
  ASSUME NEW d \in Seq(Nat), NEW h \in Seq(Nat), NEW r \in Seq(Nat),
         NEW p \in Seq(Nat)
  PROVE  /\ Whole(d \o h, <<>>, r, p) = Whole(d, h, r, p)
         /\ d \o h \in Seq(Nat)
  <1>1. d \o h \in Seq(Nat)
    BY ConcatProperties
  <1>2. (d \o h) \o <<>> = d \o h
    BY <1>1, ConcatEmptySeq
  <1> QED BY <1>1, <1>2 DEF Whole

\* After the handshake the record and the unframed bytes before it may be
\* handed over together: one of the two is empty.
LEMMA RecordMoves ==
  ASSUME NEW d \in Seq(Nat), NEW r \in Seq(Nat), NEW p \in Seq(Nat),
         r = <<>> \/ p = <<>>
  PROVE  /\ Whole(d \o (p \o r), <<>>, <<>>, <<>>) = Whole(d, <<>>, r, p)
         /\ d \o (p \o r) \in Seq(Nat)
  <1>1. p \o r \in Seq(Nat) /\ d \o r \in Seq(Nat)
    BY ConcatProperties
  <1>2. d \o (p \o r) \in Seq(Nat)
    BY <1>1, ConcatProperties
  <1>3. \A s \in Seq(Nat) : s \o <<>> = s /\ <<>> \o s = s
    BY ConcatEmptySeq
  <1>4. Whole(d \o (p \o r), <<>>, <<>>, <<>>) = d \o (p \o r)
    BY <1>2, <1>3 DEF Whole
  <1>5. CASE r = <<>>
    BY <1>2, <1>3, <1>4, <1>5 DEF Whole
  <1>6. CASE p = <<>>
    BY <1>1, <1>2, <1>3, <1>4, <1>6 DEF Whole
  <1> QED BY <1>5, <1>6

\* Outside a record the handshake data and the unframed bytes may be joined,
\* or handed over together.
LEMMA ChunkMoves ==
  ASSUME NEW d \in Seq(Nat), NEW h \in Seq(Nat), NEW p \in Seq(Nat)
  PROVE  /\ Whole(d \o (h \o p), <<>>, <<>>, <<>>) = Whole(d, h, <<>>, p)
         /\ Whole(d, h \o p, <<>>, <<>>) = Whole(d, h, <<>>, p)
         /\ d \o (h \o p) \in Seq(Nat) /\ h \o p \in Seq(Nat)
  <1>1. d \o h \in Seq(Nat) /\ h \o p \in Seq(Nat)
    BY ConcatProperties
  <1>2. d \o (h \o p) \in Seq(Nat)
    BY <1>1, ConcatProperties
  <1>3. (d \o h) \o p = d \o (h \o p)
    BY Regroup
  <1>4. \A s \in Seq(Nat) : s \o <<>> = s
    BY ConcatEmptySeq
  <1> QED BY <1>1, <1>2, <1>3, <1>4 DEF Whole

\* The stream invariant in the terms of the lemmas above.
LEMMA StreamForm ==
  /\ StreamInOrder <=>
       Whole(delivered, handshakeBuffer, recordBuffer, processed) = Numbers(received)
  /\ StreamInOrder' <=>
       Whole(delivered', handshakeBuffer', recordBuffer', processed')
         = Numbers(received')
  BY DEF StreamInOrder, Whole, Numbers

\* No byte has arrived at the start.
LEMMA StreamInit == Init => StreamKept
  <1> SUFFICES ASSUME Init PROVE StreamKept
    OBVIOUS
  <1>1. StreamOK /\ BuffersApart
    BY DEF Init, StreamOK, BuffersApart
  <1>2. Whole(<<>>, <<>>, <<>>, <<>>) = <<>>
    BY ConcatEmptySeq, EmptySeq DEF Whole
  <1>3. Numbers(0) = <<>>
    BY DEF Numbers
  <1> QED BY <1>1, <1>2, <1>3, StreamForm DEF Init, StreamKept

\* A step that touches neither a buffer nor the framing keeps the stream.
LEMMA StreamUnchanged ==
  ASSUME StreamKept,
         UNCHANGED <<buffers, reading, handshakeComplete, eorNegotiated>>
  PROVE  StreamKept'
  BY DEF StreamKept, StreamOK, BuffersApart, StreamInOrder, Framing, buffers

\* CheckHandshakeComplete hands over what it is given or keeps it.
LEMMA CheckStream ==
  ASSUME NEW pending, CheckHandshakeComplete(pending)
  PROVE  \/ delivered' = delivered \o pending /\ handshakeBuffer' = <<>>
         \/ /\ delivered' = delivered /\ handshakeBuffer' = pending
            /\ handshakeComplete' = handshakeComplete
  BY DEF CheckHandshakeComplete

\* A telnet command is read outside a record, and moves at most the handshake
\* data.
LEMMA CommandStream ==
  ASSUME StreamKept, CommandsTaken,
         UNCHANGED <<reading, processed, recordBuffer, received>>,
         \/ UNCHANGED <<handshakeComplete, delivered, handshakeBuffer>>
         \/ CheckHandshakeComplete(handshakeBuffer)
  PROVE  StreamKept'
  <1>0. /\ delivered \in Seq(Nat) /\ handshakeBuffer \in Seq(Nat)
        /\ recordBuffer \in Seq(Nat) /\ processed \in Seq(Nat)
    BY DEF StreamKept, StreamOK
  <1>1. recordBuffer = <<>> /\ reading
    BY DEF CommandsTaken, StreamKept, BuffersApart
  <1>2. \/ delivered' = delivered \o handshakeBuffer /\ handshakeBuffer' = <<>>
        \/ /\ delivered' = delivered /\ handshakeBuffer' = handshakeBuffer
           /\ handshakeComplete' = handshakeComplete
    BY CheckStream
  <1>3. /\ delivered \o handshakeBuffer \in Seq(Nat)
        /\ Whole(delivered \o handshakeBuffer, <<>>, recordBuffer, processed)
             = Whole(delivered, handshakeBuffer, recordBuffer, processed)
    BY <1>0, HandshakeMoves
  <1>4. StreamOK'
    BY <1>2, <1>3, EmptySeq DEF StreamKept, StreamOK
  <1>5. BuffersApart'
    BY <1>1, <1>2 DEF StreamKept, BuffersApart
  <1>6. StreamInOrder'
    BY <1>2, <1>3, StreamForm DEF StreamKept
  <1> QED BY <1>4, <1>5, <1>6 DEF StreamKept

\* A byte of application data extends the stream by itself (appendData).
LEMMA DataStream ==
  ASSUME StreamKept, HostData
  PROVE  StreamKept'
  <1>0. /\ delivered \in Seq(Nat) /\ handshakeBuffer \in Seq(Nat) /\ received \in Nat
        /\ recordBuffer \in Seq(Nat) /\ processed \in Seq(Nat)
    BY DEF StreamKept, StreamOK
  <1>1. /\ reading /\ reading' = reading /\ received' = received + 1
        /\ UNCHANGED <<handshakeBuffer, delivered, handshakeComplete, eorNegotiated>>
    BY DEF HostData, negotiation
  <1>2. /\ Whole(delivered, handshakeBuffer, recordBuffer \o processed \o <<received'>>, <<>>)
             = Numbers(received')
        /\ Whole(delivered, handshakeBuffer, recordBuffer, Append(processed, received'))
             = Numbers(received')
        /\ recordBuffer \o processed \o <<received'>> \in Seq(Nat)
        /\ Append(processed, received') \in Seq(Nat)
        /\ received' \in Nat
    <2>1. received' \in Nat
      BY <1>0, <1>1
    <2>2. Whole(delivered, handshakeBuffer, recordBuffer, processed) \o <<received'>>
            = Numbers(received')
      BY <1>0, <1>1, NumbersGrow, StreamForm DEF StreamKept
    <2>3. /\ delivered \o handshakeBuffer \in Seq(Nat)
          /\ (delivered \o handshakeBuffer) \o recordBuffer \in Seq(Nat)
      <3>1. delivered \o handshakeBuffer \in Seq(Nat)
        BY <1>0, ConcatProperties
      <3> QED BY <1>0, <3>1, ConcatProperties
    <2>4. /\ Whole(delivered, handshakeBuffer, recordBuffer \o processed \o <<received'>>, <<>>)
               = Whole(delivered, handshakeBuffer, recordBuffer, processed) \o <<received'>>
          /\ recordBuffer \o processed \o <<received'>> \in Seq(Nat)
      <3> DEFINE w == delivered \o handshakeBuffer
                 q == recordBuffer \o processed
      <3>1. w \in Seq(Nat) /\ q \in Seq(Nat)
        BY <1>0, <2>3, ConcatProperties
      <3> HIDE DEF w
      <3>2. w \o q = (w \o recordBuffer) \o processed
        BY <1>0, <3>1, Regroup
      <3> HIDE DEF q
      <3>3. /\ (w \o (q \o <<received'>>)) \o <<>> = (w \o q) \o <<received'>>
            /\ q \o <<received'>> \in Seq(Nat)
        BY <2>1, <3>1, RecordGrows
      <3> QED BY <3>2, <3>3 DEF w, q, Whole
    <2>5. /\ Whole(delivered, handshakeBuffer, recordBuffer, Append(processed, received'))
               = Whole(delivered, handshakeBuffer, recordBuffer, processed) \o <<received'>>
          /\ Append(processed, received') \in Seq(Nat)
      BY <1>0, <2>1, <2>3, ChunkGrows DEF Whole
    <2> QED BY <2>1, <2>2, <2>4, <2>5
  <1>3. CASE Framing
    <2>1. /\ recordBuffer' = recordBuffer \o processed \o <<received'>>
          /\ processed' = <<>>
      BY <1>3 DEF HostData
    <2>2. StreamOK'
      BY <1>1, <1>2, <2>1 DEF StreamKept, StreamOK
    <2>3. BuffersApart'
      BY <1>1, <1>3, <2>1 DEF StreamKept, BuffersApart, Framing
    <2> QED BY <1>1, <1>2, <2>1, <2>2, <2>3, StreamForm DEF StreamKept
  <1>4. CASE ~Framing
    <2>1. processed' = Append(processed, received') /\ recordBuffer' = recordBuffer
      BY <1>4 DEF HostData
    <2>2. StreamOK'
      BY <1>1, <1>2, <2>1 DEF StreamKept, StreamOK
    <2>3. BuffersApart'
      BY <1>1, <1>4, <2>1 DEF StreamKept, BuffersApart, Framing
    <2> QED BY <1>1, <1>2, <2>1, <2>2, <2>3, StreamForm DEF StreamKept
  <1> QED BY <1>3, <1>4

\* The end of a record hands over what waits (flushRecord).
LEMMA RecordStream ==
  ASSUME StreamKept, HostEndOfRecord
  PROVE  StreamKept'
  <1>1. UNCHANGED <<reading, handshakeComplete, eorNegotiated, handshakeBuffer, received>>
    BY DEF HostEndOfRecord, negotiation
  <1>2. CASE Framing /\ FinishedRecord # <<>>
    <2>1. /\ delivered' = delivered \o (processed \o recordBuffer)
          /\ recordBuffer' = <<>> /\ processed' = <<>>
      BY <1>2 DEF HostEndOfRecord, FinishedRecord
    <2>2. handshakeBuffer = <<>> /\ (recordBuffer = <<>> \/ processed = <<>>)
      BY <1>2 DEF Framing, StreamKept, BuffersApart
    <2>3. /\ Whole(delivered \o (processed \o recordBuffer), <<>>, <<>>, <<>>)
               = Whole(delivered, handshakeBuffer, recordBuffer, processed)
          /\ delivered \o (processed \o recordBuffer) \in Seq(Nat)
      BY <2>2, RecordMoves DEF StreamKept, StreamOK
    <2>4. StreamOK'
      BY <1>1, <2>1, <2>3, EmptySeq DEF StreamKept, StreamOK
    <2>5. BuffersApart'
      BY <1>1, <2>1, <2>2 DEF StreamKept, BuffersApart
    <2> QED BY <1>1, <2>1, <2>2, <2>3, <2>4, <2>5, StreamForm DEF StreamKept
  <1>3. CASE ~(Framing /\ FinishedRecord # <<>>)
    <2>1. UNCHANGED <<delivered, recordBuffer, processed>>
      BY <1>3 DEF HostEndOfRecord
    <2> QED BY <1>1, <2>1, StreamUnchanged DEF buffers
  <1> QED BY <1>2, <1>3

\* The end of a chunk hands over its unframed bytes, or keeps them with the
\* handshake data (processHandshakeData).
LEMMA ChunkStream ==
  ASSUME StreamKept, EndOfChunk
  PROVE  StreamKept'
  <1>0. /\ delivered \in Seq(Nat) /\ handshakeBuffer \in Seq(Nat)
        /\ recordBuffer \in Seq(Nat) /\ processed \in Seq(Nat)
    BY DEF StreamKept, StreamOK
  <1>1. /\ processed' = <<>> /\ reading' = FALSE
        /\ UNCHANGED <<eorNegotiated, recordBuffer, received>>
    BY DEF EndOfChunk
  <1>2. CASE processed = <<>>
    <2>1. UNCHANGED <<delivered, handshakeBuffer, handshakeComplete>>
      BY <1>2 DEF EndOfChunk, NoHandshakeStep
    <2>2. StreamOK'
      BY <1>1, <2>1, EmptySeq DEF StreamKept, StreamOK
    <2>3. BuffersApart'
      BY <1>1, <2>1 DEF StreamKept, BuffersApart, Framing
    <2> QED BY <1>1, <1>2, <2>1, <2>2, <2>3, StreamForm DEF StreamKept
  <1>3. CASE processed # <<>>
    <2>1. recordBuffer = <<>>
      BY <1>3 DEF StreamKept, BuffersApart
    <2>2. /\ Whole(delivered \o (handshakeBuffer \o processed), <<>>, <<>>, <<>>)
               = Whole(delivered, handshakeBuffer, recordBuffer, processed)
          /\ Whole(delivered, handshakeBuffer \o processed, <<>>, <<>>)
               = Whole(delivered, handshakeBuffer, recordBuffer, processed)
          /\ delivered \o (handshakeBuffer \o processed) \in Seq(Nat)
          /\ handshakeBuffer \o processed \in Seq(Nat)
      BY <1>0, <2>1, ChunkMoves
    <2>3. CASE handshakeComplete
      <3>1. /\ delivered' = delivered \o (handshakeBuffer \o processed)
            /\ handshakeBuffer' = handshakeBuffer /\ handshakeBuffer = <<>>
        <4>1. handshakeBuffer = <<>>
          BY <2>3 DEF StreamKept, BuffersApart
        <4>2. handshakeBuffer \o processed = processed
          BY <1>0, <4>1, ConcatEmptySeq
        <4> QED BY <1>3, <2>3, <4>1, <4>2 DEF EndOfChunk
      <3>2. StreamOK'
        BY <1>1, <2>2, <3>1, EmptySeq DEF StreamKept, StreamOK
      <3>3. BuffersApart'
        BY <1>1, <2>1, <3>1 DEF StreamKept, BuffersApart
      <3> QED BY <1>1, <2>1, <2>2, <3>1, <3>2, <3>3, StreamForm DEF StreamKept
    <2>4. CASE ~handshakeComplete
      <3>1. \/ /\ delivered' = delivered \o (handshakeBuffer \o processed)
               /\ handshakeBuffer' = <<>>
            \/ /\ delivered' = delivered
               /\ handshakeBuffer' = handshakeBuffer \o processed
               /\ ~handshakeComplete'
        BY <1>3, <2>4, CheckStream DEF EndOfChunk
      <3>2. StreamOK'
        BY <1>1, <2>1, <2>2, <3>1, EmptySeq DEF StreamKept, StreamOK
      <3>3. BuffersApart'
        BY <1>1, <2>1, <3>1 DEF StreamKept, BuffersApart
      <3> QED BY <1>1, <2>1, <2>2, <3>1, <3>2, <3>3, StreamForm DEF StreamKept
    <2> QED BY <2>3, <2>4
  <1> QED BY <1>2, <1>3

\* Every step keeps the stream whole and in order.
LEMMA StreamStep ==
  ASSUME StreamKept, [Next]_vars
  PROVE  StreamKept'
  <1>1. ASSUME NEW tls \in BOOLEAN, ConnectToHost(tls)
        PROVE  StreamKept'
    <2>1. /\ delivered' = <<>> /\ handshakeBuffer' = <<>>
          /\ recordBuffer' = <<>> /\ processed' = <<>> /\ received' = 0
      BY <1>1 DEF ConnectToHost
    <2>2. Whole(<<>>, <<>>, <<>>, <<>>) = <<>> /\ Numbers(0) = <<>>
      BY ConcatEmptySeq, EmptySeq DEF Whole, Numbers
    <2>3. StreamOK' /\ BuffersApart'
      BY <2>1 DEF StreamOK, BuffersApart
    <2> QED BY <2>1, <2>2, <2>3, StreamForm DEF StreamKept
  <1>2. CASE DisconnectFromHost \/ OnConnectTimeout
    <2>1. UNCHANGED <<buffers, reading, negotiation>>
      BY <1>2 DEF DisconnectFromHost, OnConnectTimeout, Abort
    <2> QED BY <2>1, StreamUnchanged DEF negotiation
  <1>3. CASE OnSocketConnected \/ OnSocketError \/ OnSocketDisconnected \/ OnSslErrors
    <2>1. UNCHANGED <<buffers, reading, negotiation>>
      BY <1>3 DEF OnSocketConnected, OnSocketError, OnSocketDisconnected, OnSslErrors
    <2> QED BY <2>1, StreamUnchanged DEF negotiation
  <1>4. CASE OnSocketReadyRead
    <2>1. /\ processed' = <<>> /\ processed = <<>>
          /\ UNCHANGED <<recordBuffer, handshakeBuffer, delivered, received,
                         handshakeComplete, eorNegotiated>>
      BY <1>4 DEF OnSocketReadyRead, StreamKept, BuffersApart, negotiation
    <2> QED BY <2>1 DEF StreamKept, StreamOK, BuffersApart, StreamInOrder, Framing
  <1>5. ASSUME NEW verb, NEW opt,
               \/ RepeatedRequest(verb, opt) \/ HostWill(opt) \/ HostDo(opt)
               \/ HostWont(opt) \/ HostDont(opt)
        PROVE  StreamKept'
    <2>1. CommandsTaken /\ CommandFrame
      BY <1>5 DEF RepeatedRequest, HostWill, HostDo, HostWont, HostDont
    <2>2. \/ NoHandshakeStep \/ CheckHandshakeComplete(handshakeBuffer)
      BY <1>5 DEF RepeatedRequest, HostWill, HostDo, HostWont, HostDont
    <2> QED BY <2>1, <2>2, CommandStream DEF CommandFrame, NoHandshakeStep
  <1>6. CASE HostAsksTerminalType \/ \E asks \in BOOLEAN : HostSendsEnviron(asks)
    <2>1. CommandsTaken /\ CommandFrame
      BY <1>6 DEF HostAsksTerminalType, HostSendsEnviron
    <2>2. \/ NoHandshakeStep \/ CheckHandshakeComplete(handshakeBuffer)
      BY <1>6 DEF HostAsksTerminalType, HostSendsEnviron
    <2> QED BY <2>1, <2>2, CommandStream DEF CommandFrame, NoHandshakeStep
  <1>7. CASE HostData
    BY <1>7, DataStream
  <1>8. CASE HostEndOfRecord
    BY <1>8, RecordStream
  <1>9. CASE EndOfChunk
    BY <1>9, ChunkStream
  <1>10. CASE UNCHANGED vars
    BY <1>10, StreamUnchanged DEF vars, negotiation
  <1> QED
    BY <1>1, <1>2, <1>3, <1>4, <1>5, <1>6, <1>7, <1>8, <1>9, <1>10
    DEF Next, Owner, Socket, HostCommand

-----------------------------------------------------------------------------
(* The invariants and the action properties.                               *)

\* The inductive invariant holds at the start and every step keeps it.
LEMMA IInvInit == Init => IInv
  BY ControlInit, StreamInit DEF Init, NameFollowsAnswer, IInv

\* Every step of the client keeps the invariant.
LEMMA IInvStep == IInv /\ [Next]_vars => IInv'
  BY ControlStep, NameStep, StreamStep DEF IInv

\* The inductive invariant holds in every state of every connection
\* (TN5250Client, all handlers).
THEOREM Inductive == Spec => []IInv
  BY IInvInit, IInvStep, PTL DEF Spec

\* Whatever the host asks for and in whatever order, the device name is offered
\* in the first NEW-ENVIRON answer of an attempt and in no later one
\* (handleNewEnvironSubnegotiation, sendNewEnviron).
THEOREM NameOfferedOnce == Spec => []DeviceNameOfferedOnce
  <1>1. IInv => DeviceNameOfferedOnce
    BY DEF IInv, NameFollowsAnswer, NoAnswer, DeviceNameOfferedOnce
  <1> QED BY <1>1, Inductive, PTL

\* While bytes of a record wait, only the end of the record hands anything over,
\* and it hands over the record.
LEMMA RecordHandedOver ==
  ASSUME IInv, [Next]_vars, recordBuffer # <<>>, attempt' = attempt,
         delivered' # delivered
  PROVE  delivered' = delivered \o recordBuffer /\ recordBuffer' = <<>>
  <1>1. Framing /\ processed = <<>> /\ recordBuffer \in Seq(Nat)
    BY DEF IInv, StreamKept, StreamOK, BuffersApart
  <1>2. ~CommandsTaken
    BY <1>1 DEF CommandsTaken
  <1>3. CASE HostEndOfRecord
    <2>1. FinishedRecord = recordBuffer
      BY <1>1, ConcatEmptySeq DEF FinishedRecord
    <2> QED BY <1>3, <2>1 DEF HostEndOfRecord
  <1>4. CASE EndOfChunk
    <2>1. delivered' = delivered
      BY <1>1, <1>4 DEF EndOfChunk, NoHandshakeStep
    <2> QED BY <2>1
  <1>5. ASSUME NEW tls \in BOOLEAN, ConnectToHost(tls)
        PROVE  FALSE
    BY <1>5 DEF ConnectToHost, IInv, ControlOK
  <1>6. CASE DisconnectFromHost \/ OnConnectTimeout \/ HostData \/ OnSocketReadyRead
    BY <1>6 DEF DisconnectFromHost, OnConnectTimeout, Abort, HostData,
                OnSocketReadyRead, buffers
  <1>7. CASE OnSocketConnected \/ OnSocketError \/ OnSocketDisconnected \/ OnSslErrors
    BY <1>7 DEF OnSocketConnected, OnSocketError, OnSocketDisconnected, OnSslErrors,
                buffers
  <1>8. ~HostCommand
    BY <1>2 DEF HostCommand, RepeatedRequest, HostWill, HostDo, HostWont, HostDont,
                HostAsksTerminalType, HostSendsEnviron
  <1>9. CASE UNCHANGED vars
    BY <1>9 DEF vars, buffers
  <1> QED BY <1>3, <1>4, <1>5, <1>6, <1>7, <1>8, <1>9 DEF Next, Owner, Socket

\* For every number of bytes, however the host cuts them into chunks and records,
\* the application gets them whole and in order, and a record only at its end
\* (processTelnetData, appendData, flushRecord, processHandshakeData).
THEOREM StreamDelivered == Spec => StreamIntact
  <1>1. ASSUME IInv, IInv', [Next]_vars
        PROVE  /\ StreamInOrder'
               /\ recordBuffer # <<>> /\ attempt' = attempt /\ delivered' # delivered
                    => delivered' = delivered \o recordBuffer /\ recordBuffer' = <<>>
    BY <1>1, RecordHandedOver DEF IInv, StreamKept
  <1> QED BY <1>1, Inductive, PTL DEF Spec, StreamIntact

\* An attempt in progress has its own connect timer running, and a keep-alive
\* timer never outlives its connection (armConnectTimeout, onConnectTimeout,
\* disconnectFromHost).
THEOREM AttemptsAreTimed == Spec => AttemptsTimed
  <1>1. ASSUME IInv'
        PROVE  /\ state' = "Connecting" => connectTimer' = attempt'
               /\ heartbeat' => handshakeComplete' /\ link' \in {"up", "closing"}
    BY <1>1 DEF IInv, LinkMatchesState
  <1> QED BY <1>1, Inductive, PTL DEF Spec, AttemptsTimed

-----------------------------------------------------------------------------
(* Refinement of ClientLifecycle.                                          *)

\* Signals emitted one after the other.
LEMMA PairJoined ==
  ASSUME NEW a, NEW b
  PROVE  <<a>> \o <<b>> = <<a,b>>
  <1> DEFINE S == {a, b}
             l == <<a>> \o <<b>>
  <1>1. <<a>> \in Seq(S) /\ <<b>> \in Seq(S) /\ <<a,b>> \in Seq(S)
    OBVIOUS
  <1>2. /\ Len(<<a>>) = 1 /\ Len(<<b>>) = 1 /\ Len(<<a, b>>) = 2
        /\ <<a>>[1] = a /\ <<b>>[1] = b /\ <<a, b>>[1] = a /\ <<a, b>>[2] = b
    OBVIOUS
  <1>3. /\ l \in Seq(S) /\ Len(l) = 2
        /\ \A i \in 1..2 : l[i] = IF i <= 1 THEN <<a>>[i] ELSE <<b>>[i - 1]
    BY <1>1, <1>2, ConcatProperties
  <1>4. l[1] = a /\ l[2] = b
    BY <1>2, <1>3
  <1> HIDE DEF l, S
  <1>5. l = <<a, b>>
    BY <1>1, <1>2, <1>3, <1>4, SeqEqual
  <1> QED BY <1>5 DEF l

\* The same with a third signal.
LEMMA TripleJoined ==
  ASSUME NEW a, NEW b, NEW c
  PROVE  <<a, b>> \o <<c>> = <<a,b,c>>
  <1> DEFINE S == {a, b, c}
             l == <<a, b>> \o <<c>>
  <1>1. <<a, b>> \in Seq(S) /\ <<c>> \in Seq(S) /\ <<a,b,c>> \in Seq(S)
    OBVIOUS
  <1>2. /\ Len(<<a, b>>) = 2 /\ Len(<<c>>) = 1 /\ Len(<<a, b, c>>) = 3
        /\ <<a, b>>[1] = a /\ <<a, b>>[2] = b /\ <<c>>[1] = c
        /\ <<a, b, c>>[1] = a /\ <<a, b, c>>[2] = b /\ <<a, b, c>>[3] = c
    OBVIOUS
  <1>3. /\ l \in Seq(S) /\ Len(l) = 3
        /\ \A i \in 1..3 : l[i] = IF i <= 2 THEN <<a, b>>[i] ELSE <<c>>[i - 2]
    BY <1>1, <1>2, ConcatProperties
  <1>4. l[1] = a /\ l[2] = b /\ l[3] = c
    BY <1>2, <1>3
  <1> HIDE DEF l, S
  <1>5. l = <<a, b, c>>
    BY <1>1, <1>2, <1>3, <1>4, SeqEqual
  <1> QED BY <1>5 DEF l

\* And for the four signals of a refused certificate.
LEMMA QuadrupleJoined ==
  ASSUME NEW a, NEW b, NEW c, NEW d
  PROVE  <<a>> \o <<b, c, d>> = <<a, b, c, d>>
  <1> DEFINE S == {a, b, c, d}
             l == <<a>> \o <<b, c, d>>
  <1>1. <<a>> \in Seq(S) /\ <<b, c, d>> \in Seq(S) /\ <<a, b, c, d>> \in Seq(S)
    OBVIOUS
  <1>2. /\ Len(<<a>>) = 1 /\ Len(<<b, c, d>>) = 3 /\ Len(<<a, b, c, d>>) = 4
        /\ <<a>>[1] = a
        /\ <<b, c, d>>[1] = b /\ <<b, c, d>>[2] = c /\ <<b, c, d>>[3] = d
        /\ <<a, b, c, d>>[1] = a /\ <<a, b, c, d>>[2] = b
        /\ <<a, b, c, d>>[3] = c /\ <<a, b, c, d>>[4] = d
    OBVIOUS
  <1>3. /\ l \in Seq(S) /\ Len(l) = 4
        /\ \A i \in 1..4 : l[i] = IF i <= 1 THEN <<a>>[i] ELSE <<b, c, d>>[i - 1]
    BY <1>1, <1>2, ConcatProperties
  <1>4. l[1] = a /\ l[2] = b /\ l[3] = c /\ l[4] = d
    BY <1>2, <1>3
  <1> HIDE DEF l, S
  <1>5. l = <<a, b, c, d>>
    BY <1>1, <1>2, <1>3, <1>4, SeqEqual
  <1> QED BY <1>5 DEF l

\* A missing signal is nothing.
LEMMA NothingJoined ==
  ASSUME NEW a, NEW b
  PROVE  <<a>> \o <<>> = <<a>> /\ <<a, b>> \o <<>> = <<a, b>>
  OBVIOUS

\* A step the owner sees nothing of.
LEMMA SilentStep ==
  ASSUME state' = state, signals' = <<>>
  PROVE  Lifecycle!Next
  BY DEF Lifecycle!Next, Lifecycle!Silent

\* A step that takes one of the outcomes of an event.
LEMMA EventStep ==
  ASSUME [next |-> state', signals |-> signals'] \in Lifecycle!EventOutcomes(state)
  PROVE  Lifecycle!Next
  <1> DEFINE o == [next |-> state', signals |-> signals']
  <1>1. state' = o.next /\ signals' = o.signals
    OBVIOUS
  <1> HIDE DEF o
  <1>2. Lifecycle!Event
    BY <1>1 DEF o, Lifecycle!Event, Lifecycle!Take
  <1> QED BY <1>2 DEF Lifecycle!Next

\* The outcomes of an event, by the state it finds.
LEMMA EventsListed ==
  /\ Lifecycle!EventOutcomes("Connecting") =
       { [next |-> "Negotiating", signals |-> <<"Negotiating">>] }
         \cup Lifecycle!Lost \cup Lifecycle!GaveUp \cup Lifecycle!CertificateRefused
  /\ Lifecycle!EventOutcomes("Negotiating") =
       { [next |-> "Connected", signals |-> <<"Connected", "connected">>],
         [next |-> "Connected", signals |-> <<"Connected", "connected", "dataReceived">>] }
         \cup Lifecycle!Lost
  /\ Lifecycle!EventOutcomes("Connected") =
       { [next |-> "Connected", signals |-> <<"dataReceived">>] } \cup Lifecycle!Lost
  /\ Lifecycle!EventOutcomes("Error") = Lifecycle!Closed
  BY DEF Lifecycle!EventOutcomes

\* Completing the handshake is an event of a client that negotiates; a telnet
\* command that does not is silent.
LEMMA CheckLifecycle ==
  ASSUME IInv, reading, NEW pending, CheckHandshakeComplete(pending)
  PROVE  Lifecycle!Next
  <1>1. CASE UNCHANGED state /\ signals' = <<>>
    BY <1>1, SilentStep
  <1>2. CASE /\ ~handshakeComplete /\ state' = "Connected"
             /\ signals' = StateSignal("Connected") \o <<"connected">>
                   \o (IF pending = <<>> THEN <<>> ELSE <<"dataReceived">>)
    <2>1. state = "Negotiating"
      BY <1>2 DEF IInv, LinkMatchesState
    <2>2. signals' \in {<<"Connected", "connected">>,
                        <<"Connected", "connected", "dataReceived">>}
      <3>1. StateSignal("Connected") \o <<"connected">> = <<"Connected", "connected">>
        BY <2>1, PairJoined DEF StateSignal
      <3>2. CASE pending = <<>>
        BY <1>2, <3>1, <3>2, NothingJoined
      <3>3. CASE pending # <<>>
        BY <1>2, <3>1, <3>3, TripleJoined
      <3> QED BY <3>2, <3>3
    <2> QED BY <1>2, <2>1, <2>2, EventsListed, EventStep
  <1> QED BY <1>1, <1>2 DEF CheckHandshakeComplete

\* Data handed over by a connected client is one signal.
LEMMA DataLifecycle ==
  ASSUME state = "Connected", state' = state, signals' = <<"dataReceived">>
  PROVE  Lifecycle!Next
  BY EventsListed, EventStep

\* Every step of the client is a step of the lifecycle or leaves it unchanged.
LEMMA LifecycleStep ==
  ASSUME IInv, [Next]_vars
  PROVE  [Lifecycle!Next]_Lifecycle!lifecycleVars
  <1> SUFFICES ASSUME Next PROVE Lifecycle!Next
    BY DEF vars, connection, outputs, Lifecycle!lifecycleVars
  <1>1. ASSUME NEW tls \in BOOLEAN, ConnectToHost(tls)
        PROVE  Lifecycle!Next
    <2>1. /\ state = "Disconnected"
          /\ \/ state' = "Connecting" /\ signals' = <<"Connecting">>
             \/ state' = "Error" /\ signals' = <<"Connecting", "Error", "errorOccurred">>
      BY <1>1 DEF ConnectToHost
    <2>2. Lifecycle!Connect
      BY <2>1 DEF Lifecycle!Connect, Lifecycle!Take, Lifecycle!ConnectOutcomes
    <2> QED BY <2>2 DEF Lifecycle!Next
  <1>2. CASE DisconnectFromHost
    <2>1. /\ state' = "Disconnected"
          /\ signals' = StateSignal("Disconnected")
               \o (IF link \in {"tcp", "up", "closing"} THEN <<"disconnected">> ELSE <<>>)
               \o <<>>
      BY <1>2 DEF DisconnectFromHost, Abort
    <2>2. CASE state = "Disconnected"
      <3>1. link \notin {"tcp", "up", "closing"}
        BY <2>2 DEF IInv, LinkMatchesState
      <3>2. signals' = <<>>
        BY <2>1, <2>2, <3>1 DEF StateSignal
      <3> QED BY <2>1, <2>2, <3>2, SilentStep
    <2>3. CASE state # "Disconnected"
      <3>1. signals' \in {<<"Disconnected">>, <<"Disconnected", "disconnected">>}
        <4>1. StateSignal("Disconnected") = <<"Disconnected">>
          BY <2>3 DEF StateSignal
        <4>2. CASE link \in {"tcp", "up", "closing"}
          BY <2>1, <4>1, <4>2, PairJoined, NothingJoined
        <4>3. CASE link \notin {"tcp", "up", "closing"}
          BY <2>1, <4>1, <4>3, NothingJoined
        <4> QED BY <4>2, <4>3
      <3>2. Lifecycle!Disconnect
        BY <2>1, <2>3, <3>1
        DEF Lifecycle!Disconnect, Lifecycle!Take, Lifecycle!DisconnectOutcomes
      <3> QED BY <3>2 DEF Lifecycle!Next
    <2> QED BY <2>2, <2>3
  <1>3. CASE OnSocketConnected
    <2>1. CASE state' = state /\ signals' = <<>>
      BY <2>1, SilentStep
    <2>2. CASE /\ link \in {"opening", "tcp"} /\ state' = "Negotiating"
               /\ signals' = StateSignal("Negotiating")
      <3>1. state = "Connecting"
        BY <2>2 DEF IInv, LinkMatchesState
      <3>2. signals' = <<"Negotiating">>
        BY <2>2, <3>1 DEF StateSignal
      <3> QED BY <2>2, <3>1, <3>2, EventsListed, EventStep
    <2> QED BY <1>3, <2>1, <2>2 DEF OnSocketConnected
  <1>4. CASE OnSocketError
    <2>1. state \in {"Connecting", "Negotiating", "Connected"}
      BY <1>4 DEF OnSocketError, IInv, LinkMatchesState
    <2>2. state' = "Error" /\ signals' = <<"Error", "errorOccurred">>
      BY <1>4, <2>1, PairJoined DEF OnSocketError, StateSignal
    <2>3. [next |-> state', signals |-> signals'] \in Lifecycle!Lost
      BY <2>2 DEF Lifecycle!Lost
    <2> QED BY <2>1, <2>3, EventsListed, EventStep
  <1>5. CASE OnSocketDisconnected
    <2>1. state = "Error"
      BY <1>5 DEF OnSocketDisconnected, IInv, LinkMatchesState
    <2>2. state' = "Disconnected" /\ signals' = <<"Disconnected", "disconnected">>
      BY <1>5, <2>1, PairJoined DEF OnSocketDisconnected, StateSignal
    <2>3. [next |-> state', signals |-> signals'] \in Lifecycle!Closed
      BY <2>2 DEF Lifecycle!Closed
    <2> QED BY <2>1, <2>3, EventsListed, EventStep
  <1>6. CASE OnSslErrors
    <2>1. state = "Connecting"
      BY <1>6 DEF OnSslErrors, IInv, LinkMatchesState
    <2>2. /\ state' = "Disconnected"
          /\ signals' = <<"Error", "errorOccurred", "Disconnected", "disconnected">>
      <3>1. signals' = <<"Error">>
              \o <<"errorOccurred", "Disconnected", "disconnected">>
        BY <1>6, <2>1 DEF OnSslErrors, StateSignal
      <3> QED BY <1>6, <3>1, QuadrupleJoined DEF OnSslErrors
    <2>3. [next |-> state', signals |-> signals'] \in Lifecycle!CertificateRefused
      BY <2>2 DEF Lifecycle!CertificateRefused
    <2> QED BY <2>1, <2>3, EventsListed, EventStep
  <1>7. CASE OnConnectTimeout
    <2>1. CASE state = "Connecting"
      <3>1. Abort(<<"errorOccurred">>)
        BY <1>7, <2>1 DEF OnConnectTimeout
      <3>2. /\ state' = "Disconnected"
            /\ signals' \in {<<"Disconnected", "errorOccurred">>,
                             <<"Disconnected", "disconnected", "errorOccurred">>}
        <4>1. /\ state' = "Disconnected"
              /\ signals' = StateSignal("Disconnected")
                   \o (IF link \in {"tcp", "up", "closing"} THEN <<"disconnected">> ELSE <<>>)
                   \o <<"errorOccurred">>
          BY <3>1 DEF Abort
        <4>2. StateSignal("Disconnected") = <<"Disconnected">>
          BY <2>1 DEF StateSignal
        <4>3. CASE link \in {"tcp", "up", "closing"}
          BY <4>1, <4>2, <4>3, PairJoined, TripleJoined
        <4>4. CASE link \notin {"tcp", "up", "closing"}
          BY <4>1, <4>2, <4>4, PairJoined, NothingJoined
        <4> QED BY <4>1, <4>3, <4>4
      <3>3. [next |-> state', signals |-> signals'] \in Lifecycle!GaveUp
        BY <3>2 DEF Lifecycle!GaveUp
      <3> QED BY <2>1, <3>3, EventsListed, EventStep
    <2>2. CASE state # "Connecting"
      BY <1>7, <2>2, SilentStep DEF OnConnectTimeout
    <2> QED BY <2>1, <2>2
  <1>8. CASE OnSocketReadyRead \/ HostData
    BY <1>8, SilentStep DEF OnSocketReadyRead, HostData, connection
  <1>9. ASSUME NEW verb, NEW opt,
               \/ RepeatedRequest(verb, opt) \/ HostWill(opt) \/ HostDo(opt)
               \/ HostWont(opt) \/ HostDont(opt)
        PROVE  Lifecycle!Next
    <2>1. reading /\ (NoHandshakeStep \/ CheckHandshakeComplete(handshakeBuffer))
      BY <1>9 DEF RepeatedRequest, HostWill, HostDo, HostWont, HostDont, CommandsTaken
    <2> QED BY <2>1, CheckLifecycle, SilentStep DEF NoHandshakeStep
  <1>10. CASE HostAsksTerminalType \/ \E asks \in BOOLEAN : HostSendsEnviron(asks)
    <2>1. reading /\ (NoHandshakeStep \/ CheckHandshakeComplete(handshakeBuffer))
      BY <1>10 DEF HostAsksTerminalType, HostSendsEnviron, CommandsTaken
    <2> QED BY <2>1, CheckLifecycle, SilentStep DEF NoHandshakeStep
  <1>11. CASE HostEndOfRecord
    <2>1. CASE Framing /\ FinishedRecord # <<>>
      <3>1. state = "Connected"
        BY <1>11, <2>1 DEF HostEndOfRecord, Framing, IInv, LinkMatchesState
      <3> QED BY <1>11, <2>1, <3>1, DataLifecycle DEF HostEndOfRecord, connection
    <2>2. CASE ~(Framing /\ FinishedRecord # <<>>)
      BY <1>11, <2>2, SilentStep DEF HostEndOfRecord, connection
    <2> QED BY <2>1, <2>2
  <1>12. CASE EndOfChunk
    <2>1. CASE NoHandshakeStep
      BY <2>1, SilentStep DEF NoHandshakeStep
    <2>2. CASE CheckHandshakeComplete(handshakeBuffer \o processed)
      BY <1>12, <2>2, CheckLifecycle DEF EndOfChunk
    <2>3. CASE handshakeComplete /\ signals' = <<"dataReceived">> /\ state' = state
      <3>1. state = "Connected"
        BY <1>12, <2>3 DEF EndOfChunk, IInv, LinkMatchesState
      <3> QED BY <2>3, <3>1, DataLifecycle
    <2> QED BY <1>12, <2>1, <2>2, <2>3 DEF EndOfChunk
  <1> QED
    BY <1>1, <1>2, <1>3, <1>4, <1>5, <1>6, <1>7, <1>8, <1>9, <1>10, <1>11, <1>12
    DEF Next, Owner, Socket, HostCommand

\* Whatever the host, the network and the owner do, the owner sees the states
\* and signals that ClientLifecycle promises, the promise SessionWorker is
\* written against (setState and every handler of TN5250Client).
THEOREM LifecycleKept == Spec => KeepsLifecycle
  <1>1. Init => Lifecycle!Init
    BY DEF Init, Lifecycle!Init
  <1>2. IInv /\ [Next]_vars => [Lifecycle!Next]_Lifecycle!lifecycleVars
    BY LifecycleStep
  <1> QED BY <1>1, <1>2, Inductive, PTL DEF Spec, KeepsLifecycle, Lifecycle!Spec

-----------------------------------------------------------------------------
(* The view of the screen: what is displayed of it.                        *)

\* The screens there may be, as one set.
Screen ==
  UNION {[rows : {size[1]}, cols : {size[2]},
          at : [(0 .. size[1] - 1) \X (0 .. size[2] - 1) -> Cell]] : size \in Nat \X Nat}

\* A screen is its size and its cells.
LEMMA ScreenParts ==
  ASSUME NEW s, IsScreen(s)
  PROVE  s = [rows |-> s.rows, cols |-> s.cols, at |-> s.at]
  <1> DEFINE A == [(0 .. s.rows - 1) \X (0 .. s.cols - 1) -> Cell]
  <1>1. s \in [rows : Nat, cols : Nat, at : A]
    BY DEF IsScreen
  <1> HIDE DEF A
  <1> QED BY <1>1, Zenon

LEMMA ScreenIs ==
  ASSUME NEW s
  PROVE  s \in Screen <=> IsScreen(s)
  <1>1. ASSUME IsScreen(s) PROVE s \in Screen
    <2>1. <<s.rows, s.cols>> \in Nat \X Nat
      BY <1>1 DEF IsScreen
    <2>2. s \in [rows : {s.rows}, cols : {s.cols}, at : [(0 .. s.rows - 1) \X (0 .. s.cols - 1) -> Cell]]
      <3> DEFINE A == [(0 .. s.rows - 1) \X (0 .. s.cols - 1) -> Cell]
      <3>1. s.at \in A
        BY <1>1 DEF IsScreen
      <3>2. s = [rows |-> s.rows, cols |-> s.cols, at |-> s.at]
        BY <1>1, ScreenParts
      <3> HIDE DEF A
      <3>3. s \in [rows : {s.rows}, cols : {s.cols}, at : A]
        BY <3>1, <3>2
      <3> QED BY <3>3 DEF A
    <2> DEFINE size == <<s.rows, s.cols>>
    <2>3. size \in Nat \X Nat /\ size[1] = s.rows /\ size[2] = s.cols
      BY <2>1
    <2> HIDE DEF size
    <2> QED BY <2>2, <2>3 DEF Screen
  <1>2. ASSUME s \in Screen PROVE IsScreen(s)
    <2>1. PICK size \in Nat \X Nat :
            s \in [rows : {size[1]}, cols : {size[2]},
                   at : [(0 .. size[1] - 1) \X (0 .. size[2] - 1) -> Cell]]
      BY <1>2 DEF Screen
    <2>2. s.rows = size[1] /\ s.cols = size[2]
      BY <2>1
    <2> QED BY <2>1, <2>2 DEF IsScreen
  <1> QED BY <1>1, <1>2

LEMMA BlankIsCell == Blank \in Cell
  BY CharactersAssumption DEF Blank, Cell

\* A cell, whatever is hidden, is shown as no "*".
LEMMA ShownIs ==
  ASSUME NEW s, IsScreen(s), NEW r, NEW c
  PROVE  /\ CellAt(s, r, c) \in Cell
         /\ displayedCharacter(s, r, c) \in Characters \ {"*"}
  <1>1. CellAt(s, r, c) \in Cell
    BY BlankIsCell DEF CellAt, IsScreen
  <1> QED BY <1>1, CharactersAssumption DEF displayedCharacter, Cell

\* The screen as it is displayed, spelled out.
LEMMA AsDisplayedIs ==
  ASSUME NEW s, IsScreen(s)
  PROVE  /\ IsScreen(AsDisplayed(s))
         /\ AsDisplayed(s).rows = s.rows /\ AsDisplayed(s).cols = s.cols
         /\ AsDisplayed(s).at =
              [p \in DOMAIN s.at |-> [char |-> displayedCharacter(s, p[1], p[2]), hidden |-> s.at[p].hidden]]
  <1> DEFINE P == (0 .. s.rows - 1) \X (0 .. s.cols - 1)
             new == [p \in P |-> [s.at[p] EXCEPT !.char = displayedCharacter(s, p[1], p[2])]]
             shown == [p \in P |-> [char |-> displayedCharacter(s, p[1], p[2]), hidden |-> s.at[p].hidden]]
  <1>1. s \in [rows : Nat, cols : Nat, at : [P -> Cell]] /\ DOMAIN s.at = P
    BY DEF IsScreen
  <1>2. ASSUME NEW p \in P
        PROVE  /\ [s.at[p] EXCEPT !.char = displayedCharacter(s, p[1], p[2])]
                   = [char |-> displayedCharacter(s, p[1], p[2]), hidden |-> s.at[p].hidden]
               /\ [char |-> displayedCharacter(s, p[1], p[2]), hidden |-> s.at[p].hidden] \in Cell
    <2>1. s.at[p] \in [char : Characters, hidden : BOOLEAN]
      BY <1>1, <1>2 DEF Cell
    <2>2. displayedCharacter(s, p[1], p[2]) \in Characters \ {"*"}
      BY ShownIs
    <2> QED BY <2>1, <2>2 DEF Cell
  <1>3. new = shown
    BY <1>2
  <1>4. shown \in [P -> Cell]
    BY <1>2
  <1>5. AsDisplayed(s) = [s EXCEPT !.at = new]
    BY <1>1 DEF AsDisplayed
  <1> HIDE DEF new, shown
  <1>6. AsDisplayed(s) = [rows |-> s.rows, cols |-> s.cols, at |-> shown]
    BY <1>1, <1>3, <1>5
  <1>7. AsDisplayed(s).rows = s.rows /\ AsDisplayed(s).cols = s.cols /\ AsDisplayed(s).at = shown
    BY <1>6
  <1>8. IsScreen(AsDisplayed(s))
    BY <1>1, <1>4, <1>6, <1>7 DEF IsScreen
  <1> QED BY <1>1, <1>7, <1>8 DEF shown

\* What is displayed of it is the same, cell by cell.
LEMMA SameCharacters ==
  ASSUME NEW s, IsScreen(s), NEW r, NEW c
  PROVE  displayedCharacter(AsDisplayed(s), r, c) = displayedCharacter(s, r, c)
  <1>1. DOMAIN AsDisplayed(s).at = DOMAIN s.at
    BY AsDisplayedIs
  <1>2. CASE <<r, c>> \in DOMAIN s.at
    <2>1. AsDisplayed(s).at[<<r, c>>] =
            [char |-> displayedCharacter(s, r, c), hidden |-> s.at[<<r, c>>].hidden]
      <3> DEFINE p == <<r, c>>
      <3>1. p[1] = r /\ p[2] = c
        OBVIOUS
      <3>2. p \in DOMAIN s.at
        BY <1>2
      <3> HIDE DEF p
      <3>3. AsDisplayed(s).at =
              [q \in DOMAIN s.at |-> [char |-> displayedCharacter(s, q[1], q[2]), hidden |-> s.at[q].hidden]]
        BY AsDisplayedIs
      <3>4. AsDisplayed(s).at[p] =
              [char |-> displayedCharacter(s, p[1], p[2]), hidden |-> s.at[p].hidden]
        BY <3>2, <3>3
      <3> QED BY <3>1, <3>4 DEF p
    <2>2. CellAt(AsDisplayed(s), r, c) = [char |-> displayedCharacter(s, r, c), hidden |-> s.at[<<r, c>>].hidden]
      BY <1>1, <1>2, <2>1 DEF CellAt
    <2>3. CellAt(s, r, c) = s.at[<<r, c>>]
      BY <1>2 DEF CellAt
    <2>4. s.at[<<r, c>>].hidden \in BOOLEAN
      BY <1>2 DEF IsScreen, Cell
    <2>5. displayedCharacter(AsDisplayed(s), r, c) =
            (IF s.at[<<r, c>>].hidden THEN " " ELSE displayedCharacter(s, r, c))
      <3> DEFINE shown == displayedCharacter(s, r, c)
                 x == CellAt(AsDisplayed(s), r, c)
      <3>1. x.char = shown /\ x.hidden = s.at[<<r, c>>].hidden
        BY <2>2
      <3>2. displayedCharacter(AsDisplayed(s), r, c) = (IF x.hidden THEN " " ELSE x.char)
        BY DEF displayedCharacter
      <3> QED BY <2>4, <3>1, <3>2
    <2>6. displayedCharacter(s, r, c) = (IF s.at[<<r, c>>].hidden THEN " " ELSE s.at[<<r, c>>].char)
      BY <2>3 DEF displayedCharacter
    <2> QED BY <2>4, <2>5, <2>6
  <1>3. CASE <<r, c>> \notin DOMAIN s.at
    BY <1>1, <1>3 DEF displayedCharacter, CellAt
  <1> QED BY <1>2, <1>3

\* So is each row as text.
LEMMA SameRows ==
  ASSUME NEW s, IsScreen(s), NEW r
  PROVE  Row(AsDisplayed(s), r) = Row(s, r)
  <1>1. \A i \in 1 .. s.cols : displayedCharacter(AsDisplayed(s), r, i - 1) = displayedCharacter(s, r, i - 1)
    BY SameCharacters
  <1>2. AsDisplayed(s).cols = s.cols
    BY AsDisplayedIs
  <1> QED BY <1>1, <1>2 DEF Row

\* Nothing that is derived tells a screen from what is displayed of it.
LEMMA SameDerived ==
  ASSUME NEW s, IsScreen(s)
  PROVE  /\ Text(AsDisplayed(s)) = Text(s)
         /\ \A m : rebuildOverlay(m, AsDisplayed(s)) = rebuildOverlay(m, s)
         /\ \A on : detect(on, AsDisplayed(s)) = detect(on, s)
         /\ AsDisplayed(AsDisplayed(s)) = AsDisplayed(s)
  <1> DEFINE t == AsDisplayed(s)
  <1>0. /\ IsScreen(t) /\ t.rows = s.rows /\ t.cols = s.cols /\ DOMAIN t.at = DOMAIN s.at
        /\ t.at = [p \in DOMAIN s.at |-> [char |-> displayedCharacter(s, p[1], p[2]), hidden |-> s.at[p].hidden]]
    BY AsDisplayedIs
  <1>1. \A r : Row(t, r) = Row(s, r)
    BY SameRows
  <1>2. \A r, c : displayedCharacter(t, r, c) = displayedCharacter(s, r, c)
    BY SameCharacters
  <1>3. /\ AsDisplayed(t).rows = t.rows /\ AsDisplayed(t).cols = t.cols
        /\ IsScreen(AsDisplayed(t))
        /\ AsDisplayed(t).at =
             [p \in DOMAIN t.at |-> [char |-> displayedCharacter(t, p[1], p[2]), hidden |-> t.at[p].hidden]]
    BY <1>0, AsDisplayedIs
  <1> HIDE DEF t
  <1>4. Text(t) = Text(s)
    <2>1. [i \in 1 .. s.rows |-> Row(t, i - 1)] = [i \in 1 .. s.rows |-> Row(s, i - 1)]
      BY <1>1
    <2> QED BY <1>0, <2>1 DEF Text
  <1>5. ASSUME NEW m PROVE rebuildOverlay(m, t) = rebuildOverlay(m, s)
    <2> DEFINE N == s.rows * s.cols - 1
               of(line, i) ==
                 LET replaced == IF m.on THEN applyRules(m.rules, line) ELSE line
                 IN  IF Padded(replaced, i) = line[i] THEN "none" ELSE Padded(replaced, i)
               f == [a \in 0 .. N |-> of(Row(t, a \div s.cols), (a % s.cols) + 1)]
               g == [a \in 0 .. N |-> of(Row(s, a \div s.cols), (a % s.cols) + 1)]
    <2>1. rebuildOverlay(m, s) = [cols |-> s.cols, at |-> g]
      BY Zenon DEF rebuildOverlay
    <2>2. rebuildOverlay(m, t) = [cols |-> s.cols, at |-> f]
      BY <1>0, Zenon DEF rebuildOverlay
    <2> HIDE DEF of
    <2>3. f = g
      BY <1>1
    <2> QED BY <2>1, <2>2, <2>3, Zenon
  <1>6. ASSUME NEW on PROVE detect(on, t) = detect(on, s)
    <2>1. {p \in DOMAIN t.at : displayedCharacter(t, p[1], p[2]) = "F"}
            = {p \in DOMAIN s.at : displayedCharacter(s, p[1], p[2]) = "F"}
      BY <1>0, <1>2
    <2> QED BY <2>1, Zenon DEF detect
  <1>7. AsDisplayed(t) = t
    <2>1. AsDisplayed(t).at = t.at
      <3>1. \A p \in DOMAIN s.at : t.at[p].hidden = s.at[p].hidden
        BY <1>0
      <3> QED BY <1>0, <1>2, <1>3, <3>1
    <2>2. AsDisplayed(t) = [rows |-> t.rows, cols |-> t.cols, at |-> t.at]
      BY <1>3, <2>1, ScreenParts
    <2>3. t = [rows |-> t.rows, cols |-> t.cols, at |-> t.at]
      BY <1>0, ScreenParts
    <2> QED BY <2>2, <2>3
  <1> QED BY <1>4, <1>5, <1>6, <1>7 DEF t

-----------------------------------------------------------------------------
(* What the widget keeps.                                                  *)

\* The screens and the row below a message, as they are drawn.
ScreensOK ==
  /\ IsScreen(live) /\ savedLine \in Seq(Cell)
  /\ history \in Seq(Screen)
  /\ \A i \in 1 .. Len(history) : history[i] = AsDisplayed(history[i])

\* The screen viewed is one of the history, which its label says.
HistoryOK ==
  /\ Len(history) <= MaxDepth
  /\ index \in Int /\ -1 <= index /\ index < Len(history)
  /\ label = HistoryLabel(index, Len(history))

\* What is derived is derived of the live screen, unless it was made before a change
\* that was not announced.
DerivedOK ==
  /\ settling \in BOOLEAN
  /\ "history" \notin stale /\ ~settling => Text(history[1]) = Text(live)
  /\ "overlay" \notin stale /\ matching.on => overlay = rebuildOverlay(matching, live)
  /\ "hotspots" \notin stale => hotspots = detect(hotspots.on, live)

\* What was copied was displayed.
CopiedOK == \A row \in ToSet(clipboard) : "*" \notin ToSet(row)

ViewInv == ScreensOK /\ HistoryOK /\ DerivedOK /\ CopiedOK

\* The invariant says what the property does, of the live screen itself.
LEMMA ViewInvCurrent == ViewInv => DerivedIsCurrent
  <1> SUFFICES ASSUME ViewInv PROVE DerivedIsCurrent
    OBVIOUS
  <1>1. /\ \A m : rebuildOverlay(m, AsDisplayed(live)) = rebuildOverlay(m, live)
        /\ \A on : detect(on, AsDisplayed(live)) = detect(on, live)
    BY SameDerived DEF ViewInv, ScreensOK
  <1>2. DOMAIN history = 1 .. Len(history)
    BY DEF ViewInv, ScreensOK
  <1> QED BY <1>1, <1>2, Zenon DEF ViewInv, ScreensOK, DerivedOK, CopiedOK, DerivedIsCurrent

LEMMA ViewStarts == ViewInit => ViewInv
  <1> SUFFICES ASSUME ViewInit PROVE ViewInv
    OBVIOUS
  <1>1. ScreensOK
    BY ScreensAssumption DEF ViewInit, ScreensOK
  <1>2. HistoryOK
    BY MaxDepthAssumption DEF ViewInit, HistoryOK, HistoryLabel
  <1>3. DerivedOK
    <2>1. hotspots.on = FALSE /\ hotspots = detect(FALSE, live)
      BY DEF ViewInit, detect
    <2> QED BY <2>1 DEF ViewInit, DerivedOK
  <1>4. CopiedOK
    BY DEF ViewInit, CopiedOK, ToSet
  <1> QED BY <1>1, <1>2, <1>3, <1>4 DEF ViewInv

\* The live screen with another last row.
LEMMA PatchedIs ==
  ASSUME NEW s, IsScreen(s), NEW line \in Seq(Cell)
  PROVE  IsScreen(WithLastRow(s, line))
  <1> DEFINE P == (0 .. s.rows - 1) \X (0 .. s.cols - 1)
             at == [p \in P |-> IF p[1] = s.rows - 1 /\ p[2] < Len(line) THEN line[p[2] + 1] ELSE s.at[p]]
  <1>1. s \in [rows : Nat, cols : Nat, at : [P -> Cell]] /\ DOMAIN s.at = P
    BY DEF IsScreen
  <1>2. at \in [P -> Cell]
    <2> SUFFICES ASSUME NEW p \in P
                 PROVE  (IF p[1] = s.rows - 1 /\ p[2] < Len(line) THEN line[p[2] + 1] ELSE s.at[p]) \in Cell
      OBVIOUS
    <2>1. p[2] \in Nat
      OBVIOUS
    <2> QED BY <1>1, <2>1
  <1>3. WithLastRow(s, line) = [s EXCEPT !.at = at]
    BY <1>1 DEF WithLastRow
  <1> HIDE DEF at
  <1>4. WithLastRow(s, line) = [rows |-> s.rows, cols |-> s.cols, at |-> at]
    BY <1>1, <1>3
  <1> QED BY <1>1, <1>2, <1>4 DEF IsScreen

\* The row below a message and the message itself are rows of cells.
LEMMA LastRowIs ==
  ASSUME NEW s, IsScreen(s)
  PROVE  LastRow(s) \in Seq(Cell) /\ Message(s) \in Seq(Cell)
  <1>1. \A r, c : CellAt(s, r, c) \in Cell
    BY ShownIs
  <1>2. s.cols \in Nat
    BY DEF IsScreen
  <1>3. \A i \in DOMAIN ErrorText : [char |-> ErrorText[i], hidden |-> FALSE] \in Cell
    <2> SUFFICES ASSUME NEW i \in DOMAIN ErrorText
                 PROVE  [char |-> ErrorText[i], hidden |-> FALSE] \in Cell
      OBVIOUS
    <2> DEFINE S == Characters \ {"*"}
    <2>1. ErrorText \in Seq(S)
      BY CharactersAssumption
    <2> HIDE DEF S
    <2>2. ErrorText[i] \in S
      BY <2>1
    <2> QED BY <2>2 DEF Cell, S
  <1> QED BY <1>1, <1>2, <1>3, BlankIsCell DEF LastRow, Message

\* Changes of which the buffer announces a: all of them, or all but the hiding.
AnnouncedAs(a, s) ==
  /\ live' = s /\ onScreenChanged(a)
  /\ a = s \/ {"overlay", "hotspots"} \subseteq stale'

LEMMA Announced ==
  ASSUME ViewInv, NEW s, IsScreen(s), NEW a, AnnouncedAs(a, s), UNCHANGED history
  PROVE  DerivedOK' /\ IsScreen(live)'
  <1>1. hotspots' = detect(hotspots'.on, a)
    BY DEF AnnouncedAs, onScreenChanged, detect
  <1>2. matching'.on => overlay' = rebuildOverlay(matching', a)
    BY DEF AnnouncedAs, onScreenChanged
  <1>3. live' = s /\ settling' = TRUE /\ (a = s \/ ("overlay" \in stale' /\ "hotspots" \in stale'))
    BY DEF AnnouncedAs, onScreenChanged
  <1>4. CASE a = s
    BY <1>1, <1>2, <1>3, <1>4, Zenon DEF DerivedOK
  <1>5. CASE "overlay" \in stale' /\ "hotspots" \in stale'
    BY <1>3, <1>5, Zenon DEF DerivedOK
  <1> QED BY <1>3, <1>4, <1>5

\* What a step leaves alone stays as it was.
LEMMA PastKept ==
  ASSUME ViewInv, UNCHANGED <<history, index, label>>
  PROVE  HistoryOK'
  BY DEF ViewInv, HistoryOK

LEMMA DerivedKept ==
  ASSUME ViewInv, UNCHANGED <<live, stale, past, derived>>
  PROVE  DerivedOK'
  BY DEF ViewInv, DerivedOK, past, derived

LEMMA ScreensKept ==
  ASSUME ViewInv, UNCHANGED history, IsScreen(live)', savedLine' \in Seq(Cell)
  PROVE  ScreensOK'
  BY DEF ViewInv, ScreensOK

LEMMA CopyKept ==
  ASSUME ViewInv, UNCHANGED clipboard
  PROVE  CopiedOK'
  BY DEF ViewInv, CopiedOK

\* A snapshot in front of the history, at most MaxDepth of it kept.
LEMMA PushIs ==
  ASSUME ViewInv, NEW snap \in Screen
  PROVE  /\ push(snap) \in Seq(Screen)
         /\ Len(push(snap)) = (IF Len(history) < MaxDepth THEN Len(history) + 1 ELSE MaxDepth)
         /\ push(snap)[1] = snap
         /\ \A i \in 2 .. Len(push(snap)) : push(snap)[i] = history[i - 1]
  <1> DEFINE n == Min({Len(history) + 1, MaxDepth})
             all == <<snap>> \o history
  <1>0. /\ history \in Seq(Screen) /\ Len(history) \in Nat /\ Len(history) <= MaxDepth
        /\ MaxDepth \in Nat /\ MaxDepth >= 1
    BY MaxDepthAssumption DEF ViewInv, ScreensOK, HistoryOK
  <1>1. n = (IF Len(history) < MaxDepth THEN Len(history) + 1 ELSE MaxDepth)
    BY <1>0 DEF Min
  <1>2. /\ all \in Seq(Screen) /\ Len(all) = Len(history) + 1
        /\ all[1] = snap /\ \A i \in 2 .. Len(history) + 1 : all[i] = history[i - 1]
    BY <1>0
  <1> HIDE DEF n, all
  <1>3. n \in 1 .. Len(all)
    BY <1>0, <1>1, <1>2
  <1>4. /\ SubSeq(all, 1, n) \in Seq(Screen) /\ Len(SubSeq(all, 1, n)) = n
        /\ \A i \in 1 .. n : SubSeq(all, 1, n)[i] = all[i]
    BY <1>2, <1>3
  <1>5. push(snap) = SubSeq(all, 1, n)
    BY DEF push, n, all
  <1> QED BY <1>0, <1>1, <1>2, <1>3, <1>4, <1>5

-----------------------------------------------------------------------------
(* The steps.                                                              *)

\* The viewed screen is the one it was, or the user left it, or it fell off the end
\* of a full history.
StaysShown ==
  Viewing => \/ index' >= 0 /\ displayedBuffer' = displayedBuffer
             \/ User
             \/ index' = -1 /\ index + 1 = MaxDepth /\ Len(history) = MaxDepth

LEMMA KeptAsIs ==
  ASSUME ViewInv, UNCHANGED <<history, index, label>>
  PROVE  HistoryOK' /\ StaysShown
  BY PastKept DEF ViewInv, HistoryOK, StaysShown, Viewing, displayedBuffer

\* A record, a message: any step that draws.
LEMMA DrawKeeps ==
  ASSUME ViewInv, NEW s, IsScreen(s), NEW a, AnnouncedAs(a, s),
         savedLine' \in Seq(Cell), UNCHANGED <<history, index, label, clipboard>>
  PROVE  ViewInv' /\ StaysShown
  <1>1. DerivedOK' /\ IsScreen(live)'
    BY Announced
  <1>2. ScreensOK'
    BY <1>1, ScreensKept
  <1> QED BY <1>1, <1>2, KeptAsIs, CopyKept DEF ViewInv

\* A step of the mouse.
LEMMA RestKeeps ==
  ASSUME ViewInv, UNCHANGED <<live, savedLine, stale, past, derived>>, CopiedOK'
  PROVE  ViewInv' /\ StaysShown
  <1>1. UNCHANGED <<history, index, label>>
    BY DEF past
  <1>2. ScreensOK' /\ DerivedOK'
    BY <1>1, ScreensKept, DerivedKept DEF ViewInv, ScreensOK
  <1> QED BY <1>1, <1>2, KeptAsIs DEF ViewInv

\* The row below the message is put back, which nobody hears of.
LEMMA ErrorResetKeeps ==
  ASSUME ViewInv, ErrorReset
  PROVE  ViewInv' /\ StaysShown
  <1>1. UNCHANGED <<history, index, label, settling, matching, overlay, hotspots, clipboard>>
    BY DEF ErrorReset, past, derived, mouse
  <1>2. IsScreen(live)' /\ savedLine' \in Seq(Cell)
    BY PatchedIs DEF ErrorReset, ViewInv, ScreensOK
  <1>3. DerivedOK'
    <2>1. CASE live' = live
      BY <1>1, <2>1 DEF ErrorReset, ViewInv, DerivedOK
    <2>2. CASE live' # live
      <3>1. stale' = {"history", "overlay", "hotspots"}
        BY <2>2 DEF ErrorReset
      <3> QED BY <1>1, <3>1 DEF ViewInv, DerivedOK
    <2> QED BY <2>1, <2>2
  <1> QED BY <1>1, <1>2, <1>3, ScreensKept, KeptAsIs, CopyKept DEF ViewInv

\* The user goes to a screen of the history, or back to the live one.
LEMMA ViewKeeps ==
  ASSUME ViewInv, NEW i \in Int, i >= -1, View(i), User
  PROVE  ViewInv' /\ StaysShown
  <1>1. UNCHANGED <<live, savedLine, stale, history, settling, matching, overlay, hotspots, clipboard>>
    BY DEF View, derived, mouse
  <1>2. HistoryOK'
    BY <1>1 DEF View, historyViewChanged, ViewInv, HistoryOK
  <1>3. ScreensOK'
    BY <1>1, ScreensKept DEF ViewInv, ScreensOK
  <1>4. DerivedOK'
    BY <1>1 DEF ViewInv, DerivedOK
  <1> QED BY <1>1, <1>2, <1>3, <1>4, CopyKept DEF ViewInv, StaysShown

LEMMA UserKeeps ==
  ASSUME ViewInv, User
  PROVE  ViewInv' /\ StaysShown
  <1>1. index \in Int /\ -1 <= index
    BY DEF ViewInv, HistoryOK
  <1>2. CASE onHistoryBack
    BY <1>1, <1>2, ViewKeeps DEF onHistoryBack
  <1>3. CASE onHistoryForward
    BY <1>1, <1>3, ViewKeeps DEF onHistoryForward, Viewing
  <1>4. CASE onHistoryExit
    BY <1>4, ViewKeeps DEF onHistoryExit, exitHistoryView
  <1> QED BY <1>2, <1>3, <1>4 DEF User

\* The screen has settled: it is the newest of the history.
LEMMA PushKeeps ==
  ASSUME ViewInv, pushScreenToHistory
  PROVE  ViewInv' /\ StaysShown
  <1>1. /\ UNCHANGED <<live, savedLine, matching, overlay, hotspots, clipboard>> /\ settling' = FALSE
        /\ stale' = stale \ {"history"}
    BY DEF pushScreenToHistory, derived, mouse
  <1>2. CASE history # <<>> /\ Text(history[1]) = Text(live)
    <2>1. UNCHANGED <<history, index, label>>
      BY <1>2 DEF pushScreenToHistory
    <2>2. ScreensOK'
      BY <1>1, <2>1, ScreensKept DEF ViewInv, ScreensOK
    <2>3. DerivedOK'
      BY <1>1, <1>2, <2>1 DEF ViewInv, DerivedOK
    <2> QED BY <1>1, <2>1, <2>2, <2>3, KeptAsIs, CopyKept DEF ViewInv
  <1>3. CASE ~(history # <<>> /\ Text(history[1]) = Text(live))
    <2> DEFINE snap == AsDisplayed(live)
               dropped == Viewing /\ Len(history) >= MaxDepth /\ index = Len(history) - 1
    <2>1. /\ history' = push(snap)
          /\ index' = Followed(dropped) /\ label' = HistoryLabel(index', Len(history'))
      BY <1>3 DEF pushScreenToHistory, historyViewChanged
    <2>2. snap \in Screen /\ snap = AsDisplayed(snap) /\ Text(snap) = Text(live)
      BY AsDisplayedIs, SameDerived, ScreenIs DEF ViewInv, ScreensOK
    <2> HIDE DEF snap
    <2>3. /\ history' \in Seq(Screen)
          /\ Len(history') = (IF Len(history) < MaxDepth THEN Len(history) + 1 ELSE MaxDepth)
          /\ history'[1] = snap
          /\ \A i \in 2 .. Len(history') : history'[i] = history[i - 1]
      BY <2>1, <2>2, PushIs
    <2>4. /\ Len(history) \in Nat /\ Len(history) <= MaxDepth /\ MaxDepth \in Nat /\ MaxDepth >= 1
          /\ index \in Int /\ -1 <= index /\ index < Len(history)
      BY MaxDepthAssumption DEF ViewInv, ScreensOK, HistoryOK
    <2>5. /\ index' \in Int /\ -1 <= index' /\ index' < Len(history')
          /\ Viewing /\ ~dropped => index' = index + 1
          /\ dropped => index' = -1 /\ index + 1 = MaxDepth /\ Len(history) = MaxDepth
      BY <2>1, <2>3, <2>4 DEF Followed, Viewing
    <2>6. HistoryOK'
      BY <2>1, <2>3, <2>4, <2>5 DEF HistoryOK
    <2>7. \A i \in 1 .. Len(history') : history'[i] = AsDisplayed(history'[i])
      <3> SUFFICES ASSUME NEW i \in 1 .. Len(history')
                   PROVE  history'[i] = AsDisplayed(history'[i])
        OBVIOUS
      <3>1. CASE i = 1
        BY <2>2, <2>3, <3>1
      <3>2. CASE i # 1
        <4>1. i - 1 \in 1 .. Len(history) /\ history'[i] = history[i - 1]
          BY <2>3, <2>4, <3>2
        <4> QED BY <4>1 DEF ViewInv, ScreensOK
      <3> QED BY <3>1, <3>2
    <2>8. ScreensOK'
      BY <1>1, <2>3, <2>7 DEF ViewInv, ScreensOK
    <2>9. DerivedOK'
      BY <1>1, <2>2, <2>3 DEF ViewInv, DerivedOK
    <2>10. StaysShown
      <3> SUFFICES ASSUME Viewing, ~dropped
                   PROVE  index' >= 0 /\ displayedBuffer' = displayedBuffer
        BY <2>5 DEF StaysShown
      <3>1. index' = index + 1 /\ index >= 0
        BY <2>5 DEF Viewing
      <3>2. history'[index' + 1] = history[index + 1]
        <4>1. index + 2 \in 2 .. Len(history')
          BY <2>4, <2>5, <3>1
        <4> QED BY <2>3, <2>4, <3>1, <4>1
      <3> QED BY <2>4, <3>1, <3>2 DEF displayedBuffer, Viewing
    <2> QED BY <1>1, <2>6, <2>8, <2>9, <2>10, CopyKept DEF ViewInv
  <1> QED BY <1>2, <1>3

\* What Copy takes is what is displayed, of the live screen or a past one.
LEMMA CopyTakes ==
  ASSUME ViewInv, copySelection
  PROVE  CopiedOK'
  <1>1. IsScreen(displayedBuffer)
    <2>1. Viewing => index + 1 \in 1 .. Len(history)
      BY DEF ViewInv, ScreensOK, HistoryOK, Viewing
    <2>2. Viewing => IsScreen(history[index + 1])
      BY <2>1, ScreenIs DEF ViewInv, ScreensOK
    <2> QED BY <2>2 DEF displayedBuffer, ViewInv, ScreensOK
  <1>2. \A r, c : displayedCharacter(displayedBuffer, r, c) # "*"
    BY <1>1, ShownIs
  <1> DEFINE between(k, size) == LET ends == {selection[1][k], selection[2][k]}
                                 IN  {x \in Min(ends) .. Max(ends) : x < size}
             rows == between(1, displayedBuffer.rows)
             cols == between(2, displayedBuffer.cols)
             n == Cardinality(rows)
             m == Cardinality(cols)
             top == Min(rows)
             left == Min(cols)
  <1>3. clipboard' = [i \in 1 .. n |-> [j \in 1 .. m |->
                        displayedCharacter(displayedBuffer, top + i - 1, left + j - 1)]]
    BY Zenon DEF copySelection
  <1> HIDE DEF n, m, top, left
  <1> SUFFICES ASSUME NEW row \in ToSet(clipboard') PROVE "*" \notin ToSet(row)
    BY DEF CopiedOK
  <1>4. PICK i \in 1 .. n : row = [j \in 1 .. m |->
                          displayedCharacter(displayedBuffer, top + i - 1, left + j - 1)]
    BY <1>3 DEF ToSet
  <1> QED BY <1>2, <1>4 DEF ToSet

\* The menus' switches and rules.
LEMMA MatchKeeps ==
  ASSUME ViewInv, NEW m, SetMatching(m)
  PROVE  ViewInv' /\ StaysShown
  <1>1. /\ UNCHANGED <<live, savedLine, history, index, settling, label, hotspots, clipboard>>
        /\ stale' = stale \ {"overlay"} /\ matching' = m /\ overlay' = rebuildOverlay(m, live)
    BY DEF SetMatching, refreshMatchReplaceOverlay, past, mouse
  <1>2. ScreensOK'
    BY <1>1, ScreensKept DEF ViewInv, ScreensOK
  <1>3. DerivedOK'
    BY <1>1 DEF ViewInv, DerivedOK
  <1> QED BY <1>1, <1>2, <1>3, KeptAsIs, CopyKept DEF ViewInv

LEMMA HotspotsKeep ==
  ASSUME ViewInv, onToggleHotspots
  PROVE  ViewInv' /\ StaysShown
  <1>1. /\ UNCHANGED <<live, savedLine, history, index, settling, label, matching, overlay, clipboard>>
        /\ stale' = stale \ {"hotspots"} /\ hotspots' = detect(~hotspots.on, live)
    BY DEF onToggleHotspots, past, mouse
  <1>2. ScreensOK'
    BY <1>1, ScreensKept DEF ViewInv, ScreensOK
  <1>3. hotspots' = detect(hotspots'.on, live)
    BY <1>1 DEF detect
  <1>4. DerivedOK'
    BY <1>1, <1>3 DEF ViewInv, DerivedOK
  <1> QED BY <1>1, <1>2, <1>4, KeptAsIs, CopyKept DEF ViewInv

LEMMA MouseKeeps ==
  ASSUME ViewInv, Mouse
  PROVE  ViewInv' /\ StaysShown
  <1>1. CASE \E cell \in Pointed \cap DOMAIN live.at : mousePress(cell) \/ mouseMove(cell)
    BY <1>1, RestKeeps, CopyKept DEF mousePress, mouseMove
  <1>2. CASE clearSelection \/ selectAll
    BY <1>2, RestKeeps, CopyKept DEF clearSelection, selectAll, Select
  <1>3. CASE copySelection
    BY <1>3, RestKeeps, CopyTakes DEF copySelection
  <1>4. CASE mouseRelease
    <2>1. UNCHANGED clipboard
      BY <1>4 DEF mouseRelease
    <2>2. CASE UNCHANGED <<live, keyboard, savedLine, stale, past, derived>>
      BY <2>1, <2>2, RestKeeps, CopyKept
    <2>3. CASE SendHotspot
      <3>1. UNCHANGED <<savedLine, history, index, label>>
        BY <2>3 DEF SendHotspot
      <3>2. CASE Redraw(live)
        <4>1. AnnouncedAs(live, live)
          BY <3>2 DEF Redraw, AnnouncedAs
        <4> QED BY <2>1, <3>1, <4>1, DrawKeeps DEF ViewInv, ScreensOK
      <3>3. CASE UNCHANGED <<live, stale, settling, derived>>
        BY <2>1, <3>1, <3>3, RestKeeps, CopyKept DEF past
      <3> QED BY <2>3, <3>2, <3>3 DEF SendHotspot
    <2> QED BY <1>4, <2>2, <2>3 DEF mouseRelease
  <1> QED BY <1>1, <1>2, <1>3, <1>4 DEF Mouse

\* Every step keeps the invariant, and the screen that is viewed.
LEMMA ViewSteps ==
  ASSUME ViewInv, ViewNext
  PROVE  ViewInv' /\ StaysShown
  <1>1. CASE \E s \in Screens : Draw(s)
    <2>1. PICK s \in Screens : Draw(s)
      BY <1>1
    <2>2. IsScreen(s)
      BY ScreensAssumption
    <2>3. UNCHANGED <<savedLine, history, index, label, clipboard>>
      BY <2>1 DEF Draw, mouse
    <2>4. PICK a \in LastAnnounced[s] : AnnouncedAs(a, s)
      BY <2>1 DEF Draw, AnnouncedAs
    <2> QED BY <2>2, <2>3, <2>4, DrawKeeps DEF ViewInv, ScreensOK
  <1>2. CASE pushScreenToHistory
    BY <1>2, PushKeeps
  <1>3. CASE User
    BY <1>3, UserKeeps
  <1>4. CASE onToggleHotspots
    BY <1>4, HotspotsKeep
  <1>5. CASE WriteErrorCode
    <2>1. IsScreen(live) /\ LastRow(live) \in Seq(Cell) /\ Message(live) \in Seq(Cell)
      BY LastRowIs DEF ViewInv, ScreensOK
    <2>2. IsScreen(WithLastRow(live, Message(live)))
      BY <2>1, PatchedIs
    <2>3. /\ savedLine' = LastRow(live)
          /\ AnnouncedAs(WithLastRow(live, Message(live)), WithLastRow(live, Message(live)))
          /\ UNCHANGED <<history, index, label, clipboard>>
      BY <1>5 DEF WriteErrorCode, Redraw, AnnouncedAs, mouse
    <2> QED BY <2>1, <2>2, <2>3, DrawKeeps
  <1>6. CASE ErrorReset
    BY <1>6, ErrorResetKeeps
  <1>7. CASE Match
    BY <1>7, MatchKeeps DEF Match, onToggleMatchReplace, onEditMatchReplacePatterns
  <1>8. CASE Mouse
    BY <1>8, MouseKeeps
  <1> QED BY <1>1, <1>2, <1>3, <1>4, <1>5, <1>6, <1>7, <1>8 DEF ViewNext, Watch, Errors

LEMMA ViewStutters ==
  ASSUME ViewInv, UNCHANGED viewVars
  PROVE  ViewInv' /\ StaysShown
  <1>1. UNCHANGED <<live, savedLine, stale, past, derived, clipboard>>
    BY DEF viewVars, mouse
  <1> QED BY <1>1, RestKeeps, CopyKept

LEMMA ViewKeptInv == ViewSpec => []ViewInv
  <1>1. ViewInv /\ [ViewNext]_viewVars => ViewInv'
    BY ViewSteps, ViewStutters
  <1> QED BY <1>1, ViewStarts, PTL DEF ViewSpec

\* In any order of records, error messages, resets, rules, switches and copies, the
\* newest snapshot of a settled screen, the overlay and the hotspots are those of the
\* screen as it is displayed, save those made before a change that was not announced
\* and not made again since: an Error Reset's row, a field that the last Start Field of
\* a record hides or shows. Neither the history nor the clipboard ever tells a hidden
\* character (Q5250ScreenWidget.cpp, onScreenChanged, pushScreenToHistory and
\* copySelection).
THEOREM DerivedStaysCurrent == ViewSpec => []DerivedIsCurrent
  BY ViewKeptInv, ViewInvCurrent, PTL

\* Whatever is pushed in front of it, drawn, typed or set, a past screen stays the one
\* viewed under a true label, until the user leaves it or a full history drops it
\* (Q5250ScreenWidget.cpp, pushScreenToHistory).
THEOREM ViewedStaysKept == ViewSpec => ViewedIsKept
  <1> DEFINE Step ==
        /\ label' = HistoryLabel(index', Len(history')) /\ index' < Len(history')
        /\ Viewing => \/ index' >= 0 /\ displayedBuffer' = displayedBuffer
                      \/ User
                      \/ index' = -1 /\ index + 1 = MaxDepth /\ Len(history) = MaxDepth
  <1>1. ViewInv /\ [ViewNext]_viewVars => [Step]_viewVars
    <2> SUFFICES ASSUME ViewInv, ViewNext PROVE Step
      OBVIOUS
    <2>1. ViewInv' /\ StaysShown
      BY ViewSteps
    <2> QED BY <2>1 DEF ViewInv, HistoryOK, StaysShown
  <1>2. [][Step]_viewVars => ViewedIsKept
    BY PTL DEF ViewedIsKept
  <1> HIDE DEF Step
  <1> QED BY <1>1, <1>2, ViewKeptInv, PTL DEF ViewSpec

-----------------------------------------------------------------------------
(* Numbers and lists.                                                      *)

\* A set of numbers that has 0 and with each the next has all.
LEMMA SetInduction ==
  ASSUME NEW T \in SUBSET Nat, 0 \in T, \A n \in T : n + 1 \in T
  PROVE  T = Nat
  <1> SUFFICES ASSUME Nat \ T # {} PROVE FALSE
    OBVIOUS
  <1>1. PICK x \in Nat \ T : \A y \in Nat \ T : ~(<<y, x>> \in OpToRel(<, Nat))
    BY WFMin, NatLessThanWellFounded
  <1>2. x # 0
    OBVIOUS
  <1>3. x - 1 \in Nat /\ x - 1 < x
    BY <1>2
  <1>4. <<x - 1, x>> \in OpToRel(<, Nat)
    BY <1>3 DEF OpToRel
  <1>5. x - 1 \in T
    BY <1>1, <1>3, <1>4
  <1> QED BY <1>3, <1>5

\* Whatever is made from the stage before it has a stage for each number.
Staged(f, D, x, G, n) ==
  /\ f \in [0 .. n -> D] /\ f[0] = x
  /\ \A i \in 1 .. n : f[i] = G[<<i, f[i - 1]>>]

LEMMA Stages ==
  ASSUME NEW D, NEW x \in D, NEW G \in [Nat \X D -> D], NEW N \in Nat
  PROVE  \E f : Staged(f, D, x, G, N)
<1> DEFINE T == {n \in Nat : \E f : Staged(f, D, x, G, n)}
<1>1. 0 \in T
  <2>1. Staged([i \in 0 .. 0 |-> x], D, x, G, 0)
    BY DEF Staged
  <2> QED BY <2>1
<1>2. ASSUME NEW n \in T PROVE n + 1 \in T
  <2>1. n \in Nat
    OBVIOUS
  <2>2. PICK f : Staged(f, D, x, G, n)
    OBVIOUS
  <2>3. /\ f \in [0 .. n -> D] /\ f[0] = x
        /\ \A i \in 1 .. n : f[i] = G[<<i, f[i - 1]>>]
    BY <2>2 DEF Staged
  <2>4. PICK y : y = G[<<n + 1, f[n]>>]
    OBVIOUS
  <2>5. y \in D
    BY <2>1, <2>3, <2>4
  <2>6. PICK h : h = [i \in 0 .. n + 1 |-> IF i <= n THEN f[i] ELSE y]
    OBVIOUS
  <2>7. h \in [0 .. n + 1 -> D] /\ h[n + 1] = y /\ \A i \in 0 .. n : h[i] = f[i]
    BY <2>1, <2>3, <2>5, <2>6
  <2>8. ASSUME NEW i \in 1 .. n + 1 PROVE h[i] = G[<<i, h[i - 1]>>]
    <3>1. CASE i = n + 1
      <4>1. i - 1 = n /\ h[n] = f[n]
        BY <2>1, <2>7, <3>1
      <4> QED BY <2>4, <2>7, <3>1, <4>1
    <3>2. CASE i # n + 1
      <4>1. i \in 1 .. n /\ h[i - 1] = f[i - 1] /\ h[i] = f[i]
        BY <2>1, <2>7, <3>2
      <4> QED BY <2>3, <4>1
    <3> QED BY <3>1, <3>2
  <2>9. h[0] = x
    BY <2>1, <2>3, <2>7
  <2>10. Staged(h, D, x, G, n + 1)
    BY <2>7, <2>8, <2>9 DEF Staged
  <2> QED BY <2>1, <2>10
<1> HIDE DEF T
<1>3. T = Nat
  BY <1>1, <1>2, SetInduction DEF T
<1> QED BY <1>3 DEF T

\* The first lists of ss put together, for each number of them.
Joins(f, S, ss, n) ==
  /\ f \in [0 .. n -> Seq(S)]
  /\ f[0] = << >>
  /\ \A i \in 1 .. n : f[i] = f[i - 1] \o ss[i]

SameUpTo(ss, tt, n) == \A i \in 1 .. n : ss[i] = tt[i]

\* There is one such function,
LEMMA JoinsExist ==
  ASSUME NEW S, NEW ss \in Seq(Seq(S))
  PROVE  \E f : Joins(f, S, ss, Len(ss))
<1>1. Len(ss) \in Nat /\ \A i \in 1 .. Len(ss) : ss[i] \in Seq(S)
  OBVIOUS
<1>2. PICK G : G = [t \in Nat \X Seq(S) |-> IF t[1] \in 1 .. Len(ss) THEN t[2] \o ss[t[1]]
                                            ELSE t[2]]
  OBVIOUS
<1>3. G \in [Nat \X Seq(S) -> Seq(S)]
  BY <1>1, <1>2
<1>4. << >> \in Seq(S)
  OBVIOUS
<1>5. PICK f : Staged(f, Seq(S), << >>, G, Len(ss))
  BY <1>1, <1>3, <1>4, Stages
<1>a. ASSUME NEW i \in Nat, NEW y \in Seq(S), i \in 1 .. Len(ss)
      PROVE  G[<<i, y>>] = y \o ss[i]
  BY <1>2, <1>a
<1>6. ASSUME NEW i \in 1 .. Len(ss) PROVE f[i] = f[i - 1] \o ss[i]
  <2>1. i \in Nat /\ i - 1 \in 0 .. Len(ss)
    BY <1>1
  <2>2. f \in [0 .. Len(ss) -> Seq(S)] /\ f[i] = G[<<i, f[i - 1]>>]
    BY <1>5, Zenon DEF Staged
  <2>3. f[i - 1] \in Seq(S)
    BY <2>1, <2>2
  <2> QED BY <1>a, <2>1, <2>2, <2>3
<1> QED BY <1>5, <1>6 DEF Joins, Staged

\* only one,
LEMMA JoinsAgree ==
  ASSUME NEW S, NEW ss \in Seq(Seq(S)), NEW tt \in Seq(Seq(S)), NEW n \in Nat, NEW k \in Nat,
         NEW f, NEW h, k = n + 1, Joins(f, S, ss, n), Joins(h, S, tt, k),
         SameUpTo(ss, tt, n)
  PROVE  f[n] = h[n]
  <1> DEFINE T == {j \in Nat : j <= n => f[j] = h[j]}
  <1>1. 0 \in T
    BY DEF Joins
  <1>2. ASSUME NEW j \in T PROVE j + 1 \in T
    <2>0. j \in Nat
      OBVIOUS
    <2> SUFFICES ASSUME j + 1 <= n PROVE f[j + 1] = h[j + 1]
      BY <2>0
    <2>1. j + 1 \in 1 .. n /\ j + 1 \in 1 .. k /\ (j + 1) - 1 = j /\ f[j] = h[j]
      BY <2>0
    <2> QED BY <2>1 DEF Joins, SameUpTo
  <1>3. T \in SUBSET Nat
    OBVIOUS
  <1> HIDE DEF T
  <1>4. T = Nat
    BY <1>1, <1>2, <1>3, SetInduction
  <1> QED BY <1>4 DEF T

\* and FlattenSeq is its last value.
LEMMA FlattenIs ==
  ASSUME NEW S, NEW ss \in Seq(Seq(S)), NEW g, Joins(g, S, ss, Len(ss))
  PROVE  FlattenSeq(ss) = g[Len(ss)] /\ FlattenSeq(ss) \in Seq(S)
  <1> DEFINE L == Len(ss)
             Made(f) == [i \in 1 .. L |-> IF i = 1 THEN ss[i] ELSE f[i - 1] \o ss[i]]
             flatten == CHOOSE f : f = Made(f)
             G == [i \in 1 .. L |-> g[i]]
  <1>a. L \in Nat /\ \A i \in 1 .. L : ss[i] \in Seq(S)
    OBVIOUS
  <1>b. /\ g \in [0 .. L -> Seq(S)] /\ g[0] = << >>
        /\ \A i \in 1 .. L : g[i] = g[i - 1] \o ss[i]
    BY Zenon DEF Joins
  <1>0. /\ L \in Nat /\ \A i \in 1 .. L : ss[i] \in Seq(S)
        /\ g \in [0 .. L -> Seq(S)] /\ g[0] = << >>
        /\ \A i \in 1 .. L : g[i] = g[i - 1] \o ss[i]
    BY <1>a, <1>b
  <1>1. g[L] \in Seq(S)
    BY <1>0
  <1>2. CASE L = 0
    <2>1. ss = << >>
      BY <1>2
    <2>2. FlattenSeq(ss) = ss
      BY <1>2 DEF FlattenSeq
    <2> QED BY <1>0, <1>1, <1>2, <2>1, <2>2
  <1>3. CASE L # 0
    <2>1. FlattenSeq(ss) = flatten[L]
      BY <1>3 DEF FlattenSeq
    <2>2. G = Made(G)
      <3> SUFFICES ASSUME NEW i \in 1 .. L
                   PROVE  g[i] = IF i = 1 THEN ss[i] ELSE G[i - 1] \o ss[i]
        OBVIOUS
      <3>1. CASE i = 1
        <4>1. i - 1 = 0 /\ ss[i] \in Seq(S)
          BY <1>0, <3>1
        <4>2. << >> \o ss[i] = ss[i]
          BY <4>1
        <4> QED BY <1>0, <3>1, <4>1, <4>2
      <3>2. CASE i # 1
        <4>1. i - 1 \in 1 .. L
          BY <1>0, <3>2
        <4> QED BY <1>0, <3>2, <4>1
      <3> QED BY <3>1, <3>2
    <2>3. flatten = Made(flatten)
      BY <2>2
    <2> HIDE DEF flatten
    <2>4. flatten[1] = ss[1] /\ \A i \in 1 .. L : i # 1 => flatten[i] = flatten[i - 1] \o ss[i]
      <3>1. 1 \in 1 .. L
        BY <1>0, <1>3
      <3> QED BY <2>3, <3>1
    <2> HIDE DEF Made, G
    <2> DEFINE T == {n \in Nat : n + 1 <= L => flatten[n + 1] = g[n + 1]}
    <2>5. 0 \in T
      <3>1. 1 \in 1 .. L /\ 1 - 1 = 0 /\ ss[1] \in Seq(S)
        BY <1>0, <1>3
      <3>2. << >> \o ss[1] = ss[1]
        BY <3>1
      <3>3. g[1] = g[0] \o ss[1]
        BY <1>0, <3>1
      <3>4. g[1] = ss[1]
        BY <1>0, <3>2, <3>3
      <3>5. flatten[0 + 1] = g[0 + 1]
        BY <2>4, <3>4
      <3> QED BY <3>5
    <2>6. ASSUME NEW n \in T PROVE n + 1 \in T
      <3>0. n \in Nat
        OBVIOUS
      <3> SUFFICES ASSUME (n + 1) + 1 <= L PROVE flatten[(n + 1) + 1] = g[(n + 1) + 1]
        BY <3>0
      <3>1. /\ (n + 1) + 1 \in 1 .. L /\ (n + 1) + 1 # 1 /\ ((n + 1) + 1) - 1 = n + 1 /\ n + 1 <= L
        BY <1>0, <3>0
      <3>2. flatten[n + 1] = g[n + 1]
        BY <3>1
      <3> HIDE DEF T
      <3> QED BY <1>0, <2>4, <3>1, <3>2
    <2>7. T \in SUBSET Nat
      OBVIOUS
    <2> HIDE DEF T
    <2>8. T = Nat
      BY <2>5, <2>6, <2>7, SetInduction
    <2>9. L - 1 \in T /\ (L - 1) + 1 = L
      BY <1>0, <1>3, <2>8
    <2>10. flatten[L] = g[L]
      BY <2>9, <1>0 DEF T
    <2> QED BY <1>1, <2>1, <2>10
  <1> QED BY <1>2, <1>3

\* No lists make an empty one.
LEMMA FlattenEmpty == FlattenSeq(<< >>) = << >>
  BY DEF FlattenSeq

\* One list more is put behind.
LEMMA FlattenAppend ==
  ASSUME NEW S, NEW ss \in Seq(Seq(S)), NEW t \in Seq(S)
  PROVE  /\ FlattenSeq(ss) \in Seq(S)
         /\ FlattenSeq(Append(ss, t)) = FlattenSeq(ss) \o t
  <1>1. PICK n \in Nat : n = Len(ss)
    OBVIOUS
  <1>2. PICK k \in Nat : k = n + 1
    OBVIOUS
  <1>3. PICK more : more = Append(ss, t)
    OBVIOUS
  <1>4. /\ more \in Seq(Seq(S)) /\ Len(more) = k /\ more[k] = t
        /\ \A i \in 1 .. n : ss[i] = more[i]
    BY <1>1, <1>2, <1>3, AppendProperties
  <1>5. PICK f : Joins(f, S, ss, n)
    BY <1>1, JoinsExist
  <1>6. PICK h : Joins(h, S, more, k)
    BY <1>4, JoinsExist
  <1>7. FlattenSeq(ss) = f[n] /\ FlattenSeq(ss) \in Seq(S)
    BY <1>1, <1>5, FlattenIs
  <1>8. FlattenSeq(more) = h[k]
    BY <1>4, <1>6, FlattenIs
  <1>9. f[n] = h[n]
    <2>1. SameUpTo(ss, more, n)
      BY <1>4 DEF SameUpTo
    <2> QED BY <1>2, <1>4, <1>5, <1>6, <2>1, JoinsAgree
  <1>10. h[k] = h[n] \o more[k]
    <2>1. k \in 1 .. k /\ k - 1 = n
      BY <1>2
    <2> QED BY <1>6, <2>1 DEF Joins
  <1> QED BY <1>3, <1>4, <1>7, <1>8, <1>9, <1>10

-----------------------------------------------------------------------------
(* The parser: one turn of its loop.                                       *)

Bytes == Seq(Byte)
ParserEvent == [kind : {"data"}, bytes : Bytes]
               \cup [kind : {"sub"}, option : Byte \cup {"none"}, bytes : Bytes]
               \cup [kind : {"command"}, verb : {"WILL"}, option : Byte]
Parser == [framed : BOOLEAN, receive : Bytes, record : Bytes, processed : Bytes,
           inSub : BOOLEAN, subOption : Byte \cup {"none"}, sub : Bytes,
           events : Seq(ParserEvent)]

\* More bytes have arrived.
More(p, c) == [p EXCEPT !.receive = @ \o c]

\* What the loop finds at the head of the bytes received.
DataFirst(p) == Len(p.receive) >= 1 /\ p.receive[1] # "IAC"
Doubled(p) == Len(p.receive) >= 2 /\ p.receive[1] = "IAC" /\ p.receive[2] = "IAC"
Lone(p) == /\ Len(p.receive) >= 2 /\ p.receive[1] = "IAC" /\ p.receive[2] # "IAC"
           /\ UnescapedIac(p, p.receive[2])
Short(p) == /\ Len(p.receive) >= 2 /\ p.receive[1] = "IAC" /\ p.receive[2] \in Standalone
            /\ ~UnescapedIac(p, p.receive[2])
Long(p) == /\ Len(p.receive) >= 3 /\ p.receive[1] = "IAC"
           /\ p.receive[2] \notin Standalone \cup {"IAC"}
           /\ ~UnescapedIac(p, p.receive[2])

\* One of these, or too few bytes.
LEMMA Found ==
  ASSUME NEW p \in Parser
  PROVE  ~Incomplete(p) <=> DataFirst(p) \/ Doubled(p) \/ Lone(p) \/ Short(p) \/ Long(p)
<1>1. PICK b : b = p.receive
  OBVIOUS
<1>2. b \in Seq(Byte) /\ Len(b) \in Nat
  BY <1>1 DEF Parser, Bytes
<1>3. b = <<>> <=> Len(b) = 0
  BY <1>2
<1>4. b = <<"IAC">> <=> Len(b) = 1 /\ b[1] = "IAC"
  BY <1>2
<1>5. "IAC" \notin Standalone
  BY DEF Standalone
<1>6. Incomplete(p) <=>
        \/ Len(b) = 0 \/ (Len(b) = 1 /\ b[1] = "IAC")
        \/ /\ Len(b) = 2 /\ b[1] = "IAC" /\ b[2] \notin Standalone \cup {"IAC"}
           /\ ~UnescapedIac(p, b[2])
  BY <1>1, <1>3, <1>4, Zenon DEF Incomplete
<1>7. PICK n \in Nat : n = Len(b)
  BY <1>2
<1>8. \/ n = 0 /\ ~(n = 1) /\ ~(n = 2) /\ ~(n >= 1) /\ ~(n >= 2) /\ ~(n >= 3)
      \/ ~(n = 0) /\ n = 1 /\ ~(n = 2) /\ n >= 1 /\ ~(n >= 2) /\ ~(n >= 3)
      \/ ~(n = 0) /\ ~(n = 1) /\ n = 2 /\ n >= 1 /\ n >= 2 /\ ~(n >= 3)
      \/ ~(n = 0) /\ ~(n = 1) /\ ~(n = 2) /\ n >= 1 /\ n >= 2 /\ n >= 3
  OBVIOUS
<1>9. /\ DataFirst(p) <=> n >= 1 /\ b[1] # "IAC"
      /\ Doubled(p) <=> n >= 2 /\ b[1] = "IAC" /\ b[2] = "IAC"
      /\ Lone(p) <=> n >= 2 /\ b[1] = "IAC" /\ b[2] # "IAC" /\ UnescapedIac(p, b[2])
      /\ Short(p) <=> n >= 2 /\ b[1] = "IAC" /\ b[2] \in Standalone /\ ~UnescapedIac(p, b[2])
      /\ Long(p) <=> /\ n >= 3 /\ b[1] = "IAC" /\ b[2] \notin Standalone \cup {"IAC"}
                     /\ ~UnescapedIac(p, b[2])
  BY <1>1, <1>7, Zenon DEF DataFirst, Doubled, Lone, Short, Long
<1>10. b[2] \notin Standalone \cup {"IAC"} <=> ~(b[2] \in Standalone) /\ ~(b[2] = "IAC")
  OBVIOUS
<1>11. b[2] \in Standalone => ~(b[2] = "IAC")
  BY <1>5
<1> QED BY <1>6, <1>7, <1>8, <1>9, <1>10, <1>11, Zenon

\* Each is taken in its way.
LEMMA TurnIs ==
  ASSUME NEW p \in Parser
  PROVE  /\ Incomplete(p) => Turn(p) = p
         /\ DataFirst(p) => Turn(p) = Take(After(p, 1), p.receive[1])
         /\ Doubled(p) => Turn(p) = Take(After(p, 2), "IAC")
         /\ Lone(p) => Turn(p) = TakeData(After(p, 1), "IAC")
         /\ Short(p) => Turn(p) = TakeStandalone(After(p, 2), p.receive[2])
         /\ Long(p) => Turn(p) = TakeCommand(After(p, 3), p.receive[2], p.receive[3])
<1>1. DataFirst(p) \/ Doubled(p) \/ Lone(p) \/ Short(p) \/ Long(p) => ~Incomplete(p)
  BY Found
<1>2. "IAC" \notin Standalone
  BY DEF Standalone
<1> QED BY <1>1, <1>2 DEF Turn, DataFirst, Doubled, Lone, Short, Long

\* Bytes that arrive do not change what was found.
LEMMA StillFound ==
  ASSUME NEW p \in Parser, NEW c \in Bytes
  PROVE  /\ More(p, c) \in Parser /\ More(p, c).receive = p.receive \o c
         /\ DataFirst(p) => DataFirst(More(p, c)) /\ More(p, c).receive[1] = p.receive[1]
         /\ Doubled(p) => Doubled(More(p, c))
         /\ Lone(p) => Lone(More(p, c))
         /\ Short(p) => Short(More(p, c)) /\ More(p, c).receive[2] = p.receive[2]
         /\ Long(p) => /\ Long(More(p, c)) /\ More(p, c).receive[2] = p.receive[2]
                       /\ More(p, c).receive[3] = p.receive[3]
<1>1. PICK b : b = p.receive
  OBVIOUS
<1>2. b \in Seq(Byte) /\ Len(b) \in Nat /\ c \in Seq(Byte) /\ Len(c) \in Nat
  BY <1>1 DEF Parser, Bytes
<1>3. /\ b \o c \in Seq(Byte) /\ Len(b \o c) = Len(b) + Len(c)
      /\ \A i \in 1 .. Len(b) : (b \o c)[i] = b[i]
  BY <1>2
<1>4. PICK q : q = More(p, c)
  OBVIOUS
<1>5. q = [p EXCEPT !.receive = b \o c]
  BY <1>1, <1>4 DEF More
<1>6. /\ q \in Parser /\ q.receive = b \o c
      /\ q.framed = p.framed /\ q.inSub = p.inSub /\ q.record = p.record
  BY <1>3, <1>5 DEF Parser, Bytes
<1>7. \A x : UnescapedIac(q, x) <=> UnescapedIac(p, x)
  BY <1>6 DEF UnescapedIac
<1>8. /\ Len(b) >= 1 => q.receive[1] = b[1]
      /\ Len(b) >= 2 => q.receive[2] = b[2]
      /\ Len(b) >= 3 => q.receive[3] = b[3]
  BY <1>2, <1>3, <1>6
<1>9. Len(q.receive) >= Len(b)
  BY <1>2, <1>3, <1>6
<1>10. Len(q.receive) \in Nat
  BY <1>2, <1>3, <1>6
<1> QED BY <1>1, <1>2, <1>4, <1>6, <1>7, <1>8, <1>9, <1>10 DEF DataFirst, Doubled, Lone, Short, Long

\* Bytes that arrive do not concern those that are consumed.
LEMMA AfterMore ==
  ASSUME NEW p \in Parser, NEW c \in Bytes, NEW n \in Nat, n <= Len(p.receive)
  PROVE  /\ After(p, n) \in Parser /\ After(More(p, c), n) = More(After(p, n), c)
         /\ Len(After(p, n).receive) = Len(p.receive) - n
<1>1. PICK b : b = p.receive
  OBVIOUS
<1>2. b \in Seq(Byte) /\ Len(b) \in Nat /\ c \in Seq(Byte) /\ Len(c) \in Nat
  BY <1>1 DEF Parser, Bytes
<1>3. PICK d : d = b \o c
  OBVIOUS
<1>4. /\ d \in Seq(Byte) /\ Len(d) = Len(b) + Len(c)
      /\ \A i \in 1 .. Len(b) : d[i] = b[i]
      /\ \A i \in 1 .. Len(c) : d[Len(b) + i] = c[i]
  BY <1>2, <1>3
<1>5. PICK r, s : r = SubSeq(b, n + 1, Len(b)) /\ s = SubSeq(d, n + 1, Len(d))
  OBVIOUS
<1>6. /\ r \in Seq(Byte) /\ Len(r) = Len(b) - n /\ \A i \in 1 .. Len(r) : r[i] = b[n + i]
  BY <1>1, <1>2, <1>5
<1>7. /\ s \in Seq(Byte) /\ Len(s) = Len(d) - n /\ \A i \in 1 .. Len(s) : s[i] = d[n + i]
  BY <1>1, <1>2, <1>4, <1>5
<1>8. s = r \o c
  <2>0. Len(r) \in Nat /\ Len(c) \in Nat
    BY <1>2, <1>6
  <2>1. PICK k \in Nat, l \in Nat : k = Len(r) /\ l = Len(c)
    BY <2>0
  <2>2. Len(b) = n + k /\ Len(d) = (n + k) + l /\ Len(s) = k + l
    BY <1>1, <1>2, <1>4, <1>6, <1>7, <2>1
  <2>3. /\ r \o c \in Seq(Byte) /\ Len(r \o c) = k + l
        /\ \A i \in 1 .. k + l : (r \o c)[i] = IF i <= k THEN r[i] ELSE c[i - k]
    <3>1. r \in Seq(Byte) /\ c \in Seq(Byte)
      BY <1>2, <1>6
    <3>2. /\ r \o c \in Seq(Byte) /\ Len(r \o c) = Len(r) + Len(c)
          /\ \A i \in 1 .. Len(r) + Len(c) :
               (r \o c)[i] = IF i <= Len(r) THEN r[i] ELSE c[i - Len(r)]
      BY <3>1, ConcatProperties
    <3> QED BY <2>1, <3>2, Zenon
  <2>4. ASSUME NEW i \in 1 .. k + l PROVE s[i] = (r \o c)[i]
    <3>1. s[i] = d[n + i]
      BY <1>7, <2>2
    <3>2. CASE i <= k
      <4>1. i \in 1 .. k /\ n + i \in 1 .. n + k
        BY <3>2
      <4>2. r[i] = b[n + i] /\ d[n + i] = b[n + i]
        BY <1>4, <1>6, <2>1, <2>2, <4>1
      <4> QED BY <2>3, <3>1, <3>2, <4>2
    <3>3. CASE ~(i <= k)
      <4>1. PICK j \in 1 .. l : i = k + j
        <5>1. i - k \in 1 .. l /\ i = k + (i - k)
          BY <3>3
        <5> QED BY <5>1
      <4>2. d[(n + k) + j] = c[j]
        BY <1>4, <2>1, <2>2, <4>1
      <4>3. n + i = (n + k) + j /\ i - k = j
        BY <4>1
      <4> QED BY <2>3, <3>1, <3>3, <4>2, <4>3
    <3> QED BY <3>2, <3>3
  <2> QED BY <1>7, <2>2, <2>3, <2>4, SeqEqual
<1>9. PICK q : q = [p EXCEPT !.receive = r]
  OBVIOUS
<1>10. After(p, n) = q
  BY <1>1, <1>5, <1>9 DEF After
<1>11. q \in Parser /\ q.receive = r
  BY <1>6, <1>9 DEF Parser, Bytes
<1>12. More(q, c) = [p EXCEPT !.receive = s]
  BY <1>8, <1>9, <1>11 DEF More, Parser
<1>13. After(More(p, c), n) = [p EXCEPT !.receive = s]
  BY <1>1, <1>3, <1>5 DEF After, More, Parser
<1> QED BY <1>1, <1>6, <1>10, <1>11, <1>12, <1>13

\* What a turn does with what it took does not concern the bytes behind it.
LEMMA TakenApart ==
  ASSUME NEW p \in Parser, NEW c \in Bytes, NEW b \in Byte, NEW o \in Byte
  PROVE  /\ Take(More(p, c), b) = More(Take(p, b), c)
         /\ TakeData(More(p, c), b) = More(TakeData(p, b), c)
         /\ TakeStandalone(More(p, c), b) = More(TakeStandalone(p, b), c)
         /\ TakeCommand(More(p, c), b, o) = More(TakeCommand(p, b, o), c)
<1>1. PICK q : q = More(p, c)
  OBVIOUS
<1>2. q = [p EXCEPT !.receive = p.receive \o c]
  BY <1>1 DEF More
<1>3. \A x : Emit(q, x) = Emit(p, x)
  BY <1>2 DEF Emit, Parser
<1>4. TakeData(q, b) = More(TakeData(p, b), c)
  BY <1>2 DEF TakeData, More, Parser
<1>5. Take(q, b) = More(Take(p, b), c)
  BY <1>2, <1>4 DEF Take, More, Parser
<1>6. TakeStandalone(q, b) = More(TakeStandalone(p, b), c)
  <2>1. CASE b = "SE" /\ p.inSub
    BY <1>2, <2>1 DEF TakeStandalone, More, Parser
  <2>2. CASE b = "EOR" /\ p.framed
    BY <1>2, <1>3, <2>2 DEF TakeStandalone, More, Parser
  <2>3. CASE ~(b = "SE" /\ p.inSub) /\ ~(b = "EOR" /\ p.framed)
    BY <1>2, <2>3 DEF TakeStandalone, More, Parser
  <2> QED BY <2>1, <2>2, <2>3
<1>7. TakeCommand(q, b, o) = More(TakeCommand(p, b, o), c)
  BY <1>2 DEF TakeCommand, More, Parser
<1> QED BY <1>1, <1>4, <1>5, <1>6, <1>7

\* What was taken leaves a parser, and what it had not read.
LEMMA TakenKeeps ==
  ASSUME NEW p \in Parser, NEW b \in Byte, NEW o \in Byte
  PROVE  /\ Take(p, b) \in Parser /\ Take(p, b).receive = p.receive
         /\ TakeData(p, b) \in Parser /\ TakeData(p, b).receive = p.receive
         /\ TakeStandalone(p, b) \in Parser /\ TakeStandalone(p, b).receive = p.receive
         /\ TakeCommand(p, b, o) \in Parser /\ TakeCommand(p, b, o).receive = p.receive
<1>1. /\ p.sub \in Seq(Byte) /\ p.record \in Seq(Byte) /\ p.processed \in Seq(Byte)
      /\ p.events \in Seq(ParserEvent) /\ p.subOption \in Byte \cup {"none"} /\ p.inSub \in BOOLEAN
      /\ <<>> \in Seq(Byte)
  BY DEF Parser, Bytes
<1>2. /\ Append(p.sub, b) \in Seq(Byte) /\ Append(p.processed, b) \in Seq(Byte)
      /\ p.processed \o p.record \in Seq(Byte)
      /\ (p.record \o p.processed) \o <<b>> \in Seq(Byte)
  BY <1>1
<1>3. PICK x, y, z : /\ x = Append(p.sub, b) /\ y = Append(p.processed, b)
                     /\ z = (p.record \o p.processed) \o <<b>>
  OBVIOUS
<1>4. TakeData(p, b) \in Parser /\ TakeData(p, b).receive = p.receive
  <2>1. TakeData(p, b) = IF p.framed THEN [p EXCEPT !.processed = <<>>, !.record = z]
                         ELSE [p EXCEPT !.processed = y]
    BY <1>3 DEF TakeData
  <2> QED BY <1>1, <1>2, <1>3, <2>1 DEF Parser, Bytes
<1>5. Take(p, b) \in Parser /\ Take(p, b).receive = p.receive
  <2>1. Take(p, b) = IF p.inSub THEN [p EXCEPT !.sub = x] ELSE TakeData(p, b)
    BY <1>3 DEF Take
  <2> QED BY <1>2, <1>3, <1>4, <2>1 DEF Parser, Bytes
<1>6. TakeStandalone(p, b) \in Parser /\ TakeStandalone(p, b).receive = p.receive
  <2>1. CASE b = "SE" /\ p.inSub
    <3>1. PICK e : e = [kind |-> "sub", option |-> p.subOption, bytes |-> p.sub]
      OBVIOUS
    <3>2. e \in ParserEvent
      BY <1>1, <3>1 DEF ParserEvent, Bytes
    <3>3. PICK f : f = Append(p.events, e)
      OBVIOUS
    <3>4. f \in Seq(ParserEvent)
      BY <1>1, <3>2, <3>3
    <3>5. TakeStandalone(p, b) = [p EXCEPT !.inSub = FALSE, !.sub = <<>>, !.events = f]
      BY <2>1, <3>1, <3>3 DEF TakeStandalone
    <3> QED BY <1>1, <3>4, <3>5 DEF Parser, Bytes
  <2>2. CASE b = "EOR" /\ p.framed
    <3>1. PICK d : d = p.processed \o p.record
      OBVIOUS
    <3>2. Data(d) \in ParserEvent
      BY <1>2, <3>1 DEF ParserEvent, Bytes, Data
    <3>3. PICK f : f = Emit(p, d)
      OBVIOUS
    <3>4. f \in Seq(ParserEvent)
      BY <1>1, <3>2, <3>3 DEF Emit
    <3>5. TakeStandalone(p, b) = [p EXCEPT !.record = <<>>, !.processed = <<>>, !.events = f]
      BY <2>2, <3>1, <3>3 DEF TakeStandalone
    <3> QED BY <1>1, <3>4, <3>5 DEF Parser, Bytes
  <2>3. CASE ~(b = "SE" /\ p.inSub) /\ ~(b = "EOR" /\ p.framed)
    <3>1. TakeStandalone(p, b) = p
      BY <2>3 DEF TakeStandalone
    <3> QED BY <3>1
  <2> QED BY <2>1, <2>2, <2>3
<1>7. TakeCommand(p, b, o) \in Parser /\ TakeCommand(p, b, o).receive = p.receive
  <2>1. PICK e : e = [kind |-> "command", verb |-> b, option |-> o]
    OBVIOUS
  <2>2. PICK f : f = Append(p.events, e)
    OBVIOUS
  <2>3. b = "WILL" => e \in ParserEvent
    BY <2>1 DEF ParserEvent
  <2>4. b = "WILL" => f \in Seq(ParserEvent)
    BY <1>1, <2>2, <2>3
  <2>5. TakeCommand(p, b, o) =
          CASE b = "SB" -> [p EXCEPT !.inSub = TRUE, !.subOption = o, !.sub = <<>>]
            [] b = "WILL" -> [p EXCEPT !.events = f]
            [] OTHER -> p
    BY <2>1, <2>2 DEF TakeCommand
  <2>6. CASE b = "SB"
    BY <1>1, <2>5, <2>6 DEF Parser, Bytes
  <2>7. CASE b = "WILL"
    BY <2>4, <2>5, <2>7 DEF Parser
  <2>8. CASE b \notin {"SB", "WILL"}
    BY <2>5, <2>8
  <2> QED BY <2>6, <2>7, <2>8
<1> QED BY <1>4, <1>5, <1>6, <1>7

\* A turn leaves a parser, with fewer bytes to read.
LEMMA TurnKeeps ==
  ASSUME NEW p \in Parser
  PROVE  /\ Turn(p) \in Parser
         /\ Len(Turn(p).receive) \in Nat
         /\ ~Incomplete(p) => Len(Turn(p).receive) < Len(p.receive)
<1>1. "IAC" \in Byte /\ <<>> \in Bytes
  BY DEF Byte, Bytes
<1>2. p.receive \in Seq(Byte) /\ Len(p.receive) \in Nat
  BY DEF Parser, Bytes
<1>3. /\ Len(p.receive) >= 1 => p.receive[1] \in Byte
      /\ Len(p.receive) >= 2 => p.receive[2] \in Byte
      /\ Len(p.receive) >= 3 => p.receive[3] \in Byte
  BY <1>2
<1>4. \A n \in Nat : n <= Len(p.receive) =>
         After(p, n) \in Parser /\ Len(After(p, n).receive) = Len(p.receive) - n
  BY <1>1, AfterMore
<1>5. CASE Incomplete(p)
  BY <1>2, <1>5, TurnIs
<1>6. CASE DataFirst(p)
  <2>1. PICK q, b : q = After(p, 1) /\ b = p.receive[1]
    OBVIOUS
  <2>2. q \in Parser /\ b \in Byte /\ Len(q.receive) = Len(p.receive) - 1
        /\ Len(p.receive) >= 1
    BY <1>2, <1>3, <1>4, <1>6, <2>1 DEF DataFirst
  <2>3. Turn(p) = Take(q, b)
    BY <1>6, <2>1, TurnIs
  <2>4. Turn(p) \in Parser /\ Turn(p).receive = q.receive
    BY <1>1, <2>2, <2>3, TakenKeeps
  <2> QED BY <1>2, <2>2, <2>4
<1>7. CASE Doubled(p)
  <2>1. PICK q : q = After(p, 2)
    OBVIOUS
  <2>2. q \in Parser /\ Len(q.receive) = Len(p.receive) - 2
        /\ Len(p.receive) >= 2
    BY <1>2, <1>3, <1>4, <1>7, <2>1 DEF Doubled
  <2>3. Turn(p) = Take(q, "IAC")
    BY <1>7, <2>1, TurnIs
  <2>4. Turn(p) \in Parser /\ Turn(p).receive = q.receive
    BY <1>1, <2>2, <2>3, TakenKeeps
  <2> QED BY <1>2, <2>2, <2>4
<1>8. CASE Lone(p)
  <2>1. PICK q : q = After(p, 1)
    OBVIOUS
  <2>2. q \in Parser /\ Len(q.receive) = Len(p.receive) - 1
        /\ Len(p.receive) >= 2
    BY <1>2, <1>3, <1>4, <1>8, <2>1 DEF Lone
  <2>3. Turn(p) = TakeData(q, "IAC")
    BY <1>8, <2>1, TurnIs
  <2>4. Turn(p) \in Parser /\ Turn(p).receive = q.receive
    BY <1>1, <2>2, <2>3, TakenKeeps
  <2> QED BY <1>2, <2>2, <2>4
<1>9. CASE Short(p)
  <2>1. PICK q, b : q = After(p, 2) /\ b = p.receive[2]
    OBVIOUS
  <2>2. q \in Parser /\ b \in Byte /\ Len(q.receive) = Len(p.receive) - 2
        /\ Len(p.receive) >= 2
    BY <1>2, <1>3, <1>4, <1>9, <2>1 DEF Short
  <2>3. Turn(p) = TakeStandalone(q, b)
    BY <1>9, <2>1, TurnIs
  <2>4. Turn(p) \in Parser /\ Turn(p).receive = q.receive
    BY <1>1, <2>2, <2>3, TakenKeeps
  <2> QED BY <1>2, <2>2, <2>4
<1>10. CASE Long(p)
  <2>1. PICK q, b, o : q = After(p, 3) /\ b = p.receive[2] /\ o = p.receive[3]
    OBVIOUS
  <2>2. q \in Parser /\ b \in Byte /\ o \in Byte /\ Len(q.receive) = Len(p.receive) - 3
        /\ Len(p.receive) >= 3
    BY <1>2, <1>3, <1>4, <1>10, <2>1 DEF Long
  <2>3. Turn(p) = TakeCommand(q, b, o)
    BY <1>10, <2>1, TurnIs
  <2>4. Turn(p) \in Parser /\ Turn(p).receive = q.receive
    BY <1>1, <2>2, <2>3, TakenKeeps
  <2> QED BY <1>2, <2>2, <2>4
<1> QED BY <1>5, <1>6, <1>7, <1>8, <1>9, <1>10, Found

\* A turn that is made is made alike when more bytes are there.
LEMMA TurnMore ==
  ASSUME NEW p \in Parser, NEW c \in Bytes, ~Incomplete(p)
  PROVE  ~Incomplete(More(p, c)) /\ Turn(More(p, c)) = More(Turn(p), c)
<1>1. "IAC" \in Byte
  BY DEF Byte
<1>2. p.receive \in Seq(Byte) /\ Len(p.receive) \in Nat
  BY DEF Parser, Bytes
<1>3. /\ Len(p.receive) >= 1 => p.receive[1] \in Byte
      /\ Len(p.receive) >= 2 => p.receive[2] \in Byte
      /\ Len(p.receive) >= 3 => p.receive[3] \in Byte
  BY <1>2
<1>4. PICK q : q = More(p, c)
  OBVIOUS
<1>5. \A n \in Nat : n <= Len(p.receive) =>
         After(p, n) \in Parser /\ After(q, n) = More(After(p, n), c)
  BY <1>4, AfterMore
<1>6. q \in Parser
  BY <1>4, StillFound
<1>7. CASE DataFirst(p)
  <2>1. DataFirst(q) /\ q.receive[1] = p.receive[1]
    BY <1>4, <1>7, StillFound
  <2>2. Turn(q) = Take(After(q, 1), p.receive[1]) /\ Turn(p) = Take(After(p, 1), p.receive[1])
    BY <1>6, <1>7, <2>1, TurnIs
  <2> QED BY <1>2, <1>3, <1>4, <1>5, <1>6, <1>7, <2>1, <2>2, Found, TakenApart DEF DataFirst
<1>8. CASE Doubled(p)
  <2>1. Doubled(q)
    BY <1>4, <1>8, StillFound
  <2>2. Turn(q) = Take(After(q, 2), "IAC") /\ Turn(p) = Take(After(p, 2), "IAC")
    BY <1>6, <1>8, <2>1, TurnIs
  <2> QED BY <1>1, <1>2, <1>3, <1>4, <1>5, <1>6, <1>8, <2>1, <2>2, Found, TakenApart DEF Doubled
<1>9. CASE Lone(p)
  <2>1. Lone(q)
    BY <1>4, <1>9, StillFound
  <2>2. Turn(q) = TakeData(After(q, 1), "IAC") /\ Turn(p) = TakeData(After(p, 1), "IAC")
    BY <1>6, <1>9, <2>1, TurnIs
  <2> QED BY <1>1, <1>2, <1>3, <1>4, <1>5, <1>6, <1>9, <2>1, <2>2, Found, TakenApart DEF Lone
<1>10. CASE Short(p)
  <2>1. Short(q) /\ q.receive[2] = p.receive[2]
    BY <1>4, <1>10, StillFound
  <2>2. /\ Turn(q) = TakeStandalone(After(q, 2), p.receive[2])
        /\ Turn(p) = TakeStandalone(After(p, 2), p.receive[2])
    BY <1>6, <1>10, <2>1, TurnIs
  <2> QED BY <1>2, <1>3, <1>4, <1>5, <1>6, <1>10, <2>1, <2>2, Found, TakenApart DEF Short
<1>11. CASE Long(p)
  <2>1. Long(q) /\ q.receive[2] = p.receive[2] /\ q.receive[3] = p.receive[3]
    BY <1>4, <1>11, StillFound
  <2>2. /\ Turn(q) = TakeCommand(After(q, 3), p.receive[2], p.receive[3])
        /\ Turn(p) = TakeCommand(After(p, 3), p.receive[2], p.receive[3])
    BY <1>6, <1>11, <2>1, TurnIs
  <2> QED BY <1>2, <1>3, <1>4, <1>5, <1>6, <1>11, <2>1, <2>2, Found, TakenApart DEF Long
<1> QED BY <1>7, <1>8, <1>9, <1>10, <1>11, Found

-----------------------------------------------------------------------------
(* The parser: its loop.                                                   *)

\* after lists what the turns of a loop make of p.
Run(after, p) ==
  /\ after \in [0 .. Len(p.receive) -> Parser]
  /\ after[0] = p
  /\ \A n \in 1 .. Len(p.receive) : after[n] = Turn(after[n - 1])

\* There is such a list, and the loop returns its last.
LEMMA LoopRuns ==
  ASSUME NEW p \in Parser
  PROVE  \E after : Run(after, p) /\ Loop(p) = after[Len(p.receive)]
<1>1. PICK N \in Nat : N = Len(p.receive)
  BY DEF Parser, Bytes
<1>2. \A q \in Parser : Turn(q) \in Parser
  BY TurnKeeps
<1>3. PICK G : G = [t \in Nat \X Parser |-> Turn(t[2])]
  OBVIOUS
<1>4. G \in [Nat \X Parser -> Parser]
  BY <1>2, <1>3
<1>f. PICK f : Staged(f, Parser, p, G, N)
  BY <1>4, Stages
<1>5. /\ f \in [0 .. N -> Parser] /\ f[0] = p
      /\ \A i \in 1 .. N : f[i] = G[<<i, f[i - 1]>>]
  BY <1>f DEF Staged
<1>6. ASSUME NEW i \in 1 .. N PROVE f[i] = Turn(f[i - 1])
  <2>1. i \in Nat /\ f[i - 1] \in Parser
    BY <1>1, <1>5
  <2> QED BY <1>3, <1>5, <2>1
<1> DEFINE Made(after) == [n \in 0 .. N |-> IF n = 0 THEN p ELSE Turn(after[n - 1])]
           last == CHOOSE after : after = Made(after)
<1>7. f = Made(f)
  <2>1. \A n \in 0 .. N : f[n] = IF n = 0 THEN p ELSE Turn(f[n - 1])
    BY <1>1, <1>5, <1>6
  <2> QED BY <1>5, <2>1
<1>8. last = Made(last)
  <2> HIDE DEF Made
  <2> QED BY <1>7
<1>9. Loop(p) = last[N]
  BY <1>1 DEF Loop
<1> HIDE DEF last
<1>10. last[0] = p /\ \A n \in 1 .. N : last[n] = Turn(last[n - 1])
  BY <1>1, <1>8
<1>11. DOMAIN last = 0 .. N
  BY <1>8
<1> HIDE DEF Made
<1> DEFINE T == {n \in Nat : n <= N => last[n] = f[n]}
<1>12. 0 \in T
  BY <1>5, <1>10
<1>13. ASSUME NEW n \in T PROVE n + 1 \in T
  <2> SUFFICES ASSUME n + 1 <= N PROVE last[n + 1] = f[n + 1]
    OBVIOUS
  <2>1. n \in Nat /\ n + 1 \in 1 .. N /\ last[n] = f[n] /\ (n + 1) - 1 = n
    BY <1>1
  <2> QED BY <1>6, <1>10, <2>1
<1> HIDE DEF T
<1>14. T = Nat
  BY <1>12, <1>13, SetInduction DEF T
<1>15. N \in 0 .. N /\ last[N] = f[N]
  BY <1>1, <1>14 DEF T
<1> QED BY <1>1, <1>5, <1>6, <1>9, <1>15 DEF Run

\* The loop ends where no turn is left to make,
LEMMA LoopEnds ==
  ASSUME NEW p \in Parser
  PROVE  /\ Loop(p) \in Parser /\ Incomplete(Loop(p))
         /\ Incomplete(p) => Loop(p) = p
<1>1. PICK N \in Nat : N = Len(p.receive)
  BY DEF Parser, Bytes
<1>2. PICK f : Run(f, p) /\ Loop(p) = f[N]
  BY <1>1, LoopRuns
<1>3. /\ f \in [0 .. N -> Parser] /\ f[0] = p
      /\ \A n \in 1 .. N : f[n] = Turn(f[n - 1])
  BY <1>1, <1>2 DEF Run
<1> DEFINE T == {n \in Nat : n <= N => /\ Incomplete(f[n]) \/ Len(f[n].receive) <= N - n
                                       /\ Incomplete(p) => f[n] = p}
<1>4. 0 \in T
  BY <1>1, <1>3
<1>5. ASSUME NEW n \in T PROVE n + 1 \in T
  <2> SUFFICES ASSUME n + 1 <= N
               PROVE  /\ Incomplete(f[n + 1]) \/ Len(f[n + 1].receive) <= N - (n + 1)
                      /\ Incomplete(p) => f[n + 1] = p
    OBVIOUS
  <2>1. n \in Nat /\ n <= N
    OBVIOUS
  <2>2. /\ n \in 0 .. N /\ n + 1 \in 1 .. N /\ (n + 1) - 1 = n
        /\ Incomplete(f[n]) \/ Len(f[n].receive) <= N - n
        /\ Incomplete(p) => f[n] = p
    BY <1>1, <2>1
  <2>3. PICK q : q = f[n]
    OBVIOUS
  <2>4. q \in Parser /\ f[n + 1] = Turn(q)
    BY <1>3, <2>2, <2>3
  <2>5. Incomplete(q) => f[n + 1] = q
    BY <2>4, TurnIs
  <2>6. ~Incomplete(q) => Len(Turn(q).receive) < Len(q.receive)
    BY <2>4, TurnKeeps
  <2>7. Len(Turn(q).receive) \in Nat /\ Len(q.receive) \in Nat
    BY <2>4, TurnKeeps DEF Parser, Bytes
  <2>8. CASE Incomplete(q)
    BY <2>2, <2>3, <2>5, <2>8
  <2>9. CASE ~Incomplete(q)
    <3>1. Len(f[n + 1].receive) <= N - (n + 1)
      BY <2>1, <2>2, <2>3, <2>4, <2>6, <2>7, <2>9
    <3>2. ~Incomplete(p)
      BY <2>2, <2>3, <2>9
    <3> QED BY <3>1, <3>2
  <2> QED BY <2>8, <2>9
<1> HIDE DEF T
<1>6. T = Nat
  BY <1>4, <1>5, SetInduction DEF T
<1>7. /\ f[N] \in Parser
      /\ Incomplete(f[N]) \/ Len(f[N].receive) <= 0
      /\ Incomplete(p) => f[N] = p
  BY <1>3, <1>6 DEF T
<1>8. Len(f[N].receive) <= 0 => Incomplete(f[N])
  <2>1. f[N].receive \in Seq(Byte)
    BY <1>7 DEF Parser, Bytes
  <2>2. Len(f[N].receive) <= 0 => f[N].receive = << >>
    BY <2>1
  <2> QED BY <2>2 DEF Incomplete
<1> QED BY <1>2, <1>7, <1>8

\* the same wherever it begins,
LEMMA LoopGoesOn ==
  ASSUME NEW p \in Parser
  PROVE  Loop(p) = Loop(Turn(p))
<1>1. CASE Incomplete(p)
  BY <1>1, TurnIs
<1>2. CASE ~Incomplete(p)
  <2>1. PICK N \in Nat : N = Len(p.receive)
    BY DEF Parser, Bytes
  <2>2. PICK q : q = Turn(p)
    OBVIOUS
  <2>3. PICK M \in Nat : M = Len(q.receive)
    BY <2>2, TurnKeeps
  <2>4. q \in Parser /\ M < N
    BY <1>2, <2>1, <2>2, <2>3, TurnKeeps
  <2>5. PICK f : Run(f, p) /\ Loop(p) = f[N]
    BY <2>1, LoopRuns
  <2>6. PICK g : Run(g, q) /\ Loop(q) = g[M]
    BY <2>3, <2>4, LoopRuns
  <2>7. /\ f[0] = p /\ \A n \in 1 .. N : f[n] = Turn(f[n - 1])
        /\ g[0] = q /\ \A n \in 1 .. M : g[n] = Turn(g[n - 1])
    BY <2>1, <2>3, <2>5, <2>6 DEF Run
  <2>8. g[M] \in Parser /\ Incomplete(g[M])
    BY <2>4, <2>6, LoopEnds
  <2>9. Turn(g[M]) = g[M]
    BY <2>8, TurnIs
  <2> DEFINE T == {n \in Nat : n + 1 <= N => f[n + 1] = IF n <= M THEN g[n] ELSE g[M]}
  <2>10. 0 \in T
    <3>1. 1 \in 1 .. N /\ 1 - 1 = 0
      BY <2>1, <2>3, <2>4
    <3>2. f[1] = Turn(f[0])
      BY <2>7, <3>1
    <3> QED BY <2>2, <2>3, <2>7, <3>2
  <2>11. ASSUME NEW n \in T PROVE n + 1 \in T
    <3> SUFFICES ASSUME (n + 1) + 1 <= N
                 PROVE  f[(n + 1) + 1] = IF n + 1 <= M THEN g[n + 1] ELSE g[M]
      OBVIOUS
    <3>1. n \in Nat
      OBVIOUS
    <3>2. /\ (n + 1) + 1 \in 1 .. N /\ ((n + 1) + 1) - 1 = n + 1
          /\ f[n + 1] = IF n <= M THEN g[n] ELSE g[M]
      BY <2>1, <3>1
    <3>3. f[(n + 1) + 1] = Turn(f[n + 1])
      BY <2>7, <3>2
    <3>4. CASE n + 1 <= M
      <4>1. n + 1 \in 1 .. M /\ (n + 1) - 1 = n /\ n <= M
        BY <2>3, <3>1, <3>4
      <4>2. g[n + 1] = Turn(g[n])
        BY <2>7, <4>1
      <4> QED BY <3>2, <3>3, <3>4, <4>1, <4>2
    <3>5. CASE ~(n + 1 <= M)
      <4>1. n = M \/ ~(n <= M)
        BY <2>3, <3>1, <3>5
      <4>2. f[n + 1] = g[M]
        BY <3>2, <4>1
      <4> QED BY <2>9, <3>3, <3>5, <4>2
    <3> QED BY <3>4, <3>5
  <2> HIDE DEF T
  <2>12. T = Nat
    BY <2>10, <2>11, SetInduction DEF T
  <2>13. N - 1 \in Nat /\ (N - 1) + 1 = N /\ M <= N - 1 /\ (N - 1 <= M => N - 1 = M)
    BY <2>1, <2>3, <2>4
  <2>14. PICK n \in Nat : n = N - 1
    BY <2>13
  <2>15. n + 1 = N /\ (n <= M => n = M)
    BY <2>13, <2>14
  <2>s. n \in T
    BY <2>12
  <2>16. n + 1 <= N => f[n + 1] = IF n <= M THEN g[n] ELSE g[M]
    BY <2>s DEF T
  <2>17. f[N] = g[M]
    BY <2>1, <2>15, <2>16
  <2> QED BY <2>2, <2>5, <2>6, <2>17
<1> QED BY <1>1, <1>2

\* and what holds where no turn is left and before a turn, if after it, always holds.
LEMMA TurnInduction ==
  ASSUME NEW S \in SUBSET Parser,
         \A p \in Parser : Incomplete(p) => p \in S,
         \A p \in Parser : ~Incomplete(p) /\ Turn(p) \in S => p \in S
  PROVE  S = Parser
<1> DEFINE T == {n \in Nat : \A p \in Parser : Len(p.receive) <= n => p \in S}
<1>1. \A p \in Parser : Len(p.receive) \in Nat
  BY DEF Parser, Bytes
<1>2. 0 \in T
  <2> SUFFICES ASSUME NEW p \in Parser, Len(p.receive) <= 0 PROVE p \in S
    OBVIOUS
  <2>1. p.receive \in Seq(Byte)
    BY DEF Parser, Bytes
  <2>2. p.receive = << >>
    BY <2>1
  <2>3. Incomplete(p)
    BY <2>2 DEF Incomplete
  <2> QED BY <2>3
<1>3. ASSUME NEW n \in T PROVE n + 1 \in T
  <2> SUFFICES ASSUME NEW p \in Parser, Len(p.receive) <= n + 1 PROVE p \in S
    OBVIOUS
  <2>1. n \in Nat /\ \A q \in Parser : Len(q.receive) <= n => q \in S
    OBVIOUS
  <2> HIDE DEF T
  <2>2. CASE Incomplete(p)
    BY <2>2
  <2>3. CASE ~Incomplete(p)
    <3>1. PICK q : q = Turn(p)
      OBVIOUS
    <3>2. /\ q \in Parser /\ Len(q.receive) \in Nat /\ Len(p.receive) \in Nat
          /\ Len(q.receive) < Len(p.receive)
      BY <1>1, <2>3, <3>1, TurnKeeps
    <3>3. q \in S
      BY <2>1, <3>2
    <3> QED BY <2>3, <3>1, <3>3
  <2> QED BY <2>2, <2>3
<1> HIDE DEF T
<1>4. T = Nat
  BY <1>2, <1>3, SetInduction DEF T
<1>5. ASSUME NEW p \in Parser PROVE p \in S
  <2>1. Len(p.receive) \in T /\ Len(p.receive) <= Len(p.receive)
    BY <1>1, <1>4
  <2> QED BY <2>1 DEF T
<1> QED BY <1>5

\* Bytes that arrive when the loop has ended are read as if they had been there.
LEMMA LoopInParts ==
  ASSUME NEW c \in Bytes
  PROVE  \A p \in Parser : Loop(More(p, c)) = Loop(More(Loop(p), c))
<1> DEFINE S == {p \in Parser : Loop(More(p, c)) = Loop(More(Loop(p), c))}
<1>1. ASSUME NEW p \in Parser, Incomplete(p) PROVE p \in S
  BY <1>1, LoopEnds
<1>2. ASSUME NEW p \in Parser, ~Incomplete(p), Turn(p) \in S PROVE p \in S
  <2>1. Loop(More(Turn(p), c)) = Loop(More(Loop(Turn(p)), c))
    BY <1>2
  <2> HIDE DEF S
  <2>2. More(p, c) \in Parser
    BY StillFound
  <2>3. Loop(More(p, c)) = Loop(Turn(More(p, c)))
    BY <2>2, LoopGoesOn
  <2>4. Turn(More(p, c)) = More(Turn(p), c)
    BY <1>2, TurnMore
  <2>5. Loop(p) = Loop(Turn(p))
    BY LoopGoesOn
  <2> QED BY <2>1, <2>3, <2>4, <2>5 DEF S
<1> HIDE DEF S
<1>3. S = Parser
  BY <1>1, <1>2, TurnInduction DEF S
<1> QED BY <1>3 DEF S

-----------------------------------------------------------------------------
(* The parser: how the stream is cut.                                      *)

\* A function on the first numbers is a list.
LEMMA Listed ==
  ASSUME NEW S, NEW n \in Nat, NEW f \in [1 .. n -> S]
  PROVE  f \in Seq(S) /\ Len(f) = n
  OBVIOUS

\* One event more.
LEMMA EventMore ==
  ASSUME NEW ev \in Seq(ParserEvent), NEW e \in ParserEvent
  PROVE  /\ DataBytes(ev) \in Bytes /\ Others(ev) \in Seq(ParserEvent)
         /\ DataBytes(Append(ev, e)) =
              DataBytes(ev) \o (IF e.kind = "data" THEN e.bytes ELSE << >>)
         /\ Others(Append(ev, e)) = Others(ev) \o (IF e.kind = "data" THEN << >> ELSE <<e>>)
<1> DEFINE B(x) == IF x.kind = "data" THEN x.bytes ELSE << >>
           O(x) == IF x.kind = "data" THEN << >> ELSE <<x>>
<1>1. ASSUME NEW x \in ParserEvent PROVE B(x) \in Seq(Byte) /\ O(x) \in Seq(ParserEvent)
  <2>1. x.kind = "data" => x.bytes \in Seq(Byte)
    BY DEF ParserEvent, Bytes
  <2> QED BY <2>1
<1>2. PICK n \in Nat : n = Len(ev)
  OBVIOUS
<1>3. PICK more : more = Append(ev, e)
  OBVIOUS
<1>4. /\ more \in Seq(ParserEvent) /\ Len(more) = n + 1 /\ more[n + 1] = e
      /\ \A i \in 1 .. n : more[i] = ev[i] /\ ev[i] \in ParserEvent
      /\ DOMAIN ev = 1 .. n /\ DOMAIN more = 1 .. n + 1
  BY <1>2, <1>3, AppendProperties
<1>5. PICK bs, os, cs, qs :
        /\ bs = [i \in 1 .. n |-> B(ev[i])] /\ os = [i \in 1 .. n |-> O(ev[i])]
        /\ cs = [i \in 1 .. n + 1 |-> B(more[i])] /\ qs = [i \in 1 .. n + 1 |-> O(more[i])]
  OBVIOUS
<1>6. /\ DataBytes(ev) = FlattenSeq(bs) /\ Others(ev) = FlattenSeq(os)
      /\ DataBytes(more) = FlattenSeq(cs) /\ Others(more) = FlattenSeq(qs)
  BY <1>4, <1>5 DEF DataBytes, Others
<1>7. /\ B(e) \in Seq(Byte) /\ O(e) \in Seq(ParserEvent)
      /\ \A i \in 1 .. n : B(ev[i]) \in Seq(Byte) /\ O(ev[i]) \in Seq(ParserEvent)
      /\ \A i \in 1 .. n : B(more[i]) = B(ev[i]) /\ O(more[i]) = O(ev[i])
      /\ B(more[n + 1]) = B(e) /\ O(more[n + 1]) = O(e)
  BY <1>1, <1>4
<1> HIDE DEF B, O
<1>8. /\ bs \in Seq(Seq(Byte)) /\ os \in Seq(Seq(ParserEvent))
      /\ Len(bs) = n /\ Len(os) = n
  <2>1. bs \in [1 .. n -> Seq(Byte)] /\ os \in [1 .. n -> Seq(ParserEvent)]
    BY <1>5, <1>7, Zenon
  <2> QED BY <2>1, Listed
<1>9. cs = Append(bs, B(e))
  BY <1>5, <1>7, <1>8
<1>10. qs = Append(os, O(e))
  BY <1>5, <1>7, <1>8
<1>11. /\ FlattenSeq(bs) \in Seq(Byte) /\ FlattenSeq(cs) = FlattenSeq(bs) \o B(e)
       /\ FlattenSeq(os) \in Seq(ParserEvent) /\ FlattenSeq(qs) = FlattenSeq(os) \o O(e)
  BY <1>7, <1>8, <1>9, <1>10, FlattenAppend
<1>12. /\ DataBytes(ev) \in Seq(Byte) /\ DataBytes(more) = DataBytes(ev) \o B(e)
       /\ Others(ev) \in Seq(ParserEvent) /\ Others(more) = Others(ev) \o O(e)
  BY <1>6, <1>11
<1> QED BY <1>3, <1>12 DEF B, O, Bytes

\* Lists are put together in any grouping.
LEMMA Regrouped ==
  ASSUME NEW S, NEW u \in Seq(S), NEW v \in Seq(S), NEW w \in Seq(S)
  PROVE  (u \o v) \o w = u \o (v \o w) /\ v \o w \in Seq(S)
<1>1. (u \o v) \o w = u \o (v \o w)
  BY ConcatAssociative
<1> QED BY <1>1

\* A last element is put behind both.
LEMMA AppendLast ==
  ASSUME NEW S, NEW d \in Seq(S), NEW s \in Seq(S), NEW b \in S
  PROVE  d \o Append(s, b) = (d \o s) \o <<b>>
<1>1. Append(s, b) = s \o <<b>> /\ <<b>> \in Seq(S)
  BY AppendIsConcat
<1> QED BY <1>1, ConcatAssociative

\* The end of a read: what was not framed is handed on.
End(q) == [q EXCEPT !.events = Emit(q, q.processed), !.processed = << >>]

\* Where records are not framed, parsers that have handed on or hold the same bytes, and
\* stand alike, will go on alike.
Alike(p, q) ==
  /\ p.framed = q.framed /\ p.receive = q.receive /\ p.record = q.record
  /\ p.inSub = q.inSub /\ p.subOption = q.subOption /\ p.sub = q.sub
  /\ Others(p.events) = Others(q.events)
  /\ DataBytes(p.events) \o p.processed = DataBytes(q.events) \o q.processed

\* What the fields of a parser hold.
LEMMA ParserTypes ==
  ASSUME NEW p \in Parser
  PROVE  /\ p.framed \in BOOLEAN /\ p.receive \in Seq(Byte) /\ p.record \in Seq(Byte)
         /\ p.processed \in Seq(Byte) /\ p.inSub \in BOOLEAN
         /\ p.subOption \in Byte \cup {"none"} /\ p.sub \in Seq(Byte)
         /\ p.events \in Seq(ParserEvent)
         /\ DataBytes(p.events) \in Seq(Byte) /\ Others(p.events) \in Seq(ParserEvent)
<1>1. p.events \in Seq(ParserEvent)
  BY DEF Parser
<1>2. Data(<< >>) \in ParserEvent
  BY DEF Data, ParserEvent, Bytes
<1>3. DataBytes(p.events) \in Bytes /\ Others(p.events) \in Seq(ParserEvent)
  BY <1>1, <1>2, EventMore
<1> QED BY <1>1, <1>3 DEF Parser, Bytes

\* The end of a read hands on what was held.
LEMMA EndAlike ==
  ASSUME NEW p \in Parser
  PROVE  End(p) \in Parser /\ End(p).processed = << >> /\ Alike(End(p), p)
<1>1. PICK x, ev : x = p.processed /\ ev = p.events
  OBVIOUS
<1>2. /\ x \in Seq(Byte) /\ ev \in Seq(ParserEvent)
      /\ DataBytes(ev) \in Seq(Byte) /\ Others(ev) \in Seq(ParserEvent)
  BY <1>1, ParserTypes
<1>3. PICK e : e = Data(x)
  OBVIOUS
<1>4. e \in ParserEvent /\ e.kind = "data" /\ e.bytes = x
  BY <1>2, <1>3 DEF Data, ParserEvent, Bytes
<1>5. PICK f : f = Emit(p, x)
  OBVIOUS
<1>6. f = IF x = << >> THEN ev ELSE Append(ev, e)
  BY <1>1, <1>3, <1>5 DEF Emit
<1>7. /\ f \in Seq(ParserEvent) /\ DataBytes(f) \in Seq(Byte)
      /\ DataBytes(f) = DataBytes(ev) \o x
      /\ Others(f) = Others(ev)
  <2>1. CASE x = << >>
    BY <1>2, <1>6, <2>1
  <2>2. CASE x # << >>
    <3>1. f = Append(ev, e) /\ f \in Seq(ParserEvent)
      BY <1>2, <1>4, <1>6, <2>2
    <3>2. DataBytes(f) = DataBytes(ev) \o x /\ Others(f) = Others(ev) \o << >>
      BY <1>2, <1>4, <3>1, EventMore
    <3> QED BY <1>2, <3>1, <3>2
  <2> QED BY <2>1, <2>2
<1>8. PICK q : q = End(p)
  OBVIOUS
<1>9. q = [p EXCEPT !.events = f, !.processed = << >>]
  BY <1>1, <1>5, <1>8 DEF End
<1>10. q \in Parser
  <2>1. << >> \in Seq(Byte)
    OBVIOUS
  <2> QED BY <1>7, <1>9, <2>1 DEF Parser, Bytes
<1>11. /\ q.processed = << >> /\ q.events = f /\ q.framed = p.framed /\ q.receive = p.receive
       /\ q.record = p.record /\ q.inSub = p.inSub /\ q.subOption = p.subOption
       /\ q.sub = p.sub
  BY <1>9 DEF Parser
<1>12. DataBytes(f) \o << >> = DataBytes(ev) \o x
  BY <1>2, <1>7
<1> QED BY <1>1, <1>7, <1>8, <1>10, <1>11, <1>12 DEF Alike

\* Alike parsers take what they find alike.
LEMMA TakenAlike ==
  ASSUME NEW p \in Parser, NEW q \in Parser, NEW b \in Byte, NEW o \in Byte,
         ~p.framed, Alike(p, q)
  PROVE  /\ Alike(Take(p, b), Take(q, b))
         /\ Alike(TakeData(p, b), TakeData(q, b))
         /\ Alike(TakeStandalone(p, b), TakeStandalone(q, b))
         /\ Alike(TakeCommand(p, b, o), TakeCommand(q, b, o))
<1>1. /\ q.framed = p.framed /\ q.receive = p.receive /\ q.record = p.record
      /\ q.inSub = p.inSub /\ q.subOption = p.subOption /\ q.sub = p.sub
      /\ Others(q.events) = Others(p.events)
      /\ DataBytes(q.events) \o q.processed = DataBytes(p.events) \o p.processed
  BY DEF Alike
<1>2. ~q.framed
  BY <1>1
<1>3. /\ p.processed \in Seq(Byte) /\ q.processed \in Seq(Byte)
      /\ DataBytes(p.events) \in Seq(Byte) /\ DataBytes(q.events) \in Seq(Byte)
      /\ p.events \in Seq(ParserEvent) /\ q.events \in Seq(ParserEvent)
      /\ Others(p.events) \in Seq(ParserEvent) /\ Others(q.events) \in Seq(ParserEvent)
      /\ p.sub \in Seq(Byte) /\ p.subOption \in Byte \cup {"none"}
  BY ParserTypes
<1>4. Alike(TakeData(p, b), TakeData(q, b))
  <2>1. PICK x, y : x = Append(p.processed, b) /\ y = Append(q.processed, b)
    OBVIOUS
  <2>a. ASSUME NEW d \in Seq(Byte), NEW s \in Seq(Byte) PROVE d \o Append(s, b) = (d \o s) \o <<b>>
    BY AppendLast
  <2>2. DataBytes(p.events) \o x = (DataBytes(p.events) \o p.processed) \o <<b>>
    <3>1. DataBytes(p.events) \in Seq(Byte) /\ p.processed \in Seq(Byte)
      BY <1>3
    <3> QED BY <2>1, <2>a, <3>1
  <2>3. DataBytes(q.events) \o y = (DataBytes(q.events) \o q.processed) \o <<b>>
    <3>1. DataBytes(q.events) \in Seq(Byte) /\ q.processed \in Seq(Byte)
      BY <1>3
    <3> QED BY <2>1, <2>a, <3>1
  <2>4. TakeData(p, b) = [p EXCEPT !.processed = x] /\ TakeData(q, b) = [q EXCEPT !.processed = y]
    BY <1>2, <2>1 DEF TakeData
  <2>5. DataBytes(p.events) \o x = DataBytes(q.events) \o y
    BY <1>1, <2>2, <2>3
  <2> QED BY <1>1, <2>4, <2>5 DEF Alike, Parser
<1>5. Alike(Take(p, b), Take(q, b))
  <2>1. CASE p.inSub
    <3>1. PICK x : x = Append(p.sub, b)
      OBVIOUS
    <3>2. Take(p, b) = [p EXCEPT !.sub = x] /\ Take(q, b) = [q EXCEPT !.sub = x]
      BY <1>1, <2>1, <3>1 DEF Take
    <3> QED BY <1>1, <3>2 DEF Alike, Parser
  <2>2. CASE ~p.inSub
    BY <1>1, <1>4, <2>2 DEF Take
  <2> QED BY <2>1, <2>2
<1>6. ASSUME NEW e \in ParserEvent, e.kind # "data",
             NEW f, f = Append(p.events, e), NEW g, g = Append(q.events, e)
      PROVE  Others(f) = Others(g) /\ DataBytes(f) \o p.processed = DataBytes(g) \o q.processed
  <2>1. /\ DataBytes(f) = DataBytes(p.events) \o << >> /\ Others(f) = Others(p.events) \o <<e>>
        /\ DataBytes(g) = DataBytes(q.events) \o << >> /\ Others(g) = Others(q.events) \o <<e>>
    BY <1>3, <1>6, EventMore
  <2>2. DataBytes(f) = DataBytes(p.events) /\ DataBytes(g) = DataBytes(q.events)
    BY <1>3, <2>1
  <2> QED BY <1>1, <2>1, <2>2
<1>7. Alike(TakeStandalone(p, b), TakeStandalone(q, b))
  <2>1. CASE b = "SE" /\ p.inSub
    <3>1. PICK e : e = [kind |-> "sub", option |-> p.subOption, bytes |-> p.sub]
      OBVIOUS
    <3>2. e \in ParserEvent /\ e.kind # "data"
      BY <1>3, <3>1 DEF ParserEvent, Bytes
    <3>3. PICK f, g : f = Append(p.events, e) /\ g = Append(q.events, e)
      OBVIOUS
    <3>4. TakeStandalone(p, b) = [p EXCEPT !.inSub = FALSE, !.sub = << >>, !.events = f]
      BY <2>1, <3>1, <3>3 DEF TakeStandalone
    <3>5. TakeStandalone(q, b) = [q EXCEPT !.inSub = FALSE, !.sub = << >>, !.events = g]
      BY <1>1, <2>1, <3>1, <3>3 DEF TakeStandalone
    <3>6. Others(f) = Others(g) /\ DataBytes(f) \o p.processed = DataBytes(g) \o q.processed
      BY <1>6, <3>2, <3>3
    <3> QED BY <1>1, <3>4, <3>5, <3>6 DEF Alike, Parser
  <2>2. CASE ~(b = "SE" /\ p.inSub)
    <3>1. TakeStandalone(p, b) = p /\ TakeStandalone(q, b) = q
      BY <1>1, <1>2, <2>2 DEF TakeStandalone
    <3> QED BY <3>1
  <2> QED BY <2>1, <2>2
<1>8. Alike(TakeCommand(p, b, o), TakeCommand(q, b, o))
  <2>1. CASE b = "SB"
    <3>1. /\ TakeCommand(p, b, o) = [p EXCEPT !.inSub = TRUE, !.subOption = o, !.sub = << >>]
          /\ TakeCommand(q, b, o) = [q EXCEPT !.inSub = TRUE, !.subOption = o, !.sub = << >>]
      BY <2>1 DEF TakeCommand
    <3> QED BY <1>1, <3>1 DEF Alike, Parser
  <2>2. CASE b = "WILL"
    <3>1. PICK e : e = [kind |-> "command", verb |-> b, option |-> o]
      OBVIOUS
    <3>2. e \in ParserEvent /\ e.kind # "data"
      BY <2>2, <3>1 DEF ParserEvent
    <3>3. PICK f, g : f = Append(p.events, e) /\ g = Append(q.events, e)
      OBVIOUS
    <3>4. TakeCommand(p, b, o) = [p EXCEPT !.events = f] /\ TakeCommand(q, b, o) = [q EXCEPT !.events = g]
      BY <2>2, <3>1, <3>3 DEF TakeCommand
    <3>5. Others(f) = Others(g) /\ DataBytes(f) \o p.processed = DataBytes(g) \o q.processed
      BY <1>6, <3>2, <3>3
    <3> QED BY <1>1, <3>4, <3>5 DEF Alike, Parser
  <2>3. CASE b \notin {"SB", "WILL"}
    <3>1. TakeCommand(p, b, o) = p /\ TakeCommand(q, b, o) = q
      BY <2>3 DEF TakeCommand
    <3> QED BY <3>1
  <2> QED BY <2>1, <2>2, <2>3
<1> QED BY <1>4, <1>5, <1>7, <1>8

\* Bytes that arrive or are consumed do so in both.
LEMMA ReceivedAlike ==
  ASSUME NEW p \in Parser, NEW q \in Parser, Alike(p, q)
  PROVE  /\ \A c \in Bytes : Alike(More(p, c), More(q, c))
         /\ \A n \in Nat : n <= Len(p.receive) => Alike(After(p, n), After(q, n))
<1>1. p.receive = q.receive
  BY DEF Alike
<1>2. ASSUME NEW x PROVE Alike([p EXCEPT !.receive = x], [q EXCEPT !.receive = x])
  BY DEF Alike, Parser
<1>3. ASSUME NEW c \in Bytes PROVE Alike(More(p, c), More(q, c))
  <2>1. PICK x : x = p.receive \o c
    OBVIOUS
  <2>2. More(p, c) = [p EXCEPT !.receive = x] /\ More(q, c) = [q EXCEPT !.receive = x]
    BY <1>1, <2>1 DEF More
  <2> QED BY <1>2, <2>2
<1>4. ASSUME NEW n \in Nat PROVE Alike(After(p, n), After(q, n))
  <2>1. PICK x : x = SubSeq(p.receive, n + 1, Len(p.receive))
    OBVIOUS
  <2>2. After(p, n) = [p EXCEPT !.receive = x] /\ After(q, n) = [q EXCEPT !.receive = x]
    BY <1>1, <2>1 DEF After
  <2> QED BY <1>2, <2>2
<1> QED BY <1>3, <1>4

\* They find the same.
LEMMA FoundAlike ==
  ASSUME NEW p \in Parser, NEW q \in Parser, Alike(p, q)
  PROVE  /\ DataFirst(p) <=> DataFirst(q)
         /\ Doubled(p) <=> Doubled(q)
         /\ Lone(p) <=> Lone(q)
         /\ Short(p) <=> Short(q)
         /\ Long(p) <=> Long(q)
         /\ Incomplete(p) <=> Incomplete(q)
<1>1. p.receive = q.receive /\ \A x : UnescapedIac(p, x) <=> UnescapedIac(q, x)
  BY DEF Alike, UnescapedIac
<1>2. PICK b : b = p.receive
  OBVIOUS
<1>3. p.receive = b /\ q.receive = b
  BY <1>1, <1>2
<1>4. UnescapedIac(p, b[2]) <=> UnescapedIac(q, b[2])
  BY <1>1
<1>5. DataFirst(p) <=> DataFirst(q)
  BY <1>3 DEF DataFirst
<1>6. Doubled(p) <=> Doubled(q)
  BY <1>3 DEF Doubled
<1>7. Lone(p) <=> Lone(q)
  BY <1>3, <1>4, Zenon DEF Lone
<1>8. Short(p) <=> Short(q)
  BY <1>3, <1>4, Zenon DEF Short
<1>9. Long(p) <=> Long(q)
  BY <1>3, <1>4, Zenon DEF Long
<1> QED BY <1>5, <1>6, <1>7, <1>8, <1>9, Found

\* Alike parsers make their turns alike,
LEMMA TurnAlike ==
  ASSUME NEW p \in Parser, NEW q \in Parser, ~p.framed, Alike(p, q)
  PROVE  Alike(Turn(p), Turn(q))
<1>1. p.receive = q.receive /\ "IAC" \in Byte
  BY DEF Alike, Byte
<1>2. p.receive \in Seq(Byte) /\ Len(p.receive) \in Nat
  BY DEF Parser, Bytes
<1>3. /\ Len(p.receive) >= 1 => p.receive[1] \in Byte
      /\ Len(p.receive) >= 2 => p.receive[2] \in Byte
      /\ Len(p.receive) >= 3 => p.receive[3] \in Byte
  BY <1>2
<1>4. ASSUME NEW n \in Nat, n <= Len(p.receive)
      PROVE  /\ After(p, n) \in Parser /\ After(q, n) \in Parser
             /\ ~After(p, n).framed /\ Alike(After(p, n), After(q, n))
  <2>1. << >> \in Bytes
    BY DEF Bytes
  <2>2. After(p, n) \in Parser /\ After(q, n) \in Parser
    BY <1>1, <1>4, <2>1, AfterMore
  <2>3. ~After(p, n).framed
    BY DEF After, Parser
  <2> QED BY <1>4, <2>2, <2>3, ReceivedAlike
<1>5. CASE Incomplete(p)
  BY <1>5, FoundAlike, TurnIs
<1>6. CASE DataFirst(p)
  <2>1. Turn(p) = Take(After(p, 1), p.receive[1]) /\ Turn(q) = Take(After(q, 1), p.receive[1])
    BY <1>1, <1>6, FoundAlike, TurnIs
  <2>2. 1 \in Nat /\ 1 <= Len(p.receive) /\ p.receive[1] \in Byte
    BY <1>2, <1>3, <1>6 DEF DataFirst
  <2> QED BY <1>4, <2>1, <2>2, TakenAlike
<1>7. CASE Doubled(p)
  <2>1. Turn(p) = Take(After(p, 2), "IAC") /\ Turn(q) = Take(After(q, 2), "IAC")
    BY <1>1, <1>7, FoundAlike, TurnIs
  <2>2. 2 \in Nat /\ 2 <= Len(p.receive)
    BY <1>2, <1>7 DEF Doubled
  <2> QED BY <1>1, <1>4, <2>1, <2>2, TakenAlike
<1>8. CASE Lone(p)
  <2>1. Turn(p) = TakeData(After(p, 1), "IAC") /\ Turn(q) = TakeData(After(q, 1), "IAC")
    BY <1>1, <1>8, FoundAlike, TurnIs
  <2>2. 1 \in Nat /\ 1 <= Len(p.receive)
    BY <1>2, <1>8 DEF Lone
  <2> QED BY <1>1, <1>4, <2>1, <2>2, TakenAlike
<1>9. CASE Short(p)
  <2>1. /\ Turn(p) = TakeStandalone(After(p, 2), p.receive[2])
        /\ Turn(q) = TakeStandalone(After(q, 2), p.receive[2])
    BY <1>1, <1>9, FoundAlike, TurnIs
  <2>2. 2 \in Nat /\ 2 <= Len(p.receive) /\ p.receive[2] \in Byte
    BY <1>2, <1>3, <1>9 DEF Short
  <2> QED BY <1>4, <2>1, <2>2, TakenAlike
<1>10. CASE Long(p)
  <2>1. /\ Turn(p) = TakeCommand(After(p, 3), p.receive[2], p.receive[3])
        /\ Turn(q) = TakeCommand(After(q, 3), p.receive[2], p.receive[3])
    BY <1>1, <1>10, FoundAlike, TurnIs
  <2>2. 3 \in Nat /\ 3 <= Len(p.receive) /\ p.receive[2] \in Byte /\ p.receive[3] \in Byte
    BY <1>2, <1>3, <1>10 DEF Long
  <2> QED BY <1>4, <2>1, <2>2, TakenAlike
<1> QED BY <1>5, <1>6, <1>7, <1>8, <1>9, <1>10, Found

\* Framing is settled, and a framed parser holds no loose bytes.
LEMMA TurnFrames ==
  ASSUME NEW p \in Parser
  PROVE  /\ Turn(p).framed = p.framed
         /\ p.framed /\ p.processed = << >> => Turn(p).processed = << >>
<1> DEFINE Fine(q) == q.framed = p.framed /\ (p.framed /\ p.processed = << >> => q.processed = << >>)
<1>1. ASSUME NEW n, NEW b, NEW o
      PROVE  /\ Fine(Take(After(p, n), b)) /\ Fine(TakeData(After(p, n), b))
             /\ Fine(TakeStandalone(After(p, n), b)) /\ Fine(TakeCommand(After(p, n), b, o))
  <2>1. PICK q : q = After(p, n)
    OBVIOUS
  <2>2. q = [p EXCEPT !.receive = SubSeq(p.receive, n + 1, Len(p.receive))]
    BY <2>1 DEF After
  <2>3. Fine(TakeData(q, b))
    BY <2>2 DEF TakeData, Parser
  <2>4. Fine(Take(q, b))
    BY <2>2, <2>3 DEF Take, Parser
  <2>5. Fine(TakeStandalone(q, b))
    BY <2>2 DEF TakeStandalone, Parser
  <2>6. Fine(TakeCommand(q, b, o))
    BY <2>2 DEF TakeCommand, Parser
  <2> QED BY <2>1, <2>3, <2>4, <2>5, <2>6
<1>2. Incomplete(p) => Fine(Turn(p))
  BY TurnIs
<1> HIDE DEF Fine
<1>3. Fine(Turn(p))
  BY <1>1, <1>2, Found, TurnIs
<1> QED BY <1>3 DEF Fine

\* So it is at the end of the loop.
LEMMA LoopFrames ==
  \A p \in Parser : /\ Loop(p).framed = p.framed
                    /\ p.framed /\ p.processed = << >> => Loop(p).processed = << >>
<1> DEFINE S == {p \in Parser : /\ Loop(p).framed = p.framed
                                /\ p.framed /\ p.processed = << >> => Loop(p).processed = << >>}
<1>1. ASSUME NEW p \in Parser, Incomplete(p) PROVE p \in S
  BY <1>1, LoopEnds
<1>2. ASSUME NEW p \in Parser, ~Incomplete(p), Turn(p) \in S PROVE p \in S
  <2>1. PICK q : q = Turn(p)
    OBVIOUS
  <2>2. Loop(q).framed = q.framed /\ (q.framed /\ q.processed = << >> => Loop(q).processed = << >>)
    BY <1>2, <2>1
  <2>3. Loop(p) = Loop(q)
    BY <2>1, LoopGoesOn
  <2>4. q.framed = p.framed /\ (p.framed /\ p.processed = << >> => q.processed = << >>)
    BY <2>1, TurnFrames
  <2> QED BY <2>2, <2>3, <2>4
<1> HIDE DEF S
<1>3. S = Parser
  BY <1>1, <1>2, TurnInduction DEF S
<1> QED BY <1>3 DEF S

\* and end their loops alike.
LEMMA LoopAlike ==
  \A p \in Parser : \A q \in Parser : ~p.framed /\ Alike(p, q) => Alike(Loop(p), Loop(q))
<1> DEFINE S == {p \in Parser :
                   \A q \in Parser : ~p.framed /\ Alike(p, q) => Alike(Loop(p), Loop(q))}
<1>1. ASSUME NEW p \in Parser, Incomplete(p) PROVE p \in S
  <2> SUFFICES ASSUME NEW q \in Parser, ~p.framed, Alike(p, q) PROVE Alike(Loop(p), Loop(q))
    OBVIOUS
  <2>1. Incomplete(q)
    BY <1>1, FoundAlike
  <2> QED BY <1>1, <2>1, LoopEnds
<1>2. ASSUME NEW p \in Parser, ~Incomplete(p), Turn(p) \in S PROVE p \in S
  <2> SUFFICES ASSUME NEW q \in Parser, ~p.framed, Alike(p, q) PROVE Alike(Loop(p), Loop(q))
    OBVIOUS
  <2>1. \A r \in Parser : ~Turn(p).framed /\ Alike(Turn(p), r) => Alike(Loop(Turn(p)), Loop(r))
    BY <1>2
  <2> HIDE DEF S
  <2>2. Turn(q) \in Parser /\ ~Turn(p).framed /\ Alike(Turn(p), Turn(q))
    BY TurnAlike, TurnFrames, TurnKeeps
  <2>3. Alike(Loop(Turn(p)), Loop(Turn(q)))
    BY <2>1, <2>2
  <2> QED BY <2>3, LoopGoesOn
<1> HIDE DEF S
<1>3. S = Parser
  BY <1>1, <1>2, TurnInduction DEF S
<1> QED BY <1>3 DEF S

\* A read is a loop over all there is, and its end.
LEMMA FeedIs ==
  ASSUME NEW p \in Parser, NEW c \in Bytes, p.processed = << >>
  PROVE  Feed(p, c) = End(Loop(More(p, c)))
<1>1. [p EXCEPT !.receive = p.receive \o c, !.processed = << >>] = More(p, c)
  BY DEF More, Parser
<1> QED BY <1>1 DEF Feed, End

\* Bytes that arrive in two parts are there as in one.
LEMMA MoreMore ==
  ASSUME NEW p \in Parser, NEW c \in Bytes, NEW d \in Bytes
  PROVE  More(More(p, c), d) = More(p, c \o d)
<1>1. PICK b : b = p.receive
  OBVIOUS
<1>2. b \in Seq(Byte) /\ c \in Seq(Byte) /\ d \in Seq(Byte)
  BY <1>1 DEF Parser, Bytes
<1>3. (b \o c) \o d = b \o (c \o d)
  BY <1>2, ConcatAssociative
<1> QED BY <1>1, <1>3 DEF More, Parser

\* What the loop makes of all that has arrived, read at once.
AtOnce == Loop(More(Idle(parser.framed), SubSeq(stream, 1, fed)))

\* Framed, the parser is exactly that; unframed, it has handed on or holds the same bytes.
ChunkInv ==
  /\ stream \in Seq(Byte) /\ fed \in 0 .. Len(stream)
  /\ parser \in Parser /\ parser.processed = << >>
  /\ IF parser.framed THEN parser = AtOnce ELSE Alike(parser, AtOnce)

\* The parser of a new connection.
LEMMA IdleParser ==
  ASSUME NEW f \in BOOLEAN
  PROVE  /\ Idle(f) \in Parser /\ Incomplete(Idle(f)) /\ More(Idle(f), << >>) = Idle(f)
         /\ Idle(f).framed = f /\ Idle(f).processed = << >>
<1>1. << >> \in Seq(Byte) /\ << >> \in Seq(ParserEvent)
  OBVIOUS
<1>2. PICK i : i = Idle(f)
  OBVIOUS
<1>3. i \in Parser /\ i.framed = f /\ i.processed = << >> /\ i.receive = << >>
  BY <1>1, <1>2 DEF Idle, Parser, Bytes
<1>4. << >> \o << >> = << >>
  BY <1>1, ConcatEmptySeq
<1>5. More(i, << >>) = i
  BY <1>3, <1>4 DEF More, Parser
<1> QED BY <1>2, <1>3, <1>5 DEF Incomplete

\* It holds in the beginning and in every step,
LEMMA ChunkInit == ParserInit => ChunkInv
<1> SUFFICES ASSUME ParserInit PROVE ChunkInv
  OBVIOUS
<1>1. stream \in Seq(Byte) /\ fed = 0
  BY BytesAssumption DEF ParserInit
<1>2. PICK f \in BOOLEAN : parser = Idle(f)
  BY DEF ParserInit
<1>3. SubSeq(stream, 1, fed) = << >>
  BY <1>1
<1>4. AtOnce = parser
  BY <1>2, <1>3, IdleParser, LoopEnds DEF AtOnce
<1> QED BY <1>1, <1>2, <1>4, IdleParser DEF ChunkInv, Alike

LEMMA ChunkStep == ChunkInv /\ [ParserNext]_parserVars => ChunkInv'
<1> SUFFICES ASSUME ChunkInv, [ParserNext]_parserVars PROVE ChunkInv'
  OBVIOUS
<1>1. CASE UNCHANGED parserVars
  BY <1>1 DEF ChunkInv, parserVars, AtOnce
<1>2. CASE ParserNext
  <2>1. PICK n \in 1 .. Len(stream) - fed : ReadChunk(n)
    BY <1>2 DEF ParserNext
  <2>2. PICK c, s : c = SubSeq(stream, fed + 1, fed + n) /\ s = SubSeq(stream, 1, fed)
    OBVIOUS
  <2>3. /\ stream \in Seq(Byte) /\ fed \in 0 .. Len(stream) /\ Len(stream) \in Nat
        /\ parser \in Parser /\ parser.processed = << >> /\ parser.framed \in BOOLEAN
    BY DEF ChunkInv, Parser
  <2>4. /\ fed' = fed + n /\ fed' \in 0 .. Len(stream) /\ stream' = stream
        /\ parser' = Feed(parser, c)
    BY <2>1, <2>2, <2>3 DEF ReadChunk
  <2>5. c \in Bytes /\ s \in Bytes
    BY <2>2, <2>3, <2>4 DEF Bytes
  <2>6. s \o c = SubSeq(stream, 1, fed + n)
    <3>1. /\ 1 \in 1 .. Len(stream) + 1 /\ fed \in 1 - 1 .. Len(stream)
          /\ fed + n \in fed .. Len(stream)
      BY <2>3, <2>4
    <3> QED BY <2>2, <2>3, <3>1, ConcatAdjacentSubSeq
  <2>7. PICK i, w, l : /\ i = Idle(parser.framed) /\ w = Loop(More(i, s))
                       /\ l = Loop(More(parser, c))
    OBVIOUS
  <2>8. /\ i \in Parser /\ i.framed = parser.framed /\ i.processed = << >>
        /\ More(i, s) \in Parser /\ More(i, s).framed = i.framed
        /\ More(i, s).processed = << >>
        /\ More(parser, c) \in Parser /\ More(parser, c).framed = parser.framed
        /\ More(parser, c).processed = << >>
    <3>1. i \in Parser /\ i.framed = parser.framed /\ i.processed = << >>
      BY <2>3, <2>7, IdleParser
    <3>2. More(i, s) \in Parser /\ More(parser, c) \in Parser
      BY <2>3, <2>5, <3>1, StillFound
    <3> QED BY <2>3, <3>1, <3>2 DEF More, Parser
  <2>9. /\ w \in Parser /\ l \in Parser /\ w.framed = parser.framed /\ l.framed = parser.framed
        /\ parser.framed => l.processed = << >>
    BY <2>7, <2>8, LoopEnds, LoopFrames
  <2>10. parser' = End(l)
    BY <2>3, <2>4, <2>5, <2>7, FeedIs
  <2>11. parser' \in Parser /\ parser'.processed = << >> /\ Alike(parser', l)
    BY <2>9, <2>10, EndAlike
  <2>12. parser'.framed = parser.framed
    BY <2>9, <2>11 DEF Alike
  <2>13. Loop(More(w, c)) = Loop(More(i, s \o c))
    BY <2>5, <2>7, <2>8, LoopInParts, MoreMore
  <2>14. AtOnce = w
    BY <2>2, <2>7 DEF AtOnce
  <2>15. AtOnce' = Loop(More(w, c))
    BY <2>4, <2>6, <2>7, <2>12, <2>13 DEF AtOnce
  <2>16. CASE parser.framed
    <3>1. parser = w
      BY <2>14, <2>16 DEF ChunkInv
    <3>2. l = AtOnce'
      BY <2>7, <2>15, <3>1
    <3>3. parser' = l
      <4>1. l.processed = << >>
        BY <2>9, <2>16
      <4> QED BY <2>9, <2>10, <4>1 DEF End, Emit, Parser
    <3> QED BY <2>3, <2>4, <2>11, <2>12, <2>16, <3>2, <3>3 DEF ChunkInv
  <2>17. CASE ~parser.framed
    <3>1. Alike(parser, w)
      BY <2>14, <2>17 DEF ChunkInv
    <3>2. Alike(More(parser, c), More(w, c)) /\ More(w, c) \in Parser
      BY <2>3, <2>5, <2>9, <3>1, ReceivedAlike, StillFound
    <3>3. Alike(l, AtOnce')
      BY <2>7, <2>8, <2>15, <2>17, <3>2, LoopAlike
    <3>4. Alike(parser', AtOnce')
      BY <2>11, <3>3 DEF Alike
    <3> QED BY <2>3, <2>4, <2>11, <2>12, <2>17, <3>4 DEF ChunkInv
  <2> QED BY <2>16, <2>17
<1> QED BY <1>1, <1>2

\* and the cuts of the stream do not matter.
LEMMA ChunksRead == ChunkInv => ChunkingIrrelevant
<1> SUFFICES ASSUME ChunkInv PROVE ChunkingIrrelevant
  OBVIOUS
<1>1. PICK s : s = SubSeq(stream, 1, fed)
  OBVIOUS
<1>2. /\ s \in Bytes /\ parser \in Parser /\ parser.processed = << >>
      /\ parser.framed \in BOOLEAN
  BY <1>1 DEF ChunkInv, Parser, Bytes
<1>3. PICK i, w : i = Idle(parser.framed) /\ w = AtOnce
  OBVIOUS
<1>4. i \in Parser /\ i.processed = << >> /\ w = Loop(More(i, s))
  BY <1>1, <1>2, <1>3, IdleParser DEF AtOnce
<1>5. w \in Parser
  BY <1>2, <1>4, LoopEnds, StillFound
<1>6. OneRead = End(w)
  BY <1>1, <1>2, <1>3, <1>4, FeedIs DEF OneRead
<1>7. End(w) \in Parser /\ End(w).processed = << >> /\ Alike(End(w), w)
  BY <1>5, EndAlike
<1>8. CASE parser.framed
  <2>1. parser = w
    BY <1>3, <1>8 DEF ChunkInv
  <2>2. End(w) = parser
    BY <1>2, <2>1 DEF End, Emit, Parser
  <2> QED BY <1>6, <1>8, <2>2 DEF ChunkingIrrelevant
<1>9. CASE ~parser.framed
  <2>1. Alike(parser, w)
    BY <1>3, <1>9 DEF ChunkInv
  <2>2. PICK o : o = End(w)
    OBVIOUS
  <2>3. Alike(parser, o)
    BY <1>7, <2>1, <2>2 DEF Alike
  <2>4. DataBytes(parser.events) \in Seq(Byte) /\ DataBytes(o.events) \in Seq(Byte)
    BY <1>2, <1>7, <2>2, ParserTypes
  <2>5. DataBytes(parser.events) = DataBytes(o.events)
    <3>1. DataBytes(parser.events) \o << >> = DataBytes(o.events) \o << >>
      BY <1>2, <1>7, <2>2, <2>3 DEF Alike
    <3> QED BY <2>4, <3>1
  <2> QED BY <1>6, <1>9, <2>2, <2>3, <2>5 DEF ChunkingIrrelevant, Alike
<1> QED BY <1>8, <1>9

-----------------------------------------------------------------------------
(* The parser: how records are encoded.                                    *)

\* A framed parser between commands, with part of a record.
Between(r, rest, ev) ==
  [framed |-> TRUE, receive |-> rest, record |-> r, processed |-> << >>,
   inSub |-> FALSE, subOption |-> "none", sub |-> << >>, events |-> ev]

\* IAC EOR.
Ending == <<"IAC", "EOR">>

\* That is a parser.
LEMMA BetweenParser ==
  ASSUME NEW r \in Bytes, NEW rest \in Bytes, NEW ev \in Seq(ParserEvent)
  PROVE  Between(r, rest, ev) \in Parser
<1>1. << >> \in Seq(Byte)
  OBVIOUS
<1> QED BY <1>1 DEF Between, Parser, Bytes

\* What is left when the bytes in front are consumed.
LEMMA Behind ==
  ASSUME NEW h \in Bytes, NEW rest \in Bytes
  PROVE  SubSeq(h \o rest, Len(h) + 1, Len(h \o rest)) = rest
<1>1. h \in Seq(Byte) /\ rest \in Seq(Byte) /\ Len(h) \in Nat /\ Len(rest) \in Nat
  BY DEF Bytes
<1>2. PICK k \in Nat, l \in Nat : k = Len(h) /\ l = Len(rest)
  BY <1>1
<1>3. PICK b : b = h \o rest
  OBVIOUS
<1>4. /\ b \in Seq(Byte) /\ Len(b) = k + l
      /\ \A i \in 1 .. k + l : b[i] = IF i <= k THEN h[i] ELSE rest[i - k]
  BY <1>1, <1>2, <1>3, ConcatProperties
<1>5. PICK s : s = SubSeq(b, k + 1, k + l)
  OBVIOUS
<1>6. s \in Seq(Byte) /\ Len(s) = l /\ \A i \in 1 .. l : s[i] = b[k + i]
  BY <1>2, <1>4, <1>5
<1>7. ASSUME NEW i \in 1 .. l PROVE s[i] = rest[i]
  <2>1. k + i \in 1 .. k + l /\ ~(k + i <= k) /\ (k + i) - k = i
    BY <1>2
  <2> QED BY <1>4, <1>6, <2>1
<1>8. s = rest
  BY <1>1, <1>2, <1>6, <1>7, SeqEqual
<1> QED BY <1>2, <1>3, <1>4, <1>5, <1>8

\* The parser then.
LEMMA AfterFront ==
  ASSUME NEW r, NEW h \in Bytes, NEW rest \in Bytes, NEW ev
  PROVE  After(Between(r, h \o rest, ev), Len(h)) = Between(r, rest, ev)
<1>1. PICK b : b = h \o rest
  OBVIOUS
<1>2. PICK n : n = Len(h)
  OBVIOUS
<1>6. SubSeq(b, n + 1, Len(b)) = rest
  BY <1>1, <1>2, Behind
<1>3. PICK p : p = Between(r, b, ev)
  OBVIOUS
<1>4. p.receive = b
  BY <1>3 DEF Between
<1>5. After(p, n) = [p EXCEPT !.receive = rest]
  BY <1>4, <1>6, Zenon DEF After
<1> QED BY <1>1, <1>2, <1>3, <1>5 DEF Between

\* A byte of the record, as it is or doubled,
LEMMA ByteRead ==
  ASSUME NEW r \in Bytes, NEW rest \in Bytes, NEW ev \in Seq(ParserEvent), NEW b \in Byte
  PROVE  /\ b # "IAC" => Loop(Between(r, <<b>> \o rest, ev)) = Loop(Between(r \o <<b>>, rest, ev))
         /\ Loop(Between(r, <<"IAC", "IAC">> \o rest, ev)) =
              Loop(Between(r \o <<"IAC">>, rest, ev))
<1>1. "IAC" \in Byte
  BY DEF Byte
<1>2. <<b>> \in Bytes /\ <<"IAC", "IAC">> \in Bytes /\ r \in Seq(Byte) /\ rest \in Seq(Byte)
  BY <1>1 DEF Bytes
<1>3. r \o << >> = r
  BY <1>2
<1>4. ASSUME b # "IAC"
      PROVE  Loop(Between(r, <<b>> \o rest, ev)) = Loop(Between(r \o <<b>>, rest, ev))
  <2>1. PICK s : s = <<b>> \o rest
    OBVIOUS
  <2>2. s \in Bytes /\ Len(s) >= 1 /\ s[1] = b
    BY <1>2, <2>1 DEF Bytes
  <2>3. PICK p : p = Between(r, s, ev)
    OBVIOUS
  <2>4. p \in Parser
    BY <2>2, <2>3, BetweenParser
  <2>5. DataFirst(p) /\ p.receive[1] = b
    BY <1>4, <2>2, <2>3 DEF DataFirst, Between
  <2>6. Turn(p) = Take(After(p, 1), b)
    BY <2>4, <2>5, TurnIs
  <2>7. After(p, 1) = Between(r, rest, ev)
    <3>1. PICK h : h = <<b>>
      OBVIOUS
    <3>2. h \in Bytes
      BY <1>2, <3>1
    <3>3. After(Between(r, h \o rest, ev), Len(h)) = Between(r, rest, ev)
      BY <3>2, AfterFront
    <3> QED BY <2>1, <2>3, <3>1, <3>3
  <2>8. Take(Between(r, rest, ev), b) = Between(r \o <<b>>, rest, ev)
    BY <1>3 DEF Take, TakeData, Between
  <2> QED BY <2>1, <2>3, <2>4, <2>6, <2>7, <2>8, LoopGoesOn
<1>5. Loop(Between(r, <<"IAC", "IAC">> \o rest, ev)) = Loop(Between(r \o <<"IAC">>, rest, ev))
  <2>1. PICK s : s = <<"IAC", "IAC">> \o rest
    OBVIOUS
  <2>2. s \in Bytes /\ Len(s) >= 2 /\ s[1] = "IAC" /\ s[2] = "IAC"
    BY <1>1, <1>2, <2>1 DEF Bytes
  <2>3. PICK p : p = Between(r, s, ev)
    OBVIOUS
  <2>4. p \in Parser
    BY <2>2, <2>3, BetweenParser
  <2>5. Doubled(p)
    BY <2>2, <2>3 DEF Doubled, Between
  <2>6. Turn(p) = Take(After(p, 2), "IAC")
    BY <2>4, <2>5, TurnIs
  <2>7. After(p, 2) = Between(r, rest, ev)
    <3>1. PICK h : h = <<"IAC", "IAC">>
      OBVIOUS
    <3>2. h \in Bytes
      BY <1>2, <3>1
    <3>3. After(Between(r, h \o rest, ev), Len(h)) = Between(r, rest, ev)
      BY <3>2, AfterFront
    <3> QED BY <2>1, <2>3, <3>1, <3>3
  <2>8. Take(Between(r, rest, ev), "IAC") = Between(r \o <<"IAC">>, rest, ev)
    BY <1>3 DEF Take, TakeData, Between
  <2> QED BY <2>1, <2>3, <2>4, <2>6, <2>7, <2>8, LoopGoesOn
<1> QED BY <1>4, <1>5

\* an IAC that was not doubled, once the record has begun,
LEMMA LoneRead ==
  ASSUME NEW r \in Bytes, NEW rest \in Bytes, NEW ev \in Seq(ParserEvent), NEW b \in Byte,
         r # << >>, b # "IAC", b # "EOR"
  PROVE  Loop(Between(r, <<"IAC">> \o (<<b>> \o rest), ev)) =
           Loop(Between(r \o <<"IAC">>, <<b>> \o rest, ev))
<1>1. "IAC" \in Byte
  BY DEF Byte
<1>2. /\ <<b>> \in Seq(Byte) /\ <<"IAC">> \in Seq(Byte) /\ r \in Seq(Byte)
      /\ rest \in Seq(Byte)
  BY <1>1 DEF Bytes
<1>3. r \o << >> = r
  BY <1>2
<1>4. PICK t, s : t = <<b>> \o rest /\ s = <<"IAC">> \o t
  OBVIOUS
<1>5. /\ t \in Seq(Byte) /\ Len(t) >= 1 /\ t[1] = b
  BY <1>2, <1>4
<1>6. /\ s \in Seq(Byte) /\ Len(s) >= 2 /\ s[1] = "IAC" /\ s[2] = b
  BY <1>2, <1>4, <1>5
<1>8. PICK p : p = Between(r, s, ev)
  OBVIOUS
<1>9. p \in Parser
  BY <1>6, <1>8, BetweenParser DEF Bytes
<1>10. UnescapedIac(p, b)
  BY <1>8 DEF UnescapedIac, Between
<1>11. Lone(p)
  BY <1>6, <1>8, <1>10 DEF Lone, Between
<1>12. Turn(p) = TakeData(After(p, 1), "IAC")
  BY <1>9, <1>11, TurnIs
<1>13. After(p, 1) = Between(r, t, ev)
  <2>1. PICK h : h = <<"IAC">>
    OBVIOUS
  <2>2. h \in Bytes /\ t \in Bytes
    BY <1>2, <1>5, <2>1 DEF Bytes
  <2>3. After(Between(r, h \o t, ev), Len(h)) = Between(r, t, ev)
    BY <2>2, AfterFront
  <2> QED BY <1>4, <1>8, <2>1, <2>3
<1>14. TakeData(Between(r, t, ev), "IAC") = Between(r \o <<"IAC">>, t, ev)
  BY <1>3 DEF TakeData, Between
<1> QED BY <1>4, <1>8, <1>9, <1>12, <1>13, <1>14, LoopGoesOn

\* and the end of the record.
LEMMA EndRead ==
  ASSUME NEW r \in Bytes, NEW rest \in Bytes, NEW ev \in Seq(ParserEvent), r # << >>
  PROVE  Loop(Between(r, Ending \o rest, ev)) = Loop(Between(<< >>, rest, Append(ev, Data(r))))
<1>1. "IAC" \in Byte /\ "EOR" \in Byte /\ "EOR" \in Standalone
  BY DEF Byte, Standalone
<1>2. Ending \in Seq(Byte) /\ r \in Seq(Byte) /\ rest \in Seq(Byte)
  BY <1>1 DEF Bytes, Ending
<1>3. << >> \o r = r
  BY <1>2
<1>4. PICK s : s = Ending \o rest
  OBVIOUS
<1>5. s \in Seq(Byte) /\ Len(s) >= 2 /\ s[1] = "IAC" /\ s[2] = "EOR"
  BY <1>1, <1>2, <1>4 DEF Ending
<1>7. PICK p : p = Between(r, s, ev)
  OBVIOUS
<1>8. p \in Parser
  BY <1>5, <1>7, BetweenParser DEF Bytes
<1>9. ~UnescapedIac(p, "EOR")
  <2>1. "EOR" \notin Plain
    BY <1>1, BytesAssumption
  <2> QED BY <2>1 DEF UnescapedIac
<1>10. Short(p) /\ p.receive[2] = "EOR"
  BY <1>1, <1>5, <1>7, <1>9 DEF Short, Between
<1>11. Turn(p) = TakeStandalone(After(p, 2), "EOR")
  BY <1>8, <1>10, TurnIs
<1>12. After(p, 2) = Between(r, rest, ev)
  <2>1. Ending \in Bytes
    BY <1>2 DEF Bytes
  <2>2. After(Between(r, Ending \o rest, ev), Len(Ending)) = Between(r, rest, ev)
    BY <2>1, AfterFront
  <2> QED BY <1>4, <1>7, <2>2 DEF Ending
<1>13. TakeStandalone(Between(r, rest, ev), "EOR") = Between(<< >>, rest, Append(ev, Data(r)))
  <2>1. PICK q : q = Between(r, rest, ev)
    OBVIOUS
  <2>2. Emit(q, r) = Append(ev, Data(r))
    BY <2>1 DEF Emit, Between
  <2>3. /\ q.inSub = FALSE /\ q.framed = TRUE /\ q.processed = << >> /\ q.record = r
    BY <2>1 DEF Between
  <2>4. TakeStandalone(q, "EOR") = [q EXCEPT !.record = << >>, !.processed = << >>,
                                             !.events = Append(ev, Data(r))]
    BY <1>3, <2>2, <2>3 DEF TakeStandalone
  <2> QED BY <2>1, <2>4 DEF Between
<1> QED BY <1>4, <1>7, <1>8, <1>11, <1>12, <1>13, LoopGoesOn

\* One byte more is escaped.
LEMMA EscapeMore ==
  ASSUME NEW r \in Seq(Byte), NEW b \in Byte
  PROVE  /\ Escape(r) \in Seq(Byte) /\ Escape(<< >>) = << >>
         /\ Escape(Append(r, b)) =
              Escape(r) \o (IF b = "IAC" THEN <<"IAC", "IAC">> ELSE <<b>>)
<1> DEFINE E(x) == IF x = "IAC" THEN <<"IAC", "IAC">> ELSE <<x>>
<1>1. ASSUME NEW x \in Byte PROVE E(x) \in Seq(Byte)
  OBVIOUS
<1>2. PICK n \in Nat : n = Len(r)
  OBVIOUS
<1>3. PICK more : more = Append(r, b)
  OBVIOUS
<1>4. /\ more \in Seq(Byte) /\ Len(more) = n + 1 /\ more[n + 1] = b
      /\ \A i \in 1 .. n : more[i] = r[i] /\ r[i] \in Byte
      /\ DOMAIN r = 1 .. n /\ DOMAIN more = 1 .. n + 1
  BY <1>2, <1>3, AppendProperties
<1>5. PICK bs, cs : bs = [i \in 1 .. n |-> E(r[i])] /\ cs = [i \in 1 .. n + 1 |-> E(more[i])]
  OBVIOUS
<1>6. Escape(r) = FlattenSeq(bs) /\ Escape(more) = FlattenSeq(cs)
  BY <1>4, <1>5 DEF Escape
<1>7. /\ E(b) \in Seq(Byte) /\ \A i \in 1 .. n : E(r[i]) \in Seq(Byte) /\ E(more[i]) = E(r[i])
      /\ E(more[n + 1]) = E(b)
  BY <1>1, <1>4
<1> HIDE DEF E
<1>8. bs \in Seq(Seq(Byte)) /\ Len(bs) = n
  <2>1. bs \in [1 .. n -> Seq(Byte)]
    BY <1>5, <1>7, Zenon
  <2> QED BY <2>1, Listed
<1>9. cs = Append(bs, E(b))
  BY <1>5, <1>7, <1>8
<1>10. FlattenSeq(bs) \in Seq(Byte) /\ FlattenSeq(cs) = FlattenSeq(bs) \o E(b)
  BY <1>7, <1>8, <1>9, FlattenAppend
<1>11. Escape(<< >>) = << >>
  <2>1. [i \in DOMAIN << >> |-> IF << >>[i] = "IAC" THEN <<"IAC", "IAC">> ELSE <<<< >>[i]>>] = << >>
    OBVIOUS
  <2> QED BY <2>1, FlattenEmpty DEF Escape
<1> QED BY <1>3, <1>6, <1>10, <1>11 DEF E

\* A second event.
LEMMA PairMade ==
  ASSUME NEW S, NEW d \in S, NEW e \in S
  PROVE  Append(<<d>>, e) = <<d, e>> /\ <<d, e>> \in Seq(S)
<1>1. PICK x, y, z : x = Append(<<d>>, e) /\ y = <<d, e>> /\ z = <<d>>
  OBVIOUS
<1>2. z \in Seq(S) /\ Len(z) = 1 /\ z[1] = d
  BY <1>1
<1>3. y \in Seq(S) /\ Len(y) = 2 /\ y[1] = d /\ y[2] = e
  BY <1>1
<1>4. x \in Seq(S) /\ Len(x) = 2 /\ x[1] = d /\ x[2] = e
  BY <1>1, <1>2
<1>5. x = y
  BY <1>3, <1>4, SeqEqual
<1> QED BY <1>1, <1>3, <1>5

\* What was escaped is read as it was meant.
LEMMA EscapedRead ==
  ASSUME NEW ev \in Seq(ParserEvent)
  PROVE  \A r \in Bytes : \A rest \in Bytes :
           Loop(Between(<< >>, Escape(r) \o rest, ev)) = Loop(Between(r, rest, ev))
<1> DEFINE T == {n \in Nat : \A r \in Bytes : Len(r) = n =>
                   \A rest \in Bytes :
                     Loop(Between(<< >>, Escape(r) \o rest, ev)) = Loop(Between(r, rest, ev))}
<1>1. 0 \in T
  <2> SUFFICES ASSUME NEW r \in Bytes, Len(r) = 0, NEW rest \in Bytes
               PROVE  Loop(Between(<< >>, Escape(r) \o rest, ev)) = Loop(Between(r, rest, ev))
    OBVIOUS
  <2>1. r = << >> /\ rest \in Seq(Byte)
    BY DEF Bytes
  <2>2. "IAC" \in Byte /\ << >> \in Seq(Byte)
    BY DEF Byte
  <2>3. Escape(r) = << >>
    BY <2>1, <2>2, EscapeMore
  <2>4. Escape(r) \o rest = rest
    BY <2>1, <2>3
  <2> QED BY <2>1, <2>4
<1>2. ASSUME NEW n \in T PROVE n + 1 \in T
  <2> SUFFICES ASSUME NEW r \in Bytes, Len(r) = n + 1, NEW rest \in Bytes
               PROVE  Loop(Between(<< >>, Escape(r) \o rest, ev)) = Loop(Between(r, rest, ev))
    OBVIOUS
  <2>1. /\ n \in Nat
        /\ \A s \in Bytes : Len(s) = n => \A tail \in Bytes :
             Loop(Between(<< >>, Escape(s) \o tail, ev)) = Loop(Between(s, tail, ev))
    OBVIOUS
  <2> HIDE DEF T
  <2>2. r \in Seq(Byte) /\ r # << >> /\ rest \in Seq(Byte)
    BY <2>1 DEF Bytes
  <2>3. PICK s \in Seq(Byte), b \in Byte : r = Append(s, b)
    BY <2>2, SequenceEmptyOrAppend
  <2>4. Len(s) = n /\ r = s \o <<b>> /\ "IAC" \in Byte
    BY <2>1, <2>3 DEF Byte
  <2>5. PICK e, x : e = (IF b = "IAC" THEN <<"IAC", "IAC">> ELSE <<b>>) /\ x = Escape(s)
    OBVIOUS
  <2>6. e \in Seq(Byte) /\ x \in Seq(Byte) /\ Escape(r) = x \o e
    BY <2>3, <2>5, EscapeMore
  <2>7. (x \o e) \o rest = x \o (e \o rest) /\ e \o rest \in Bytes /\ s \in Bytes
    <3>1. (x \o e) \o rest = x \o (e \o rest) /\ e \o rest \in Seq(Byte)
      <4>1. x \in Seq(Byte) /\ e \in Seq(Byte) /\ rest \in Seq(Byte)
        BY <2>2, <2>6
      <4> QED BY <4>1, Regrouped
    <3> QED BY <2>3, <3>1 DEF Bytes
  <2>8. Loop(Between(<< >>, Escape(r) \o rest, ev)) = Loop(Between(s, e \o rest, ev))
    <3>1. Loop(Between(<< >>, x \o (e \o rest), ev)) = Loop(Between(s, e \o rest, ev))
      BY <2>1, <2>4, <2>5, <2>7, Zenon
    <3> QED BY <2>6, <2>7, <3>1
  <2>9. s \in Bytes
    BY DEF Bytes
  <2>10. CASE b = "IAC"
    BY <2>4, <2>5, <2>8, <2>9, <2>10, ByteRead
  <2>11. CASE b # "IAC"
    BY <2>4, <2>5, <2>8, <2>9, <2>11, ByteRead
  <2> QED BY <2>10, <2>11
<1> HIDE DEF T
<1>3. T = Nat
  BY <1>1, <1>2, SetInduction DEF T
<1>4. ASSUME NEW r \in Bytes, NEW rest \in Bytes
      PROVE  Loop(Between(<< >>, Escape(r) \o rest, ev)) = Loop(Between(r, rest, ev))
  <2>1. Len(r) \in T
    BY <1>3 DEF Bytes
  <2> QED BY <2>1 DEF T
<1> QED BY <1>4

\* A recognisable record is read though its IAC bytes are not doubled.
LEMMA UnescapedRead ==
  ASSUME NEW r \in Bytes, r # << >>, Recognisable(r), NEW k \in Nat
  PROVE  k <= Len(r) =>
           Loop(Between(<< >>, r \o Ending, << >>)) =
             Loop(Between(SubSeq(r, 1, k), SubSeq(r, k + 1, Len(r)) \o Ending, << >>))
<1> DEFINE Left(n) == SubSeq(r, 1, n)
           Right(n) == SubSeq(r, n + 1, Len(r))
           T == {n \in Nat : n <= Len(r) =>
                   Loop(Between(<< >>, r \o Ending, << >>)) =
                     Loop(Between(Left(n), Right(n) \o Ending, << >>))}
<1>1. r \in Seq(Byte) /\ Len(r) \in Nat /\ Ending \in Seq(Byte)
  BY DEF Bytes, Ending, Byte, Standalone
<1>2. 0 \in T
  <2>1. Left(0) = << >> /\ Right(0) = r
    BY <1>1, SubSeqEmpty, SubSeqFull
  <2> QED BY <2>1
<1>3. ASSUME NEW n \in T PROVE n + 1 \in T
  <2> SUFFICES ASSUME n + 1 <= Len(r)
               PROVE  Loop(Between(<< >>, r \o Ending, << >>)) =
                        Loop(Between(Left(n + 1), Right(n + 1) \o Ending, << >>))
    OBVIOUS
  <2>1. n \in Nat /\ n <= Len(r)
    BY <1>1
  <2>2. Loop(Between(<< >>, r \o Ending, << >>)) = Loop(Between(Left(n), Right(n) \o Ending, << >>))
    BY <2>1
  <2> HIDE DEF T
  <2>3. PICK b, x, y : b = r[n + 1] /\ x = Left(n) /\ y = Right(n + 1)
    OBVIOUS
  <2>4. b \in Byte /\ x \in Seq(Byte) /\ y \in Seq(Byte)
    BY <1>1, <2>1, <2>3
  <2>5. Right(n) = <<b>> \o y
    <3>1. n + 1 \in 1 .. Len(r) /\ Len(r) \in n + 1 .. Len(r)
      BY <1>1, <2>1
    <3> QED BY <1>1, <2>3, <3>1, SubSeqRecursiveFirst
  <2>6. Left(n + 1) = x \o <<b>>
    <3>1. 1 \in 1 .. Len(r) /\ n + 1 \in 1 .. Len(r) /\ (n + 1) - 1 = n
      BY <1>1, <2>1
    <3> QED BY <1>1, <2>3, <3>1, SubSeqRecursiveSecond
  <2>7. (<<b>> \o y) \o Ending = <<b>> \o (y \o Ending) /\ y \o Ending \in Seq(Byte)
    <3>1. <<b>> \in Seq(Byte)
      BY <2>4
    <3> QED BY <1>1, <2>4, <3>1, ConcatAssociative
  <2>8. << >> \in Seq(ParserEvent)
    OBVIOUS
  <2>9. CASE b # "IAC"
    <3>1. Loop(Between(x, <<b>> \o (y \o Ending), << >>)) =
            Loop(Between(x \o <<b>>, y \o Ending, << >>))
      BY <2>4, <2>7, <2>8, <2>9, ByteRead DEF Bytes
    <3> HIDE DEF Left, Right
    <3> QED BY <2>2, <2>3, <2>5, <2>6, <2>7, <3>1
  <2>10. CASE b = "IAC"
    <3>1. DOMAIN r = 1 .. Len(r) /\ n + 1 \in DOMAIN r
      BY <1>1, <2>1
    <3>2. n + 1 < Len(r) /\ r[(n + 1) + 1] \notin {"IAC", "EOR"} /\ n # 0
      <4>1. r[1] # "IAC" /\ \A i \in DOMAIN r :
              r[i] = "IAC" => i < Len(r) /\ r[i + 1] \notin {"IAC", "EOR"}
        BY DEF Recognisable
      <4>2. r[n + 1] = "IAC"
        BY <2>3, <2>10
      <4>3. n + 1 < Len(r) /\ r[(n + 1) + 1] \notin {"IAC", "EOR"}
        BY <3>1, <4>1, <4>2, Zenon
      <4>4. n = 0 => n + 1 = 1
        OBVIOUS
      <4> QED BY <4>1, <4>2, <4>3, <4>4
    <3>3. PICK c, z : c = r[(n + 1) + 1] /\ z = Right((n + 1) + 1)
      OBVIOUS
    <3>4. c \in Byte /\ z \in Seq(Byte) /\ c # "IAC" /\ c # "EOR"
      BY <1>1, <2>1, <3>2, <3>3
    <3>5. y = <<c>> \o z
      <4>1. (n + 1) + 1 \in 1 .. Len(r) /\ Len(r) \in (n + 1) + 1 .. Len(r)
        BY <1>1, <2>1, <3>2
      <4> QED BY <1>1, <2>3, <3>3, <4>1, SubSeqRecursiveFirst
    <3>6. (<<c>> \o z) \o Ending = <<c>> \o (z \o Ending) /\ z \o Ending \in Seq(Byte)
      <4>1. <<c>> \in Seq(Byte)
        BY <3>4
      <4> QED BY <1>1, <3>4, <4>1, ConcatAssociative
    <3>7. x # << >>
      <4>1. Len(x) = n
        BY <1>1, <2>1, <2>3
      <4> QED BY <3>2, <4>1
    <3>8. Loop(Between(x, <<"IAC">> \o (<<c>> \o (z \o Ending)), << >>)) =
            Loop(Between(x \o <<"IAC">>, <<c>> \o (z \o Ending), << >>))
      <4>1. x \in Bytes /\ z \o Ending \in Bytes
        BY <2>4, <3>6 DEF Bytes
      <4> QED BY <2>8, <3>4, <3>7, <4>1, LoneRead
    <3> QED BY <2>2, <2>3, <2>5, <2>6, <2>7, <2>10, <3>5, <3>6, <3>8
  <2> QED BY <2>9, <2>10
<1> HIDE DEF T
<1>4. T = Nat
  BY <1>2, <1>3, SetInduction DEF T
<1> QED BY <1>4 DEF T

\* At the end of the stream a framed parser is what the loop makes of it.
LEMMA FramedEnd ==
  ASSUME ChunkInv, parser.framed, fed = Len(stream)
  PROVE  parser = Loop(Between(<< >>, stream, << >>)) /\ stream \in Seq(Byte)
<1>1. parser = Loop(More(Idle(TRUE), SubSeq(stream, 1, Len(stream)))) /\ stream \in Seq(Byte)
  BY DEF ChunkInv, AtOnce, Parser
<1>2. SubSeq(stream, 1, Len(stream)) = stream
  BY <1>1
<1>3. << >> \o stream = stream
  BY <1>1
<1>4. More(Idle(TRUE), stream) = Between(<< >>, stream, << >>)
  <2>1. PICK i : i = Idle(TRUE)
    OBVIOUS
  <2>2. More(i, stream) = [i EXCEPT !.receive = stream]
    <3>1. i.receive = << >>
      BY <2>1 DEF Idle
    <3> QED BY <1>3, <3>1 DEF More
  <2> QED BY <2>1, <2>2 DEF Idle, Between
<1> QED BY <1>1, <1>2, <1>4

\* Two records sent by sendRawData come out as they went in,
LEMMA RecordsReturn == ChunkInv => RoundTrip
<1> SUFFICES ASSUME ChunkInv, parser.framed, fed = Len(stream), stream \in Encodings
             PROVE  \E r, s \in Records :
                      stream = Encode(r) \o Encode(s) /\ parser.events = <<Data(r), Data(s)>>
  BY DEF RoundTrip
<1>1. PICK r \in Records, s \in Records : stream = Encode(r) \o Encode(s)
  BY DEF Encodings
<1>2. r \in Seq(Byte) /\ s \in Seq(Byte) /\ r # << >> /\ s # << >>
  BY RecordsAssumption
<1>3. "IAC" \in Byte /\ << >> \in Seq(Byte) /\ Ending \in Seq(Byte) /\ << >> \in Seq(ParserEvent)
  BY DEF Byte, Ending, Standalone
<1>4. PICK x, y : x = Escape(r) /\ y = Escape(s)
  OBVIOUS
<1>5. x \in Seq(Byte) /\ y \in Seq(Byte)
  BY <1>2, <1>3, <1>4, EscapeMore
<1>6. PICK t : t = y \o Ending
  OBVIOUS
<1>7. t \in Seq(Byte) /\ Ending \o t \in Seq(Byte)
  BY <1>3, <1>5, <1>6
<1>8. stream = x \o (Ending \o t)
  <2>1. stream = (x \o Ending) \o t
    BY <1>1, <1>4, <1>6 DEF Encode, Ending
  <2> QED BY <1>3, <1>5, <1>7, <2>1, ConcatAssociative
<1>9. Data(r) \in ParserEvent /\ Data(s) \in ParserEvent
  BY <1>2 DEF Data, ParserEvent, Bytes
<1>10. /\ Append(<< >>, Data(r)) = <<Data(r)>> /\ <<Data(r)>> \in Seq(ParserEvent)
       /\ Append(<<Data(r)>>, Data(s)) = <<Data(r), Data(s)>>
       /\ <<Data(r), Data(s)>> \in Seq(ParserEvent)
  <2>1. PICK d, e : d = Data(r) /\ e = Data(s)
    OBVIOUS
  <2>2. d \in ParserEvent /\ e \in ParserEvent
    BY <1>9, <2>1
  <2>3. Append(<< >>, d) = <<d>> /\ <<d>> \in Seq(ParserEvent)
    BY <2>2
  <2>4. Append(<<d>>, e) = <<d, e>> /\ <<d, e>> \in Seq(ParserEvent)
    BY <2>2, PairMade
  <2> QED BY <2>1, <2>3, <2>4
<1>11. Loop(Between(<< >>, stream, << >>)) = Loop(Between(r, Ending \o t, << >>))
  BY <1>2, <1>3, <1>4, <1>7, <1>8, EscapedRead DEF Bytes
<1>12. Loop(Between(r, Ending \o t, << >>)) = Loop(Between(<< >>, t, <<Data(r)>>))
  <2>1. Loop(Between(r, Ending \o t, << >>)) = Loop(Between(<< >>, t, Append(<< >>, Data(r))))
    BY <1>2, <1>3, <1>7, EndRead DEF Bytes
  <2> QED BY <1>10, <2>1
<1>13. Loop(Between(<< >>, t, <<Data(r)>>)) = Loop(Between(s, Ending, <<Data(r)>>))
  BY <1>2, <1>3, <1>4, <1>6, <1>10, EscapedRead DEF Bytes
<1>14. Loop(Between(s, Ending, <<Data(r)>>)) = Loop(Between(<< >>, << >>, <<Data(r), Data(s)>>))
  <2>1. Ending \o << >> = Ending
    BY <1>3
  <2> QED BY <1>2, <1>3, <1>10, <2>1, EndRead DEF Bytes
<1>15. Loop(Between(<< >>, << >>, <<Data(r), Data(s)>>)) = Between(<< >>, << >>, <<Data(r), Data(s)>>)
  <2>1. Between(<< >>, << >>, <<Data(r), Data(s)>>) \in Parser
    BY <1>3, <1>10, BetweenParser DEF Bytes
  <2>2. Incomplete(Between(<< >>, << >>, <<Data(r), Data(s)>>))
    BY DEF Incomplete, Between
  <2> QED BY <2>1, <2>2, LoopEnds
<1>16. parser = Between(<< >>, << >>, <<Data(r), Data(s)>>)
  BY <1>11, <1>12, <1>13, <1>14, <1>15, FramedEnd
<1>17. parser.events = <<Data(r), Data(s)>>
  BY <1>16 DEF Between
<1> QED BY <1>1, <1>17

\* and so does one of a host that does not double IAC.
LEMMA UnescapedReturn == ChunkInv => UnescapedRecovered
<1> SUFFICES ASSUME ChunkInv, parser.framed, fed = Len(stream), stream \in HisEncodings
             PROVE  parser.events = <<Data(SubSeq(stream, 1, Len(stream) - 2))>>
  BY DEF UnescapedRecovered
<1>1. PICK r \in Unescaped : Recognisable(r) /\ stream = r \o Ending
  BY DEF HisEncodings, EncodeUnescaped, Ending
<1>2. r \in Seq(Byte) /\ r # << >> /\ Len(r) \in Nat
  BY RecordsAssumption
<1>3. /\ << >> \in Seq(Byte) /\ Ending \in Seq(Byte) /\ Len(Ending) = 2
      /\ << >> \in Seq(ParserEvent)
  BY DEF Byte, Ending, Standalone
<1>4. SubSeq(r, 1, Len(r)) = r /\ SubSeq(r, Len(r) + 1, Len(r)) = << >>
  BY <1>2
<1>5. << >> \o Ending = Ending /\ Ending \o << >> = Ending
  BY <1>3
<1>6. Loop(Between(<< >>, stream, << >>)) = Loop(Between(r, Ending, << >>))
  <2>1. /\ Len(r) <= Len(r)
        /\ Len(r) <= Len(r) => Loop(Between(<< >>, r \o Ending, << >>)) =
             Loop(Between(SubSeq(r, 1, Len(r)), SubSeq(r, Len(r) + 1, Len(r)) \o Ending, << >>))
    BY <1>1, <1>2, UnescapedRead DEF Bytes
  <2> QED BY <1>1, <1>4, <1>5, <2>1
<1>7. Data(r) \in ParserEvent
  BY <1>2 DEF Data, ParserEvent, Bytes
<1>8. Append(<< >>, Data(r)) = <<Data(r)>> /\ <<Data(r)>> \in Seq(ParserEvent)
  BY <1>7
<1>9. Loop(Between(r, Ending, << >>)) = Loop(Between(<< >>, << >>, <<Data(r)>>))
  BY <1>2, <1>3, <1>5, <1>8, EndRead DEF Bytes
<1>10. Loop(Between(<< >>, << >>, <<Data(r)>>)) = Between(<< >>, << >>, <<Data(r)>>)
  <2>1. Between(<< >>, << >>, <<Data(r)>>) \in Parser
    BY <1>3, <1>8, BetweenParser DEF Bytes
  <2>2. Incomplete(Between(<< >>, << >>, <<Data(r)>>))
    BY DEF Incomplete, Between
  <2> QED BY <2>1, <2>2, LoopEnds
<1>11. parser.events = <<Data(r)>>
  <2>1. parser = Between(<< >>, << >>, <<Data(r)>>)
    BY <1>6, <1>9, <1>10, FramedEnd
  <2> QED BY <2>1 DEF Between
<1>12. SubSeq(stream, 1, Len(stream) - 2) = r
  <2>1. PICK n \in Nat : n = Len(r)
    BY <1>2
  <2>2. Len(stream) - 2 = n /\ n >= 1
    <3>1. Len(r \o Ending) = Len(r) + Len(Ending)
      <4>1. Ending \in Seq(Byte)
        BY <1>3
      <4> QED BY <1>2, <4>1
    <3>2. n # 0
      BY <1>2, <2>1
    <3> QED BY <1>1, <1>3, <2>1, <3>1, <3>2
  <2>3. 1 \in 1 .. n /\ n \in 1 .. n
    BY <2>2
  <2>4. SubSeq(stream, 1, n) = SubSeq(r, 1, n)
    BY <1>1, <1>2, <1>3, <2>1, <2>3, SubSeqOfConcat1
  <2> QED BY <1>4, <2>1, <2>2, <2>4
<1> QED BY <1>11, <1>12

\* The telnet parser hands on what the host sent, for any stream: however TCP cuts it,
\* framed records and commands come out as from one read, and unframed bytes all and in
\* order; the records sendRawData writes come out as they went in, and so do those of a
\* host that does not double IAC, where they can be told (processTelnetData).
THEOREM HostStreamIsRead == ParserSpec => []StreamIsRead
<1>1. ChunkInv => StreamIsRead
  BY ChunksRead, RecordsReturn, UnescapedReturn DEF StreamIsRead
<1> QED BY <1>1, ChunkInit, ChunkStep, PTL DEF ParserSpec

-----------------------------------------------------------------------------
(* Negotiation with a host: commands on their way.                         *)

\* A command is on its way; and with none of another kind behind it.
OnWay(channel, c) == \E i \in 1 .. Len(channel) : channel[i] = c
LastWord(channel, c, d) ==
  \E i \in 1 .. Len(channel) : channel[i] = c /\ \A j \in i + 1 .. Len(channel) : channel[j] # d

LEMMA NothingOnWay == \A c, d : ~OnWay(<< >>, c) /\ ~LastWord(<< >>, c, d)
BY DEF OnWay, LastWord

\* What a command sent adds,
LEMMA OneMore ==
  ASSUME NEW s \in Seq(Command), NEW x \in Command
  PROVE  /\ s \o <<x>> \in Seq(Command)
         /\ \A c : OnWay(s \o <<x>>, c) <=> OnWay(s, c) \/ x = c
         /\ \A c, d : c # d => (LastWord(s \o <<x>>, c, d) <=> x = c \/ (x # d /\ LastWord(s, c, d)))
<1> DEFINE t == s \o <<x>>
<1>1. /\ t \in Seq(Command) /\ Len(s) \in Nat /\ Len(t) = Len(s) + 1
      /\ \A i \in 1 .. Len(s) : t[i] = s[i]
      /\ t[Len(s) + 1] = x
  OBVIOUS
<1> HIDE DEF t
<1>2. ASSUME NEW c PROVE OnWay(t, c) <=> OnWay(s, c) \/ x = c
  <2>1. ASSUME OnWay(t, c) PROVE OnWay(s, c) \/ x = c
    BY <1>1, <2>1 DEF OnWay
  <2>2. ASSUME OnWay(s, c) PROVE OnWay(t, c)
    BY <1>1, <2>2 DEF OnWay
  <2>3. ASSUME x = c PROVE OnWay(t, c)
    BY <1>1, <2>3 DEF OnWay
  <2> QED BY <2>1, <2>2, <2>3
<1>3. ASSUME NEW c, NEW d, c # d
      PROVE  LastWord(t, c, d) <=> x = c \/ (x # d /\ LastWord(s, c, d))
  <2>1. ASSUME LastWord(t, c, d), x # c PROVE x # d /\ LastWord(s, c, d)
    <3>1. PICK i \in 1 .. Len(t) : t[i] = c /\ \A j \in i + 1 .. Len(t) : t[j] # d
      BY <2>1 DEF LastWord
    <3>2. i \in 1 .. Len(s)
      BY <1>1, <2>1, <3>1
    <3>3. x # d
      BY <1>1, <3>1, <3>2
    <3>4. \A j \in i + 1 .. Len(s) : s[j] # d
      BY <1>1, <3>1, <3>2
    <3> QED BY <1>1, <3>1, <3>2, <3>3, <3>4 DEF LastWord
  <2>2. ASSUME x = c PROVE LastWord(t, c, d)
    <3>1. Len(t) \in 1 .. Len(t) /\ t[Len(t)] = c /\ \A j \in Len(t) + 1 .. Len(t) : t[j] # d
      BY <1>1, <2>2
    <3> QED BY <3>1 DEF LastWord
  <2>3. ASSUME x # d, LastWord(s, c, d) PROVE LastWord(t, c, d)
    <3>1. PICK i \in 1 .. Len(s) : s[i] = c /\ \A j \in i + 1 .. Len(s) : s[j] # d
      BY <2>3 DEF LastWord
    <3>2. \A j \in i + 1 .. Len(t) : t[j] # d
      BY <1>1, <2>3, <3>1
    <3>3. i \in 1 .. Len(t) /\ t[i] = c
      BY <1>1, <3>1
    <3> QED BY <3>2, <3>3 DEF LastWord
  <2> QED BY <2>1, <2>2, <2>3
<1> QED BY <1>1, <1>2, <1>3 DEF t

LEMMA OneOrNone ==
  ASSUME NEW s \in Seq(Command), NEW t,
         t = s \/ \E x \in Command : t = s \o <<x>>
  PROVE  t \in Seq(Command)
<1>1. ASSUME NEW x \in Command PROVE s \o <<x>> \in Seq(Command)
  OBVIOUS
<1> QED BY <1>1

\* and what one received takes away.
LEMMA OneLess ==
  ASSUME NEW s \in Seq(Command), s # << >>
  PROVE  /\ Tail(s) \in Seq(Command) /\ Head(s) \in Command
         /\ \A c : OnWay(s, c) <=> Head(s) = c \/ OnWay(Tail(s), c)
         /\ \A c, d : LastWord(s, c, d) <=>
                        LastWord(Tail(s), c, d) \/ (Head(s) = c /\ ~OnWay(Tail(s), d))
<1> DEFINE t == Tail(s)
<1>1. /\ t \in Seq(Command) /\ Head(s) \in Command /\ Head(s) = s[1]
      /\ Len(t) \in Nat /\ Len(s) = Len(t) + 1
      /\ \A i \in 1 .. Len(t) : t[i] = s[i + 1]
  OBVIOUS
<1> HIDE DEF t
<1>2. ASSUME NEW c PROVE OnWay(s, c) <=> Head(s) = c \/ OnWay(t, c)
  <2>1. ASSUME OnWay(s, c), Head(s) # c PROVE OnWay(t, c)
    <3>1. PICK i \in 1 .. Len(s) : s[i] = c
      BY <2>1 DEF OnWay
    <3>2. i - 1 \in 1 .. Len(t) /\ t[i - 1] = c
      BY <1>1, <2>1, <3>1
    <3> QED BY <3>2 DEF OnWay
  <2>2. ASSUME OnWay(t, c) PROVE OnWay(s, c)
    <3>1. PICK i \in 1 .. Len(t) : t[i] = c
      BY <2>2 DEF OnWay
    <3>2. i + 1 \in 1 .. Len(s) /\ s[i + 1] = c
      BY <1>1, <3>1
    <3> QED BY <3>2 DEF OnWay
  <2>3. ASSUME Head(s) = c PROVE OnWay(s, c)
    BY <1>1, <2>3 DEF OnWay
  <2> QED BY <2>1, <2>2, <2>3
<1>3. ASSUME NEW c, NEW d
      PROVE  LastWord(s, c, d) <=> LastWord(t, c, d) \/ (Head(s) = c /\ ~OnWay(t, d))
  <2>1. ASSUME LastWord(s, c, d) PROVE LastWord(t, c, d) \/ (Head(s) = c /\ ~OnWay(t, d))
    <3>1. PICK i \in 1 .. Len(s) : s[i] = c /\ \A j \in i + 1 .. Len(s) : s[j] # d
      BY <2>1 DEF LastWord
    <3>2. CASE i = 1
      <4>1. \A j \in 1 .. Len(t) : t[j] # d
        BY <1>1, <3>1, <3>2
      <4> QED BY <1>1, <3>1, <3>2, <4>1 DEF OnWay
    <3>3. CASE i # 1
      <4>1. i - 1 \in 1 .. Len(t) /\ t[i - 1] = c
        BY <1>1, <3>1, <3>3
      <4>2. \A j \in (i - 1) + 1 .. Len(t) : t[j] # d
        BY <1>1, <3>1, <3>3
      <4> QED BY <4>1, <4>2 DEF LastWord
    <3> QED BY <3>2, <3>3
  <2>2. ASSUME LastWord(t, c, d) PROVE LastWord(s, c, d)
    <3>1. PICK i \in 1 .. Len(t) : t[i] = c /\ \A j \in i + 1 .. Len(t) : t[j] # d
      BY <2>2 DEF LastWord
    <3>2. i + 1 \in 1 .. Len(s) /\ s[i + 1] = c
      BY <1>1, <3>1
    <3>3. ASSUME NEW j \in (i + 1) + 1 .. Len(s) PROVE s[j] # d
      <4>1. j - 1 \in i + 1 .. Len(t) /\ t[j - 1] = s[j]
        BY <1>1, <3>1, <3>3
      <4> QED BY <3>1, <4>1
    <3> QED BY <3>2, <3>3 DEF LastWord
  <2>3. ASSUME Head(s) = c, ~OnWay(t, d) PROVE LastWord(s, c, d)
    <3>1. ASSUME NEW j \in 1 + 1 .. Len(s) PROVE s[j] # d
      <4>1. j - 1 \in 1 .. Len(t) /\ t[j - 1] = s[j]
        BY <1>1, <3>1
      <4> QED BY <2>3, <4>1 DEF OnWay
    <3>2. 1 \in 1 .. Len(s) /\ s[1] = c
      BY <1>1, <2>3
    <3> QED BY <3>1, <3>2 DEF LastWord
  <2> QED BY <2>1, <2>2, <2>3
<1> QED BY <1>1, <1>2, <1>3 DEF t

-----------------------------------------------------------------------------
(* One option on one side: the client has it enabled or not, the host has  *)
(* a status for it.  The host asks for it or ends it, the client grants it *)
(* or refuses.                                                             *)

\* The client will have it when it has read all that is on the way to it.
WillHave(o, enabled, in, ask, end) ==
  LastWord(in, ask, end) \/ (o \in enabled /\ ~OnWay(in, end))

\* An accepted option: the host has it on or wants it only if the client will have
\* it; and when it will, and the host has it not on, a grant is the last word on the
\* way to the host, or will be once the client has read. Another option is never on,
\* and a request for it is on its way, or its refusal.
SideOK(o, enabled, status, accepted, in, out, ask, end, grant, refuse) ==
  /\ status \in Status
  /\ (status # "off" \/ o \in enabled \/ OnWay(in, ask)) => o \in Willing
  /\ o \in accepted =>
       /\ status # "off" => WillHave(o, enabled, in, ask, end)
       /\ WillHave(o, enabled, in, ask, end) /\ status # "on" =>
            o \notin enabled \/ OnWay(in, end) \/ LastWord(out, grant, refuse)
  /\ o \notin accepted =>
       /\ o \notin enabled /\ status # "on" /\ ~OnWay(in, end) /\ ~OnWay(out, grant)
       /\ status = "wanted" => OnWay(in, ask) \/ OnWay(out, refuse)

\* The client reads a command.
ClientAnswers(o, now, next, accepted, in, out, out2, ask, end, grant, refuse) ==
  \/ /\ Head(in) \notin {ask, end} /\ (o \in next <=> o \in now)
     /\ out2 = out \/ \E x \in Command : x \notin {grant, refuse} /\ out2 = out \o <<x>>
  \/ /\ Head(in) = ask /\ o \in now /\ o \in next /\ out2 = out
  \/ /\ Head(in) = ask /\ o \notin now /\ o \in accepted /\ o \in next
     /\ out2 = out \o <<grant>>
  \/ /\ Head(in) = ask /\ o \notin now /\ o \notin accepted /\ o \notin next
     /\ out2 = out \o <<refuse>> \/ (out2 = out /\ o \notin Willing)
  \/ /\ Head(in) = end /\ o \in now /\ o \notin next /\ out2 = out \o <<refuse>>
  \/ /\ Head(in) = end /\ o \notin now /\ o \notin next /\ out2 = out

LEMMA ClientKeepsSide ==
  ASSUME NEW o, NEW now, NEW next, NEW status, NEW accepted,
         NEW in \in Seq(Command), in # << >>, NEW out \in Seq(Command), NEW out2,
         NEW ask \in Command, NEW end \in Command, NEW grant \in Command, NEW refuse \in Command,
         ask # end, grant # refuse,
         SideOK(o, now, status, accepted, in, out, ask, end, grant, refuse),
         ClientAnswers(o, now, next, accepted, in, out, out2, ask, end, grant, refuse)
  PROVE  SideOK(o, next, status, accepted, Tail(in), out2, ask, end, grant, refuse)
<1> DEFINE in2 == Tail(in)
           h == Head(in)
<1>1. /\ \A c : OnWay(in, c) <=> h = c \/ OnWay(in2, c)
      /\ \A c, d : LastWord(in, c, d) <=> LastWord(in2, c, d) \/ (h = c /\ ~OnWay(in2, d))
  BY OneLess
<1>2. \A x \in Command :
        /\ \A c : OnWay(out \o <<x>>, c) <=> OnWay(out, c) \/ x = c
        /\ \A c, d : c # d => (LastWord(out \o <<x>>, c, d) <=> x = c \/ (x # d /\ LastWord(out, c, d)))
  BY OneMore
<1> HIDE DEF in2, h
<1>3. CASE h \notin {ask, end}
  <2>1. /\ o \in next <=> o \in now
        /\ out2 = out \/ \E x \in Command : x \notin {grant, refuse} /\ out2 = out \o <<x>>
    BY <1>3 DEF ClientAnswers, h
  <2>2. /\ OnWay(out2, grant) <=> OnWay(out, grant)
        /\ OnWay(out2, refuse) <=> OnWay(out, refuse)
        /\ LastWord(out2, grant, refuse) <=> LastWord(out, grant, refuse)
    <3>1. CASE out2 = out
      BY <3>1
    <3>2. ASSUME NEW x \in Command, x \notin {grant, refuse}, out2 = out \o <<x>>
          PROVE  /\ OnWay(out2, grant) <=> OnWay(out, grant)
                 /\ OnWay(out2, refuse) <=> OnWay(out, refuse)
                 /\ LastWord(out2, grant, refuse) <=> LastWord(out, grant, refuse)
      <4>1. \A c : OnWay(out2, c) <=> OnWay(out, c) \/ x = c
        BY <1>2, <3>2
      <4>2. LastWord(out2, grant, refuse) <=> x = grant \/ (x # refuse /\ LastWord(out, grant, refuse))
        BY <1>2, <3>2
      <4> QED BY <3>2, <4>1, <4>2
    <3> QED BY <2>1, <3>1, <3>2
  <2>3. /\ OnWay(in2, ask) <=> OnWay(in, ask)
        /\ OnWay(in2, end) <=> OnWay(in, end)
        /\ LastWord(in2, ask, end) <=> LastWord(in, ask, end)
    BY <1>1, <1>3
  <2> QED BY <2>1, <2>2, <2>3 DEF SideOK, WillHave, in2
<1>4. CASE h = ask /\ o \in now /\ o \in next /\ out2 = out
  BY <1>1, <1>4 DEF SideOK, WillHave, in2
<1>5. CASE h = ask /\ o \notin now /\ o \in accepted /\ o \in next /\ out2 = out \o <<grant>>
  <2>1. LastWord(out2, grant, refuse)
    BY <1>2, <1>5
  <2> QED BY <1>1, <1>5, <2>1 DEF SideOK, WillHave, in2
<1>6. CASE /\ h = ask /\ o \notin now /\ o \notin accepted /\ o \notin next
           /\ out2 = out \o <<refuse>> \/ (out2 = out /\ o \notin Willing)
  <2>1. OnWay(in, ask) /\ o \in Willing
    BY <1>1, <1>6 DEF SideOK
  <2>2. OnWay(out2, refuse) /\ (OnWay(out2, grant) <=> OnWay(out, grant))
    <3>1. out2 = out \o <<refuse>>
      BY <1>6, <2>1
    <3>2. \A c : OnWay(out2, c) <=> OnWay(out, c) \/ refuse = c
      BY <1>2, <3>1
    <3> QED BY <3>2
  <2> QED BY <1>1, <1>6, <2>1, <2>2 DEF SideOK, WillHave, in2
<1>7. CASE h = end /\ o \in now /\ o \notin next /\ out2 = out \o <<refuse>>
  BY <1>1, <1>7 DEF SideOK, WillHave, in2
<1>8. CASE h = end /\ o \notin now /\ o \notin next /\ out2 = out
  BY <1>1, <1>8 DEF SideOK, WillHave, in2
<1> QED BY <1>3, <1>4, <1>5, <1>6, <1>7, <1>8 DEF ClientAnswers, h

\* The host reads a command.
HostAnswers(o, now, next, in, in2, out, ask, end, grant, refuse) ==
  \/ /\ Head(out) \notin {grant, refuse} /\ next = now
     /\ in2 = in \/ \E x \in Command : x \notin {ask, end} /\ in2 = in \o <<x>>
  \/ /\ Head(out) = grant /\ next = IF o \in Willing THEN "on" ELSE "off"
     /\ \/ now = "wanted" /\ in2 = in
        \/ now = "on" /\ (in2 = in \/ in2 = in \o <<ask>>)
        \/ now = "off" /\ in2 = in \o <<IF o \in Willing THEN ask ELSE end>>
  \/ /\ Head(out) = refuse /\ next = "off"
     /\ \/ now = "on" /\ in2 = in \o <<end>>
        \/ now # "on" /\ in2 = in

LEMMA HostKeepsSide ==
  ASSUME NEW o, NEW enabled, NEW now, NEW next, NEW accepted,
         NEW in \in Seq(Command), NEW out \in Seq(Command), out # << >>, NEW in2,
         NEW ask \in Command, NEW end \in Command, NEW grant \in Command, NEW refuse \in Command,
         ask # end, grant # refuse,
         SideOK(o, enabled, now, accepted, in, out, ask, end, grant, refuse),
         HostAnswers(o, now, next, in, in2, out, ask, end, grant, refuse)
  PROVE  SideOK(o, enabled, next, accepted, in2, Tail(out), ask, end, grant, refuse)
<1> DEFINE out2 == Tail(out)
           h == Head(out)
<1>1. /\ \A c : OnWay(out, c) <=> h = c \/ OnWay(out2, c)
      /\ \A c, d : LastWord(out, c, d) <=> LastWord(out2, c, d) \/ (h = c /\ ~OnWay(out2, d))
  BY OneLess
<1>2. \A x \in Command :
        /\ \A c : OnWay(in \o <<x>>, c) <=> OnWay(in, c) \/ x = c
        /\ \A c, d : c # d => (LastWord(in \o <<x>>, c, d) <=> x = c \/ (x # d /\ LastWord(in, c, d)))
  BY OneMore
<1> HIDE DEF out2, h
<1>3. CASE h \notin {grant, refuse}
  <2>1. /\ next = now
        /\ in2 = in \/ \E x \in Command : x \notin {ask, end} /\ in2 = in \o <<x>>
    BY <1>3 DEF HostAnswers, h
  <2>2. /\ OnWay(out2, grant) <=> OnWay(out, grant)
        /\ OnWay(out2, refuse) <=> OnWay(out, refuse)
        /\ LastWord(out2, grant, refuse) <=> LastWord(out, grant, refuse)
    BY <1>1, <1>3
  <2>3. /\ OnWay(in2, ask) <=> OnWay(in, ask)
        /\ OnWay(in2, end) <=> OnWay(in, end)
        /\ LastWord(in2, ask, end) <=> LastWord(in, ask, end)
    <3>1. CASE in2 = in
      BY <3>1
    <3>2. ASSUME NEW x \in Command, x \notin {ask, end}, in2 = in \o <<x>>
          PROVE  /\ OnWay(in2, ask) <=> OnWay(in, ask)
                 /\ OnWay(in2, end) <=> OnWay(in, end)
                 /\ LastWord(in2, ask, end) <=> LastWord(in, ask, end)
      <4>1. \A c : OnWay(in2, c) <=> OnWay(in, c) \/ x = c
        BY <1>2, <3>2
      <4>2. LastWord(in2, ask, end) <=> x = ask \/ (x # end /\ LastWord(in, ask, end))
        BY <1>2, <3>2
      <4> QED BY <3>2, <4>1, <4>2
    <3> QED BY <2>1, <3>1, <3>2
  <2> QED BY <2>1, <2>2, <2>3 DEF SideOK, WillHave, out2
<1>4. CASE h = grant
  <2>1. OnWay(out, grant) /\ o \in accepted
    BY <1>1, <1>4 DEF SideOK
  <2>2. next = IF o \in Willing THEN "on" ELSE "off"
    BY <1>4 DEF HostAnswers, h
  <2>3. CASE now = "wanted" /\ in2 = in
    BY <2>1, <2>2, <2>3 DEF SideOK, WillHave, out2, Status
  <2>4. CASE now = "on" /\ (in2 = in \/ in2 = in \o <<ask>>)
    <3>1. o \in Willing /\ next = "on" /\ WillHave(o, enabled, in, ask, end)
      BY <2>1, <2>2, <2>4 DEF SideOK
    <3>2. WillHave(o, enabled, in2, ask, end)
      <4>1. CASE in2 = in
        BY <3>1, <4>1
      <4>2. CASE in2 = in \o <<ask>>
        <5>1. LastWord(in2, ask, end)
          BY <1>2, <4>2
        <5> QED BY <5>1 DEF WillHave
      <4> QED BY <2>4, <4>1, <4>2
    <3> QED BY <2>1, <3>1, <3>2 DEF SideOK, out2, Status
  <2>5. CASE now = "off" /\ in2 = in \o <<IF o \in Willing THEN ask ELSE end>>
    <3>1. CASE o \in Willing
      <4>1. next = "on" /\ WillHave(o, enabled, in2, ask, end)
        BY <1>2, <2>2, <2>5, <3>1 DEF WillHave
      <4> QED BY <2>1, <3>1, <4>1 DEF SideOK, out2, Status
    <3>2. CASE o \notin Willing
      <4>1. next = "off" /\ ~WillHave(o, enabled, in2, ask, end)
        BY <1>2, <2>2, <2>5, <3>2 DEF WillHave
      <4>2. o \notin enabled /\ ~OnWay(in2, ask)
        BY <1>2, <2>5, <3>2 DEF SideOK
      <4> QED BY <2>1, <3>2, <4>1, <4>2 DEF SideOK, out2, Status
    <3> QED BY <3>1, <3>2
  <2> QED BY <1>4, <2>3, <2>4, <2>5 DEF HostAnswers, h
<1>5. CASE h = refuse
  <2>1. next = "off"
    BY <1>5 DEF HostAnswers, h
  <2>2. CASE now = "on" /\ in2 = in \o <<end>>
    <3>1. o \in accepted /\ ~WillHave(o, enabled, in2, ask, end) /\ o \in Willing
      BY <1>2, <2>2 DEF SideOK, WillHave
    <3> QED BY <2>1, <3>1 DEF SideOK, out2, Status
  <2>3. CASE now # "on" /\ in2 = in
    <3>1. /\ OnWay(out2, grant) => OnWay(out, grant)
          /\ LastWord(out, grant, refuse) => LastWord(out2, grant, refuse)
      BY <1>1, <1>5
    <3> QED BY <2>1, <2>3, <3>1 DEF SideOK, out2, Status
  <2> QED BY <1>5, <2>2, <2>3 DEF HostAnswers, h
<1> QED BY <1>3, <1>4, <1>5

\* The host asks or ends on its own.
HostActs(o, now, next, in, in2, ask, end) ==
  \/ next = now /\ \E x \in Command : x \notin {ask, end} /\ in2 = in \o <<x>>
  \/ now = "off" /\ o \in Willing /\ next = "wanted" /\ in2 = in \o <<ask>>
  \/ now = "on" /\ next = "off" /\ in2 = in \o <<end>>

LEMMA ActingKeepsSide ==
  ASSUME NEW o, NEW enabled, NEW now, NEW next, NEW accepted,
         NEW in \in Seq(Command), NEW out, NEW in2,
         NEW ask \in Command, NEW end \in Command, NEW grant, NEW refuse, ask # end,
         SideOK(o, enabled, now, accepted, in, out, ask, end, grant, refuse),
         HostActs(o, now, next, in, in2, ask, end)
  PROVE  SideOK(o, enabled, next, accepted, in2, out, ask, end, grant, refuse)
<1>2. \A x \in Command :
        /\ \A c : OnWay(in \o <<x>>, c) <=> OnWay(in, c) \/ x = c
        /\ \A c, d : c # d => (LastWord(in \o <<x>>, c, d) <=> x = c \/ (x # d /\ LastWord(in, c, d)))
  BY OneMore
<1>3. CASE next = now /\ \E x \in Command : x \notin {ask, end} /\ in2 = in \o <<x>>
  <2>1. /\ OnWay(in2, ask) <=> OnWay(in, ask)
        /\ OnWay(in2, end) <=> OnWay(in, end)
        /\ LastWord(in2, ask, end) <=> LastWord(in, ask, end)
    BY <1>2, <1>3
  <2> QED BY <1>3, <2>1 DEF SideOK, WillHave
<1>4. CASE now = "off" /\ o \in Willing /\ next = "wanted" /\ in2 = in \o <<ask>>
  <2>1. /\ OnWay(in2, ask) /\ LastWord(in2, ask, end)
        /\ OnWay(in2, end) <=> OnWay(in, end)
    BY <1>2, <1>4
  <2>2. o \in enabled /\ ~OnWay(in, end) => WillHave(o, enabled, in, ask, end)
    BY DEF WillHave
  <2> QED BY <1>4, <2>1, <2>2 DEF SideOK, WillHave, Status
<1>5. CASE now = "on" /\ next = "off" /\ in2 = in \o <<end>>
  <2>1. /\ ~WillHave(o, enabled, in2, ask, end)
        /\ o \in accepted /\ o \in Willing
    BY <1>2, <1>5 DEF SideOK, WillHave
  <2> QED BY <1>5, <2>1 DEF SideOK, Status
<1> QED BY <1>3, <1>4, <1>5 DEF HostActs

-----------------------------------------------------------------------------
(* The client and a host that follows RFC 854.                             *)

TheCommand(verb, o) == [verb |-> verb, opt |-> o]

\* Options the client accepts: of the host, and for itself.
AcceptedHim == {"BINARY", "EOR", "ECHO", "SGA"}
AcceptedUs == {"BINARY", "EOR", "TERMINAL_TYPE", "NEW_ENVIRON"}

HimOK(o) == SideOK(o, optionsHim, hostSide[o], AcceptedHim, toClient, toHost,
                   TheCommand("WILL", o), TheCommand("WONT", o), TheCommand("DO", o), TheCommand("DONT", o))
UsOK(o) == SideOK(o, optionsUs, clientSide[o], AcceptedUs, toClient, toHost,
                  TheCommand("DO", o), TheCommand("DONT", o), TheCommand("WILL", o), TheCommand("WONT", o))

\* Before the connection is up nothing was said.
Unspoken ==
  /\ optionsHim = {} /\ optionsUs = {} /\ toHost = <<>> /\ toClient = <<>>
  /\ \A o \in HostOptions : hostSide[o] = "off" /\ clientSide[o] = "off"

ConnectionOK ==
  /\ toHost \in Seq(Command) /\ toClient \in Seq(Command)
  /\ hostSide \in [HostOptions -> Status] /\ clientSide \in [HostOptions -> Status]
  /\ useTLS = FALSE /\ link \in {"none", "opening", "up"}
  /\ link # "none" => state # "Disconnected"
  /\ link # "up" => Unspoken

NegotiationInv == ConnectionOK /\ \A o \in HostOptions : HimOK(o) /\ UsOK(o)

\* When nothing is on its way, both ends agree.
LEMMA AgreedThen == NegotiationInv => AgreedAtRest
<1> SUFFICES ASSUME NegotiationInv, Quiet, NEW o \in HostOptions
             PROVE  /\ o \in optionsHim <=> hostSide[o] = "on"
                    /\ o \in optionsUs <=> clientSide[o] = "on"
                    /\ "wanted" \notin {hostSide[o], clientSide[o]}
  BY DEF AgreedAtRest, Agreed
<1>1. toHost = <<>> /\ toClient = <<>>
  BY DEF Quiet
<1>2. \A c, d : ~OnWay(<< >>, c) /\ ~LastWord(<< >>, c, d)
  BY NothingOnWay
<1>3. (o \in optionsHim <=> hostSide[o] = "on") /\ hostSide[o] # "wanted"
  BY <1>1, <1>2 DEF NegotiationInv, HimOK, SideOK, WillHave, Status
<1>4. (o \in optionsUs <=> clientSide[o] = "on") /\ clientSide[o] # "wanted"
  BY <1>1, <1>2 DEF NegotiationInv, UsOK, SideOK, WillHave, Status
<1> QED BY <1>3, <1>4

LEMMA NegotiationStarts == NInit => NegotiationInv
<1> SUFFICES ASSUME NInit PROVE NegotiationInv
  OBVIOUS
<1>1. ConnectionOK
  BY DEF NInit, Init, ConnectionOK, Unspoken, Status
<1>2. ASSUME NEW o \in HostOptions PROVE HimOK(o) /\ UsOK(o)
  <2>1. \A c, d : ~OnWay(<< >>, c) /\ ~LastWord(<< >>, c, d)
    BY NothingOnWay
  <2>2. /\ optionsHim = {} /\ optionsUs = {} /\ toHost = <<>> /\ toClient = <<>>
        /\ hostSide[o] = "off" /\ clientSide[o] = "off"
    BY DEF NInit, Init
  <2> QED BY <2>1, <2>2 DEF HimOK, UsOK, SideOK, WillHave, Status
<1> QED BY <1>1, <1>2 DEF NegotiationInv

\* The messages of one option and side are four.
LEMMA FourCommands ==
  ASSUME NEW o \in Option
  PROVE  /\ \A verb \in {"WILL", "WONT", "DO", "DONT"} : TheCommand(verb, o) \in Command
         /\ \A v, w : v # w => TheCommand(v, o) # TheCommand(w, o)
BY DEF TheCommand, Command

\* The client opens the connection, and says what it asks for.
LEMMA ConnectAgrees == NegotiationInv /\ ClientConnects => NegotiationInv'
<1> SUFFICES ASSUME NegotiationInv, ClientConnects PROVE NegotiationInv'
  OBVIOUS
<1>0. UNCHANGED <<toClient, hostSide, clientSide>> /\ toHost' = toHost \o sent'
  BY DEF ClientConnects
<1>1. link # "up"
  BY DEF ClientConnects, ConnectToHost, OnSocketConnected, NegotiationInv, ConnectionOK
<1>2. Unspoken
  BY <1>1 DEF NegotiationInv, ConnectionOK
<1>3. /\ optionsHim' = {} /\ optionsUs' = {}
      /\ \/ sent' = <<>> /\ link' = "opening" /\ state' = "Connecting" /\ useTLS' = FALSE
         \/ sent' = OpeningRequests /\ link' = "up" /\ state' = "Negotiating" /\ useTLS' = FALSE
  BY <1>2 DEF ClientConnects, ConnectToHost, OnSocketConnected, NegotiationInv, ConnectionOK, Unspoken, negotiation
<1>4. toHost' = sent' /\ sent' \in Seq(Command)
  <2>1. sent' \in Seq(Command)
    <3>1. OpeningRequests = Say("DO", "BINARY") \o Say("WILL", "BINARY") \o Say("DO", "EOR") \o Say("WILL", "EOR")
      BY DEF OpeningRequests, Say
    <3>2. \A verb \in {"DO", "WILL"}, o \in {"BINARY", "EOR"} : Say(verb, o) \in Seq(Command)
      BY DEF Say, Command, Option
    <3>3. OpeningRequests \in Seq(Command)
      BY <3>1, <3>2
    <3>4. << >> \in Seq(Command)
      OBVIOUS
    <3> QED BY <1>3, <3>3, <3>4
  <2> QED BY <1>0, <1>2, <2>1 DEF Unspoken
<1>5. ConnectionOK'
  BY <1>0, <1>2, <1>3, <1>4 DEF NegotiationInv, ConnectionOK, Unspoken
<1>6. ASSUME NEW o \in HostOptions PROVE HimOK(o)' /\ UsOK(o)'
  <2>1. \A c, d : ~OnWay(<< >>, c) /\ ~LastWord(<< >>, c, d)
    BY NothingOnWay
  <2>2. toClient' = <<>> /\ hostSide'[o] = "off" /\ clientSide'[o] = "off"
    BY <1>0, <1>2 DEF Unspoken
  <2>3. /\ OnWay(toHost', TheCommand("DO", o)) => o \in AcceptedHim
        /\ OnWay(toHost', TheCommand("WILL", o)) => o \in AcceptedUs
    <3>1. CASE sent' = <<>>
      BY <1>4, <2>1, <3>1
    <3>2. CASE sent' = OpeningRequests
      <4>1. \A i \in 1 .. Len(toHost') : toHost'[i].opt \in {"BINARY", "EOR"}
        BY <1>4, <3>2 DEF OpeningRequests
      <4>2. \A verb : OnWay(toHost', TheCommand(verb, o)) => o \in {"BINARY", "EOR"}
        BY <4>1 DEF OnWay, TheCommand
      <4> QED BY <4>2 DEF AcceptedHim, AcceptedUs
    <3> QED BY <1>3, <3>1, <3>2
  <2> QED BY <1>3, <2>1, <2>2, <2>3 DEF HimOK, UsOK, SideOK, WillHave, Status
<1> QED BY <1>5, <1>6 DEF NegotiationInv

\* What the client makes of a command (handleTelnetCommand).
LEMMA CommandHandled ==
  ASSUME NEW c \in Command, Handle(c)
  PROVE  /\ link' = link /\ useTLS' = useTLS /\ state' \in {state, "Connected"}
         /\ sent' = << >> \/ \E x \in Command : sent' = <<x>>
         /\ c.verb \in {"WILL", "WONT"} => optionsUs' = optionsUs
         /\ c.verb \in {"DO", "DONT"} => optionsHim' = optionsHim
         /\ c.verb = "WILL" =>
              \/ c.opt \in optionsHim /\ optionsHim' = optionsHim /\ sent' = << >>
              \/ /\ c.opt \notin optionsHim /\ c.opt \in AcceptedHim
                 /\ optionsHim' = optionsHim \cup {c.opt} /\ sent' = <<TheCommand("DO", c.opt)>>
              \/ /\ c.opt \notin optionsHim /\ c.opt \notin AcceptedHim
                 /\ optionsHim' = optionsHim
                 /\ sent' = <<TheCommand("DONT", c.opt)>> \/ (sent' = << >> /\ c.opt = "START_TLS")
         /\ c.verb = "WONT" =>
              /\ optionsHim' = optionsHim \ {c.opt}
              /\ sent' = IF c.opt \in optionsHim THEN <<TheCommand("DONT", c.opt)>> ELSE << >>
         /\ c.verb = "DO" =>
              \/ c.opt \in optionsUs /\ optionsUs' = optionsUs /\ sent' = << >>
              \/ /\ c.opt \notin optionsUs /\ c.opt \in AcceptedUs
                 /\ optionsUs' = optionsUs \cup {c.opt} /\ sent' = <<TheCommand("WILL", c.opt)>>
              \/ /\ c.opt \notin optionsUs /\ c.opt \notin AcceptedUs
                 /\ optionsUs' = optionsUs /\ sent' = <<TheCommand("WONT", c.opt)>>
         /\ c.verb = "DONT" =>
              /\ optionsUs' = optionsUs \ {c.opt}
              /\ sent' = IF c.opt \in optionsUs THEN <<TheCommand("WONT", c.opt)>> ELSE << >>
<1>0. c.verb \in {"WILL", "WONT", "DO", "DONT"} /\ c.opt \in Option
  BY DEF Command
<1>1. \A verb \in {"WILL", "WONT", "DO", "DONT"} :
         Say(verb, c.opt) = <<TheCommand(verb, c.opt)>> /\ TheCommand(verb, c.opt) \in Command
  BY <1>0 DEF Say, TheCommand, Command
<1>2. \A pending : CheckHandshakeComplete(pending) => state' \in {state, "Connected"}
  BY DEF CheckHandshakeComplete
<1>3. NoHandshakeStep => state' \in {state, "Connected"}
  BY DEF NoHandshakeStep
<1>4. CommandFrame => link' = link /\ useTLS' = useTLS
  BY DEF CommandFrame
<1>5. CASE c.verb = "WILL"
  <2>1. HostWill(c.opt) \/ RepeatedRequest("WILL", c.opt)
    BY <1>5 DEF Handle
  <2>2. CASE RepeatedRequest("WILL", c.opt)
    BY <1>3, <1>4, <1>5, <2>2 DEF RepeatedRequest
  <2>3. CASE HostWill(c.opt)
    <3>1. state' \in {state, "Connected"} /\ link' = link /\ useTLS' = useTLS /\ optionsUs' = optionsUs
      BY <1>2, <1>3, <1>4, <2>3 DEF HostWill
    <3>2. CASE c.opt \in AcceptedHim
      BY <1>1, <1>5, <2>3, <3>1, <3>2 DEF HostWill, AcceptedHim
    <3>3. CASE c.opt \notin AcceptedHim
      BY <1>1, <1>5, <2>3, <3>1, <3>3 DEF HostWill, AcceptedHim
    <3> QED BY <3>2, <3>3
  <2> QED BY <2>1, <2>2, <2>3
<1>6. CASE c.verb = "DO"
  <2>1. HostDo(c.opt) \/ RepeatedRequest("DO", c.opt)
    BY <1>6 DEF Handle
  <2>2. CASE RepeatedRequest("DO", c.opt)
    BY <1>3, <1>4, <1>6, <2>2 DEF RepeatedRequest
  <2>3. CASE HostDo(c.opt)
    <3>1. state' \in {state, "Connected"} /\ link' = link /\ useTLS' = useTLS /\ optionsHim' = optionsHim
      BY <1>2, <1>3, <1>4, <2>3 DEF HostDo
    <3>2. CASE c.opt \in AcceptedUs
      BY <1>1, <1>6, <2>3, <3>1, <3>2 DEF HostDo, AcceptedUs
    <3>3. CASE c.opt \notin AcceptedUs
      BY <1>1, <1>6, <2>3, <3>1, <3>3 DEF HostDo, AcceptedUs
    <3> QED BY <3>2, <3>3
  <2> QED BY <2>1, <2>2, <2>3
<1>7. CASE c.verb = "WONT"
  BY <1>1, <1>3, <1>4, <1>7 DEF Handle, HostWont
<1>8. CASE c.verb = "DONT"
  BY <1>1, <1>3, <1>4, <1>8 DEF Handle, HostDont
<1> QED BY <1>0, <1>5, <1>6, <1>7, <1>8

\* The client reads a command and answers it.
LEMMA ClientAgrees == NegotiationInv /\ ClientHandles => NegotiationInv'
<1> SUFFICES ASSUME NegotiationInv, ClientHandles PROVE NegotiationInv'
  OBVIOUS
<1>1. PICK c : c = Head(toClient)
  OBVIOUS
<1>2. /\ toClient \in Seq(Command) /\ toHost \in Seq(Command) /\ toClient # << >>
      /\ Handle(c) /\ c \in Command /\ toClient' = Tail(toClient) /\ toClient' \in Seq(Command)
      /\ toHost' = toHost \o sent' /\ UNCHANGED <<hostSide, clientSide>>
  BY <1>1, OneLess DEF ClientHandles, NegotiationInv, ConnectionOK
<1>3. c.verb \in {"WILL", "WONT", "DO", "DONT"} /\ c.opt \in Option
  BY <1>2 DEF Command
<1>4. c = TheCommand(c.verb, c.opt)
  BY <1>2 DEF Command, TheCommand
<1>5. toHost' \in Seq(Command) /\ (sent' = << >> => toHost' = toHost)
  <2>1. sent' = << >> \/ \E x \in Command : sent' = <<x>>
    BY <1>2, CommandHandled
  <2>2. toHost \o << >> = toHost
    BY <1>2
  <2>3. toHost' = toHost \/ \E x \in Command : toHost' = toHost \o <<x>>
    BY <1>2, <2>1, <2>2
  <2> QED BY <1>2, <2>2, <2>3, OneOrNone
<1>6. ConnectionOK'
  <2>1. link = "up"
    BY <1>2 DEF NegotiationInv, ConnectionOK, Unspoken
  <2>2. link' = link /\ useTLS' = useTLS /\ state' \in {state, "Connected"}
    BY <1>2, CommandHandled
  <2> QED BY <1>2, <1>5, <2>1, <2>2 DEF NegotiationInv, ConnectionOK
<1>7. ASSUME NEW o \in HostOptions PROVE HimOK(o)' /\ UsOK(o)'
  <2>0. o \in Option /\ Willing \subseteq HostOptions \ {"START_TLS"}
    BY OptionsAssumption, HostAssumption
  <2>1. /\ \A verb \in {"WILL", "WONT", "DO", "DONT"} : TheCommand(verb, o) \in Command
        /\ \A v, w : v # w => TheCommand(v, o) # TheCommand(w, o)
    BY <2>0, FourCommands
  <2>2. \A v, w, p : TheCommand(v, o) = TheCommand(w, p) <=> v = w /\ o = p
    BY DEF TheCommand
  <2>3. ClientAnswers(o, optionsHim, optionsHim', AcceptedHim, toClient, toHost, toHost',
          TheCommand("WILL", o), TheCommand("WONT", o), TheCommand("DO", o), TheCommand("DONT", o))
    <3>1. CASE c.verb \in {"DO", "DONT"}
      <4>1. c \notin {TheCommand("WILL", o), TheCommand("WONT", o)} /\ optionsHim' = optionsHim
        BY <1>2, <1>4, <2>2, <3>1, CommandHandled
      <4>2. sent' = << >> \/ sent' = <<TheCommand("WILL", c.opt)>> \/ sent' = <<TheCommand("WONT", c.opt)>>
        BY <1>2, <3>1, CommandHandled
      <4>3. TheCommand("WILL", c.opt) \in Command /\ TheCommand("WONT", c.opt) \in Command
        BY <1>3, FourCommands
      <4>4. /\ TheCommand("WILL", c.opt) \notin {TheCommand("DO", o), TheCommand("DONT", o)}
            /\ TheCommand("WONT", c.opt) \notin {TheCommand("DO", o), TheCommand("DONT", o)}
        BY DEF TheCommand
      <4>5. \/ toHost' = toHost
            \/ \E x \in Command : x \notin {TheCommand("DO", o), TheCommand("DONT", o)} /\ toHost' = toHost \o <<x>>
        BY <1>2, <1>5, <4>2, <4>3, <4>4
      <4> QED BY <1>1, <4>1, <4>5 DEF ClientAnswers
    <3>2. CASE c.verb \in {"WILL", "WONT"} /\ c.opt # o
      <4>1. c \notin {TheCommand("WILL", o), TheCommand("WONT", o)}
        BY <1>4, <2>2, <3>2
      <4>2. o \in optionsHim' <=> o \in optionsHim
        BY <1>2, <3>2, CommandHandled
      <4>3. sent' = << >> \/ \E x \in {TheCommand("DO", c.opt), TheCommand("DONT", c.opt)} : sent' = <<x>>
        BY <1>2, <3>2, CommandHandled
      <4>4. \A x \in {TheCommand("DO", c.opt), TheCommand("DONT", c.opt)} :
              x \in Command /\ x \notin {TheCommand("DO", o), TheCommand("DONT", o)}
        BY <1>3, <2>2, <3>2, FourCommands
      <4>5. \/ toHost' = toHost
            \/ \E x \in Command : x \notin {TheCommand("DO", o), TheCommand("DONT", o)} /\ toHost' = toHost \o <<x>>
        BY <1>2, <1>5, <4>3, <4>4
      <4> QED BY <1>1, <4>1, <4>2, <4>5 DEF ClientAnswers
    <3>3. CASE c.verb = "WILL" /\ c.opt = o
      <4>1. Head(toClient) = TheCommand("WILL", o)
        BY <1>1, <1>4, <3>3
      <4>2. \/ o \in optionsHim /\ optionsHim' = optionsHim /\ sent' = << >>
            \/ /\ o \notin optionsHim /\ o \in AcceptedHim
               /\ optionsHim' = optionsHim \cup {o} /\ sent' = <<TheCommand("DO", o)>>
            \/ /\ o \notin optionsHim /\ o \notin AcceptedHim
               /\ optionsHim' = optionsHim
               /\ sent' = <<TheCommand("DONT", o)>> \/ (sent' = << >> /\ o = "START_TLS")
        BY <1>2, <3>3, CommandHandled
      <4> QED BY <1>2, <1>5, <2>0, <4>1, <4>2 DEF ClientAnswers
    <3>4. CASE c.verb = "WONT" /\ c.opt = o
      <4>1. Head(toClient) = TheCommand("WONT", o)
        BY <1>1, <1>4, <3>4
      <4>2. /\ optionsHim' = optionsHim \ {o}
            /\ sent' = IF o \in optionsHim THEN <<TheCommand("DONT", o)>> ELSE << >>
        BY <1>2, <3>4, CommandHandled
      <4> QED BY <1>2, <1>5, <4>1, <4>2 DEF ClientAnswers
    <3> QED BY <1>3, <3>1, <3>2, <3>3, <3>4
  <2>4. ClientAnswers(o, optionsUs, optionsUs', AcceptedUs, toClient, toHost, toHost',
          TheCommand("DO", o), TheCommand("DONT", o), TheCommand("WILL", o), TheCommand("WONT", o))
    <3>1. CASE c.verb \in {"WILL", "WONT"}
      <4>1. c \notin {TheCommand("DO", o), TheCommand("DONT", o)} /\ optionsUs' = optionsUs
        BY <1>2, <1>4, <2>2, <3>1, CommandHandled
      <4>2. sent' = << >> \/ sent' = <<TheCommand("DO", c.opt)>> \/ sent' = <<TheCommand("DONT", c.opt)>>
        BY <1>2, <3>1, CommandHandled
      <4>3. TheCommand("DO", c.opt) \in Command /\ TheCommand("DONT", c.opt) \in Command
        BY <1>3, FourCommands
      <4>4. /\ TheCommand("DO", c.opt) \notin {TheCommand("WILL", o), TheCommand("WONT", o)}
            /\ TheCommand("DONT", c.opt) \notin {TheCommand("WILL", o), TheCommand("WONT", o)}
        BY DEF TheCommand
      <4>5. \/ toHost' = toHost
            \/ \E x \in Command : x \notin {TheCommand("WILL", o), TheCommand("WONT", o)} /\ toHost' = toHost \o <<x>>
        BY <1>2, <1>5, <4>2, <4>3, <4>4
      <4> QED BY <1>1, <4>1, <4>5 DEF ClientAnswers
    <3>2. CASE c.verb \in {"DO", "DONT"} /\ c.opt # o
      <4>1. c \notin {TheCommand("DO", o), TheCommand("DONT", o)}
        BY <1>4, <2>2, <3>2
      <4>2. o \in optionsUs' <=> o \in optionsUs
        BY <1>2, <3>2, CommandHandled
      <4>3. sent' = << >> \/ \E x \in {TheCommand("WILL", c.opt), TheCommand("WONT", c.opt)} : sent' = <<x>>
        BY <1>2, <3>2, CommandHandled
      <4>4. \A x \in {TheCommand("WILL", c.opt), TheCommand("WONT", c.opt)} :
              x \in Command /\ x \notin {TheCommand("WILL", o), TheCommand("WONT", o)}
        BY <1>3, <2>2, <3>2, FourCommands
      <4>5. \/ toHost' = toHost
            \/ \E x \in Command : x \notin {TheCommand("WILL", o), TheCommand("WONT", o)} /\ toHost' = toHost \o <<x>>
        BY <1>2, <1>5, <4>3, <4>4
      <4> QED BY <1>1, <4>1, <4>2, <4>5 DEF ClientAnswers
    <3>3. CASE c.verb = "DO" /\ c.opt = o
      <4>1. Head(toClient) = TheCommand("DO", o)
        BY <1>1, <1>4, <3>3
      <4>2. \/ o \in optionsUs /\ optionsUs' = optionsUs /\ sent' = << >>
            \/ /\ o \notin optionsUs /\ o \in AcceptedUs
               /\ optionsUs' = optionsUs \cup {o} /\ sent' = <<TheCommand("WILL", o)>>
            \/ /\ o \notin optionsUs /\ o \notin AcceptedUs
               /\ optionsUs' = optionsUs /\ sent' = <<TheCommand("WONT", o)>>
        BY <1>2, <3>3, CommandHandled
      <4> QED BY <1>2, <1>5, <4>1, <4>2 DEF ClientAnswers
    <3>4. CASE c.verb = "DONT" /\ c.opt = o
      <4>1. Head(toClient) = TheCommand("DONT", o)
        BY <1>1, <1>4, <3>4
      <4>2. /\ optionsUs' = optionsUs \ {o}
            /\ sent' = IF o \in optionsUs THEN <<TheCommand("WONT", o)>> ELSE << >>
        BY <1>2, <3>4, CommandHandled
      <4> QED BY <1>2, <1>5, <4>1, <4>2 DEF ClientAnswers
    <3> QED BY <1>3, <3>1, <3>2, <3>3, <3>4
  <2>5. HimOK(o) /\ UsOK(o)
    BY DEF NegotiationInv
  <2>6. HimOK(o)'
    <3>1. SideOK(o, optionsHim', hostSide[o], AcceptedHim, Tail(toClient), toHost',
                 TheCommand("WILL", o), TheCommand("WONT", o), TheCommand("DO", o), TheCommand("DONT", o))
      BY <1>2, <2>1, <2>3, <2>5, ClientKeepsSide DEF HimOK
    <3> QED BY <1>2, <3>1 DEF HimOK
  <2>7. UsOK(o)'
    <3>1. SideOK(o, optionsUs', clientSide[o], AcceptedUs, Tail(toClient), toHost',
                 TheCommand("DO", o), TheCommand("DONT", o), TheCommand("WILL", o), TheCommand("WONT", o))
      BY <1>2, <2>1, <2>4, <2>5, ClientKeepsSide DEF UsOK
    <3> QED BY <1>2, <3>1 DEF UsOK
  <2> QED BY <2>6, <2>7
<1> QED BY <1>6, <1>7 DEF NegotiationInv

\* The host reads a command and answers it.
LEMMA HostAgrees == NegotiationInv /\ HostHandles => NegotiationInv'
<1> SUFFICES ASSUME NegotiationInv, HostHandles PROVE NegotiationInv'
  OBVIOUS
<1>1. PICK c : c = Head(toHost)
  OBVIOUS
<1>2. /\ toClient \in Seq(Command) /\ toHost \in Seq(Command) /\ toHost # << >>
      /\ c \in Command /\ toHost' = Tail(toHost) /\ toHost' \in Seq(Command)
      /\ UNCHANGED vars
      /\ hostSide \in [HostOptions -> Status] /\ clientSide \in [HostOptions -> Status]
  BY <1>1, OneLess DEF HostHandles, NegotiationInv, ConnectionOK
<1>3. c.verb \in {"WILL", "WONT", "DO", "DONT"} /\ c.opt \in Option /\ c = TheCommand(c.verb, c.opt)
  BY <1>2 DEF Command, TheCommand
<1>4. UNCHANGED <<optionsHim, optionsUs, link, useTLS, state>>
  BY <1>2 DEF vars, connection, negotiation
<1> DEFINE M(verb) == TheCommand(verb, c.opt)
           \* What the answer to a request on one side is.
           Answered(side, side2, yes, no) ==
             /\ side2 = Granted(side, c.opt)
             /\ \/ side[c.opt] = "wanted" /\ toClient' = toClient
                \/ side[c.opt] = "on" /\ (toClient' = toClient \/ toClient' = toClient \o <<M(yes)>>)
                \/ /\ side[c.opt] \notin {"wanted", "on"}
                   /\ toClient' = toClient \o <<IF c.opt \in Willing THEN M(yes) ELSE M(no)>>
           Ended(side, side2, no) ==
             /\ side2 = [side EXCEPT ![c.opt] = "off"]
             /\ \/ side[c.opt] = "on" /\ toClient' = toClient \o <<M(no)>>
                \/ side[c.opt] # "on" /\ toClient' = toClient
<1>5. ASSUME NEW side, NEW yes, NEW no, \E answer \in Answers(side, c.opt, yes, no) : toClient' = toClient \o answer
      PROVE  Answered(side, Granted(side, c.opt), yes, no)
  <2>1. \A verb : Say(verb, c.opt) = <<M(verb)>>
    BY DEF Say, TheCommand
  <2>2. toClient \o << >> = toClient
    BY <1>2
  <2>3. PICK answer \in Answers(side, c.opt, yes, no) : toClient' = toClient \o answer
    BY <1>5
  <2>4. CASE side[c.opt] = "wanted"
    <3>1. answer = << >>
      BY <2>3, <2>4 DEF Answers
    <3> QED BY <2>2, <2>3, <2>4, <3>1
  <2>5. CASE side[c.opt] = "on"
    <3>1. answer = << >> \/ answer = <<M(yes)>>
      BY <2>1, <2>3, <2>5 DEF Answers
    <3> QED BY <2>2, <2>3, <2>5, <3>1
  <2>6. CASE side[c.opt] \notin {"wanted", "on"}
    <3>1. answer = <<IF c.opt \in Willing THEN M(yes) ELSE M(no)>>
      BY <2>1, <2>3, <2>6 DEF Answers
    <3> QED BY <2>3, <2>6, <3>1
  <2> QED BY <2>4, <2>5, <2>6
<1>6. c.verb = "DO" => Answered(hostSide, hostSide', "WILL", "WONT") /\ clientSide' = clientSide
  BY <1>1, <1>5 DEF HostHandles
<1>7. c.verb = "WILL" => Answered(clientSide, clientSide', "DO", "DONT") /\ hostSide' = hostSide
  BY <1>1, <1>5 DEF HostHandles
<1>8. /\ c.verb = "DONT" => Ended(hostSide, hostSide', "WONT") /\ clientSide' = clientSide
      /\ c.verb = "WONT" => Ended(clientSide, clientSide', "DONT") /\ hostSide' = hostSide
  <2>1. \A verb : Say(verb, c.opt) = <<M(verb)>>
    BY DEF Say, TheCommand
  <2>2. toClient \o << >> = toClient
    BY <1>2
  <2> HIDE DEF M
  <2> QED BY <1>1, <2>1, <2>2 DEF HostHandles
<1>9. /\ hostSide' \in [HostOptions -> Status] /\ clientSide' \in [HostOptions -> Status]
      /\ \A o \in HostOptions : o # c.opt => hostSide'[o] = hostSide[o] /\ clientSide'[o] = clientSide[o]
      /\ c.opt \in HostOptions =>
           /\ c.verb = "DO" => hostSide'[c.opt] = IF c.opt \in Willing THEN "on" ELSE "off"
           /\ c.verb = "WILL" => clientSide'[c.opt] = IF c.opt \in Willing THEN "on" ELSE "off"
           /\ c.verb = "DONT" => hostSide'[c.opt] = "off"
           /\ c.verb = "WONT" => clientSide'[c.opt] = "off"
  BY <1>2, <1>3, <1>6, <1>7, <1>8 DEF Granted, Status
<1>10. /\ toClient' = toClient \/ \E x \in Command : toClient' = toClient \o <<x>>
       /\ c.verb \in {"DO", "DONT"} =>
            toClient' = toClient \/ \E x \in {M("WILL"), M("WONT")} : toClient' = toClient \o <<x>>
       /\ c.verb \in {"WILL", "WONT"} =>
            toClient' = toClient \/ \E x \in {M("DO"), M("DONT")} : toClient' = toClient \o <<x>>
  <2>1. \A verb \in {"WILL", "WONT", "DO", "DONT"} : M(verb) \in Command
    BY <1>3, FourCommands
  <2>2. /\ c.verb \in {"DO", "DONT"} =>
            toClient' = toClient \/ \E x \in {M("WILL"), M("WONT")} : toClient' = toClient \o <<x>>
        /\ c.verb \in {"WILL", "WONT"} =>
            toClient' = toClient \/ \E x \in {M("DO"), M("DONT")} : toClient' = toClient \o <<x>>
    <3> HIDE DEF M
    <3> QED BY <1>6, <1>7, <1>8
  <2> HIDE DEF M
  <2> QED BY <1>3, <2>1, <2>2
<1>11. ConnectionOK'
  <2>1. link = "up"
    BY <1>2 DEF NegotiationInv, ConnectionOK, Unspoken
  <2>2. toClient' \in Seq(Command)
    BY <1>2, <1>10, OneOrNone
  <2> QED BY <1>2, <1>4, <1>9, <2>1, <2>2 DEF NegotiationInv, ConnectionOK
<1>12. ASSUME NEW o \in HostOptions PROVE HimOK(o)' /\ UsOK(o)'
  <2>0. o \in Option
    BY OptionsAssumption
  <2>1. /\ \A verb \in {"WILL", "WONT", "DO", "DONT"} : TheCommand(verb, o) \in Command
        /\ \A v, w : v # w => TheCommand(v, o) # TheCommand(w, o)
    BY <2>0, FourCommands
  <2>2. \A v, w, p : TheCommand(v, o) = TheCommand(w, p) <=> v = w /\ o = p
    BY DEF TheCommand
  <2>3. /\ hostSide[o] \in Status /\ clientSide[o] \in Status
        /\ \A verb \in {"WILL", "WONT", "DO", "DONT"} : M(verb) \in Command
    BY <1>2, <1>3, FourCommands
  <2>4. HostAnswers(o, hostSide[o], hostSide'[o], toClient, toClient', toHost,
          TheCommand("WILL", o), TheCommand("WONT", o), TheCommand("DO", o), TheCommand("DONT", o))
    <3>1. CASE c.verb \in {"WILL", "WONT"} \/ c.opt # o
      <4>1. c \notin {TheCommand("DO", o), TheCommand("DONT", o)} /\ hostSide'[o] = hostSide[o]
        BY <1>3, <1>7, <1>8, <1>9, <2>2, <3>1
      <4>2. \/ toClient' = toClient
            \/ \E x \in Command : x \notin {TheCommand("WILL", o), TheCommand("WONT", o)} /\ toClient' = toClient \o <<x>>
        BY <1>3, <1>10, <2>2, <2>3, <3>1
      <4> QED BY <1>1, <4>1, <4>2 DEF HostAnswers
    <3>2. CASE c.verb = "DO" /\ c.opt = o
      <4>1. Head(toHost) = TheCommand("DO", o) /\ hostSide'[o] = IF o \in Willing THEN "on" ELSE "off"
        BY <1>1, <1>3, <1>9, <3>2
      <4> QED BY <1>6, <2>3, <3>2, <4>1 DEF HostAnswers, Status
    <3>3. CASE c.verb = "DONT" /\ c.opt = o
      <4>1. Head(toHost) = TheCommand("DONT", o) /\ hostSide'[o] = "off"
        BY <1>1, <1>3, <1>9, <3>3
      <4> QED BY <1>8, <3>3, <4>1 DEF HostAnswers
    <3> QED BY <1>3, <3>1, <3>2, <3>3
  <2>5. HostAnswers(o, clientSide[o], clientSide'[o], toClient, toClient', toHost,
          TheCommand("DO", o), TheCommand("DONT", o), TheCommand("WILL", o), TheCommand("WONT", o))
    <3>1. CASE c.verb \in {"DO", "DONT"} \/ c.opt # o
      <4>1. c \notin {TheCommand("WILL", o), TheCommand("WONT", o)} /\ clientSide'[o] = clientSide[o]
        BY <1>3, <1>6, <1>8, <1>9, <2>2, <3>1
      <4>2. \/ toClient' = toClient
            \/ \E x \in Command : x \notin {TheCommand("DO", o), TheCommand("DONT", o)} /\ toClient' = toClient \o <<x>>
        BY <1>3, <1>10, <2>2, <2>3, <3>1
      <4> QED BY <1>1, <4>1, <4>2 DEF HostAnswers
    <3>2. CASE c.verb = "WILL" /\ c.opt = o
      <4>1. Head(toHost) = TheCommand("WILL", o) /\ clientSide'[o] = IF o \in Willing THEN "on" ELSE "off"
        BY <1>1, <1>3, <1>9, <3>2
      <4> QED BY <1>7, <2>3, <3>2, <4>1 DEF HostAnswers, Status
    <3>3. CASE c.verb = "WONT" /\ c.opt = o
      <4>1. Head(toHost) = TheCommand("WONT", o) /\ clientSide'[o] = "off"
        BY <1>1, <1>3, <1>9, <3>3
      <4> QED BY <1>8, <3>3, <4>1 DEF HostAnswers
    <3> QED BY <1>3, <3>1, <3>2, <3>3
  <2>6. HimOK(o) /\ UsOK(o)
    BY DEF NegotiationInv
  <2>7. HimOK(o)'
    <3>1. SideOK(o, optionsHim, hostSide'[o], AcceptedHim, toClient', Tail(toHost),
                 TheCommand("WILL", o), TheCommand("WONT", o), TheCommand("DO", o), TheCommand("DONT", o))
      BY <1>2, <2>1, <2>4, <2>6, HostKeepsSide DEF HimOK
    <3> QED BY <1>2, <1>4, <3>1 DEF HimOK
  <2>8. UsOK(o)'
    <3>1. SideOK(o, optionsUs, clientSide'[o], AcceptedUs, toClient', Tail(toHost),
                 TheCommand("DO", o), TheCommand("DONT", o), TheCommand("WILL", o), TheCommand("WONT", o))
      BY <1>2, <2>1, <2>5, <2>6, HostKeepsSide DEF UsOK
    <3> QED BY <1>2, <1>4, <3>1 DEF UsOK
  <2> QED BY <2>7, <2>8
<1> QED BY <1>11, <1>12 DEF NegotiationInv

\* The host asks for an option, or switches one off.
LEMMA HostActsAgrees ==
  ASSUME NegotiationInv, NEW opt \in HostOptions, HostOffers(opt) \/ HostWithdraws(opt)
  PROVE  NegotiationInv'
<1>1. /\ toClient \in Seq(Command) /\ toHost' = toHost /\ UNCHANGED vars
      /\ hostSide \in [HostOptions -> Status] /\ clientSide \in [HostOptions -> Status]
  BY DEF HostOffers, HostWithdraws, NegotiationInv, ConnectionOK
<1>2. UNCHANGED <<optionsHim, optionsUs, link, useTLS, state>>
  BY <1>1 DEF vars, connection, negotiation
<1>3. opt \in Option
  BY OptionsAssumption
<1>4. /\ \A verb \in {"WILL", "WONT", "DO", "DONT"} : TheCommand(verb, opt) \in Command
      /\ \A verb : Say(verb, opt) = <<TheCommand(verb, opt)>>
  BY <1>3, FourCommands DEF Say, TheCommand
<1>5. \/ /\ hostSide[opt] = "off" /\ opt \in Willing /\ clientSide' = clientSide
         /\ hostSide' = [hostSide EXCEPT ![opt] = "wanted"]
         /\ toClient' = toClient \o <<TheCommand("WILL", opt)>>
      \/ /\ clientSide[opt] = "off" /\ opt \in Willing /\ hostSide' = hostSide
         /\ clientSide' = [clientSide EXCEPT ![opt] = "wanted"]
         /\ toClient' = toClient \o <<TheCommand("DO", opt)>>
      \/ /\ hostSide[opt] = "on" /\ clientSide' = clientSide
         /\ hostSide' = [hostSide EXCEPT ![opt] = "off"]
         /\ toClient' = toClient \o <<TheCommand("WONT", opt)>>
      \/ /\ clientSide[opt] = "on" /\ hostSide' = hostSide
         /\ clientSide' = [clientSide EXCEPT ![opt] = "off"]
         /\ toClient' = toClient \o <<TheCommand("DONT", opt)>>
  BY <1>4 DEF HostOffers, HostWithdraws
<1>6. ConnectionOK'
  <2>1. link = "up"
    BY DEF HostOffers, HostWithdraws, NegotiationInv, ConnectionOK, Unspoken
  <2>2. toClient' \in Seq(Command)
    <3>1. \E x \in Command : toClient' = toClient \o <<x>>
      BY <1>4, <1>5
    <3> QED BY <1>1, <3>1, OneOrNone
  <2>3. hostSide' \in [HostOptions -> Status] /\ clientSide' \in [HostOptions -> Status]
    BY <1>1, <1>5 DEF Status
  <2> QED BY <1>1, <1>2, <2>1, <2>2, <2>3 DEF NegotiationInv, ConnectionOK
<1>7. ASSUME NEW o \in HostOptions PROVE HimOK(o)' /\ UsOK(o)'
  <2>0. o \in Option
    BY OptionsAssumption
  <2>1. /\ \A verb \in {"WILL", "WONT", "DO", "DONT"} : TheCommand(verb, o) \in Command
        /\ \A v, w : v # w => TheCommand(v, o) # TheCommand(w, o)
        /\ \A v, w, p : TheCommand(v, o) = TheCommand(w, p) <=> v = w /\ o = p
    BY <2>0, FourCommands DEF TheCommand
  <2>2. HostActs(o, hostSide[o], hostSide'[o], toClient, toClient', TheCommand("WILL", o), TheCommand("WONT", o))
    <3>1. CASE hostSide' = hostSide \/ opt # o
      <4>1. hostSide'[o] = hostSide[o]
        BY <1>1, <1>5, <3>1
      <4>2. \E x \in Command : x \notin {TheCommand("WILL", o), TheCommand("WONT", o)} /\ toClient' = toClient \o <<x>>
        <5>1. \E verb \in {"WILL", "WONT", "DO", "DONT"} :
                toClient' = toClient \o <<TheCommand(verb, opt)>> /\ (opt # o \/ verb \in {"DO", "DONT"})
          BY <1>1, <1>5, <3>1
        <5> QED BY <1>4, <2>1, <5>1
      <4> QED BY <4>1, <4>2 DEF HostActs
    <3>2. CASE hostSide' # hostSide /\ opt = o
      BY <1>1, <1>5, <3>2 DEF HostActs
    <3> QED BY <3>1, <3>2
  <2>3. HostActs(o, clientSide[o], clientSide'[o], toClient, toClient', TheCommand("DO", o), TheCommand("DONT", o))
    <3>1. CASE clientSide' = clientSide \/ opt # o
      <4>1. clientSide'[o] = clientSide[o]
        BY <1>1, <1>5, <3>1
      <4>2. \E x \in Command : x \notin {TheCommand("DO", o), TheCommand("DONT", o)} /\ toClient' = toClient \o <<x>>
        <5>1. \E verb \in {"WILL", "WONT", "DO", "DONT"} :
                toClient' = toClient \o <<TheCommand(verb, opt)>> /\ (opt # o \/ verb \in {"WILL", "WONT"})
          BY <1>1, <1>5, <3>1
        <5> QED BY <1>4, <2>1, <5>1
      <4> QED BY <4>1, <4>2 DEF HostActs
    <3>2. CASE clientSide' # clientSide /\ opt = o
      BY <1>1, <1>5, <3>2 DEF HostActs
    <3> QED BY <3>1, <3>2
  <2>4. HimOK(o) /\ UsOK(o)
    BY DEF NegotiationInv
  <2>5. HimOK(o)'
    <3>1. SideOK(o, optionsHim, hostSide'[o], AcceptedHim, toClient', toHost,
                 TheCommand("WILL", o), TheCommand("WONT", o), TheCommand("DO", o), TheCommand("DONT", o))
      BY <1>1, <2>1, <2>2, <2>4, ActingKeepsSide DEF HimOK
    <3> QED BY <1>1, <1>2, <3>1 DEF HimOK
  <2>6. UsOK(o)'
    <3>1. SideOK(o, optionsUs, clientSide'[o], AcceptedUs, toClient', toHost,
                 TheCommand("DO", o), TheCommand("DONT", o), TheCommand("WILL", o), TheCommand("WONT", o))
      BY <1>1, <2>1, <2>3, <2>4, ActingKeepsSide DEF UsOK
    <3> QED BY <1>1, <1>2, <3>1 DEF UsOK
  <2> QED BY <2>5, <2>6
<1> QED BY <1>6, <1>7 DEF NegotiationInv

\* Nothing else says anything.
LEMMA SilentAgrees ==
  ASSUME NegotiationInv, UNCHANGED <<optionsHim, optionsUs, link, useTLS>>,
         UNCHANGED <<toHost, toClient, hostSide, clientSide>>, state' \in {state, "Connected"}
  PROVE  NegotiationInv'
BY DEF NegotiationInv, ConnectionOK, Unspoken, HimOK, UsOK

LEMMA NegotiationStep == NegotiationInv /\ [NNext]_allVars => NegotiationInv'
<1> SUFFICES ASSUME NegotiationInv, [NNext]_allVars PROVE NegotiationInv'
  OBVIOUS
<1>1. CASE ClientReads
  BY <1>1, SilentAgrees DEF ClientReads, OnSocketReadyRead, hostVars, connection, negotiation
<1>2. CASE ClientFinishes
  BY <1>2, SilentAgrees DEF ClientFinishes, EndOfChunk, hostVars, NoHandshakeStep, CheckHandshakeComplete
<1>3. CASE UNCHANGED allVars
  BY <1>3, SilentAgrees DEF allVars, vars, hostVars, connection, negotiation
<1> QED BY <1>1, <1>2, <1>3, ConnectAgrees, ClientAgrees, HostAgrees, HostActsAgrees DEF NNext

\* Whatever the host is willing to use, asks for, acknowledges or switches off, and
\* however the commands cross, both ends agree on every option when nothing is on
\* its way (handleTelnetCommand, acceptOption): the safety half of NegotiationConverges.
THEOREM EndsAgree == NSpec => []AgreedAtRest
<1>1. NSpec => []NegotiationInv
  BY NegotiationStarts, NegotiationStep, PTL DEF NSpec
<1> QED BY <1>1, AgreedThen, PTL

-----------------------------------------------------------------------------
(* The clients of the host servers.                                        *)

CONSTANT MaxCalls
VARIABLES signonState, socket, fields, calls, heard, mapper, recvBuffer, wanted, loops, announced, answered

HostClients == INSTANCE HostServer

SignonReply == [id : {"F003", "F004", "invalid"}, ok : BOOLEAN, full : BOOLEAN]

SignonSocket == [call : Int, link : {"none", "connecting", "up", "closing", "down"},
                 in : Seq(SignonReply), asked : SUBSET {"F003", "F004"}, agreed : BOOLEAN]

\* A connection that was just made, or is none, has nothing on its way; what is on
\* its way is one reply at most, and the server is asked for the result of a sign-on
\* only while the client waits for it.
SignonOK ==
  /\ calls \in Int
  /\ socket \in SignonSocket
  /\ socket.link \in {"none", "connecting"} => socket.in = << >> /\ socket.asked = {}
  /\ signonState \in {"exchanging", "authenticating", "authenticated"} =>
       socket.link \notin {"none", "connecting"}
  /\ Len(socket.in) <= 1 /\ (socket.asked # {} => socket.in = << >>)
  /\ signonState = "authenticating" => socket.asked \subseteq {"F004"}
  /\ signonState = "authenticating" /\ socket.in # << >> /\ Head(socket.in).ok => socket.agreed
  /\ signonState = "authenticated" => socket.asked = {} /\ socket.agreed

ResolveLoop == [call : Nat, port : Nat, ended : BOOLEAN]

\* The one socket there is, and what is left of its answer, are those of the last call;
\* a loop of that call holds no other port. The loops under it may hold any.
MapperOK ==
  /\ wanted \in Nat /\ recvBuffer \in {0, wanted}
  /\ \A m \in mapper : m.call = wanted /\ m.asked \in {0, wanted}
  /\ loops \in Seq(ResolveLoop)
  /\ \A i \in DOMAIN loops : loops[i].call <= wanted
  /\ \A i \in DOMAIN loops : loops[i].call = wanted => loops[i].port \in {0, wanted}
  /\ announced.port = announced.name
  /\ \A a \in answered : a.last = a.call => a.port \in {0, a.call}

LEMMA SignonStarts == HostClients!HostServerInit => SignonOK /\ MapperOK
<1>1. << >> \in Seq(SignonReply)
  OBVIOUS
<1> QED BY <1>1 DEF HostClients!HostServerInit, HostClients!NoSocket, SignonOK, SignonSocket, MapperOK

LEMMA SignonCalled ==
  ASSUME SignonOK, HostClients!LongUserId \/ HostClients!Signon
  PROVE  SignonOK'
<1>1. CASE HostClients!LongUserId
  BY <1>1 DEF HostClients!LongUserId, SignonOK, SignonSocket
<1>2. CASE HostClients!Signon
  <2>1. /\ calls' = calls + 1 /\ signonState' = "connecting"
        /\ socket' = [call |-> calls', link |-> "connecting", in |-> << >>, asked |-> {}, agreed |-> FALSE]
    BY <1>2 DEF HostClients!Signon, HostClients!NoSocket
  <2>2. << >> \in Seq(SignonReply) /\ Len(<< >>) = 0
    OBVIOUS
  <2>3. calls' \in Int
    BY <2>1 DEF SignonOK, SignonSocket
  <2> QED BY <2>1, <2>2, <2>3 DEF SignonOK, SignonSocket
<1> QED BY <1>1, <1>2

LEMMA SignonSignalled ==
  ASSUME SignonOK,
         HostClients!OnSocketConnected \/ HostClients!OnSocketError \/ HostClients!RemoteHostClosed
  PROVE  SignonOK'
<1>1. CASE HostClients!OnSocketConnected
  BY <1>1 DEF HostClients!OnSocketConnected, SignonOK, SignonSocket
<1>2. CASE HostClients!OnSocketError
  BY <1>2 DEF HostClients!OnSocketError, SignonOK, SignonSocket
<1>3. CASE HostClients!RemoteHostClosed
  BY <1>3 DEF HostClients!RemoteHostClosed, HostClients!ClosedByServer, SignonOK, SignonSocket
<1> QED BY <1>1, <1>2, <1>3

\* A reply read leaves none behind it, and none it could be taken for.
LEMMA SignonReads ==
  ASSUME SignonOK, HostClients!OnSocketReadyRead
  PROVE  SignonOK'
<1> DEFINE reply == Head(socket.in)
<1>1. /\ socket.link \in {"up", "closing"} /\ socket.in # << >> /\ calls' = calls
  BY DEF HostClients!OnSocketReadyRead
<1>2. /\ socket.in \in Seq(SignonReply) /\ Len(socket.in) <= 1
  BY DEF SignonOK, SignonSocket
<1>3. Tail(socket.in) = << >>
  BY <1>1, <1>2
<1>4. socket.asked = {}
  BY <1>1 DEF SignonOK, SignonSocket
<1>5. \/ /\ socket' = [socket EXCEPT !.in = << >>]
         /\ \/ signonState' = "error"
            \/ signonState' = signonState /\ signonState \notin {"exchanging", "authenticating"}
            \/ signonState = "authenticating" /\ reply.ok /\ signonState' = "authenticated"
      \/ socket' = [socket EXCEPT !.in = << >>, !.asked = {"F004"}] /\ signonState' = "authenticating"
  BY <1>3 DEF HostClients!OnSocketReadyRead, HostClients!Failed, HostClients!ExpectsResult,
     HostClients!HandleExchangeAttributesReply, HostClients!HandleSignonReply
<1>6. << >> \in Seq(SignonReply) /\ Len(<< >>) = 0
  OBVIOUS
<1>7. socket \in SignonSocket /\ calls \in Int
  BY DEF SignonOK
<1>8. CASE socket' = [socket EXCEPT !.in = << >>]
  <2>1. socket' \in SignonSocket
    BY <1>6, <1>7, <1>8 DEF SignonSocket
  <2>2. /\ socket'.in = << >> /\ socket'.asked = {} /\ socket'.agreed = socket.agreed
        /\ socket'.link = socket.link
    BY <1>4, <1>7, <1>8 DEF SignonSocket
  <2>3. signonState' = "authenticated" => socket.agreed
    BY <1>1, <1>5 DEF SignonOK
  <2> QED BY <1>1, <1>6, <1>7, <2>1, <2>2, <2>3, <1>5 DEF SignonOK
<1>9. CASE socket' = [socket EXCEPT !.in = << >>, !.asked = {"F004"}] /\ signonState' = "authenticating"
  <2>1. socket' \in SignonSocket
    BY <1>6, <1>7, <1>9 DEF SignonSocket
  <2>2. /\ socket'.in = << >> /\ socket'.asked = {"F004"} /\ socket'.link = socket.link
    BY <1>7, <1>9 DEF SignonSocket
  <2> QED BY <1>1, <1>6, <1>7, <1>9, <2>1, <2>2 DEF SignonOK
<1> QED BY <1>5, <1>8, <1>9

\* The server's answer is the only one on its way.
LEMMA SignonAnswered ==
  ASSUME SignonOK, HostClients!ServerAnswers \/ HostClients!ServerCloses
  PROVE  SignonOK'
<1>1. CASE HostClients!ServerCloses
  BY <1>1 DEF HostClients!ServerCloses, SignonOK, SignonSocket
<1>2. CASE HostClients!ServerAnswers
  <2>1. PICK id \in socket.asked :
          \E r \in HostClients!Reply(id) :
            socket' = [socket EXCEPT !.in = Append(@, r), !.asked = {}, !.agreed = r.id = "F004" /\ r.ok]
    BY <1>2 DEF HostClients!ServerAnswers
  <2>10. PICK reply \in HostClients!Reply(id) :
           socket' = [socket EXCEPT !.in = Append(@, reply), !.asked = {},
                                    !.agreed = reply.id = "F004" /\ reply.ok]
    BY <2>1
  <2>2. /\ socket.link = "up" /\ calls' = calls /\ signonState' = signonState /\ socket.in = << >>
        /\ id \in {"F003", "F004"} /\ (signonState = "authenticating" => id = "F004")
        /\ signonState # "authenticated"
    BY <1>2 DEF HostClients!ServerAnswers, SignonOK, SignonSocket
  <2>3. reply \in SignonReply /\ (reply.id = id \/ ~reply.ok) /\ (id = "F004" /\ reply.ok => reply.id = "F004")
    BY <2>2 DEF HostClients!Reply, SignonReply
  <2>4. PICK in \in Seq(SignonReply) :
          in = Append(socket.in, reply) /\ Len(in) = 1 /\ in # << >> /\ Head(in) = reply
    <3>1. /\ Append(socket.in, reply) \in Seq(SignonReply) /\ Len(Append(socket.in, reply)) = 1
          /\ Append(socket.in, reply) # << >> /\ Head(Append(socket.in, reply)) = reply
      BY <2>2, <2>3
    <3> QED BY <3>1
  <2>5. PICK agreed \in BOOLEAN : agreed <=> reply.id = "F004" /\ reply.ok
    OBVIOUS
  <2>6. socket' = [socket EXCEPT !.in = in, !.asked = {}, !.agreed = agreed]
    BY <2>10, <2>4, <2>5
  <2>7. socket \in SignonSocket /\ calls \in Int
    BY DEF SignonOK
  <2>8. socket' \in SignonSocket
    BY <2>4, <2>5, <2>6, <2>7 DEF SignonSocket
  <2>9. socket'.in = in /\ socket'.asked = {} /\ socket'.link = "up"
    BY <2>2, <2>6, <2>7 DEF SignonSocket
  <2>11. signonState' = "authenticating" /\ Head(socket'.in).ok => socket'.agreed
    <3>1. Head(socket'.in) = reply
      BY <2>4, <2>9
    <3>2. socket'.agreed = agreed
      BY <2>6, <2>7 DEF SignonSocket
    <3> QED BY <2>2, <2>3, <2>5, <3>1, <3>2, Zenon
  <2>12. Len(socket'.in) <= 1 /\ socket'.in # << >>
    BY <2>4, <2>9
  <2> QED BY <2>2, <2>7, <2>8, <2>9, <2>11, <2>12 DEF SignonOK
<1> QED BY <1>1, <1>2

\* A call comes with a loop and a buffer of its own.
LEMMA MapperCalled ==
  ASSUME MapperOK, NEW sync \in BOOLEAN, HostClients!Resolve(sync)
  PROVE  MapperOK'
<1> DEFINE new == [call |-> wanted + 1, port |-> 0, ended |-> FALSE]
<1>1. /\ wanted' = wanted + 1 /\ wanted \in Nat
      /\ mapper' = {[call |-> wanted + 1, asked |-> 0]} /\ recvBuffer' = 0
      /\ loops' = IF sync THEN Append(loops, new) ELSE loops
      /\ announced' = announced /\ answered' = answered
  BY DEF HostClients!Resolve, HostClients!ClearedBuffer, MapperOK
<1>2. new \in ResolveLoop /\ loops \in Seq(ResolveLoop)
  BY <1>1 DEF MapperOK, ResolveLoop
<1>3. loops' \in Seq(ResolveLoop)
  BY <1>1, <1>2
<1>5. \A i \in DOMAIN loops : loops[i].call <= wanted
  BY DEF MapperOK
<1>4. ASSUME NEW i \in DOMAIN loops'
      PROVE  /\ loops'[i].call <= wanted'
             /\ loops'[i].call = wanted' => loops'[i].port \in {0, wanted'}
  <2>1. CASE i \in DOMAIN loops
    <3>1. loops'[i] = loops[i] /\ loops[i] \in ResolveLoop
      BY <1>1, <1>2, <2>1
    <3>2. loops[i].call \in Nat
      BY <3>1 DEF ResolveLoop
    <3>3. loops[i].call <= wanted
      BY <1>5, <2>1
    <3> QED BY <1>1, <3>1, <3>2, <3>3
  <2>2. CASE i \notin DOMAIN loops
    <3>1. loops'[i] = new
      BY <1>1, <1>2, <2>2
    <3> QED BY <1>1, <3>1
  <2> QED BY <2>1, <2>2
<1> QED BY <1>1, <1>3, <1>4 DEF MapperOK

LEMMA MapperKeeps ==
  ASSUME MapperOK, HostClients!MapperNext
  PROVE  MapperOK'
<1>0. wanted \in Nat /\ loops \in Seq(ResolveLoop)
  BY DEF MapperOK
<1>10. \A i \in DOMAIN loops : loops[i] \in ResolveLoop
  BY <1>0
<1>11. ASSUME NEW l \in ResolveLoop, NEW p \in Nat
       PROVE  /\ [l EXCEPT !.port = p, !.ended = TRUE] \in ResolveLoop
              /\ [l EXCEPT !.port = p, !.ended = TRUE].call = l.call
              /\ [l EXCEPT !.port = p, !.ended = TRUE].port = p
              /\ [l EXCEPT !.ended = TRUE] \in ResolveLoop
              /\ [l EXCEPT !.ended = TRUE].call = l.call
              /\ [l EXCEPT !.ended = TRUE].port = l.port
  BY DEF ResolveLoop
<1>1. CASE \E sync \in BOOLEAN : HostClients!Resolve(sync)
  BY <1>1, MapperCalled
<1>2. ASSUME NEW m \in mapper, HostClients!OnConnected(m) \/ HostClients!OnPiece(m)
      PROVE  MapperOK'
  <2>1. CASE HostClients!OnConnected(m)
    <3>1. m.call = wanted /\ [m EXCEPT !.asked = wanted].call = m.call
      BY DEF MapperOK
    <3>2. mapper' \subseteq mapper \cup {[m EXCEPT !.asked = wanted]} /\ wanted' = wanted
      BY <2>1 DEF HostClients!OnConnected
    <3>3. [m EXCEPT !.asked = wanted].asked \in {0, wanted}
      BY DEF MapperOK
    <3> QED BY <2>1, <3>1, <3>2, <3>3 DEF HostClients!OnConnected, MapperOK
  <2>2. CASE HostClients!OnPiece(m)
    BY <2>2 DEF HostClients!OnPiece, MapperOK
  <2> QED BY <1>2, <2>1, <2>2
<1>3. ASSUME NEW m \in mapper, HostClients!OnReadyRead(m) PROVE MapperOK'
  <2> DEFINE port == IF recvBuffer = 0 THEN m.asked ELSE recvBuffer
  <2>1. port = wanted
    BY <1>3 DEF HostClients!OnReadyRead, MapperOK
  <2>2. /\ wanted' = wanted /\ mapper' \subseteq mapper /\ recvBuffer' = 0 /\ answered' = answered
        /\ announced' = [name |-> wanted, port |-> wanted]
        /\ loops' = [i \in DOMAIN loops |-> [loops[i] EXCEPT !.port = wanted, !.ended = TRUE]]
    BY <1>3, <2>1 DEF HostClients!OnReadyRead
  <2>3. \A i \in DOMAIN loops : /\ [loops[i] EXCEPT !.port = wanted, !.ended = TRUE] \in ResolveLoop
                               /\ [loops[i] EXCEPT !.port = wanted, !.ended = TRUE].call = loops[i].call
                               /\ [loops[i] EXCEPT !.port = wanted, !.ended = TRUE].port = wanted
    BY <1>0, <1>10, <1>11
  <2>4. loops' \in Seq(ResolveLoop) /\ DOMAIN loops' = DOMAIN loops
    <3>1. Len(loops) \in Nat /\ DOMAIN loops = 1 .. Len(loops)
      BY <1>0
    <3>2. \A i \in 1 .. Len(loops) :
            loops'[i] = [loops[i] EXCEPT !.port = wanted, !.ended = TRUE] /\ loops'[i] \in ResolveLoop
      BY <2>2, <2>3, <3>1
    <3>3. loops' \in [1 .. Len(loops) -> ResolveLoop]
      BY <2>2, <3>1, <3>2
    <3>4. loops' \in Seq(ResolveLoop)
      BY <3>1, <3>3, SeqDef
    <3> QED BY <2>2, <3>4
  <2> QED BY <1>0, <2>2, <2>3, <2>4 DEF MapperOK
<1>4. ASSUME NEW m \in mapper, HostClients!OnError(m) PROVE MapperOK'
  <2>1. /\ wanted' = wanted /\ mapper' \subseteq mapper /\ recvBuffer' \in {0, recvBuffer}
        /\ loops' = [i \in DOMAIN loops |-> [loops[i] EXCEPT !.ended = TRUE]]
        /\ announced' = announced /\ answered' = answered
    BY <1>4 DEF HostClients!OnError
  <2>2. \A i \in DOMAIN loops : /\ [loops[i] EXCEPT !.ended = TRUE] \in ResolveLoop
                               /\ [loops[i] EXCEPT !.ended = TRUE].call = loops[i].call
                               /\ [loops[i] EXCEPT !.ended = TRUE].port = loops[i].port
    BY <1>0, <1>10, <1>11
  <2>3. loops' \in Seq(ResolveLoop) /\ DOMAIN loops' = DOMAIN loops
    BY <1>0, <2>1, <2>2
  <2> QED BY <1>0, <2>1, <2>2, <2>3 DEF MapperOK
<1>5. ASSUME NEW i \in DOMAIN loops, HostClients!Timeout(i) PROVE MapperOK'
  <2> DEFINE ended == [loops[i] EXCEPT !.ended = TRUE]
  <2>1. /\ loops' = [loops EXCEPT ![i] = ended]
        /\ UNCHANGED <<mapper, recvBuffer, wanted, announced, answered>>
    BY <1>5 DEF HostClients!Timeout
  <2>4. ended \in ResolveLoop /\ ended.call = loops[i].call /\ ended.port = loops[i].port
    BY <1>10, <1>11
  <2>2. loops' \in Seq(ResolveLoop) /\ DOMAIN loops' = DOMAIN loops
    BY <1>0, <2>1, <2>4
  <2>3. \A j \in DOMAIN loops : loops'[j].call = loops[j].call /\ loops'[j].port = loops[j].port
    BY <1>0, <2>1, <2>4
  <2> QED BY <1>0, <2>1, <2>2, <2>3 DEF MapperOK
<1>6. CASE HostClients!Return
  <2> DEFINE inner == loops[Len(loops)]
  <2>1. /\ loops # << >> /\ loops' = SubSeq(loops, 1, Len(loops) - 1)
        /\ answered' = {[call |-> inner.call, port |-> inner.port, last |-> wanted]}
        /\ UNCHANGED <<mapper, recvBuffer, wanted, announced>>
    BY <1>6 DEF HostClients!Return
  <2>2. Len(loops) \in DOMAIN loops /\ loops' \in Seq(ResolveLoop)
    BY <1>0, <2>1
  <2>3. \A j \in DOMAIN loops' : j \in DOMAIN loops /\ loops'[j] = loops[j]
    BY <1>0, <2>1
  <2>4. inner.call = wanted => inner.port \in {0, inner.call}
    BY <2>2 DEF MapperOK
  <2> QED BY <1>0, <2>1, <2>2, <2>3, <2>4 DEF MapperOK
<1> QED BY <1>1, <1>2, <1>3, <1>4, <1>5, <1>6 DEF HostClients!MapperNext, HostClients!TimerFires

\* A sign-on succeeds on the word of its own server only, whatever calls replace each
\* other (SignonClient::handleSignonReply). A port is announced with its own name, and
\* the port resolveSync returns is that of its own name or none, unless another call came
\* over it: whatever calls came before and however late they are answered
\* (ServiceMapper::resolve, resolveSync).
THEOREM AnswersStayOwn ==
  HostClients!HostServerSpec =>
    [](HostClients!SignedOnByItsServer /\ HostClients!PortsAreOfTheirNames)
<1> DEFINE Own == SignonOK /\ MapperOK
<1>1. HostClients!HostServerInit => Own
  BY SignonStarts
<1>2. Own /\ [HostClients!HostServerNext]_HostClients!hostServerVars => Own'
  <2> SUFFICES ASSUME Own, [HostClients!HostServerNext]_HostClients!hostServerVars
               PROVE  Own'
    OBVIOUS
  <2>1. CASE HostClients!LongUserId \/ HostClients!Signon
    <3>1. SignonOK'
      BY <2>1, SignonCalled
    <3>2. UNCHANGED HostClients!mapperVars
      BY <2>1 DEF HostClients!LongUserId, HostClients!Signon
    <3> QED BY <3>1, <3>2 DEF MapperOK, HostClients!mapperVars
  <2>2. CASE HostClients!OnSocketConnected \/ HostClients!OnSocketError \/ HostClients!RemoteHostClosed
    <3>1. SignonOK'
      BY <2>2, SignonSignalled
    <3>2. UNCHANGED HostClients!mapperVars
      BY <2>2 DEF HostClients!OnSocketConnected, HostClients!OnSocketError, HostClients!RemoteHostClosed
    <3> QED BY <3>1, <3>2 DEF MapperOK, HostClients!mapperVars
  <2>3. CASE HostClients!OnSocketReadyRead
    <3>1. SignonOK'
      BY <2>3, SignonReads
    <3>2. UNCHANGED HostClients!mapperVars
      BY <2>3 DEF HostClients!OnSocketReadyRead
    <3> QED BY <3>1, <3>2 DEF MapperOK, HostClients!mapperVars
  <2>4. CASE HostClients!ServerAnswers \/ HostClients!ServerCloses
    <3>1. SignonOK'
      BY <2>4, SignonAnswered
    <3>2. UNCHANGED HostClients!mapperVars
      BY <2>4 DEF HostClients!ServerAnswers, HostClients!ServerCloses
    <3> QED BY <3>1, <3>2 DEF MapperOK, HostClients!mapperVars
  <2>5. CASE HostClients!MapperNext
    <3>1. MapperOK'
      BY <2>5, MapperKeeps
    <3>2. UNCHANGED HostClients!signonVars
      BY <2>5 DEF HostClients!MapperNext, HostClients!TimerFires, HostClients!Resolve,
         HostClients!OnConnected, HostClients!OnPiece, HostClients!OnReadyRead, HostClients!OnError,
         HostClients!Timeout, HostClients!Return
    <3> QED BY <3>1, <3>2 DEF SignonOK, HostClients!signonVars
  <2>6. CASE UNCHANGED HostClients!hostServerVars
    BY <2>6 DEF HostClients!hostServerVars, HostClients!signonVars, HostClients!mapperVars,
       SignonOK, MapperOK
  <2> QED BY <2>1, <2>2, <2>3, <2>4, <2>5, <2>6 DEF HostClients!HostServerNext, HostClients!SignonNext,
          HostClients!SignonClient, HostClients!SignonServer
<1>3. Own => HostClients!SignedOnByItsServer /\ HostClients!PortsAreOfTheirNames
  BY DEF SignonOK, MapperOK, HostClients!SignedOnByItsServer, HostClients!PortsAreOfTheirNames
<1> QED BY <1>1, <1>2, <1>3, PTL DEF HostClients!HostServerSpec

===============================================================================
