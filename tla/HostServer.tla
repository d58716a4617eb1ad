----------------------------- MODULE HostServer -----------------------------
(***************************************************************************)
(* The clients of the IBM i host servers: SignonClient, which exchanges    *)
(* seeds with the sign-on server and then sends the password encrypted     *)
(* with them, and ServiceMapper, which asks for the port of a service and  *)
(* can wait for it with a time limit.  The program's window uses neither   *)
(* yet; their callers here may do what the classes allow: call again while *)
(* an earlier call is under way.  resolveSync waits in an event loop of    *)
(* its own, in which all else goes on, another resolve of the same mapper  *)
(* included; the loops then lie one on the other.                          *)
(*                                                                         *)
(* A packet arrives whole or later: m_recvBuffer holds pieces back. What a *)
(* server knows of a connection is that of the call it was made for.       *)
(***************************************************************************)
EXTENDS Integers, Sequences

CONSTANTS
  MaxCalls    \* bound: calls of signon, and of resolve

VARIABLES
  signonState,   \* SignonClient's state
  socket,        \* its socket: the call it is for, its link, packets on the way, what
                 \* the server was asked, and whether it accepted the user
  fields,        \* for which call the server sent what the client holds of it
  calls,         \* calls of signon so far
  heard,         \* what the caller was told since its last call
  mapper,        \* {} or ServiceMapper's socket: the call it was made for, and the call
                 \* whose name was sent over it, 0 for none yet
  recvBuffer,    \* the call of whose answer m_recvBuffer holds a first piece, 0 for none
  wanted,        \* the number of the last call, whose name m_serviceName is
  loops,         \* the loops of resolveSync, the innermost last: the call that waits,
                 \* the call whose port it holds (0: none), and whether it was ended
  announced,     \* the last portResolved: the call whose name, and whose port it gives
  answered       \* {} or the last return of a resolveSync: the call that returns, the one
                 \* whose port it returns (0: none), and the last call made by then

signonVars == <<signonState, socket, fields, calls, heard>>
mapperVars == <<mapper, recvBuffer, wanted, loops, announced, answered>>
hostServerVars == <<signonVars, mapperVars>>

NoSocket == [call |-> 0, link |-> "none", in |-> <<>>, asked |-> {}, agreed |-> FALSE]
Ended == {"authenticated", "error"}

-----------------------------------------------------------------------------
\* The caller. A user ID of more than ten characters is refused before the
\* client touches its socket.

LongUserId ==
  /\ calls < MaxCalls
  /\ calls' = calls + 1
  /\ signonState' = "error"
  /\ heard' = <<"error">>
  /\ UNCHANGED <<socket, fields, mapperVars>>

\* The old socket is aborted with its signals connected: if it was open, its
\* end is reported as an error, to the new call.
AbortOld == IF socket.link \in {"up", "closing"} /\ signonState \notin Ended THEN <<"error">> ELSE <<>>

\* What the client holds of an earlier server is kept.
Signon ==
  /\ calls < MaxCalls
  /\ calls' = calls + 1
  /\ heard' = AbortOld
  /\ socket' = [NoSocket EXCEPT !.call = calls', !.link = "connecting"]
  /\ signonState' = "connecting"
  /\ UNCHANGED <<fields, mapperVars>>

-----------------------------------------------------------------------------
\* The socket's signals.

OnSocketConnected ==
  /\ socket.link = "connecting"
  /\ socket' = [socket EXCEPT !.link = "up", !.asked = {"F003"}]
  /\ signonState' = "exchanging"
  /\ UNCHANGED <<fields, calls, heard, mapperVars>>

OnSocketError ==
  /\ socket.link = "connecting"
  /\ socket' = [socket EXCEPT !.link = "down"]
  /\ signonState' = "error"
  /\ heard' = Append(heard, "error")
  /\ UNCHANGED <<fields, calls, mapperVars>>

\* A close of the server's is an error of the socket first; onSocketDisconnected,
\* which would leave a finished sign-on alone, finds the state in error.
ClosedByServer == socket.link = "closing" /\ socket.in = <<>>

RemoteHostClosed ==
  /\ ClosedByServer
  /\ socket' = [socket EXCEPT !.link = "down"]
  /\ signonState' = "error"
  /\ heard' = Append(heard, "error")
  /\ UNCHANGED <<fields, calls, mapperVars>>

Failed == /\ signonState' = "error"
          /\ heard' = Append(heard, "error")

\* Without a seed in this reply, one kept from an earlier call will do.
HandleExchangeAttributesReply(reply) ==
  /\ reply.id = "F003"
  /\ fields' = IF reply.ok THEN [seed |-> IF reply.full THEN socket.call ELSE fields.seed,
                                 job |-> IF reply.full THEN socket.call ELSE fields.job]
               ELSE fields
  /\ IF reply.ok /\ fields'.seed # 0
     THEN /\ signonState' = "authenticating"
          /\ socket' = [socket EXCEPT !.in = Tail(@), !.asked = {"F004"}]
          /\ UNCHANGED heard
     ELSE /\ Failed
          /\ socket' = [socket EXCEPT !.in = Tail(@)]

HandleSignonReply(reply) ==
  /\ UNCHANGED fields
  /\ socket' = [socket EXCEPT !.in = Tail(@)]
  /\ IF reply.ok
     THEN /\ signonState' = "authenticated"
          /\ heard' = Append(heard, "authenticated")
     ELSE Failed

ExpectsResult == signonState = "authenticating"

OnSocketReadyRead ==
  /\ socket.link \in {"up", "closing"} /\ socket.in # <<>>
  /\ LET reply == Head(socket.in)
     IN  \/ reply.id = "invalid" /\ Failed
            /\ socket' = [socket EXCEPT !.in = Tail(@)] /\ UNCHANGED fields
         \/ reply.id # "invalid" /\ signonState = "exchanging"
            /\ HandleExchangeAttributesReply(reply)
         \/ reply.id # "invalid" /\ ExpectsResult /\ HandleSignonReply(reply)
         \/ reply.id # "invalid" /\ signonState # "exchanging" /\ ~ExpectsResult
            /\ socket' = [socket EXCEPT !.in = Tail(@)]
            /\ UNCHANGED <<signonState, fields, heard>>
  /\ UNCHANGED <<calls, mapperVars>>

-----------------------------------------------------------------------------
\* The sign-on server: it answers what it was asked, or closes.

Reply(id) == [id : {id}, ok : BOOLEAN, full : BOOLEAN]
               \cup [id : {"invalid"}, ok : {FALSE}, full : {FALSE}]

\* It accepts no password encrypted with another seed than its own.
ServerAnswers ==
  /\ socket.link = "up"
  /\ \E id \in socket.asked : \E reply \in Reply(id) :
       /\ reply.id = "F004" /\ reply.ok => fields.seed = socket.call
       /\ socket' = [socket EXCEPT !.in = Append(@, reply), !.asked = {},
                                   !.agreed = reply.id = "F004" /\ reply.ok]
  /\ UNCHANGED <<signonState, fields, calls, heard, mapperVars>>

ServerCloses ==
  /\ socket.link = "up"
  /\ socket' = [socket EXCEPT !.link = "closing"]
  /\ UNCHANGED <<signonState, fields, calls, heard, mapperVars>>

-----------------------------------------------------------------------------
\* The port mapper: a name out, a status and a port back. A caller asks in a slot of
\* its own, not in one of portResolved's or errorOccurred's.

\* A mutant: a piece of an earlier answer is left.
LeftInBuffer == recvBuffer

ClearedBuffer == 0

\* resolve, and resolveSync around it.
Resolve(sync) ==
  /\ wanted < MaxCalls
  /\ wanted' = wanted + 1
  /\ mapper' = {[call |-> wanted', asked |-> 0]}
  /\ recvBuffer' = ClearedBuffer
  /\ loops' = IF sync THEN Append(loops, [call |-> wanted', port |-> 0, ended |-> FALSE]) ELSE loops
  /\ UNCHANGED <<announced, answered, signonVars>>

OnConnected(m) ==
  /\ m.asked = 0
  /\ mapper' = (mapper \ {m}) \cup {[m EXCEPT !.asked = wanted]}
  /\ UNCHANGED <<recvBuffer, wanted, loops, announced, answered, signonVars>>

\* An answer has five bytes: fewer are kept.
OnPiece(m) ==
  /\ m.asked # 0 /\ recvBuffer = 0
  /\ recvBuffer' = m.asked
  /\ UNCHANGED <<mapper, wanted, loops, announced, answered, signonVars>>

\* The first five bytes make the answer. portResolved is sent with the name of the last
\* call: every loop takes the port and ends.
OnReadyRead(m) ==
  /\ m.asked # 0
  /\ mapper' = mapper \ {m} /\ recvBuffer' = 0
  /\ LET port == IF recvBuffer = 0 THEN m.asked ELSE recvBuffer
     IN  /\ announced' = [name |-> wanted, port |-> port]
         /\ loops' = [i \in DOMAIN loops |-> [loops[i] EXCEPT !.port = port, !.ended = TRUE]]
  /\ UNCHANGED <<wanted, answered, signonVars>>

\* A refusal, which takes all of the buffer, a close before five bytes, which leaves
\* it, or no connection.
OnError(m) ==
  /\ mapper' = mapper \ {m} /\ recvBuffer' \in {0, recvBuffer}
  /\ loops' = [i \in DOMAIN loops |-> [loops[i] EXCEPT !.ended = TRUE]]
  /\ UNCHANGED <<wanted, announced, answered, signonVars>>

\* The answer may come later, to the other loops or to nobody.
Timeout(i) ==
  /\ ~loops[i].ended
  /\ loops' = [loops EXCEPT ![i].ended = TRUE]
  /\ UNCHANGED <<mapper, recvBuffer, wanted, announced, answered, signonVars>>

\* exec() returns once the loops over it have: an ended one waits for them.
Return ==
  /\ loops # <<>>
  /\ LET inner == loops[Len(loops)]
     IN  /\ inner.ended
         /\ answered' = {[call |-> inner.call, port |-> inner.port, last |-> wanted]}
  /\ loops' = SubSeq(loops, 1, Len(loops) - 1)
  /\ UNCHANGED <<mapper, recvBuffer, wanted, announced, signonVars>>

-----------------------------------------------------------------------------
HostServerInit ==
  /\ signonState = "disconnected" /\ socket = NoSocket /\ fields = [seed |-> 0, job |-> 0]
  /\ calls = 0 /\ heard = <<>>
  /\ mapper = {} /\ recvBuffer = 0 /\ wanted = 0 /\ loops = <<>> /\ answered = {}
  /\ announced = [name |-> 0, port |-> 0]

SignonClient == OnSocketConnected \/ OnSocketError \/ RemoteHostClosed \/ OnSocketReadyRead
SignonServer == ServerAnswers \/ ServerCloses

TimerFires == \E i \in DOMAIN loops : Timeout(i)

SignonNext == LongUserId \/ Signon \/ SignonClient \/ SignonServer

MapperNext ==
  \/ \E sync \in BOOLEAN : Resolve(sync)
  \/ \E m \in mapper : OnConnected(m) \/ OnPiece(m) \/ OnReadyRead(m) \/ OnError(m)
  \/ TimerFires \/ Return

HostServerNext == SignonNext \/ MapperNext

HostServerSpec == HostServerInit /\ [][HostServerNext]_hostServerVars

\* What arrives is read; a server answers or closes in the end; a timer fires, and a
\* loop that was ended returns.
HostServerFairness ==
  /\ WF_hostServerVars(SignonClient) /\ WF_hostServerVars(SignonServer)
  /\ WF_hostServerVars(TimerFires) /\ WF_hostServerVars(Return)

-----------------------------------------------------------------------------
\* A sign-on succeeds only on the word of the server that was sent this password,
\* whatever calls came before it.
SignedOnByItsServer == signonState = "authenticated" => socket.agreed

\* portResolved gives the port of the name it gives. What resolveSync returns is that
\* of its own name or 0, however late the answers to earlier calls are, as long as no
\* other call comes over it: one that did ends it with its own port (service_mapper.cpp:66).
PortsAreOfTheirNames ==
  /\ announced.port = announced.name
  /\ \A a \in answered : a.last = a.call => a.port \in {0, a.call}

\* Every call gets its own server's answer and ends: signon with success or with an
\* error, unless another call replaces it, and every resolveSync returns, those that
\* lie under others included, once no more calls come over it.
CallsAnswered ==
  /\ [](SignedOnByItsServer /\ PortsAreOfTheirNames)
  /\ \A c \in 1 .. MaxCalls : (calls = c) ~> (signonState \in Ended \/ calls # c)
  /\ (loops # <<>>) ~> (loops = <<>>)

=============================================================================
