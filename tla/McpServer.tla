------------------------------ MODULE McpServer ------------------------------
(***************************************************************************)
(* The MCP server: HTTP requests on persistent connections, each a         *)
(* JSON-RPC call or a batch of calls, carried out in the window's thread.  *)
(*                                                                         *)
(* A call that runs a script, or asks the user for a password, runs a      *)
(* nested event loop until it is done.  The loop delivers everything: more *)
(* data, new connections, closed ones, the user switching the server off   *)
(* or closing a tab.  What it calls stands on the stack above the call     *)
(* that waits, and a loop returns only when everything above it has.       *)
(***************************************************************************)
EXTENDS Naturals, Sequences, FiniteSets, SequencesExt

CONSTANTS
    Connections,  \* accepted sockets
    Sessions,     \* session ids create_session hands out
    Requests,     \* what a client may send
    MaxRequests,  \* bound: requests of all clients together
    MaxStops      \* bound: times the user switches the server off

\* A call is for a session ("run" for every tool that runs a nested loop on
\* one) or for none.
Call == [tool : {"ping", "initialize", "create"}, session : {"none"}]
          \cup [tool : {"run", "close"}, session : Sessions]

\* What a request is for the server: malformed for the parser, refused by its
\* headers, answered without a call (DELETE, GET, no JSON-RPC), or calls: one,
\* or a batch, which leaves initialize out.  close says that the client asks to
\* close the connection after it.  The protocol session id initialize makes is
\* only written into response headers and is left out.
Request == [kind : {"malformed", "refused", "plain", "single", "batch"},
            calls : Seq(Call), close : BOOLEAN]

ASSUME RequestsAssumption ==
    /\ Requests \subseteq Request
    /\ \A r \in Requests :
         CASE r.kind = "single" -> Len(r.calls) = 1
           [] r.kind = "batch"  -> r.calls # <<>>
           [] OTHER             -> r.calls = <<>>
    /\ MaxRequests \in Nat /\ MaxStops \in Nat

VARIABLES
    listening,   \* the server is on
    stops,       \* times it was switched off
    conn,        \* per socket: "none", "open", "closing" (answers still to go
                 \* out), "closed", "gone" (the object deleted)
    sent,        \* what has arrived on it
    taken,       \* requests the parser has been reset after
    signalled,   \* a readyRead is posted
    busy,        \* _mcp_busy
    idle,        \* its idle timer runs
    stack,       \* the handlers on the call stack, the latest last
    registry,    \* sessions in the registry
    busySessions,\* m_busySessions
    created,     \* history: session ids handed out
    ran,         \* history: calls carried out, <<request, call>>, per socket
    answered     \* history: requests answered, per socket

socketVars == <<conn, sent, taken, signalled, busy, idle>>
sessionVars == <<registry, busySessions, created>>
vars == <<listening, stops, socketVars, stack, sessionVars, ran, answered>>

\* A handler serves the socket `on` and is in a phase: "first" and "drain" look
\* for a request, "call" carries out call number `member` of it, "wait" is in its
\* nested loop on `session`, "return" comes back from the call.

Top == Last(stack)
Below == Front(stack)
Go(phase) == stack' = Below \o <<[Top EXCEPT !.phase = phase]>>

\* The thread is in an event loop.
InLoop == stack # <<>> => Top.phase = "wait"
Running(phase) == stack # <<>> /\ Top.phase = phase

Current(c) == sent[c][taken[c] + 1]
HasRequest(c) == taken[c] < Len(sent[c])

-----------------------------------------------------------------------------
(* Events.                                                                 *)

NewConnection(c) ==
    /\ InLoop /\ listening /\ conn[c] = "none"
    /\ conn' = [conn EXCEPT ![c] = "open"]
    /\ idle' = [idle EXCEPT ![c] = TRUE]
    /\ UNCHANGED <<listening, stops, sent, taken, signalled, busy, stack,
                   sessionVars, ran, answered>>

Total == FoldFunction(LAMBDA q, n : Len(q) + n, 0, sent)

Arrives(c, request) ==
    /\ InLoop /\ conn[c] \in {"open", "closing"} /\ Total < MaxRequests
    /\ sent' = [sent EXCEPT ![c] = Append(@, request)]
    /\ signalled' = [signalled EXCEPT ![c] = TRUE]
    /\ UNCHANGED <<listening, stops, conn, taken, busy, idle, stack,
                   sessionVars, ran, answered>>

\* The client goes, or what was left to write is written.
Disconnects(c) ==
    /\ InLoop /\ conn[c] \in {"open", "closing"}
    /\ conn' = [conn EXCEPT ![c] = "closed"]
    /\ UNCHANGED <<listening, stops, sent, taken, signalled, busy, idle,
                   stack, sessionVars, ran, answered>>

\* deleteLater: the timer and what was posted for the socket go with it.  Qt
\* keeps it until the loop that closed it runs again; here any loop deletes it.
Deleted(c) ==
    /\ InLoop /\ conn[c] = "closed"
    /\ conn' = [conn EXCEPT ![c] = "gone"]
    /\ idle' = [idle EXCEPT ![c] = FALSE]
    /\ signalled' = [signalled EXCEPT ![c] = FALSE]
    /\ UNCHANGED <<listening, stops, sent, taken, busy, stack,
                   sessionVars, ran, answered>>

IdleTimeout(c) ==
    /\ InLoop /\ idle[c] /\ ~busy[c] /\ conn[c] = "open"
    /\ conn' = [conn EXCEPT ![c] = "closing"]
    /\ idle' = [idle EXCEPT ![c] = FALSE]
    /\ UNCHANGED <<listening, stops, sent, taken, signalled, busy, stack,
                   sessionVars, ran, answered>>

Enter(c) ==
    /\ busy' = [busy EXCEPT ![c] = TRUE]
    /\ idle' = [idle EXCEPT ![c] = FALSE]
    /\ stack' = Append(stack, [on |-> c, phase |-> "first", member |-> 1,
                               session |-> "none"])
    /\ UNCHANGED conn

\* Mutant: no guard against the socket's own nested loop.
OnClientDataReenters(c) ==
    /\ InLoop /\ signalled[c]
    /\ signalled' = [signalled EXCEPT ![c] = FALSE]
    /\ IF listening THEN Enter(c)
       ELSE conn' = [conn EXCEPT ![c] = "closed"] /\ UNCHANGED <<busy, idle, stack>>
    /\ UNCHANGED <<listening, stops, sent, taken, sessionVars, ran, answered>>

\* onClientData.  While the socket is busy the data waits for the outer call.
OnClientData(c) ==
    /\ InLoop /\ signalled[c]
    /\ signalled' = [signalled EXCEPT ![c] = FALSE]
    /\ CASE ~listening -> conn' = [conn EXCEPT ![c] = "closed"] /\ UNCHANGED <<busy, idle, stack>>
         [] listening /\ busy[c]  -> UNCHANGED <<conn, busy, idle, stack>>
         [] listening /\ ~busy[c] -> Enter(c)
    /\ UNCHANGED <<listening, stops, sent, taken, sessionVars, ran, answered>>

\* The innermost nested loop ends: the script finished or failed, ran into its
\* time limit, the user answered the prompt.
LoopEnds ==
    /\ Running("wait")
    /\ busySessions' = busySessions \ {Top.session}
    /\ Go("return")
    /\ UNCHANGED <<listening, stops, socketVars, registry, created, ran, answered>>

Start ==
    /\ InLoop /\ ~listening
    /\ listening' = TRUE
    /\ UNCHANGED <<stops, socketVars, stack, sessionVars, ran, answered>>

Stop ==
    /\ InLoop /\ listening
    /\ stops < MaxStops
    /\ listening' = FALSE
    /\ stops' = stops + 1
    /\ conn' = [c \in Connections |-> IF conn[c] \in {"open", "closing"} THEN "closed" ELSE conn[c]]
    /\ UNCHANGED <<sent, taken, signalled, busy, idle, stack, sessionVars, ran, answered>>

\* The user closes a session's tab, also under a call that runs on it.
UserClosesTab(s) ==
    /\ InLoop /\ s \in registry
    /\ registry' = registry \ {s}
    /\ UNCHANGED <<listening, stops, socketVars, stack, busySessions, created,
                   ran, answered>>

-----------------------------------------------------------------------------
(* The handler on top of the stack, between two nested loops.              *)

\* BusyGuard's destructor.
Returns ==
    LET c == Top.on IN
    /\ stack' = Below
    /\ busy' = [busy EXCEPT ![c] = FALSE]
    /\ idle' = [idle EXCEPT ![c] = @ \/ conn[c] = "open"]

\* Mutant: the outer call does not look for requests that came meanwhile.
MoreToReadNever(c) == Top.phase = "first" /\ HasRequest(c)

\* The first feed of a call looks at no state; the drain loop does.
MoreToRead(c) ==
    /\ Top.phase = "drain" => conn[c] = "open"
    /\ HasRequest(c)

\* The request is done with: the parser is reset for the next one.
Done(c) ==
    /\ taken' = [taken EXCEPT ![c] = @ + 1]
    /\ stack' = Below \o <<[Top EXCEPT !.phase = "drain", !.member = 1, !.session = "none"]>>

Answer(c, close) ==
    /\ answered' = [answered EXCEPT ![c] = IF conn[c] = "open" THEN Append(@, taken[c] + 1) ELSE @]
    /\ conn' = [conn EXCEPT ![c] = IF close /\ @ = "open" THEN "closing" ELSE @]

Aborted(c) == [conn EXCEPT ![c] = IF @ = "gone" THEN @ ELSE "closed"]

NoMore ==
    /\ stack # <<>> /\ Top.phase \in {"first", "drain"} /\ ~MoreToRead(Top.on)
    /\ Returns
    /\ UNCHANGED <<listening, stops, conn, sent, taken, signalled, sessionVars,
                   ran, answered>>

\* The parser stays in its error state: nothing behind the request is read.
Malformed ==
    LET c == Top.on IN
    /\ stack # <<>> /\ Top.phase \in {"first", "drain"} /\ MoreToRead(c)
    /\ Current(c).kind = "malformed"
    /\ conn' = [conn EXCEPT ![c] = IF @ = "open" THEN "closing" ELSE @]
    /\ stack' = Below
    /\ busy' = [busy EXCEPT ![c] = FALSE]
    /\ answered' = [answered EXCEPT ![c] = IF conn[c] = "open" THEN Append(@, taken[c] + 1) ELSE @]
    /\ UNCHANGED <<listening, stops, sent, taken, signalled, idle, sessionVars, ran>>

MayHandle(c) == listening /\ conn[c] = "open"

\* handleHttpRequest
TakeRequest ==
    LET c == Top.on
        r == Current(c)
    IN
    /\ stack # <<>> /\ Top.phase \in {"first", "drain"} /\ MoreToRead(c)
    /\ r.kind # "malformed"
    /\ CASE ~MayHandle(c) ->
              conn' = Aborted(c) /\ Done(c) /\ UNCHANGED answered
         [] MayHandle(c) /\ r.kind = "refused" ->
              Answer(c, TRUE) /\ Done(c)
         [] MayHandle(c) /\ r.kind = "plain" ->
              Answer(c, r.close) /\ Done(c)
         [] OTHER -> Go("call") /\ UNCHANGED <<conn, taken, answered>>
    /\ UNCHANGED <<listening, stops, sent, signalled, busy, idle, sessionVars, ran>>

\* Mutant: a session in use takes another call.
MayUseAlways(call) == call.session \in registry

\* callTool: a session with a call in its nested loop takes no other; one that
\* is not registered takes none.
MayUse(call) == call.session \in registry \ busySessions

CarryOut ==
    LET c == Top.on
        call == Current(c).calls[Top.member]
        skip == Current(c).kind = "batch" /\ call.tool = "initialize"
    IN
    /\ Running("call")
    /\ ran' = IF skip THEN ran
              ELSE [ran EXCEPT ![c] = Append(@, <<taken[c] + 1, Top.member>>)]
    /\ CASE call.tool \in {"ping", "initialize"} ->
              Go("return") /\ UNCHANGED sessionVars
         [] call.tool = "create" ->
              /\ \/ \E s \in Sessions \ created :
                      registry' = registry \cup {s} /\ created' = created \cup {s}
                 \/ UNCHANGED <<registry, created>>   \* refused: its arguments
              /\ Go("return") /\ UNCHANGED busySessions
         [] call.tool = "close" ->
              /\ registry' = IF MayUse(call) THEN registry \ {call.session} ELSE registry
              /\ Go("return") /\ UNCHANGED <<busySessions, created>>
         [] call.tool = "run" /\ ~MayUse(call) ->
              Go("return") /\ UNCHANGED sessionVars
         [] call.tool = "run" /\ MayUse(call) ->
              /\ busySessions' = busySessions \cup {call.session}
              /\ stack' = Below \o <<[Top EXCEPT !.phase = "wait", !.session = call.session]>>
              /\ UNCHANGED <<registry, created>>
    /\ UNCHANGED <<listening, stops, socketVars, answered>>

\* Back in handleHttpRequest.  A batch checks the connection before its next
\* call; the socket may be gone.
CallReturns ==
    LET c == Top.on
        r == Current(c)
        lost == conn[c] = "gone"
        cut == r.kind = "batch" /\ ~MayHandle(c)
        more == r.kind = "batch" /\ Top.member < Len(r.calls)
    IN
    /\ Running("return")
    /\ CASE lost -> Returns /\ UNCHANGED <<conn, taken, answered>>
         [] ~lost /\ cut -> conn' = Aborted(c) /\ Done(c) /\ UNCHANGED <<answered, busy, idle>>
         [] ~lost /\ ~cut /\ more ->
              /\ stack' = Below \o <<[Top EXCEPT !.phase = "call", !.member = @ + 1,
                                                 !.session = "none"]>>
              /\ UNCHANGED <<conn, taken, answered, busy, idle>>
         [] ~lost /\ ~cut /\ ~more ->
              Answer(c, r.close) /\ Done(c) /\ UNCHANGED <<busy, idle>>
    /\ UNCHANGED <<listening, stops, sent, signalled, sessionVars, ran>>

-----------------------------------------------------------------------------
Handler == NoMore \/ Malformed \/ TakeRequest \/ CarryOut \/ CallReturns

Next ==
    \/ \E c \in Connections :
         \/ NewConnection(c) \/ Disconnects(c) \/ Deleted(c) \/ IdleTimeout(c)
         \/ OnClientData(c)
         \/ \E r \in Requests : Arrives(c, r)
    \/ LoopEnds \/ Start \/ Stop
    \/ \E s \in Sessions : UserClosesTab(s)
    \/ Handler

Init ==
    /\ listening = FALSE /\ stops = 0
    /\ conn = [c \in Connections |-> "none"]
    /\ sent = [c \in Connections |-> <<>>]
    /\ taken = [c \in Connections |-> 0]
    /\ signalled = [c \in Connections |-> FALSE]
    /\ busy = [c \in Connections |-> FALSE]
    /\ idle = [c \in Connections |-> FALSE]
    /\ stack = <<>>
    /\ registry = {} /\ busySessions = {} /\ created = {}
    /\ ran = [c \in Connections |-> <<>>]
    /\ answered = [c \in Connections |-> <<>>]

Spec == Init /\ [][Next]_vars

\* The event loop delivers what is posted, handlers run on, and every nested
\* loop has a time limit.
FairSpec ==
    /\ Spec
    /\ WF_vars(Handler) /\ WF_vars(LoopEnds)
    /\ \A c \in Connections : WF_vars(OnClientData(c))

-----------------------------------------------------------------------------
Before(a, b) == a[1] < b[1] \/ (a[1] = b[1] /\ a[2] < b[2])

\* Each call is carried out once, in the order the client sent them, whatever
\* arrives during the nested loops of earlier ones; and none for a connection
\* that is closing or closed, or with the server off, also when that happened
\* under an earlier call of the same request (onClientData, handleHttpRequest,
\* stop).
RunsOnceInOrder ==
    [][ \A c \in Connections : ran'[c] # ran[c] =>
          /\ listening /\ conn[c] = "open"
          /\ \A i \in 1 .. Len(ran'[c]) - 1 : Before(ran'[c][i], ran'[c][i + 1]) ]_vars

\* The guards say what is under way: a session has at most one call in its
\* nested loop, exactly then it counts as busy and no tool closes it; a
\* connection has its idle timer running exactly when no request of it is in
\* flight (m_busySessions, BusyGuard, onNewConnection).
GuardsMatchCalls ==
    /\ \A i, j \in 1 .. Len(stack) :
         /\ stack[i].phase = "wait" /\ stack[j].phase = "wait"
         /\ stack[i].session = stack[j].session
         => i = j
    /\ busySessions = {stack[i].session : i \in {k \in 1 .. Len(stack) : stack[k].phase = "wait"}}
    /\ \A c \in Connections : conn[c] = "open" => (idle[c] <=> ~busy[c])

\* A request on a connection that stays open is answered, though the readyRead
\* that announced it may have been spent on a busy socket (the drain loop).
RequestsAnswered ==
    \A c \in Connections : \A i \in 1 .. MaxRequests :
      Len(sent[c]) >= i ~> (Contains(answered[c], i) \/ conn[c] # "open")
=============================================================================
