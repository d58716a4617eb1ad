----------------------------- MODULE AgentProofs -----------------------------
(***************************************************************************)
(* Proofs about the agent panel and its sign-on, for any number of         *)
(* messages, tool calls and settings changes: what reaches the screen was  *)
(* consented to, the conversation sent to the service is whole, a locked   *)
(* input has one thing under way that unlocks it, and a sign-on exchanges  *)
(* one code. And about the tools an MCP client calls: what they report is  *)
(* true of the screen, and they sign on as they were asked to.             *)
(***************************************************************************)
EXTENDS AgentPanel, AgentSignOn, McpTools, FiniteSetTheorems, SequenceTheorems,
        NaturalsInduction, WellFoundedInduction, TLAPS

-----------------------------------------------------------------------------
(* The sign-on.                                                            *)

Token == [n : Nat, renewable : BOOLEAN]
OAuth == [exists : BOOLEAN, token : Token, timer : BOOLEAN, asked : BOOLEAN]
Flow == [exists : BOOLEAN, listening : BOOLEAN, handled : BOOLEAN, completed : BOOLEAN,
         connections : Nat, replies : Nat, exchanges : Nat, outcomes : Nat]

SignOnTypes ==
  /\ storage \in Token /\ granted \in Nat /\ signInEnabled \in BOOLEAN
  /\ auth \in [Holders -> OAuth]
  /\ flow \in Flow

\* What a flow has sent and reported follows from its guards. One that could not
\* start has reported without them, and has no connections.
Counted(f) ==
  /\ f.exchanges = 0 \/ (f.exchanges = 1 /\ f.handled)
  /\ f.replies <= f.exchanges
  /\ f.completed => f.outcomes = 1
  /\ \/ f.outcomes = 0
     \/ f.outcomes = 1 /\ f.replies = 0 /\ (f.completed \/ (~f.listening /\ f.connections = 0))

UnderWay == flow.exists /\ flow.outcomes = 0

\* While a flow is under way the dialog holds no tokens to renew, so that no
\* refusal lets Sign In be pressed.
NothingElse ==
  UnderWay => /\ ~signInEnabled
              /\ \A h \in OfDialog : ~auth[h].timer /\ ~auth[h].asked

FlowOK == SignOnTypes /\ Counted(flow) /\ NothingElse

\* A flow that is not there, and one that has just begun or could not begin.
LEMMA NoFlowCounted ==
  ASSUME NEW e \in BOOLEAN, NEW l \in BOOLEAN, NEW n \in {0, 1}, l => n = 0,
         NEW f, f = [exists |-> e, listening |-> l, handled |-> FALSE, completed |-> FALSE,
                     connections |-> 0, replies |-> 0, exchanges |-> 0, outcomes |-> n]
  PROVE  f \in Flow /\ Counted(f)
  BY DEF Flow, Counted

\* Tokens are numbered and kept as tokens are.
LEMMA TokensKept ==
  ASSUME SignOnTypes, NEW h \in Holders, NEW renewable \in BOOLEAN,
         onTokensReceived(h, renewable)
  PROVE  storage' \in Token /\ granted' \in Nat /\ auth' \in [Holders -> OAuth]
         /\ \A g \in Holders : g # h => auth'[g] = auth[g]
<1>0. [n |-> granted + 1, renewable |-> renewable] \in Token /\ granted + 1 \in Nat
  BY DEF SignOnTypes, Token
<1>1. PICK t \in Token : t = [n |-> granted + 1, renewable |-> renewable]
  BY <1>0
<1>2. /\ granted' = granted + 1 /\ storage' = t
      /\ auth' = [auth EXCEPT ![h].token = t, ![h].timer = @ \/ renewable, ![h].asked = FALSE]
  BY <1>1 DEF onTokensReceived
<1>3. PICK b \in BOOLEAN : b = (auth[h].timer \/ renewable)
  OBVIOUS
<1>4. auth' = [auth EXCEPT ![h] = [auth[h] EXCEPT !.token = t, !.timer = b, !.asked = FALSE]]
  BY <1>2, <1>3
<1>5. [auth[h] EXCEPT !.token = t, !.timer = b, !.asked = FALSE] \in OAuth
  BY DEF SignOnTypes, OAuth
<1>6. PICK o \in OAuth : auth' = [auth EXCEPT ![h] = o]
  BY <1>4, <1>5
<1>7. auth' \in [Holders -> OAuth] /\ \A g \in Holders : g # h => auth'[g] = auth[g]
  BY <1>6 DEF SignOnTypes
<1> QED BY <1>0, <1>1, <1>2, <1>7

\* An outcome ends a flow that had none, with nothing in flight.
LEMMA ReportedOK ==
  ASSUME NEW f \in Flow, Counted(f), f.outcomes = 0, f.replies = 0, Reported(f)
  PROVE  flow' \in Flow /\ Counted(flow)' /\ ~UnderWay' /\ signInEnabled' \in BOOLEAN
<1>1. flow' = [f EXCEPT !.completed = TRUE, !.outcomes = 1] /\ signInEnabled' = TRUE
  <2>1. f.outcomes + 1 = 1
    OBVIOUS
  <2> QED BY <2>1 DEF Reported
<1>2. flow' \in Flow
  BY <1>1 DEF Flow
<1>3. /\ flow'.handled = f.handled /\ flow'.completed = TRUE /\ flow'.replies = 0
      /\ flow'.exchanges = f.exchanges /\ flow'.outcomes = 1
  BY <1>1 DEF Flow
<1> QED BY <1>1, <1>2, <1>3 DEF Counted, UnderWay, Flow

\* Every step of the dialog, of its boxes, of the flow and of the tokens keeps
\* FlowOK.
LEMMA FlowStep == FlowOK /\ [SignOnNext]_signOnVars => FlowOK'
<1> SUFFICES ASSUME FlowOK, [SignOnNext]_signOnVars PROVE FlowOK'
  OBVIOUS
<1> USE DEF FlowOK
<1>a. /\ "dialog" \in Holders /\ "leaving" \in Holders /\ OfDialog \subseteq Holders
      /\ "dialog" # "leaving" /\ OfDialog = {"dialog", "leaving"}
  BY DEF Holders, OfDialog
<1>b. Absent \in OAuth /\ ~Absent.timer /\ ~Absent.asked /\ NoToken \in Token
  BY DEF Absent, NoToken, OAuth, Token
<1>c. /\ NoFlow \in Flow /\ Counted(NoFlow) /\ ~NoFlow.exists
  <2>1. NoFlow \in Flow /\ Counted(NoFlow)
    BY NoFlowCounted DEF NoFlow
  <2> QED BY <2>1 DEF NoFlow
<1>1. ASSUME UNCHANGED <<storage, auth, flow, signInEnabled, granted>> PROVE FlowOK'
  BY <1>1 DEF SignOnTypes, Counted, NothingElse, UnderWay
<1>2. CASE onOAuthSignInClicked
  <2> DEFINE begun == [Absent EXCEPT !.exists = TRUE]
             new == [auth EXCEPT !["dialog"] = begun, !["leaving"] = Absent]
  <2>1. /\ begun \in OAuth /\ ~begun.timer /\ ~begun.asked
        /\ new \in [Holders -> OAuth] /\ \A h \in OfDialog : ~new[h].timer /\ ~new[h].asked
    <3>1. begun \in OAuth /\ ~begun.timer /\ ~begun.asked
      BY <1>b DEF Absent, NoToken, OAuth, Token
    <3> HIDE DEF begun
    <3> QED BY <3>1, <1>a, <1>b DEF SignOnTypes
  <2>2. CASE UNCHANGED <<auth, flow, signInEnabled>>
    BY <1>1, <1>2, <2>2 DEF onOAuthSignInClicked
  <2>3. CASE /\ auth' = [new EXCEPT !["leaving"] = auth["dialog"]]
             /\ flow' = [NoFlow EXCEPT !.exists = TRUE, !.outcomes = 1]
             /\ UNCHANGED signInEnabled
    <3>1. auth' \in [Holders -> OAuth]
      <4> HIDE DEF new
      <4> QED BY <2>1, <2>3, <1>a DEF SignOnTypes
    <3>2. flow' = [exists |-> TRUE, listening |-> FALSE, handled |-> FALSE, completed |-> FALSE,
                   connections |-> 0, replies |-> 0, exchanges |-> 0, outcomes |-> 1]
      BY <2>3 DEF NoFlow
    <3>3. flow' \in Flow /\ Counted(flow')
      BY <3>2, NoFlowCounted
    <3>4. ~UnderWay' /\ UNCHANGED <<storage, granted, signInEnabled>>
      BY <1>2, <2>3, <3>2 DEF onOAuthSignInClicked, UnderWay
    <3> HIDE DEF new
    <3> QED BY <3>1, <3>3, <3>4 DEF SignOnTypes, NothingElse
  <2>4. CASE /\ auth' = new
             /\ flow' = [NoFlow EXCEPT !.exists = TRUE, !.listening = TRUE]
             /\ signInEnabled' = FALSE
    <3>1. flow' = [exists |-> TRUE, listening |-> TRUE, handled |-> FALSE, completed |-> FALSE,
                   connections |-> 0, replies |-> 0, exchanges |-> 0, outcomes |-> 0]
      BY <2>4 DEF NoFlow
    <3>2. flow' \in Flow /\ Counted(flow')
      BY <3>1, NoFlowCounted
    <3> HIDE DEF new
    <3> QED BY <1>2, <2>1, <2>4, <3>2
            DEF onOAuthSignInClicked, SignOnTypes, NothingElse, UnderWay
  <2> QED BY <1>2, <2>2, <2>3, <2>4 DEF onOAuthSignInClicked
<1>3. CASE closeBox
  <2>1. /\ UNCHANGED <<storage, signInEnabled, granted>>
        /\ (flow' = flow /\ auth' = auth) \/ flow' = NoFlow
        /\ auth' = auth \/ auth' = [auth EXCEPT !["leaving"] = Absent]
    BY <1>3 DEF closeBox
  <2>2. auth' \in [Holders -> OAuth]
    BY <2>1, <1>b DEF SignOnTypes
  <2>3. CASE flow' = NoFlow
    BY <2>1, <2>2, <2>3, <1>c DEF SignOnTypes, Counted, NothingElse, UnderWay
  <2> QED BY <2>1, <2>3, <1>1
<1>4. CASE onNewConnection
  <2>1. /\ flow' = [flow EXCEPT !.connections = @ + 1] /\ flow.listening
        /\ UNCHANGED <<storage, auth, signInEnabled, granted>>
    BY <1>4 DEF onNewConnection
  <2> QED BY <2>1 DEF SignOnTypes, Flow, Counted, NothingElse, UnderWay
<1>5. ASSUME NEW r \in Callbacks, CallbackRead(r) PROVE FlowOK'
  <2>1. /\ flow.connections > 0 /\ UNCHANGED <<storage, auth, granted>>
    BY <1>5 DEF CallbackRead
  <2>2. PICK n \in Nat : n = flow.connections - 1
    BY <2>1 DEF SignOnTypes, Flow
  <2>3. CASE flow' = [flow EXCEPT !.connections = @ - 1] /\ UNCHANGED signInEnabled
    <3>1. flow' = [flow EXCEPT !.connections = n]
      BY <2>2, <2>3
    <3> QED BY <2>1, <2>3, <3>1 DEF SignOnTypes, Flow, Counted, NothingElse, UnderWay
  <2>4. CASE ~flow.handled /\ ~flow.completed
    <3>1. PICK f : f = [flow EXCEPT !.connections = n, !.listening = FALSE, !.handled = TRUE]
      OBVIOUS
    <3>0. flow.outcomes = 0 /\ flow.exchanges = 0 /\ flow.replies = 0
      BY <2>1, <2>4 DEF SignOnTypes, Flow, Counted
    <3>2. /\ f \in Flow /\ f.exists = flow.exists /\ f.handled
          /\ f.outcomes = 0 /\ f.exchanges = 0 /\ f.replies = 0 /\ ~f.completed
      BY <2>4, <3>0, <3>1 DEF SignOnTypes, Flow
    <3>3. Counted(f)
      BY <3>2 DEF Counted
    <3>4. f = [[flow EXCEPT !.connections = @ - 1] EXCEPT !.listening = FALSE, !.handled = TRUE]
      BY <2>2, <3>1 DEF SignOnTypes, Flow
    <3>5. CASE Reported(f)
      <4>1. flow' \in Flow /\ Counted(flow)' /\ ~UnderWay' /\ signInEnabled' \in BOOLEAN
        BY <3>2, <3>3, <3>5, ReportedOK
      <4> QED BY <2>1, <4>1 DEF SignOnTypes, NothingElse
    <3>6. CASE flow' = [f EXCEPT !.replies = @ + 1, !.exchanges = @ + 1] /\ UNCHANGED signInEnabled
      <4>1. flow' = [f EXCEPT !.replies = 1, !.exchanges = 1]
        BY <3>2, <3>6
      <4>2. flow' \in Flow /\ flow'.exists = flow.exists
        BY <3>2, <4>1 DEF Flow
      <4>3. /\ flow'.handled /\ flow'.completed = f.completed /\ flow'.outcomes = 0
            /\ flow'.replies = 1 /\ flow'.exchanges = 1
        BY <3>2, <4>1 DEF Flow
      <4>4. Counted(flow)' /\ (UnderWay' <=> UnderWay)
        BY <3>0, <3>2, <4>2, <4>3 DEF Counted, UnderWay
      <4> QED BY <2>1, <3>6, <4>2, <4>4 DEF SignOnTypes, NothingElse
    <3> QED BY <1>5, <2>3, <2>4, <3>4, <3>5, <3>6 DEF CallbackRead
  <2> QED BY <1>5, <2>3, <2>4 DEF CallbackRead
<1>6. CASE exchangeReplied
  <2>1. flow.replies > 0
    BY <1>6 DEF exchangeReplied
  <2>2. flow.outcomes = 0 /\ flow.replies = 1 /\ ~flow.completed
    BY <2>1 DEF SignOnTypes, Flow, Counted
  <2>3. PICK f : f = [flow EXCEPT !.replies = 0]
    OBVIOUS
  <2>4. f = [flow EXCEPT !.replies = @ - 1]
    BY <2>2, <2>3
  <2>5. f \in Flow /\ Counted(f) /\ f.outcomes = 0 /\ f.replies = 0
    BY <2>2, <2>3 DEF SignOnTypes, Flow, Counted
  <2>6. /\ Reported(f)
        /\ \/ UNCHANGED <<storage, auth, granted>>
           \/ \E renewable \in BOOLEAN : onTokensReceived(FlowOwner, renewable)
    BY <1>6, <2>2, <2>4 DEF exchangeReplied
  <2>7. flow' \in Flow /\ Counted(flow)' /\ ~UnderWay' /\ signInEnabled' \in BOOLEAN
    BY <2>5, <2>6, ReportedOK
  <2>8. FlowOwner \in Holders
    BY <1>a DEF FlowOwner
  <2>9. storage' \in Token /\ granted' \in Nat /\ auth' \in [Holders -> OAuth]
    BY <2>6, <2>8, TokensKept DEF SignOnTypes
  <2> QED BY <2>7, <2>9 DEF SignOnTypes, NothingElse
<1>7. CASE onOAuthSignOutClicked
  <2> DEFINE left == [auth["dialog"] EXCEPT !.token = NoToken, !.timer = FALSE]
  <2>1. /\ UNCHANGED <<flow, signInEnabled, granted>> /\ storage' = NoToken
        /\ auth' = [auth EXCEPT !["dialog"] = Absent, !["leaving"] = left]
    BY <1>7 DEF onOAuthSignOutClicked
  <2>2. left \in OAuth /\ ~left.timer /\ (auth["dialog"].asked <=> left.asked)
    BY <1>a, <1>b DEF SignOnTypes, OAuth
  <2> HIDE DEF left
  <2>3. /\ auth' \in [Holders -> OAuth] /\ auth'["dialog"] = Absent /\ auth'["leaving"] = left
    BY <2>1, <2>2, <1>a, <1>b DEF SignOnTypes
  <2>4. UnderWay => \A h \in OfDialog : ~auth'[h].timer /\ ~auth'[h].asked
    BY <2>2, <2>3, <1>a, <1>b DEF NothingElse
  <2> QED BY <2>1, <2>3, <2>4, <1>b DEF SignOnTypes, Counted, NothingElse, UnderWay
<1>8. CASE reopenDialog
  <2>1. /\ UNCHANGED <<storage, granted>> /\ flow' = NoFlow /\ signInEnabled' = TRUE
        /\ auth' = [auth EXCEPT !["dialog"] = Absent]
    BY <1>8 DEF reopenDialog
  <2> QED BY <2>1, <1>a, <1>b, <1>c DEF SignOnTypes, Counted, NothingElse, UnderWay
<1>9. CASE refreshAgentProviders
  <2>1. /\ UNCHANGED <<storage, flow, signInEnabled, granted>>
        /\ auth' = [h \in Holders |-> IF h \in OfDialog THEN auth[h] ELSE Loaded(storage)]
    BY <1>9 DEF refreshAgentProviders
  <2>2. Loaded(storage) \in OAuth
    BY DEF SignOnTypes, Loaded, OAuth, Token
  <2>3. auth' \in [Holders -> OAuth] /\ \A h \in OfDialog : auth'[h] = auth[h]
    BY <2>1, <2>2, <1>a DEF SignOnTypes
  <2> QED BY <2>1, <2>3 DEF SignOnTypes, Counted, NothingElse, UnderWay
<1>10. ASSUME NEW h \in Holders, refreshAccessToken(h) PROVE FlowOK'
  <2>1. /\ auth[h].timer /\ UNCHANGED <<storage, flow, signInEnabled, granted>>
        /\ auth' = [auth EXCEPT ![h].timer = FALSE, ![h].asked = TRUE]
    BY <1>10 DEF refreshAccessToken
  <2>2. [auth[h] EXCEPT !.timer = FALSE, !.asked = TRUE] \in OAuth
    BY DEF SignOnTypes, OAuth
  <2>3. auth' \in [Holders -> OAuth] /\ \A g \in Holders : g # h => auth'[g] = auth[g]
    BY <2>1, <2>2 DEF SignOnTypes
  <2> QED BY <2>1, <2>3, <1>a DEF SignOnTypes, Counted, NothingElse, UnderWay
<1>11. ASSUME NEW h \in Holders, refreshReplied(h) PROVE FlowOK'
  <2>1. auth[h].asked /\ flow' = flow
    BY <1>11 DEF refreshReplied
  <2>2. UnderWay => h \notin OfDialog
    BY <2>1 DEF NothingElse
  <2>3. CASE /\ auth' = [auth EXCEPT ![h].asked = FALSE]
             /\ signInEnabled' = (signInEnabled \/ h \in OfDialog)
             /\ UNCHANGED <<storage, granted>>
    <3>1. [auth[h] EXCEPT !.asked = FALSE] \in OAuth
      BY DEF SignOnTypes, OAuth
    <3>2. auth' \in [Holders -> OAuth] /\ \A g \in Holders : g # h => auth'[g] = auth[g]
      BY <2>3, <3>1 DEF SignOnTypes
    <3>3. signInEnabled' \in BOOLEAN /\ (h \notin OfDialog => (signInEnabled' <=> signInEnabled))
      BY <2>3 DEF SignOnTypes
    <3> QED BY <2>1, <2>2, <2>3, <3>2, <3>3, <1>a
            DEF SignOnTypes, Counted, NothingElse, UnderWay
  <2>4. ASSUME NEW renewable \in {TRUE, auth[h].token.renewable},
               onTokensReceived(h, renewable), UNCHANGED signInEnabled
        PROVE  FlowOK'
    <3>1. renewable \in BOOLEAN
      BY DEF SignOnTypes, OAuth, Token
    <3>2. /\ storage' \in Token /\ granted' \in Nat /\ auth' \in [Holders -> OAuth]
          /\ \A g \in Holders : g # h => auth'[g] = auth[g]
      BY <2>4, <3>1, TokensKept
    <3> QED BY <2>1, <2>2, <2>4, <3>2, <1>a DEF SignOnTypes, Counted, NothingElse, UnderWay
  <2> QED BY <1>11, <2>3, <2>4 DEF refreshReplied
<1>12. CASE UNCHANGED signOnVars
  BY <1>1, <1>12 DEF signOnVars
<1> QED BY <1>2, <1>3, <1>4, <1>5, <1>6, <1>7, <1>8, <1>9, <1>10, <1>11, <1>12 DEF SignOnNext

\* On however many connections callbacks arrive and however many boxes are open,
\* a flow exchanges one code at most and reports one outcome, and Sign In cannot
\* be pressed over it (oauth_flow.cpp:105-205, settings_dialog.cpp:952-973).
THEOREM OneCodeExchanged == SignOnSpec => []OneExchangeAtATime
<1>1. SignOnInit => FlowOK
  <2> SUFFICES ASSUME SignOnInit PROVE FlowOK
    OBVIOUS
  <2>1. PICK t \in {NoToken} \union [n : {1}, renewable : BOOLEAN] :
          /\ storage = t
          /\ auth = [h \in Holders |-> IF h \in OfDialog THEN Absent ELSE Loaded(t)]
    BY DEF SignOnInit
  <2>2. t \in Token /\ Absent \in OAuth
    <3>1. NoToken \in Token /\ [n : {1}, renewable : BOOLEAN] \subseteq Token
      BY DEF Token, NoToken
    <3> QED BY <3>1 DEF Absent, OAuth
  <2>3. Loaded(t) \in OAuth
    BY <2>2 DEF Loaded, OAuth, Token
  <2>4. flow = NoFlow /\ signInEnabled = TRUE /\ granted = 1
    BY DEF SignOnInit
  <2>5. flow \in Flow /\ Counted(flow) /\ ~flow.exists
    <3>1. NoFlow \in Flow /\ Counted(NoFlow)
      BY NoFlowCounted DEF NoFlow
    <3> QED BY <2>4, <3>1 DEF NoFlow
  <2> QED BY <2>1, <2>2, <2>3, <2>4, <2>5 DEF FlowOK, SignOnTypes, NothingElse, UnderWay
<1>2. FlowOK => OneExchangeAtATime
  <2>1. FlowOK => flow.replies \in Nat /\ flow.exchanges \in Nat /\ flow.outcomes \in Nat
    BY DEF FlowOK, SignOnTypes, Flow
  <2> QED BY <2>1 DEF FlowOK, Counted, NothingElse, UnderWay, OneExchangeAtATime
<1> QED BY <1>1, <1>2, FlowStep, PTL DEF SignOnSpec

-----------------------------------------------------------------------------
(* The panel: the invariant.                                               *)

Message == [is : {"user", "text", "use", "result"}, call : Nat, ok : BOOLEAN]
ToolCall == [conversation : Nat, acts : BOOLEAN]
Provider == [brand : {"anthropic", "openai"}, history : Seq(Message), held : Nat, asked : Nat]
Bar == [shown : BOOLEAN, wired : {"none", "script", "file"}, for : Nat]

PanelTypes ==
  /\ inputEnabled \in BOOLEAN /\ generating \in BOOLEAN /\ replaced \in BOOLEAN
  /\ calls \in Seq(ToolCall)
  /\ conversation \in Nat \ {0}
  /\ provider \in Provider
  /\ bar \in Bar

\* A call that is none, or one of the conversation shown.
Own(c, cs) == c # NoCall => c \in DOMAIN cs /\ cs[c].conversation = conversation

\* A message of this conversation; one that reports the success of an acting
\* call reports what was done.
MessageOK(m, cs, done) ==
  /\ Own(m.call, cs)
  /\ m.is = "result" =>
       m.call # NoCall /\ (m.ok /\ cs[m.call].acts => m.call \in done)

HistoryOK(h, cs, done) == \A i \in DOMAIN h : MessageOK(h[i], cs, done)

\* Each call is followed by its result, each result preceded by its call.
Paired(h) ==
  \A i \in DOMAIN h :
    /\ h[i].is = "use" =>
         i + 1 \in DOMAIN h /\ h[i + 1].is = "result" /\ h[i + 1].call = h[i].call
    /\ h[i].is = "result" =>
         i - 1 \in DOMAIN h /\ h[i - 1].is = "use" /\ h[i - 1].call = h[i].call

\* Nothing of a cleared conversation is left.
AllOwn ==
  /\ Own(pendingCall, calls) /\ Own(running, calls) /\ Own(generation, calls)
  /\ Own(provider.held, calls)
  /\ HistoryOK(provider.history, calls, acted)
  /\ provider.asked \in {NoCall, conversation}

\* At most one of a request, a question to the user, a script and a generation
\* is under way, and none while the input is open. The buttons offered are
\* those of the pending call, and they are cut while its script runs.
OneAtATime ==
  /\ generating <=> generation # NoCall
  /\ provider.asked # NoCall =>
       pendingCall = NoCall /\ running = NoCall /\ generation = NoCall
  /\ generation # NoCall => pendingCall = NoCall /\ running = NoCall
  /\ running # NoCall => pendingCall = running /\ bar.wired = "none"
  /\ inputEnabled => provider.asked = NoCall /\ pendingCall = NoCall /\ generation = NoCall
  /\ pendingCall # NoCall /\ running = NoCall => bar.for = pendingCall

Consented ==
  /\ acted \subseteq consented
  /\ running # NoCall => running \in acted
  /\ generation # NoCall => ~calls[generation].acts

\* In a turn under its first provider the assistant message held back is the
\* one whose result is awaited.
HeldForResult ==
  replaced \/
    /\ Paired(provider.history)
    /\ provider.asked # NoCall \/ inputEnabled => provider.held = NoCall
    /\ pendingCall # NoCall => provider.held = pendingCall
    /\ generation # NoCall => provider.held = generation

PanelInv == PanelTypes /\ AllOwn /\ OneAtATime /\ Consented /\ HeldForResult

-----------------------------------------------------------------------------
(* Histories.                                                              *)

\* A message that is no call and no result may follow a paired history.
LEMMA PairedAppend ==
  ASSUME NEW h \in Seq(Message), Paired(h), NEW m \in Message, m.is \in {"user", "text"}
  PROVE  Paired(Append(h, m))
<1> DEFINE g == Append(h, m)
<1>1. /\ Len(g) = Len(h) + 1 /\ DOMAIN g = 1 .. Len(g) /\ DOMAIN h = 1 .. Len(h)
      /\ \A i \in DOMAIN h : g[i] = h[i]
      /\ g[Len(h) + 1] = m
      /\ Len(h) \in Nat
  OBVIOUS
<1> HIDE DEF g
<1>2. PICK n \in Nat : n = Len(h)
  BY <1>1
<1>3. SUFFICES ASSUME NEW i \in 1 .. n + 1
      PROVE  /\ g[i].is = "use" =>
                  i + 1 \in 1 .. n + 1 /\ g[i + 1].is = "result" /\ g[i + 1].call = g[i].call
             /\ g[i].is = "result" =>
                  i - 1 \in 1 .. n + 1 /\ g[i - 1].is = "use" /\ g[i - 1].call = g[i].call
  BY <1>1, <1>2 DEF Paired, g
<1>4. CASE i = n + 1
  BY <1>1, <1>2, <1>4
<1>5. CASE i \in 1 .. n
  <2>1. g[i] = h[i] /\ \A j \in 1 .. n : g[j] = h[j]
    BY <1>1, <1>2, <1>5
  <2>2. /\ h[i].is = "use" =>
              i + 1 \in 1 .. n /\ h[i + 1].is = "result" /\ h[i + 1].call = h[i].call
        /\ h[i].is = "result" =>
              i - 1 \in 1 .. n /\ h[i - 1].is = "use" /\ h[i - 1].call = h[i].call
    BY <1>1, <1>2, <1>5 DEF Paired
  <2>3. \A j \in 1 .. n : j \in 1 .. n + 1 /\ j \in 1 .. n + 2
    OBVIOUS
  <2> QED BY <2>1, <2>2, <2>3
<1> QED BY <1>3, <1>4, <1>5

\* A call with its result may follow a paired history.
LEMMA PairedTurn ==
  ASSUME NEW h \in Seq(Message), Paired(h), NEW c \in Nat, NEW ok \in BOOLEAN
  PROVE  Paired(Append(h, Use(c)) \o <<Result(c, ok)>>)
<1> DEFINE g == Append(h, Use(c)) \o <<Result(c, ok)>>
<1>1. Use(c) \in Message /\ Result(c, ok) \in Message
  BY DEF Use, Result, Message
<1>2. /\ Len(g) = Len(h) + 2 /\ DOMAIN g = 1 .. Len(g) /\ DOMAIN h = 1 .. Len(h)
      /\ \A i \in DOMAIN h : g[i] = h[i]
      /\ g[Len(h) + 1] = Use(c)
      /\ g[Len(h) + 2] = Result(c, ok)
      /\ Len(h) \in Nat
  BY <1>1
<1> HIDE DEF g
<1>3. PICK n \in Nat : n = Len(h)
  BY <1>2
<1>4. SUFFICES ASSUME NEW i \in 1 .. n + 2
      PROVE  /\ g[i].is = "use" =>
                  i + 1 \in 1 .. n + 2 /\ g[i + 1].is = "result" /\ g[i + 1].call = g[i].call
             /\ g[i].is = "result" =>
                  i - 1 \in 1 .. n + 2 /\ g[i - 1].is = "use" /\ g[i - 1].call = g[i].call
  BY <1>2, <1>3 DEF Paired, g
<1>5. CASE i = n + 2
  BY <1>2, <1>3, <1>5 DEF Use, Result
<1>6. CASE i = n + 1
  <2>1. g[n + 1] = Use(c) /\ g[n + 2] = Result(c, ok)
    BY <1>2, <1>3
  <2>2. i + 1 = n + 2
    BY <1>6
  <2> QED BY <1>6, <2>1, <2>2 DEF Use, Result
<1>7. CASE i \in 1 .. n
  <2>1. g[i] = h[i] /\ \A j \in 1 .. n : g[j] = h[j]
    BY <1>2, <1>3, <1>7
  <2>2. /\ h[i].is = "use" =>
              i + 1 \in 1 .. n /\ h[i + 1].is = "result" /\ h[i + 1].call = h[i].call
        /\ h[i].is = "result" =>
              i - 1 \in 1 .. n /\ h[i - 1].is = "use" /\ h[i - 1].call = h[i].call
    BY <1>2, <1>3, <1>7 DEF Paired
  <2>3. \A j \in 1 .. n : j \in 1 .. n + 1 /\ j \in 1 .. n + 2
    OBVIOUS
  <2> QED BY <2>1, <2>2, <2>3
<1> QED BY <1>4, <1>5, <1>6, <1>7

\* Histories stay true when a message is added, when a call is made, and when
\* more is done.
LEMMA HistoryAppend ==
  ASSUME NEW h \in Seq(Message), NEW m \in Message, NEW cs, NEW done,
         HistoryOK(h, cs, done), MessageOK(m, cs, done)
  PROVE  HistoryOK(Append(h, m), cs, done)
<1> DEFINE g == Append(h, m)
<1>1. /\ DOMAIN g = 1 .. Len(h) + 1 /\ DOMAIN h = 1 .. Len(h)
      /\ \A i \in DOMAIN h : g[i] = h[i]
      /\ g[Len(h) + 1] = m
      /\ Len(h) \in Nat
  OBVIOUS
<1> HIDE DEF g
<1>2. ASSUME NEW i \in DOMAIN g PROVE MessageOK(g[i], cs, done)
  <2>1. CASE i = Len(h) + 1
    BY <1>1, <2>1
  <2>2. CASE i \in DOMAIN h
    BY <1>1, <2>2 DEF HistoryOK
  <2> QED BY <1>1, <2>1, <2>2
<1> QED BY <1>2 DEF HistoryOK, g

\* And when a call is made or more is done.
LEMMA HistoryGrows ==
  ASSUME NEW h, NEW cs \in Seq(ToolCall), NEW ds \in Seq(ToolCall), NEW done, NEW more,
         HistoryOK(h, cs, done), done \subseteq more,
         DOMAIN cs \subseteq DOMAIN ds, \A c \in DOMAIN cs : ds[c] = cs[c]
  PROVE  HistoryOK(h, ds, more)
  BY DEF HistoryOK, MessageOK, Own


\* What an answer makes of the provider: the history with the call, if it was
\* held back, and its result.
LEMMA AnswerTaken ==
  ASSUME NEW p \in Provider, NEW call \in Nat \ {0}, NEW ok \in BOOLEAN, NEW cs, NEW done,
         HistoryOK(p.history, cs, done), Own(p.held, cs), Own(call, cs),
         ok /\ cs[call].acts => call \in done, conversation \in Nat
  PROVE  LET q == SendToolResult(p, call, ok) IN
         /\ q \in Provider /\ q.asked = conversation /\ q.held = NoCall
         /\ HistoryOK(q.history, cs, done)
         /\ Paired(p.history) /\ p.held = call => Paired(q.history)
<1>1. PICK g : g = IF p.held = NoCall THEN p.history ELSE Append(p.history, Use(p.held))
  OBVIOUS
<1>2. /\ Use(p.held) \in Message /\ Result(call, ok) \in Message
      /\ MessageOK(Use(p.held), cs, done) /\ MessageOK(Result(call, ok), cs, done)
  <2>1. p.held \in Nat
    BY DEF Provider
  <2>2. Use(p.held) \in Message /\ Result(call, ok) \in Message
    BY <2>1 DEF Use, Result, Message, NoCall
  <2>3. MessageOK(Use(p.held), cs, done)
    BY DEF Use, MessageOK
  <2>4. MessageOK(Result(call, ok), cs, done)
    BY DEF Result, MessageOK, NoCall
  <2> QED BY <2>2, <2>3, <2>4
<1>3. p.history \in Seq(Message)
  BY DEF Provider
<1>4. g \in Seq(Message) /\ HistoryOK(g, cs, done)
  <2>1. CASE p.held = NoCall
    BY <1>1, <1>3, <2>1
  <2>2. CASE p.held # NoCall
    <3>1. g = Append(p.history, Use(p.held))
      BY <1>1, <2>2
    <3>2. HistoryOK(Append(p.history, Use(p.held)), cs, done)
      BY <1>2, <1>3, HistoryAppend
    <3> QED BY <1>2, <1>3, <3>1, <3>2
  <2> QED BY <2>1, <2>2
<1>5. PICK k : k = g \o <<Result(call, ok)>>
  OBVIOUS
<1>6. k = Append(g, Result(call, ok))
  BY <1>2, <1>4, <1>5
<1>7. k \in Seq(Message) /\ HistoryOK(k, cs, done)
  <2>1. HistoryOK(Append(g, Result(call, ok)), cs, done)
    BY <1>2, <1>4, HistoryAppend
  <2> QED BY <1>2, <1>4, <1>6, <2>1
<1>8. ASSUME Paired(p.history), p.held = call PROVE Paired(k)
  <2>1. g = Append(p.history, Use(call))
    BY <1>1, <1>8 DEF NoCall
  <2>2. Paired(Append(p.history, Use(call)) \o <<Result(call, ok)>>)
    BY <1>3, <1>8, PairedTurn
  <2> QED BY <1>5, <2>1, <2>2
<1>9. PICK q : q = SendToolResult(p, call, ok)
  OBVIOUS
<1>10. q = [[p EXCEPT !.history = k, !.held = NoCall] EXCEPT !.asked = conversation]
  BY <1>1, <1>5, <1>9 DEF SendToolResult, SendRequest
<1>11. q \in Provider /\ q.history = k /\ q.held = NoCall /\ q.asked = conversation
  <2>1. PICK r : r = [p EXCEPT !.history = k, !.held = NoCall]
    OBVIOUS
  <2>2. r \in Provider /\ r.history = k /\ r.held = NoCall
    BY <1>7, <2>1 DEF Provider, NoCall
  <2>3. q = [r EXCEPT !.asked = conversation]
    BY <1>10, <2>1
  <2> QED BY <2>2, <2>3 DEF Provider
<1> QED BY <1>7, <1>8, <1>9, <1>11

-----------------------------------------------------------------------------
(* The ways a step goes on: it answers a call, it starts a script, it puts *)
(* a call to the user, it starts a generation, or it ends the turn.        *)

\* The turn stands at call, of provider p, with the calls made so far.
Standing(p, call, cs) ==
  /\ p \in Provider /\ p.asked = NoCall
  /\ cs \in Seq(ToolCall) /\ call \in DOMAIN cs /\ Own(call, cs) /\ Own(p.held, cs)
  /\ HistoryOK(p.history, cs, acted)
  /\ replaced \/ (Paired(p.history) /\ p.held = call)

\* A call made has a number.
LEMMA StandingIs ==
  ASSUME NEW p, NEW call, NEW cs, Standing(p, call, cs)
  PROVE  call \in Nat \ {0}
  BY DEF Standing

\* What no step of the turn changes, and what it may.
Aside ==
  /\ conversation' = conversation /\ replaced' = replaced
  /\ bar' \in Bar
  /\ acted \subseteq acted' /\ acted' \subseteq consented'

\* The call is answered, and the service asked again.
LEMMA AnswerKeeps ==
  ASSUME NEW p, NEW call, NEW ok \in BOOLEAN, NEW cs, PanelTypes,
         Standing(p, call, cs), calls' = cs, Aside, inputEnabled = FALSE,
         Answer(p, call, ok), ok /\ cs[call].acts => call \in acted',
         pendingCall' = NoCall, running' = NoCall, generation' = NoCall, generating' = FALSE
  PROVE  PanelInv'
<1>1. /\ p \in Provider /\ call \in Nat \ {0} /\ cs \in Seq(ToolCall)
      /\ HistoryOK(p.history, cs, acted) /\ Own(p.held, cs) /\ Own(call, cs)
      /\ conversation \in Nat
  BY StandingIs DEF Standing, PanelTypes
<1>2. PICK done : done = acted'
  OBVIOUS
<1>3. HistoryOK(p.history, cs, done)
  BY <1>1, <1>2, HistoryGrows DEF Aside
<1>4. PICK q : q = SendToolResult(p, call, ok)
  OBVIOUS
<1>5. /\ q \in Provider /\ q.asked = conversation /\ q.held = NoCall
      /\ HistoryOK(q.history, cs, done)
      /\ Paired(p.history) /\ p.held = call => Paired(q.history)
  BY <1>1, <1>2, <1>3, <1>4, AnswerTaken
<1>6. provider' = q /\ inputEnabled' = FALSE /\ conversation' = conversation
  BY <1>4 DEF Answer, Aside
<1>7. PanelTypes'
  BY <1>1, <1>5, <1>6 DEF PanelTypes, Aside
<1>8. HistoryOK(provider'.history, calls', acted')
  BY <1>2, <1>5, <1>6
<1>9. HistoryOK(provider.history, calls, acted)'
  BY <1>6, <1>8 DEF HistoryOK, MessageOK, Own
<1>10. AllOwn'
  BY <1>5, <1>6, <1>9 DEF AllOwn, Own, NoCall
<1>11. OneAtATime'
  BY <1>6 DEF OneAtATime
<1>12. Consented'
  BY DEF Consented, Aside
<1>13. HeldForResult'
  BY <1>5, <1>6 DEF HeldForResult, Standing, Aside
<1> QED BY <1>7, <1>10, <1>11, <1>12, <1>13 DEF PanelInv


\* A script starts, and the call waits for its end.
LEMMA RunKeeps ==
  ASSUME NEW p, NEW call, NEW cs, PanelTypes, Standing(p, call, cs), calls' = cs, Aside,
         inputEnabled = FALSE, inputEnabled' = FALSE, provider' = p,
         running' = call, pendingCall' = call, call \in acted', bar'.wired = "none",
         generation' = NoCall, generating' = FALSE
  PROVE  PanelInv'
<1>1. /\ p \in Provider /\ call \in Nat \ {0} /\ cs \in Seq(ToolCall)
      /\ HistoryOK(p.history, cs, acted)
  BY StandingIs DEF Standing
<1>2. PICK done : done = acted'
  OBVIOUS
<1>3. HistoryOK(p.history, cs, done)
  BY <1>1, <1>2, HistoryGrows DEF Aside
<1>4. PanelTypes'
  BY <1>1 DEF PanelTypes, Aside
<1>5. HistoryOK(provider.history, calls, acted)'
  BY <1>2, <1>3 DEF HistoryOK, MessageOK, Own, Aside
<1>6. AllOwn'
  BY <1>5 DEF AllOwn, Own, NoCall, Standing, Aside
<1>7. OneAtATime'
  BY <1>1 DEF OneAtATime, Standing, NoCall
<1>8. Consented'
  BY DEF Consented, Aside
<1>9. HeldForResult'
  BY <1>1 DEF HeldForResult, Standing, Aside, NoCall
<1> QED BY <1>4, <1>6, <1>7, <1>8, <1>9 DEF PanelInv

\* The user is asked about the call, or its script is generated.
LEMMA WaitKeeps ==
  ASSUME NEW p, NEW call, NEW cs, PanelTypes, Standing(p, call, cs), calls' = cs, Aside,
         inputEnabled = FALSE, inputEnabled' = FALSE, provider' = p,
         acted' = acted, running' = NoCall,
         \/ /\ pendingCall' = call /\ bar'.for = call
            /\ generation' = NoCall /\ generating' = FALSE
         \/ /\ pendingCall' = NoCall /\ ~cs[call].acts
            /\ generation' = call /\ generating' = TRUE
  PROVE  PanelInv'
<1>1. /\ p \in Provider /\ call \in Nat \ {0} /\ cs \in Seq(ToolCall)
      /\ HistoryOK(p.history, cs, acted)
  BY StandingIs DEF Standing
<1>2. PanelTypes'
  BY <1>1 DEF PanelTypes, Aside
<1>3. HistoryOK(provider.history, calls, acted)'
  BY <1>1 DEF HistoryOK, MessageOK, Own, Aside
<1>4. AllOwn'
  BY <1>3 DEF AllOwn, Own, NoCall, Standing, Aside
<1>5. OneAtATime'
  BY <1>1 DEF OneAtATime, Standing, NoCall
<1>6. Consented'
  BY DEF Consented, Aside
<1>7. HeldForResult'
  BY <1>1 DEF HeldForResult, Standing, Aside, NoCall
<1> QED BY <1>2, <1>4, <1>5, <1>6, <1>7 DEF PanelInv


\* However a tool is handled: an answer at once, a success only of a tool that
\* does nothing; buttons; what a setting accepts; or a generation.
LEMMA HandlerWays ==
  ASSUME NEW p, NEW call, NEW tool \in Tools, NEW args \in {"none", "bad", "good"},
         onToolCallReceived(p, call, tool, args)
  PROVE  \/ \E ok \in BOOLEAN : AnswerNow(p, call, ok) /\ (ok => tool \notin Acting)
         \/ \E handler \in {"script", "file"} : Offer(p, call, handler)
         \/ /\ consented' = consented \cup {call}
            /\ UNCHANGED <<generation, generating>>
            /\ runScript(p, call) \/ WriteFile(p, call)
         \/ /\ tool \notin Acting
            /\ generation' = call /\ generating' = TRUE /\ provider' = p
            /\ UNCHANGED <<inputEnabled, pendingCall, bar, running, acted, consented>>
<1> DEFINE At(ok) == AnswerNow(p, call, ok)
           Run == \/ Offer(p, call, "script")
                  \/ /\ consented' = consented \cup {call}
                     /\ UNCHANGED <<generation, generating>>
                     /\ runScript(p, call)
           Write == \/ Offer(p, call, "file")
                    \/ /\ consented' = consented \cup {call}
                       /\ UNCHANGED <<generation, generating>>
                       /\ WriteFile(p, call)
           Generate == /\ generation' = call /\ generating' = TRUE /\ provider' = p
                       /\ UNCHANGED <<inputEnabled, pendingCall, bar, running, acted, consented>>
<1>1. /\ runTool(p, call) => Run
      /\ onGenerateScriptToolCall(p, call, args) => At(FALSE) \/ Generate
      /\ onWriteFileToolCall(p, call, args) => At(FALSE) \/ Write
  BY DEF runTool, onGenerateScriptToolCall, onWriteFileToolCall
<1> HIDE DEF At, Run, Write, Generate
<1>2. ASSUME tool \in Scripted PROVE At(FALSE) \/ Run
  <2>1. tool \in {"run_5250script", "send_keys", "type_text", "set_cursor_position",
                  "move_cursor", "wait_for_text"}
    BY <1>2 DEF Scripted
  <2>2. \/ onSendKeysToolCall(p, call, args) \/ onTypeTextToolCall(p, call, args)
        \/ onWaitForTextToolCall(p, call, args) \/ onSetCursorPositionToolCall(p, call, args)
        \/ onMoveCursorToolCall(p, call, args) \/ onRunScriptToolCall(p, call, args)
    BY <2>1 DEF onToolCallReceived, McpOnly
  <2> QED BY <1>1, <2>2 DEF At, onSendKeysToolCall, onTypeTextToolCall, onWaitForTextToolCall,
            onSetCursorPositionToolCall, onMoveCursorToolCall, onRunScriptToolCall
<1>3. ASSUME tool = "write_file" PROVE At(FALSE) \/ Write
  <2>1. onWriteFileToolCall(p, call, args)
    BY <1>3 DEF onToolCallReceived, McpOnly
  <2> QED BY <1>1, <2>1
<1>4. ASSUME tool = "generate_5250script" PROVE At(FALSE) \/ Generate
  <2>1. onGenerateScriptToolCall(p, call, args)
    BY <1>4 DEF onToolCallReceived, McpOnly
  <2> QED BY <1>1, <2>1
<1>5. ASSUME tool \in Immediate \cup McpOnly PROVE At(FALSE) \/ At(TRUE)
  <2>1. tool \in {"read_file", "read_screen", "list_files", "get_cursor_position",
                  "get_screen_size", "get_field_at", "find_text", "read_line", "read_region",
                  "connect", "login"}
    BY <1>5 DEF Immediate, McpOnly
  <2>2. \/ onReadFileToolCall(p, call, args) \/ refuseMcpOnly(p, call)
        \/ onReadScreenToolCall(p, call) \/ onListFilesToolCall(p, call, args)
        \/ onGetScreenSizeToolCall(p, call) \/ onFindTextToolCall(p, call, args)
        \/ onReadLineToolCall(p, call, args) \/ onReadRegionToolCall(p, call, args)
        \/ onGetCursorPositionToolCall(p, call) \/ onGetFieldAtToolCall(p, call, args)
    BY <2>1 DEF onToolCallReceived, McpOnly
  <2>3. \E ok \in BOOLEAN : AnswerNow(p, call, ok)
    BY <2>2 DEF onReadFileToolCall, refuseMcpOnly, onReadScreenToolCall, onListFilesToolCall,
       onGetScreenSizeToolCall, onFindTextToolCall, onReadLineToolCall, onReadRegionToolCall,
       onGetCursorPositionToolCall, onGetFieldAtToolCall
  <2> QED BY <2>3 DEF At
<1>6. /\ tool \in Immediate \cup McpOnly => tool \notin Acting
      /\ tool = "generate_5250script" => tool \notin Acting
      /\ tool \in Immediate \cup McpOnly \cup Scripted \cup {"write_file", "generate_5250script"}
  BY DEF Tools, Acting, Scripted, Immediate, McpOnly
<1> QED BY <1>2, <1>3, <1>4, <1>5, <1>6 DEF At, Run, Write, Generate


\* A consented call goes on: its script is refused or starts, or its file is
\* written or not.
LEMMA Going ==
  ASSUME NEW p, NEW call, NEW cs, PanelTypes, Standing(p, call, cs), calls' = cs,
         inputEnabled = FALSE, running = NoCall, generation = NoCall, generating = FALSE,
         UNCHANGED <<conversation, replaced, generation, generating>>,
         acted \subseteq consented, consented' = consented \cup {call},
         runScript(p, call) \/ WriteFile(p, call)
  PROVE  PanelInv'
<1>1. call \in Nat \ {0} /\ bar \in Bar
  BY StandingIs DEF PanelTypes
<1>2. Hidden \in Bar
  BY DEF Hidden, Bar, NoCall
<1>3. CASE WriteFile(p, call)
  <2>1. PICK written \in BOOLEAN : Answer(p, call, written) /\ acted' = acted \cup {call}
                                   /\ pendingCall' = NoCall /\ bar' = Hidden /\ running' = running
    BY <1>3 DEF WriteFile
  <2>2. Aside
    BY <1>2, <2>1 DEF Aside
  <2> QED BY <2>1, <2>2, AnswerKeeps
<1>4. CASE /\ Answer(p, call, FALSE)
           /\ pendingCall' = NoCall /\ bar' = Hidden
           /\ UNCHANGED <<running, acted>>
  <2>1. Aside
    BY <1>2, <1>4 DEF Aside
  <2> QED BY <1>4, <2>1, AnswerKeeps
<1>5. CASE /\ running' = call /\ pendingCall' = call /\ acted' = acted \cup {call}
           /\ provider' = p /\ bar' = [bar EXCEPT !.wired = "none"]
           /\ UNCHANGED inputEnabled
  <2>1. bar' \in Bar /\ bar'.wired = "none"
    BY <1>1, <1>5 DEF Bar
  <2>2. Aside
    BY <1>5, <2>1 DEF Aside
  <2> QED BY <1>5, <2>1, <2>2, RunKeeps
<1> QED BY <1>3, <1>4, <1>5 DEF runScript


-----------------------------------------------------------------------------
(* The steps.                                                              *)

\* A reply that makes a call: the call joins those made, and its handler goes on.
LEMMA CallMade ==
  ASSUME PanelInv, provider.asked # NoCall, NEW p, p = Cancel(provider), MakeCall(p),
         UNCHANGED <<conversation, replaced>>
  PROVE  PanelInv'
<1>1. PICK tool \in Tools, args \in {"none", "bad", "good"} :
        /\ calls' = Append(calls, [conversation |-> conversation, acts |-> tool \in Acting])
        /\ onToolCallReceived([p EXCEPT !.held = Len(calls) + 1], Len(calls) + 1, tool, args)
  BY DEF MakeCall
<1>2. PICK call : call = Len(calls) + 1
  OBVIOUS
<1>3. PICK q : q = [p EXCEPT !.held = call]
  OBVIOUS
<1>4. PICK cs : cs = Append(calls, [conversation |-> conversation, acts |-> tool \in Acting])
  OBVIOUS
<1>5. /\ cs \in Seq(ToolCall) /\ call \in DOMAIN cs
      /\ cs[call].conversation = conversation /\ (cs[call].acts <=> tool \in Acting)
      /\ DOMAIN calls \subseteq DOMAIN cs /\ \A c \in DOMAIN calls : cs[c] = calls[c]
      /\ call \in Nat \ {0}
  <2>1. PICK x : x = [conversation |-> conversation, acts |-> tool \in Acting]
    OBVIOUS
  <2>2. x \in ToolCall /\ x.conversation = conversation /\ (x.acts <=> tool \in Acting)
    <3>1. PICK acts \in BOOLEAN : acts = (tool \in Acting)
      <4>1. (tool \in Acting) = TRUE \/ (tool \in Acting) = FALSE
        OBVIOUS
      <4> QED BY <4>1, Zenon
    <3>2. x = [conversation |-> conversation, acts |-> acts]
      BY <2>1, <3>1
    <3>3. conversation \in Nat
      BY DEF PanelInv, PanelTypes
    <3>4. x \in ToolCall /\ x.conversation = conversation /\ x.acts = acts
      BY <3>2, <3>3 DEF ToolCall
    <3> QED BY <3>1, <3>4
  <2>3. calls \in Seq(ToolCall) /\ cs = Append(calls, x)
    BY <1>4, <2>1 DEF PanelInv, PanelTypes
  <2> QED BY <1>2, <2>2, <2>3
<1>6. /\ pendingCall = NoCall /\ running = NoCall /\ generation = NoCall
      /\ generating = FALSE /\ inputEnabled = FALSE
      /\ acted \subseteq consented /\ bar \in Bar
  BY DEF PanelInv, OneAtATime, Consented, PanelTypes
<1>7. Standing(q, call, cs)
  <2>1. /\ provider \in Provider /\ HistoryOK(provider.history, calls, acted)
        /\ calls \in Seq(ToolCall)
    BY DEF PanelInv, PanelTypes, AllOwn
  <2>2. /\ q \in Provider /\ q.asked = NoCall /\ q.held = call
        /\ q.history = provider.history
    <3>1. PICK g : g = [provider EXCEPT !.asked = NoCall]
      OBVIOUS
    <3>2. g \in Provider /\ g.asked = NoCall /\ g.history = provider.history
      BY <2>1, <3>1 DEF Provider, NoCall
    <3>3. q = [g EXCEPT !.held = call]
      BY <1>3, <3>1 DEF Cancel
    <3> QED BY <1>5, <3>2, <3>3 DEF Provider
  <2>3. HistoryOK(q.history, cs, acted)
    BY <1>5, <2>1, <2>2, HistoryGrows
  <2>4. replaced \/ Paired(q.history)
    BY <2>2 DEF PanelInv, HeldForResult
  <2> QED BY <1>5, <2>2, <2>3, <2>4 DEF Standing, Own
<1>8. PanelTypes /\ calls' = cs
  BY <1>1, <1>4 DEF PanelInv
<1>9. onToolCallReceived(q, call, tool, args)
  BY <1>1, <1>2, <1>3
<1>10. \/ \E ok \in BOOLEAN : AnswerNow(q, call, ok) /\ (ok => tool \notin Acting)
       \/ \E handler \in {"script", "file"} : Offer(q, call, handler)
       \/ /\ consented' = consented \cup {call}
          /\ UNCHANGED <<generation, generating>>
          /\ runScript(q, call) \/ WriteFile(q, call)
       \/ /\ tool \notin Acting
          /\ generation' = call /\ generating' = TRUE /\ provider' = q
          /\ UNCHANGED <<inputEnabled, pendingCall, bar, running, acted, consented>>
  BY <1>9, HandlerWays
<1>11. CASE \E ok \in BOOLEAN : AnswerNow(q, call, ok) /\ (ok => tool \notin Acting)
  <2>1. PICK ok \in BOOLEAN : AnswerNow(q, call, ok) /\ (ok => tool \notin Acting)
    BY <1>11
  <2>2. Aside
    BY <1>6, <2>1 DEF AnswerNow, Aside
  <2> QED BY <1>5, <1>6, <1>7, <1>8, <2>1, <2>2, AnswerKeeps DEF AnswerNow
<1>12. CASE \E handler \in {"script", "file"} : Offer(q, call, handler)
  <2>1. PICK handler \in {"script", "file"} : Offer(q, call, handler)
    BY <1>12
  <2>2. Aside /\ bar'.for = call
    BY <1>5, <1>6, <2>1 DEF Offer, Aside, Bar
  <2> QED BY <1>6, <1>7, <1>8, <2>1, <2>2, WaitKeeps DEF Offer
<1>13. CASE /\ consented' = consented \cup {call}
            /\ UNCHANGED <<generation, generating>>
            /\ runScript(q, call) \/ WriteFile(q, call)
  BY <1>5, <1>6, <1>7, <1>8, <1>13, Going
<1>14. CASE /\ tool \notin Acting
            /\ generation' = call /\ generating' = TRUE /\ provider' = q
            /\ UNCHANGED <<inputEnabled, pendingCall, bar, running, acted, consented>>
  <2>1. Aside
    BY <1>6, <1>14 DEF Aside
  <2> QED BY <1>5, <1>6, <1>7, <1>8, <1>14, <2>1, WaitKeeps
<1> QED BY <1>10, <1>11, <1>12, <1>13, <1>14


\* A reply that makes no call ends the turn, with or without its text kept.
LEMMA TurnEnded ==
  ASSUME PanelInv, provider.asked # NoCall, NEW p,
         \/ p = Cancel(provider)
         \/ p = [Cancel(provider) EXCEPT !.history = Append(@, Text)],
         EndTurn(p), UNCHANGED <<conversation, replaced>>
  PROVE  PanelInv'
<1>1. /\ provider \in Provider /\ provider.history \in Seq(Message)
      /\ HistoryOK(provider.history, calls, acted)
  BY DEF PanelInv, PanelTypes, AllOwn, Provider
<1>2. Text \in Message /\ Text.is = "text" /\ MessageOK(Text, calls, acted)
  BY DEF Text, Message, MessageOK, NoCall, Own
<1>3. PICK h : h = p.history
  OBVIOUS
<1>4. /\ p \in Provider /\ p.asked = NoCall /\ p.held = provider.held
      /\ h = provider.history \/ h = Append(provider.history, Text)
  <2>1. PICK g : g = [provider EXCEPT !.asked = NoCall]
    OBVIOUS
  <2>2. /\ g \in Provider /\ g.asked = NoCall /\ g.history = provider.history
        /\ g.held = provider.held
    BY <1>1, <2>1 DEF Provider, NoCall
  <2>3. CASE p = g
    BY <1>3, <2>2, <2>3
  <2>4. CASE p = [g EXCEPT !.history = Append(@, Text)]
    <3>1. Append(provider.history, Text) \in Seq(Message)
      BY <1>1, <1>2
    <3>2. p = [g EXCEPT !.history = Append(provider.history, Text)]
      BY <2>2, <2>4
    <3> QED BY <1>3, <2>2, <3>1, <3>2 DEF Provider
  <2> QED BY <2>1, <2>3, <2>4 DEF Cancel
<1>5. HistoryOK(h, calls, acted) /\ (Paired(provider.history) => Paired(h))
  BY <1>1, <1>2, <1>4, HistoryAppend, PairedAppend
<1>6. /\ provider' = p /\ inputEnabled' = TRUE /\ conversation' = conversation
      /\ replaced' = replaced
      /\ UNCHANGED <<pendingCall, bar, running, generation, generating, acted, consented, calls>>
  BY DEF EndTurn, setInputEnabled
<1>7. /\ pendingCall = NoCall /\ running = NoCall /\ generation = NoCall
      /\ generating = FALSE /\ acted \subseteq consented
  BY DEF PanelInv, OneAtATime, PanelTypes, Consented
<1>8. PanelTypes'
  BY <1>4, <1>6 DEF PanelInv, PanelTypes
<1>9. HistoryOK(provider.history, calls, acted)'
  BY <1>3, <1>5, <1>6 DEF HistoryOK, MessageOK, Own
<1>10. AllOwn'
  BY <1>4, <1>6, <1>7, <1>9 DEF PanelInv, AllOwn, Own, NoCall
<1>11. OneAtATime'
  BY <1>4, <1>6, <1>7 DEF OneAtATime
<1>12. Consented'
  BY <1>6, <1>7 DEF Consented
<1>13. HeldForResult'
  BY <1>3, <1>4, <1>5, <1>6, <1>7 DEF PanelInv, HeldForResult
<1> QED BY <1>8, <1>10, <1>11, <1>12, <1>13 DEF PanelInv

\* Any reply of the service.
LEMMA Replied == PanelInv /\ handleResponse => PanelInv'
<1> SUFFICES ASSUME PanelInv, handleResponse PROVE PanelInv'
  OBVIOUS
<1>1. PICK p : p = Cancel(provider)
  OBVIOUS
<1>2. provider.asked # NoCall /\ UNCHANGED <<conversation, replaced>>
  BY DEF handleResponse, ghosts
<1>3. \/ EndTurn(p)
      \/ \E r \in Replies : AnthropicReply(p, r) \/ OpenAiReply(p, r)
  BY <1>1 DEF handleResponse
<1>4. \/ MakeCall(p) \/ EndTurn(p) \/ EndTurn([p EXCEPT !.history = Append(@, Text)])
  BY <1>3 DEF AnthropicReply, OpenAiReply
<1>5. CASE MakeCall(p)
  BY <1>1, <1>2, <1>5, CallMade
<1>6. CASE EndTurn(p)
  BY <1>1, <1>2, <1>6, TurnEnded
<1>7. CASE EndTurn([p EXCEPT !.history = Append(@, Text)])
  <2>1. PICK q : q = [p EXCEPT !.history = Append(@, Text)]
    OBVIOUS
  <2>2. q = [Cancel(provider) EXCEPT !.history = Append(@, Text)] /\ EndTurn(q)
    BY <1>1, <1>7, <2>1
  <2> QED BY <1>2, <2>2, TurnEnded
<1> QED BY <1>4, <1>5, <1>6, <1>7

\* The user submits a message.
LEMMA Submitted == PanelInv /\ submitMessage => PanelInv'
<1> SUFFICES ASSUME PanelInv, submitMessage PROVE PanelInv'
  OBVIOUS
<1>1. /\ provider \in Provider /\ provider.history \in Seq(Message)
      /\ HistoryOK(provider.history, calls, acted) /\ conversation \in Nat \ {0}
  BY DEF PanelInv, PanelTypes, AllOwn, Provider
<1>2. User \in Message /\ User.is = "user" /\ MessageOK(User, calls, acted)
  BY DEF User, Message, MessageOK, NoCall, Own
<1>3. /\ pendingCall = NoCall /\ running = NoCall /\ generation = NoCall
      /\ generating = FALSE /\ acted \subseteq consented
  BY DEF PanelInv, OneAtATime, PanelTypes, Consented, submitMessage
<1>4. PICK h : h = Append(provider.history, User)
  OBVIOUS
<1>5. /\ h \in Seq(Message) /\ HistoryOK(h, calls, acted)
      /\ Paired(provider.history) => Paired(h)
  BY <1>1, <1>2, <1>4, HistoryAppend, PairedAppend
<1>6. PICK q : q = provider'
  OBVIOUS
<1>7. /\ q \in Provider /\ q.asked = conversation /\ q.held = provider.held
      /\ q.history = h
  <2>1. PICK g : g = [provider EXCEPT !.history = h]
    OBVIOUS
  <2>2. g \in Provider /\ g.held = provider.held /\ g.history = h
    BY <1>1, <1>5, <2>1 DEF Provider
  <2>3. q = [g EXCEPT !.asked = conversation]
    BY <1>4, <1>6, <2>1 DEF submitMessage, SendMessage, SendRequest
  <2> QED BY <1>1, <2>2, <2>3 DEF Provider
<1>8. /\ inputEnabled = TRUE /\ inputEnabled' = FALSE
      /\ UNCHANGED <<pendingCall, bar, running, generation, generating, calls, acted,
                     conversation, consented, replaced>>
  BY DEF submitMessage, setInputEnabled, PanelInv, PanelTypes
<1>9. PanelTypes'
  BY <1>6, <1>7, <1>8 DEF PanelInv, PanelTypes
<1>10. HistoryOK(provider.history, calls, acted)'
  BY <1>5, <1>6, <1>7, <1>8 DEF HistoryOK, MessageOK, Own
<1>11. AllOwn'
  BY <1>3, <1>6, <1>7, <1>8, <1>10 DEF PanelInv, AllOwn, Own, NoCall
<1>12. OneAtATime'
  BY <1>3, <1>8 DEF OneAtATime
<1>13. Consented'
  BY <1>3, <1>8 DEF Consented
<1>14. HeldForResult'
  BY <1>3, <1>5, <1>6, <1>7, <1>8 DEF PanelInv, HeldForResult
<1> QED BY <1>9, <1>11, <1>12, <1>13, <1>14 DEF PanelInv


\* A turn that waits for the user, a script or a generation stands at its call.
LEMMA StandingNow ==
  ASSUME PanelInv, NEW call, call # NoCall, call = pendingCall \/ call = generation
  PROVE  /\ Standing(provider, call, calls)
         /\ inputEnabled = FALSE
         /\ PanelTypes /\ bar \in Bar /\ acted \subseteq consented
<1>1. provider.asked = NoCall /\ inputEnabled = FALSE
  BY DEF PanelInv, OneAtATime, PanelTypes
<1>2. call \in DOMAIN calls /\ Own(call, calls)
  BY DEF PanelInv, AllOwn, Own
<1> QED BY <1>1, <1>2
      DEF PanelInv, PanelTypes, AllOwn, Consented, HeldForResult, Standing

\* The user accepts the pending call: the buttons are its own.
LEMMA Accepted == PanelInv /\ (onRunScriptClicked \/ onAcceptFileWriteClicked) => PanelInv'
<1> SUFFICES ASSUME PanelInv, onRunScriptClicked \/ onAcceptFileWriteClicked PROVE PanelInv'
  OBVIOUS
<1>1. PICK call, p, cs : call = pendingCall /\ p = provider /\ cs = calls
  OBVIOUS
<1>2. /\ call # NoCall /\ bar.wired # "none"
      /\ consented' = consented \cup {bar.for}
      /\ UNCHANGED <<generation, generating, calls, conversation, replaced>>
      /\ runScript(p, call) \/ WriteFile(p, call)
  BY <1>1 DEF onRunScriptClicked, onAcceptFileWriteClicked, Accepting
<1>3. running = NoCall /\ bar.for = call /\ generation = NoCall /\ generating = FALSE
  BY <1>1, <1>2 DEF PanelInv, OneAtATime, PanelTypes
<1>4. /\ Standing(p, call, cs) /\ inputEnabled = FALSE /\ PanelTypes
      /\ acted \subseteq consented
  BY <1>1, <1>2, StandingNow
<1>5. calls' = cs /\ consented' = consented \cup {call}
  BY <1>1, <1>2, <1>3
<1> QED BY <1>2, <1>3, <1>4, <1>5, Going

\* The user refuses the pending call.
LEMMA Cancelled == PanelInv /\ onCancelClicked => PanelInv'
<1> SUFFICES ASSUME PanelInv, onCancelClicked PROVE PanelInv'
  OBVIOUS
<1>1. PICK call, p, cs : call = pendingCall /\ p = provider /\ cs = calls
  OBVIOUS
<1>2. /\ call # NoCall /\ bar.wired # "none"
      /\ pendingCall' = NoCall /\ bar' = Hidden /\ Answer(p, call, FALSE)
      /\ UNCHANGED <<running, generation, generating, calls, acted, consented, conversation,
                     replaced>>
  BY <1>1 DEF onCancelClicked, ghosts
<1>3. running = NoCall /\ generation = NoCall /\ generating = FALSE
  BY <1>1, <1>2 DEF PanelInv, OneAtATime, PanelTypes
<1>4. /\ Standing(p, call, cs) /\ inputEnabled = FALSE /\ PanelTypes
      /\ acted \subseteq consented
  BY <1>1, <1>2, StandingNow
<1>5. Aside
  BY <1>2, <1>4 DEF Aside, Hidden, Bar, NoCall
<1> QED BY <1>1, <1>2, <1>3, <1>4, <1>5, AnswerKeeps

\* The script of the pending call ends.
LEMMA ScriptEnded == PanelInv /\ scriptEnds => PanelInv'
<1> SUFFICES ASSUME PanelInv, scriptEnds PROVE PanelInv'
  OBVIOUS
<1>1. PICK call, p, cs : call = pendingCall /\ p = provider /\ cs = calls
  OBVIOUS
<1>2. /\ call # NoCall /\ call \in acted /\ generation = NoCall /\ generating = FALSE
      /\ running' = NoCall
      /\ UNCHANGED <<generation, generating, calls, acted, consented, conversation, replaced>>
  BY <1>1 DEF scriptEnds, ghosts, PanelInv, OneAtATime, Consented, PanelTypes
<1>3. PICK success \in BOOLEAN : onScriptFinished(p, success)
  BY <1>1 DEF scriptEnds
<1>4. /\ pendingCall' = NoCall /\ bar' = [bar EXCEPT !.shown = FALSE]
      /\ Answer(p, call, success)
  BY <1>1, <1>2, <1>3 DEF onScriptFinished
<1>5. /\ Standing(p, call, cs) /\ inputEnabled = FALSE /\ PanelTypes /\ bar \in Bar
      /\ acted \subseteq consented
  BY <1>1, <1>2, StandingNow
<1>6. Aside
  BY <1>2, <1>4, <1>5 DEF Aside, Bar
<1> QED BY <1>1, <1>2, <1>4, <1>5, <1>6, AnswerKeeps

\* The subagent replies.
LEMMA Generated == PanelInv /\ subagentReplied => PanelInv'
<1> SUFFICES ASSUME PanelInv, subagentReplied PROVE PanelInv'
  OBVIOUS
<1>1. PICK call, p, cs : call = generation /\ p = provider /\ cs = calls
  OBVIOUS
<1>2. /\ call # NoCall /\ ~cs[call].acts /\ pendingCall = NoCall /\ running = NoCall
      /\ generation' = NoCall /\ generating' = FALSE
      /\ UNCHANGED <<pendingCall, bar, running, calls, acted, consented, conversation, replaced>>
  BY <1>1 DEF subagentReplied, ghosts, PanelInv, OneAtATime, Consented
<1>3. PICK ok \in BOOLEAN : Answer(p, call, ok)
  BY <1>1, <1>2 DEF subagentReplied, onScriptGenerated, onScriptGenerationError
<1>4. /\ Standing(p, call, cs) /\ inputEnabled = FALSE /\ PanelTypes /\ bar \in Bar
      /\ acted \subseteq consented
  BY <1>1, <1>2, StandingNow
<1>5. Aside
  BY <1>2, <1>4 DEF Aside
<1> QED BY <1>1, <1>2, <1>3, <1>4, <1>5, AnswerKeeps

\* Clear leaves nothing of the conversation.
LEMMA ClearedAll == PanelInv /\ Clear => PanelInv'
<1> SUFFICES ASSUME PanelInv, Clear PROVE PanelInv'
  OBVIOUS
<1>1. /\ provider \in Provider /\ bar \in Bar /\ conversation \in Nat \ {0}
      /\ calls \in Seq(ToolCall) /\ acted \subseteq consented
  BY DEF PanelInv, PanelTypes, Consented
<1>2. PICK q : q = provider'
  OBVIOUS
<1>3. /\ q \in Provider /\ q.history = <<>> /\ q.held = NoCall /\ q.asked = NoCall
  <2>1. PICK g : g = [provider EXCEPT !.asked = NoCall]
    OBVIOUS
  <2>2. g \in Provider /\ g.asked = NoCall
    BY <1>1, <2>1 DEF Provider, NoCall
  <2>3. q = [g EXCEPT !.history = <<>>, !.held = NoCall]
    BY <1>2, <2>1 DEF Clear, ClearHistory, Cancel
  <2>4. <<>> \in Seq(Message) /\ NoCall \in Nat
    BY DEF NoCall
  <2> QED BY <2>2, <2>3, <2>4 DEF Provider
<1>4. bar' \in Bar
  <2>1. bar' = [bar EXCEPT !.shown = FALSE]
    BY DEF Clear
  <2> QED BY <1>1, <2>1 DEF Bar
<1>5. /\ bar' \in Bar /\ conversation' \in Nat \ {0}
      /\ pendingCall' = NoCall /\ running' = NoCall /\ generation' = NoCall
      /\ generating' = FALSE /\ inputEnabled' = TRUE /\ replaced' = FALSE
      /\ UNCHANGED <<calls, consented, acted>>
  BY <1>1, <1>4 DEF Clear, setInputEnabled
<1>6. PanelTypes'
  BY <1>1, <1>2, <1>3, <1>5 DEF PanelTypes
<1>7. HistoryOK(provider.history, calls, acted)'
  BY <1>2, <1>3 DEF HistoryOK
<1>8. AllOwn'
  BY <1>2, <1>3, <1>5, <1>7 DEF AllOwn, Own, NoCall
<1>9. OneAtATime'
  BY <1>2, <1>3, <1>5 DEF OneAtATime
<1>10. Consented'
  BY <1>1, <1>5 DEF Consented
<1>11. HeldForResult'
  BY <1>2, <1>3, <1>5 DEF HeldForResult, Paired
<1> QED BY <1>6, <1>8, <1>9, <1>10, <1>11 DEF PanelInv

\* A new provider forgets the turn: the panel waits on for what its script, its
\* generation or the user answers, and the history starts from there.
LEMMA ProviderSet == PanelInv /\ setProvider => PanelInv'
<1> SUFFICES ASSUME PanelInv, setProvider PROVE PanelInv'
  OBVIOUS
<1>1. PICK q : q = provider'
  OBVIOUS
<1>2. PICK brand \in {"anthropic", "openai"} : q = NewProvider(brand)
  BY <1>1 DEF setProvider
<1>3. /\ q \in Provider /\ q.history = <<>> /\ q.held = NoCall /\ q.asked = NoCall
  BY <1>2 DEF NewProvider, Provider, NoCall
<1>4. UNCHANGED <<inputEnabled, pendingCall, bar, running, generation, generating, calls,
                  acted, conversation, consented>>
  BY DEF setProvider, panel
<1>5. replaced' = (replaced \/ ~inputEnabled)
  BY DEF setProvider
<1>6. PanelTypes'
  BY <1>1, <1>3, <1>4, <1>5 DEF PanelInv, PanelTypes
<1>7. HistoryOK(provider.history, calls, acted)'
  BY <1>1, <1>3 DEF HistoryOK
<1>8. AllOwn'
  BY <1>1, <1>3, <1>4, <1>7 DEF PanelInv, AllOwn, Own, NoCall
<1>9. OneAtATime'
  BY <1>1, <1>3, <1>4 DEF PanelInv, OneAtATime
<1>10. Consented'
  BY <1>4 DEF PanelInv, Consented
<1>11. HeldForResult'
  <2>1. Paired(q.history)
    BY <1>3 DEF Paired
  <2>2. CASE inputEnabled
    BY <1>1, <1>3, <1>4, <1>5, <2>1, <2>2 DEF PanelInv, HeldForResult, OneAtATime
  <2>3. CASE ~inputEnabled
    BY <1>5, <2>3 DEF HeldForResult
  <2> QED BY <2>2, <2>3
<1> QED BY <1>6, <1>8, <1>9, <1>10, <1>11 DEF PanelInv

\* A step of others.
LEMMA Unmoved == PanelInv /\ UNCHANGED vars => PanelInv'
  BY DEF PanelInv, PanelTypes, AllOwn, OneAtATime, Consented, HeldForResult, HistoryOK,
         MessageOK, Own, Paired, vars, ghosts

\* The panel starts with nothing under way.
LEMMA PanelInit == Init => PanelInv
<1> SUFFICES ASSUME Init PROVE PanelInv
  OBVIOUS
<1>1. PICK q : q = provider
  OBVIOUS
<1>2. /\ q \in Provider /\ q.history = <<>> /\ q.held = NoCall /\ q.asked = NoCall
  BY <1>1 DEF Init, NewProvider, Provider, NoCall
<1>3. /\ inputEnabled = TRUE /\ pendingCall = NoCall /\ running = NoCall
      /\ generation = NoCall /\ generating = FALSE /\ replaced = FALSE
      /\ conversation = 1 /\ calls = <<>> /\ consented = {} /\ acted = {}
      /\ bar \in Bar
  BY DEF Init, Hidden, Bar, NoCall
<1>4. PanelTypes
  <2>1. calls \in Seq(ToolCall)
    <3>1. <<>> \in Seq(ToolCall)
      OBVIOUS
    <3> QED BY <1>3, <3>1, Zenon
  <2>2. inputEnabled \in BOOLEAN /\ generating \in BOOLEAN /\ replaced \in BOOLEAN
    BY <1>3, Zenon
  <2>3. conversation \in Nat \ {0}
    <3>1. conversation = 1
      BY <1>3, Zenon
    <3> QED BY <3>1
  <2> QED BY <1>1, <1>2, <1>3, <2>1, <2>2, <2>3, Zenon DEF PanelTypes
<1>5. HistoryOK(provider.history, calls, acted) /\ Paired(provider.history)
  BY <1>1, <1>2 DEF HistoryOK, Paired
<1>6. AllOwn /\ OneAtATime
  BY <1>1, <1>2, <1>3, <1>5 DEF AllOwn, OneAtATime, Own
<1>7. Consented /\ HeldForResult
  BY <1>1, <1>2, <1>3, <1>5 DEF Consented, HeldForResult
<1> QED BY <1>4, <1>6, <1>7 DEF PanelInv

\* The invariant holds of every behaviour of the panel.
THEOREM PanelInductive == Spec => []PanelInv
<1>1. PanelInv /\ [Next]_vars => PanelInv'
  BY Replied, Submitted, Accepted, Cancelled, ClearedAll, ProviderSet, ScriptEnded, Generated,
     Unmoved DEF Next
<1> QED BY <1>1, PanelInit, PTL DEF Spec

\* Only what the user accepted, as that very call, or what a setting accepts
\* reaches the screen or the disk, and the model is told of no other success
\* (QAgentPanelWidget.cpp:588-598).
THEOREM OnlyConsentedActs == Spec => []ActsOnlyWithConsent
<1>1. PanelInv => ActsOnlyWithConsent
  BY DEF PanelInv, Consented, AllOwn, HistoryOK, MessageOK, ActsOnlyWithConsent
<1> QED BY <1>1, PanelInductive, PTL

\* The service is sent the conversation the user sees: nothing of a cleared one,
\* and each call with its result (QAgentPanelWidget.cpp:90-115).
THEOREM WholeConversation == Spec => []ConversationIsWhole
<1>1. PanelInv => NothingFromCleared
  BY DEF PanelInv, AllOwn, HistoryOK, MessageOK, Own, NothingFromCleared
<1>2. PanelInv => ResultsFollowCalls
  BY DEF PanelInv, HeldForResult, Paired, ResultsFollowCalls
<1>3. PanelInv => ConversationIsWhole
  BY <1>1, <1>2 DEF ConversationIsWhole
<1> QED BY <1>3, PanelInductive, PTL

\* While the input is locked something is under way that unlocks it, unless the
\* provider was replaced in the turn; buttons offered are those of a call.
Unlocking ==
  /\ \/ replaced \/ inputEnabled
     \/ provider.asked # NoCall \/ running # NoCall \/ generation # NoCall
     \/ pendingCall # NoCall /\ bar.shown /\ bar.wired # "none"
  /\ bar.shown /\ bar.wired # "none" => bar.for # NoCall

\* An answer to a call asks the service again.
LEMMA AnswerAsks ==
  ASSUME PanelTypes, NEW p \in Provider, NEW call, NEW ok, Answer(p, call, ok)
  PROVE  provider'.asked # NoCall
<1>1. conversation # NoCall
  BY DEF PanelTypes, NoCall
<1>2. PICK h : h = (IF p.held = NoCall THEN p.history ELSE Append(p.history, Use(p.held)))
                     \o <<Result(call, ok)>>
  OBVIOUS
<1>3. provider' = [p EXCEPT !.history = h, !.held = NoCall, !.asked = conversation]
  BY <1>2 DEF Answer, SendToolResult, SendRequest
<1> QED BY <1>1, <1>3 DEF Provider

\* A consented call goes on: its script starts, or the service gets its answer.
LEMMA GoesOn ==
  ASSUME PanelTypes, NEW p \in Provider, NEW call, call # NoCall,
         runScript(p, call) \/ WriteFile(p, call)
  PROVE  Unlocking'
<1>1. CASE WriteFile(p, call)
  <2>1. provider'.asked # NoCall /\ bar' = Hidden
    BY <1>1, AnswerAsks DEF WriteFile
  <2> QED BY <2>1 DEF Unlocking, Hidden
<1>2. CASE Answer(p, call, FALSE) /\ bar' = Hidden
  BY <1>2, AnswerAsks DEF Unlocking, Hidden
<1>3. CASE running' = call /\ bar' = [bar EXCEPT !.wired = "none"]
  BY <1>3 DEF Unlocking, PanelTypes, Bar
<1> QED BY <1>1, <1>2, <1>3 DEF runScript

\* A tool call's handler leaves the turn with something to go on.
LEMMA HandlerGoesOn ==
  ASSUME PanelTypes, Unlocking, NEW p \in Provider, NEW call, call # NoCall,
         NEW tool \in Tools, NEW args \in {"none", "bad", "good"},
         onToolCallReceived(p, call, tool, args)
  PROVE  Unlocking'
<1>1. CASE \E ok \in BOOLEAN : AnswerNow(p, call, ok)
  <2>1. provider'.asked # NoCall /\ bar' = bar
    BY <1>1, AnswerAsks DEF AnswerNow
  <2> QED BY <2>1 DEF Unlocking
<1>2. CASE \E handler \in {"script", "file"} : Offer(p, call, handler)
  BY <1>2 DEF Offer, Unlocking
<1>3. CASE runScript(p, call) \/ WriteFile(p, call)
  BY <1>3, GoesOn
<1>4. CASE generation' = call /\ bar' = bar
  BY <1>4 DEF Unlocking
<1> QED BY <1>1, <1>2, <1>3, <1>4, HandlerWays

\* The service's reply.
LEMMA ReplyGoesOn ==
  ASSUME PanelTypes, Unlocking, handleResponse
  PROVE  Unlocking'
<1>1. PICK p : p = Cancel(provider)
  OBVIOUS
<1>2. p \in Provider
  <2>1. p = [provider EXCEPT !.asked = NoCall]
    BY <1>1 DEF Cancel
  <2> QED BY <2>1 DEF PanelTypes, Provider, NoCall
<1>3. MakeCall(p) \/ \E q : EndTurn(q)
  BY <1>1 DEF handleResponse, AnthropicReply, OpenAiReply
<1>4. CASE MakeCall(p)
  <2>1. PICK call : call = Len(calls) + 1
    OBVIOUS
  <2>2. PICK tool \in Tools, args \in {"none", "bad", "good"} :
          onToolCallReceived([p EXCEPT !.held = call], call, tool, args)
    BY <1>4, <2>1 DEF MakeCall
  <2>3. call \in Nat \ {0}
    BY <2>1 DEF PanelTypes
  <2>4. [p EXCEPT !.held = call] \in Provider
    BY <1>2, <2>3 DEF Provider
  <2> QED BY <2>2, <2>3, <2>4, HandlerGoesOn DEF NoCall
<1>5. CASE \E q : EndTurn(q)
  BY <1>5 DEF EndTurn, setInputEnabled, Unlocking
<1> QED BY <1>3, <1>4, <1>5

\* Every step leaves the turn with something to go on.
LEMMA GoingKept == PanelInv /\ Unlocking /\ [Next]_vars => Unlocking'
<1> SUFFICES ASSUME PanelInv, Unlocking, [Next]_vars PROVE Unlocking'
  OBVIOUS
<1>1. PanelTypes /\ provider \in Provider /\ bar \in Bar /\ conversation # NoCall
  BY DEF PanelInv, PanelTypes, NoCall
<1>2. CASE handleResponse
  BY <1>1, <1>2, ReplyGoesOn
<1>3. CASE submitMessage
  <2>1. PICK h : h = Append(provider.history, User)
    OBVIOUS
  <2>2. provider' = [[provider EXCEPT !.history = h] EXCEPT !.asked = conversation] /\ bar' = bar
    BY <1>3, <2>1 DEF submitMessage, SendMessage, SendRequest
  <2>3. provider'.asked # NoCall
    BY <1>1, <2>2 DEF Provider
  <2> QED BY <2>2, <2>3 DEF Unlocking
<1>4. CASE onRunScriptClicked \/ onAcceptFileWriteClicked
  <2>1. pendingCall # NoCall /\ (runScript(provider, pendingCall) \/ WriteFile(provider, pendingCall))
    BY <1>4 DEF onRunScriptClicked, onAcceptFileWriteClicked
  <2> QED BY <1>1, <2>1, GoesOn
<1>5. CASE onCancelClicked
  <2>1. Answer(provider, pendingCall, FALSE) /\ bar' = Hidden
    BY <1>5 DEF onCancelClicked
  <2> QED BY <1>1, <2>1, AnswerAsks DEF Unlocking, Hidden
<1>6. CASE Clear
  BY <1>1, <1>6 DEF Clear, setInputEnabled, Unlocking, Bar
<1>7. CASE setProvider
  <2>1. replaced' \/ inputEnabled'
    BY <1>7 DEF setProvider, panel
  <2>2. bar' = bar
    BY <1>7 DEF setProvider, panel
  <2> QED BY <2>1, <2>2 DEF Unlocking
<1>8. CASE scriptEnds
  <2>1. pendingCall # NoCall
    BY <1>8 DEF scriptEnds, PanelInv, OneAtATime
  <2>2. PICK success \in BOOLEAN : onScriptFinished(provider, success)
    BY <1>8 DEF scriptEnds
  <2>3. Answer(provider, pendingCall, success) /\ bar' = [bar EXCEPT !.shown = FALSE]
    BY <2>1, <2>2 DEF onScriptFinished
  <2> QED BY <1>1, <2>3, AnswerAsks DEF Unlocking, Bar
<1>9. CASE subagentReplied
  <2>1. generation # NoCall
    BY <1>9 DEF subagentReplied, PanelInv, OneAtATime
  <2>2. \E ok : Answer(provider, generation, ok)
    BY <1>9, <2>1 DEF subagentReplied, onScriptGenerated, onScriptGenerationError
  <2>3. bar' = bar
    BY <1>9 DEF subagentReplied
  <2> QED BY <1>1, <2>2, <2>3, AnswerAsks DEF Unlocking
<1>10. CASE UNCHANGED vars
  BY <1>10 DEF Unlocking, vars, ghosts
<1> QED BY <1>2, <1>3, <1>4, <1>5, <1>6, <1>7, <1>8, <1>9, <1>10 DEF Next

\* What is under way is counted: none while the input is open, one while it is locked.
LEMMA OneCounted == PanelInv /\ Unlocking => OneUnderWay
<1> SUFFICES ASSUME PanelInv, Unlocking, ~replaced PROVE OneUnderWay
  BY DEF OneUnderWay
<1> DEFINE waiting == bar.shown /\ bar.wired # "none" /\ pendingCall = bar.for
           underWay == <<provider.asked # NoCall, waiting, running # NoCall,
                         generating /\ generation # NoCall>>
           Under(i) == \/ i = 1 /\ provider.asked # NoCall
                       \/ i = 2 /\ waiting
                       \/ i = 3 /\ running # NoCall
                       \/ i = 4 /\ generation # NoCall
<1>1. {i \in DOMAIN underWay : underWay[i]} = {i \in 1 .. 4 : Under(i)}
  <2>1. generating /\ generation # NoCall <=> generation # NoCall
    BY DEF PanelInv, OneAtATime
  <2>2. /\ DOMAIN underWay = 1 .. 4
        /\ underWay[1] = (provider.asked # NoCall) /\ underWay[2] = waiting
        /\ underWay[3] = (running # NoCall)
        /\ underWay[4] = (generating /\ generation # NoCall)
    OBVIOUS
  <2>3. \A i \in 1 .. 4 : i = 1 \/ i = 2 \/ i = 3 \/ i = 4
    OBVIOUS
  <2>5. /\ Under(1) <=> (provider.asked # NoCall)
        /\ Under(2) <=> waiting
        /\ Under(3) <=> (running # NoCall)
        /\ Under(4) <=> (generating /\ generation # NoCall)
    BY <2>1
  <2> HIDE DEF underWay, Under, waiting
  <2>4. \A i \in 1 .. 4 : underWay[i] <=> Under(i)
    BY <2>2, <2>3, <2>5, Zenon
  <2> QED BY <2>2, <2>4
<1>2. /\ inputEnabled = TRUE => \A i \in 1 .. 4 : ~Under(i)
      /\ \A i, j \in 1 .. 4 : Under(i) /\ Under(j) => i = j
      /\ inputEnabled = FALSE => \E i \in 1 .. 4 : Under(i)
  BY DEF PanelInv, PanelTypes, OneAtATime, Unlocking
<1> HIDE DEF underWay, Under
<1>3. CASE inputEnabled = TRUE
  <2>1. {i \in 1 .. 4 : Under(i)} = {}
    BY <1>2, <1>3
  <2>2. Cardinality({i \in DOMAIN underWay : underWay[i]}) = 0
    BY <1>1, <2>1, FS_EmptySet
  <2> QED BY <1>3, <2>2 DEF OneUnderWay, underWay
<1>4. CASE inputEnabled = FALSE
  <2>1. PICK k \in 1 .. 4 : Under(k)
    BY <1>2, <1>4
  <2>2. {i \in 1 .. 4 : Under(i)} = {k}
    BY <1>2, <2>1
  <2>3. Cardinality({i \in DOMAIN underWay : underWay[i]}) = 1
    BY <1>1, <2>2, FS_Singleton
  <2> QED BY <1>4, <2>3 DEF OneUnderWay, underWay
<1> QED BY <1>3, <1>4 DEF PanelInv, PanelTypes

\* While the input is locked exactly one thing is under way that will unlock it: a
\* request, a question, a script or a generation; while it is open, none. The safety
\* half of TurnEnds (sendMessage, finishTurn and all that leads there).
THEOREM OneIsUnderWay == Spec => []OneUnderWay
<1>1. Init => Unlocking
  BY DEF Init, Unlocking, Hidden
<1>2. Spec => []Unlocking
  BY <1>1, GoingKept, PanelInductive, PTL DEF Spec
<1> QED BY <1>2, OneCounted, PanelInductive, PTL

-----------------------------------------------------------------------------
(* The tools of an MCP client: signing on.                                 *)

\* A call of login that names somebody signs on as that user, and the password it
\* has is the one of the user it signs on as, from the moment it has one.
Phase == {"none", "prompt", "sign on", "unlocked", "messages", "outer"}
Name == UserNames \cup {NoUser}
LoginCall == [at : Phase, asked : Name, user : Name, password : Name, outer : Int]

LoginOK ==
  /\ login \in LoginCall
  /\ credentials \in Name
  /\ (login.at # "none" /\ login.asked # NoUser) => SameText(login.asked, login.user)
  /\ login.at \notin {"none", "prompt"} => (alive /\ SameText(login.password, login.user))

\* A name reads as itself.
LEMMA SameTextReflexive == \A s : SameText(s, s)
  BY DEF SameText

\* A call of login keeps the names it has when only its phase changes.
LEMMA AtPhase ==
  ASSUME NEW l \in LoginCall, NEW at \in Phase
  PROVE  LET m == [l EXCEPT !.at = at] IN
         m \in LoginCall /\ m.at = at /\ m.asked = l.asked /\ m.user = l.user /\ m.password = l.password
  BY DEF LoginCall

LEMMA AtPhaseWith ==
  ASSUME NEW l \in LoginCall, NEW at \in Phase, NEW word \in Name
  PROVE  LET m == [l EXCEPT !.at = at, !.password = word] IN
         m \in LoginCall /\ m.at = at /\ m.asked = l.asked /\ m.user = l.user /\ m.password = word
  BY DEF LoginCall

\* Nor has no call any.
LEMMA NoLoginCall == NoLogin \in LoginCall /\ NoLogin.at = "none"
  BY DEF LoginCall, NoLogin, NewLogin, Name, Phase

LEMMA LoginKept == LoginOK /\ [ToolNext]_toolVars => LoginOK'
<1> SUFFICES ASSUME LoginOK, [ToolNext]_toolVars PROVE LoginOK'
  OBVIOUS
<1>1. CASE UNCHANGED <<alive, credentials, login>>
  BY <1>1 DEF LoginOK
<1>0. login \in LoginCall /\ credentials \in Name
  BY DEF LoginOK
<1>00. credentials \in Name
  BY <1>0
<1>2. ASSUME NEW user \in Name, NEW given \in BOOLEAN, Login(user, given) PROVE LoginOK'
  <2>1. CASE UseSaved(credentials, user, given)
    <3> DEFINE m == NewLogin("sign on", user, credentials, credentials)
    <3>1. m \in LoginCall /\ m.at = "sign on" /\ m.asked = user /\ m.user = credentials /\ m.password = credentials
      BY <1>00, <1>2 DEF NewLogin, LoginCall, Phase
    <3>2. login' = m
      BY <1>2, <2>1 DEF Login
    <3>4. alive' /\ credentials' = credentials
      BY <1>2 DEF Login, Free
    <3>3. user # NoUser => SameText(user, credentials)
      BY <2>1 DEF UseSaved
    <3> HIDE DEF m
    <3> QED BY <1>0, <3>1, <3>2, <3>3, <3>4, SameTextReflexive DEF LoginOK
  <2>2. CASE ~UseSaved(credentials, user, given)
    <3>1. PICK at \in Phase, word \in Name : /\ at = IF given THEN "sign on" ELSE "prompt"
                                             /\ word = IF given THEN user ELSE NoUser
      BY DEF Phase, Name
    <3> DEFINE m == NewLogin(at, user, user, word)
    <3>2. m \in LoginCall /\ m.at = at /\ m.asked = user /\ m.user = user /\ m.password = word
      <4>1. at \in Phase /\ word \in Name /\ user \in Name
        BY <1>2, <3>1
      <4> QED BY <4>1 DEF NewLogin, LoginCall
    <3>3. login' = m
      BY <1>2, <2>2, <3>1 DEF Login
    <3>4. alive' /\ credentials' = credentials
      BY <1>2 DEF Login, Free
    <3> HIDE DEF m
    <3> QED BY <1>0, <3>1, <3>2, <3>3, <3>4, SameTextReflexive DEF LoginOK
  <2> QED BY <2>1, <2>2
<1>20. ASSUME login' = NoLogin, credentials' \in Name PROVE LoginOK'
  BY <1>20, NoLoginCall DEF LoginOK
<1>3. ASSUME NEW yes \in BOOLEAN, Answered(yes) PROVE LoginOK'
  <2>1. CASE alive /\ yes
    <3> DEFINE m == [login EXCEPT !.at = "sign on", !.password = login.user]
    <3>1. login.user \in Name
      BY <1>0 DEF LoginCall
    <3>2. m \in LoginCall /\ m.at = "sign on" /\ m.asked = login.asked /\ m.user = login.user /\ m.password = login.user
      BY <1>0, <3>1, AtPhaseWith DEF Phase
    <3>3. login' = m /\ alive' /\ credentials' = credentials /\ login.at = "prompt"
      BY <1>3, <2>1 DEF Answered
    <3> HIDE DEF m
    <3> QED BY <1>0, <3>2, <3>3, SameTextReflexive DEF LoginOK
  <2> QED BY <1>0, <1>20, <2>1, <1>3 DEF Answered
\* The call goes on: from one phase of its script to another, inside itself or out.
<1>21. ASSUME NEW at \in Phase \ {"none", "prompt"}, login.at \notin {"none", "prompt"},
              login' = [login EXCEPT !.at = at], UNCHANGED <<alive, credentials>>
       PROVE  LoginOK'
  <2> DEFINE m == [login EXCEPT !.at = at]
  <2>1. m \in LoginCall /\ m.at = at /\ m.asked = login.asked /\ m.user = login.user /\ m.password = login.password
    BY <1>0, AtPhase
  <2>2. login' = m /\ alive' = alive /\ credentials' = credentials
    BY <1>21
  <2>3. at \notin {"none", "prompt"} /\ login.at \notin {"none", "prompt"}
    BY <1>21
  <2> HIDE DEF m
  <2> QED BY <1>0, <2>1, <2>2, <2>3 DEF LoginOK
<1>22. ASSUME NEW at \in Phase \ {"none", "prompt"}, NEW n \in Int, login.at \notin {"none", "prompt"},
              login' = [login EXCEPT !.at = at, !.outer = n], UNCHANGED <<alive, credentials>>
       PROVE  LoginOK'
  <2> DEFINE m == [login EXCEPT !.at = at, !.outer = n]
  <2>1. m \in LoginCall /\ m.at = at /\ m.asked = login.asked /\ m.user = login.user /\ m.password = login.password
    <3>1. at \in Phase /\ n \in Int
      BY <1>22
    <3> QED BY <1>0, <3>1 DEF LoginCall
  <2>2. login' = m /\ alive' = alive /\ credentials' = credentials
    BY <1>22
  <2>3. at \notin {"none", "prompt"} /\ login.at \notin {"none", "prompt"}
    BY <1>22
  <2> HIDE DEF m
  <2> QED BY <1>0, <2>1, <2>2, <2>3 DEF LoginOK
<1>4. CASE SeesSignOn \/ EntersCredentials
  BY <1>4, <1>21 DEF Phase, SeesSignOn, EntersCredentials
<1>23. login.outer \in Int
  BY <1>0 DEF LoginCall
<1>5. CASE EntersSignOff \/ OuterGoesOn
  <2>1. login.outer + 1 \in Int /\ login.outer - 1 \in Int
    BY <1>23
  <2>2. CASE EntersSignOff
    <3>1. login' = [login EXCEPT !.at = "sign on", !.outer = login.outer + 1]
      BY <2>2, <1>0 DEF EntersSignOff
    <3>2. login.at = "unlocked" /\ UNCHANGED <<alive, credentials>>
      BY <2>2 DEF EntersSignOff
    <3> QED BY <2>1, <3>1, <3>2, <1>22 DEF Phase
  <2>3. CASE OuterGoesOn
    <3>1. login' = [login EXCEPT !.at = "messages", !.outer = login.outer - 1]
      BY <2>3, <1>0 DEF OuterGoesOn
    <3>2. login.at = "outer" /\ UNCHANGED <<alive, credentials>>
      BY <2>3 DEF OuterGoesOn
    <3> QED BY <2>1, <3>1, <3>2, <1>22 DEF Phase
  <2> QED BY <1>5, <2>2, <2>3
<1>6. CASE Follows
  <2>1. login' = NoLogin \/ login' = [login EXCEPT !.at = "outer"]
    BY <1>6 DEF Follows
  <2>2. login.at = "messages" /\ UNCHANGED <<alive, credentials>>
    BY <1>6 DEF Follows
  <2> QED BY <1>0, <1>20, <1>21, <2>1, <2>2 DEF Phase
<1>24. CASE ExpectTimesOut
  BY <1>0, <1>20, <1>24 DEF ExpectTimesOut
<1>7. CASE TabCloses
  <2>1. CASE login.at = "prompt"
    BY <1>0, <1>7, <2>1 DEF TabCloses, LoginOK, Name
  <2> QED BY <1>20, <1>7, <2>1 DEF TabCloses, Name
<1>8. CASE \E row \in 0 .. Rows, col \in 0 .. Cols : SetCursorPosition(row, col)
  BY <1>1, <1>8 DEF SetCursorPosition
<1>9. CASE \E rows \in -Rows .. Rows, cols \in -(Rows * Cols) .. Rows * Cols : MoveCursor(rows, cols)
  BY <1>1, <1>9 DEF MoveCursor
<1>10. CASE \E content \in Contents \cup {Missing}, outcome \in WriteOutcome : WriteFileTool(content, outcome)
  BY <1>1, <1>10 DEF WriteFileTool
<1>11. CASE HostRefuses \/ \E screen \in HostScreens : HostWrites(screen)
  BY <1>1, <1>11 DEF HostRefuses, HostWrites
<1>12. CASE UNCHANGED toolVars
  BY <1>1, <1>12 DEF toolVars
<1> QED BY <1>2, <1>3, <1>4, <1>5, <1>6, <1>7, <1>24, <1>8, <1>9, <1>10, <1>11, <1>12 DEF ToolNext, Name

\* No call runs at first.
LEMMA LoginStarts == ToolInit => LoginOK
  BY UsersAssumption, NoLoginCall DEF ToolInit, LoginOK, Name

\* login signs on as the user the client names, with the password of that user,
\* and only while the session is there (McpToolHandler.cpp, login).
THEOREM LoginSignsOnAsNamed == ToolSpec => []SignsOnAsNamed
<1>2. LoginOK => SignsOnAsNamed
  BY DEF LoginOK, SignsOnAsNamed
<1> QED BY <1>2, LoginStarts, LoginKept, PTL DEF ToolSpec

-----------------------------------------------------------------------------
(* The screen the tools read.                                              *)

\* Induction over a set of naturals.
LEMMA SetInduction ==
  ASSUME NEW T \in SUBSET Nat, 0 \in T, \A n \in T : n + 1 \in T
  PROVE  T = Nat
  <1> SUFFICES ASSUME Nat \ T # {} PROVE FALSE
    OBVIOUS
  <1>1. PICK x \in Nat \ T : \A y \in Nat \ T : ~(<<y, x>> \in OpToRel(<, Nat))
    BY WFMin, NatLessThanWellFounded
  <1>2. x # 0
    OBVIOUS
  <1>3. x - 1 \in Nat /\ x - 1 < x
    BY <1>2
  <1>4. <<x - 1, x>> \in OpToRel(<, Nat)
    BY <1>3 DEF OpToRel
  <1>5. x - 1 \in T
    BY <1>1, <1>3, <1>4
  <1> QED BY <1>3, <1>5

\* The screens after each character of a text, TYPE's loop.
TypedUpTo(g, at, text, n) ==
  /\ g = [i \in 0 .. n |-> g[i]]
  /\ g[0] = at
  /\ \A i \in 1 .. n : g[i] = TypeOne(g[i - 1], text[i])

\* The recursive function of TypeText exists,
LEMMA TypedExists ==
  ASSUME NEW at, NEW text, Len(text) \in Nat
  PROVE  \E g : TypedUpTo(g, at, text, Len(text))
  <1> DEFINE T == {n \in Nat : \E g : TypedUpTo(g, at, text, n)}
  <1>1. 0 \in T
    <2>1. TypedUpTo([i \in 0 .. 0 |-> at], at, text, 0)
      BY DEF TypedUpTo
    <2> QED BY <2>1
  <1>2. ASSUME NEW n \in T PROVE n + 1 \in T
    <2>1. n \in Nat
      OBVIOUS
    <2>2. PICK g : TypedUpTo(g, at, text, n)
      OBVIOUS
    <2> DEFINE h == [i \in 0 .. (n + 1) |-> IF i <= n THEN g[i] ELSE TypeOne(g[n], text[n + 1])]
    <2>3. /\ h = [i \in 0 .. (n + 1) |-> h[i]]
          /\ h[n + 1] = TypeOne(g[n], text[n + 1])
          /\ \A i \in 0 .. n : h[i] = g[i]
      BY <2>1
    <2> HIDE DEF h
    <2>4. h[0] = at
      <3>1. 0 \in 0 .. n
        BY <2>1
      <3>2. g[0] = at
        BY <2>2, Zenon DEF TypedUpTo
      <3> QED BY <2>3, <3>1, <3>2
    <2>5. ASSUME NEW i \in 1 .. (n + 1) PROVE h[i] = TypeOne(h[i - 1], text[i])
      <3>1. CASE i = n + 1
        BY <2>1, <2>3, <3>1
      <3>2. CASE i # n + 1
        <4>1. i \in 1 .. n /\ i \in 0 .. n /\ i - 1 \in 0 .. n
          BY <2>1, <3>2
        <4> QED BY <2>2, <2>3, <4>1 DEF TypedUpTo
      <3> QED BY <3>1, <3>2
    <2>6. TypedUpTo(h, at, text, n + 1)
      BY <2>3, <2>4, <2>5 DEF TypedUpTo
    <2> QED BY <2>1, <2>6
  <1>3. T \in SUBSET Nat
    OBVIOUS
  <1> HIDE DEF T
  <1>4. T = Nat
    BY <1>1, <1>2, <1>3, SetInduction
  <1> QED BY <1>4 DEF T

\* and what TypeText leaves is the last of its stages.
LEMMA TypedStages ==
  ASSUME NEW at, NEW text, Len(text) \in Nat
  PROVE  \E g : TypedUpTo(g, at, text, Len(text)) /\ TypeText(at, text) = g[Len(text)]
  <1> DEFINE Made(f) == [n \in 0 .. Len(text) |->
                           IF n = 0 THEN at ELSE TypeOne(f[n - 1], text[n])]
             typed == CHOOSE f : f = Made(f)
  <1>1. PICK g : TypedUpTo(g, at, text, Len(text))
    BY TypedExists
  <1>2. g = Made(g)
    <2>1. \A i \in 0 .. Len(text) : g[i] = Made(g)[i]
      BY <1>1 DEF TypedUpTo
    <2> QED BY <1>1, <2>1 DEF TypedUpTo
  <1>3. typed = Made(typed)
    BY <1>2
  <1>4. TypeText(at, text) = typed[Len(text)]
    BY DEF TypeText
  <1> HIDE DEF typed
  <1>5. typed[0] = at /\ typed = [i \in 0 .. Len(text) |-> typed[i]]
    BY <1>3
  <1>6. \A i \in 1 .. Len(text) : typed[i] = TypeOne(typed[i - 1], text[i])
    <2>1. \A i \in 1 .. Len(text) : i \in 0 .. Len(text) /\ i # 0
      OBVIOUS
    <2>2. \A i \in 0 .. Len(text) : i # 0 => typed[i] = TypeOne(typed[i - 1], text[i])
      BY <1>3
    <2> QED BY <2>1, <2>2
  <1>7. TypedUpTo(typed, at, text, Len(text))
    BY <1>5, <1>6 DEF TypedUpTo
  <1> QED BY <1>4, <1>7

\* A screen typed on is a screen.
LEMMA TypedScreen ==
  ASSUME NEW at, at.display \in HostScreen, NEW text \in Seq(Letter)
  PROVE  TypeText(at, text).display \in HostScreen
  <1>0. Len(text) \in Nat
    OBVIOUS
  <1>1. PICK g : TypedUpTo(g, at, text, Len(text)) /\ TypeText(at, text) = g[Len(text)]
    BY <1>0, TypedStages
  <1> DEFINE T == {n \in Nat : n <= Len(text) => g[n].display \in HostScreen}
  <1>2. 0 \in T
    BY <1>1 DEF TypedUpTo
  <1>3. ASSUME NEW n \in T PROVE n + 1 \in T
    <2> SUFFICES ASSUME n + 1 <= Len(text) PROVE g[n + 1].display \in HostScreen
      OBVIOUS
    <2>1. n \in Nat /\ n + 1 \in 1 .. Len(text) /\ (n + 1) - 1 = n /\ g[n].display \in HostScreen
      OBVIOUS
    <2>2. g[n + 1] = TypeOne(g[n], text[n + 1])
      BY <1>1, <2>1 DEF TypedUpTo
    <2>3. text[n + 1] \in Letter
      BY <2>1
    <2>4. ASSUME NEW d \in HostScreen, NEW cells \in [Cell -> Letter]
          PROVE  [d EXCEPT !.cells = cells] \in HostScreen
      BY DEF HostScreen
    <2>5. \A d, c, ch : [d EXCEPT !.cells[c] = ch] = [d EXCEPT !.cells = [d.cells EXCEPT ![c] = ch]]
      OBVIOUS
    <2> DEFINE cells == [g[n].display.cells EXCEPT ![g[n].cursor] = text[n + 1]]
    <2>6. cells \in [Cell -> Letter]
      BY <2>1, <2>3 DEF HostScreen
    <2>7. g[n + 1] = g[n] \/ g[n + 1].display = [g[n].display EXCEPT !.cells = cells]
      BY <2>2, <2>5 DEF TypeOne
    <2> HIDE DEF cells
    <2> QED BY <2>1, <2>4, <2>6, <2>7
  <1>4. T \in SUBSET Nat
    OBVIOUS
  <1> HIDE DEF T
  <1>5. T = Nat
    BY <1>2, <1>3, <1>4, SetInduction
  <1> QED BY <1>0, <1>1, <1>5 DEF T

\* Whatever the tools and the host do, there is a screen.
LEMMA ScreenKept == LoginOK /\ display \in HostScreen /\ [ToolNext]_toolVars => display' \in HostScreen
<1> SUFFICES ASSUME LoginOK, display \in HostScreen, [ToolNext]_toolVars PROVE display' \in HostScreen
  OBVIOUS
<1>1. ASSUME NEW d \in HostScreen, NEW b \in BOOLEAN PROVE [d EXCEPT !.open = b] \in HostScreen
  BY DEF HostScreen
<1>2. login.user \in Seq(Letter)
  <2>1. login.user \in Name
    BY DEF LoginOK, LoginCall
  <2>2. NoUser \in Seq(Letter)
    BY DEF NoUser
  <2> QED BY <2>1, <2>2, UsersAssumption DEF Name
<1>3. ASSUME NEW user \in Seq(Letter), TypeCredentials(user) PROVE display' \in HostScreen
  <2> DEFINE inUser   == ToNextField([display |-> display, cursor |-> 0])
             named    == IF display.open THEN TypeText(inUser, user) ELSE inUser
             inSecond == ToNextField(named)
             typed    == IF display.open THEN TypeText(inSecond, Password) ELSE inSecond
  <2>1. inUser.display \in HostScreen
    BY DEF ToNextField
  <2>2. named.display \in HostScreen
    BY <1>3, <2>1, TypedScreen
  <2>3. inSecond.display \in HostScreen
    BY <2>2 DEF ToNextField
  <2>4. Password \in Seq(Letter)
    <3>1. \A ch \in Letter : <<ch>> \in Seq(Letter)
      OBVIOUS
    <3>2. "p" \in Letter
      BY DEF Letter
    <3> QED BY <3>1, <3>2, Zenon DEF Password
  <2>5. typed.display \in HostScreen
    BY <2>3, <2>4, TypedScreen
  <2>6. display' = [typed.display EXCEPT !.open = FALSE]
    BY <1>3 DEF TypeCredentials
  <2> HIDE DEF typed
  <2> QED BY <1>1, <2>5, <2>6
<1>4. CASE EntersCredentials \/ OuterGoesOn
  BY <1>2, <1>3, <1>4 DEF EntersCredentials, OuterGoesOn
<1>5. CASE EntersSignOff
  <2> DEFINE inUser == ToNextField([display |-> display, cursor |-> 0])
  <2>1. inUser.display \in HostScreen
    BY DEF ToNextField
  <2>2. <<"a", "a">> \in Seq(Letter)
    BY DEF Letter
  <2>3. TypeText(inUser, <<"a", "a">>).display \in HostScreen
    BY <2>1, <2>2, TypedScreen
  <2>4. display' = [TypeText(inUser, <<"a", "a">>).display EXCEPT !.open = FALSE]
    BY <1>5 DEF EntersSignOff
  <2> QED BY <1>1, <2>3, <2>4
<1>6. CASE Follows \/ HostRefuses
  BY <1>1, <1>6 DEF Follows, HostRefuses
<1>7. CASE UNCHANGED display
  BY <1>7
<1>8. CASE \E screen \in HostScreens : HostWrites(screen)
  BY <1>8, HostScreensAssumption DEF HostWrites
<1>9. CASE \E row \in 0 .. Rows, col \in 0 .. Cols : SetCursorPosition(row, col)
  BY <1>7, <1>9 DEF SetCursorPosition
<1>10. CASE \E rows \in -Rows .. Rows, cols \in -(Rows * Cols) .. Rows * Cols : MoveCursor(rows, cols)
  BY <1>7, <1>10 DEF MoveCursor
<1>11. CASE \E content \in Contents \cup {Missing}, outcome \in WriteOutcome : WriteFileTool(content, outcome)
  BY <1>7, <1>11 DEF WriteFileTool
<1>12. CASE \/ \E user \in UserNames \cup {NoUser}, given \in BOOLEAN : Login(user, given)
            \/ \E yes \in BOOLEAN : Answered(yes)
            \/ SeesSignOn \/ ExpectTimesOut \/ TabCloses
  BY <1>7, <1>12 DEF Login, Answered, SeesSignOn, ExpectTimesOut, TabCloses
<1> QED BY <1>4, <1>5, <1>6, <1>7, <1>8, <1>9, <1>10, <1>11, <1>12 DEF ToolNext, toolVars

\* Two screens with the same fields, and the same cells but for hidden ones, show
\* the same in every cell.
LEMMA ShownAlike ==
  ASSUME NEW d, NEW e, d.fields = e.fields,
         \A c \in Cell : c \in HiddenCells(d) \/ d.cells[c] = e.cells[c]
  PROVE  \A c \in Cell : DisplayedCharacter(d, c) = DisplayedCharacter(e, c)
  <1>1. HiddenCells(d) = HiddenCells(e)
    BY DEF HiddenCells
  <1> QED BY <1>1 DEF DisplayedCharacter

\* The cells of a row are on the screen, and one apart.
LEMMA RowCells ==
  ASSUME NEW row \in 0 .. Rows - 1, NEW col \in 0 .. Cols - 1
  PROVE  row * Cols + col \in Cell
  <1>1. row * Cols \in Nat /\ row * Cols <= (Rows - 1) * Cols
    BY ScreenAssumption
  <1>2. (Rows - 1) * Cols + Cols = Rows * Cols /\ Rows * Cols \in Nat
    BY ScreenAssumption
  <1> QED BY <1>1, <1>2, ScreenAssumption DEF Cell

\* They read the same by every tool.
LEMMA ReadAlike ==
  ASSUME NEW d, NEW e, d.fields = e.fields,
         \A c \in Cell : DisplayedCharacter(d, c) = DisplayedCharacter(e, c)
  PROVE  Answers(d) = Answers(e)
  <1>0. d.fields = e.fields
    OBVIOUS
  <1>1. ASSUME NEW row \in 0 .. Rows - 1 PROVE RowPart(d, row, 0, Cols) = RowPart(e, row, 0, Cols)
    <2>1. \A i \in 1 .. Cols : row * Cols + 0 + i - 1 = row * Cols + (i - 1) /\ i - 1 \in 0 .. Cols - 1
      BY ScreenAssumption
    <2>2. \A i \in 1 .. Cols : row * Cols + 0 + i - 1 \in Cell
      BY <2>1, RowCells
    <2> QED BY <2>2 DEF RowPart
  <1>2. ReadScreen(d) = ReadScreen(e)
    <2>1. \A r \in 1 .. Rows : r - 1 \in 0 .. Rows - 1
      BY ScreenAssumption
    <2>2. \A r \in 1 .. Rows : ReadLine(d, r - 1) = ReadLine(e, r - 1)
      BY <1>1, <2>1 DEF ReadLine
    <2> QED BY <2>2 DEF ReadScreen
  <1>3. \A text \in SearchTexts : FindText(d, text) = FindText(e, text)
    BY <1>1 DEF FindText
  <1>4. \A row, col : GetFieldAt(d, row, col) = GetFieldAt(e, row, col)
    <2> TAKE row, col
    <2> DEFINE at == { f \in d.fields : row * Cols + col \in FieldCells(f) }
               f == CHOOSE f \in at : TRUE
    <2>1. \A i \in Places(f) : DisplayedCharacter(d, f.start + i - 1) = DisplayedCharacter(e, f.start + i - 1)
      BY DEF Places
    <2>2. [i \in Places(f) |-> DisplayedCharacter(d, f.start + i - 1)]
            = [i \in Places(f) |-> DisplayedCharacter(e, f.start + i - 1)]
      BY <2>1
    <2>3. GetFieldAt(d, row, col)
            = IF ~OnScreen(row, col) \/ at = {} THEN <<>>
              ELSE <<f, [i \in Places(f) |-> DisplayedCharacter(d, f.start + i - 1)]>>
      BY DEF GetFieldAt
    <2> DEFINE there == { g \in e.fields : row * Cols + col \in FieldCells(g) }
               h == CHOOSE g \in there : TRUE
    <2>4. GetFieldAt(e, row, col)
            = IF ~OnScreen(row, col) \/ there = {} THEN <<>>
              ELSE <<h, [i \in Places(h) |-> DisplayedCharacter(e, h.start + i - 1)]>>
      BY DEF GetFieldAt
    <2>5. there = at
      BY <1>0
    <2> HIDE DEF there, at
    <2>6. h = f
      BY <2>5
    <2> HIDE DEF f, h
    <2>7. CASE ~OnScreen(row, col) \/ at = {}
      BY <2>3, <2>4, <2>5, <2>7, Zenon
    <2>8. CASE ~(~OnScreen(row, col) \/ at = {})
      <3>1. GetFieldAt(d, row, col) = <<f, [i \in Places(f) |-> DisplayedCharacter(d, f.start + i - 1)]>>
        BY <2>3, <2>8, Zenon
      <3>2. GetFieldAt(e, row, col) = <<h, [i \in Places(h) |-> DisplayedCharacter(e, h.start + i - 1)]>>
        BY <2>4, <2>5, <2>8, Zenon
      <3>3. GetFieldAt(e, row, col) = <<f, [i \in Places(f) |-> DisplayedCharacter(e, f.start + i - 1)]>>
        BY <3>2, <2>6, Zenon
      <3> QED BY <3>1, <3>3, <2>2, Zenon
    <2> QED BY <2>7, <2>8
  <1> QED BY <1>2, <1>3, <1>4, Zenon DEF Answers

\* What a hidden cell holds is told by no tool.
LEMMA HiddenIsHidden == display \in HostScreen => HiddenStaysHidden
  <1> SUFFICES ASSUME display \in HostScreen PROVE HiddenStaysHidden
    OBVIOUS
  <1> DEFINE Filled(ch) == [display EXCEPT !.cells =
                              [c \in Cell |-> IF c \in HiddenCells(display) THEN ch ELSE @[c]]]
  <1>1. ASSUME NEW ch PROVE /\ Filled(ch).fields = display.fields
                            /\ \A c \in Cell : Filled(ch).cells[c] = IF c \in HiddenCells(display) THEN ch ELSE display.cells[c]
    BY DEF HostScreen
  <1> HIDE DEF Filled
  <1>2. HiddenCells(Filled("p")) = HiddenCells(display)
    BY <1>1 DEF HiddenCells
  <1>3. Filled("p").fields = Filled("a").fields
    BY <1>1
  <1>4. \A c \in Cell : c \in HiddenCells(Filled("p")) \/ Filled("p").cells[c] = Filled("a").cells[c]
    BY <1>1, <1>2
  <1>5. \A c \in Cell : DisplayedCharacter(Filled("p"), c) = DisplayedCharacter(Filled("a"), c)
    BY <1>3, <1>4, ShownAlike
  <1>6. Answers(Filled("p")) = Answers(Filled("a"))
    BY <1>3, <1>5, ReadAlike
  <1> USE DEF Filled
  <1> QED BY <1>6 DEF HiddenStaysHidden

\* What find_text makes of a row from a place on, given what it makes of those behind.
FoundFrom(g, line, text, i) ==
  IF i + Len(text) - 1 > Len(line) THEN {}
  ELSE IF OccursAt(line, text, i) THEN {i - 1} \cup g[i + Len(text)]
  ELSE g[i + 1]

Scanned(g, line, text, k) ==
  /\ g = [i \in k .. Len(line) + Len(text) |-> g[i]]
  /\ \A i \in k .. Len(line) + Len(text) : g[i] = FoundFrom(g, line, text, i)

\* The recursive function of FindInRow exists,
LEMMA ScanExists ==
  ASSUME NEW line, NEW text, Len(line) \in Nat, Len(text) \in Nat \ {0}
  PROVE  \E g : Scanned(g, line, text, 1)
  <1> DEFINE K == Len(line) + Len(text)
             T == {n \in Nat : n < K => \E g : Scanned(g, line, text, K - n)}
  <1>0. Len(line) \in Nat /\ Len(text) \in Nat /\ Len(text) >= 1 /\ K \in Nat /\ K >= 1
    OBVIOUS
  <1>1. 0 \in T
    <2> DEFINE g == [i \in K .. K |-> {}]
    <2>1. g = [i \in K .. K |-> g[i]] /\ \A i \in K .. K : i = K /\ g[i] = {}
      BY <1>0
    <2>2. K + Len(text) - 1 > Len(line)
      BY <1>0
    <2> HIDE DEF g
    <2>3. Scanned(g, line, text, K)
      BY <2>1, <2>2 DEF Scanned, FoundFrom
    <2>4. K - 0 = K
      BY <1>0
    <2> QED BY <2>3, <2>4
  <1>2. ASSUME NEW n \in T PROVE n + 1 \in T
    <2> SUFFICES ASSUME n + 1 < K PROVE \E g : Scanned(g, line, text, K - (n + 1))
      OBVIOUS
    <2> DEFINE k == K - n
    <2>1. n \in Nat /\ n < K /\ k \in Nat /\ k - 1 \in Nat /\ K - (n + 1) = k - 1 /\ k <= K
      BY <1>0
    <2>2. PICK g : Scanned(g, line, text, k)
      BY <2>1
    <2> DEFINE h == [i \in (k - 1) .. K |-> IF i = k - 1 THEN FoundFrom(g, line, text, i) ELSE g[i]]
    <2> HIDE DEF k, K
    <2>3. /\ h = [i \in (k - 1) .. K |-> h[i]]
          /\ h[k - 1] = FoundFrom(g, line, text, k - 1)
          /\ \A i \in k .. K : h[i] = g[i]
      BY <1>0, <2>1
    <2> HIDE DEF h
    <2>4. ASSUME NEW i \in (k - 1) .. K, i + Len(text) - 1 <= Len(line)
          PROVE  i + Len(text) \in k .. K /\ i + 1 \in k .. K
      BY <1>0, <2>1, <2>4 DEF K
    <2>5. ASSUME NEW i \in (k - 1) .. K PROVE FoundFrom(h, line, text, i) = FoundFrom(g, line, text, i)
      <3>1. CASE i + Len(text) - 1 > Len(line)
        BY <3>1 DEF FoundFrom
      <3>2. CASE ~(i + Len(text) - 1 > Len(line))
        <4>1. i \in Nat
          BY <2>1
        <4>2. i + Len(text) \in k .. K /\ i + 1 \in k .. K
          BY <1>0, <2>4, <3>2, <4>1
        <4>3. h[i + Len(text)] = g[i + Len(text)] /\ h[i + 1] = g[i + 1]
          BY <2>3, <4>2
        <4> QED BY <4>3 DEF FoundFrom
      <3> QED BY <3>1, <3>2
    <2>6. ASSUME NEW i \in (k - 1) .. K PROVE h[i] = FoundFrom(h, line, text, i)
      <3>1. CASE i = k - 1
        BY <2>3, <2>5, <3>1
      <3>2. CASE i # k - 1
        <4>1. i \in k .. K
          BY <1>0, <2>1, <3>2
        <4>2. g[i] = FoundFrom(g, line, text, i)
          BY <2>2, <4>1 DEF Scanned, K
        <4> QED BY <2>3, <2>5, <4>1, <4>2
      <3> QED BY <3>1, <3>2
    <2>7. Scanned(h, line, text, k - 1)
      BY <2>3, <2>6 DEF Scanned, K
    <2> QED BY <2>1, <2>7
  <1>3. T \in SUBSET Nat
    OBVIOUS
  <1>4. K - 1 \in Nat /\ K - 1 < K /\ K - (K - 1) = 1
    BY <1>0
  <1> HIDE DEF T
  <1>5. T = Nat
    BY <1>1, <1>2, <1>3, SetInduction
  <1> QED BY <1>4, <1>5 DEF T

\* and what FindInRow returns is what it has from the first place on.
LEMMA FindStages ==
  ASSUME NEW line, NEW text, Len(line) \in Nat, Len(text) \in Nat \ {0}
  PROVE  \E g : Scanned(g, line, text, 1) /\ FindInRow(line, text) = g[1]
  <1> DEFINE Made(f) == [i \in 1 .. Len(line) + Len(text) |->
                           IF i + Len(text) - 1 > Len(line) THEN {}
                           ELSE IF OccursAt(line, text, i) THEN {i - 1} \cup f[i + Len(text)]
                           ELSE f[i + 1]]
             matches == CHOOSE f : f = Made(f)
  <1>1. PICK g : Scanned(g, line, text, 1)
    BY ScanExists
  <1>2. g = Made(g)
    <2>1. \A i \in 1 .. Len(line) + Len(text) : g[i] = Made(g)[i]
      BY <1>1 DEF Scanned, FoundFrom
    <2> QED BY <1>1, <2>1 DEF Scanned
  <1>3. matches = Made(matches)
    BY <1>2
  <1>4. FindInRow(line, text) = matches[1]
    BY DEF FindInRow
  <1> HIDE DEF matches
  <1>5. Scanned(matches, line, text, 1)
    <2>1. matches = [i \in 1 .. Len(line) + Len(text) |-> matches[i]]
      BY <1>3
    <2>2. \A i \in 1 .. Len(line) + Len(text) : matches[i] = FoundFrom(matches, line, text, i)
      BY <1>3 DEF FoundFrom
    <2> QED BY <2>1, <2>2 DEF Scanned
  <1> QED BY <1>4, <1>5

\* Places where a text is, none overlapping another, and none left out that is
\* apart from all of them.
FoundTrue(found, line, text, i) ==
  /\ \A p \in found : p \in Nat /\ p >= i - 1 /\ p + Len(text) <= Len(line) /\ OccursAt(line, text, p + 1)
  /\ \A p, q \in found : p # q => (p + Len(text) <= q \/ q + Len(text) <= p)
  /\ \A p \in Nat : (p >= i - 1 /\ p + Len(text) <= Len(line) /\ OccursAt(line, text, p + 1) /\ p \notin found)
       => \E q \in found : p < q + Len(text) /\ q < p + Len(text)

\* One place more, from the right.
LEMMA FoundStep ==
  ASSUME NEW line, NEW text, Len(line) \in Nat, Len(text) \in Nat \ {0}, NEW i \in Nat \ {0}, NEW g,
         i + Len(text) - 1 <= Len(line) =>
           FoundTrue(g[i + Len(text)], line, text, i + Len(text)) /\ FoundTrue(g[i + 1], line, text, i + 1)
  PROVE  FoundTrue(FoundFrom(g, line, text, i), line, text, i)
  <1> DEFINE L == Len(line)
             T == Len(text)
  <1>0. L \in Nat /\ T \in Nat /\ T >= 1
    OBVIOUS
  <1>1. CASE i + Len(text) - 1 > Len(line)
    <2>1. FoundFrom(g, line, text, i) = {}
      BY <1>1 DEF FoundFrom
    <2> QED BY <1>0, <1>1, <2>1 DEF FoundTrue
  <1>2. CASE i + Len(text) - 1 <= Len(line) /\ OccursAt(line, text, i)
    <2> DEFINE more == g[i + Len(text)]
    <2>1. FoundFrom(g, line, text, i) = {i - 1} \cup more
      BY <1>0, <1>2 DEF FoundFrom
    <2>2. FoundTrue(more, line, text, i + Len(text))
      BY <1>2
    <2> HIDE DEF more
    <2>3. \A p \in more : p \in Nat /\ p >= i + T - 1 /\ p + T <= L /\ OccursAt(line, text, p + 1)
      BY <2>2 DEF FoundTrue
    <2>4. \A p, q \in more : p # q => (p + T <= q \/ q + T <= p)
      BY <2>2 DEF FoundTrue
    <2>5. \A p \in Nat : (p >= i + T - 1 /\ p + T <= L /\ OccursAt(line, text, p + 1) /\ p \notin more)
             => \E q \in more : p < q + T /\ q < p + T
      BY <2>2 DEF FoundTrue
    <2>6. (i - 1) + 1 = i /\ i - 1 \in Nat /\ i - 1 + T <= L
      BY <1>0, <1>2
    <2>7. \A p \in {i - 1} \cup more : p \in Nat /\ p >= i - 1 /\ p + T <= L /\ OccursAt(line, text, p + 1)
      BY <1>0, <1>2, <2>3, <2>6
    <2>8. \A p, q \in {i - 1} \cup more : p # q => (p + T <= q \/ q + T <= p)
      BY <1>0, <2>3, <2>4, <2>6
    <2>9. ASSUME NEW p \in Nat, p >= i - 1, p + T <= L, OccursAt(line, text, p + 1), p \notin {i - 1} \cup more
          PROVE  \E q \in {i - 1} \cup more : p < q + T /\ q < p + T
      <3>1. CASE p >= i + T - 1
        BY <2>5, <2>9, <3>1
      <3>2. CASE p < i + T - 1
        <4>1. p < (i - 1) + T /\ i - 1 < p + T
          BY <1>0, <2>6, <2>9, <3>2
        <4> QED BY <4>1
      <3> QED BY <1>0, <2>6, <2>9, <3>1, <3>2
    <2> QED BY <2>1, <2>7, <2>8, <2>9 DEF FoundTrue
  <1>3. CASE i + Len(text) - 1 <= Len(line) /\ ~OccursAt(line, text, i)
    <2> DEFINE more == g[i + 1]
    <2>1. FoundFrom(g, line, text, i) = more
      BY <1>0, <1>3 DEF FoundFrom
    <2>2. FoundTrue(more, line, text, i + 1)
      BY <1>3
    <2> HIDE DEF more
    <2>3. \A p \in more : p \in Nat /\ p >= i /\ p + T <= L /\ OccursAt(line, text, p + 1)
      BY <2>2 DEF FoundTrue
    <2>4. \A p, q \in more : p # q => (p + T <= q \/ q + T <= p)
      BY <2>2 DEF FoundTrue
    <2>5. \A p \in Nat : (p >= i /\ p + T <= L /\ OccursAt(line, text, p + 1) /\ p \notin more)
             => \E q \in more : p < q + T /\ q < p + T
      BY <2>2 DEF FoundTrue
    <2>6. \A p \in Nat : (p >= i - 1 /\ OccursAt(line, text, p + 1)) => p >= i
      <3> SUFFICES ASSUME NEW p \in Nat, p >= i - 1, OccursAt(line, text, p + 1), ~(p >= i) PROVE FALSE
        OBVIOUS
      <3>1. p + 1 = i
        OBVIOUS
      <3> QED BY <1>3, <3>1
    <2>7. \A p \in more : p >= i - 1
      BY <2>3
    <2>8. \A p \in Nat : (p >= i - 1 /\ p + T <= L /\ OccursAt(line, text, p + 1) /\ p \notin more)
             => \E q \in more : p < q + T /\ q < p + T
      BY <2>5, <2>6
    <2> QED BY <2>1, <2>3, <2>4, <2>7, <2>8 DEF FoundTrue
  <1> QED BY <1>0, <1>1, <1>2, <1>3

LEMMA FoundInRow ==
  ASSUME NEW line, NEW text, Len(line) \in Nat, Len(text) \in Nat \ {0}
  PROVE  FoundTrue(FindInRow(line, text), line, text, 1)
  <1>1. PICK g : Scanned(g, line, text, 1) /\ FindInRow(line, text) = g[1]
    BY FindStages
  <1> DEFINE K == Len(line) + Len(text)
             T == {n \in Nat : \A i \in 1 .. K : i >= K - n => FoundTrue(g[i], line, text, i)}
  <1>0. Len(line) \in Nat /\ Len(text) \in Nat /\ Len(text) >= 1 /\ K \in Nat /\ K >= 1
    OBVIOUS
  <1>2. ASSUME NEW i \in 1 .. K, \A j \in 1 .. K : j > i => FoundTrue(g[j], line, text, j)
        PROVE  FoundTrue(g[i], line, text, i)
    <2>1. g[i] = FoundFrom(g, line, text, i)
      BY <1>1 DEF Scanned
    <2>2. ASSUME i + Len(text) - 1 <= Len(line)
          PROVE FoundTrue(g[i + Len(text)], line, text, i + Len(text)) /\ FoundTrue(g[i + 1], line, text, i + 1)
      <3>1. i + Len(text) \in 1 .. K /\ i + 1 \in 1 .. K /\ i + Len(text) > i /\ i + 1 > i
        BY <1>0, <2>2
      <3> QED BY <1>2, <3>1
    <2>3. i \in Nat \ {0}
      BY <1>0
    <2>4. FoundTrue(FoundFrom(g, line, text, i), line, text, i)
      BY <2>2, <2>3, FoundStep
    <2> QED BY <2>1, <2>4
  <1>3. 0 \in T
    <2>1. ASSUME NEW i \in 1 .. K, i >= K - 0 PROVE FoundTrue(g[i], line, text, i)
      <3>1. \A j \in 1 .. K : ~(j > i)
        BY <1>0, <2>1
      <3> QED BY <1>2, <3>1
    <2> QED BY <2>1
  <1>4. ASSUME NEW n \in T PROVE n + 1 \in T
    <2>1. n \in Nat /\ \A i \in 1 .. K : i >= K - n => FoundTrue(g[i], line, text, i)
      OBVIOUS
    <2>2. ASSUME NEW i \in 1 .. K, i >= K - (n + 1) PROVE FoundTrue(g[i], line, text, i)
      <3>1. \A j \in 1 .. K : j > i => j >= K - n
        BY <1>0, <2>1, <2>2
      <3> QED BY <1>2, <2>1, <3>1
    <2> QED BY <2>1, <2>2
  <1>5. T \in SUBSET Nat
    OBVIOUS
  <1>6. 1 \in 1 .. K /\ 1 >= K - K
    BY <1>0
  <1> HIDE DEF T
  <1>7. T = Nat
    BY <1>3, <1>4, <1>5, SetInduction
  <1>8. K \in T
    BY <1>0, <1>7
  <1> QED BY <1>1, <1>6, <1>8 DEF T

\* A row as find_text reads it.
LineOf(d, row) == RowPart(d, row, 0, Cols)

LEMMA LineShown ==
  ASSUME NEW d, NEW row \in 0 .. Rows - 1
  PROVE  /\ Len(LineOf(d, row)) = Cols
         /\ \A i \in 1 .. Cols : LineOf(d, row)[i] = DisplayedCharacter(d, row * Cols + i - 1)
  <1>1. Cols \in Nat /\ LineOf(d, row) = [i \in 1 .. Cols |-> DisplayedCharacter(d, row * Cols + 0 + i - 1)]
    BY ScreenAssumption DEF LineOf, RowPart
  <1>2. \A i \in 1 .. Cols : row * Cols + 0 + i - 1 = row * Cols + i - 1
    BY ScreenAssumption
  <1> QED BY <1>1, <1>2

\* A text is where find_text looks when it is what the screen shows there.
LEMMA OccursAsShown ==
  ASSUME NEW d, NEW row \in 0 .. Rows - 1, NEW text, Len(text) \in Nat, NEW p \in Nat, p + Len(text) <= Cols
  PROVE  OccursAt(LineOf(d, row), text, p + 1)
           <=> SameText([i \in 1 .. Len(text) |-> DisplayedCharacter(d, row * Cols + p + i - 1)], text)
  <1> DEFINE part == SubSeq(LineOf(d, row), p + 1, p + 1 + Len(text) - 1)
             shown == [i \in 1 .. Len(text) |-> DisplayedCharacter(d, row * Cols + p + i - 1)]
  <1>0. Cols \in Nat /\ Rows \in Nat /\ row * Cols \in Int
    BY ScreenAssumption
  <1>1. part = [i \in 1 .. Len(text) |-> LineOf(d, row)[i + (p + 1) - 1]]
    <2>1. 1 + (p + 1 + Len(text) - 1) - (p + 1) = Len(text)
      OBVIOUS
    <2> DEFINE S == { LineOf(d, row)[i] : i \in 1 .. Cols }
               n == p + 1 + Len(text) - 1
    <2>2. /\ p + 1 \in Int /\ n \in Int /\ n - (p + 1) + 1 = Len(text)
          /\ \A i \in 1 .. Len(text) : (p + 1) + i - 1 = i + (p + 1) - 1
      BY <1>0
    <2>3. \A i \in p + 1 .. n : LineOf(d, row)[i] \in S
      BY <1>0
    <2>4. IF p + 1 <= n THEN Len(text) = n - (p + 1) + 1 ELSE Len(text) = 0
      BY <1>0
    <2> HIDE DEF S, n
    <2>5. /\ SubSeq(LineOf(d, row), p + 1, n) \in Seq(S)
          /\ Len(SubSeq(LineOf(d, row), p + 1, n)) = Len(text)
          /\ \A i \in 1 .. Len(text) : SubSeq(LineOf(d, row), p + 1, n)[i] = LineOf(d, row)[i + (p + 1) - 1]
      BY <2>2, <2>3, <2>4, SubSeqProperties
    <2>6. part = SubSeq(LineOf(d, row), p + 1, n)
      BY DEF n
    <2> HIDE DEF part
    <2>7. part \in Seq(S) /\ Len(part) = Len(text)
      BY <2>5, <2>6
    <2>8. part = [i \in 1 .. Len(text) |-> part[i]]
      BY <2>7
    <2>9. \A i \in 1 .. Len(text) : part[i] = LineOf(d, row)[i + (p + 1) - 1]
      BY <2>5, <2>6
    <2> QED BY <2>8, <2>9
  <1>2. \A i \in 1 .. Len(text) : LineOf(d, row)[i + (p + 1) - 1] = DisplayedCharacter(d, row * Cols + p + i - 1)
    <2> TAKE i \in 1 .. Len(text)
    <2>1. i + (p + 1) - 1 \in 1 .. Cols /\ row * Cols + (i + (p + 1) - 1) - 1 = row * Cols + p + i - 1
      BY <1>0
    <2> QED BY <2>1, LineShown
  <1>3. part = shown
    BY <1>1, <1>2
  <1> HIDE DEF part, shown
  <1>4. OccursAt(LineOf(d, row), text, p + 1) <=> SameText(part, text)
    BY DEF OccursAt, part
  <1> QED BY <1>3, <1>4 DEF shown

\* A cell's row and column.
LEMMA CellPlace ==
  ASSUME NEW c \in Cell
  PROVE  /\ c \div Cols \in 0 .. Rows - 1 /\ c % Cols \in 0 .. Cols - 1
         /\ c = (c \div Cols) * Cols + (c % Cols)
  <1>0. Cols \in Nat \ {0} /\ Rows \in Nat \ {0} /\ c \in Nat /\ c < Rows * Cols
    BY ScreenAssumption DEF Cell
  <1>1. c = (c \div Cols) * Cols + (c % Cols) /\ c % Cols \in 0 .. Cols - 1 /\ c \div Cols \in Int
    BY <1>0
  <1>2. c \div Cols >= 0
    BY <1>0
  <1>3. c \div Cols < Rows
    <2> SUFFICES ASSUME c \div Cols >= Rows PROVE FALSE
      BY <1>0, <1>1
    <2> DEFINE r == c \div Cols
    <2>1. r \in Int /\ r >= Rows /\ c >= r * Cols
      BY <1>0, <1>1
    <2> HIDE DEF r
    <2>2. r * Cols >= Rows * Cols
      BY <1>0, <2>1
    <2> QED BY <1>0, <2>1, <2>2
  <1> QED BY <1>0, <1>1, <1>2, <1>3

LEMMA PlaceOf ==
  ASSUME NEW row \in 0 .. Rows - 1, NEW col \in 0 .. Cols - 1
  PROVE  (row * Cols + col) % Cols = col /\ (row * Cols + col) \div Cols = row
  <1>0. Cols \in Nat \ {0} /\ Rows \in Nat \ {0}
    BY ScreenAssumption
  <1> DEFINE c == row * Cols + col
             r == c \div Cols
             k == c % Cols
  <1>1. c \in Cell
    BY RowCells
  <1> HIDE DEF c
  <1>2. r \in 0 .. Rows - 1 /\ k \in 0 .. Cols - 1 /\ c = r * Cols + k
    BY <1>1, CellPlace
  <1> HIDE DEF r, k
  <1>3. r * Cols + k = row * Cols + col
    BY <1>2 DEF c
  <1>4. ~(r < row)
    <2> SUFFICES ASSUME r < row PROVE FALSE
      OBVIOUS
    <2>1. (row - r) * Cols = k - col /\ row - r >= 1
      BY <1>0, <1>2, <1>3
    <2>2. (row - r) * Cols >= Cols
      BY <1>0, <1>2, <2>1
    <2> QED BY <1>0, <1>2, <2>1, <2>2
  <1>5. ~(row < r)
    <2> SUFFICES ASSUME row < r PROVE FALSE
      OBVIOUS
    <2>1. (r - row) * Cols = col - k /\ r - row >= 1
      BY <1>0, <1>2, <1>3
    <2>2. (r - row) * Cols >= Cols
      BY <1>0, <1>2, <2>1
    <2> QED BY <1>0, <1>2, <2>1, <2>2
  <1>6. r = row /\ k = col
    BY <1>0, <1>2, <1>3, <1>4, <1>5
  <1> QED BY <1>6 DEF r, k, c

\* The text is at a place of the screen, within one row.
IsAt(d, text, p) ==
  /\ (p % Cols) + Len(text) <= Cols
  /\ SameText([i \in 1 .. Len(text) |-> DisplayedCharacter(d, p + i - 1)], text)

\* find_text has it at that place of that row.
LEMMA FoundPlace ==
  ASSUME NEW d, NEW text, Len(text) \in Nat \ {0}, NEW row \in 0 .. Rows - 1, NEW col \in 0 .. Cols - 1,
         col + Len(text) <= Cols
  PROVE  IsAt(d, text, row * Cols + col) <=> OccursAt(LineOf(d, row), text, col + 1)
  <1>1. (row * Cols + col) % Cols = col
    BY PlaceOf
  <1>2. col \in Nat /\ Len(text) \in Nat
    OBVIOUS
  <1> QED BY <1>1, <1>2, OccursAsShown DEF IsAt

\* In each row find_text has places where the text is, apart from each other, and
\* none is left out that is apart from all of them.
LEMMA RowFound ==
  ASSUME NEW d, NEW text, Len(text) \in Nat \ {0}, NEW row \in 0 .. Rows - 1
  PROVE  FoundTrue(FindInRow(LineOf(d, row), text), LineOf(d, row), text, 1)
  <1>1. Len(LineOf(d, row)) \in Nat
    BY LineShown, ScreenAssumption
  <1> QED BY <1>1, FoundInRow

LEMMA TextFound ==
  ASSUME NEW d, NEW text, Len(text) \in Nat \ {0}
  PROVE  \A p : p \in FindText(d, text) <=>
           \E row \in 0 .. Rows - 1, col \in 0 .. Cols - 1 :
              p = row * Cols + col /\ col \in FindInRow(LineOf(d, row), text)
  <1>0. Cols \in Nat
    BY ScreenAssumption
  <1>1. ASSUME NEW row \in 0 .. Rows - 1, NEW col \in FindInRow(LineOf(d, row), text)
        PROVE  col \in 0 .. Cols - 1
    <2>1. col \in Nat /\ col + Len(text) <= Len(LineOf(d, row))
      BY <1>1, RowFound DEF FoundTrue
    <2> QED BY <1>0, <2>1, LineShown
  <1>2. \A p : p \in FindText(d, text) <=>
           \E row \in 0 .. Rows - 1 : \E col \in FindInRow(LineOf(d, row), text) : p = row * Cols + col
    BY DEF FindText, LineOf
  <1> QED BY <1>1, <1>2

\* Within find_text's places of one row.
LEMMA FoundIs ==
  ASSUME NEW d, NEW text, Len(text) \in Nat \ {0}, NEW row \in 0 .. Rows - 1, NEW col \in 0 .. Cols - 1,
         col \in FindInRow(LineOf(d, row), text)
  PROVE  col + Len(text) <= Cols /\ IsAt(d, text, row * Cols + col)
  <1>1. col + Len(text) <= Len(LineOf(d, row)) /\ OccursAt(LineOf(d, row), text, col + 1)
    BY RowFound DEF FoundTrue
  <1>2. col + Len(text) <= Cols
    BY <1>1, LineShown
  <1> QED BY <1>1, <1>2, FoundPlace

\* Rows do not overlap.
LEMMA RowsApart ==
  ASSUME NEW r \in 0 .. Rows - 1, NEW s \in 0 .. Rows - 1, r < s, NEW n \in Nat,
         NEW c \in 0 .. Cols - 1, c + n <= Cols, NEW e \in 0 .. Cols - 1
  PROVE  r * Cols + c + n <= s * Cols + e
  <1>0. Cols \in Nat \ {0} /\ Rows \in Nat
    BY ScreenAssumption
  <1>1. (s - r) * Cols >= Cols
    BY <1>0
  <1>2. s * Cols - r * Cols >= Cols
    BY <1>0, <1>1
  <1>3. r * Cols \in Int /\ s * Cols \in Int
    BY <1>0
  <1> QED BY <1>0, <1>2, <1>3

\* The matches of a text are true, apart and complete.
LEMMA FoundIsTrue ==
  ASSUME NEW d, NEW text, Len(text) \in Nat \ {0}
  PROVE  LET found == FindText(d, text)
             Covers(p) == p .. p + Len(text) - 1
         IN  /\ \A p \in found : IsAt(d, text, p)
             /\ \A p, q \in found : p # q => Covers(p) \cap Covers(q) = {}
             /\ \A p \in Cell \ found : IsAt(d, text, p) => \E q \in found : Covers(p) \cap Covers(q) # {}
  <1> DEFINE found == FindText(d, text)
             Covers(p) == p .. p + Len(text) - 1
             n == Len(text)
  <1>0. Cols \in Nat \ {0} /\ Rows \in Nat \ {0} /\ n \in Nat /\ n >= 1
    BY ScreenAssumption
  <1>1. \A p \in found : IsAt(d, text, p)
    BY TextFound, FoundIs
  <1>2. ASSUME NEW p \in found, NEW q \in found, p # q PROVE Covers(p) \cap Covers(q) = {}
    <2>1. PICK r \in 0 .. Rows - 1, c \in 0 .. Cols - 1 : p = r * Cols + c /\ c \in FindInRow(LineOf(d, r), text)
      BY <1>2, TextFound
    <2>2. PICK s \in 0 .. Rows - 1, e \in 0 .. Cols - 1 : q = s * Cols + e /\ e \in FindInRow(LineOf(d, s), text)
      BY <1>2, TextFound
    <2>3. c + n <= Cols /\ e + n <= Cols
      BY <2>1, <2>2, FoundIs
    <2>4. p \in Int /\ q \in Int
      BY <1>0, <2>1, <2>2
    <2>5. p + n <= q \/ q + n <= p
      <3>1. CASE r < s
        BY <1>0, <2>1, <2>2, <2>3, <3>1, RowsApart
      <3>2. CASE s < r
        BY <1>0, <2>1, <2>2, <2>3, <3>2, RowsApart
      <3>3. CASE r = s
        <4>1. c # e
          BY <1>2, <2>1, <2>2, <3>3
        <4>2. c + n <= e \/ e + n <= c
          BY <2>1, <2>2, <3>3, <4>1, RowFound DEF FoundTrue
        <4>3. r * Cols \in Int
          BY <1>0
        <4> QED BY <1>0, <2>1, <2>2, <3>3, <4>2, <4>3
      <3> QED BY <2>1, <2>2, <3>1, <3>2, <3>3
    <2> QED BY <1>0, <2>4, <2>5
  <1>3. ASSUME NEW p \in Cell \ found, IsAt(d, text, p) PROVE \E q \in found : Covers(p) \cap Covers(q) # {}
    <2> DEFINE r == p \div Cols
               c == p % Cols
    <2>1. r \in 0 .. Rows - 1 /\ c \in 0 .. Cols - 1 /\ p = r * Cols + c
      BY <1>3, CellPlace
    <2>2. c + n <= Cols
      BY <1>3 DEF IsAt
    <2> HIDE DEF r, c
    <2>3. OccursAt(LineOf(d, r), text, c + 1)
      BY <1>3, <2>1, <2>2, FoundPlace
    <2>4. c \notin FindInRow(LineOf(d, r), text)
      BY <1>3, <2>1, TextFound
    <2>5. c \in Nat /\ c >= 1 - 1 /\ c + Len(text) <= Len(LineOf(d, r))
      BY <2>1, <2>2, LineShown
    <2>6. PICK e \in FindInRow(LineOf(d, r), text) : c < e + n /\ e < c + n
      BY <2>1, <2>3, <2>4, <2>5, RowFound DEF FoundTrue
    <2>7. e \in Nat /\ e + n <= Cols
      <3>1. e \in Nat /\ e + Len(text) <= Len(LineOf(d, r))
        BY <2>1, <2>6, RowFound DEF FoundTrue
      <3>2. Len(LineOf(d, r)) = Cols
        BY <2>1, LineShown
      <3> QED BY <3>1, <3>2
    <2>8. e \in 0 .. Cols - 1
      BY <1>0, <2>7
    <2> DEFINE q == r * Cols + e
    <2>9. q \in found
      BY <2>1, <2>6, <2>8, TextFound
    <2>10. p < q + n /\ q < p + n /\ p \in Int /\ q \in Int
      <3>1. r * Cols \in Int
        BY <1>0, <2>1
      <3> QED BY <1>0, <2>1, <2>6, <2>7, <3>1
    <2> HIDE DEF q
    <2>11. PICK k \in Int : k = IF p <= q THEN q ELSE p
      BY <2>10
    <2>12. k \in Covers(p) /\ k \in Covers(q)
      BY <1>0, <2>10, <2>11
    <2>13. Covers(p) \cap Covers(q) # {}
      BY <2>12, Zenon
    <2> QED BY <2>9, <2>13
  <1> QED BY <1>1, <1>2, <1>3

\* A region that is accepted lies on the screen and reads as its rows do.
LEMMA RegionsRead ==
  ASSUME NEW r \in Regions
  PROVE  /\ OnScreen(r.row, r.col) /\ OnScreen(r.row + r.rows - 1, r.col + r.cols - 1)
         /\ r.col = 0 /\ r.cols = Cols =>
              \A i \in 1 .. r.rows : ReadRegion(display, r.row, 0, r.rows, Cols)[i] = ReadLine(display, r.row + i - 1)
  <1>1. /\ r.row \in Int /\ r.col \in Int /\ r.rows \in Int /\ r.cols \in Int
        /\ RegionAccepted(r.row, r.col, r.rows, r.cols)
    BY ScreenAssumption DEF Regions
  <1>2. OnScreen(r.row, r.col) /\ OnScreen(r.row + r.rows - 1, r.col + r.cols - 1)
    BY <1>1, ScreenAssumption DEF RegionAccepted, OnScreen
  <1>3. \A i \in 1 .. r.rows : ReadRegion(display, r.row, 0, r.rows, Cols)[i] = ReadLine(display, r.row + i - 1)
    BY DEF ReadRegion, ReadLine
  <1> QED BY <1>2, <1>3

LEMMA ReadsAreRight == AnswersAreTrue
  <1>1. \A text \in SearchTexts : Len(text) \in Nat \ {0}
    BY SearchAssumption
  <1>2. ASSUME NEW text \in SearchTexts
        PROVE  LET found == FindText(display, text)
                   Covers(p) == p .. p + Len(text) - 1
                   Real(p) == /\ (p % Cols) + Len(text) <= Cols
                              /\ SameText([i \in 1 .. Len(text) |-> DisplayedCharacter(display, p + i - 1)], text)
               IN  /\ \A p \in found : Real(p)
                   /\ \A p, q \in found : p # q => Covers(p) \cap Covers(q) = {}
                   /\ \A p \in Cell \ found : Real(p) => \E q \in found : Covers(p) \cap Covers(q) # {}
    BY <1>1, <1>2, FoundIsTrue DEF IsAt
  <1> QED BY <1>2, RegionsRead DEF AnswersAreTrue

\* Whatever a client reads is what the screen shows, and nothing hidden
\* (McpToolHandler.cpp, handleReadScreen to handleReadRegion).
THEOREM ReadingIsTrue == ToolSpec => []ReadsAreTrue
<1>1. ToolInit => LoginOK /\ display \in HostScreen
  BY LoginStarts, HostScreensAssumption DEF ToolInit
<1>2. (LoginOK /\ display \in HostScreen) /\ [ToolNext]_toolVars => (LoginOK /\ display \in HostScreen)'
  BY LoginKept, ScreenKept
<1>3. LoginOK /\ display \in HostScreen => ReadsAreTrue
  BY HiddenIsHidden, ReadsAreRight DEF ReadsAreTrue
<1> QED BY <1>1, <1>2, <1>3, PTL DEF ToolSpec
===============================================================================
