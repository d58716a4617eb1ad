---------------------------- MODULE McpServerProofs ----------------------------
(***************************************************************************)
(* Proofs about the MCP server, for any clients, sessions and requests:    *)
(* its guards say what is under way however deep the nested loops go, and  *)
(* calls are carried out once, in order, on open connections only.         *)
(***************************************************************************)
EXTENDS McpServer, SequenceTheorems, TLAPS

-----------------------------------------------------------------------------
(* The invariant.                                                          *)

ConnState == {"none", "open", "closing", "closed", "gone"}
InCall == {"call", "wait", "return"}
Frame == {f \in [on : Connections, phase : {"first", "drain"} \cup InCall, member : Nat,
                 session : Sessions \cup {"none"}] :
            f.phase \notin InCall => f.member = 1}

TypeOK ==
  /\ listening \in BOOLEAN
  /\ conn \in [Connections -> ConnState]
  /\ sent \in [Connections -> Seq(Requests)]
  /\ taken \in [Connections -> Nat]
  /\ signalled \in [Connections -> BOOLEAN]
  /\ busy \in [Connections -> BOOLEAN]
  /\ idle \in [Connections -> BOOLEAN]
  /\ stack \in Seq(Frame)
  /\ ran \in [Connections -> Seq(Nat \X Nat)]

\* A socket is served by one handler, exactly while it counts as busy.
Alone == \A i, j \in 1 .. Len(stack) : stack[i].on = stack[j].on => i = j
BusyIsServed == \A c \in Connections : busy[c] <=> \E i \in 1 .. Len(stack) : stack[i].on = c

\* All handlers but the latest wait in their loops.
OthersWait == \A i \in 1 .. Len(stack) - 1 : stack[i].phase = "wait"

\* A handler in a call holds the request of it.
Holds(f) ==
  /\ HasRequest(f.on)
  /\ Current(f.on).kind \in {"single", "batch"}
  /\ f.member \in 1 .. Len(Current(f.on).calls)
CallsHeld == \A i \in 1 .. Len(stack) : stack[i].phase \in InCall => Holds(stack[i])

\* A call that is next to be carried out may be.
MayCall == \A i \in 1 .. Len(stack) : stack[i].phase = "call" => MayHandle(stack[i].on)

\* Nothing is posted for a socket that is not there.
Posted ==
  \A c \in Connections : /\ signalled[c] => conn[c] \notin {"none", "gone"}
                         /\ conn[c] = "none" => ~busy[c]

\* What was carried out is behind the call in hand.
Passed(f, m) == IF f.phase = "call" THEN m < f.member ELSE m <= f.member
Behind(c, e) ==
  \/ e[1] <= taken[c]
  \/ /\ e[1] = taken[c] + 1
     /\ \E i \in 1 .. Len(stack) : /\ stack[i].on = c /\ stack[i].phase \in InCall
                                   /\ Passed(stack[i], e[2])
RanBehind ==
  \A c \in Connections :
    conn[c] # "gone" => \A i \in 1 .. Len(ran[c]) : Behind(c, ran[c][i])

RanInOrder ==
  \A c \in Connections : \A i \in 1 .. Len(ran[c]) - 1 : Before(ran[c][i], ran[c][i + 1])

\* The guards, one by one.
WaitApart ==
  \A i, j \in 1 .. Len(stack) :
    /\ stack[i].phase = "wait" /\ stack[j].phase = "wait"
    /\ stack[i].session = stack[j].session
    => i = j
Waiting(s) == \E i \in 1 .. Len(stack) : stack[i].phase = "wait" /\ stack[i].session = s
BusyWaits == \A s : s \in busySessions <=> Waiting(s)
IdleTimed == \A c \in Connections : conn[c] = "open" => (idle[c] <=> ~busy[c])

ServerInv ==
  /\ TypeOK
  /\ Alone /\ BusyIsServed /\ OthersWait /\ CallsHeld /\ MayCall /\ Posted
  /\ RanBehind /\ RanInOrder
  /\ WaitApart /\ BusyWaits /\ IdleTimed

\* Together they are the property.
LEMMA GuardsFollow ==
  ASSUME ServerInv
  PROVE  GuardsMatchCalls
  <1>1. WaitApart /\ BusyWaits /\ IdleTimed
    BY DEF ServerInv
  <1>2. busySessions = {stack[i].session : i \in {k \in 1 .. Len(stack) : stack[k].phase = "wait"}}
    BY <1>1 DEF BusyWaits, Waiting
  <1> QED BY <1>1, <1>2 DEF GuardsMatchCalls, WaitApart, IdleTimed

-----------------------------------------------------------------------------
(* The stack.                                                              *)

\* Its latest handler, and those below it.
LEMMA StackTop ==
  ASSUME NEW s \in Seq(Frame), s # << >>
  PROVE  /\ Len(s) \in Nat /\ Len(s) > 0 /\ Last(s) = s[Len(s)] /\ s[Len(s)] \in Frame
         /\ Front(s) \in Seq(Frame) /\ Len(Front(s)) = Len(s) - 1
         /\ \A i \in 1 .. Len(s) - 1 : Front(s)[i] = s[i]
  <1> DEFINE n == Len(s)
             b == Front(s)
  <1>1. n \in Nat /\ n > 0
    BY EmptySeq
  <1>2. s[n] \in Frame
    BY <1>1
  <1>3. b \in Seq(Frame) /\ Len(b) = n - 1 /\ \A i \in 1 .. n - 1 : b[i] = s[i]
    <2>1. 1 \in 1 .. n + 1 /\ n - 1 \in 1 - 1 .. n
      BY <1>1
    <2>2. /\ b \in Seq(Frame) /\ Len(b) = (IF 1 <= n - 1 THEN (n - 1) - 1 + 1 ELSE 0)
          /\ \A i \in 1 .. (n - 1) - 1 + 1 : b[i] = s[1 + i - 1]
      BY <2>1, SubSeqProperties DEF Front
    <2>3. (n - 1) - 1 + 1 = n - 1 /\ \A i \in 1 .. n - 1 : 1 + i - 1 = i
      BY <1>1
    <2> HIDE DEF n, b
    <2> QED BY <1>1, <2>2, <2>3
  <1> QED BY <1>1, <1>2, <1>3 DEF Last

\* The latest goes on in another phase.
LEMMA StackIs ==
  ASSUME NEW s \in Seq(Frame), s # << >>, NEW f \in Frame
  PROVE  /\ Front(s) \o <<f>> \in Seq(Frame) /\ Len(Front(s) \o <<f>>) = Len(s)
         /\ \A i \in 1 .. Len(s) - 1 : (Front(s) \o <<f>>)[i] = s[i]
         /\ (Front(s) \o <<f>>)[Len(s)] = f
  <1> DEFINE n == Len(s)
             b == Front(s)
             t == b \o <<f>>
  <1>1. /\ n \in Nat /\ n > 0
        /\ b \in Seq(Frame) /\ Len(b) = n - 1 /\ \A i \in 1 .. n - 1 : b[i] = s[i]
    BY StackTop
  <1> HIDE DEF b
  <1>2. <<f>> \in Seq(Frame) /\ Len(<<f>>) = 1 /\ <<f>>[1] = f
    OBVIOUS
  <1>3. /\ t \in Seq(Frame) /\ Len(t) = Len(b) + 1
        /\ \A i \in 1 .. Len(b) + 1 : t[i] = IF i <= Len(b) THEN b[i] ELSE <<f>>[i - Len(b)]
    BY <1>1, <1>2, ConcatProperties
  <1> HIDE DEF t
  <1>4. Len(t) = n /\ \A i \in 1 .. n - 1 : t[i] = s[i]
    BY <1>1, <1>3
  <1>5. t[n] = f
    <2>0. Len(b) = n - 1 /\ n \in Nat /\ n > 0
      BY <1>1
    <2>1. n \in 1 .. Len(b) + 1 /\ ~(n <= Len(b)) /\ n - Len(b) = 1
      <3> HIDE DEF n
      <3> QED BY <2>0
    <2>2. t[n] = <<f>>[n - Len(b)]
      BY <1>3, <2>1
    <2> QED BY <1>2, <2>1, <2>2
  <1> QED BY <1>3, <1>4, <1>5 DEF t, b

-----------------------------------------------------------------------------
(* What the event loop delivers.                                           *)

\* In the event loop nothing is being carried out.
LEMMA LoopWaits ==
  ASSUME ServerInv, InLoop
  PROVE  \A i \in 1 .. Len(stack) : stack[i].phase = "wait"
  <1>1. stack \in Seq(Frame) /\ OthersWait
    BY DEF ServerInv, TypeOK
  <1>2. CASE stack = << >>
    BY <1>2, EmptySeq
  <1>3. CASE stack # << >>
    <2>1. Len(stack) \in Nat /\ stack[Len(stack)].phase = "wait"
      BY <1>1, <1>3 DEF InLoop, Top, Last
    <2> QED BY <1>1, <2>1 DEF OthersWait
  <1> QED BY <1>2, <1>3

\* A request that came is there to stay.
LEMMA HeldStays ==
  ASSUME ServerInv, taken' = taken, TypeOK',
         \A c \in Connections : \A i \in 1 .. Len(sent[c]) :
            i \in 1 .. Len(sent'[c]) /\ sent'[c][i] = sent[c][i],
         NEW f \in Frame, Holds(f)
  PROVE  Holds(f)'
  <1> DEFINE c == f.on
             k == taken[c] + 1
  <1>1. /\ c \in Connections /\ taken[c] \in Nat /\ sent[c] \in Seq(Requests)
        /\ sent'[c] \in Seq(Requests)
    BY DEF ServerInv, TypeOK, Frame
  <1>2. taken[c] < Len(sent[c]) /\ Len(sent[c]) \in Nat /\ Len(sent'[c]) \in Nat
    BY <1>1 DEF Holds, HasRequest
  <1>3. k \in 1 .. Len(sent[c])
    BY <1>1, <1>2
  <1>4. k \in 1 .. Len(sent'[c]) /\ sent'[c][k] = sent[c][k]
    BY <1>1, <1>3
  <1>5. taken[c] < Len(sent'[c])
    BY <1>1, <1>2, <1>4
  <1> QED BY <1>4, <1>5 DEF Holds, HasRequest, Current

\* An event that reaches no handler.
LEMMA EventKeeps ==
  ASSUME ServerInv, InLoop, UNCHANGED <<taken, busy, stack, busySessions, ran>>,
         TypeOK', Posted', IdleTimed',
         \A c \in Connections : \A i \in 1 .. Len(sent[c]) :
            i \in 1 .. Len(sent'[c]) /\ sent'[c][i] = sent[c][i],
         \A c \in Connections : conn[c] = "gone" => conn'[c] = "gone"
  PROVE  ServerInv'
  <1>1. CallsHeld'
    <2> SUFFICES ASSUME NEW i \in 1 .. Len(stack), stack[i].phase \in InCall
                 PROVE  Holds(stack[i])'
      BY DEF CallsHeld
    <2>1. stack[i] \in Frame /\ Holds(stack[i])
      BY DEF ServerInv, TypeOK, CallsHeld
    <2> DEFINE f == stack[i]
    <2>2. f' = f
      OBVIOUS
    <2>3. \A g \in Frame : Holds(g) => Holds(g)'
      BY HeldStays
    <2> QED BY <2>1, <2>2, <2>3 DEF Holds, HasRequest, Current
  <1>2. MayCall'
    BY LoopWaits DEF MayCall
  <1>3. RanBehind'
    BY DEF ServerInv, RanBehind, Behind
  <1>4. (Alone /\ BusyIsServed /\ OthersWait /\ RanInOrder /\ WaitApart /\ BusyWaits)'
    BY DEF ServerInv, Alone, BusyIsServed, OthersWait, RanInOrder, WaitApart, BusyWaits, Waiting
  <1> QED BY <1>1, <1>2, <1>3, <1>4 DEF ServerInv

\* Connections come, send, stay silent and go.
LEMMA EventsKeep ==
  ASSUME ServerInv,
         \/ \E c \in Connections : \/ NewConnection(c) \/ Disconnects(c) \/ Deleted(c)
                                   \/ IdleTimeout(c)
                                   \/ \E r \in Requests : Arrives(c, r)
         \/ Start \/ Stop
         \/ \E s \in Sessions : UserClosesTab(s)
  PROVE  ServerInv'
  <1>1. TypeOK /\ Posted /\ IdleTimed
    BY DEF ServerInv
  <1>2. ASSUME NEW c \in Connections, NewConnection(c)
        PROVE  ServerInv'
    <2>1. TypeOK' /\ Posted' /\ IdleTimed'
      BY <1>1, <1>2 DEF NewConnection, TypeOK, Posted, IdleTimed, ConnState, sessionVars
    <2> QED BY <1>1, <1>2, <2>1, EventKeeps DEF NewConnection, TypeOK, sessionVars
  <1>3. ASSUME NEW c \in Connections, Disconnects(c)
        PROVE  ServerInv'
    <2>1. TypeOK' /\ Posted' /\ IdleTimed'
      BY <1>1, <1>3 DEF Disconnects, TypeOK, Posted, IdleTimed, ConnState, sessionVars
    <2> QED BY <1>1, <1>3, <2>1, EventKeeps DEF Disconnects, TypeOK, sessionVars
  <1>4. ASSUME NEW c \in Connections, Deleted(c)
        PROVE  ServerInv'
    <2>1. TypeOK' /\ Posted' /\ IdleTimed'
      BY <1>1, <1>4 DEF Deleted, TypeOK, Posted, IdleTimed, ConnState, sessionVars
    <2> QED BY <1>1, <1>4, <2>1, EventKeeps DEF Deleted, TypeOK, sessionVars
  <1>5. ASSUME NEW c \in Connections, IdleTimeout(c)
        PROVE  ServerInv'
    <2>1. TypeOK' /\ Posted' /\ IdleTimed'
      BY <1>1, <1>5 DEF IdleTimeout, TypeOK, Posted, IdleTimed, ConnState, sessionVars
    <2> QED BY <1>1, <1>5, <2>1, EventKeeps DEF IdleTimeout, TypeOK, sessionVars
  <1>6. ASSUME NEW c \in Connections, NEW r \in Requests, Arrives(c, r)
        PROVE  ServerInv'
    <2>1. \A b \in Connections :
            /\ sent'[b] \in Seq(Requests)
            /\ \A i \in 1 .. Len(sent[b]) : i \in 1 .. Len(sent'[b]) /\ sent'[b][i] = sent[b][i]
      <3> SUFFICES ASSUME NEW b \in Connections
                   PROVE  /\ sent'[b] \in Seq(Requests)
                          /\ \A i \in 1 .. Len(sent[b]) :
                               i \in 1 .. Len(sent'[b]) /\ sent'[b][i] = sent[b][i]
        OBVIOUS
      <3>1. sent[b] \in Seq(Requests) /\ Len(sent[b]) \in Nat
        BY <1>1 DEF TypeOK
      <3>2. sent'[b] = sent[b] \/ sent'[b] = Append(sent[b], r)
        BY <1>1, <1>6 DEF Arrives, TypeOK
      <3>3. /\ Append(sent[b], r) \in Seq(Requests) /\ Len(Append(sent[b], r)) = Len(sent[b]) + 1
            /\ \A i \in 1 .. Len(sent[b]) : Append(sent[b], r)[i] = sent[b][i]
        BY <3>1, AppendProperties
      <3> QED BY <3>1, <3>2, <3>3
    <2>2. sent' \in [Connections -> Seq(Requests)]
      BY <1>1, <1>6, <2>1 DEF Arrives, TypeOK
    <2>3. TypeOK' /\ Posted' /\ IdleTimed'
      BY <1>1, <1>6, <2>2 DEF Arrives, TypeOK, Posted, IdleTimed, ConnState, sessionVars
    <2> QED BY <1>1, <1>6, <2>1, <2>3, EventKeeps DEF Arrives, TypeOK, sessionVars
  <1>7. CASE Start
    <2>1. TypeOK' /\ Posted' /\ IdleTimed'
      BY <1>1, <1>7 DEF Start, TypeOK, Posted, IdleTimed, sessionVars, socketVars
    <2> QED BY <1>1, <1>7, <2>1, EventKeeps DEF Start, TypeOK, sessionVars, socketVars
  <1>8. CASE Stop
    <2>1. TypeOK' /\ Posted' /\ IdleTimed'
      BY <1>1, <1>8 DEF Stop, TypeOK, Posted, IdleTimed, ConnState, sessionVars
    <2> QED BY <1>1, <1>8, <2>1, EventKeeps DEF Stop, TypeOK, sessionVars
  <1>9. ASSUME NEW s \in Sessions, UserClosesTab(s)
        PROVE  ServerInv'
    <2>1. TypeOK' /\ Posted' /\ IdleTimed'
      BY <1>1, <1>9 DEF UserClosesTab, TypeOK, Posted, IdleTimed, socketVars
    <2> QED BY <1>1, <1>9, <2>1, EventKeeps DEF UserClosesTab, TypeOK, socketVars
  <1> QED BY <1>2, <1>3, <1>4, <1>5, <1>6, <1>7, <1>8, <1>9

\* A socket's data, when no handler serves it yet.
LEMMA EnterKeeps ==
  ASSUME ServerInv, InLoop, NEW c \in Connections, ~busy[c], signalled[c], Enter(c),
         signalled' = [signalled EXCEPT ![c] = FALSE],
         UNCHANGED <<listening, sent, taken, busySessions, ran>>
  PROVE  ServerInv'
  <1> DEFINE n == Len(stack)
             f == [on |-> c, phase |-> "first", member |-> 1, session |-> "none"]
  <1>1. TypeOK /\ Posted /\ IdleTimed /\ stack \in Seq(Frame) /\ n \in Nat
    BY DEF ServerInv, TypeOK
  <1>2. f \in Frame /\ f.on = c /\ f.phase = "first"
    BY DEF Frame
  <1>3. /\ stack' = Append(stack, f) /\ busy' = [busy EXCEPT ![c] = TRUE]
        /\ idle' = [idle EXCEPT ![c] = FALSE] /\ conn' = conn
    BY DEF Enter
  <1> HIDE DEF f
  <1>4. /\ stack' \in Seq(Frame) /\ Len(stack') = n + 1 /\ stack'[n + 1] = f
        /\ \A i \in 1 .. n : stack'[i] = stack[i]
    BY <1>1, <1>2, <1>3, AppendProperties
  <1>5. TypeOK' /\ Posted' /\ IdleTimed'
    BY <1>1, <1>3, <1>4 DEF TypeOK, Posted, IdleTimed
  <1> HIDE DEF n
  <1>6. \A i \in 1 .. n : stack[i].on # c /\ stack[i].phase = "wait"
    BY LoopWaits DEF ServerInv, BusyIsServed, n
  <1>7. \A i \in 1 .. n + 1 : i \in 1 .. n \/ i = n + 1
    BY <1>1
  <1>8. Alone'
    <2>1. Alone
      BY DEF ServerInv
    <2> QED BY <1>2, <1>4, <1>6, <1>7, <2>1 DEF Alone, n
  <1>9. BusyIsServed'
    <2> SUFFICES ASSUME NEW b \in Connections
                 PROVE  busy'[b] <=> \E i \in 1 .. n + 1 : stack'[i].on = b
      BY <1>4 DEF BusyIsServed
    <2>1. CASE b = c
      BY <1>1, <1>2, <1>3, <1>4, <2>1 DEF TypeOK
    <2>2. CASE b # c
      <3>1. busy'[b] = busy[b] /\ (busy[b] <=> \E i \in 1 .. n : stack[i].on = b)
        BY <1>1, <1>3, <2>2 DEF ServerInv, BusyIsServed, TypeOK, n
      <3>2. \A i \in 1 .. n : i \in 1 .. n + 1
        BY <1>1
      <3> QED BY <1>2, <1>4, <1>7, <2>2, <3>1, <3>2
    <2> QED BY <2>1, <2>2
  <1>10. OthersWait' /\ MayCall'
    BY <1>1, <1>2, <1>4, <1>6, <1>7 DEF OthersWait, MayCall
  <1>11. CallsHeld'
    <2> SUFFICES ASSUME NEW i \in 1 .. n + 1, stack'[i].phase \in InCall
                 PROVE  Holds(stack[i])'
      BY <1>4 DEF CallsHeld
    <2>1. i \in 1 .. n /\ stack'[i] = stack[i]
      BY <1>2, <1>4, <1>7 DEF InCall
    <2>2. Holds(stack[i])
      BY <2>1 DEF ServerInv, CallsHeld, n
    <2> QED BY <2>1, <2>2 DEF Holds, HasRequest, Current
  <1>12. RanBehind'
    <2> SUFFICES ASSUME NEW b \in Connections, conn[b] # "gone", NEW k \in 1 .. Len(ran[b])
                 PROVE  Behind(b, ran[b][k])'
      BY <1>3 DEF RanBehind
    <2>1. Behind(b, ran[b][k])
      BY DEF ServerInv, RanBehind
    <2>2. \A i \in 1 .. n : i \in 1 .. Len(stack') /\ stack'[i] = stack[i]
      BY <1>1, <1>4
    <2> QED BY <2>1, <2>2 DEF Behind, n
  <1>13. RanInOrder'
    BY DEF ServerInv, RanInOrder
  <1>14. WaitApart'
    <2>1. WaitApart
      BY DEF ServerInv
    <2> QED BY <1>2, <1>4, <1>7, <2>1 DEF WaitApart, n
  <1>15. BusyWaits'
    <2> SUFFICES ASSUME NEW s PROVE Waiting(s)' <=> Waiting(s)
      BY DEF ServerInv, BusyWaits
    <2>1. \A i \in 1 .. n : i \in 1 .. n + 1
      BY <1>1
    <2> QED BY <1>2, <1>4, <1>7, <2>1 DEF Waiting, n
  <1> QED BY <1>5, <1>8, <1>9, <1>10, <1>11, <1>12, <1>13, <1>14, <1>15 DEF ServerInv

\* A handler begins, alone on its socket or over one that waits.
LEMMA DataKeeps ==
  ASSUME ServerInv, NEW c \in Connections, OnClientData(c)
  PROVE  ServerInv'
  <1>1. TypeOK /\ Posted /\ IdleTimed
    BY DEF ServerInv
  <1>2. /\ InLoop /\ signalled[c] /\ signalled' = [signalled EXCEPT ![c] = FALSE]
        /\ UNCHANGED <<listening, sent, taken, registry, busySessions, created, ran>>
    BY DEF OnClientData, sessionVars
  <1>3. CASE listening /\ ~busy[c]
    <2>1. Enter(c)
      BY <1>3 DEF OnClientData
    <2> QED BY <1>2, <1>3, <2>1, EnterKeeps
  <1>4. CASE listening /\ busy[c]
    <2>1. UNCHANGED <<conn, busy, idle, stack>>
      BY <1>4 DEF OnClientData
    <2>2. TypeOK' /\ Posted' /\ IdleTimed'
      BY <1>1, <1>2, <2>1 DEF TypeOK, Posted, IdleTimed
    <2> QED BY <1>1, <1>2, <2>1, <2>2, EventKeeps DEF TypeOK
  <1>5. CASE ~listening
    <2>1. conn' = [conn EXCEPT ![c] = "closed"] /\ UNCHANGED <<busy, idle, stack>>
      BY <1>5 DEF OnClientData
    <2>2. TypeOK' /\ Posted' /\ IdleTimed'
      BY <1>1, <1>2, <2>1 DEF TypeOK, Posted, IdleTimed, ConnState
    <2>3. conn[c] # "gone"
      BY <1>1, <1>2 DEF Posted
    <2> QED BY <1>1, <1>2, <2>1, <2>2, <2>3, EventKeeps DEF TypeOK
  <1> QED BY <1>1, <1>3, <1>4, <1>5 DEF TypeOK

-----------------------------------------------------------------------------
(* The latest handler.                                                     *)

\* It is the only one on its socket; all below it wait.
LEMMA TopIs ==
  ASSUME ServerInv, stack # << >>
  PROVE  /\ Len(stack) \in Nat /\ Len(stack) > 0 /\ Len(stack) \in 1 .. Len(stack)
         /\ Top = stack[Len(stack)] /\ Top \in Frame /\ Top.on \in Connections
         /\ \A i \in 1 .. Len(stack) - 1 :
              /\ i \in 1 .. Len(stack) /\ stack[i].phase = "wait" /\ stack[i].on # Top.on
              /\ stack[i] \in Frame
         /\ busy[Top.on]
  <1>1. stack \in Seq(Frame) /\ Alone /\ OthersWait /\ BusyIsServed
    BY DEF ServerInv, TypeOK
  <1>2. /\ Len(stack) \in Nat /\ Len(stack) > 0 /\ Top = stack[Len(stack)] /\ Top \in Frame
    BY <1>1, StackTop DEF Top
  <1>3. Len(stack) \in 1 .. Len(stack) /\ \A i \in 1 .. Len(stack) - 1 : i \in 1 .. Len(stack)
    BY <1>2
  <1>4. \A i \in 1 .. Len(stack) - 1 : stack[i].on # Top.on
    BY <1>1, <1>2, <1>3 DEF Alone
  <1>5. Top.on \in Connections
    BY <1>2 DEF Frame
  <1>6. busy[Top.on]
    BY <1>1, <1>2, <1>3, <1>5 DEF BusyIsServed
  <1>7. \A i \in 1 .. Len(stack) - 1 : stack[i] \in Frame
    BY <1>1, <1>3
  <1> QED BY <1>1, <1>2, <1>3, <1>4, <1>5, <1>6, <1>7 DEF OthersWait

\* What was carried out for the socket it serves, in terms of it alone.
BehindTop(c, f, e, done) ==
  e[1] <= done \/ (e[1] = done + 1 /\ f.phase \in InCall /\ Passed(f, e[2]))

\* What ran on the topmost handler's socket is behind what it holds.
LEMMA TopBehind ==
  ASSUME ServerInv, stack # << >>, conn[Top.on] # "gone"
  PROVE  \A k \in 1 .. Len(ran[Top.on]) : BehindTop(Top.on, Top, ran[Top.on][k], taken[Top.on])
  <1> SUFFICES ASSUME NEW k \in 1 .. Len(ran[Top.on])
               PROVE  BehindTop(Top.on, Top, ran[Top.on][k], taken[Top.on])
    OBVIOUS
  <1>1. Behind(Top.on, ran[Top.on][k])
    BY TopIs DEF ServerInv, RanBehind
  <1>2. ASSUME NEW i \in 1 .. Len(stack), stack[i].on = Top.on
        PROVE  stack[i] = Top
    BY <1>2, TopIs DEF ServerInv, Alone
  <1> QED BY <1>1, <1>2 DEF Behind, BehindTop

\* What the handlers below it rest on stays.
LEMMA BelowStays ==
  ASSUME ServerInv, stack # << >>, NEW c, c = Top.on,
         \A i \in 1 .. Len(stack) - 1 : i \in 1 .. Len(stack') /\ stack'[i] = stack[i],
         sent' = sent,
         \A b \in Connections \ {c} :
            conn'[b] = conn[b] /\ taken'[b] = taken[b] /\ ran'[b] = ran[b]
  PROVE  /\ \A i \in 1 .. Len(stack) - 1 : Holds(stack[i])'
         /\ \A b \in Connections \ {c} :
              conn'[b] # "gone" => \A k \in 1 .. Len(ran'[b]) : Behind(b, ran[b][k])'
  <1>1. ASSUME NEW i \in 1 .. Len(stack) - 1 PROVE Holds(stack[i])'
    <2>1. /\ i \in 1 .. Len(stack) /\ stack[i].phase \in InCall /\ stack[i].on # c
          /\ stack[i].on \in Connections /\ stack'[i] = stack[i]
      BY TopIs DEF InCall, Frame
    <2>2. Holds(stack[i])
      BY <2>1 DEF ServerInv, CallsHeld
    <2> QED BY <2>1, <2>2 DEF Holds, HasRequest, Current
  <1>2. ASSUME NEW b \in Connections \ {c}, conn'[b] # "gone", NEW k \in 1 .. Len(ran'[b])
        PROVE  Behind(b, ran[b][k])'
    <2>1. Behind(b, ran[b][k])
      BY <1>2 DEF ServerInv, RanBehind
    <2>2. CASE ran[b][k][1] <= taken[b]
      BY <1>2, <2>2 DEF Behind
    <2>3. CASE ~(ran[b][k][1] <= taken[b])
      <3>1. PICK i \in 1 .. Len(stack) : /\ stack[i].on = b /\ stack[i].phase \in InCall
                                         /\ Passed(stack[i], ran[b][k][2])
        BY <2>1, <2>3 DEF Behind
      <3>2. i \in 1 .. Len(stack) - 1
        BY <3>1, TopIs
      <3>3. i \in 1 .. Len(stack') /\ stack'[i] = stack[i]
        BY <3>2
      <3> QED BY <1>2, <2>1, <2>3, <3>1, <3>3 DEF Behind
    <2> QED BY <2>2, <2>3
  <1> QED BY <1>1, <1>2

\* It goes on in another phase.
LEMMA GoesOn ==
  ASSUME ServerInv, stack # << >>, NEW c, c = Top.on, NEW f \in Frame, f.on = c,
         stack' = Below \o <<f>>,
         TypeOK', Posted', IdleTimed', UNCHANGED <<sent, busy>>,
         \A b \in Connections \ {c} :
            conn'[b] = conn[b] /\ taken'[b] = taken[b] /\ ran'[b] = ran[b],
         f.phase \in InCall => Holds(f)',
         f.phase = "call" => MayHandle(c)',
         conn'[c] # "gone" =>
            \A k \in 1 .. Len(ran'[c]) : BehindTop(c, f, ran'[c][k], taken'[c]),
         \A k \in 1 .. Len(ran'[c]) - 1 : Before(ran'[c][k], ran'[c][k + 1]),
         \/ /\ Top.phase # "wait" /\ f.phase # "wait" /\ busySessions' = busySessions
         \/ /\ Top.phase # "wait" /\ f.phase = "wait" /\ f.session \notin busySessions
            /\ busySessions' = busySessions \cup {f.session}
         \/ /\ Top.phase = "wait" /\ f.phase # "wait"
            /\ busySessions' = busySessions \ {Top.session}
  PROVE  ServerInv'
  <1> DEFINE n == Len(stack)
  <1>1. /\ stack' \in Seq(Frame) /\ Len(stack') = n /\ stack'[n] = f
        /\ \A i \in 1 .. n - 1 : stack'[i] = stack[i]
    BY StackIs DEF ServerInv, TypeOK, Below
  <1>2. /\ n \in Nat /\ n > 0 /\ n \in 1 .. n /\ Top = stack[n] /\ c \in Connections
        /\ \A i \in 1 .. n - 1 : /\ i \in 1 .. n /\ stack[i].phase = "wait" /\ stack[i].on # c
    BY TopIs
  <1>3. \A i \in 1 .. n : i \in 1 .. n - 1 \/ i = n
    BY <1>2
  <1>4. /\ \A i \in 1 .. n - 1 : Holds(stack[i])'
        /\ \A b \in Connections \ {c} :
              conn'[b] # "gone" => \A k \in 1 .. Len(ran'[b]) : Behind(b, ran[b][k])'
    <2>1. \A i \in 1 .. n - 1 : i \in 1 .. Len(stack') /\ stack'[i] = stack[i]
      BY <1>1, <1>2
    <2> QED BY <2>1, BelowStays
  <1> HIDE DEF n
  <1>5. \A i \in 1 .. n : stack'[i].on = stack[i].on
    BY <1>1, <1>2, <1>3
  <1>6. Alone' /\ BusyIsServed'
    <2>1. Alone /\ BusyIsServed
      BY DEF ServerInv
    <2>2. Alone'
      BY <1>1, <1>5, <2>1 DEF Alone, n
    <2>3. BusyIsServed'
      <3>1. ASSUME NEW b \in Connections
            PROVE  busy[b] <=> \E i \in 1 .. n : stack[i].on = b
        BY <2>1 DEF BusyIsServed, n
      <3>2. busy' = busy
        OBVIOUS
      <3>3. ASSUME NEW b \in Connections
            PROVE  busy'[b] <=> \E i \in 1 .. n : stack'[i].on = b
        <4>1. \A i \in 1 .. n : stack'[i].on = b <=> stack[i].on = b
          BY <1>5, Zenon
        <4>2. busy'[b] <=> busy[b]
          BY <3>2, Zenon
        <4> QED BY <3>1, <4>1, <4>2, Zenon
      <3> QED BY <1>1, <3>3, Zenon DEF BusyIsServed
    <2> QED BY <2>2, <2>3
  <1>7. OthersWait'
    BY <1>1, <1>2 DEF OthersWait
  <1>8. CallsHeld'
    BY <1>1, <1>3, <1>4 DEF CallsHeld
  <1>9. MayCall'
    BY <1>1, <1>2, <1>3 DEF MayCall
  <1>10. RanBehind'
    <2>1. ASSUME conn'[c] # "gone", NEW k \in 1 .. Len(ran'[c])
          PROVE  Behind(c, ran[c][k])'
      <3>1. BehindTop(c, f, ran'[c][k], taken'[c])
        BY <2>1
      <3> QED BY <1>1, <1>2, <3>1 DEF BehindTop, Behind
    <2> QED BY <1>4, <2>1 DEF RanBehind
  <1>11. RanInOrder'
    BY DEF ServerInv, RanInOrder
  <1>12. /\ WaitApart /\ BusyWaits
    BY DEF ServerInv
  <1>13. WaitApart' /\ BusyWaits'
    <2>1. CASE Top.phase # "wait" /\ f.phase # "wait" /\ busySessions' = busySessions
      <3>1. \A i \in 1 .. n : stack'[i].phase = "wait" \/ stack[i].phase = "wait" => stack'[i] = stack[i]
        BY <1>1, <1>2, <1>3, <2>1
      <3> QED BY <1>1, <1>12, <2>1, <3>1 DEF WaitApart, BusyWaits, Waiting, n
    <2>2. CASE /\ Top.phase # "wait" /\ f.phase = "wait" /\ f.session \notin busySessions
               /\ busySessions' = busySessions \cup {f.session}
      <3>1. \A i \in 1 .. n - 1 : stack[i].session # f.session
        BY <1>2, <1>12, <2>2 DEF BusyWaits, Waiting, n
      <3>2. WaitApart'
        <4>1. \A i, j \in 1 .. n - 1 :
                 stack'[i].phase = "wait" /\ stack'[j].phase = "wait"
                 /\ stack'[i].session = stack'[j].session => i = j
          BY <1>1, <1>2, <1>12 DEF WaitApart, n
        <4>2. \A i \in 1 .. n - 1 : stack'[i].session # stack'[n].session
          BY <1>1, <3>1
        <4> QED BY <1>1, <1>3, <4>1, <4>2 DEF WaitApart
      <3>3. \A s : Waiting(s)' <=> Waiting(s) \/ s = f.session
        <4>1. \A s : Waiting(s) <=>
                 \E i \in 1 .. n - 1 : stack[i].phase = "wait" /\ stack[i].session = s
          BY <1>2, <1>3, <2>2 DEF Waiting, n
        <4>2. \A s : Waiting(s)' <=>
                 \/ \E i \in 1 .. n - 1 : stack'[i].phase = "wait" /\ stack'[i].session = s
                 \/ s = f.session
          <5>1. \A s : Waiting(s)' <=>
                   \E i \in 1 .. n : stack'[i].phase = "wait" /\ stack'[i].session = s
            BY <1>1, Zenon DEF Waiting
          <5>2. \A i \in 1 .. n - 1 : i \in 1 .. n
            BY <1>2
          <5>3. stack'[n].phase = "wait" /\ stack'[n].session = f.session
            BY <1>1, <2>2
          <5> QED BY <1>2, <1>3, <5>1, <5>2, <5>3, Zenon
        <4> QED BY <1>1, <4>1, <4>2
      <3> QED BY <1>12, <2>2, <3>2, <3>3 DEF BusyWaits
    <2>3. CASE /\ Top.phase = "wait" /\ f.phase # "wait"
               /\ busySessions' = busySessions \ {Top.session}
      <3>1. \A i \in 1 .. n - 1 : stack[i].session # Top.session
        <4>1. ASSUME NEW i \in 1 .. n - 1, stack[i].session = Top.session PROVE FALSE
          <5>1. i \in 1 .. n /\ n \in 1 .. n /\ stack[i].phase = "wait" /\ stack[n].phase = "wait"
                /\ stack[i].session = stack[n].session
            BY <1>2, <2>3, <4>1
          <5>2. i = n
            BY <1>12, <5>1 DEF WaitApart, n
          <5> QED BY <1>2, <5>2
        <4> QED BY <4>1
      <3>2. WaitApart'
        <4>1. \A i, j \in 1 .. n - 1 :
                 stack'[i].phase = "wait" /\ stack'[j].phase = "wait"
                 /\ stack'[i].session = stack'[j].session => i = j
          BY <1>1, <1>2, <1>12 DEF WaitApart, n
        <4> QED BY <1>1, <1>3, <2>3, <4>1 DEF WaitApart
      <3>3. \A s : Waiting(s)' <=> Waiting(s) /\ s # Top.session
        <4>1. \A s : Waiting(s) <=>
                 \/ \E i \in 1 .. n - 1 : stack[i].phase = "wait" /\ stack[i].session = s
                 \/ s = Top.session
          BY <1>2, <1>3, <2>3 DEF Waiting, n
        <4>2. \A s : Waiting(s)' <=>
                 \E i \in 1 .. n - 1 : stack'[i].phase = "wait" /\ stack'[i].session = s
          BY <1>1, <1>2, <1>3, <2>3 DEF Waiting
        <4> QED BY <1>1, <3>1, <4>1, <4>2
      <3> QED BY <1>12, <2>3, <3>2, <3>3 DEF BusyWaits
    <2> QED BY <2>1, <2>2, <2>3
  <1> QED BY <1>6, <1>7, <1>8, <1>9, <1>10, <1>11, <1>13 DEF ServerInv

\* It returns to the loop below it, or to the event loop.
LEMMA Pops ==
  ASSUME ServerInv, stack # << >>, NEW c, c = Top.on, Top.phase # "wait",
         stack' = Below, busy' = [busy EXCEPT ![c] = FALSE],
         TypeOK', Posted', IdleTimed', UNCHANGED <<sent, taken, ran, busySessions>>,
         \A b \in Connections \ {c} : conn'[b] = conn[b],
         conn'[c] # "gone" => \A k \in 1 .. Len(ran[c]) : ran[c][k][1] <= taken[c]
  PROVE  ServerInv'
  <1> DEFINE n == Len(stack)
  <1>1. /\ stack' \in Seq(Frame) /\ Len(stack') = n - 1
        /\ \A i \in 1 .. n - 1 : stack'[i] = stack[i]
    BY StackTop DEF ServerInv, TypeOK, Below
  <1>2. /\ n \in Nat /\ n > 0 /\ n \in 1 .. n /\ Top = stack[n] /\ c \in Connections
        /\ \A i \in 1 .. n - 1 : /\ i \in 1 .. n /\ stack[i].phase = "wait" /\ stack[i].on # c
    BY TopIs
  <1>3. \A i \in 1 .. n : i \in 1 .. n - 1 \/ i = n
    BY <1>2
  <1>4. /\ \A i \in 1 .. n - 1 : Holds(stack[i])'
        /\ \A b \in Connections \ {c} :
              conn'[b] # "gone" => \A k \in 1 .. Len(ran'[b]) : Behind(b, ran[b][k])'
    <2>1. \A i \in 1 .. n - 1 : i \in 1 .. Len(stack') /\ stack'[i] = stack[i]
      BY <1>1
    <2> QED BY <2>1, BelowStays
  <1> HIDE DEF n
  <1>5. /\ Alone /\ BusyIsServed /\ WaitApart /\ BusyWaits /\ RanInOrder /\ busy \in [Connections -> BOOLEAN]
    BY DEF ServerInv, TypeOK
  <1>6. Alone' /\ WaitApart'
    <2>1. \A i \in 1 .. Len(stack') : i \in 1 .. n - 1 /\ i \in 1 .. n /\ stack'[i] = stack[i]
      BY <1>1, <1>2
    <2>2. Alone'
      BY <1>5, <2>1 DEF Alone, n
    <2>3. WaitApart'
      BY <1>5, <2>1 DEF WaitApart, n
    <2> QED BY <2>2, <2>3
  <1>7. BusyIsServed'
    <2> SUFFICES ASSUME NEW b \in Connections
                 PROVE  busy'[b] <=> \E i \in 1 .. n - 1 : stack'[i].on = b
      BY <1>1 DEF BusyIsServed
    <2>1. CASE b = c
      BY <1>1, <1>2, <1>5, <2>1
    <2>2. CASE b # c
      <3>1. busy'[b] = busy[b] /\ (busy[b] <=> \E i \in 1 .. n : stack[i].on = b)
        BY <1>5, <2>2 DEF BusyIsServed, n
      <3> QED BY <1>1, <1>2, <1>3, <2>2, <3>1
    <2> QED BY <2>1, <2>2
  <1>8. OthersWait' /\ MayCall'
    <2>1. \A i \in 1 .. (n - 1) - 1 : i \in 1 .. n - 1
      BY <1>2
    <2> QED BY <1>1, <1>2, <2>1 DEF OthersWait, MayCall
  <1>9. CallsHeld'
    BY <1>1, <1>4 DEF CallsHeld
  <1>10. RanBehind'
    BY <1>4 DEF RanBehind, Behind
  <1>11. RanInOrder'
    BY <1>5 DEF RanInOrder
  <1>12. BusyWaits'
    <2>1. \A s : Waiting(s)' <=> Waiting(s)
      BY <1>1, <1>2, <1>3 DEF Waiting, n
    <2> QED BY <1>5, <2>1 DEF BusyWaits
  <1> QED BY <1>6, <1>7, <1>8, <1>9, <1>10, <1>11, <1>12 DEF ServerInv

-----------------------------------------------------------------------------
(* What the latest handler does.                                           *)

\* The innermost nested loop ends and frees its session.
LEMMA LoopEndsKeeps ==
  ASSUME ServerInv, LoopEnds
  PROVE  ServerInv'
  <1>0. PICK c, f : c = Top.on /\ f = [Top EXCEPT !.phase = "return"]
    OBVIOUS
  <1>1. /\ stack # << >> /\ Top.phase = "wait" /\ stack' = Below \o <<f>>
        /\ busySessions' = busySessions \ {Top.session}
        /\ UNCHANGED <<listening, conn, sent, taken, signalled, busy, idle, ran>>
    BY <1>0 DEF LoopEnds, Running, Go, socketVars
  <1>2. /\ Top \in Frame /\ Top = stack[Len(stack)] /\ Len(stack) \in 1 .. Len(stack)
        /\ c \in Connections
    BY <1>0, <1>1, TopIs
  <1>3. /\ f \in Frame /\ f.on = c /\ f.phase = "return" /\ f.member = Top.member
    BY <1>0, <1>1, <1>2 DEF Frame, InCall
  <1>4. Holds(Top)
    BY <1>1, <1>2 DEF ServerInv, CallsHeld, InCall
  <1>5. Holds(f)'
    BY <1>0, <1>1, <1>3, <1>4 DEF Holds, HasRequest, Current
  <1>6. \A k \in 1 .. Len(ran[c]) : conn[c] # "gone" => BehindTop(c, f, ran[c][k], taken[c])
    <2>1. \A k \in 1 .. Len(ran[c]) : conn[c] # "gone" => BehindTop(c, Top, ran[c][k], taken[c])
      BY <1>0, <1>1, TopBehind
    <2> QED BY <1>1, <1>3, <2>1 DEF BehindTop, Passed, InCall
  <1>7. stack' \in Seq(Frame)
    BY <1>1, <1>3, StackIs DEF ServerInv, TypeOK, Below
  <1>8. TypeOK' /\ Posted' /\ IdleTimed'
    BY <1>1, <1>7 DEF ServerInv, TypeOK, Posted, IdleTimed
  <1>9. \A k \in 1 .. Len(ran[c]) - 1 : Before(ran[c][k], ran[c][k + 1])
    BY <1>2 DEF ServerInv, RanInOrder
  <1> QED BY <1>0, <1>1, <1>3, <1>5, <1>6, <1>8, <1>9, GoesOn

\* No more requests for it, or one the parser gives up on.
LEMMA LookedInVain ==
  ASSUME ServerInv, stack # << >>, Top.phase \in {"first", "drain"}, conn[Top.on] # "gone"
  PROVE  \A k \in 1 .. Len(ran[Top.on]) : ran[Top.on][k][1] <= taken[Top.on]
  BY TopBehind DEF BehindTop, InCall

\* A handler with nothing more to take returns.
LEMMA NoMoreKeeps ==
  ASSUME ServerInv, NoMore
  PROVE  ServerInv'
  <1>0. PICK c : c = Top.on
    OBVIOUS
  <1>1. /\ stack # << >> /\ Top.phase \in {"first", "drain"} /\ stack' = Below
        /\ busy' = [busy EXCEPT ![c] = FALSE]
        /\ idle' = [idle EXCEPT ![c] = @ \/ conn[c] = "open"]
        /\ UNCHANGED <<listening, conn, sent, taken, signalled, busySessions, ran>>
    BY <1>0 DEF NoMore, Returns, sessionVars
  <1>2. stack' \in Seq(Frame) /\ c \in Connections /\ TypeOK /\ Posted /\ IdleTimed
    BY <1>0, <1>1, StackTop, TopIs DEF ServerInv, TypeOK, Below
  <1>3. /\ busy' \in [Connections -> BOOLEAN] /\ idle' \in [Connections -> BOOLEAN]
    BY <1>1, <1>2, Zenon DEF TypeOK
  <1>4. TypeOK'
    BY <1>1, <1>2, <1>3 DEF TypeOK
  <1>5. \A b \in Connections : (b # c => idle'[b] = idle[b] /\ busy'[b] = busy[b])
    BY <1>1, <1>2 DEF TypeOK
  <1>6. ~busy'[c] /\ (conn[c] = "open" => idle'[c])
    BY <1>1, <1>2, Zenon DEF TypeOK
  <1>7. Posted' /\ IdleTimed'
    BY <1>1, <1>2, <1>5, <1>6 DEF Posted, IdleTimed
  <1>8. conn[c] # "gone" => \A k \in 1 .. Len(ran[c]) : ran[c][k][1] <= taken[c]
    BY <1>0, <1>1, LookedInVain
  <1> QED BY <1>0, <1>1, <1>4, <1>7, <1>8, Pops

\* A malformed request is answered and never carried out.
LEMMA MalformedKeeps ==
  ASSUME ServerInv, Malformed
  PROVE  ServerInv'
  <1>0. PICK c : c = Top.on
    OBVIOUS
  <1>1. /\ stack # << >> /\ Top.phase \in {"first", "drain"} /\ stack' = Below
        /\ busy' = [busy EXCEPT ![c] = FALSE]
        /\ conn' = [conn EXCEPT ![c] = IF @ = "open" THEN "closing" ELSE @]
        /\ UNCHANGED <<listening, sent, taken, signalled, idle, busySessions, ran>>
    BY <1>0 DEF Malformed, sessionVars
  <1>2. stack' \in Seq(Frame) /\ c \in Connections /\ TypeOK /\ Posted /\ IdleTimed
    BY <1>0, <1>1, StackTop, TopIs DEF ServerInv, TypeOK, Below
  <1>3. TypeOK' /\ Posted' /\ IdleTimed'
    BY <1>1, <1>2 DEF TypeOK, ConnState, Posted, IdleTimed
  <1>4. conn'[c] # "gone" => \A k \in 1 .. Len(ran[c]) : ran[c][k][1] <= taken[c]
    BY <1>0, <1>1, <1>2, LookedInVain DEF TypeOK
  <1>5. \A b \in Connections \ {c} : conn'[b] = conn[b]
    BY <1>1, <1>2 DEF TypeOK
  <1> QED BY <1>0, <1>1, <1>3, <1>4, <1>5, Pops

\* A request is done with, and the connection may have closed over it.
LEMMA DoneKeeps ==
  ASSUME ServerInv, stack # << >>, NEW c, c = Top.on, Top.phase # "wait", Done(c),
         UNCHANGED <<listening, sent, signalled, busy, idle, busySessions, ran>>,
         NEW d \in ConnState \ {"none"}, conn' = [conn EXCEPT ![c] = d],
         d = "gone" <=> conn[c] = "gone", d = "open" => conn[c] = "open"
  PROVE  ServerInv'
  <1>0. PICK f : f = [Top EXCEPT !.phase = "drain", !.member = 1, !.session = "none"]
    OBVIOUS
  <1>1. stack' = Below \o <<f>> /\ taken' = [taken EXCEPT ![c] = @ + 1]
    BY <1>0 DEF Done
  <1>2. Top \in Frame /\ c \in Connections /\ TypeOK /\ Posted /\ IdleTimed
    BY TopIs DEF ServerInv
  <1>3. f \in Frame /\ f.on = c /\ f.phase = "drain"
    BY <1>0, <1>2 DEF Frame, InCall
  <1>4. stack' \in Seq(Frame)
    BY <1>1, <1>3, StackIs DEF ServerInv, TypeOK, Below
  <1>5. TypeOK' /\ Posted' /\ IdleTimed'
    BY <1>1, <1>2, <1>4 DEF TypeOK, Posted, IdleTimed
  <1>6. ASSUME conn'[c] # "gone", NEW k \in 1 .. Len(ran[c])
        PROVE  BehindTop(c, f, ran[c][k], taken'[c])
    <2>1. conn[c] # "gone" /\ taken'[c] = taken[c] + 1 /\ taken[c] \in Nat /\ ran[c][k][1] \in Nat
      BY <1>1, <1>2, <1>6 DEF TypeOK
    <2>2. BehindTop(c, Top, ran[c][k], taken[c])
      BY <2>1, TopBehind
    <2> QED BY <2>1, <2>2 DEF BehindTop
  <1>7. \A b \in Connections \ {c} : conn'[b] = conn[b] /\ taken'[b] = taken[b] /\ ran'[b] = ran[b]
    BY <1>1, <1>2 DEF TypeOK
  <1>8. \A k \in 1 .. Len(ran[c]) - 1 : Before(ran[c][k], ran[c][k + 1])
    BY <1>2 DEF ServerInv, RanInOrder
  <1>9. f.phase \notin InCall /\ f.phase # "wait" /\ f.phase # "call"
    BY <1>3 DEF InCall
  <1> QED BY <1>1, <1>3, <1>5, <1>6, <1>7, <1>8, <1>9, GoesOn


\* What is left of a connection that is cut, or that its client gave up.
LEMMA ConnAfter ==
  ASSUME ServerInv, NEW c \in Connections, conn[c] # "none",
         \/ conn' = Aborted(c)
         \/ \E close \in BOOLEAN :
               conn' = [conn EXCEPT ![c] = IF close /\ @ = "open" THEN "closing" ELSE @]
  PROVE  \E d \in ConnState \ {"none"} :
            /\ conn' = [conn EXCEPT ![c] = d]
            /\ d = "gone" <=> conn[c] = "gone"
            /\ d = "open" => conn[c] = "open"
  <1>1. conn[c] \in ConnState /\ conn \in [Connections -> ConnState]
    BY DEF ServerInv, TypeOK
  <1>2. CASE conn' = Aborted(c)
    <2>1. PICK d : d = IF conn[c] = "gone" THEN conn[c] ELSE "closed"
      OBVIOUS
    <2>2. conn' = [conn EXCEPT ![c] = d]
      BY <1>1, <1>2, <2>1 DEF Aborted
    <2>3. d \in ConnState \ {"none"} /\ (d = "gone" <=> conn[c] = "gone") /\ d # "open"
      BY <2>1 DEF ConnState
    <2> QED BY <2>2, <2>3
  <1>3. ASSUME NEW close \in BOOLEAN,
               conn' = [conn EXCEPT ![c] = IF close /\ @ = "open" THEN "closing" ELSE @]
        PROVE  \E d \in ConnState \ {"none"} :
                  /\ conn' = [conn EXCEPT ![c] = d]
                  /\ d = "gone" <=> conn[c] = "gone"
                  /\ d = "open" => conn[c] = "open"
    <2>1. PICK d : d = IF close /\ conn[c] = "open" THEN "closing" ELSE conn[c]
      OBVIOUS
    <2>2. conn' = [conn EXCEPT ![c] = d]
      BY <1>1, <1>3, <2>1
    <2>3. /\ d \in ConnState \ {"none"} /\ (d = "gone" <=> conn[c] = "gone")
          /\ d = "open" => conn[c] = "open"
      BY <1>1, <2>1 DEF ConnState
    <2> QED BY <2>2, <2>3
  <1> QED BY <1>2, <1>3

\* A request is aborted, refused, answered or begun.
LEMMA TakeRequestKeeps ==
  ASSUME ServerInv, TakeRequest
  PROVE  ServerInv'
  <1>0. PICK c : c = Top.on
    OBVIOUS
  <1>1. /\ stack # << >> /\ Top.phase \in {"first", "drain"} /\ HasRequest(c)
        /\ Current(c).kind # "malformed"
        /\ UNCHANGED <<listening, sent, signalled, busy, idle, busySessions, ran>>
    BY <1>0 DEF TakeRequest, MoreToRead, sessionVars
  <1>2. /\ Top \in Frame /\ c \in Connections /\ busy[c] /\ TypeOK /\ Posted /\ IdleTimed
    BY <1>0, <1>1, TopIs DEF ServerInv
  <1>3. conn[c] # "none"
    BY <1>2 DEF Posted
  <1>4. CASE Go("call") /\ UNCHANGED <<conn, taken>> /\ MayHandle(c)
             /\ Current(c).kind \notin {"refused", "plain"}
    <2>0. PICK f : f = [Top EXCEPT !.phase = "call"]
      OBVIOUS
    <2>1. stack' = Below \o <<f>>
      BY <1>4, <2>0 DEF Go
    <2>2. f \in Frame /\ f.on = c /\ f.phase = "call" /\ f.member = 1
      BY <1>0, <1>1, <1>2, <2>0 DEF Frame, InCall
    <2>3. Holds(f)'
      <3>1. Current(c) \in Requests
        BY <1>1, <1>2 DEF TypeOK, HasRequest, Current
      <3>2. /\ Current(c).kind \in {"single", "batch"} /\ Current(c).calls \in Seq(Call)
            /\ Current(c).kind = "single" => Len(Current(c).calls) = 1
            /\ Current(c).kind = "batch" => Current(c).calls # << >>
        BY <1>1, <1>4, <3>1, RequestsAssumption DEF Request
      <3> DEFINE calls == Current(c).calls
      <3>3. Len(calls) \in Nat /\ Len(calls) # 0
        BY <3>2, EmptySeq
      <3> HIDE DEF calls
      <3>4. 1 \in 1 .. Len(calls)
        BY <3>3
      <3>5. sent' = sent /\ taken' = taken
        BY <1>1, <1>4
      <3> QED BY <1>1, <2>2, <3>2, <3>4, <3>5 DEF Holds, HasRequest, Current, calls
    <2>4. stack' \in Seq(Frame)
      BY <1>1, <2>1, <2>2, StackIs DEF ServerInv, TypeOK, Below
    <2>5. TypeOK' /\ Posted' /\ IdleTimed'
      BY <1>1, <1>2, <1>4, <2>4 DEF TypeOK, Posted, IdleTimed
    <2>6. \A k \in 1 .. Len(ran[c]) : conn[c] # "gone" => BehindTop(c, f, ran[c][k], taken[c])
      BY <1>0, <1>1, LookedInVain DEF BehindTop
    <2>7. \A k \in 1 .. Len(ran[c]) - 1 : Before(ran[c][k], ran[c][k + 1])
      BY <1>2 DEF ServerInv, RanInOrder
    <2>8. MayHandle(c)'
      BY <1>1, <1>4 DEF MayHandle
    <2> QED BY <1>0, <1>1, <1>4, <2>1, <2>2, <2>3, <2>5, <2>6, <2>7, <2>8, GoesOn
  <1>5. CASE /\ Done(c)
             /\ \/ conn' = Aborted(c)
                \/ \E close \in BOOLEAN :
                      conn' = [conn EXCEPT ![c] = IF close /\ @ = "open" THEN "closing" ELSE @]
    <2>1. PICK d \in ConnState \ {"none"} :
            /\ conn' = [conn EXCEPT ![c] = d]
            /\ d = "gone" <=> conn[c] = "gone"
            /\ d = "open" => conn[c] = "open"
      BY <1>2, <1>3, <1>5, ConnAfter
    <2> QED BY <1>0, <1>1, <1>5, <2>1, DoneKeeps
  <1>6. Current(c).close \in BOOLEAN
    BY <1>1, <1>2, RequestsAssumption DEF TypeOK, HasRequest, Current, Request
  <1> QED BY <1>0, <1>4, <1>5, <1>6 DEF TakeRequest, Answer

\* What a call does to the handler.
LEMMA CarriedOut ==
  ASSUME ServerInv, CarryOut
  PROVE  /\ stack # << >> /\ Top.phase = "call" /\ Holds(Top) /\ MayHandle(Top.on)
         /\ \E f \in Frame :
              /\ f.on = Top.on /\ f.member = Top.member /\ stack' = Below \o <<f>>
              /\ \/ f.phase = "return" /\ busySessions' = busySessions
                 \/ /\ f.phase = "wait" /\ f.session \notin busySessions
                    /\ busySessions' = busySessions \cup {f.session}
  <1> DEFINE c == Top.on
             call == Current(c).calls[Top.member]
  <1>1. stack # << >> /\ Top.phase = "call"
    BY DEF CarryOut, Running
  <1>2. Top \in Frame /\ Top = stack[Len(stack)] /\ Len(stack) \in 1 .. Len(stack) /\ c \in Connections
    BY <1>1, TopIs
  <1>3. Holds(Top) /\ MayHandle(c)
    BY <1>1, <1>2 DEF ServerInv, CallsHeld, MayCall, InCall
  <1>4. call \in Call
    <2>1. Current(c) \in Requests
      BY <1>2, <1>3 DEF Holds, HasRequest, Current, ServerInv, TypeOK
    <2>2. Current(c).calls \in Seq(Call)
      BY <2>1, RequestsAssumption DEF Request
    <2> QED BY <1>3, <2>2 DEF Holds
  <1> DEFINE returns == Go("return") /\ busySessions' = busySessions
             waits == /\ call.session \in Sessions /\ call.session \notin busySessions
                      /\ busySessions' = busySessions \cup {call.session}
                      /\ stack' = Below \o <<[Top EXCEPT !.phase = "wait", !.session = call.session]>>
  <1>5. returns \/ waits
    <2>1. CASE call.tool \in {"ping", "initialize"}
      BY <2>1 DEF CarryOut, sessionVars
    <2>2. CASE call.tool = "create"
      BY <2>2 DEF CarryOut, sessionVars
    <2>3. CASE call.tool = "close"
      BY <2>3 DEF CarryOut, sessionVars
    <2>4. CASE call.tool = "run" /\ ~MayUse(call)
      BY <2>4 DEF CarryOut, sessionVars
    <2>5. CASE call.tool = "run" /\ MayUse(call)
      BY <1>4, <2>5 DEF CarryOut, MayUse, Call
    <2> QED BY <1>4, <2>1, <2>2, <2>3, <2>4, <2>5 DEF Call
  <1>6. CASE returns
    <2>0. PICK f : f = [Top EXCEPT !.phase = "return"]
      OBVIOUS
    <2>1. f \in Frame /\ f.on = c /\ f.member = Top.member /\ f.phase = "return"
      BY <1>1, <1>2, <2>0 DEF Frame, InCall
    <2> QED BY <1>1, <1>3, <1>6, <2>0, <2>1 DEF Go
  <1>7. CASE waits
    <2>0. PICK f : f = [Top EXCEPT !.phase = "wait", !.session = call.session]
      OBVIOUS
    <2>1. /\ f \in Frame /\ f.on = c /\ f.member = Top.member /\ f.phase = "wait"
          /\ f.session = call.session
      <3> HIDE DEF call
      <3> QED BY <1>1, <1>2, <1>7, <2>0 DEF Frame, InCall
    <2> QED BY <1>1, <1>3, <1>7, <2>0, <2>1
  <1> QED BY <1>5, <1>6, <1>7


\* A call is carried out, or waits in a nested loop of its own.
LEMMA CarryOutKeeps ==
  ASSUME ServerInv, CarryOut
  PROVE  ServerInv'
  <1>0. PICK c : c = Top.on
    OBVIOUS
  <1>1. /\ stack # << >> /\ Top.phase = "call" /\ Holds(Top) /\ MayHandle(c)
        /\ UNCHANGED <<listening, conn, sent, taken, signalled, busy, idle>>
    BY <1>0, CarriedOut DEF CarryOut, socketVars
  <1>2. PICK f \in Frame :
              /\ f.on = c /\ f.member = Top.member /\ stack' = Below \o <<f>>
              /\ \/ f.phase = "return" /\ busySessions' = busySessions
                 \/ /\ f.phase = "wait" /\ f.session \notin busySessions
                    /\ busySessions' = busySessions \cup {f.session}
    BY <1>0, CarriedOut
  <1>3. Top \in Frame /\ c \in Connections /\ TypeOK /\ Posted /\ IdleTimed /\ conn[c] = "open"
    BY <1>0, <1>1, TopIs DEF ServerInv, MayHandle
  <1>4. PICK new : new = <<taken[c] + 1, Top.member>>
    OBVIOUS
  <1>5. new \in Nat \X Nat /\ new[1] = taken[c] + 1 /\ new[2] = Top.member /\ taken[c] \in Nat
    BY <1>3, <1>4 DEF TypeOK, Frame
  <1>6. ran' = ran \/ ran' = [ran EXCEPT ![c] = Append(@, new)]
    BY <1>0, <1>4 DEF CarryOut
  <1>7. ran[c] \in Seq(Nat \X Nat) /\ Len(ran[c]) \in Nat
    BY <1>3 DEF TypeOK
  <1>8. /\ Append(ran[c], new) \in Seq(Nat \X Nat) /\ Len(Append(ran[c], new)) = Len(ran[c]) + 1
        /\ \A k \in 1 .. Len(ran[c]) : Append(ran[c], new)[k] = ran[c][k]
        /\ Append(ran[c], new)[Len(ran[c]) + 1] = new
    BY <1>5, <1>7, AppendProperties
  <1>9. ran'[c] = ran[c] \/ ran'[c] = Append(ran[c], new)
    BY <1>3, <1>6 DEF TypeOK
  <1>10. TypeOK' /\ Posted' /\ IdleTimed'
    <2>1. stack' \in Seq(Frame)
      BY <1>1, <1>2, StackIs DEF ServerInv, TypeOK, Below
    <2>2. ran' \in [Connections -> Seq(Nat \X Nat)]
      BY <1>3, <1>6, <1>8 DEF TypeOK
    <2> QED BY <1>1, <1>3, <2>1, <2>2 DEF TypeOK, Posted, IdleTimed
  <1>11. \A k \in 1 .. Len(ran[c]) :
           \/ ran[c][k][1] <= taken[c]
           \/ ran[c][k][1] = taken[c] + 1 /\ ran[c][k][2] < Top.member
    BY <1>0, <1>1, <1>3, TopBehind DEF BehindTop, Passed
  <1>12. \A k \in 1 .. Len(ran[c]) : ran[c][k][1] \in Nat /\ ran[c][k][2] \in Nat
    BY <1>7
  <1>13. Top.member \in Nat /\ f.phase \in InCall /\ f.phase # "call"
    BY <1>2, <1>3 DEF Frame, InCall
  <1>14. \A k \in 1 .. Len(ran'[c]) : BehindTop(c, f, ran'[c][k], taken[c])
    <2>1. \A k \in 1 .. Len(ran[c]) : BehindTop(c, f, ran[c][k], taken[c])
      BY <1>2, <1>11, <1>12, <1>13 DEF BehindTop, Passed
    <2>2. BehindTop(c, f, new, taken[c])
      BY <1>2, <1>5, <1>13 DEF BehindTop, Passed
    <2>3. \A k \in 1 .. Len(ran[c]) + 1 : k \in 1 .. Len(ran[c]) \/ k = Len(ran[c]) + 1
      BY <1>7
    <2> QED BY <1>8, <1>9, <2>1, <2>2, <2>3
  <1>15. \A k \in 1 .. Len(ran'[c]) - 1 : Before(ran'[c][k], ran'[c][k + 1])
    <2>1. \A k \in 1 .. Len(ran[c]) - 1 : Before(ran[c][k], ran[c][k + 1])
      BY <1>3 DEF ServerInv, RanInOrder
    <2>2. CASE ran'[c] = ran[c]
      BY <2>1, <2>2
    <2>3. CASE ran'[c] = Append(ran[c], new)
      <3> SUFFICES ASSUME NEW k \in 1 .. Len(ran[c])
                   PROVE  Before(Append(ran[c], new)[k], Append(ran[c], new)[k + 1])
        BY <1>7, <1>8, <2>3
      <3>1. CASE k = Len(ran[c])
        <4>1. Before(ran[c][k], new)
          BY <1>5, <1>11, <1>12 DEF Before
        <4> QED BY <1>8, <3>1, <4>1
      <3>2. CASE k # Len(ran[c])
        <4>1. k \in 1 .. Len(ran[c]) - 1 /\ k + 1 \in 1 .. Len(ran[c])
          BY <1>7, <3>2
        <4> QED BY <1>8, <2>1, <4>1
      <3> QED BY <3>1, <3>2
    <2> QED BY <1>9, <2>2, <2>3
  <1>16. Holds(f)'
    BY <1>0, <1>1, <1>2 DEF Holds, HasRequest, Current
  <1>17. \A b \in Connections \ {c} : conn'[b] = conn[b] /\ taken'[b] = taken[b] /\ ran'[b] = ran[b]
    BY <1>1, <1>3, <1>6 DEF TypeOK
  <1>18. \/ /\ Top.phase # "wait" /\ f.phase # "wait" /\ busySessions' = busySessions
         \/ /\ Top.phase # "wait" /\ f.phase = "wait" /\ f.session \notin busySessions
            /\ busySessions' = busySessions \cup {f.session}
    BY <1>1, <1>2
  <1> QED BY <1>0, <1>1, <1>2, <1>10, <1>13, <1>14, <1>15, <1>16, <1>17, <1>18, GoesOn

\* The call is over, and its handler goes on.
LEMMA CallReturnsKeeps ==
  ASSUME ServerInv, CallReturns
  PROVE  ServerInv'
  <1>0. PICK c : c = Top.on
    OBVIOUS
  <1>1. /\ stack # << >> /\ Top.phase = "return"
        /\ UNCHANGED <<listening, sent, signalled, busySessions, ran>>
    BY DEF CallReturns, Running, sessionVars
  <1>2. /\ Top \in Frame /\ c \in Connections /\ busy[c] /\ TypeOK /\ Posted /\ IdleTimed
        /\ Top = stack[Len(stack)] /\ Len(stack) \in 1 .. Len(stack)
    BY <1>0, <1>1, TopIs DEF ServerInv
  <1>3. conn[c] # "none" /\ Holds(Top)
    BY <1>1, <1>2 DEF Posted, ServerInv, CallsHeld, InCall
  <1>4. CASE conn[c] = "gone"
    <2>1. /\ stack' = Below /\ busy' = [busy EXCEPT ![c] = FALSE]
          /\ idle' = [idle EXCEPT ![c] = @ \/ conn[c] = "open"]
          /\ UNCHANGED <<conn, taken>>
      BY <1>0, <1>4 DEF CallReturns, Returns
    <2>2. stack' \in Seq(Frame)
      BY <1>1, <2>1, StackTop DEF ServerInv, TypeOK, Below
    <2>3. /\ busy' \in [Connections -> BOOLEAN] /\ idle' \in [Connections -> BOOLEAN]
      BY <1>2, <2>1, Zenon DEF TypeOK
    <2>4. \A b \in Connections : (b # c => idle'[b] = idle[b] /\ busy'[b] = busy[b])
      BY <1>2, <2>1 DEF TypeOK
    <2>5. TypeOK' /\ IdleTimed'
      BY <1>1, <1>2, <1>4, <2>1, <2>2, <2>3, <2>4 DEF TypeOK, IdleTimed
    <2>6. Posted'
      BY <1>1, <1>2, <1>4, <2>1, <2>4 DEF Posted
    <2> QED BY <1>0, <1>1, <1>4, <2>1, <2>5, <2>6, Pops
  <1>5. CASE /\ Done(c) /\ UNCHANGED <<busy, idle>>
             /\ \/ conn' = Aborted(c)
                \/ \E close \in BOOLEAN :
                      conn' = [conn EXCEPT ![c] = IF close /\ @ = "open" THEN "closing" ELSE @]
    <2>1. PICK d \in ConnState \ {"none"} :
            /\ conn' = [conn EXCEPT ![c] = d]
            /\ d = "gone" <=> conn[c] = "gone"
            /\ d = "open" => conn[c] = "open"
      BY <1>2, <1>3, <1>5, ConnAfter
    <2> QED BY <1>0, <1>1, <1>5, <2>1, DoneKeeps
  <1>6. CASE /\ MayHandle(c) /\ Top.member < Len(Current(c).calls)
             /\ stack' = Below \o <<[Top EXCEPT !.phase = "call", !.member = @ + 1,
                                                !.session = "none"]>>
             /\ UNCHANGED <<conn, taken, busy, idle>>
    <2>0. PICK f : f = [Top EXCEPT !.phase = "call", !.member = @ + 1, !.session = "none"]
      OBVIOUS
    <2>1. stack' = Below \o <<f>>
      BY <1>6, <2>0
    <2>2. /\ f \in Frame /\ f.on = c /\ f.phase = "call" /\ f.member = Top.member + 1
          /\ Top.member \in Nat
      <3>1. PICK m : m = Top.member + 1
        OBVIOUS
      <3>2. Top.member \in Nat /\ Top.on = c
        BY <1>0, <1>2 DEF Frame
      <3>3. m \in Nat
        BY <3>1, <3>2
      <3>4. f = [Top EXCEPT !.phase = "call", !.member = m, !.session = "none"]
        BY <2>0, <3>1
      <3>5. f \in Frame /\ f.on = c /\ f.phase = "call" /\ f.member = m
        BY <1>2, <3>2, <3>3, <3>4 DEF Frame, InCall
      <3> QED BY <3>1, <3>2, <3>5
    <2>3. Holds(f)'
      <3> DEFINE calls == Current(c).calls
      <3>1. Top.member \in 1 .. Len(calls) /\ Top.member < Len(calls)
        BY <1>0, <1>3, <1>6 DEF Holds
      <3> HIDE DEF calls
      <3>2. f.member \in 1 .. Len(calls)
        BY <2>2, <3>1
      <3> QED BY <1>0, <1>1, <1>3, <1>6, <2>2, <3>2 DEF Holds, HasRequest, Current, calls
    <2>4. stack' \in Seq(Frame)
      BY <1>1, <2>1, <2>2, StackIs DEF ServerInv, TypeOK, Below
    <2>5. TypeOK' /\ Posted' /\ IdleTimed'
      BY <1>1, <1>2, <1>6, <2>4 DEF TypeOK, Posted, IdleTimed
    <2>6. \A k \in 1 .. Len(ran[c]) : conn[c] # "gone" => BehindTop(c, f, ran[c][k], taken[c])
      <3>1. \A k \in 1 .. Len(ran[c]) : conn[c] # "gone" => BehindTop(c, Top, ran[c][k], taken[c])
        BY <1>0, <1>1, TopBehind
      <3>2. \A k \in 1 .. Len(ran[c]) : ran[c][k][2] \in Nat
        BY <1>2 DEF TypeOK
      <3> QED BY <1>1, <2>2, <3>1, <3>2 DEF BehindTop, Passed, InCall
    <2>7. \A k \in 1 .. Len(ran[c]) - 1 : Before(ran[c][k], ran[c][k + 1])
      BY <1>2 DEF ServerInv, RanInOrder
    <2>8. MayHandle(c)'
      BY <1>1, <1>6 DEF MayHandle
    <2> QED BY <1>0, <1>1, <1>6, <2>1, <2>2, <2>3, <2>5, <2>6, <2>7, <2>8, GoesOn
  <1>7. Current(c).close \in BOOLEAN
    BY <1>0, <1>2, <1>3, RequestsAssumption DEF TypeOK, Holds, HasRequest, Current, Request
  <1> DEFINE cut == Current(c).kind = "batch" /\ ~MayHandle(c)
             more == Current(c).kind = "batch" /\ Top.member < Len(Current(c).calls)
  <1>8. CASE conn[c] # "gone" /\ cut
    BY <1>0, <1>5, <1>8 DEF CallReturns
  <1>9. CASE conn[c] # "gone" /\ ~cut /\ more
    BY <1>0, <1>6, <1>9 DEF CallReturns
  <1>10. CASE conn[c] # "gone" /\ ~cut /\ ~more
    BY <1>0, <1>5, <1>7, <1>10 DEF CallReturns, Answer
  <1> QED BY <1>4, <1>8, <1>9, <1>10

-----------------------------------------------------------------------------
(* The theorems.                                                           *)

\* No connection, nothing read, nothing run.
LEMMA ServerInit ==
  ASSUME Init
  PROVE  ServerInv
  <1>1. stack = << >> /\ Len(stack) = 0 /\ stack \in Seq(Frame) /\ 1 .. 0 = {}
    BY DEF Init
  <1>2. TypeOK
    <2>1. << >> \in Seq(Requests) /\ << >> \in Seq(Nat \X Nat)
      OBVIOUS
    <2>2. /\ sent \in [Connections -> Seq(Requests)] /\ taken \in [Connections -> Nat]
          /\ ran \in [Connections -> Seq(Nat \X Nat)]
      BY <2>1 DEF Init
    <2>3. /\ conn \in [Connections -> ConnState] /\ signalled \in [Connections -> BOOLEAN]
          /\ busy \in [Connections -> BOOLEAN] /\ idle \in [Connections -> BOOLEAN]
          /\ listening \in BOOLEAN
      BY DEF Init, ConnState
    <2> QED BY <1>1, <2>2, <2>3 DEF TypeOK
  <1>3. Alone /\ BusyIsServed /\ OthersWait /\ CallsHeld /\ MayCall /\ Posted
    BY <1>1 DEF Init, Alone, BusyIsServed, OthersWait, CallsHeld, MayCall, Posted
  <1>4. RanBehind /\ RanInOrder
    BY <1>2 DEF Init, RanBehind, RanInOrder, TypeOK
  <1>5. WaitApart /\ BusyWaits /\ IdleTimed
    BY <1>1 DEF Init, WaitApart, BusyWaits, Waiting, IdleTimed
  <1> QED BY <1>2, <1>3, <1>4, <1>5 DEF ServerInv

\* Every step of the server, its clients and its timers.
LEMMA ServerStep ==
  ASSUME ServerInv, [Next]_vars
  PROVE  ServerInv'
  <1>1. CASE Next
    <2>1. CASE Handler
      BY <2>1, NoMoreKeeps, MalformedKeeps, TakeRequestKeeps, CarryOutKeeps, CallReturnsKeeps
      DEF Handler
    <2>2. CASE LoopEnds
      BY <2>2, LoopEndsKeeps
    <2>3. ASSUME NEW c \in Connections, OnClientData(c) PROVE ServerInv'
      BY <2>3, DataKeeps
    <2> QED BY <1>1, <2>1, <2>2, <2>3, EventsKeep DEF Next
  <1>2. CASE UNCHANGED vars
    <2>1. TypeOK' /\ Posted' /\ IdleTimed'
      BY <1>2 DEF ServerInv, TypeOK, Posted, IdleTimed, vars, socketVars, sessionVars
    <2>2. /\ CallsHeld' /\ MayCall' /\ RanBehind' /\ RanInOrder'
      BY <1>2 DEF ServerInv, CallsHeld, MayCall, RanBehind, RanInOrder, Behind, Holds,
                  HasRequest, Current, MayHandle, vars, socketVars, sessionVars
    <2>3. (Alone /\ BusyIsServed /\ OthersWait /\ WaitApart /\ BusyWaits)'
      BY <1>2 DEF ServerInv, Alone, BusyIsServed, OthersWait, WaitApart, BusyWaits, Waiting,
                  vars, socketVars, sessionVars
    <2> QED BY <2>1, <2>2, <2>3 DEF ServerInv
  <1> QED BY <1>1, <1>2

\* Whatever the clients send and however deep their calls nest, a socket has at
\* most one handler, all handlers but the latest wait, and what was carried out
\* is behind what the handlers hold (onClientData, handleHttpRequest).
THEOREM ServerInductive == Spec => []ServerInv
  <1>1. Init => ServerInv
    BY ServerInit
  <1>2. ServerInv /\ [Next]_vars => ServerInv'
    BY ServerStep
  <1> QED BY <1>1, <1>2, PTL DEF Spec

\* A session has at most one call in its nested loop, exactly then it counts as
\* busy, and an open connection has its idle timer running exactly when none of
\* its requests is in flight (m_busySessions, BusyGuard).
THEOREM GuardsAreTrue == Spec => []GuardsMatchCalls
  <1>1. ServerInv => GuardsMatchCalls
    BY GuardsFollow
  <1> QED BY <1>1, ServerInductive, PTL

\* Each call is carried out once, in the order sent, and only on a connection
\* that is open with the server on (onClientData, handleHttpRequest, stop).
THEOREM CallsRunOnce == Spec => RunsOnceInOrder
  <1>1. ASSUME ServerInv, ServerInv', [Next]_vars, NEW c \in Connections, ran'[c] # ran[c]
        PROVE  /\ listening /\ conn[c] = "open"
               /\ \A i \in 1 .. Len(ran'[c]) - 1 : Before(ran'[c][i], ran'[c][i + 1])
    <2>1. RanInOrder'
      BY <1>1 DEF ServerInv
    <2>2. CarryOut
      <3>1. ran' # ran
        BY <1>1
      <3> QED BY <1>1, <3>1 DEF Next, Handler, NoMore, Malformed, TakeRequest, CallReturns,
              LoopEnds, Start, Stop, UserClosesTab, NewConnection, Disconnects, Deleted,
              IdleTimeout, OnClientData, Arrives, vars
    <2>3. MayHandle(Top.on)
      BY <1>1, <2>2, CarriedOut
    <2>4. c = Top.on
      BY <1>1, <2>2 DEF CarryOut, ServerInv, TypeOK
    <2> QED BY <1>1, <2>1, <2>3, <2>4 DEF MayHandle, RanInOrder
  <1>2. ServerInv /\ ServerInv' /\ [Next]_vars
        => [\A c \in Connections : ran'[c] # ran[c] =>
              /\ listening /\ conn[c] = "open"
              /\ \A i \in 1 .. Len(ran'[c]) - 1 : Before(ran'[c][i], ran'[c][i + 1])]_vars
    BY <1>1
  <1> QED BY <1>2, ServerInductive, PTL DEF RunsOnceInOrder, Spec

===============================================================================
