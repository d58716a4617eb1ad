---------------------------- MODULE SessionTabProofs ----------------------------
(***************************************************************************)
(* Proofs about SessionTab for every set of profiles and scripts and every *)
(* bound: what the tab shows once its queue is empty is the session's      *)
(* state, and a script is wired to the screen once.  And about what runs   *)
(* in the tab's event loop: PcCommand, where each command is answered once *)
(* and run only as allowed, and ScriptEditor, where every open file stays  *)
(* watched and no text is lost unasked.  And about the profiles that tabs  *)
(* and the Connect dialog read and write (SavedSessions): for any number   *)
(* of them nothing is lost unasked.                                        *)
(***************************************************************************)
EXTENDS SessionTab, PcCommand, ScriptEditor, SavedSessions, SessionWorkerProofs, SequenceTheorems,
        WellFoundedInduction

-----------------------------------------------------------------------------
(* The worker's reports.                                                   *)

\* Where the signals handled in place leave the state: the last state among
\* them is the one the client went to, or there is none and it stayed in s.
Finishes(o, s) ==
  \/ \E i \in 1..Direct(o) :
       /\ o.signals[i] = o.next
       /\ \A j \in 1..Direct(o) : j > i => o.signals[j] \notin ConnectionState
  \/ o.next = s /\ \A j \in 1..Direct(o) : o.signals[j] \notin ConnectionState

\* An outcome whose k-th signal is the state it leads to, with no state behind.
LEMMA FinishesAt ==
  ASSUME NEW o \in Outcomes, NEW s, NEW k \in 1..Direct(o), o.signals[k] = o.next,
         \A j \in 1..Len(o.signals) : j > k => o.signals[j] \notin ConnectionState
  PROVE  Finishes(o, s)
  <1>1. Direct(o) \in 0..Len(o.signals) /\ Len(o.signals) \in Nat
    BY OutcomeShape DEF Shape
  <1> QED BY <1>1 DEF Finishes

\* Every outcome of the client finishes where its signals say (ClientLifecycle).
LEMMA OutcomeFinishes ==
  ASSUME NEW s \in ConnectionState,
         NEW o \in Lifecycle!ConnectOutcomes \cup Lifecycle!EventOutcomes(s)
  PROVE  Finishes(o, s)
  <1> USE DEF ConnectionState
  <1>0. o \in Outcomes
    BY DEF Outcomes
  <1>1. CASE o.signals \in {<<"Connecting">>, <<"Negotiating">>} /\ o.signals = <<o.next>>
    <2>1. ~Received(o) /\ Direct(o) = 1 /\ o.signals[1] = o.next /\ Len(o.signals) = 1
      BY <1>1 DEF Received, Direct
    <2> QED BY <1>0, <2>1, FinishesAt
  <1>2. CASE /\ o.signals \in {<<"Error", "errorOccurred">>, <<"Disconnected", "disconnected">>,
                               <<"Disconnected", "errorOccurred">>, <<"Connected", "connected">>}
             /\ o.next = o.signals[1]
    <2>1. /\ ~Received(o) /\ Direct(o) = 2 /\ Len(o.signals) = 2
          /\ o.signals[2] \notin ConnectionState
      BY <1>2 DEF Received, Direct
    <2> QED BY <1>0, <1>2, <2>1, FinishesAt
  <1>3. CASE /\ o.signals = <<"Disconnected", "disconnected", "errorOccurred">>
             /\ o.next = "Disconnected"
    <2>1. /\ ~Received(o) /\ Direct(o) = 3 /\ Len(o.signals) = 3
          /\ o.signals[1] = o.next
          /\ o.signals[2] \notin ConnectionState /\ o.signals[3] \notin ConnectionState
      BY <1>3 DEF Received, Direct
    <2> QED BY <1>0, <2>1, FinishesAt
  <1>4. CASE /\ o.signals = <<"Connecting", "Error", "errorOccurred">>
             /\ o.next = "Error"
    <2>1. /\ ~Received(o) /\ Direct(o) = 3 /\ Len(o.signals) = 3
          /\ o.signals[2] = o.next /\ o.signals[3] \notin ConnectionState
      BY <1>4 DEF Received, Direct
    <2> QED BY <1>0, <2>1, FinishesAt
  <1>5. CASE /\ o.signals = <<"Error", "errorOccurred", "Disconnected", "disconnected">>
             /\ o.next = "Disconnected"
    <2>1. /\ ~Received(o) /\ Direct(o) = 4 /\ Len(o.signals) = 4
          /\ o.signals[3] = o.next /\ o.signals[4] \notin ConnectionState
      BY <1>5 DEF Received, Direct
    <2> QED BY <1>0, <2>1, FinishesAt
  <1>6. CASE /\ o.signals = <<"Connected", "connected", "dataReceived">>
             /\ o.next = "Connected"
    <2>1. /\ o.signals[3] = "dataReceived" /\ Len(o.signals) = 3 /\ 3 \in DOMAIN o.signals
          /\ o.signals[1] = o.next
          /\ o.signals[2] \notin ConnectionState /\ o.signals[3] \notin ConnectionState
      BY <1>6
    <2>2. Direct(o) = 2
      BY <2>1 DEF Received, Direct
    <2> QED BY <1>0, <2>1, <2>2, FinishesAt
  <1>7. CASE o.signals = <<"dataReceived">> /\ o.next = s
    <2>1. o.signals[1] = "dataReceived" /\ Len(o.signals) = 1 /\ 1 \in DOMAIN o.signals
      BY <1>7
    <2>2. Direct(o) = 0
      BY <2>1 DEF Received, Direct
    <2> QED BY <1>7, <2>2 DEF Finishes
  <1>8. CASE o \in Lifecycle!ConnectOutcomes
    BY <1>1, <1>4, <1>8 DEF Lifecycle!ConnectOutcomes
  <1>9. CASE o \in Lifecycle!Lost \cup Lifecycle!Closed
    BY <1>2, <1>9 DEF Lifecycle!Lost, Lifecycle!Closed
  <1>10. CASE o \in Lifecycle!GaveUp \cup Lifecycle!CertificateRefused
    BY <1>2, <1>3, <1>5, <1>10 DEF Lifecycle!GaveUp, Lifecycle!CertificateRefused
  <1>11. CASE \/ o = [next |-> "Negotiating", signals |-> <<"Negotiating">>]
              \/ o = [next |-> "Connected", signals |-> <<"Connected", "connected">>]
              \/ o = [next |-> "Connected",
                      signals |-> <<"Connected", "connected", "dataReceived">>]
              \/ o = [next |-> "Connected", signals |-> <<"dataReceived">>] /\ s = "Connected"
    BY <1>1, <1>2, <1>6, <1>7, <1>11
  <1>12. CASE o \in Lifecycle!EventOutcomes(s)
    BY <1>9, <1>10, <1>11, <1>12 DEF Lifecycle!EventOutcomes
  <1> QED BY <1>8, <1>12

\* The state of the last report in q, or d when it holds none.
Shows(q, d, r) ==
  \/ \E i \in DOMAIN q : IsLastState(q, i) /\ q[i].state = r
  \/ r = d /\ \A i \in DOMAIN q : q[i].kind # "state"

-----------------------------------------------------------------------------
(* Induction, and the queue of the window.                                 *)

\* Induction over a set of naturals.
LEMMA SetInduction ==
  ASSUME NEW T \in SUBSET Nat, 0 \in T, \A n \in T : n + 1 \in T
  PROVE  T = Nat
  <1> SUFFICES ASSUME Nat \ T # {} PROVE FALSE
    OBVIOUS
  <1>1. PICK x \in Nat \ T : \A y \in Nat \ T : ~(<<y, x>> \in OpToRel(<, Nat))
    BY WFMin, NatLessThanWellFounded
  <1>2. x # 0
    OBVIOUS
  <1>3. x - 1 \in Nat /\ x - 1 < x
    BY <1>2
  <1>4. <<x - 1, x>> \in OpToRel(<, Nat)
    BY <1>3 DEF OpToRel
  <1>5. x - 1 \in T
    BY <1>1, <1>3, <1>4
  <1> QED BY <1>3, <1>5

\* A queue that holds a report holds a last one.
LEMMA LastStateExists ==
  ASSUME NEW q \in Seq(Signal), NEW k \in DOMAIN q, q[k].kind = "state"
  PROVE  \E i \in DOMAIN q : IsLastState(q, i)
  <1> DEFINE T == {n \in Nat : n <= Len(q) /\
                     \A i \in DOMAIN q : i > Len(q) - n => q[i].kind # "state"}
  <1>1. Len(q) \in Nat /\ DOMAIN q = 1..Len(q)
    OBVIOUS
  <1>2. SUFFICES ASSUME ~ \E i \in DOMAIN q : IsLastState(q, i) PROVE FALSE
    OBVIOUS
  <1>3. 0 \in T
    BY <1>1
  <1>4. ASSUME NEW n \in T PROVE n + 1 \in T
    <2>1. n < Len(q)
      BY <1>1
    <2>2. Len(q) - n \in DOMAIN q
      BY <1>1, <2>1
    <2>3. q[Len(q) - n].kind # "state"
      BY <1>2, <2>2 DEF IsLastState
    <2> QED BY <1>1, <2>1, <2>3
  <1> HIDE DEF T
  <1>5. T = Nat
    <2>1. T \in SUBSET Nat
      BY DEF T
    <2> QED BY <1>3, <1>4, <2>1, SetInduction
  <1> QED BY <1>1, <1>5 DEF T

\* After a step the tab that handles what the worker emitted, from its report
\* before, arrives at its report.
LEMMA EmitShows ==
  ASSUME NEW q \in Seq(Signal), Emit(q)
  PROVE  emitted' = q /\ Shows(q, reported, reported')
  <1>1. CASE \E i \in DOMAIN q : IsLastState(q, i)
    BY <1>1 DEF Emit, Shows
  <1>2. CASE ~\E i \in DOMAIN q : IsLastState(q, i)
    BY <1>2, LastStateExists DEF Emit, Shows
  <1> QED BY <1>1, <1>2

\* One more signal.
LEMMA ShowsAppend ==
  ASSUME NEW q \in Seq(Signal), NEW x \in Signal, NEW d, NEW r, Shows(q, d, r)
  PROVE  Shows(Append(q, x), d, IF x.kind = "state" THEN x.state ELSE r)
  <1>1. /\ Len(q) \in Nat /\ DOMAIN q = 1..Len(q)
        /\ DOMAIN Append(q, x) = 1..(Len(q) + 1)
        /\ Append(q, x)[Len(q) + 1] = x
        /\ \A i \in 1..Len(q) : Append(q, x)[i] = q[i]
    OBVIOUS
  <1>2. CASE x.kind = "state"
    <2>1. IsLastState(Append(q, x), Len(q) + 1)
      BY <1>1, <1>2 DEF IsLastState
    <2> QED BY <1>1, <1>2, <2>1 DEF Shows
  <1>3. CASE x.kind # "state"
    <2>1. ASSUME NEW i \in DOMAIN q, IsLastState(q, i)
          PROVE  IsLastState(Append(q, x), i) /\ i \in DOMAIN Append(q, x)
      BY <1>1, <1>3, <2>1 DEF IsLastState
    <2> QED BY <1>1, <1>3, <2>1 DEF Shows
  <1> QED BY <1>2, <1>3

\* One signal handled.
LEMMA ShowsTail ==
  ASSUME NEW q \in Seq(Signal), q # <<>>, NEW d, NEW r, Shows(q, d, r)
  PROVE  Shows(Tail(q), IF Head(q).kind = "state" THEN Head(q).state ELSE d, r)
  <1>1. /\ Len(q) \in Nat /\ Len(q) >= 1 /\ DOMAIN q = 1..Len(q)
        /\ Head(q) = q[1]
        /\ DOMAIN Tail(q) = 1..(Len(q) - 1)
        /\ \A i \in 1..(Len(q) - 1) : Tail(q)[i] = q[i + 1]
    OBVIOUS
  <1>2. CASE \A i \in DOMAIN q : q[i].kind # "state"
    BY <1>1, <1>2 DEF Shows, IsLastState
  <1>3. ASSUME NEW i \in DOMAIN q, IsLastState(q, i), q[i].state = r
        PROVE  Shows(Tail(q), IF Head(q).kind = "state" THEN Head(q).state ELSE d, r)
    <2>1. CASE i = 1
      <3>1. \A j \in DOMAIN Tail(q) : Tail(q)[j].kind # "state"
        BY <1>1, <1>3, <2>1 DEF IsLastState
      <3> QED BY <1>1, <1>3, <2>1, <3>1 DEF Shows, IsLastState
    <2>2. CASE i # 1
      <3>1. i - 1 \in DOMAIN Tail(q) /\ Tail(q)[i - 1] = q[i]
        BY <1>1, <2>2
      <3>2. IsLastState(Tail(q), i - 1)
        BY <1>1, <1>3, <3>1 DEF IsLastState
      <3> QED BY <1>3, <3>1, <3>2 DEF Shows
    <2> QED BY <2>1, <2>2
  <1> QED BY <1>2, <1>3 DEF Shows

-----------------------------------------------------------------------------
(* What a step of the worker tells its tab.                                *)

\* The report shown last is unique.
LEMMA ShowsLast ==
  ASSUME NEW q \in Seq(Signal), NEW d, NEW r, Shows(q, d, r)
  PROVE  /\ \A i \in DOMAIN q : IsLastState(q, i) => r = q[i].state
         /\ (\A i \in DOMAIN q : q[i].kind # "state") => r = d
  <1>1. DOMAIN q = 1..Len(q) /\ Len(q) \in Nat
    OBVIOUS
  <1>2. ASSUME NEW i \in DOMAIN q, NEW j \in DOMAIN q, IsLastState(q, i), IsLastState(q, j)
        PROVE  i = j
    BY <1>1, <1>2 DEF IsLastState
  <1> QED BY <1>2 DEF Shows, IsLastState

\* A status that does not wait for a reconnect any more: a state has been shown
\* since, or the end of a replay.
Settles(signal) ==
  \/ signal.kind = "state" /\ signal.state # "Error"
  \/ signal.kind = "replayFinished"

\* A reconnect is announced by a session with a host, and then its timer runs;
\* only a replay session tells of the end of a replay.
KindsKnown ==
  \A k \in DOMAIN emitted :
    /\ emitted[k].kind = "reconnectScheduled" => cfg.replay = 0 /\ timer
    /\ emitted[k].kind = "replayFinished" => cfg.replay > 0

\* What an outcome passed on tells: the state it leads to, and it announces
\* nothing.
LEMMA PassOnTells ==
  ASSUME NEW s \in ConnectionState,
         NEW o \in Lifecycle!ConnectOutcomes \cup Lifecycle!EventOutcomes(s),
         NEW ticking, PassOn(o, ticking)
  PROVE  /\ client' = o.next /\ timer' = ticking
         /\ reported' = o.next \/ (o.next = s /\ reported' = reported)
         /\ emitted' \in Seq(Signal) /\ Shows(emitted', reported, reported')
         /\ \A k \in DOMAIN emitted' :
              emitted'[k].kind \notin {"reconnectScheduled", "replayFinished"}
  <1>0. o \in Outcomes
    BY DEF Outcomes
  <1>1. Shape(o) /\ Finishes(o, s)
    BY <1>0, OutcomeShape, OutcomeFinishes
  <1> DEFINE q == [i \in 1..Direct(o) |-> Forwarded(o.signals[i])]
  <1>2. Direct(o) \in Nat /\ \A i \in 1..Direct(o) : o.signals[i] \in InPlace
    BY <1>1 DEF Shape
  <1>3. \A i \in 1..Direct(o) : Forwarded(o.signals[i]) \in Signal
    BY <1>2, ForwardedType
  <1>4. q \in Seq(Signal) /\ DOMAIN q = 1..Direct(o)
    BY <1>2, <1>3
  <1>5. \A i \in 1..Direct(o) :
          /\ o.signals[i] \in ConnectionState =>
               q[i].kind = "state" /\ q[i].state = o.signals[i]
          /\ o.signals[i] \notin ConnectionState => q[i].kind # "state"
          /\ q[i].kind \notin {"reconnectScheduled", "replayFinished"}
    BY <1>2 DEF Forwarded, State, Plain, InPlace
  <1>6. Emit(q) /\ client' = o.next /\ timer' = ticking
    BY DEF PassOn
  <1> HIDE DEF q
  <1>7. emitted' = q /\ Shows(q, reported, reported')
    BY <1>4, <1>6, EmitShows
  <1>8. o.next \in ConnectionState
    BY <1>1 DEF Shape
  <1>9. reported' = o.next \/ (o.next = s /\ reported' = reported)
    <2>1. ASSUME NEW i \in 1..Direct(o), o.signals[i] = o.next,
                 \A j \in 1..Direct(o) : j > i => o.signals[j] \notin ConnectionState
          PROVE  reported' = o.next
      <3>1. i \in DOMAIN q /\ IsLastState(q, i) /\ q[i].state = o.next
        BY <1>4, <1>5, <1>8, <2>1 DEF IsLastState
      <3> QED BY <1>4, <1>7, <3>1, ShowsLast
    <2>2. ASSUME o.next = s, \A j \in 1..Direct(o) : o.signals[j] \notin ConnectionState
          PROVE  reported' = reported
      BY <1>4, <1>5, <1>7, <2>2, ShowsLast
    <2> QED BY <1>1, <2>1, <2>2 DEF Finishes
  <1> QED BY <1>4, <1>5, <1>6, <1>7, <1>9

\* What scheduling a reconnect tells: the end of the connection, and the attempt.
LEMMA ScheduleTells ==
  ASSUME TypeOK, NEW o \in Outcomes, NEW i \in 1..Direct(o), NEW ticking \in BOOLEAN,
         ScheduleReconnect(o, i, ticking)
  PROVE  /\ timer' = TRUE
         /\ reported' \in {"Disconnected", "Error"}
         /\ emitted' \in Seq(Signal) /\ Shows(emitted', reported, reported')
         /\ \A k \in DOMAIN emitted' : emitted'[k].kind # "replayFinished"
  <1>1. Shape(o)
    BY OutcomeShape
  <1> DEFINE scheduled == [kind |-> "reconnectScheduled", attempt |-> attempt']
             q == [j \in 1..(i + 1) |->
                     IF j <= i THEN Forwarded(o.signals[j]) ELSE scheduled]
  <1>2. i \in Nat /\ \A j \in 1..i : j \in 1..Direct(o) /\ o.signals[j] \in InPlace
    BY <1>1 DEF Shape
  <1>3. emitted' \in Seq(Signal)
    BY ScheduleReconnectType
  <1>4. Emit(q) /\ timer' = TRUE /\ Ends(o.signals, i)
    BY DEF ScheduleReconnect
  <1>5. emitted' = q
    BY <1>4 DEF Emit
  <1>6. /\ DOMAIN q = 1..(i + 1) /\ i \in 1..(i + 1) /\ i + 1 \in 1..(i + 1)
        /\ q[i] = Forwarded(o.signals[i]) /\ q[i + 1] = scheduled
        /\ \A j \in 1..(i + 1) : j = i + 1 \/ (q[j] = Forwarded(o.signals[j]) /\ j \in 1..i)
    BY <1>2
  <1>7. /\ q[i].kind = "state" /\ q[i].state \in {"Disconnected", "Error"}
        /\ q[i + 1].kind = "reconnectScheduled"
    BY <1>4, <1>6 DEF Ends, Forwarded, State, ConnectionState
  <1>8. \A k \in DOMAIN q : q[k].kind # "replayFinished"
    BY <1>2, <1>6, <1>7 DEF Forwarded, State, Plain, InPlace
  <1> HIDE DEF q, scheduled
  <1>9. IsLastState(q, i)
    BY <1>2, <1>6, <1>7 DEF IsLastState
  <1>10. q \in Seq(Signal) /\ Shows(q, reported, reported')
    BY <1>3, <1>4, <1>5, EmitShows
  <1>11. reported' = q[i].state
    BY <1>6, <1>9, <1>10, ShowsLast
  <1> QED BY <1>3, <1>4, <1>5, <1>7, <1>8, <1>10, <1>11

\* What stop() tells: nothing if there was nothing to stop, else that the
\* session is disconnected.
LEMMA StopTells ==
  ASSUME IInv, StopConnection
  PROVE  /\ emitted' \in Seq(Signal) /\ Shows(emitted', reported, reported')
         /\ \/ reported' = "Disconnected"
            \/ /\ reported' = reported
               /\ ~timer /\ replay = "off" /\ client = "none"
         /\ \A k \in DOMAIN emitted' :
              emitted'[k].kind \notin {"reconnectScheduled", "replayFinished"}
         /\ timer => \E k \in DOMAIN emitted' : Settles(emitted'[k])
  <1> DEFINE gone == <<State("Disconnected"), Plain("disconnected")>>
             forTimer == IF timer THEN <<State("Disconnected")>> ELSE <<>>
             forReplay == IF replay # "off" THEN gone ELSE <<>>
             forClient == IF client # "none" THEN gone ELSE <<>>
             q == forTimer \o forReplay \o forClient
  <1>1. /\ timer => replay = "off" /\ client = "none"
        /\ replay # "off" => client = "none"
    BY DEF IInv, ClientOrTimer, ReplayHasNoClient, TypeOK
  <1>2. State("Disconnected") \in Signal /\ Plain("disconnected") \in Signal
    BY DEF State, Plain, Signal, ConnectionState
  <1>3. /\ <<>> \in Seq(Signal) /\ <<State("Disconnected")>> \in Seq(Signal)
        /\ gone \in Seq(Signal)
    BY <1>2
  <1>4. Emit(q)
    BY DEF StopConnection
  <1>5. \A s \in Seq(Signal) : s \o <<>> = s /\ <<>> \o s = s
    BY ConcatEmptySeq
  <1>6. \/ timer /\ q = <<State("Disconnected")>>
        \/ ~timer /\ q = gone
        \/ ~timer /\ replay = "off" /\ client = "none" /\ q = <<>>
    <2> HIDE DEF gone
    <2>1. CASE timer
      BY <1>1, <1>3, <1>5, <2>1
    <2>2. CASE ~timer /\ replay # "off"
      BY <1>1, <1>3, <1>5, <2>2
    <2>3. CASE ~timer /\ replay = "off"
      BY <1>3, <1>5, <2>3
    <2> QED BY <2>1, <2>2, <2>3
  <1> HIDE DEF q
  <1>7. q \in Seq(Signal)
    BY <1>3, <1>6
  <1>8. emitted' = q /\ Shows(q, reported, reported')
    BY <1>4, <1>7, EmitShows
  <1>9. CASE timer /\ q = <<State("Disconnected")>>
    <2>1. /\ DOMAIN q = {1} /\ q[1].kind = "state" /\ q[1].state = "Disconnected"
      BY <1>9 DEF State
    <2>2. IsLastState(q, 1)
      BY <2>1 DEF IsLastState
    <2>3. reported' = "Disconnected"
      BY <1>7, <1>8, <2>1, <2>2, ShowsLast
    <2> QED BY <1>7, <1>8, <2>1, <2>3 DEF Settles
  <1>10. CASE ~timer /\ q = gone
    <2>1. /\ DOMAIN q = {1, 2} /\ q[1].kind = "state" /\ q[1].state = "Disconnected"
          /\ q[2].kind = "disconnected"
      BY <1>10 DEF State, Plain
    <2>2. IsLastState(q, 1)
      BY <2>1 DEF IsLastState
    <2>3. reported' = "Disconnected"
      BY <1>7, <1>8, <2>1, <2>2, ShowsLast
    <2> QED BY <1>7, <1>8, <1>10, <2>1, <2>3
  <1>11. CASE ~timer /\ replay = "off" /\ client = "none" /\ q = <<>>
    <2>1. DOMAIN q = {}
      BY <1>11
    <2>2. reported' = reported
      BY <1>7, <1>8, <2>1, ShowsLast
    <2> QED BY <1>7, <1>8, <1>11, <2>1, <2>2
  <1> QED BY <1>6, <1>9, <1>10, <1>11


\* What a client that is created, or an event of a client, tells the tab.
LEMMA ClientTells ==
  ASSUME TypeOK, NEW s \in ConnectionState, NEW ticking \in BOOLEAN,
         NEW o \in Lifecycle!ConnectOutcomes \cup Lifecycle!EventOutcomes(s),
         HandleClient(o, ticking),
         cfg' = cfg, cfg.replay = 0, replay' = replay
  PROVE  /\ emitted' \in Seq(Signal) /\ Shows(emitted', reported, reported')
         /\ KindsKnown'
         /\ \/ reported' = client'
            \/ reported' \in {"Disconnected", "Error"}
            \/ client' = s /\ reported' = reported
         /\ timer' = ticking \/ timer' = TRUE
  <1>1. o \in Outcomes
    BY DEF Outcomes
  <1>2. CASE PassOn(o, ticking)
    BY <1>2, PassOnTells DEF KindsKnown
  <1>3. CASE \E i \in 1..Direct(o) : ScheduleReconnect(o, i, ticking)
    BY <1>1, <1>3, ScheduleTells DEF KindsKnown
  <1> QED BY <1>2, <1>3 DEF HandleClient

\* A client created when the timer fired settles what the status announced: it
\* reports that it is connecting.
LEMMA CreateTells ==
  ASSUME TypeOK, CreateClientAndConnect, cfg' = cfg, cfg.replay = 0, replay' = replay
  PROVE  /\ emitted' \in Seq(Signal) /\ Shows(emitted', reported, reported')
         /\ KindsKnown'
         /\ \/ reported' = client'
            \/ reported' \in {"Disconnected", "Error"}
         /\ ~timer' => \E k \in DOMAIN emitted' : Settles(emitted'[k])
  <1>1. PICK o \in Lifecycle!ConnectOutcomes : HandleClient(o, FALSE)
    BY DEF CreateClientAndConnect
  <1>2. o \in Outcomes /\ o.next # "Disconnected" /\ o.next \in ConnectionState
    BY DEF Outcomes, Lifecycle!ConnectOutcomes, ConnectionState
  <1>3. "Disconnected" \in ConnectionState
    BY DEF ConnectionState
  <1>4. CASE PassOn(o, FALSE)
    <2>1. /\ client' = o.next /\ timer' = FALSE /\ reported' = o.next
          /\ emitted' \in Seq(Signal) /\ Shows(emitted', reported, reported')
          /\ \A k \in DOMAIN emitted' :
               emitted'[k].kind \notin {"reconnectScheduled", "replayFinished"}
      BY <1>2, <1>3, <1>4, PassOnTells
    <2>2. emitted' = [i \in 1..Direct(o) |-> Forwarded(o.signals[i])]
      BY <1>4 DEF PassOn, Emit
    <2>3. /\ o.signals[1] = "Connecting"
          /\ Len(o.signals) \in {1, 3}
          /\ \A i \in DOMAIN o.signals : o.signals[i] # "dataReceived"
      BY DEF Lifecycle!ConnectOutcomes
    <2>4. 1 \in 1..Direct(o)
      BY <2>3 DEF Direct, Received
    <2>5. 1 \in DOMAIN emitted' /\ Settles(emitted'[1])
      BY <2>2, <2>3, <2>4 DEF Settles, Forwarded, State, ConnectionState
    <2> QED BY <2>1, <2>5 DEF KindsKnown
  <1>5. CASE \E i \in 1..Direct(o) : ScheduleReconnect(o, i, FALSE)
    BY <1>2, <1>5, ScheduleTells DEF KindsKnown
  <1> QED BY <1>1, <1>4, <1>5 DEF HandleClient

\* What the steps of the worker tell the tab: where the session is, and, once
\* the timer has stopped, that no reconnect is to come.
Tells ==
  /\ emitted' \in Seq(Signal) /\ Shows(emitted', reported, reported')
  /\ KindsKnown'
  /\ timer /\ ~timer' => \E k \in DOMAIN emitted' : Settles(emitted'[k])

\* One or two signals of which none is a report.
LEMMA PlainTells ==
  ASSUME NEW q \in Seq(Signal), Emit(q), timer' = timer, cfg' = cfg,
         \A k \in DOMAIN q : /\ q[k].kind \notin {"state", "reconnectScheduled"}
                             /\ q[k].kind = "replayFinished" => cfg.replay > 0
  PROVE  Tells /\ reported' = reported
  <1>1. emitted' = q /\ Shows(q, reported, reported')
    BY EmitShows
  <1>2. reported' = reported
    BY <1>1, ShowsLast
  <1> QED BY <1>1, <1>2 DEF Tells, KindsKnown

\* Every step of the worker tells the tab the truth.
LEMMA WorkerTells ==
  ASSUME IInv, ReportTracksClient, Next
  PROVE  Tells /\ ReportTracksClient'
  <1>0. TypeOK /\ cfg.replay \in Nat
    <2>1. TypeOK
      BY DEF IInv
    <2>2. cfg \in Configs
      BY <2>1 DEF TypeOK
    <2>3. cfg \in [auto : BOOLEAN, max : Nat, replay : Nat]
      BY <2>2, ConfigsAssumption
    <2> QED BY <2>1, <2>3
  <1>1. CASE StartSession
    <2>1. /\ CreateClientAndConnect /\ cfg' = cfg /\ cfg.replay = 0 /\ replay' = replay
          /\ ~timer
      BY <1>1 DEF StartSession, replayVars, IInv, NewIsIdle
    <2> QED BY <1>0, <2>1, CreateTells DEF Tells, ReportTracksClient
  <1>2. CASE StartReplay
    <2>1. /\ State("Connected") \in Signal /\ Plain("connected") \in Signal
          /\ State("Disconnected") \in Signal /\ Plain("errorOccurred") \in Signal
      BY DEF State, Plain, Signal, ConnectionState
    <2>2. CASE replay' = "armed" /\ Emit(<<State("Connected"), Plain("connected")>>)
      <3> DEFINE q == <<State("Connected"), Plain("connected")>>
      <3>1. /\ q \in Seq(Signal) /\ DOMAIN q = {1, 2}
            /\ q[1].kind = "state" /\ q[1].state = "Connected" /\ q[2].kind = "connected"
        BY <2>1 DEF State, Plain
      <3> HIDE DEF q
      <3>2. emitted' = q /\ Shows(q, reported, reported')
        BY <2>2, <3>1, EmitShows DEF q
      <3> QED BY <1>2, <2>2, <3>1, <3>2 DEF StartReplay, connectionVars, Tells, KindsKnown,
            ReportTracksClient
    <2>3. CASE Emit(<<Plain("errorOccurred"), State("Disconnected")>>)
      <3> DEFINE q == <<Plain("errorOccurred"), State("Disconnected")>>
      <3>1. /\ q \in Seq(Signal) /\ DOMAIN q = {1, 2}
            /\ q[2].kind = "state" /\ q[2].state = "Disconnected"
            /\ q[1].kind = "errorOccurred"
        BY <2>1 DEF State, Plain
      <3> HIDE DEF q
      <3>2. emitted' = q /\ Shows(q, reported, reported')
        BY <2>3, <3>1, EmitShows DEF q
      <3>3. IsLastState(q, 2)
        BY <3>1 DEF IsLastState
      <3>4. reported' = "Disconnected"
        BY <3>1, <3>2, <3>3, ShowsLast
      <3> QED BY <1>2, <3>1, <3>2, <3>4 DEF StartReplay, connectionVars, Tells, KindsKnown,
            ReportTracksClient
    <2> QED BY <1>2, <2>2, <2>3 DEF StartReplay
  <1>3. CASE ClientEvent
    <2>1. PICK o \in Lifecycle!EventOutcomes(client) : HandleClient(o, timer)
      BY <1>3 DEF ClientEvent
    <2>2. /\ client \in ConnectionState /\ timer = FALSE /\ FALSE \in BOOLEAN
          /\ cfg' = cfg /\ cfg.replay = 0 /\ replay' = replay
      BY <1>3 DEF ClientEvent, IInv, TypeOK, ClientOrTimer, ReplayHasNoClient, threadVars,
        replayVars
    <2>3. o \in Lifecycle!ConnectOutcomes \cup Lifecycle!EventOutcomes(client)
      BY <2>1
    <2>4. /\ emitted' \in Seq(Signal) /\ Shows(emitted', reported, reported')
          /\ KindsKnown'
          /\ \/ reported' = client'
             \/ reported' \in {"Disconnected", "Error"}
             \/ client' = client /\ reported' = reported
      BY <1>0, <2>1, <2>2, <2>3, ClientTells
    <2>5. ReportTracksClient'
      BY <2>2, <2>4 DEF ReportTracksClient
    <2> QED BY <2>2, <2>4, <2>5 DEF Tells
  <1>4. CASE ReconnectTimeout
    <2>1. /\ CreateClientAndConnect /\ cfg' = cfg /\ cfg.replay = 0 /\ replay' = replay
      BY <1>4 DEF ReconnectTimeout, threadVars, replayVars, IInv, ClientOrTimer,
        StoppedIsQuiet, ReplayHasNoClient
    <2> QED BY <1>0, <2>1, CreateTells DEF Tells, ReportTracksClient
  <1>5. CASE DeliverData
    <2>1. inbox \in Seq(Event) /\ inbox # <<>> /\ Head(inbox).kind = "data"
      BY <1>0, <1>5 DEF DeliverData, TypeOK
    <2>2. Head(inbox) \in Event
      BY <2>1
    <2> DEFINE q == <<[kind |-> "appData", from |-> Head(inbox).from]>>
    <2>3. q \in Seq(Signal) /\ DOMAIN q = {1} /\ q[1].kind = "appData"
      BY <2>1, <2>2 DEF Event, Signal
    <2>4. Emit(q) /\ timer' = timer /\ cfg' = cfg /\ client' = client /\ replay' = replay
      BY <1>5 DEF DeliverData, connectionVars, threadVars, replayVars
    <2> HIDE DEF q
    <2>5. Tells /\ reported' = reported
      BY <2>3, <2>4, PlainTells
    <2> QED BY <2>4, <2>5 DEF ReportTracksClient
  <1>6. CASE DeliverStop \/ FinishThread
    <2>1. StopConnection /\ cfg' = cfg
      BY <1>6 DEF DeliverStop, FinishThread, threadVars
    <2> QED BY <2>1, StopTells DEF Tells, KindsKnown, ReportTracksClient
  <1>7. CASE ReplayTick
    <2>1. /\ cfg.replay > 0 /\ replay = "armed" /\ replay' # "off"
          /\ timer' = timer /\ cfg' = cfg
      BY <1>0, <1>7 DEF ReplayTick, IInv, TypeOK, threadVars, connectionVars
    <2>2. PICK q \in {<<[kind |-> "appData", from |-> 0]>>,
                      <<[kind |-> "appData", from |-> 0], Plain("replayFinished")>>} : Emit(q)
      BY <1>7 DEF ReplayTick
    <2>3. [kind |-> "appData", from |-> 0] \in Signal
            /\ Plain("replayFinished") \in Signal
      BY DEF Plain, Signal
    <2>4. q \in Seq(Signal) /\ \A k \in DOMAIN q : q[k].kind \in {"appData", "replayFinished"}
      <3> DEFINE record == [kind |-> "appData", from |-> 0]
                 end == Plain("replayFinished")
      <3>1. record \in Signal /\ end \in Signal
        BY <2>3
      <3>2. record.kind = "appData" /\ end.kind = "replayFinished"
        BY DEF Plain
      <3>3. q = <<record>> \/ q = <<record, end>>
        BY <2>2
      <3> HIDE DEF record, end
      <3>4. CASE q = <<record>>
        BY <3>1, <3>2, <3>4
      <3>5. CASE q = <<record, end>>
        BY <3>1, <3>2, <3>5
      <3> QED BY <3>3, <3>4, <3>5
    <2>5. Tells
      BY <2>1, <2>2, <2>4, PlainTells
    <2> QED BY <2>1, <2>5 DEF ReportTracksClient
  <1>8. CASE RequestDisconnect \/ CloseSession
    <2>1. /\ Emit(<<>>) /\ timer' = timer /\ cfg' = cfg /\ client' = client
          /\ replay' = replay
      BY <1>8 DEF RequestDisconnect, CloseSession, PostStop, connectionVars, replayVars
    <2>2. <<>> \in Seq(Signal) /\ DOMAIN <<>> = {}
      OBVIOUS
    <2>3. Tells /\ reported' = reported
      BY <2>1, <2>2, PlainTells
    <2> QED BY <2>1, <2>3 DEF ReportTracksClient
  <1> QED BY <1>1, <1>2, <1>3, <1>4, <1>5, <1>6, <1>7, <1>8 DEF Next

\* The tab is told only of connections that are there (Worker::stop,
\* Worker::onClientStateChanged).
THEOREM ReportIsTrue == Spec => []ReportTracksClient
  <1>1. Init => ReportTracksClient
    BY DEF Init, ReportTracksClient
  <1>2. IInv /\ ReportTracksClient /\ [Next]_vars => ReportTracksClient'
    <2>1. UNCHANGED vars /\ ReportTracksClient => ReportTracksClient'
      BY DEF vars, ReportTracksClient
    <2> QED BY <2>1, WorkerTells
  <1> QED BY <1>1, <1>2, Inductive, PTL DEF Spec


-----------------------------------------------------------------------------
(* The queue of the window.                                                *)

\* What posting one signal makes of the queue.
Queued(q, signal) == IF Heard(signal) THEN Append(q, signal) ELSE q

\* The queue after each of the signals of e.
Stages(g, e, n) ==
  /\ g \in [0..n -> Seq(Signal)]
  /\ g[0] = window
  /\ \A i \in 1..n : g[i] = Queued(g[i - 1], e[i])

\* The recursive function of Post exists.
LEMMA StagesExist ==
  ASSUME NEW e \in Seq(Signal), window \in Seq(Signal)
  PROVE  \E g : Stages(g, e, Len(e))
  <1> DEFINE T == {n \in Nat : n <= Len(e) => \E g : Stages(g, e, n)}
  <1>1. 0 \in T
    <2>1. Stages([i \in 0..0 |-> window], e, 0)
      BY DEF Stages
    <2> QED BY <2>1
  <1>2. ASSUME NEW n \in T PROVE n + 1 \in T
    <2> SUFFICES ASSUME n + 1 <= Len(e) PROVE \E g : Stages(g, e, n + 1)
      OBVIOUS
    <2>1. n \in Nat /\ Len(e) \in Nat /\ n <= Len(e)
      OBVIOUS
    <2>2. PICK g : Stages(g, e, n)
      BY <2>1
    <2> DEFINE h == [i \in 0..(n + 1) |-> IF i <= n THEN g[i] ELSE Queued(g[n], e[n + 1])]
    <2>3. e[n + 1] \in Signal
      BY <2>1
    <2>4. g[n] \in Seq(Signal) /\ g \in [0..n -> Seq(Signal)]
      BY <2>1, <2>2 DEF Stages
    <2>5. Queued(g[n], e[n + 1]) \in Seq(Signal)
      BY <2>3, <2>4 DEF Queued
    <2>6. h \in [0..(n + 1) -> Seq(Signal)]
      BY <2>1, <2>4, <2>5
    <2>7. h[n + 1] = Queued(g[n], e[n + 1]) /\ \A i \in 0..n : h[i] = g[i]
      BY <2>1
    <2> HIDE DEF h
    <2>8. h[0] = window
      BY <2>1, <2>2, <2>7 DEF Stages
    <2>9. ASSUME NEW i \in 1..(n + 1) PROVE h[i] = Queued(h[i - 1], e[i])
      <3>1. CASE i = n + 1
        BY <2>1, <2>7, <3>1
      <3>2. CASE i # n + 1
        <4>1. i \in 1..n /\ i \in 0..n /\ i - 1 \in 0..n
          BY <2>1, <3>2
        <4> QED BY <2>2, <2>7, <4>1 DEF Stages
      <3> QED BY <3>1, <3>2
    <2>10. Stages(h, e, n + 1)
      BY <2>6, <2>8, <2>9 DEF Stages
    <2> QED BY <2>10
  <1> HIDE DEF T
  <1>3. T = Nat
    <2>1. T \in SUBSET Nat
      BY DEF T
    <2> QED BY <1>1, <1>2, <2>1, SetInduction
  <1>4. Len(e) \in Nat
    OBVIOUS
  <1> QED BY <1>3, <1>4 DEF T

\* The window's queue is the last of them.
LEMMA PostStages ==
  ASSUME NEW e \in Seq(Signal), window \in Seq(Signal), Post(e)
  PROVE  \E g : Stages(g, e, Len(e)) /\ window' = g[Len(e)]
  <1> DEFINE Made(f) == [i \in 0..Len(e) |->
                           IF i = 0 THEN window ELSE Queued(f[i - 1], e[i])]
             queue == CHOOSE f : f = Made(f)
  <1>0. Len(e) \in Nat
    OBVIOUS
  <1>1. PICK g : Stages(g, e, Len(e))
    BY StagesExist
  <1>2. g = Made(g)
    <2>1. \A i \in 0..Len(e) : g[i] = Made(g)[i]
      BY <1>0, <1>1 DEF Stages
    <2> QED BY <1>1, <2>1 DEF Stages
  <1>3. queue = Made(queue)
    BY <1>2
  <1>4. window' = queue[Len(e)]
    BY DEF Post, Queued
  <1> HIDE DEF queue
  <1>5. DOMAIN queue = 0..Len(e) /\ queue[0] = window
    BY <1>0, <1>3
  <1>6. \A i \in 1..Len(e) : queue[i] = Queued(queue[i - 1], e[i])
    <2>1. \A i \in 1..Len(e) : i \in 0..Len(e) /\ i # 0
      BY <1>0
    <2>2. \A i \in 0..Len(e) : i # 0 => queue[i] = Queued(queue[i - 1], e[i])
      BY <1>3
    <2> QED BY <2>1, <2>2
  <1> HIDE DEF Made
  <1> DEFINE T == {n \in Nat : n <= Len(e) => queue[n] \in Seq(Signal)}
  <1>7. T = Nat
    <2>1. 0 \in T
      BY <1>5
    <2>2. ASSUME NEW n \in T PROVE n + 1 \in T
      <3> SUFFICES ASSUME n + 1 <= Len(e) PROVE queue[n + 1] \in Seq(Signal)
        OBVIOUS
      <3>1. /\ n \in Nat /\ n + 1 \in 1..Len(e) /\ (n + 1) - 1 = n
            /\ queue[n] \in Seq(Signal) /\ e[n + 1] \in Signal
        BY <1>0
      <3>2. queue[n + 1] = Queued(queue[n], e[n + 1])
        BY <1>6, <3>1
      <3> QED BY <3>1, <3>2 DEF Queued
    <2>3. T \in SUBSET Nat
      OBVIOUS
    <2> HIDE DEF T
    <2> QED BY <2>1, <2>2, <2>3, SetInduction
  <1>8. \A n \in 0..Len(e) : queue[n] \in Seq(Signal)
    BY <1>0, <1>7
  <1>9. queue \in [0..Len(e) -> Seq(Signal)]
    <2>1. queue = [i \in 0..Len(e) |-> queue[i]]
      BY <1>3 DEF Made
    <2> QED BY <1>8, <2>1
  <1>10. Stages(queue, e, Len(e))
    BY <1>5, <1>6, <1>9 DEF Stages
  <1> QED BY <1>4, <1>10

\* A relation between how many signals are posted and the queue that holds of
\* the queue before and survives every signal holds of the queue after.
LEMMA PostInduction ==
  ASSUME NEW e \in Seq(Signal), window \in Seq(Signal), Post(e),
         NEW Good \in SUBSET (Nat \X Seq(Signal)), <<0, window>> \in Good,
         \A n \in 0..(Len(e) - 1), q \in Seq(Signal) :
           <<n, q>> \in Good => <<n + 1, Queued(q, e[n + 1])>> \in Good
  PROVE  window' \in Seq(Signal) /\ <<Len(e), window'>> \in Good
  <1>0. Len(e) \in Nat
    OBVIOUS
  <1>1. PICK g : Stages(g, e, Len(e)) /\ window' = g[Len(e)]
    BY PostStages
  <1> DEFINE T == {n \in Nat : n <= Len(e) => <<n, g[n]>> \in Good}
  <1>2. 0 \in T
    BY <1>1 DEF Stages
  <1>3. ASSUME NEW n \in T PROVE n + 1 \in T
    <2> SUFFICES ASSUME n + 1 <= Len(e) PROVE <<n + 1, g[n + 1]>> \in Good
      OBVIOUS
    <2>1. n \in 0..(Len(e) - 1) /\ n \in 0..Len(e) /\ n + 1 \in 1..Len(e) /\ (n + 1) - 1 = n
      BY <1>0
    <2>2. g[n] \in Seq(Signal) /\ g[n + 1] = Queued(g[n], e[n + 1])
      BY <1>1, <2>1 DEF Stages
    <2>3. <<n, g[n]>> \in Good
      BY <1>0
    <2> QED BY <2>1, <2>2, <2>3
  <1>4. T \in SUBSET Nat
    OBVIOUS
  <1> HIDE DEF T
  <1>5. T = Nat
    BY <1>2, <1>3, <1>4, SetInduction
  <1>6. <<Len(e), g[Len(e)]>> \in Good
    BY <1>0, <1>5 DEF T
  <1>7. g[Len(e)] \in Seq(Signal)
    BY <1>0, <1>1 DEF Stages
  <1> QED BY <1>1, <1>6, <1>7


-----------------------------------------------------------------------------
(* The invariant of the tab.                                               *)

TabTypes ==
  /\ window \in Seq(Signal)
  /\ closed \in BOOLEAN /\ active \in BOOLEAN /\ canDisconnect \in BOOLEAN
  /\ view \in ConnectionState
  /\ text \in {"state", "reconnect", "replay"}

\* A closed tab hears of nothing any more, and only a closed tab's session quits.
ClosedIsDeaf ==
  /\ quit => closed
  /\ closed => window = <<>> /\ ~active

\* What is in flight ends where the session is.
ViewFollows == ~closed => Shows(window, view, reported)

\* No announcement is left to be shown: none is on show and none in flight, or
\* the queue holds what takes it off again.
NothingAnnounced(q, t) ==
  \/ \E i \in DOMAIN q :
       Settles(q[i]) /\ \A j \in DOMAIN q : j > i => q[j].kind # "reconnectScheduled"
  \/ t # "reconnect" /\ \A j \in DOMAIN q : q[j].kind # "reconnectScheduled"

AnnouncedComes == ~closed /\ ~timer => NothingAnnounced(window, text)

\* A session with a host has reconnects to announce, a replay has an end.
KindOK(signal) ==
  /\ signal.kind = "reconnectScheduled" => cfg.replay = 0
  /\ signal.kind = "replayFinished" => cfg.replay > 0

KindsInFlight ==
  /\ \A k \in DOMAIN window : KindOK(window[k])
  /\ text = "reconnect" => cfg.replay = 0

\* The action is enabled for what the tab shows.
ActionHasSubject ==
  active /\ canDisconnect => Live(view) \/ text = "reconnect"

TabInv ==
  /\ TabTypes
  /\ ReportTracksClient
  /\ ClosedIsDeaf
  /\ ViewFollows
  /\ AnnouncedComes
  /\ KindsInFlight
  /\ ActionHasSubject
  /\ WiredOnce

-----------------------------------------------------------------------------
(* Posting keeps the invariant.                                            *)

\* What the first n of the signals e and the queue they were posted to show.
StageShows(e, n, q) ==
  \/ \E k \in 1..n : /\ e[k].kind = "state"
                     /\ \A j \in 1..n : j > k => e[j].kind # "state"
                     /\ Shows(q, view, e[k].state)
  \/ Shows(q, view, reported) /\ \A k \in 1..n : e[k].kind # "state"

\* One more posted signal keeps what the queue will show.
LEMMA StageShowsStep ==
  ASSUME NEW e \in Seq(Signal), NEW n \in 0..(Len(e) - 1), NEW q \in Seq(Signal),
         StageShows(e, n, q)
  PROVE  StageShows(e, n + 1, Queued(q, e[n + 1]))
  <1>1. /\ Len(e) \in Nat /\ n \in Nat /\ n + 1 \in 1..(n + 1)
        /\ \A k \in 1..(n + 1) : k \in 1..n \/ k = n + 1
        /\ \A k \in 1..n : k \in 1..(n + 1) /\ ~(k > n + 1) /\ n + 1 > k
    OBVIOUS
  <1> DEFINE x == e[n + 1]
  <1>2. x \in Signal
    BY <1>1
  <1>3. CASE x.kind = "state"
    <2>1. Queued(q, x) = Append(q, x)
      BY <1>3 DEF Queued, Heard
    <2>2. Shows(Append(q, x), view, x.state)
      BY <1>2, <1>3, ShowsAppend DEF StageShows
    <2>3. \A j \in 1..(n + 1) : ~(j > n + 1)
      BY <1>1
    <2> QED BY <1>1, <1>3, <2>1, <2>2, <2>3 DEF StageShows
  <1>4. CASE x.kind # "state"
    <2>1. ASSUME NEW r, Shows(q, view, r) PROVE Shows(Queued(q, x), view, r)
      <3>1. Queued(q, x) = q \/ Queued(q, x) = Append(q, x)
        BY DEF Queued
      <3>2. Shows(Append(q, x), view, r)
        BY <1>2, <1>4, <2>1, ShowsAppend
      <3> QED BY <2>1, <3>1, <3>2
    <2> HIDE DEF x
    <2>2. CASE \E k \in 1..n : /\ e[k].kind = "state"
                               /\ \A j \in 1..n : j > k => e[j].kind # "state"
                               /\ Shows(q, view, e[k].state)
      <3>1. PICK k \in 1..n : /\ e[k].kind = "state"
                              /\ \A j \in 1..n : j > k => e[j].kind # "state"
                              /\ Shows(q, view, e[k].state)
        BY <2>2
      <3>2. \A j \in 1..(n + 1) : j > k => e[j].kind # "state"
        BY <1>1, <1>4, <3>1 DEF x
      <3>3. Shows(Queued(q, x), view, e[k].state)
        BY <2>1, <3>1
      <3> QED BY <1>1, <3>1, <3>2, <3>3 DEF StageShows, x
    <2>3. CASE Shows(q, view, reported) /\ \A k \in 1..n : e[k].kind # "state"
      <3>1. \A k \in 1..(n + 1) : e[k].kind # "state"
        BY <1>1, <1>4, <2>3 DEF x
      <3> QED BY <2>1, <2>3, <3>1 DEF StageShows, x
    <2> QED BY <2>2, <2>3 DEF StageShows
  <1> QED BY <1>3, <1>4

\* A queue in which nothing is announced stays one when a signal that announces
\* nothing is posted, and becomes one when a signal that settles is.
LEMMA QueuedAnnounces ==
  ASSUME NEW q \in Seq(Signal), NEW x \in Signal, NEW t, x.kind # "reconnectScheduled",
         NothingAnnounced(q, t) \/ Settles(x)
  PROVE  NothingAnnounced(Queued(q, x), t)
  <1>1. /\ Len(q) \in Nat /\ DOMAIN q = 1..Len(q)
        /\ DOMAIN Append(q, x) = 1..(Len(q) + 1)
        /\ Append(q, x)[Len(q) + 1] = x
        /\ \A i \in 1..Len(q) : Append(q, x)[i] = q[i]
    OBVIOUS
  <1>2. CASE ~Heard(x)
    BY <1>2 DEF Queued, Heard, Settles
  <1>3. CASE Settles(x) /\ Heard(x)
    <2>1. Queued(q, x) = Append(q, x)
      BY <1>3 DEF Queued
    <2>2. \A j \in DOMAIN Append(q, x) : ~(j > Len(q) + 1)
      BY <1>1
    <2>3. Len(q) + 1 \in DOMAIN Append(q, x)
      BY <1>1
    <2> QED BY <1>1, <1>3, <2>1, <2>2, <2>3 DEF NothingAnnounced
  <1>4. CASE NothingAnnounced(q, t) /\ Heard(x)
    <2>1. Queued(q, x) = Append(q, x)
      BY <1>4 DEF Queued
    <2>2. \A j \in DOMAIN Append(q, x) : j = Len(q) + 1 \/ (j \in DOMAIN q)
      BY <1>1
    <2>3. \A j \in DOMAIN q : j \in DOMAIN Append(q, x)
      BY <1>1
    <2> QED BY <1>1, <1>4, <2>1, <2>2, <2>3 DEF NothingAnnounced
  <1> QED BY <1>2, <1>3, <1>4

\* Posting what a step tells keeps what the queue holds true.
LEMMA PostTells ==
  ASSUME TabInv, Tells, cfg' = cfg, Post(emitted'), ~closed
  PROVE  /\ window' \in Seq(Signal)
         /\ Shows(window', view, reported')
         /\ ~timer' => NothingAnnounced(window', text)
         /\ \A k \in DOMAIN window' : KindOK(window'[k])
  <1> DEFINE e == emitted'
  <1>0. e \in Seq(Signal) /\ window \in Seq(Signal) /\ Len(e) \in Nat
    BY DEF Tells, TabInv, TabTypes
  <1>1. /\ Shows(e, reported, reported') /\ KindsKnown'
        /\ timer /\ ~timer' => \E k \in DOMAIN e : Settles(e[k])
    BY DEF Tells
  <1> DEFINE Silent == \A k \in DOMAIN e : e[k].kind # "reconnectScheduled"
             Good == {p \in Nat \X Seq(Signal) :
                        p[1] <= Len(e) =>
                        /\ StageShows(e, p[1], p[2])
                        /\ \A k \in DOMAIN p[2] : KindOK(p[2][k])
                        /\ Silent => ((NothingAnnounced(window, text)
                                         \/ (\E k \in 1..p[1] : Settles(e[k])))
                                      => NothingAnnounced(p[2], text))}
  <1>2. \A k \in DOMAIN e : KindOK(e[k])
    BY <1>1 DEF KindsKnown, KindOK
  <1>3. ~timer' => Silent
    BY <1>1 DEF KindsKnown
  <1>4. Post(e)
    OBVIOUS
  <1> HIDE DEF e, Silent
  <1>5. <<0, window>> \in Good
    <2>1. StageShows(e, 0, window)
      BY DEF StageShows, TabInv, ViewFollows
    <2>2. \A k \in DOMAIN window : KindOK(window[k])
      BY DEF TabInv, KindsInFlight
    <2>3. ~ \E k \in 1..0 : Settles(e[k])
      OBVIOUS
    <2> QED BY <1>0, <2>1, <2>2, <2>3
  <1>6. ASSUME NEW n \in 0..(Len(e) - 1), NEW q \in Seq(Signal), <<n, q>> \in Good
        PROVE  <<n + 1, Queued(q, e[n + 1])>> \in Good
    <2>1. n \in Nat /\ n <= Len(e) /\ n + 1 <= Len(e) /\ n + 1 \in DOMAIN e /\ n + 1 \in Nat
      BY <1>0
    <2> DEFINE x == e[n + 1]
               Q == Queued(q, x)
    <2>2. x \in Signal /\ Q \in Seq(Signal)
      BY <1>0, <2>1 DEF Queued
    <2>3. /\ StageShows(e, n, q)
          /\ \A k \in DOMAIN q : KindOK(q[k])
          /\ Silent => ((NothingAnnounced(window, text) \/ (\E k \in 1..n : Settles(e[k])))
                        => NothingAnnounced(q, text))
      BY <1>6, <2>1
    <2>4. StageShows(e, n + 1, Q)
      BY <1>0, <2>3, StageShowsStep
    <2>5. \A k \in DOMAIN Q : KindOK(Q[k])
      <3>1. KindOK(x)
        BY <1>2, <2>1
      <3>2. \A k \in DOMAIN Append(q, x) : Append(q, x)[k] = x
               \/ (k \in DOMAIN q /\ Append(q, x)[k] = q[k])
        BY <2>2
      <3>3. Q = q \/ Q = Append(q, x)
        BY DEF Queued
      <3> QED BY <2>3, <3>1, <3>2, <3>3
    <2>6. ASSUME Silent, NothingAnnounced(window, text) \/ \E k \in 1..(n + 1) : Settles(e[k])
          PROVE  NothingAnnounced(Q, text)
      <3>1. x.kind # "reconnectScheduled"
        BY <2>1, <2>6 DEF Silent
      <3>2. \A k \in 1..(n + 1) : k \in 1..n \/ k = n + 1
        BY <2>1
      <3>3. NothingAnnounced(q, text) \/ Settles(x)
        BY <2>3, <2>6, <3>2
      <3> QED BY <2>2, <3>1, <3>3, QueuedAnnounces
    <2> HIDE DEF Q
    <2>7. Q \in Seq(Signal)
      BY <2>2
    <2>8. <<n + 1, Q>> \in Good
      BY <2>1, <2>4, <2>5, <2>6, <2>7
    <2> QED BY <2>8 DEF Q
  <1>7. Good \in SUBSET (Nat \X Seq(Signal))
    OBVIOUS
  <1>8. window' \in Seq(Signal) /\ <<Len(e), window'>> \in Good
    <2> HIDE DEF Good
    <2> QED BY <1>0, <1>4, <1>5, <1>6, <1>7, PostInduction
  <1>9. /\ StageShows(e, Len(e), window')
        /\ \A k \in DOMAIN window' : KindOK(window'[k])
        /\ Silent => ((NothingAnnounced(window, text)
                         \/ (\E k \in 1..Len(e) : Settles(e[k])))
                      => NothingAnnounced(window', text))
    BY <1>0, <1>8
  <1>10. DOMAIN e = 1..Len(e)
    BY <1>0
  <1>11. Shows(window', view, reported')
    <2>1. \A k \in 1..Len(e) :
            e[k].kind = "state" /\ (\A j \in 1..Len(e) : j > k => e[j].kind # "state")
              => reported' = e[k].state
      BY <1>0, <1>1, <1>10, ShowsLast DEF IsLastState
    <2>2. (\A k \in 1..Len(e) : e[k].kind # "state") => reported' = reported
      BY <1>0, <1>1, <1>10, ShowsLast
    <2> QED BY <1>9, <2>1, <2>2 DEF StageShows
  <1>12. ~timer' => NothingAnnounced(window', text)
    <2>1. ~timer => NothingAnnounced(window, text)
      BY DEF TabInv, AnnouncedComes
    <2>2. timer /\ ~timer' => \E k \in 1..Len(e) : Settles(e[k])
      BY <1>1, <1>10 DEF e
    <2> QED BY <1>3, <1>9, <2>1, <2>2
  <1> QED BY <1>8, <1>9, <1>11, <1>12


-----------------------------------------------------------------------------
(* The invariant is inductive.                                             *)

\* The start: nothing is shown, nothing is in flight.
LEMMA TabInvInit == TabInit => TabInv
  <1> SUFFICES ASSUME TabInit PROVE TabInv
    OBVIOUS
  <1>1. /\ window = <<>> /\ window \in Seq(Signal) /\ DOMAIN window = {}
        /\ closed = FALSE /\ quit = FALSE /\ reported = "Disconnected" /\ view = "Disconnected"
        /\ text = "state" /\ running = "nothing" /\ wired = 0
        /\ active = TRUE /\ canDisconnect = FALSE
    BY DEF TabInit, Init
  <1>2. TabTypes
    BY <1>1 DEF TabTypes, ConnectionState
  <1>3. ViewFollows /\ AnnouncedComes
    BY <1>1 DEF ViewFollows, Shows, AnnouncedComes, NothingAnnounced
  <1>4. KindsInFlight /\ ActionHasSubject /\ WiredOnce /\ ClosedIsDeaf /\ ReportTracksClient
    BY <1>1 DEF KindsInFlight, ActionHasSubject, WiredOnce, ClosedIsDeaf, ReportTracksClient
  <1> QED BY <1>2, <1>3, <1>4 DEF TabInv

\* A step of the worker.
LEMMA WorkerStepKeeps ==
  ASSUME IInv, TabInv, WorkerStep
  PROVE  TabInv'
  <1>1. Next /\ cfg' = cfg /\ quit' = quit
    BY DEF WorkerStep, Next, StartSession, StartReplay, ClientEvent, ReconnectTimeout,
       DeliverData, DeliverStop, ReplayTick, threadVars
  <1>2. Tells /\ ReportTracksClient'
    BY <1>1, WorkerTells DEF TabInv
  <1>3. /\ closed' = closed /\ active' = active /\ canDisconnect' = canDisconnect
        /\ view' = view /\ text' = text /\ running' = running /\ wired' = wired
    BY DEF WorkerStep, menuVars, statusVars, scriptVars
  <1>4. CASE closed
    <2>1. window' = window
      BY <1>4 DEF WorkerStep
    <2> QED BY <1>1, <1>2, <1>3, <1>4, <2>1
      DEF TabInv, TabTypes, ClosedIsDeaf, ViewFollows, AnnouncedComes, KindsInFlight, KindOK,
          ActionHasSubject, WiredOnce
  <1>5. CASE ~closed
    <2>1. /\ window' \in Seq(Signal)
          /\ Shows(window', view, reported')
          /\ ~timer' => NothingAnnounced(window', text)
          /\ \A k \in DOMAIN window' : KindOK(window'[k])
      BY <1>1, <1>2, <1>5, PostTells DEF WorkerStep
    <2>2. TabTypes'
      BY <1>3, <2>1 DEF TabInv, TabTypes
    <2>3. ViewFollows' /\ AnnouncedComes'
      BY <1>3, <2>1 DEF ViewFollows, AnnouncedComes
    <2>4. KindsInFlight'
      BY <1>1, <1>3, <2>1 DEF TabInv, KindsInFlight, KindOK
    <2>5. ActionHasSubject' /\ WiredOnce' /\ ClosedIsDeaf'
      BY <1>1, <1>3, <1>5 DEF TabInv, ActionHasSubject, WiredOnce, ClosedIsDeaf
    <2> QED BY <1>2, <2>2, <2>3, <2>4, <2>5 DEF TabInv
  <1> QED BY <1>4, <1>5 DEF TabInv, TabTypes

\* A queue whose head is taken: what remains announces nothing, if the head was
\* not an announcement, or the head has settled it.
LEMMA TakenAnnounces ==
  ASSUME NEW q \in Seq(Signal), q # <<>>, NEW t, NothingAnnounced(q, t)
  PROVE  /\ Head(q).kind = "reconnectScheduled" => \A u : NothingAnnounced(Tail(q), u)
         /\ \A u \in {"state", "replay"} : NothingAnnounced(Tail(q), u) \/ ~Settles(Head(q))
         /\ ~Settles(Head(q)) => NothingAnnounced(Tail(q), t)
  <1>1. /\ Len(q) \in Nat /\ Len(q) >= 1 /\ DOMAIN q = 1..Len(q)
        /\ Head(q) = q[1]
        /\ DOMAIN Tail(q) = 1..(Len(q) - 1)
        /\ \A i \in 1..(Len(q) - 1) : Tail(q)[i] = q[i + 1]
    OBVIOUS
  <1>2. \A i \in DOMAIN q : i = 1 \/ (i - 1 \in DOMAIN Tail(q) /\ Tail(q)[i - 1] = q[i])
    BY <1>1
  <1>3. \A j \in DOMAIN Tail(q) : j + 1 \in DOMAIN q /\ Tail(q)[j] = q[j + 1] /\ j + 1 > 1
    BY <1>1
  <1>4. CASE \E i \in DOMAIN q :
               Settles(q[i]) /\ \A j \in DOMAIN q : j > i => q[j].kind # "reconnectScheduled"
    <2>1. PICK i \in DOMAIN q :
            Settles(q[i]) /\ \A j \in DOMAIN q : j > i => q[j].kind # "reconnectScheduled"
      BY <1>4
    <2>2. CASE i = 1
      <3>1. \A j \in DOMAIN Tail(q) : Tail(q)[j].kind # "reconnectScheduled"
        BY <1>3, <2>1, <2>2
      <3> QED BY <1>1, <2>1, <2>2, <3>1 DEF NothingAnnounced, Settles
    <2>3. CASE i # 1
      <3>1. i - 1 \in DOMAIN Tail(q) /\ Settles(Tail(q)[i - 1])
        BY <1>2, <2>1, <2>3
      <3>2. \A j \in DOMAIN Tail(q) : j > i - 1 => Tail(q)[j].kind # "reconnectScheduled"
        BY <1>1, <1>3, <2>1
      <3> QED BY <3>1, <3>2 DEF NothingAnnounced
    <2> QED BY <2>2, <2>3
  <1>5. CASE t # "reconnect" /\ \A j \in DOMAIN q : q[j].kind # "reconnectScheduled"
    <2>1. \A j \in DOMAIN Tail(q) : Tail(q)[j].kind # "reconnectScheduled"
      BY <1>3, <1>5
    <2> QED BY <1>1, <1>5, <2>1 DEF NothingAnnounced
  <1> QED BY <1>4, <1>5 DEF NothingAnnounced

\* Taking a signal leaves what is left of the queue true of the session.
LEMMA TakeKeeps ==
  ASSUME TabInv, NEW kind, Take(kind)
  PROVE  /\ ~closed /\ closed' = closed /\ Head(window).kind = kind
         /\ window' \in Seq(Signal) /\ Head(window) \in Signal /\ KindOK(Head(window))
         /\ \A k \in DOMAIN window' : KindOK(window'[k])
         /\ Shows(window', IF kind = "state" THEN Head(window).state ELSE view, reported)
         /\ ~timer /\ kind = "reconnectScheduled" => \A u : NothingAnnounced(window', u)
         /\ ~timer /\ Settles(Head(window)) =>
              NothingAnnounced(window', "state") /\ NothingAnnounced(window', "replay")
         /\ ~timer /\ ~Settles(Head(window)) => NothingAnnounced(window', text)
         /\ ReportTracksClient' /\ quit' = quit
         /\ cfg' = cfg /\ timer' = timer /\ reported' = reported
  <1>1. window # <<>> /\ Head(window).kind = kind /\ window' = Tail(window)
    BY DEF Take
  <1>2. window \in Seq(Signal)
    BY DEF TabInv, TabTypes
  <1>3. ~closed /\ closed' = closed
    BY <1>1 DEF TabInv, ClosedIsDeaf, Take
  <1>4. /\ Tail(window) \in Seq(Signal) /\ Head(window) \in Signal
        /\ Head(window) = window[1] /\ 1 \in DOMAIN window
        /\ \A k \in DOMAIN Tail(window) : k + 1 \in DOMAIN window /\ Tail(window)[k] = window[k + 1]
    BY <1>1, <1>2
  <1>5. KindOK(Head(window)) /\ \A k \in DOMAIN window' : KindOK(window'[k])
    BY <1>1, <1>4 DEF TabInv, KindsInFlight
  <1>6. Shows(window', IF kind = "state" THEN Head(window).state ELSE view, reported)
    BY <1>1, <1>2, <1>3, ShowsTail DEF TabInv, ViewFollows
  <1>7. ~timer => NothingAnnounced(window, text)
    BY <1>3 DEF TabInv, AnnouncedComes
  <1>8. /\ ~timer /\ kind = "reconnectScheduled" => \A u : NothingAnnounced(window', u)
        /\ ~timer /\ Settles(Head(window)) =>
             NothingAnnounced(window', "state") /\ NothingAnnounced(window', "replay")
        /\ ~timer /\ ~Settles(Head(window)) => NothingAnnounced(window', text)
    BY <1>1, <1>2, <1>7, TakenAnnounces
  <1>9. ReportTracksClient'
    BY DEF Take, vars, TabInv, ReportTracksClient
  <1>10. quit' = quit /\ cfg' = cfg /\ timer' = timer /\ reported' = reported
    BY DEF Take, vars
  <1> QED BY <1>1, <1>3, <1>4, <1>5, <1>6, <1>8, <1>9, <1>10


\* The handling of a signal.
LEMMA HandleKeeps ==
  ASSUME TabInv, Handle
  PROVE  TabInv'
  <1> USE DEF TabTypes
  <1>1. CASE ShowState
    <2> DEFINE s == Head(window).state
    <2>1. Take("state") /\ view' = s /\ text' = (IF s = "Error" THEN text ELSE "state")
            /\ canDisconnect' = (IF active THEN Live(s) ELSE canDisconnect)
            /\ active' = active /\ running' = running /\ wired' = wired
      BY <1>1 DEF ShowState
    <2>2. /\ ~closed /\ closed' = closed /\ Head(window).kind = "state"
          /\ window' \in Seq(Signal) /\ Head(window) \in Signal
          /\ \A k \in DOMAIN window' : KindOK(window'[k])
          /\ Shows(window', s, reported)
          /\ ~timer /\ Settles(Head(window)) => NothingAnnounced(window', "state")
          /\ ~timer /\ ~Settles(Head(window)) => NothingAnnounced(window', text)
          /\ ReportTracksClient' /\ quit' = quit
          /\ cfg' = cfg /\ timer' = timer /\ reported' = reported
      BY <2>1, TakeKeeps
    <2>3. s \in ConnectionState
      BY <2>2, SignalState
    <2>4. Settles(Head(window)) <=> s # "Error"
      BY <2>2 DEF Settles
    <2> HIDE DEF s
    <2>5. TabTypes'
      BY <2>1, <2>2, <2>3 DEF TabInv, Live
    <2>6. ViewFollows' /\ AnnouncedComes'
      BY <2>1, <2>2, <2>4 DEF ViewFollows, AnnouncedComes
    <2>7. KindsInFlight' /\ ClosedIsDeaf' /\ WiredOnce'
      BY <2>1, <2>2 DEF TabInv, KindsInFlight, KindOK, ClosedIsDeaf, WiredOnce
    <2>8. ActionHasSubject'
      BY <2>1 DEF ActionHasSubject, Live
    <2> QED BY <2>2, <2>5, <2>6, <2>7, <2>8 DEF TabInv
  <1>2. CASE ShowReconnectScheduled
    <2>1. /\ Take("reconnectScheduled") /\ text' = "reconnect"
          /\ canDisconnect' = (canDisconnect \/ active)
          /\ active' = active /\ view' = view /\ running' = running /\ wired' = wired
      BY <1>2 DEF ShowReconnectScheduled
    <2>2. /\ ~closed /\ closed' = closed /\ Head(window).kind = "reconnectScheduled"
          /\ window' \in Seq(Signal) /\ KindOK(Head(window))
          /\ \A k \in DOMAIN window' : KindOK(window'[k])
          /\ Shows(window', view, reported)
          /\ ~timer => \A u : NothingAnnounced(window', u)
          /\ ReportTracksClient' /\ quit' = quit
          /\ cfg' = cfg /\ timer' = timer /\ reported' = reported
      BY <2>1, TakeKeeps
    <2>3. TabTypes'
      BY <2>1, <2>2 DEF TabInv
    <2>4. ViewFollows' /\ AnnouncedComes'
      BY <2>1, <2>2 DEF ViewFollows, AnnouncedComes
    <2>5. KindsInFlight' /\ ClosedIsDeaf' /\ WiredOnce'
      BY <2>1, <2>2 DEF TabInv, KindsInFlight, KindOK, ClosedIsDeaf, WiredOnce
    <2>6. ActionHasSubject'
      BY <2>1 DEF ActionHasSubject
    <2> QED BY <2>2, <2>3, <2>4, <2>5, <2>6 DEF TabInv
  <1>3. CASE ShowError \/ ShowRecord
    <2>1. PICK kind \in {"errorOccurred", "appData"} : Take(kind)
      BY <1>3 DEF ShowError, ShowRecord
    <2>2. /\ view' = view /\ text' = text /\ running' = running /\ wired' = wired
          /\ \/ active' = active /\ canDisconnect' = canDisconnect
             \/ /\ active' = TRUE
                /\ canDisconnect' = IF active THEN canDisconnect ELSE Live(view)
      BY <1>3 DEF ShowError, ShowRecord, menuVars, statusVars, scriptVars
    <2>3. /\ ~closed /\ closed' = closed /\ Head(window).kind = kind
          /\ window' \in Seq(Signal)
          /\ \A k \in DOMAIN window' : KindOK(window'[k])
          /\ Shows(window', view, reported)
          /\ ~timer /\ ~Settles(Head(window)) => NothingAnnounced(window', text)
          /\ ReportTracksClient' /\ quit' = quit
          /\ cfg' = cfg /\ timer' = timer /\ reported' = reported
      BY <2>1, TakeKeeps
    <2>4. ~Settles(Head(window))
      BY <2>3 DEF Settles
    <2>5. TabTypes'
      <3>1. active \in BOOLEAN /\ canDisconnect \in BOOLEAN /\ Live(view) \in BOOLEAN
        BY DEF TabInv, Live
      <3>2. active' \in BOOLEAN /\ canDisconnect' \in BOOLEAN
        BY <2>2, <3>1, Zenon
      <3> QED BY <2>2, <2>3, <3>2 DEF TabInv
    <2>6. ViewFollows' /\ AnnouncedComes'
      BY <2>2, <2>3, <2>4 DEF ViewFollows, AnnouncedComes
    <2>7. KindsInFlight' /\ WiredOnce'
      BY <2>2, <2>3 DEF TabInv, KindsInFlight, KindOK, WiredOnce
    <2>8. ClosedIsDeaf'
      BY <2>3 DEF TabInv, ClosedIsDeaf
    <2>9. ActionHasSubject'
      BY <2>2 DEF TabInv, ActionHasSubject, Live
    <2> QED BY <2>3, <2>5, <2>6, <2>7, <2>8, <2>9 DEF TabInv
  <1>4. CASE ShowReplayFinished
    <2>1. /\ Take("replayFinished") /\ text' = "replay"
          /\ active' = active /\ canDisconnect' = canDisconnect
          /\ view' = view /\ running' = running /\ wired' = wired
      BY <1>4 DEF ShowReplayFinished, menuVars, scriptVars
    <2>2. /\ ~closed /\ closed' = closed /\ Head(window).kind = "replayFinished"
          /\ window' \in Seq(Signal) /\ KindOK(Head(window))
          /\ \A k \in DOMAIN window' : KindOK(window'[k])
          /\ Shows(window', view, reported)
          /\ ~timer /\ Settles(Head(window)) => NothingAnnounced(window', "replay")
          /\ ReportTracksClient' /\ quit' = quit
          /\ cfg' = cfg /\ timer' = timer /\ reported' = reported
      BY <2>1, TakeKeeps
    <2>3. Settles(Head(window))
      BY <2>2 DEF Settles
    <2>4. text # "reconnect"
      BY <2>2 DEF TabInv, KindsInFlight, KindOK
    <2>5. TabTypes'
      BY <2>1, <2>2 DEF TabInv
    <2>6. ViewFollows' /\ AnnouncedComes'
      BY <2>1, <2>2, <2>3 DEF ViewFollows, AnnouncedComes
    <2>7. KindsInFlight' /\ WiredOnce' /\ ClosedIsDeaf'
      BY <2>1, <2>2 DEF TabInv, KindsInFlight, KindOK, WiredOnce, ClosedIsDeaf
    <2>8. ActionHasSubject'
      BY <2>1, <2>4 DEF TabInv, ActionHasSubject, Live
    <2> QED BY <2>2, <2>5, <2>6, <2>7, <2>8 DEF TabInv
  <1> QED BY <1>1, <1>2, <1>3, <1>4 DEF Handle

\* A step that leaves worker, queue and status alone.
LEMMA QuietKeeps ==
  ASSUME TabInv, UNCHANGED <<vars, window, closed, statusVars>>,
         UNCHANGED menuVars \/ (~closed /\ active' \in BOOLEAN /\ canDisconnect' \in BOOLEAN
                                  /\ (active' => canDisconnect' = Live(view))),
         WiredOnce'
  PROVE  TabInv'
  <1>1. /\ window' = window /\ closed' = closed /\ view' = view /\ text' = text
        /\ cfg' = cfg /\ quit' = quit /\ timer' = timer /\ reported' = reported
        /\ client' = client /\ replay' = replay
    BY DEF vars, statusVars
  <1>2. TabTypes'
    BY <1>1 DEF TabInv, TabTypes, menuVars
  <1>3. ViewFollows' /\ AnnouncedComes'
    BY <1>1 DEF TabInv, ViewFollows, AnnouncedComes
  <1>4. KindsInFlight'
    BY <1>1 DEF TabInv, KindsInFlight, KindOK
  <1>5. ClosedIsDeaf'
    BY <1>1 DEF TabInv, ClosedIsDeaf, menuVars
  <1>6. ReportTracksClient'
    BY <1>1 DEF TabInv, ReportTracksClient
  <1>7. ActionHasSubject'
    BY <1>1 DEF TabInv, ActionHasSubject, menuVars, Live
  <1> QED BY <1>2, <1>3, <1>4, <1>5, <1>6, <1>7 DEF TabInv

\* Every step keeps the invariant: one case per kind of actor.
LEMMA TabInvStep ==
  ASSUME IInv, TabInv, [TabNext]_allVars
  PROVE  TabInv'
  <1>0. WiredOnce
    BY DEF TabInv
  <1>1. CASE WorkerStep
    BY <1>1, WorkerStepKeeps
  <1>2. CASE Handle
    BY <1>2, HandleKeeps
  <1>3. CASE WorkerFinishes
    <2>1. /\ Next /\ cfg' = cfg /\ quit' = quit /\ quit
          /\ window' = window /\ closed' = closed /\ active' = active
          /\ canDisconnect' = canDisconnect /\ view' = view /\ text' = text
          /\ running' = running /\ wired' = wired
      BY <1>3 DEF WorkerFinishes, Next, FinishThread, tabVars, menuVars, statusVars, scriptVars
    <2>2. closed
      BY <2>1 DEF TabInv, ClosedIsDeaf
    <2>3. ReportTracksClient'
      BY <2>1, WorkerTells DEF TabInv
    <2> QED BY <2>1, <2>2, <2>3
      DEF TabInv, TabTypes, ClosedIsDeaf, ViewFollows, AnnouncedComes, KindsInFlight, KindOK,
          ActionHasSubject, WiredOnce
  <1>4. CASE (\E e \in waits : WaitTimesOut(e)) \/ (\E shot \in shots : RunScript(shot))
               \/ ScriptFinishes \/ RunChosen \/ StopExecution
    <2>1. UNCHANGED <<vars, window, closed, menuVars, statusVars>>
      BY <1>4 DEF WaitTimesOut, RunScript, ScriptFinishes, RunChosen, StopExecution
    <2>2. WiredOnce'
      <3> USE <1>0 DEF WiredOnce
      <3>1. CASE \E e \in waits : WaitTimesOut(e)
        BY <3>1 DEF WaitTimesOut
      <3>2. CASE \E shot \in shots : RunScript(shot)
        BY <3>2 DEF RunScript, Begin
      <3>3. CASE ScriptFinishes
        BY <3>3 DEF ScriptFinishes
      <3>4. CASE RunChosen
        BY <3>4 DEF RunChosen
      <3>5. CASE StopExecution
        BY <3>5 DEF StopExecution
      <3> QED BY <1>4, <3>1, <3>2, <3>3, <3>4, <3>5
    <2> QED BY <2>1, <2>2, QuietKeeps
  <1>5. CASE SwitchAway \/ SwitchBack
    <2>1. UNCHANGED <<vars, window, closed, statusVars>> /\ running' = running /\ wired' = wired
      BY <1>5 DEF SwitchAway, SwitchBack, scriptVars
    <2>2. WiredOnce'
      BY <1>0, <2>1 DEF WiredOnce
    <2>3. ~closed /\ active' \in BOOLEAN /\ canDisconnect' \in BOOLEAN
            /\ (active' => canDisconnect' = Live(view))
      <3>1. CASE SwitchAway
        BY <3>1 DEF SwitchAway
      <3>2. CASE SwitchBack
        <4>1. Live(view) \in BOOLEAN
          BY DEF Live
        <4> QED BY <3>2, <4>1, Zenon DEF SwitchBack
      <3> QED BY <1>5, <3>1, <3>2
    <2> QED BY <2>1, <2>2, <2>3, QuietKeeps
  <1>6. CASE Disconnect
    <2>1. /\ Next /\ cfg' = cfg /\ quit' = quit /\ timer' = timer
          /\ window' = window /\ closed' = closed /\ active' = active
          /\ canDisconnect' = canDisconnect /\ view' = view /\ text' = text
          /\ running' = running /\ wired' = wired /\ ~closed
          /\ Emit(<<>>)
      BY <1>6 DEF Disconnect, Next, RequestDisconnect, PostStop, connectionVars, tabVars,
        menuVars, statusVars, scriptVars
    <2>2. ReportTracksClient'
      BY <2>1, WorkerTells DEF TabInv
    <2>3. reported' = reported
      <3>1. <<>> \in Seq(Signal) /\ DOMAIN <<>> = {}
        OBVIOUS
      <3> QED BY <2>1, <3>1, PlainTells
    <2> QED BY <2>1, <2>2, <2>3
      DEF TabInv, TabTypes, ClosedIsDeaf, ViewFollows, AnnouncedComes, KindsInFlight, KindOK,
          ActionHasSubject, WiredOnce
  <1>7. CASE CloseTab
    <2>1. /\ Next /\ cfg' = cfg /\ closed' = TRUE /\ window' = <<>> /\ active' = FALSE
          /\ canDisconnect' \in BOOLEAN /\ view' = view /\ text' = text
          /\ running' = "nothing" /\ wired' = 0
      BY <1>7 DEF CloseTab, Next, CloseSession, PostStop, statusVars
    <2>2. ReportTracksClient'
      BY <2>1, WorkerTells DEF TabInv
    <2>3. window' \in Seq(Signal) /\ DOMAIN window' = {}
      BY <2>1
    <2> QED BY <2>1, <2>2, <2>3
      DEF TabInv, TabTypes, ClosedIsDeaf, ViewFollows, AnnouncedComes, KindsInFlight, KindOK,
          ActionHasSubject, WiredOnce
  <1>8. CASE UNCHANGED allVars
    <2>1. UNCHANGED <<vars, window, closed, menuVars, statusVars>> /\ running' = running
            /\ wired' = wired
      BY <1>8 DEF allVars, tabVars, scriptVars
    <2>2. WiredOnce'
      BY <1>0, <2>1 DEF WiredOnce
    <2> QED BY <2>1, <2>2, QuietKeeps
  <1> QED BY <1>1, <1>2, <1>3, <1>4, <1>5, <1>6, <1>7, <1>8 DEF TabNext

\* A step of the composition is, for the worker, a step of its own or none.
LEMMA TabImplementsWorker == [TabNext]_allVars => [Next]_vars
  <1>1. WorkerStep \/ WorkerFinishes => Next
    BY DEF WorkerStep, WorkerFinishes, Next
  <1>2. Handle => UNCHANGED vars
    BY DEF Handle, ShowState, ShowReconnectScheduled, ShowError, ShowRecord,
       ShowReplayFinished, Take
  <1>3. (\E e \in waits : WaitTimesOut(e)) \/ (\E shot \in shots : RunScript(shot))
          \/ ScriptFinishes \/ RunChosen \/ StopExecution \/ SwitchAway \/ SwitchBack
          => UNCHANGED vars
    BY DEF WaitTimesOut, RunScript, ScriptFinishes, RunChosen, StopExecution, SwitchAway,
       SwitchBack
  <1>4. Disconnect \/ CloseTab => Next
    BY DEF Disconnect, CloseTab, Next
  <1>5. UNCHANGED allVars => UNCHANGED vars
    BY DEF allVars
  <1> QED BY <1>1, <1>2, <1>3, <1>4, <1>5 DEF TabNext

\* In every state of every tab what is in flight ends where the session is.
THEOREM TabInductive == TabSpec => [](IInv /\ TabInv)
  <1>1. TabInit => IInv /\ TabInv
    BY IInvInit, TabInvInit DEF TabInit
  <1>2. IInv /\ TabInv /\ [TabNext]_allVars => (IInv /\ TabInv)'
    BY TabImplementsWorker, IInvStep, TabInvStep
  <1> QED BY <1>1, <1>2, PTL DEF TabSpec

\* A tab whose queue is empty tells the truth about its session, for all
\* profiles and whatever was in flight (Worker::stop, the stateChanged and
\* reconnectScheduled handlers, setActiveSession).
THEOREM ViewIsTrue == TabSpec => []ViewCatchesUp
  <1>1. IInv /\ TabInv => ViewCatchesUp
    <2> SUFFICES ASSUME IInv, TabInv, AtRest
                 PROVE  /\ view = reported
                        /\ active /\ canDisconnect => client # "none" \/ timer \/ replay # "off"
                        /\ text = "reconnect" => timer
      BY DEF ViewCatchesUp, TabInv
    <2>1. ~closed /\ window = <<>> /\ DOMAIN window = {}
      BY DEF AtRest
    <2>2. view = reported
      BY <2>1 DEF TabInv, ViewFollows, Shows
    <2>3. text = "reconnect" => timer
      BY <2>1 DEF TabInv, AnnouncedComes, NothingAnnounced
    <2>4. Live(view) => client # "none" \/ replay # "off"
      BY <2>2 DEF TabInv, ReportTracksClient, Live
    <2> QED BY <2>2, <2>3, <2>4 DEF TabInv, ActionHasSubject
  <1> QED BY <1>1, TabInductive, PTL

\* A script's keys reach the screen once (runStartupScript, onRunScript,
\* executionFinished).
THEOREM KeysReachOnce == TabSpec => []WiredOnce
  <1>1. TabInv => WiredOnce
    BY DEF TabInv
  <1> QED BY <1>1, TabInductive, PTL


-----------------------------------------------------------------------------
(* Commands a host asks the PC to run.                                     *)

\* Every open dialog is of a command received, asked about by its session's
\* policy with somebody there to answer, and no two are of one command.
DialogsAsk ==
  \A i \in 1 .. Len(nested) :
    /\ nested[i].number \in 1 .. Len(received)
    /\ nested[i].kind = handler[received[nested[i].number].session].policy
    /\ ~handler[received[nested[i].number].session].unattended

DialogsApart == \A i, j \in 1 .. Len(nested) : nested[i].number = nested[j].number => i = j

\* A command has its ENTER once, or its dialog open, and never both.
AnswersApart == \A i, j \in 1 .. Len(answered) : answered[i] = answered[j] => i = j

AnswersClose ==
  \A i \in 1 .. Len(answered), j \in 1 .. Len(nested) : answered[i] # nested[j].number

AnswersKnown == \A i \in 1 .. Len(answered) : answered[i] \in 1 .. Len(received)

AllAnswered ==
  \A n \in 1 .. Len(received) :
    \/ \E i \in 1 .. Len(answered) : answered[i] = n
    \/ \E j \in 1 .. Len(nested) : nested[j].number = n

AnsweredOnce == AnswersApart /\ AnswersClose /\ AnswersKnown /\ AllAnswered

RunAsAllowed ==
  /\ started \subseteq 1 .. Len(received)
  /\ \A n \in started \ allowed : handler[received[n].session].policy = "allowAlways"

CommandInv ==
  /\ handler \in [PcSessions -> Handlers]
  /\ received \in Seq([session : PcSessions, command : Commands])
  /\ nested \in Seq([kind : Policies, number : Nat])
  /\ answered \in Seq(Nat)
  /\ DialogsAsk /\ DialogsApart /\ AnsweredOnce /\ RunAsAllowed

\* No command has been received, and no dialog is open.
LEMMA CommandInvInit == CommandInit => CommandInv
  <1> SUFFICES ASSUME CommandInit PROVE CommandInv
    OBVIOUS
  <1>1. /\ received = << >> /\ nested = << >> /\ answered = << >> /\ started = {} /\ allowed = {}
        /\ handler \in [PcSessions -> Handlers]
    BY DEF CommandInit
  <1> QED BY <1>1 DEF CommandInv, DialogsAsk, DialogsApart, AnsweredOnce,
            AnswersApart, AnswersClose, AnswersKnown, AllAnswered, RunAsAllowed

\* A list with an element behind it.
LEMMA AppendedIs ==
  ASSUME NEW S, NEW s \in Seq(S), NEW e \in S
  PROVE  /\ Append(s, e) \in Seq(S) /\ Len(Append(s, e)) = Len(s) + 1 /\ Len(s) \in Nat
         /\ \A i \in 1 .. Len(s) : Append(s, e)[i] = s[i]
         /\ Append(s, e)[Len(s) + 1] = e
  BY AppendProperties

\* A command arrives: refused, run or asked about.
LEMMA DispatchKeepsInv ==
  ASSUME CommandInv, NEW s \in PcSessions, NEW command \in Commands, Dispatch(s, command)
  PROVE  CommandInv'
  <1> DEFINE h == handler[s]
             r == [session |-> s, command |-> command]
  <1>1. /\ received \in Seq([session : PcSessions, command : Commands])
        /\ nested \in Seq([kind : Policies, number : Nat]) /\ answered \in Seq(Nat)
        /\ handler \in [PcSessions -> Handlers] /\ handler' = handler /\ allowed' = allowed
    BY DEF CommandInv, Dispatch
  <1>2. PICK n \in Nat, k \in Nat, a \in Nat :
          n = Len(received) + 1 /\ k = Len(nested) /\ a = Len(answered)
    BY <1>1
  <1>3. /\ received' \in Seq([session : PcSessions, command : Commands])
        /\ Len(received') = n /\ received'[n] = r /\ Len(received) = n - 1 /\ n >= 1
        /\ \A i \in 1 .. n - 1 : received'[i] = received[i]
    BY <1>1, <1>2, AppendedIs DEF Dispatch, Arrives
  <1>4. h \in [policy : Policies, unattended : BOOLEAN] /\ received'[n].session = s
    BY <1>1, <1>3, HandlersAssumption
  <1> HIDE DEF h, r
  <1>5. /\ \A i \in 1 .. n : i \in 1 .. n - 1 \/ i = n
        /\ \A i \in 1 .. n - 1 : i \in 1 .. n /\ i # n
        /\ n \in 1 .. n /\ k + 1 \in 1 .. k + 1 /\ a + 1 \in 1 .. a + 1
    BY <1>3
  <1>6. /\ \A i \in 1 .. k + 1 : i \in 1 .. k \/ i = k + 1
        /\ \A i \in 1 .. a + 1 : i \in 1 .. a \/ i = a + 1
        /\ \A i \in 1 .. k : i \in 1 .. k + 1
        /\ \A i \in 1 .. a : i \in 1 .. a + 1
    OBVIOUS
  <1>7. \A i \in 1 .. k :
          /\ nested[i].number \in 1 .. n - 1
          /\ nested[i].kind = handler[received[nested[i].number].session].policy
          /\ ~handler[received[nested[i].number].session].unattended
    BY <1>2, <1>3 DEF CommandInv, DialogsAsk
  <1>8. \A i, j \in 1 .. k : nested[i].number = nested[j].number => i = j
    BY <1>2 DEF CommandInv, DialogsApart
  <1>9. /\ \A i, j \in 1 .. a : answered[i] = answered[j] => i = j
        /\ \A i \in 1 .. a, j \in 1 .. k : answered[i] # nested[j].number
        /\ \A i \in 1 .. a : answered[i] \in 1 .. n - 1
        /\ \A m \in 1 .. n - 1 : \/ \E i \in 1 .. a : answered[i] = m
                                 \/ \E j \in 1 .. k : nested[j].number = m
    <2>1. AnswersApart /\ AnswersClose /\ AnswersKnown /\ AllAnswered
      BY DEF CommandInv, AnsweredOnce
    <2>2. \A i, j \in 1 .. a : answered[i] = answered[j] => i = j
      BY <1>2, <2>1 DEF AnswersApart
    <2>3. \A i \in 1 .. a, j \in 1 .. k : answered[i] # nested[j].number
      BY <1>2, <2>1 DEF AnswersClose
    <2>4. \A i \in 1 .. a : answered[i] \in 1 .. n - 1
      BY <1>2, <1>3, <2>1 DEF AnswersKnown
    <2>5. \A m \in 1 .. n - 1 : \/ \E i \in 1 .. a : answered[i] = m
                                \/ \E j \in 1 .. k : nested[j].number = m
      <3>1. 1 .. Len(received) = 1 .. n - 1
        BY <1>2, <1>3
      <3> QED BY <1>2, <2>1, <3>1, Zenon DEF AllAnswered
    <2> QED BY <2>2, <2>3, <2>4, <2>5, Zenon
  <1>10. /\ started \subseteq 1 .. n - 1
         /\ \A m \in started \ allowed : handler[received[m].session].policy = "allowAlways"
    BY <1>2, <1>3 DEF CommandInv, RunAsAllowed
  <1>11. ASSUME answered' = Append(answered, n), nested' = nested,
                started' = started \/ (started' = started \cup {n} /\ h.policy = "allowAlways")
         PROVE  CommandInv'
    <2>1. /\ answered' \in Seq(Nat) /\ Len(answered') = a + 1
          /\ \A i \in 1 .. a : answered'[i] = answered[i]
          /\ answered'[a + 1] = n
      BY <1>1, <1>2, <1>11, AppendedIs
    <2>2. Len(nested') = k /\ Len(received') = n
      BY <1>2, <1>3, <1>11
    <2>3. DialogsAsk'
      <3>1. ASSUME NEW i \in 1 .. k
            PROVE  /\ nested[i].number \in 1 .. n
                   /\ nested[i].kind = handler[received'[nested[i].number].session].policy
                   /\ ~handler[received'[nested[i].number].session].unattended
        BY <1>3, <1>5, <1>7, Zenon
      <3> QED BY <1>1, <1>11, <2>2, <3>1 DEF DialogsAsk
    <2>4. DialogsApart'
      BY <1>8, <1>11, <2>2 DEF DialogsApart
    <2>5. AnsweredOnce'
      <3>1. \A i, j \in 1 .. a + 1 : answered'[i] = answered'[j] => i = j
        <4>1. \A i, j \in 1 .. a : answered'[i] = answered'[j] => i = j
          BY <1>9, <2>1
        <4>2. \A i \in 1 .. a : answered'[i] # n
          BY <1>5, <1>9, <2>1
        <4> QED BY <1>6, <2>1, <4>1, <4>2, Zenon
      <3>2. \A i \in 1 .. a + 1, j \in 1 .. k : answered'[i] # nested[j].number
        BY <1>5, <1>6, <1>7, <1>9, <2>1
      <3>3. \A i \in 1 .. a + 1 : answered'[i] \in 1 .. n
        BY <1>5, <1>6, <1>9, <2>1
      <3>4. ASSUME NEW m \in 1 .. n
            PROVE  \/ \E i \in 1 .. a + 1 : answered'[i] = m
                   \/ \E j \in 1 .. k : nested[j].number = m
        <4>1. CASE m = n
          BY <1>5, <2>1, <4>1
        <4>2. CASE m \in 1 .. n - 1
          BY <1>6, <1>9, <2>1, <4>2
        <4> QED BY <1>5, <4>1, <4>2
      <3>5. AnswersApart' /\ AnswersKnown'
        BY <2>1, <2>2, <3>1, <3>3 DEF AnswersApart, AnswersKnown
      <3>6. AnswersClose'
        BY <1>11, <2>1, <2>2, <3>2 DEF AnswersClose
      <3>7. AllAnswered'
        BY <1>11, <2>1, <2>2, <3>4 DEF AllAnswered
      <3> QED BY <3>5, <3>6, <3>7 DEF AnsweredOnce
    <2>6. RunAsAllowed'
      <3>1. \A m \in started : m \in 1 .. n /\ received'[m] = received[m]
        BY <1>3, <1>5, <1>10
      <3> QED BY <1>1, <1>4, <1>5, <1>10, <1>11, <2>2, <3>1 DEF RunAsAllowed, h
    <2> QED BY <1>1, <1>3, <1>11, <2>1, <2>3, <2>4, <2>5, <2>6 DEF CommandInv
  <1>12. ASSUME nested' = Append(nested, [kind |-> h.policy, number |-> n]), ~h.unattended,
                UNCHANGED <<answered, started>>
         PROVE  CommandInv'
    <2>1. /\ nested' \in Seq([kind : Policies, number : Nat]) /\ Len(nested') = k + 1
          /\ \A i \in 1 .. k : nested'[i] = nested[i]
          /\ nested'[k + 1] = [kind |-> h.policy, number |-> n]
      BY <1>1, <1>2, <1>4, <1>12, AppendedIs
    <2>2. nested'[k + 1].kind = h.policy /\ nested'[k + 1].number = n
      BY <2>1
    <2>3. /\ \A i \in 1 .. k : nested'[i] = nested[i]
          /\ Len(nested') = k + 1 /\ Len(received') = n /\ Len(answered') = a
      BY <1>2, <1>3, <1>12, <2>1
    <2>4. DialogsAsk'
      <3>1. ASSUME NEW i \in 1 .. k
            PROVE  /\ nested'[i].number \in 1 .. n
                   /\ nested'[i].kind = handler[received'[nested'[i].number].session].policy
                   /\ ~handler[received'[nested'[i].number].session].unattended
        <4>1. /\ nested[i].number \in 1 .. n - 1
              /\ nested[i].kind = handler[received[nested[i].number].session].policy
              /\ ~handler[received[nested[i].number].session].unattended
          BY <1>7, Zenon
        <4>2. nested'[i] = nested[i]
          BY <2>3, Zenon
        <4>3. nested[i].number \in 1 .. n /\ received'[nested[i].number] = received[nested[i].number]
          BY <1>3, <1>5, <4>1
        <4> QED BY <4>1, <4>2, <4>3, Zenon
      <3>2. /\ nested'[k + 1].number \in 1 .. n
            /\ nested'[k + 1].kind = handler[received'[nested'[k + 1].number].session].policy
            /\ ~handler[received'[nested'[k + 1].number].session].unattended
        BY <1>4, <1>5, <1>12, <2>2 DEF h
      <3> QED BY <1>1, <1>6, <2>3, <3>1, <3>2 DEF DialogsAsk
    <2>5. DialogsApart'
      <3>1. \A i \in 1 .. k : nested'[i].number # n
        BY <1>5, <1>7, <2>3
      <3>2. \A i, j \in 1 .. k : nested'[i].number = nested'[j].number => i = j
        BY <1>8, <2>3
      <3> QED BY <1>6, <2>2, <2>3, <3>1, <3>2 DEF DialogsApart
    <2>6. AnsweredOnce'
      <3>1. \A i \in 1 .. a, j \in 1 .. k + 1 : answered[i] # nested'[j].number
        <4>1. ASSUME NEW i \in 1 .. a, NEW j \in 1 .. k + 1 PROVE answered[i] # nested'[j].number
          <5>1. CASE j \in 1 .. k
            BY <1>9, <2>3, <5>1
          <5>2. CASE j = k + 1
            BY <1>5, <1>9, <2>2, <5>2
          <5> QED BY <1>6, <5>1, <5>2
        <4> QED BY <4>1
      <3>2. ASSUME NEW m \in 1 .. n
            PROVE  \/ \E i \in 1 .. a : answered[i] = m
                   \/ \E j \in 1 .. k + 1 : nested'[j].number = m
        <4>1. CASE m = n
          BY <1>5, <2>2, <4>1
        <4>2. CASE m \in 1 .. n - 1
          BY <1>6, <1>9, <2>3, <4>2
        <4> QED BY <1>5, <4>1, <4>2
      <3>3. AnswersApart'
        BY <1>9, <1>12, <2>3 DEF AnswersApart
      <3>4. AnswersKnown'
        BY <1>5, <1>9, <1>12, <2>3 DEF AnswersKnown
      <3>5. AnswersClose'
        BY <1>12, <2>3, <3>1 DEF AnswersClose
      <3>6. AllAnswered'
        BY <1>12, <2>3, <3>2 DEF AllAnswered
      <3> QED BY <3>3, <3>4, <3>5, <3>6 DEF AnsweredOnce
    <2>7. RunAsAllowed'
      <3>1. \A m \in started : m \in 1 .. n /\ received'[m] = received[m]
        BY <1>3, <1>5, <1>10
      <3> QED BY <1>1, <1>10, <1>12, <2>3, <3>1 DEF RunAsAllowed
    <2> QED BY <1>1, <1>3, <1>12, <2>1, <2>4, <2>5, <2>6, <2>7 DEF CommandInv
  <1>13. \/ /\ answered' = Append(answered, n) /\ nested' = nested
            /\ started' = started \/ (started' = started \cup {n} /\ h.policy = "allowAlways")
         \/ /\ nested' = Append(nested, [kind |-> h.policy, number |-> n]) /\ ~h.unattended
            /\ UNCHANGED <<answered, started>>
    BY <1>2 DEF Dispatch, sendEnterAndReturn, Launch, NeedsNobody, h
  <1> QED BY <1>11, <1>12, <1>13

\* The innermost dialog is answered.
LEMMA AnswerDialogKeepsInv ==
  ASSUME CommandInv, NEW allow \in BOOLEAN, AnswerDialog(allow)
  PROVE  CommandInv'
  <1>1. /\ received \in Seq([session : PcSessions, command : Commands]) /\ received' = received
        /\ nested \in Seq([kind : Policies, number : Nat]) /\ answered \in Seq(Nat)
        /\ nested # << >>
        /\ handler \in [PcSessions -> Handlers] /\ handler' = handler
    BY DEF CommandInv, AnswerDialog
  <1>2. PICK k \in Nat, a \in Nat, l \in Nat :
          k + 1 = Len(nested) /\ a = Len(answered) /\ l = Len(received)
    <2>1. Len(nested) \in Nat /\ Len(nested) > 0
      BY <1>1
    <2>2. Len(nested) - 1 \in Nat /\ (Len(nested) - 1) + 1 = Len(nested)
      BY <2>1
    <2>3. Len(answered) \in Nat /\ Len(received) \in Nat
      BY <1>1
    <2> QED BY <2>2, <2>3
  <1>3. nested[k + 1] \in [kind : Policies, number : Nat]
    <2> DEFINE D == [kind : Policies, number : Nat]
    <2>1. nested \in Seq(D)
      BY <1>1
    <2> HIDE DEF D
    <2>2. k + 1 \in 1 .. Len(nested)
      BY <1>2
    <2>3. nested[k + 1] \in D
      BY <2>1, <2>2
    <2> QED BY <2>3 DEF D
  <1>4. PICK n \in Nat : n = nested[k + 1].number
    BY <1>3
  <1>5. /\ nested' \in Seq([kind : Policies, number : Nat]) /\ Len(nested') = k
        /\ \A i \in 1 .. k : nested'[i] = nested[i]
    <2>1. nested' = SubSeq(nested, 1, k)
      BY <1>2 DEF AnswerDialog, Front
    <2> DEFINE D == [kind : Policies, number : Nat]
    <2>2. nested \in Seq(D)
      BY <1>1
    <2> HIDE DEF D
    <2>3. \A i \in 1 .. k : i \in 1 .. Len(nested) /\ nested[i] \in D
      BY <1>2, <2>2
    <2>4. /\ SubSeq(nested, 1, k) \in Seq(D) /\ Len(SubSeq(nested, 1, k)) = k
          /\ \A i \in 1 .. k : SubSeq(nested, 1, k)[i] = nested[i]
      BY <2>3, SubSeqProperties
    <2> QED BY <2>1, <2>4 DEF D
  <1>6. /\ answered' \in Seq(Nat) /\ Len(answered') = a + 1
        /\ \A i \in 1 .. a : answered'[i] = answered[i]
        /\ answered'[a + 1] = n
    <2>1. answered' = Append(answered, n)
      BY <1>2, <1>4 DEF AnswerDialog, sendEnterAndReturn, Last
    <2> QED BY <1>1, <1>2, <2>1, AppendedIs
  <1>7. \/ started' = started /\ allowed' = allowed
        \/ started' \in {started, started \cup {n}} /\ allowed' = allowed \cup {n}
    BY <1>2, <1>4 DEF AnswerDialog, Launch, Last
  <1>8. /\ \A i \in 1 .. k + 1 : i \in 1 .. k \/ i = k + 1
        /\ \A i \in 1 .. a + 1 : i \in 1 .. a \/ i = a + 1
        /\ \A i \in 1 .. k : i \in 1 .. k + 1 /\ i # k + 1
        /\ \A i \in 1 .. a : i \in 1 .. a + 1
        /\ k + 1 \in 1 .. k + 1 /\ a + 1 \in 1 .. a + 1
    OBVIOUS
  <1>9. \A i \in 1 .. k + 1 :
          /\ nested[i].number \in 1 .. l
          /\ nested[i].kind = handler[received[nested[i].number].session].policy
          /\ ~handler[received[nested[i].number].session].unattended
    BY <1>2 DEF CommandInv, DialogsAsk
  <1>10. \A i, j \in 1 .. k + 1 : nested[i].number = nested[j].number => i = j
    BY <1>2 DEF CommandInv, DialogsApart
  <1>11. /\ \A i, j \in 1 .. a : answered[i] = answered[j] => i = j
         /\ \A i \in 1 .. a, j \in 1 .. k + 1 : answered[i] # nested[j].number
         /\ \A i \in 1 .. a : answered[i] \in 1 .. l
         /\ \A m \in 1 .. l : \/ \E i \in 1 .. a : answered[i] = m
                              \/ \E j \in 1 .. k + 1 : nested[j].number = m
    <2>1. AnswersApart /\ AnswersClose /\ AnswersKnown /\ AllAnswered
      BY DEF CommandInv, AnsweredOnce
    <2>2. \A i, j \in 1 .. a : answered[i] = answered[j] => i = j
      BY <1>2, <2>1 DEF AnswersApart
    <2>3. \A i \in 1 .. a, j \in 1 .. k + 1 : answered[i] # nested[j].number
      BY <1>2, <2>1 DEF AnswersClose
    <2>4. \A i \in 1 .. a : answered[i] \in 1 .. l
      BY <1>2, <2>1 DEF AnswersKnown
    <2>5. \A m \in 1 .. l : \/ \E i \in 1 .. a : answered[i] = m
                            \/ \E j \in 1 .. k + 1 : nested[j].number = m
      BY <1>2, <2>1 DEF AllAnswered
    <2> QED BY <2>2, <2>3, <2>4, <2>5
  <1>12. n \in 1 .. l /\ \A i \in 1 .. k : nested[i].number # n
    BY <1>4, <1>8, <1>9, <1>10
  <1>13. DialogsAsk'
    BY <1>1, <1>2, <1>5, <1>8, <1>9 DEF DialogsAsk
  <1>14. DialogsApart'
    BY <1>5, <1>8, <1>10 DEF DialogsApart
  <1>15. AnsweredOnce'
    <2>9. /\ \A i \in 1 .. a : answered'[i] = answered[i] /\ answered[i] # n
          /\ \A i \in 1 .. k : nested'[i] = nested[i]
          /\ answered'[a + 1] = n
      <3>1. ASSUME NEW i \in 1 .. a PROVE answered[i] # n
        BY <1>4, <1>8, <1>11, Zenon
      <3> QED BY <1>5, <1>6, <3>1, Zenon
    <2>1. \A i, j \in 1 .. a + 1 : answered'[i] = answered'[j] => i = j
      <3>1. \A i, j \in 1 .. a : answered'[i] = answered'[j] => i = j
        <4>1. \A i, j \in 1 .. a : answered[i] = answered[j] => i = j
          BY <1>11, Zenon
        <4>2. \A i \in 1 .. a : answered'[i] = answered[i]
          BY <2>9, Zenon
        <4> QED BY <4>1, <4>2
      <3> QED BY <1>8, <2>9, <3>1, Zenon
    <2>2. \A i \in 1 .. a + 1, j \in 1 .. k : answered'[i] # nested'[j].number
      <3>1. ASSUME NEW i \in 1 .. a + 1, NEW j \in 1 .. k PROVE answered'[i] # nested'[j].number
        <4>1. CASE i \in 1 .. a
          <5>1. answered[i] # nested[j].number
            BY <1>8, <1>11, <4>1, Zenon
          <5> QED BY <2>9, <4>1, <5>1, Zenon
        <4>2. CASE i = a + 1
          BY <1>12, <2>9, <4>2, Zenon
        <4> QED BY <1>8, <4>1, <4>2
      <3> QED BY <3>1
    <2>3. \A i \in 1 .. a + 1 : answered'[i] \in 1 .. l
      BY <1>6, <1>8, <1>11, <1>12
    <2>4. ASSUME NEW m \in 1 .. l
          PROVE  \/ \E i \in 1 .. a + 1 : answered'[i] = m
                 \/ \E j \in 1 .. k : nested'[j].number = m
      <3>1. CASE \E i \in 1 .. a : answered[i] = m
        BY <1>6, <1>8, <3>1
      <3>2. CASE m = n
        BY <1>6, <1>8, <3>2
      <3>3. CASE \E j \in 1 .. k : nested[j].number = m
        BY <1>5, <3>3
      <3> QED BY <1>4, <1>8, <1>11, <3>1, <3>2, <3>3, Zenon
    <2>5. Len(received') = l
      BY <1>1, <1>2
    <2>6. AnswersApart' /\ AnswersKnown'
      BY <1>6, <2>1, <2>3, <2>5 DEF AnswersApart, AnswersKnown
    <2>7. AnswersClose'
      BY <1>5, <1>6, <2>2 DEF AnswersClose
    <2>8. AllAnswered'
      BY <1>5, <1>6, <2>4, <2>5 DEF AllAnswered
    <2> QED BY <2>6, <2>7, <2>8 DEF AnsweredOnce
  <1>16. RunAsAllowed'
    <2>1. /\ started \subseteq 1 .. l
          /\ \A m \in started \ allowed : handler[received[m].session].policy = "allowAlways"
      BY <1>2 DEF CommandInv, RunAsAllowed
    <2> QED BY <1>1, <1>2, <1>7, <1>12, <2>1 DEF RunAsAllowed
  <1> QED BY <1>1, <1>5, <1>6, <1>13, <1>14, <1>15, <1>16 DEF CommandInv

\* Each command a host sends gets one ENTER, at once or when its dialog closes,
\* and only what the policy or the user allowed is run, for any number of
\* sessions and commands nested in each other's dialogs (onStrpccmdRequested).
THEOREM CommandsAsAllowed == CommandSpec => []EachAsAllowed
  <1>1. ASSUME CommandInv, [CommandNext]_commandVars PROVE CommandInv'
    <2>1. CASE UNCHANGED commandVars
      <3>1. UNCHANGED <<handler, received, nested, answered, started, allowed>>
        BY <2>1 DEF commandVars
      <3>2. DialogsAsk'
        BY <1>1, <3>1 DEF CommandInv, DialogsAsk
      <3>3. DialogsApart'
        BY <1>1, <3>1 DEF CommandInv, DialogsApart
      <3>4. AnswersApart' /\ AnswersKnown'
        BY <1>1, <3>1 DEF CommandInv, AnsweredOnce, AnswersApart, AnswersKnown
      <3>5. AnswersClose'
        BY <1>1, <3>1 DEF CommandInv, AnsweredOnce, AnswersClose
      <3>6. AllAnswered'
        BY <1>1, <3>1 DEF CommandInv, AnsweredOnce, AllAnswered
      <3>7. RunAsAllowed'
        BY <1>1, <3>1 DEF CommandInv, RunAsAllowed
      <3>8. AnsweredOnce'
        BY <3>4, <3>5, <3>6 DEF AnsweredOnce
      <3> QED BY <1>1, <3>1, <3>2, <3>3, <3>7, <3>8 DEF CommandInv
    <2> QED BY <1>1, <2>1, DispatchKeepsInv, AnswerDialogKeepsInv DEF CommandNext
  <1>2. CommandInv => EachAsAllowed
    <2> SUFFICES ASSUME CommandInv PROVE EachAsAllowed
      OBVIOUS
    <2>1. /\ DOMAIN nested = 1 .. Len(nested) /\ DOMAIN answered = 1 .. Len(answered)
          /\ DOMAIN received = 1 .. Len(received)
          /\ DialogsAsk /\ RunAsAllowed
          /\ AnswersApart /\ AnswersClose /\ AnswersKnown /\ AllAnswered
      BY DEF CommandInv, AnsweredOnce
    <2>5. /\ \A x : x \in ToSet(answered) <=> \E i \in 1 .. Len(answered) : answered[i] = x
          /\ \A x : x \in Pending <=> \E j \in 1 .. Len(nested) : nested[j].number = x
      BY <2>1, Zenon DEF ToSet, Pending
    <2>2. IsInjective(answered)
      BY <2>1 DEF IsInjective, AnswersApart
    <2>3. /\ ToSet(answered) \cap Pending = {}
          /\ ToSet(answered) \cup Pending = DOMAIN received
      <3>1. ASSUME NEW x PROVE ~(x \in ToSet(answered) /\ x \in Pending)
        <4> SUFFICES ASSUME x \in ToSet(answered), x \in Pending PROVE FALSE
          OBVIOUS
        <4>1. PICK i \in 1 .. Len(answered) : answered[i] = x
          BY <2>5
        <4>2. PICK j \in 1 .. Len(nested) : nested[j].number = x
          BY <2>5
        <4>3. answered[i] # nested[j].number
          BY <2>1, Zenon DEF AnswersClose
        <4> QED BY <4>1, <4>2, <4>3, Zenon
      <3>2. ASSUME NEW x
            PROVE  x \in ToSet(answered) \/ x \in Pending <=> x \in 1 .. Len(received)
        <4>1. x \in ToSet(answered) => x \in 1 .. Len(received)
          BY <2>5, <2>1, Zenon DEF AnswersKnown
        <4>2. ASSUME x \in Pending PROVE x \in 1 .. Len(received)
          <5>1. PICK j \in 1 .. Len(nested) : nested[j].number = x
            BY <2>5, <4>2
          <5>2. nested[j].number \in 1 .. Len(received)
            BY <2>1, <5>1 DEF DialogsAsk
          <5> QED BY <5>1, <5>2, Zenon
        <4>3. x \in 1 .. Len(received) => x \in ToSet(answered) \/ x \in Pending
          BY <2>5, <2>1, Zenon DEF AllAnswered
        <4> QED BY <4>1, <4>2, <4>3
      <3> QED BY <2>1, <3>1, <3>2
    <2>4. \A m \in Pending : ~handler[received[m].session].unattended
      BY <2>5, <2>1 DEF DialogsAsk
    <2> QED BY <2>1, <2>2, <2>3, <2>4 DEF EachAsAllowed, RunAsAllowed
  <1> QED BY <1>1, <1>2, CommandInvInit, PTL DEF CommandSpec
-----------------------------------------------------------------------------
(* The script library and its editor.                                      *)

Paths == ScriptPaths \cup {NoPath}

EditorTab == [number : Nat, path : Paths, text : ScriptTexts, modified : BOOLEAN]

Asked == [kind : {"close", "reload"}, number : Nat, text : ScriptTexts \cup {NoFile}]

EditorTypeOK ==
  /\ disk \in [ScriptPaths -> ScriptTexts \cup {NoFile}]
  /\ watch \in [ScriptPaths -> {"off", "on", "changed", "removed"}]
  /\ tabs \in Seq(EditorTab) /\ current \in 0 .. Len(tabs)
  /\ asks \in Seq(Asked)
  /\ \A k \in 1 .. Len(asks) : asks[k].kind = "reload" => asks[k].text \in ScriptTexts
  /\ opened \in Nat

\* Two tabs have one file only once Save As has put it into the second.
OneTabEach ==
  \A i, j \in 1 .. Len(tabs) :
    i # j /\ tabs[i].path = tabs[j].path => tabs[i].path \in excused \cup {NoPath}

\* The watcher knows every open file, whether it is there or still to be told
\* missing.
KnowsOpen ==
  \A i \in 1 .. Len(tabs) :
    tabs[i].path \notin excused \cup {NoPath} => watch[tabs[i].path] # "off"

EditorInv == EditorTypeOK /\ OneTabEach /\ KnowsOpen

\* The editor starts with no tab, and nothing watched.
LEMMA EditorInvInit == EditorInit => EditorInv
  <1> SUFFICES ASSUME EditorInit PROVE EditorInv
    OBVIOUS
  <1>1. /\ tabs = << >> /\ current = 0 /\ asks = << >> /\ opened = 0
        /\ disk \in [ScriptPaths -> ScriptTexts \cup {NoFile}]
        /\ watch \in [ScriptPaths -> {"off", "on", "changed", "removed"}]
    BY ScriptAssumption DEF EditorInit
  <1> QED BY <1>1 DEF EditorInv, EditorTypeOK, OneTabEach, KnowsOpen

\* A tab that is edited, and one that is saved; their fields.
Edited(e, t, b) == [e EXCEPT !.text = t, !.modified = b]
Saved(e, p) == [e EXCEPT !.path = p, !.modified = FALSE]

LEMMA EditedIs ==
  ASSUME NEW e \in EditorTab, NEW t \in ScriptTexts, NEW b \in BOOLEAN
  PROVE  /\ Edited(e, t, b) \in EditorTab /\ Edited(e, t, b).path = e.path
         /\ Edited(e, t, b).number = e.number /\ Edited(e, t, b).modified = b
  <1>1. Edited(e, t, b) \in EditorTab
    BY DEF EditorTab, Edited
  <1>2. /\ Edited(e, t, b).path = e.path /\ Edited(e, t, b).number = e.number
        /\ Edited(e, t, b).modified = b
    BY DEF EditorTab, Edited
  <1> QED BY <1>1, <1>2

LEMMA SavedIs ==
  ASSUME NEW e \in EditorTab, NEW p \in Paths
  PROVE  /\ Saved(e, p) \in EditorTab /\ Saved(e, p).path = p
         /\ Saved(e, p).number = e.number /\ ~Saved(e, p).modified
  <1>1. Saved(e, p) \in EditorTab
    BY DEF EditorTab, Saved
  <1>2. Saved(e, p).path = p /\ Saved(e, p).number = e.number /\ ~Saved(e, p).modified
    BY DEF EditorTab, Saved
  <1> QED BY <1>1, <1>2

\* A list of a length is a sequence of it.
LEMMA ListIs ==
  ASSUME NEW T, NEW n \in Nat, NEW f \in [1 .. n -> T]
  PROVE  f \in Seq(T) /\ Len(f) = n
  OBVIOUS

\* The same in the list of tabs.
TabsEdited(s, i, t, b) == [s EXCEPT ![i].text = t, ![i].modified = b]
TabsSaved(s, i, p) == [s EXCEPT ![i].path = p, ![i].modified = FALSE]

\* A tab whose text is replaced: it keeps its number and its file.
LEMMA TabEdited ==
  ASSUME NEW s \in Seq(EditorTab), NEW i, NEW t \in ScriptTexts, NEW b \in BOOLEAN,
         NEW r, r = TabsEdited(s, i, t, b)
  PROVE  /\ r \in Seq(EditorTab) /\ Len(r) = Len(s)
         /\ \A j \in 1 .. Len(s) : /\ r[j].path = s[j].path /\ r[j].number = s[j].number
                                   /\ (j = i /\ (r[j].modified <=> b)) \/ (j # i /\ r[j] = s[j])
  <1>1. Len(s) \in Nat /\ DOMAIN s = 1 .. Len(s) /\ \A j \in 1 .. Len(s) : s[j] \in EditorTab
    OBVIOUS
  <1>2. r = [j \in 1 .. Len(s) |->
               IF j = i THEN Edited(s[j], t, b) ELSE s[j]]
    BY <1>1 DEF TabsEdited, Edited
  <1>3. ASSUME NEW j \in 1 .. Len(s)
        PROVE  /\ r[j] \in EditorTab
               /\ r[j].path = s[j].path /\ r[j].number = s[j].number
               /\ (j = i /\ (r[j].modified <=> b)) \/ (j # i /\ r[j] = s[j])
    <2>2. CASE j = i
      <3>1. r[j] = Edited(s[j], t, b)
        BY <1>2, <2>2
      <3>2. /\ r[j] \in EditorTab
            /\ r[j].path = s[j].path /\ r[j].number = s[j].number /\ r[j].modified = b
        <4>1. s[j] \in EditorTab
          BY <1>1
        <4> QED BY <3>1, <4>1, EditedIs
      <3> QED BY <2>2, <3>2
    <2>3. CASE j # i
      BY <1>1, <1>2, <2>3
    <2> QED BY <2>2, <2>3
  <1>5. DOMAIN r = 1 .. Len(s) /\ r = [j \in 1 .. Len(s) |-> r[j]]
    BY <1>2
  <1>4. r \in Seq(EditorTab) /\ Len(r) = Len(s)
    <2>1. \A j \in 1 .. Len(s) : r[j] \in EditorTab
      BY <1>3
    <2>2. r \in [1 .. Len(s) -> EditorTab]
      BY <1>5, <2>1
    <2>3. Len(s) \in Nat
      BY <1>1
    <2> QED BY <2>2, <2>3, ListIs, Zenon
  <1> QED BY <1>3, <1>4

\* A tab that is saved to a file.
LEMMA TabSaved ==
  ASSUME NEW s \in Seq(EditorTab), NEW i, NEW p \in Paths,
         NEW r, r = TabsSaved(s, i, p)
  PROVE  /\ r \in Seq(EditorTab) /\ Len(r) = Len(s)
         /\ \A j \in 1 .. Len(s) : /\ r[j].path = IF j = i THEN p ELSE s[j].path
                                   /\ r[j].number = s[j].number
                                   /\ IF j = i THEN ~r[j].modified ELSE r[j] = s[j]
  <1>1. Len(s) \in Nat /\ DOMAIN s = 1 .. Len(s) /\ \A j \in 1 .. Len(s) : s[j] \in EditorTab
    OBVIOUS
  <1>2. r = [j \in 1 .. Len(s) |->
               IF j = i THEN Saved(s[j], p) ELSE s[j]]
    BY <1>1 DEF TabsSaved, Saved
  <1>3. ASSUME NEW j \in 1 .. Len(s)
        PROVE  /\ r[j] \in EditorTab
               /\ r[j].path = IF j = i THEN p ELSE s[j].path
               /\ r[j].number = s[j].number
               /\ IF j = i THEN ~r[j].modified ELSE r[j] = s[j]
    <2>2. CASE j = i
      <3>1. r[j] = Saved(s[j], p)
        BY <1>2, <2>2
      <3>2. /\ r[j] \in EditorTab
            /\ r[j].path = p /\ r[j].number = s[j].number /\ ~r[j].modified
        <4>1. s[j] \in EditorTab
          BY <1>1
        <4> QED BY <3>1, <4>1, SavedIs
      <3> QED BY <2>2, <3>2
    <2>3. CASE j # i
      BY <1>1, <1>2, <2>3
    <2> QED BY <2>2, <2>3
  <1>5. DOMAIN r = 1 .. Len(s) /\ r = [j \in 1 .. Len(s) |-> r[j]]
    BY <1>2
  <1>4. r \in Seq(EditorTab) /\ Len(r) = Len(s)
    <2>1. \A j \in 1 .. Len(s) : r[j] \in EditorTab
      BY <1>3
    <2>2. r \in [1 .. Len(s) -> EditorTab]
      BY <1>5, <2>1
    <2>3. Len(s) \in Nat
      BY <1>1
    <2> QED BY <2>2, <2>3, ListIs, Zenon
  <1> QED BY <1>3, <1>4

\* The tabs without one of them.
LEMMA TabRemoved ==
  ASSUME NEW s \in Seq(EditorTab), NEW i \in 1 .. Len(s), NEW c, c = RemoveAt(s, i)
  PROVE  /\ c \in Seq(EditorTab) /\ Len(c) = Len(s) - 1
         /\ \A j \in 1 .. Len(s) - 1 : c[j] = IF j < i THEN s[j] ELSE s[j + 1]
  <1> DEFINE l == SubSeq(s, 1, i - 1)
             r == SubSeq(s, i + 1, Len(s))
  <1>0. Len(s) \in Nat /\ i \in Nat /\ i >= 1 /\ i <= Len(s)
    OBVIOUS
  <1>1. /\ l \in Seq(EditorTab) /\ Len(l) = i - 1
        /\ \A j \in 1 .. i - 1 : l[j] = s[j]
    <2>1. \A j \in 1 .. i - 1 : s[j] \in EditorTab
      BY <1>0
    <2> QED BY <1>0, <2>1, SubSeqProperties
  <1>2. /\ r \in Seq(EditorTab) /\ Len(r) = Len(s) - i
        /\ \A j \in 1 .. Len(s) - i : r[j] = s[i + j]
    <2>1. \A j \in i + 1 .. Len(s) : s[j] \in EditorTab
      BY <1>0
    <2> QED BY <1>0, <2>1, SubSeqProperties
  <1>5. c = l \o r
    BY DEF RemoveAt
  <1> HIDE DEF l, r
  <1>3. /\ c \in Seq(EditorTab) /\ Len(c) = Len(l) + Len(r)
        /\ \A j \in 1 .. Len(l) + Len(r) : c[j] = IF j <= Len(l) THEN l[j] ELSE r[j - Len(l)]
    <2>1. /\ l \o r \in Seq(EditorTab) /\ Len(l \o r) = Len(l) + Len(r)
          /\ \A j \in 1 .. Len(l) + Len(r) : (l \o r)[j] = IF j <= Len(l) THEN l[j] ELSE r[j - Len(l)]
      BY <1>1, <1>2, ConcatProperties, Zenon
    <2> QED BY <1>5, <2>1, Zenon
  <1>4. ASSUME NEW j \in 1 .. Len(s) - 1
        PROVE  c[j] = IF j < i THEN s[j] ELSE s[j + 1]
    <2>1. c[j] = IF j <= i - 1 THEN l[j] ELSE r[j - (i - 1)]
      BY <1>0, <1>1, <1>2, <1>3
    <2>2. CASE j < i
      BY <1>0, <1>1, <2>1, <2>2
    <2>3. CASE j >= i
      <3>1. j - (i - 1) \in 1 .. Len(s) - i /\ i + (j - (i - 1)) = j + 1
        BY <1>0, <2>3
      <3>2. r[j - (i - 1)] = s[j + 1]
        BY <1>2, <3>1
      <3>3. ~(j <= i - 1) /\ ~(j < i)
        BY <1>0, <2>3
      <3> QED BY <2>1, <3>2, <3>3
    <2> QED BY <1>0, <2>2, <2>3
  <1>6. Len(c) = Len(s) - 1
    BY <1>0, <1>1, <1>2, <1>3
  <1> QED BY <1>3, <1>4, <1>6

\* What putting a file on the watcher, and taking it off, does to each.
Watches == [ScriptPaths -> {"off", "on", "changed", "removed"}]

LEMMA Watching ==
  ASSUME NEW w \in Watches, NEW d, NEW p \in ScriptPaths
  PROVE  /\ AddPath(w, d, p) \in Watches /\ RemovePath(w, p) \in Watches
         /\ \A q \in ScriptPaths : w[q] # "off" => AddPath(w, d, p)[q] # "off"
         /\ d[p] # NoFile => AddPath(w, d, p)[p] # "off"
         /\ \A q \in ScriptPaths \ {p} : RemovePath(w, p)[q] = w[q]
  <1>1. p # NoPath
    BY ScriptAssumption
  <1> QED BY <1>1 DEF AddPath, RemovePath, Watches

\* The first tab of an open file.
LEMMA FirstTab ==
  ASSUME tabs \in Seq(EditorTab), NEW p \in ScriptPaths, Tabs(p) # {}
  PROVE  indexOfPath(p) \in Tabs(p) /\ indexOfPath(p) # 0
  <1>1. Tabs(p) \subseteq 1 .. Len(tabs) /\ Len(tabs) \in Nat
    BY DEF Tabs, Positions
  <1>2. Tabs(p) \subseteq Nat
    BY <1>1
  <1>3. PICK x \in Tabs(p) : \A y \in Tabs(p) : ~(<<y, x>> \in OpToRel(<, Nat))
    BY <1>2, WFMin, NatLessThanWellFounded
  <1>4. \A y \in Tabs(p) : x <= y
    <2> SUFFICES ASSUME NEW y \in Tabs(p) PROVE x <= y
      OBVIOUS
    <2>1. x \in Nat /\ y \in Nat /\ ~(<<y, x>> \in OpToRel(<, Nat))
      BY <1>2, <1>3
    <2>2. ~(y < x)
      BY <2>1 DEF OpToRel
    <2>3. x \in Nat /\ y \in Nat
      BY <2>1
    <2> QED BY <2>2, <2>3
  <1>5. indexOfPath(p) = CHOOSE i \in Tabs(p) : \A j \in Tabs(p) : i <= j
    BY ScriptAssumption DEF indexOfPath
  <1>6. indexOfPath(p) \in Tabs(p)
    BY <1>3, <1>4, <1>5
  <1> QED BY <1>1, <1>6

Files == ScriptTexts \cup {NoFile}

\* The tabs have their files still, and those open are still watched.
LEMMA SamePaths ==
  ASSUME EditorInv, Len(tabs') = Len(tabs), excused \subseteq excused',
         \A j \in 1 .. Len(tabs) : tabs'[j].path = tabs[j].path,
         \A j \in 1 .. Len(tabs) :
           tabs[j].path \notin excused' \cup {NoPath} /\ watch[tabs[j].path] # "off" =>
             watch'[tabs[j].path] # "off"
  PROVE  OneTabEach' /\ KnowsOpen'
  <1>1. OneTabEach'
    BY DEF EditorInv, OneTabEach
  <1>2. KnowsOpen'
    BY DEF EditorInv, KnowsOpen
  <1> QED BY <1>1, <1>2

\* A tab is opened on a file that no other has.
LEMMA AddsTab ==
  ASSUME EditorInv, NEW p \in Paths, NEW t \in ScriptTexts, NEW d,
         p = NoPath \/ d[p] # NoFile, p = NoPath \/ Tabs(p) = {}, addTab(p, t, d)
  PROVE  /\ tabs' \in Seq(EditorTab) /\ current' \in 0 .. Len(tabs') /\ watch' \in Watches
         /\ opened' \in Nat /\ OneTabEach' /\ KnowsOpen'
         /\ Len(tabs') = Len(tabs) + 1 /\ \A j \in 1 .. Len(tabs) : tabs'[j] = tabs[j]
  <1> DEFINE e == [number |-> opened + 1, path |-> p, text |-> t, modified |-> FALSE]
  <1>1. /\ tabs \in Seq(EditorTab) /\ watch \in Watches /\ opened \in Nat
        /\ Len(tabs) \in Nat
    BY DEF EditorInv, EditorTypeOK, Watches
  <1>2. e \in EditorTab /\ e.path = p
    BY <1>1 DEF EditorTab
  <1>3. tabs' = Append(tabs, e) /\ current' = Len(tabs) + 1 /\ opened' = opened + 1
    BY DEF addTab
  <1> HIDE DEF e
  <1>4. /\ tabs' \in Seq(EditorTab) /\ Len(tabs') = Len(tabs) + 1
        /\ \A j \in 1 .. Len(tabs) : tabs'[j] = tabs[j]
        /\ tabs'[Len(tabs) + 1] = e
    BY <1>1, <1>2, <1>3, AppendedIs
  <1>5. /\ watch' \in Watches
        /\ \A q \in ScriptPaths : watch[q] # "off" => watch'[q] # "off"
        /\ p # NoPath => watch'[p] # "off"
    <2>1. CASE p = NoPath
      BY <1>1, <2>1 DEF addTab
    <2>2. CASE p # NoPath
      <3>1. p \in ScriptPaths /\ watch' = AddPath(watch, d, p) /\ d[p] # NoFile
        BY <2>2 DEF Paths, addTab
      <3> QED BY <1>1, <3>1, Watching
    <2> QED BY <2>1, <2>2
  <1>6. excused' = excused \ {p}
    BY DEF addTab
  <1>7. \A j \in 1 .. Len(tabs) : tabs[j].path = p => p = NoPath
    BY <1>1 DEF Tabs, Positions
  <1>8. \A j \in 1 .. Len(tabs) : tabs[j].path \in Paths
    <2>1. \A j \in 1 .. Len(tabs) : tabs[j] \in EditorTab
      BY <1>1
    <2> QED BY <2>1 DEF EditorTab
  <1>9. OneTabEach'
    <2> SUFFICES ASSUME NEW i \in 1 .. Len(tabs) + 1, NEW j \in 1 .. Len(tabs) + 1, i # j,
                        tabs'[i].path = tabs'[j].path
                 PROVE  tabs'[i].path \in excused' \cup {NoPath}
      BY <1>4 DEF OneTabEach
    <2>1. CASE i \in 1 .. Len(tabs) /\ j \in 1 .. Len(tabs)
      <3>1. tabs[i].path = tabs[j].path /\ tabs'[i].path = tabs[i].path
        BY <1>4, <2>1
      <3>2. tabs[i].path \in excused \cup {NoPath}
        BY <2>1, <3>1 DEF EditorInv, OneTabEach
      <3> QED BY <1>6, <1>7, <2>1, <3>1, <3>2
    <2>2. CASE i = Len(tabs) + 1 /\ j \in 1 .. Len(tabs)
      BY <1>2, <1>4, <1>7, <2>2
    <2>3. CASE j = Len(tabs) + 1 /\ i \in 1 .. Len(tabs)
      BY <1>2, <1>4, <1>7, <2>3
    <2>4. i = Len(tabs) + 1 \/ i \in 1 .. Len(tabs)
      BY <1>1
    <2>5. j = Len(tabs) + 1 \/ j \in 1 .. Len(tabs)
      BY <1>1
    <2> QED BY <2>1, <2>2, <2>3, <2>4, <2>5
  <1>10. KnowsOpen'
    <2> SUFFICES ASSUME NEW i \in 1 .. Len(tabs) + 1,
                        tabs'[i].path \notin excused' \cup {NoPath}
                 PROVE  watch'[tabs'[i].path] # "off"
      BY <1>4 DEF KnowsOpen
    <2>1. CASE i = Len(tabs) + 1
      BY <1>2, <1>4, <1>5, <2>1
    <2>2. CASE i \in 1 .. Len(tabs)
      <3>1. tabs'[i].path = tabs[i].path /\ tabs[i].path \in ScriptPaths
        BY <1>4, <1>8, <2>2 DEF Paths
      <3>2. tabs[i].path \notin excused
        BY <1>6, <1>7, <2>2, <3>1
      <3>3. watch[tabs[i].path] # "off"
        BY <2>2, <3>1, <3>2 DEF EditorInv, KnowsOpen
      <3> QED BY <1>5, <3>1, <3>3
    <2> QED BY <1>1, <2>1, <2>2
  <1> QED BY <1>1, <1>3, <1>4, <1>5, <1>9, <1>10

\* A file is shown: in the tab that has it, or in a new one.
LEMMA OpensFile ==
  ASSUME EditorInv, NEW p \in ScriptPaths, NEW d, d[p] \in ScriptTexts, openFile(p, d)
  PROVE  /\ tabs' \in Seq(EditorTab) /\ current' \in 0 .. Len(tabs') /\ watch' \in Watches
         /\ opened' \in Nat /\ OneTabEach' /\ KnowsOpen'
         /\ Len(tabs') \in Nat /\ Len(tabs') >= Len(tabs)
         /\ \A j \in 1 .. Len(tabs) : tabs'[j] = tabs[j]
  <1>1. /\ tabs \in Seq(EditorTab) /\ watch \in Watches /\ opened \in Nat
        /\ Len(tabs) \in Nat
    BY DEF EditorInv, EditorTypeOK, Watches
  <1>2. CASE Tabs(p) # {}
    <2>1. indexOfPath(p) \in Tabs(p) /\ indexOfPath(p) # 0
      BY <1>1, <1>2, FirstTab
    <2>2. indexOfPath(p) \in 1 .. Len(tabs)
      BY <1>1, <2>1 DEF Tabs, Positions
    <2>3. current' = indexOfPath(p) /\ UNCHANGED <<tabs, watch, opened, excused>>
      BY <2>1 DEF openFile
    <2>4. OneTabEach' /\ KnowsOpen'
      BY <2>3 DEF EditorInv, OneTabEach, KnowsOpen
    <2> QED BY <1>1, <2>2, <2>3, <2>4
  <1>3. CASE Tabs(p) = {}
    <2>1. indexOfPath(p) = 0
      BY <1>3 DEF indexOfPath
    <2>2. addTab(p, d[p], d)
      BY <2>1 DEF openFile
    <2>3. p \in Paths /\ d[p] # NoFile
      BY ScriptAssumption DEF Paths
    <2> QED BY <1>1, <1>3, <2>2, <2>3, AddsTab
  <1> QED BY <1>2, <1>3

\* A tab is closed, of a file that no other tab has but where Save As put it.
LEMMA RemovesTab ==
  ASSUME EditorInv, NEW i \in 1 .. Len(tabs), NEW w \in Watches, NEW d, Removes(i, w, tabs, d),
         excused \subseteq excused',
         \A j \in 1 .. Len(tabs) :
           j # i /\ tabs[j].path \notin excused' \cup {NoPath} => w[tabs[j].path] # "off"
  PROVE  /\ tabs' \in Seq(EditorTab) /\ current' \in 0 .. Len(tabs') /\ watch' \in Watches
         /\ OneTabEach' /\ KnowsOpen' /\ Len(tabs') = Len(tabs) - 1
         /\ \A j \in 1 .. Len(tabs) - 1 : tabs'[j] = IF j < i THEN tabs[j] ELSE tabs[j + 1]
  <1>1. /\ tabs \in Seq(EditorTab) /\ watch \in Watches /\ current \in 0 .. Len(tabs)
        /\ Len(tabs) \in Nat
    BY DEF EditorInv, EditorTypeOK, Watches
  <1>2. tabs' = RemoveAt(tabs, i) /\ current' = CurrentWithout(i)
        /\ watch' = RemovePath(w, tabs[i].path)
    BY DEF Removes
  <1>3. /\ tabs' \in Seq(EditorTab) /\ Len(tabs') = Len(tabs) - 1
        /\ \A j \in 1 .. Len(tabs) - 1 : tabs'[j] = IF j < i THEN tabs[j] ELSE tabs[j + 1]
    BY <1>1, <1>2, TabRemoved
  <1>4. current' \in 0 .. Len(tabs')
    BY <1>1, <1>2, <1>3 DEF CurrentWithout
  <1>5. \A j \in 1 .. Len(tabs) : tabs[j].path \in Paths
    <2>1. \A j \in 1 .. Len(tabs) : tabs[j] \in EditorTab
      BY <1>1
    <2> QED BY <2>1 DEF EditorTab
  <1>6. /\ watch' \in Watches
        /\ \A q \in ScriptPaths \ {tabs[i].path} : watch'[q] = w[q]
    <2>1. CASE tabs[i].path = NoPath
      BY <1>2, <2>1 DEF RemovePath
    <2>2. CASE tabs[i].path # NoPath
      <3>1. tabs[i].path \in ScriptPaths
        BY <1>5, <2>2 DEF Paths
      <3>2. /\ RemovePath(w, tabs[i].path) \in Watches
            /\ \A q \in ScriptPaths \ {tabs[i].path} : RemovePath(w, tabs[i].path)[q] = w[q]
        BY <3>1, Watching, Zenon
      <3> QED BY <1>2, <3>2, Zenon
    <2> QED BY <2>1, <2>2
  <1>7. \A j \in 1 .. Len(tabs) - 1 :
          \E k \in 1 .. Len(tabs) : k # i /\ tabs'[j] = tabs[k] /\ k = IF j < i THEN j ELSE j + 1
    <2> SUFFICES ASSUME NEW j \in 1 .. Len(tabs) - 1
                 PROVE  \E k \in 1 .. Len(tabs) :
                          k # i /\ tabs'[j] = tabs[k] /\ k = IF j < i THEN j ELSE j + 1
      OBVIOUS
    <2>1. CASE j < i
      <3>1. j \in 1 .. Len(tabs) /\ j # i
        BY <1>1, <2>1
      <3> QED BY <1>3, <2>1, <3>1
    <2>2. CASE ~(j < i)
      <3>1. j + 1 \in 1 .. Len(tabs) /\ j + 1 # i
        BY <1>1, <2>2
      <3> QED BY <1>3, <2>2, <3>1
    <2> QED BY <2>1, <2>2
  <1>8. OneTabEach'
    <2> SUFFICES ASSUME NEW a \in 1 .. Len(tabs) - 1, NEW b \in 1 .. Len(tabs) - 1, a # b,
                        tabs'[a].path = tabs'[b].path
                 PROVE  tabs'[a].path \in excused' \cup {NoPath}
      BY <1>3 DEF OneTabEach
    <2>1. PICK k \in 1 .. Len(tabs) : tabs'[a] = tabs[k] /\ k = IF a < i THEN a ELSE a + 1
      BY <1>7
    <2>2. PICK l \in 1 .. Len(tabs) : tabs'[b] = tabs[l] /\ l = IF b < i THEN b ELSE b + 1
      BY <1>7
    <2>3. k # l
      BY <1>1, <2>1, <2>2
    <2>4. tabs[k].path = tabs[l].path
      BY <2>1, <2>2
    <2>5. tabs[k].path \in excused \cup {NoPath}
      BY <2>3, <2>4 DEF EditorInv, OneTabEach
    <2> QED BY <2>1, <2>5
  <1>9. KnowsOpen'
    <2> SUFFICES ASSUME NEW a \in 1 .. Len(tabs) - 1, tabs'[a].path \notin excused' \cup {NoPath}
                 PROVE  watch'[tabs'[a].path] # "off"
      BY <1>3 DEF KnowsOpen
    <2>1. PICK k \in 1 .. Len(tabs) : k # i /\ tabs'[a] = tabs[k]
      BY <1>7
    <2>2. w[tabs[k].path] # "off"
      BY <2>1
    <2>3. tabs[k].path # tabs[i].path
      BY <2>1 DEF EditorInv, OneTabEach
    <2>4. tabs[k].path \in ScriptPaths
      BY <1>5, <2>1 DEF Paths
    <2> QED BY <1>6, <2>1, <2>2, <2>3, <2>4
  <1> QED BY <1>3, <1>4, <1>6, <1>8, <1>9

\* A tab is written to a file, or fails to be.
LEMMA WritesTab ==
  ASSUME EditorInv, NEW i \in 1 .. Len(tabs), NEW path \in ScriptPaths, NEW done \in BOOLEAN,
         Writes(i, path, done)
  PROVE  /\ tabs' \in Seq(EditorTab) /\ Len(tabs') = Len(tabs) /\ watch' \in Watches
         /\ disk' \in [ScriptPaths -> Files] /\ OneTabEach' /\ KnowsOpen'
         /\ \A j \in 1 .. Len(tabs) :
              /\ tabs'[j].number = tabs[j].number
              /\ tabs'[j] = tabs[j] \/ (j = i /\ done /\ disk'[path] = tabs[j].text)
  <1>1. /\ tabs \in Seq(EditorTab) /\ watch \in Watches /\ disk \in [ScriptPaths -> Files]
        /\ Len(tabs) \in Nat /\ path # NoPath
    BY ScriptAssumption DEF EditorInv, EditorTypeOK, Watches, Files
  <1>2. \A j \in 1 .. Len(tabs) : tabs[j].path \in Paths /\ tabs[j].text \in ScriptTexts
    <2>1. \A j \in 1 .. Len(tabs) : tabs[j] \in EditorTab
      BY <1>1
    <2> QED BY <2>1 DEF EditorTab
  <1>3. /\ disk' \in [ScriptPaths -> Files]
        /\ done => disk'[path] = tabs[i].text /\ disk'[path] # NoFile
        /\ ~done => disk' = disk
    BY <1>1, <1>2, ScriptAssumption DEF Writes, Files
  <1>4. /\ tabs' \in Seq(EditorTab) /\ Len(tabs') = Len(tabs)
        /\ \A j \in 1 .. Len(tabs) :
             /\ tabs'[j].number = tabs[j].number
             /\ tabs'[j] = tabs[j] \/ (j = i /\ done)
             /\ tabs'[j].path = IF j = i /\ done THEN path ELSE tabs[j].path
    <2>1. CASE done
      <3>1. tabs' = TabsSaved(tabs, i, path) /\ path \in Paths
        BY <2>1 DEF Writes, TabsSaved, Paths
      <3> QED BY <1>1, <2>1, <3>1, TabSaved
    <2>2. CASE ~done
      <3>1. tabs' = tabs
        BY <2>2 DEF Writes
      <3> QED BY <1>1, <2>2, <3>1, Zenon
    <2> QED BY <2>1, <2>2
  <1> DEFINE again == AddPath(RemovePath(watch, path), IF done THEN disk' ELSE disk, path)
  <1>5. /\ again \in Watches
        /\ disk'[path] # NoFile => again[path] # "off"
        /\ \A q \in ScriptPaths \ {path} : watch[q] # "off" => again[q] # "off"
    <2>1. RemovePath(watch, path) \in Watches
      BY <1>1, Watching
    <2>2. \A q \in ScriptPaths \ {path} : RemovePath(watch, path)[q] = watch[q]
      BY <1>1, Watching
    <2>3. (IF done THEN disk' ELSE disk) = disk'
      BY <1>3
    <2>4. again = AddPath(RemovePath(watch, path), disk', path)
      BY <2>3
    <2> QED BY <2>1, <2>2, <2>4, Watching
  <1>6. watch' = IF done /\ tabs[i].path \notin {NoPath, path}
                 THEN RemovePath(again, tabs[i].path) ELSE again
    BY DEF Writes, SavedWatch
  <1> HIDE DEF again
  <1>7. /\ watch' \in Watches
        /\ \A q \in ScriptPaths :
             again[q] # "off" /\ (done /\ tabs[i].path # path => q # tabs[i].path) => watch'[q] # "off"
    <2>1. CASE done /\ tabs[i].path \notin {NoPath, path}
      <3>1. tabs[i].path \in ScriptPaths
        BY <1>2, <2>1 DEF Paths
      <3> QED BY <1>5, <1>6, <2>1, <3>1, Watching
    <2>2. CASE ~(done /\ tabs[i].path \notin {NoPath, path})
      BY <1>5, <1>6, <2>2
    <2> QED BY <2>1, <2>2
  <1>8. /\ path \notin excused' => /\ disk'[path] # NoFile
                                   /\ \A j \in 1 .. Len(tabs) : j # i => tabs[j].path # path
        /\ \A q : q # path => (q \in excused' <=> q \in excused)
    BY <1>1 DEF Writes, Tabs, Positions
  <1>9. OneTabEach'
    <2> SUFFICES ASSUME NEW a \in 1 .. Len(tabs), NEW b \in 1 .. Len(tabs), a # b,
                        tabs'[a].path = tabs'[b].path, tabs'[a].path \notin excused'
                 PROVE  tabs'[a].path = NoPath
      BY <1>4 DEF OneTabEach
    <2>1. CASE tabs'[a].path = path
      BY <1>4, <1>8, <2>1
    <2>2. CASE tabs'[a].path # path
      <3>1. tabs'[a].path = tabs[a].path /\ tabs'[b].path = tabs[b].path
        BY <1>4, <2>2
      <3>2. tabs[a].path \notin excused
        BY <1>8, <2>2, <3>1
      <3> QED BY <3>1, <3>2 DEF EditorInv, OneTabEach
    <2> QED BY <2>1, <2>2
  <1>10. KnowsOpen'
    <2> SUFFICES ASSUME NEW a \in 1 .. Len(tabs), tabs'[a].path \notin excused' \cup {NoPath}
                 PROVE  watch'[tabs'[a].path] # "off"
      BY <1>4 DEF KnowsOpen
    <2>1. CASE tabs'[a].path = path
      BY <1>5, <1>7, <1>8, <2>1
    <2>2. CASE tabs'[a].path # path
      <3>1. tabs'[a].path = tabs[a].path /\ ~(a = i /\ done)
        BY <1>4, <2>2
      <3>2. tabs[a].path \in ScriptPaths /\ tabs[a].path \notin excused
        BY <1>2, <1>8, <2>2, <3>1 DEF Paths
      <3>3. watch[tabs[a].path] # "off"
        BY <3>1, <3>2 DEF EditorInv, KnowsOpen
      <3>4. again[tabs[a].path] # "off"
        BY <1>5, <2>2, <3>1, <3>2, <3>3
      <3>5. done => tabs[a].path # tabs[i].path
        BY <3>1, <3>2 DEF EditorInv, OneTabEach
      <3> QED BY <1>7, <3>1, <3>2, <3>4, <3>5
    <2> QED BY <2>1, <2>2
  <1>11. ASSUME NEW j \in 1 .. Len(tabs)
         PROVE  /\ tabs'[j].number = tabs[j].number
                /\ tabs'[j] = tabs[j] \/ (j = i /\ done /\ disk'[path] = tabs[j].text)
    <2>1. tabs'[j].number = tabs[j].number /\ (tabs'[j] = tabs[j] \/ (j = i /\ done))
      BY <1>4, Zenon
    <2>2. CASE tabs'[j] = tabs[j]
      BY <2>1, <2>2, Zenon
    <2>3. CASE j = i /\ done
      <3>1. disk'[path] = tabs[j].text
        BY <1>3, <2>3
      <3> QED BY <2>1, <2>3, <3>1, Zenon
    <2> QED BY <2>1, <2>2, <2>3, Zenon
  <1> QED BY <1>3, <1>4, <1>7, <1>9, <1>10, <1>11

\* A question is answered: the others stay open.
LEMMA AskedFront ==
  ASSUME asks \in Seq(Asked), asks # << >>
  PROVE  /\ Front(asks) \in Seq(Asked) /\ Len(Front(asks)) = Len(asks) - 1
         /\ \A k \in 1 .. Len(asks) - 1 : Front(asks)[k] = asks[k]
         /\ Last(asks) = asks[Len(asks)] /\ Len(asks) \in 1 .. Len(asks)
  <1>1. Len(asks) \in Nat /\ Len(asks) >= 1
    BY EmptySeq
  <1>2. \A k \in 1 .. Len(asks) - 1 : asks[k] \in Asked
    BY <1>1
  <1>3. Front(asks) = SubSeq(asks, 1, Len(asks) - 1) /\ Last(asks) = asks[Len(asks)]
    BY DEF Front, Last
  <1>4. /\ SubSeq(asks, 1, Len(asks) - 1) \in Seq(Asked)
        /\ Len(SubSeq(asks, 1, Len(asks) - 1)) = Len(asks) - 1
        /\ \A k \in 1 .. Len(asks) - 1 : SubSeq(asks, 1, Len(asks) - 1)[k] = asks[k]
    <2>1. PICK n \in Nat : n = Len(asks) - 1
      BY <1>1
    <2>2. \A k \in 1 .. n : asks[k] \in Asked
      BY <1>2, <2>1
    <2>3. /\ SubSeq(asks, 1, n) \in Seq(Asked)
          /\ Len(SubSeq(asks, 1, n)) = IF 1 <= n THEN n - 1 + 1 ELSE 0
          /\ \A k \in 1 .. n - 1 + 1 : SubSeq(asks, 1, n)[k] = asks[1 + k - 1]
      BY <2>1, <2>2, SubSeqProperties
    <2>4. Len(SubSeq(asks, 1, n)) = n /\ \A k \in 1 .. n : SubSeq(asks, 1, n)[k] = asks[k]
      BY <2>1, <2>3
    <2> QED BY <2>1, <2>3, <2>4
  <1> QED BY <1>1, <1>3, <1>4

\* What NothingLostUnasked says of a step: of the tabs, and of the library.
KeepsTexts ==
  \A i \in 1 .. Len(tabs) : tabs[i].modified =>
    \/ \E j \in 1 .. Len(tabs') : tabs'[j].number = tabs[i].number /\ tabs'[j].modified
    \/ said' = "save" /\ \E p \in ScriptPaths : disk'[p] = tabs[i].text
    \/ said' \in {"discard", "reload"}

KeepsFiles ==
  \A p \in ScriptPaths : Exists(p) /\ disk'[p] # disk[p] => said' \in {"save", "delete", "outside"}

EditorKept == EditorInv' /\ KeepsTexts /\ KeepsFiles

\* A step that leaves the tabs and what is known of their files.
LEMMA TabsStay ==
  ASSUME EditorInv, UNCHANGED <<disk, watch, tabs, excused, opened>>,
         current' \in 0 .. Len(tabs), asks' \in Seq(Asked),
         \A k \in 1 .. Len(asks') : asks'[k].kind = "reload" => asks'[k].text \in ScriptTexts
  PROVE  EditorKept
  <1>1. EditorTypeOK'
    BY DEF EditorInv, EditorTypeOK
  <1>2. OneTabEach' /\ KnowsOpen'
    BY DEF EditorInv, OneTabEach, KnowsOpen
  <1>3. KeepsTexts
    BY DEF KeepsTexts
  <1>4. KeepsFiles
    BY DEF KeepsFiles
  <1> QED BY <1>1, <1>2, <1>3, <1>4 DEF EditorKept, EditorInv

\* One question more.
LEMMA AsksAlso ==
  ASSUME EditorInv, NEW q \in Asked, q.kind = "reload" => q.text \in ScriptTexts,
         asks' = Append(asks, q)
  PROVE  /\ asks' \in Seq(Asked)
         /\ \A k \in 1 .. Len(asks') : asks'[k].kind = "reload" => asks'[k].text \in ScriptTexts
  <1>1. /\ asks \in Seq(Asked) /\ Len(asks) \in Nat
        /\ \A k \in 1 .. Len(asks) : asks[k].kind = "reload" => asks[k].text \in ScriptTexts
    BY DEF EditorInv, EditorTypeOK
  <1>2. /\ asks' \in Seq(Asked) /\ Len(asks') = Len(asks) + 1
        /\ \A k \in 1 .. Len(asks) : asks'[k] = asks[k]
        /\ asks'[Len(asks) + 1] = q
    BY <1>1, AppendedIs
  <1>3. ASSUME NEW k \in 1 .. Len(asks'), asks'[k].kind = "reload"
        PROVE  asks'[k].text \in ScriptTexts
    <2>1. CASE k \in 1 .. Len(asks)
      BY <1>1, <1>2, <1>3, <2>1
    <2>2. CASE k = Len(asks) + 1
      BY <1>2, <1>3, <2>2
    <2> QED BY <1>1, <1>2, <2>1, <2>2
  <1> QED BY <1>2, <1>3

\* One question less.
LEMMA AsksLess ==
  ASSUME EditorInv, asks # << >>, Answered
  PROVE  /\ asks' \in Seq(Asked)
         /\ \A k \in 1 .. Len(asks') : asks'[k].kind = "reload" => asks'[k].text \in ScriptTexts
         /\ Last(asks).kind = "reload" => Last(asks).text \in ScriptTexts
  <1>1. /\ asks \in Seq(Asked) /\ Len(asks) \in Nat
        /\ \A k \in 1 .. Len(asks) : asks[k].kind = "reload" => asks[k].text \in ScriptTexts
    BY DEF EditorInv, EditorTypeOK
  <1>2. /\ asks' \in Seq(Asked) /\ Len(asks') = Len(asks) - 1
        /\ \A k \in 1 .. Len(asks) - 1 : asks'[k] = asks[k]
        /\ Last(asks) = asks[Len(asks)] /\ Len(asks) \in 1 .. Len(asks)
    BY <1>1, AskedFront DEF Answered
  <1>3. ASSUME NEW k \in 1 .. Len(asks'), asks'[k].kind = "reload"
        PROVE  asks'[k].text \in ScriptTexts
    <2>1. k \in 1 .. Len(asks) /\ asks'[k] = asks[k]
      BY <1>1, <1>2
    <2> QED BY <1>1, <1>3, <2>1
  <1> QED BY <1>1, <1>2, <1>3

\* A tab is closed with what it says kept, lost as the user said, or unmodified.
LEMMA RemovalKept ==
  ASSUME EditorInv, NEW i \in 1 .. Len(tabs), NEW w \in Watches, NEW d \in [ScriptPaths -> Files],
         Removes(i, w, tabs, d), excused \subseteq excused',
         \A j \in 1 .. Len(tabs) :
           j # i /\ tabs[j].path \notin excused' \cup {NoPath} => w[tabs[j].path] # "off",
         tabs[i].modified =>
           \/ said' = "save" /\ \E p \in ScriptPaths : disk'[p] = tabs[i].text
           \/ said' \in {"discard", "reload"},
         asks' \in Seq(Asked), opened' = opened,
         \A k \in 1 .. Len(asks') : asks'[k].kind = "reload" => asks'[k].text \in ScriptTexts
  PROVE  EditorInv' /\ KeepsTexts /\ disk' = d
  <1>1. /\ tabs' \in Seq(EditorTab) /\ current' \in 0 .. Len(tabs') /\ watch' \in Watches
        /\ OneTabEach' /\ KnowsOpen' /\ Len(tabs') = Len(tabs) - 1
        /\ \A j \in 1 .. Len(tabs) - 1 : tabs'[j] = IF j < i THEN tabs[j] ELSE tabs[j + 1]
    BY RemovesTab
  <1>2. disk' = d
    BY DEF Removes
  <1>3. EditorTypeOK'
    BY <1>1, <1>2 DEF EditorInv, EditorTypeOK, Watches, Files
  <1>4. KeepsTexts
    <2> SUFFICES ASSUME NEW j \in 1 .. Len(tabs), j # i
                 PROVE  \E k \in 1 .. Len(tabs') : tabs'[k] = tabs[j]
      BY DEF KeepsTexts
    <2>1. Len(tabs) \in Nat
      BY DEF EditorInv, EditorTypeOK
    <2>2. CASE j < i
      <3>1. j \in 1 .. Len(tabs')
        BY <1>1, <2>1, <2>2
      <3> QED BY <1>1, <2>2, <3>1
    <2>3. CASE j > i
      <3>1. j - 1 \in 1 .. Len(tabs') /\ ~(j - 1 < i) /\ j - 1 + 1 = j
        BY <1>1, <2>1, <2>3
      <3> QED BY <1>1, <3>1
    <2> QED BY <2>1, <2>2, <2>3
  <1> QED BY <1>1, <1>2, <1>3, <1>4 DEF EditorInv

\* closeTab.
LEMMA CloseTabKept ==
  ASSUME EditorInv, NEW i \in 1 .. Len(tabs), closeTab(i), UNCHANGED <<opened, excused>>
  PROVE  EditorKept
  <1>1. /\ tabs \in Seq(EditorTab) /\ watch \in Watches /\ disk \in [ScriptPaths -> Files]
        /\ Len(tabs) \in Nat /\ asks \in Seq(Asked)
        /\ \A k \in 1 .. Len(asks) : asks[k].kind = "reload" => asks[k].text \in ScriptTexts
    BY DEF EditorInv, EditorTypeOK, Watches, Files
  <1>2. CASE tabs[i].modified
    <2> DEFINE q == [kind |-> "close", number |-> tabs[i].number, text |-> NoFile]
    <2>1. tabs[i].number \in Nat
      <3>1. tabs[i] \in EditorTab
        BY <1>1
      <3> QED BY <3>1 DEF EditorTab
    <2>2. q \in Asked /\ q.kind # "reload"
      BY <2>1 DEF Asked
    <2>3. /\ asks' = Append(asks, q) /\ current' = i
          /\ UNCHANGED <<disk, watch, tabs, excused, opened>>
      BY <1>2 DEF closeTab
    <2> HIDE DEF q
    <2>4. /\ asks' \in Seq(Asked)
          /\ \A k \in 1 .. Len(asks') : asks'[k].kind = "reload" => asks'[k].text \in ScriptTexts
      BY <2>2, <2>3, AsksAlso
    <2>5. current' \in 0 .. Len(tabs)
      BY <1>1, <2>3
    <2> QED BY <2>3, <2>4, <2>5, TabsStay
  <1>3. CASE ~tabs[i].modified
    <2>1. Removes(i, watch, tabs, disk) /\ UNCHANGED <<asks, opened, excused>>
      BY <1>3 DEF closeTab
    <2>2. \A j \in 1 .. Len(tabs) :
            j # i /\ tabs[j].path \notin excused' \cup {NoPath} => watch[tabs[j].path] # "off"
      BY <2>1 DEF EditorInv, KnowsOpen
    <2>3. EditorInv' /\ KeepsTexts /\ disk' = disk
      BY <1>1, <1>3, <2>1, <2>2, RemovalKept
    <2>4. KeepsFiles
      BY <2>3 DEF KeepsFiles
    <2> QED BY <2>3, <2>4 DEF EditorKept
  <1> QED BY <1>2, <1>3

\* The watcher is told of a file.
LEMMA ToldIs ==
  ASSUME watch \in Watches, NEW p \in ScriptPaths, NEW event \in {"changed", "removed"},
         Told(p, event)
  PROVE  watch' \in Watches /\ \A q \in ScriptPaths : watch[q] # "off" => watch'[q] # "off"
  BY DEF Told, Watches

\* The types, as the actions need them, and what is left as it is.
LEMMA EditorParts ==
  ASSUME EditorInv
  PROVE  /\ tabs \in Seq(EditorTab) /\ Len(tabs) \in Nat /\ current \in 0 .. Len(tabs)
         /\ watch \in Watches /\ disk \in [ScriptPaths -> Files]
         /\ asks \in Seq(Asked) /\ opened \in Nat
         /\ \A k \in 1 .. Len(asks) : asks[k].kind = "reload" => asks[k].text \in ScriptTexts
         /\ \A j \in 1 .. Len(tabs) : tabs[j].path \in Paths /\ tabs[j].text \in ScriptTexts
         /\ Positions = 1 .. Len(tabs)
  <1>1. /\ tabs \in Seq(EditorTab) /\ Len(tabs) \in Nat /\ current \in 0 .. Len(tabs)
        /\ watch \in Watches /\ disk \in [ScriptPaths -> Files]
        /\ asks \in Seq(Asked) /\ opened \in Nat
        /\ \A k \in 1 .. Len(asks) : asks[k].kind = "reload" => asks[k].text \in ScriptTexts
    <2>1. EditorTypeOK
      BY DEF EditorInv
    <2>2. tabs \in Seq(EditorTab) /\ Len(tabs) \in Nat
      BY <2>1 DEF EditorTypeOK
    <2>3. watch \in Watches /\ disk \in [ScriptPaths -> Files]
      BY <2>1, Zenon DEF EditorTypeOK, Watches, Files
    <2>4. /\ current \in 0 .. Len(tabs) /\ asks \in Seq(Asked) /\ opened \in Nat
          /\ \A k \in 1 .. Len(asks) : asks[k].kind = "reload" => asks[k].text \in ScriptTexts
      BY <2>1, Zenon DEF EditorTypeOK
    <2> QED BY <2>2, <2>3, <2>4, Zenon
  <1>2. \A j \in 1 .. Len(tabs) : tabs[j] \in EditorTab
    BY <1>1
  <1>3. \A j \in 1 .. Len(tabs) : tabs[j].path \in Paths /\ tabs[j].text \in ScriptTexts
    BY <1>2 DEF EditorTab
  <1> QED BY <1>1, <1>3 DEF Positions

\* The types of the next state, where a step keeps them.
LEMMA TypesFollow ==
  ASSUME EditorInv, tabs' \in Seq(EditorTab), current' \in 0 .. Len(tabs'), watch' \in Watches,
         disk' \in [ScriptPaths -> Files], asks' \in Seq(Asked), opened' \in Nat,
         \A k \in 1 .. Len(asks') : asks'[k].kind = "reload" => asks'[k].text \in ScriptTexts,
         OneTabEach', KnowsOpen'
  PROVE  EditorInv'
  BY DEF EditorInv, EditorTypeOK, Watches, Files

\* What the user typed stays where every tab goes on as it was or is saved.
LEMMA TextsStay ==
  ASSUME Len(tabs) \in Nat, Len(tabs') \in Nat, Len(tabs') >= Len(tabs),
         \A j \in 1 .. Len(tabs) : /\ tabs'[j].number = tabs[j].number
                                   /\ tabs[j].modified => tabs'[j].modified
  PROVE  KeepsTexts
  BY DEF KeepsTexts

\* Another program changes a file.
LEMMA OutsideKept ==
  ASSUME EditorInv, NEW p \in ScriptPaths, NEW says \in Files, ChangedOutside(p, says)
  PROVE  EditorKept
  <1>1. /\ disk' = [disk EXCEPT ![p] = says] /\ said' = "outside"
        /\ UNCHANGED <<tabs, current, asks, opened, excused>>
    BY DEF ChangedOutside
  <1>2. watch' \in Watches /\ \A q \in ScriptPaths : watch[q] # "off" => watch'[q] # "off"
    <2>1. CASE UNCHANGED watch
      BY <2>1, EditorParts
    <2>2. CASE Told(p, "removed") \/ Told(p, "changed")
      BY <2>2, EditorParts, ToldIs
    <2> QED BY <2>1, <2>2 DEF ChangedOutside
  <1>3. disk' \in [ScriptPaths -> Files]
    BY <1>1, EditorParts
  <1>4. \A j \in 1 .. Len(tabs) :
          tabs[j].path \notin excused' \cup {NoPath} /\ watch[tabs[j].path] # "off" =>
            watch'[tabs[j].path] # "off"
    BY <1>2, EditorParts DEF Paths
  <1>5. OneTabEach' /\ KnowsOpen'
    BY <1>1, <1>4, SamePaths
  <1>6. EditorInv'
    BY <1>1, <1>2, <1>3, <1>5, EditorParts, TypesFollow
  <1>7. KeepsTexts
    BY <1>1 DEF KeepsTexts
  <1>8. KeepsFiles
    BY <1>1 DEF KeepsFiles
  <1> QED BY <1>6, <1>7, <1>8 DEF EditorKept

\* A tab is opened: on a file of the library, untitled, or on a new file.
LEMMA OpeningKept ==
  ASSUME EditorInv,
         \/ newScript
         \/ \E p \in ScriptPaths : EditScript(p) \/ onNewScript(p)
  PROVE  EditorKept
  <1> DEFINE Grows == /\ tabs' \in Seq(EditorTab) /\ current' \in 0 .. Len(tabs') /\ watch' \in Watches
                      /\ opened' \in Nat /\ OneTabEach' /\ KnowsOpen'
                      /\ Len(tabs') \in Nat /\ Len(tabs') >= Len(tabs)
                      /\ \A j \in 1 .. Len(tabs) : tabs'[j] = tabs[j]
  <1>1. ASSUME Grows, disk' \in [ScriptPaths -> Files], asks' = asks, KeepsFiles
        PROVE  EditorKept
    <2>1. EditorInv'
      BY <1>1, EditorParts, TypesFollow
    <2>2. KeepsTexts
      BY <1>1, EditorParts, TextsStay
    <2> QED BY <1>1, <2>1, <2>2 DEF EditorKept
  <1>2. CASE newScript
    <2>1. addTab(NoPath, Template, disk) /\ UNCHANGED <<disk, asks>>
      BY <1>2 DEF newScript
    <2>2. NoPath \in Paths /\ Template \in ScriptTexts
      BY ScriptAssumption DEF Paths
    <2>3. /\ tabs' \in Seq(EditorTab) /\ current' \in 0 .. Len(tabs') /\ watch' \in Watches
          /\ opened' \in Nat /\ OneTabEach' /\ KnowsOpen'
          /\ Len(tabs') = Len(tabs) + 1 /\ \A j \in 1 .. Len(tabs) : tabs'[j] = tabs[j]
      BY <2>1, <2>2, AddsTab
    <2>4. Len(tabs') \in Nat /\ Len(tabs') >= Len(tabs)
      BY <2>3, EditorParts
    <2>5. KeepsFiles
      BY <2>1 DEF KeepsFiles
    <2> QED BY <1>1, <2>1, <2>3, <2>4, <2>5, EditorParts
  <1>3. ASSUME NEW p \in ScriptPaths, EditScript(p)
        PROVE  EditorKept
    <2>1. disk[p] # NoFile /\ openFile(p, disk) /\ UNCHANGED <<disk, asks>>
      BY <1>3 DEF EditScript, Exists
    <2>2. disk[p] \in ScriptTexts
      BY <2>1, EditorParts DEF Files
    <2>3. Grows
      BY <2>1, <2>2, OpensFile
    <2>4. KeepsFiles
      BY <2>1 DEF KeepsFiles
    <2> QED BY <1>1, <2>1, <2>3, <2>4, EditorParts
  <1>4. ASSUME NEW p \in ScriptPaths, onNewScript(p)
        PROVE  EditorKept
    <2>1. /\ disk' = [disk EXCEPT ![p] = Template] /\ openFile(p, disk') /\ ~Exists(p)
          /\ UNCHANGED asks
      BY <1>4 DEF onNewScript, Free
    <2>2. disk'[p] \in ScriptTexts /\ disk' \in [ScriptPaths -> Files]
      BY <2>1, EditorParts, ScriptAssumption DEF Files
    <2>3. Grows
      BY <2>1, <2>2, OpensFile
    <2>4. KeepsFiles
      BY <2>1, EditorParts DEF KeepsFiles
    <2> QED BY <1>1, <2>1, <2>2, <2>3, <2>4
  <1> QED BY <1>2, <1>3, <1>4

\* A tab's text changes, and it is told so: it is typed in, or reloaded.
LEMMA EditingIs ==
  ASSUME EditorInv, NEW i, NEW t \in ScriptTexts, NEW b \in BOOLEAN,
         tabs' = TabsEdited(tabs, i, t, b)
  PROVE  /\ tabs' \in Seq(EditorTab) /\ Len(tabs') = Len(tabs)
         /\ \A j \in 1 .. Len(tabs) : tabs'[j].path = tabs[j].path /\ tabs'[j].number = tabs[j].number
         /\ \A j \in 1 .. Len(tabs) : (j = i /\ (tabs'[j].modified <=> b)) \/ (j # i /\ tabs'[j] = tabs[j])
  <1>1. tabs \in Seq(EditorTab)
    BY EditorParts
  <1>2. /\ tabs' \in Seq(EditorTab) /\ Len(tabs') = Len(tabs)
        /\ \A j \in 1 .. Len(tabs) : /\ tabs'[j].path = tabs[j].path /\ tabs'[j].number = tabs[j].number
                                     /\ (j = i /\ (tabs'[j].modified <=> b)) \/ (j # i /\ tabs'[j] = tabs[j])
    <2> DEFINE r == TabsEdited(tabs, i, t, b)
    <2>1. r = TabsEdited(tabs, i, t, b) /\ r = tabs'
      OBVIOUS
    <2> HIDE DEF r
    <2>2. /\ r \in Seq(EditorTab) /\ Len(r) = Len(tabs)
          /\ \A j \in 1 .. Len(tabs) : /\ r[j].path = tabs[j].path /\ r[j].number = tabs[j].number
                                       /\ (j = i /\ (r[j].modified <=> b)) \/ (j # i /\ r[j] = tabs[j])
      BY <1>1, <2>1, TabEdited
    <2> QED BY <2>1, <2>2, Zenon
  <1> QED BY <1>2, Zenon

\* The user types.
LEMMA TypeKept ==
  ASSUME EditorInv, NEW says \in ScriptTexts, Type(says)
  PROVE  EditorKept
  <1>1. /\ tabs' = TabsEdited(tabs, current, says, TRUE)
        /\ UNCHANGED <<disk, watch, current, asks, opened, excused>>
    BY DEF Type, TabsEdited
  <1>2. /\ tabs' \in Seq(EditorTab) /\ Len(tabs') = Len(tabs)
        /\ \A j \in 1 .. Len(tabs) : tabs'[j].path = tabs[j].path /\ tabs'[j].number = tabs[j].number
        /\ \A j \in 1 .. Len(tabs) :
             (j = current /\ tabs'[j].modified) \/ (j # current /\ tabs'[j] = tabs[j])
    <2>1. PICK b \in BOOLEAN : b = TRUE
      OBVIOUS
    <2>2. tabs' = TabsEdited(tabs, current, says, b)
      BY <1>1, <2>1
    <2>3. /\ tabs' \in Seq(EditorTab) /\ Len(tabs') = Len(tabs)
          /\ \A j \in 1 .. Len(tabs) : tabs'[j].path = tabs[j].path /\ tabs'[j].number = tabs[j].number
          /\ \A j \in 1 .. Len(tabs) :
               (j = current /\ (tabs'[j].modified <=> b)) \/ (j # current /\ tabs'[j] = tabs[j])
      BY <2>2, EditingIs
    <2> QED BY <2>1, <2>3, Zenon
  <1>3. OneTabEach' /\ KnowsOpen'
    BY <1>1, <1>2, SamePaths
  <1>4. EditorInv'
    BY <1>1, <1>2, <1>3, EditorParts, TypesFollow
  <1>5. KeepsTexts
    <2>1. \A j \in 1 .. Len(tabs) : tabs[j].modified => tabs'[j].modified
      BY <1>2
    <2>2. Len(tabs') \in Nat /\ Len(tabs) \in Nat /\ Len(tabs') >= Len(tabs)
      BY <1>2, EditorParts
    <2> QED BY <1>2, <2>1, <2>2, TextsStay
  <1>6. KeepsFiles
    BY <1>1 DEF KeepsFiles
  <1> QED BY <1>4, <1>5, <1>6 DEF EditorKept

\* A step of the user that only shows or asks.
LEMMA AskingKept ==
  ASSUME EditorInv,
         \/ CloseAll \/ CloseAllGoesOn
         \/ \E i \in Positions : ShowTab(i) \/ RequestCloseTab(i) \/ AnswerCancel(i)
  PROVE  EditorKept
  <1>1. CASE CloseAll
    <2>1. UNCHANGED <<disk, watch, tabs, current, asks, excused, opened>>
      BY <1>1 DEF CloseAll
    <2> QED BY <2>1, EditorParts, TabsStay
  <1>2. CASE CloseAllGoesOn
    <2>1. CASE tabs = << >>
      <3>1. UNCHANGED <<disk, watch, tabs, current, asks, excused, opened>>
        BY <1>2, <2>1 DEF CloseAllGoesOn
      <3> QED BY <3>1, EditorParts, TabsStay
    <2>2. CASE tabs # << >>
      <3>1. closeTab(Len(tabs)) /\ UNCHANGED <<opened, excused>>
        BY <1>2, <2>2 DEF CloseAllGoesOn
      <3>2. Len(tabs) \in 1 .. Len(tabs)
        BY <2>2, EditorParts, EmptySeq
      <3> QED BY <3>1, <3>2, CloseTabKept
    <2> QED BY <2>1, <2>2
  <1>3. ASSUME NEW i \in Positions, ShowTab(i)
        PROVE  EditorKept
    <2>1. UNCHANGED <<disk, watch, tabs, asks, excused, opened>> /\ current' = i
      BY <1>3 DEF ShowTab
    <2>2. current' \in 0 .. Len(tabs)
      BY <2>1, EditorParts
    <2> QED BY <2>1, <2>2, EditorParts, TabsStay
  <1>4. ASSUME NEW i \in Positions, RequestCloseTab(i)
        PROVE  EditorKept
    <2>1. closeTab(i) /\ UNCHANGED <<opened, excused>> /\ i \in 1 .. Len(tabs)
      BY <1>4, EditorParts DEF RequestCloseTab
    <2> QED BY <2>1, CloseTabKept
  <1>5. ASSUME NEW i \in Positions, AnswerCancel(i)
        PROVE  EditorKept
    <2>1. /\ UNCHANGED <<disk, watch, tabs, current, excused, opened>>
          /\ asks # << >> /\ Answered
      BY <1>5 DEF AnswerCancel, AskedToClose
    <2> QED BY <2>1, EditorParts, AsksLess, TabsStay
  <1> QED BY <1>1, <1>2, <1>3, <1>4, <1>5

\* A tab is written, or fails to be, and the user is told.
LEMMA WritingKept ==
  ASSUME EditorInv, NEW i \in 1 .. Len(tabs), NEW path \in ScriptPaths, NEW done \in BOOLEAN,
         Writes(i, path, done), said' = "save", UNCHANGED <<current, opened>>,
         asks' \in Seq(Asked),
         \A k \in 1 .. Len(asks') : asks'[k].kind = "reload" => asks'[k].text \in ScriptTexts
  PROVE  EditorKept
  <1>1. /\ tabs' \in Seq(EditorTab) /\ Len(tabs') = Len(tabs) /\ watch' \in Watches
        /\ disk' \in [ScriptPaths -> Files] /\ OneTabEach' /\ KnowsOpen'
        /\ \A j \in 1 .. Len(tabs) :
             /\ tabs'[j].number = tabs[j].number
             /\ tabs'[j] = tabs[j] \/ (j = i /\ done /\ disk'[path] = tabs[j].text)
    BY WritesTab
  <1>2. EditorInv'
    BY <1>1, EditorParts, TypesFollow
  <1>3. KeepsTexts
    BY <1>1 DEF KeepsTexts
  <1>4. KeepsFiles
    BY DEF KeepsFiles
  <1> QED BY <1>2, <1>3, <1>4 DEF EditorKept

\* The user saves, under a name or for a run.
LEMMA SavingKept ==
  ASSUME EditorInv, NEW p \in ScriptPaths, NEW done \in BOOLEAN,
         SaveTab(p, done) \/ SaveTabAs(p, done) \/ runCurrent(p, done)
  PROVE  EditorKept
  <1>1. /\ Writes(current, p, done) /\ said' = "save" /\ current # 0
        /\ UNCHANGED <<current, asks, opened>>
    BY DEF SaveTab, SaveTabAs, runCurrent, Saves
  <1>2. current \in 1 .. Len(tabs)
    BY <1>1, EditorParts
  <1> QED BY <1>1, <1>2, EditorParts, WritingKept

\* The user answers what becomes of a modified tab that is closed.
LEMMA ClosingKept ==
  ASSUME EditorInv, NEW i \in 1 .. Len(tabs),
         \/ AnswerDiscard(i)
         \/ \E p \in ScriptPaths, done \in BOOLEAN : AnswerSave(i, p, done)
  PROVE  EditorKept
  <1>1. CASE AnswerDiscard(i)
    <2>1. /\ asks # << >> /\ Answered /\ Removes(i, watch, tabs, disk) /\ said' = "discard"
          /\ UNCHANGED <<opened, excused>>
      BY <1>1 DEF AnswerDiscard, AskedToClose
    <2>2. \A j \in 1 .. Len(tabs) :
            j # i /\ tabs[j].path \notin excused' \cup {NoPath} => watch[tabs[j].path] # "off"
      BY <2>1 DEF EditorInv, KnowsOpen
    <2>3. /\ asks' \in Seq(Asked)
          /\ \A k \in 1 .. Len(asks') : asks'[k].kind = "reload" => asks'[k].text \in ScriptTexts
      BY <2>1, AsksLess
    <2>4. EditorInv' /\ KeepsTexts /\ disk' = disk
      BY <2>1, <2>2, <2>3, EditorParts, RemovalKept
    <2>5. KeepsFiles
      BY <2>4 DEF KeepsFiles
    <2> QED BY <2>4, <2>5 DEF EditorKept
  <1>2. ASSUME NEW p \in ScriptPaths, NEW done \in BOOLEAN, AnswerSave(i, p, done)
        PROVE  EditorKept
    <2>1. /\ asks # << >> /\ Answered /\ said' = "save" /\ tabs[i].path \in {NoPath, p}
          /\ UNCHANGED opened
      BY <1>2 DEF AnswerSave, AskedToClose
    <2>2. /\ asks' \in Seq(Asked)
          /\ \A k \in 1 .. Len(asks') : asks'[k].kind = "reload" => asks'[k].text \in ScriptTexts
      BY <2>1, AsksLess
    <2>3. CASE ~done
      <3>1. Writes(i, p, FALSE) /\ UNCHANGED current
        BY <1>2, <2>3 DEF AnswerSave, Saves
      <3>2. FALSE \in BOOLEAN
        OBVIOUS
      <3> QED BY <2>1, <2>2, <3>1, <3>2, WritingKept
    <2>4. CASE done
      <3> DEFINE d == [disk EXCEPT ![p] = tabs[i].text]
                 w == RemovePath(watch, p)
      <3>1. /\ Removes(i, w, tabs, d)
            /\ excused' = IF Tabs(p) \ {i} # {} THEN excused \cup {p} ELSE excused
        BY <1>2, <2>4 DEF AnswerSave
      <3>2. d \in [ScriptPaths -> Files] /\ d[p] = tabs[i].text
        BY EditorParts DEF Files
      <3>3. w \in Watches /\ \A q \in ScriptPaths \ {p} : w[q] = watch[q]
        BY EditorParts, Watching
      <3>4. ASSUME NEW j \in 1 .. Len(tabs), j # i, tabs[j].path \notin excused' \cup {NoPath}
            PROVE  w[tabs[j].path] # "off"
        <4>1. tabs[j].path # p
          BY <3>1, <3>4, EditorParts DEF Tabs
        <4>2. tabs[j].path \in ScriptPaths
          BY <3>4, EditorParts DEF Paths
        <4>3. watch[tabs[j].path] # "off"
          BY <3>1, <3>4 DEF EditorInv, KnowsOpen
        <4> QED BY <3>3, <4>1, <4>2, <4>3
      <3>5. excused \subseteq excused'
        BY <3>1
      <3>6. disk' = d
        BY <3>1 DEF Removes
      <3>7. \E q \in ScriptPaths : disk'[q] = tabs[i].text
        BY <3>2, <3>6
      <3> HIDE DEF d, w
      <3>8. EditorInv' /\ KeepsTexts
        BY <2>1, <2>2, <3>1, <3>2, <3>3, <3>4, <3>5, <3>7, RemovalKept
      <3>9. KeepsFiles
        BY <2>1 DEF KeepsFiles
      <3> QED BY <3>8, <3>9 DEF EditorKept
    <2> QED BY <2>3, <2>4
  <1> QED BY <1>1, <1>2

\* A tab is reloaded.
LEMMA ReloadsIs ==
  ASSUME EditorInv, NEW i, NEW t \in ScriptTexts, Reloads(i, t)
  PROVE  /\ tabs' \in Seq(EditorTab) /\ Len(tabs') = Len(tabs)
         /\ \A j \in 1 .. Len(tabs) : tabs'[j].path = tabs[j].path /\ tabs'[j].number = tabs[j].number
         /\ \A j \in 1 .. Len(tabs) : j = i \/ tabs'[j] = tabs[j]
  <1>1. PICK b \in BOOLEAN : b = FALSE
    OBVIOUS
  <1>2. tabs' = TabsEdited(tabs, i, t, b)
    BY <1>1 DEF Reloads, TabsEdited
  <1>3. /\ tabs' \in Seq(EditorTab) /\ Len(tabs') = Len(tabs)
        /\ \A j \in 1 .. Len(tabs) : tabs'[j].path = tabs[j].path /\ tabs'[j].number = tabs[j].number
        /\ \A j \in 1 .. Len(tabs) :
             (j = i /\ (tabs'[j].modified <=> b)) \/ (j # i /\ tabs'[j] = tabs[j])
    BY <1>2, EditingIs
  <1> QED BY <1>3, Zenon

\* onFileChanged: the watch goes on, the text is reloaded unless it was typed in,
\* when the user is asked.
LEMMA FileChangedKept ==
  ASSUME EditorInv, NEW p \in ScriptPaths, onFileChanged(p)
  PROVE  EditorKept
  <1> DEFINE i == indexOfPath(p)
             w == [watch EXCEPT ![p] = IF @ = "removed" THEN "off" ELSE "on"]
             q == [kind |-> "reload", number |-> tabs[i].number, text |-> disk[p]]
  <1>1. /\ watch' = IF i = 0 THEN w ELSE AddPath(w, disk, p)
        /\ excused' = IF Exists(p) THEN excused ELSE excused \cup {p}
        /\ UNCHANGED <<disk, current, opened>>
    BY DEF onFileChanged, WatchedAgain
  <1>2. \/ UNCHANGED <<tabs, asks>>
        \/ /\ i # 0 /\ Exists(p) /\ asks' = Append(asks, q) /\ UNCHANGED tabs
        \/ /\ i # 0 /\ Exists(p) /\ ~tabs[i].modified /\ Reloads(i, disk[p]) /\ UNCHANGED asks
    BY DEF onFileChanged, Asking
  <1>3. /\ w \in Watches /\ \A x \in ScriptPaths \ {p} : w[x] = watch[x]
    BY EditorParts DEF Watches
  <1>4. /\ watch' \in Watches
        /\ \A x \in ScriptPaths \ {p} : watch[x] # "off" => watch'[x] # "off"
        /\ i # 0 /\ Exists(p) => watch'[p] # "off"
    <2> HIDE DEF w, i
    <2>1. CASE i = 0
      BY <1>1, <1>3, <2>1
    <2>2. CASE i # 0
      <3>1. watch' = AddPath(w, disk, p)
        BY <1>1, <2>2
      <3>2. Exists(p) => disk[p] # NoFile
        BY DEF Exists
      <3> QED BY <1>3, <3>1, <3>2, Watching
    <2> QED BY <2>1, <2>2
  <1>5. \A j \in 1 .. Len(tabs) : tabs[j].path = p => i # 0 /\ i \in 1 .. Len(tabs)
    <2> SUFFICES ASSUME NEW j \in 1 .. Len(tabs), tabs[j].path = p
                 PROVE  i # 0 /\ i \in 1 .. Len(tabs)
      OBVIOUS
    <2>1. j \in Tabs(p)
      BY EditorParts DEF Tabs
    <2>2. i \in Tabs(p) /\ i # 0
      BY <2>1, EditorParts, FirstTab
    <2> QED BY <2>2, EditorParts DEF Tabs
  <1>6. Exists(p) => disk[p] \in ScriptTexts
    BY EditorParts DEF Exists, Files
  <1>7. i # 0 => i \in 1 .. Len(tabs)
    <2>1. CASE Tabs(p) = {}
      BY <2>1 DEF indexOfPath
    <2>2. CASE Tabs(p) # {}
      <3>1. i \in Tabs(p)
        BY <2>2, EditorParts, FirstTab
      <3> QED BY <3>1, EditorParts DEF Tabs
    <2> QED BY <2>1, <2>2
  <1> HIDE DEF i, w
  <1>8. /\ tabs' \in Seq(EditorTab) /\ Len(tabs') = Len(tabs)
        /\ \A j \in 1 .. Len(tabs) : tabs'[j].path = tabs[j].path /\ tabs'[j].number = tabs[j].number
        /\ \A j \in 1 .. Len(tabs) : tabs'[j] = tabs[j] \/ ~tabs[j].modified
    <2>1. CASE UNCHANGED tabs
      BY <2>1, EditorParts
    <2>2. CASE Exists(p) /\ ~tabs[i].modified /\ Reloads(i, disk[p])
      <3>1. /\ tabs' \in Seq(EditorTab) /\ Len(tabs') = Len(tabs)
            /\ \A j \in 1 .. Len(tabs) :
                 tabs'[j].path = tabs[j].path /\ tabs'[j].number = tabs[j].number
            /\ \A j \in 1 .. Len(tabs) : j = i \/ tabs'[j] = tabs[j]
        BY <1>6, <2>2, ReloadsIs
      <3> QED BY <2>2, <3>1, Zenon
    <2> QED BY <1>2, <2>1, <2>2
  <1>9. /\ asks' \in Seq(Asked)
        /\ \A k \in 1 .. Len(asks') : asks'[k].kind = "reload" => asks'[k].text \in ScriptTexts
    <2>1. CASE UNCHANGED asks
      BY <2>1, EditorParts
    <2>2. CASE i # 0 /\ Exists(p) /\ asks' = Append(asks, q)
      <3>1. tabs[i] \in EditorTab
        BY <1>7, <2>2, EditorParts
      <3>2. tabs[i].number \in Nat
        BY <3>1 DEF EditorTab
      <3>3. q \in Asked /\ q.text \in ScriptTexts
        BY <1>6, <2>2, <3>2 DEF Asked
      <3> HIDE DEF q
      <3> QED BY <2>2, <3>3, AsksAlso
    <2> QED BY <1>2, <2>1, <2>2
  <1>10. OneTabEach' /\ KnowsOpen'
    <2>1. ASSUME NEW j \in 1 .. Len(tabs), tabs[j].path \notin excused' \cup {NoPath},
                 watch[tabs[j].path] # "off"
          PROVE  watch'[tabs[j].path] # "off"
      <3>1. tabs[j].path \in ScriptPaths
        BY <2>1, EditorParts DEF Paths
      <3>2. CASE tabs[j].path = p
        BY <1>1, <1>4, <1>5, <2>1, <3>2
      <3>3. CASE tabs[j].path # p
        BY <1>4, <2>1, <3>1, <3>3
      <3> QED BY <3>2, <3>3
    <2>2. excused \subseteq excused'
      BY <1>1
    <2> QED BY <1>8, <2>1, <2>2, SamePaths
  <1>11. EditorInv'
    BY <1>1, <1>4, <1>8, <1>9, <1>10, EditorParts, TypesFollow
  <1>12. KeepsTexts
    BY <1>8 DEF KeepsTexts
  <1>13. KeepsFiles
    BY <1>1 DEF KeepsFiles
  <1> QED BY <1>11, <1>12, <1>13 DEF EditorKept

\* The user answers whether a text is reloaded over what was typed.
LEMMA ReloadKept ==
  ASSUME EditorInv, NEW yes \in BOOLEAN, AnswerReload(yes)
  PROVE  EditorKept
  <1>1. /\ asks # << >> /\ Last(asks).kind = "reload" /\ Answered
        /\ UNCHANGED <<disk, watch, current, opened, excused>>
    BY DEF AnswerReload
  <1>2. /\ asks' \in Seq(Asked)
        /\ \A k \in 1 .. Len(asks') : asks'[k].kind = "reload" => asks'[k].text \in ScriptTexts
        /\ Last(asks).text \in ScriptTexts
    BY <1>1, AsksLess
  <1>3. CASE ~yes
    <2>1. UNCHANGED tabs
      BY <1>3 DEF AnswerReload
    <2> QED BY <1>1, <1>2, <2>1, EditorParts, TabsStay
  <1>4. CASE yes
    <2>1. Reloads(IndexOf(Last(asks).number), Last(asks).text) /\ said' = "reload"
      BY <1>4 DEF AnswerReload
    <2>2. /\ tabs' \in Seq(EditorTab) /\ Len(tabs') = Len(tabs)
          /\ \A j \in 1 .. Len(tabs) : tabs'[j].path = tabs[j].path
      BY <1>2, <2>1, ReloadsIs
    <2>3. OneTabEach' /\ KnowsOpen'
      BY <1>1, <2>2, SamePaths
    <2>4. EditorInv'
      BY <1>1, <1>2, <2>2, <2>3, EditorParts, TypesFollow
    <2>5. KeepsTexts
      BY <2>1 DEF KeepsTexts
    <2>6. KeepsFiles
      BY <1>1 DEF KeepsFiles
    <2> QED BY <2>4, <2>5, <2>6 DEF EditorKept
  <1> QED BY <1>3, <1>4

\* A script is imported under a free name, or deleted.
LEMMA LibraryKept ==
  ASSUME EditorInv, NEW p \in ScriptPaths,
         \/ \E says \in ScriptTexts : onImportScript(p, says)
         \/ onDeleteScript(p)
  PROVE  EditorKept
  <1>1. PICK says \in Files : disk' = [disk EXCEPT ![p] = says]
    BY DEF onImportScript, onDeleteScript, Files
  <1>2. UNCHANGED <<tabs, current, asks, opened, excused>>
    BY DEF onImportScript, onDeleteScript
  <1>3. watch' \in Watches /\ \A q \in ScriptPaths : watch[q] # "off" => watch'[q] # "off"
    <2>1. CASE UNCHANGED watch
      BY <2>1, EditorParts
    <2>2. CASE Told(p, "removed")
      BY <2>2, EditorParts, ToldIs
    <2> QED BY <2>1, <2>2 DEF onImportScript, onDeleteScript
  <1>4. disk' \in [ScriptPaths -> Files]
    BY <1>1, EditorParts
  <1>5. \A j \in 1 .. Len(tabs) :
          tabs[j].path \notin excused' \cup {NoPath} /\ watch[tabs[j].path] # "off" =>
            watch'[tabs[j].path] # "off"
    BY <1>3, EditorParts DEF Paths
  <1>6. OneTabEach' /\ KnowsOpen'
    BY <1>2, <1>5, SamePaths
  <1>7. EditorInv'
    BY <1>2, <1>3, <1>4, <1>6, EditorParts, TypesFollow
  <1>8. KeepsTexts
    BY <1>2 DEF KeepsTexts
  <1>9. said' = "delete" \/ ~Exists(p)
    BY DEF onImportScript, onDeleteScript, Free
  <1>10. KeepsFiles
    BY <1>1, <1>9, EditorParts DEF KeepsFiles
  <1> QED BY <1>7, <1>8, <1>10 DEF EditorKept

\* Every step of the editor, of the user, of the watcher and of other programs.
LEMMA EditorStepKept ==
  ASSUME EditorInv, EditorNext
  PROVE  EditorKept
  <1>1. Positions = 1 .. Len(tabs)
    BY EditorParts
  <1>2. CASE \/ CloseAll \/ CloseAllGoesOn
             \/ \E i \in Positions : ShowTab(i) \/ RequestCloseTab(i) \/ AnswerCancel(i)
    BY <1>2, AskingKept
  <1>3. CASE newScript \/ \E p \in ScriptPaths : EditScript(p) \/ onNewScript(p)
    BY <1>3, OpeningKept
  <1>4. ASSUME NEW says \in ScriptTexts, Type(says) PROVE EditorKept
    BY <1>4, TypeKept
  <1>5. ASSUME NEW i \in Positions, AnswerDiscard(i) PROVE EditorKept
    BY <1>1, <1>5, ClosingKept
  <1>6. ASSUME NEW yes \in BOOLEAN, AnswerReload(yes) PROVE EditorKept
    BY <1>6, ReloadKept
  <1>7. ASSUME NEW p \in ScriptPaths, onFileChanged(p) PROVE EditorKept
    BY <1>7, FileChangedKept
  <1>8. ASSUME NEW p \in ScriptPaths,
               onDeleteScript(p) \/ \E says \in ScriptTexts : onImportScript(p, says)
        PROVE  EditorKept
    BY <1>8, LibraryKept
  <1>9. ASSUME NEW p \in ScriptPaths, NEW says \in ScriptTexts \cup {NoFile},
               ChangedOutside(p, says)
        PROVE  EditorKept
    BY <1>9, OutsideKept DEF Files
  <1>10. ASSUME NEW p \in ScriptPaths, NEW done \in BOOLEAN,
                SaveTab(p, done) \/ SaveTabAs(p, done) \/ runCurrent(p, done)
         PROVE  EditorKept
    BY <1>10, SavingKept
  <1>11. ASSUME NEW p \in ScriptPaths, NEW done \in BOOLEAN, NEW i \in Positions,
                AnswerSave(i, p, done)
         PROVE  EditorKept
    BY <1>1, <1>11, ClosingKept
  <1> QED BY <1>2, <1>3, <1>4, <1>5, <1>6, <1>7, <1>8, <1>9, <1>10, <1>11 DEF EditorNext

\* No step at all.
LEMMA EditorStutters ==
  ASSUME EditorInv, UNCHANGED editorVars
  PROVE  EditorKept
  <1>1. UNCHANGED <<disk, watch, tabs, excused, opened, current, asks>>
    BY DEF editorVars
  <1> QED BY <1>1, EditorParts, TabsStay

\* The editor hears of changes to every open file, unless it once found the file
\* missing or Save As put it into a second tab, for any library and any number of
\* tabs, saves and changes outside (addTab, writeFile, closeTab, onFileChanged).
THEOREM ScriptsStayWatched == EditorSpec => []StaysWatched
  <1>1. ASSUME EditorInv, [EditorNext]_editorVars PROVE EditorInv'
    BY <1>1, EditorStepKept, EditorStutters DEF EditorKept
  <1>2. EditorInv => StaysWatched
    BY EditorParts DEF EditorInv, KnowsOpen, StaysWatched
  <1> QED BY <1>1, <1>2, EditorInvInit, PTL DEF EditorSpec

\* What the user typed is kept in its tab until it is in a file or the user let
\* it go, and no script is overwritten by one that is made or imported, for any
\* library (closeTab, saveTab, onFileChanged, onNewScript, onImportScript).
THEOREM TextsAreKept == EditorSpec => NothingLostUnasked
  <1>1. ASSUME EditorInv, [EditorNext]_editorVars
        PROVE  EditorInv' /\ KeepsTexts /\ KeepsFiles
    BY <1>1, EditorStepKept, EditorStutters DEF EditorKept
  <1>2. ASSUME EditorInv, EditorInv', KeepsTexts, KeepsFiles
        PROVE  /\ \A i \in Positions : tabs[i].modified =>
                    \/ \E j \in DOMAIN tabs' : tabs'[j].number = tabs[i].number /\ tabs'[j].modified
                    \/ said' = "save" /\ \E p \in ScriptPaths : disk'[p] = tabs[i].text
                    \/ said' \in {"discard", "reload"}
               /\ \A p \in ScriptPaths : Exists(p) /\ disk'[p] # disk[p] =>
                    said' \in {"save", "delete", "outside"}
    <2>1. Positions = 1 .. Len(tabs)
      BY <1>2, EditorParts
    <2>2. DOMAIN tabs' = 1 .. Len(tabs')
      <3>1. tabs' \in Seq(EditorTab)
        BY <1>2 DEF EditorInv, EditorTypeOK
      <3> QED BY <3>1
    <2>3. KeepsTexts /\ KeepsFiles
      BY <1>2
    <2> QED BY <2>1, <2>2, <2>3, Zenon DEF KeepsTexts, KeepsFiles
  <1> QED BY <1>1, <1>2, EditorInvInit, PTL DEF EditorSpec, NothingLostUnasked

-----------------------------------------------------------------------------
(* The files, the form and the tabs.                                       *)

Profiles(devices) ==
  [edits : SUBSET Nat, theme : Nat, variable : Nat, script : {"none", "linked", "copy"}, device : devices]
SavedProfile == Profiles({"configured"})
OldFile == [name : ProfileNames, profile : Profiles({"configured", "type"})]

\* A name has one file; what an old version wrote holds none of the changes.
FilesOK ==
  /\ files \in [ProfileNames -> SUBSET SavedProfile]
  /\ \A n \in ProfileNames : \A c, d \in files[n] : c = d
  /\ legacy \in [LegacyPaths -> SUBSET OldFile]
  /\ \A p \in LegacyPaths : \A f \in legacy[p] : ChangesIn(f.profile) = {}

FormType ==
  [name : ProfileNames \cup {Unnamed}, config : SavedProfile, edit : Nat, known : SUBSET Nat, typed : SUBSET Nat]

\* Its variables are accounted for; there are none without a script.
GoodForm ==
  {f \in FormType : /\ f.config.script = "none" => f.edit = 0
                    /\ {f.edit, f.config.variable} \ {0} \subseteq f.known \cup f.typed}

\* The form knows all changes of the profile it is saved to without a question.
FormKnows == \A f \in GoodForm : form = <<f>> => \A c \in loadSession(f.name) : ChangesIn(c) \subseteq f.known

\* A tab knows all changes of the file it would replace without a question, and
\* the device name to save.
GoodView ==
  {v \in [name : ProfileNames \cup {Unnamed}, copy : Profiles({"configured", "given"}), requested : {"configured"},
          snapshot : SUBSET SavedProfile, known : SUBSET Nat] :
     \A c \in v.snapshot : ChangesIn(c) \subseteq v.known}

SavedOK ==
  /\ changes \in Nat /\ lost = {}
  /\ FilesOK
  /\ form = <<>> \/ \E f \in GoodForm : form = <<f>>
  /\ FormKnows
  /\ views \in Seq(GoodView)

LEMMA ChangesAre ==
  ASSUME NEW devices, NEW c \in Profiles(devices)
  PROVE  ChangesIn(c) \in SUBSET Nat
  BY DEF ChangesIn, Profiles

\* What is loaded has a name and a device name, and is one profile, or none.
LEMMA LoadedIs ==
  ASSUME FilesOK, NEW n
  PROVE  /\ loadSession(n) \subseteq SavedProfile
         /\ n \notin ProfileNames => loadSession(n) = {}
         /\ \A c, d \in loadSession(n) : ChangesIn(c) = ChangesIn(d)
  <1>1. CASE n \notin ProfileNames
    <2>1. loadSession(n) = {}
      BY <1>1 DEF loadSession
    <2> QED BY <2>1, <1>1
  <1>2. CASE n \in ProfileNames /\ files[n] # {}
    <2>1. loadSession(n) = files[n]
      BY <1>2 DEF loadSession
    <2>2. files[n] \subseteq SavedProfile /\ \A c, d \in files[n] : c = d
      BY <1>2 DEF FilesOK
    <2> QED BY <1>2, <2>1, <2>2
  <1>3. CASE n \in ProfileNames /\ files[n] = {}
    <2>1. loadSession(n) = {fromJson(f.profile) : f \in OldFileOf(n)}
      BY <1>3 DEF loadSession
    <2>2. ASSUME NEW f \in OldFileOf(n)
          PROVE  fromJson(f.profile) \in SavedProfile /\ ChangesIn(fromJson(f.profile)) = {}
      <3>1. f \in legacy[LegacyPath[n]]
        BY DEF OldFileOf
      <3>2. LegacyPath[n] \in LegacyPaths
        <4>1. legacy \in [LegacyPaths -> SUBSET OldFile]
          BY DEF FilesOK
        <4> QED BY <1>3, <3>1, SavedAssumption
      <3>3. f \in OldFile /\ ChangesIn(f.profile) = {}
        BY <3>1, <3>2 DEF FilesOK
      <3> DEFINE c == f.profile
      <3>4. c \in Profiles({"configured", "type"})
        BY <3>3 DEF OldFile
      <3> HIDE DEF c
      <3>5. fromJson(c) = [edits |-> c.edits, theme |-> c.theme, variable |-> c.variable, script |-> c.script,
                           device |-> IF c.device = "type" THEN "configured" ELSE c.device]
        BY <3>4 DEF fromJson, Profiles
      <3>6. fromJson(c) \in SavedProfile
        BY <3>4, <3>5 DEF SavedProfile, Profiles
      <3>7. ChangesIn(fromJson(c)) = ChangesIn(c)
        BY <3>5 DEF ChangesIn
      <3> QED BY <3>3, <3>6, <3>7 DEF c
    <2> QED BY <1>3, <2>1, <2>2
  <1> QED BY <1>1, <1>2, <1>3

\* The profiles of the other names are what they were.
OnlyTouches(n) == \A m \in ProfileNames : m # n => loadSession(m)' = loadSession(m)

\* Removing the old file of one name takes nothing of another's.
LEMMA OldIsLeft ==
  ASSUME FilesOK, NEW n \in ProfileNames, RemoveOld(n) \/ UNCHANGED legacy
  PROVE  /\ legacy' \in [LegacyPaths -> SUBSET OldFile]
         /\ \A p \in LegacyPaths : legacy'[p] \subseteq legacy[p]
         /\ \A m \in ProfileNames : m # n => OldFileOf(m)' = OldFileOf(m)
         /\ RemoveOld(n) => OldFileOf(n)' = {}
  <1>1. LegacyPath \in [ProfileNames -> LegacyPaths] /\ legacy \in [LegacyPaths -> SUBSET OldFile]
    BY SavedAssumption DEF FilesOK
  <1>2. CASE UNCHANGED legacy /\ ~RemoveOld(n)
    BY <1>1, <1>2 DEF OldFileOf
  <1>3. CASE RemoveOld(n)
    <2> DEFINE p == LegacyPath[n]
               left == legacy[p] \ OldFileOf(n)
    <2>1. p \in LegacyPaths /\ legacy' = [legacy EXCEPT ![p] = left]
      BY <1>1, <1>3 DEF RemoveOld
    <2>2. left \subseteq legacy[p] /\ \A f \in legacy[p] : f \in left <=> f.name # n
      BY DEF OldFileOf
    <2> HIDE DEF left
    <2>3. /\ legacy' \in [LegacyPaths -> SUBSET OldFile]
          /\ \A q \in LegacyPaths : legacy'[q] = IF q = p THEN left ELSE legacy[q]
      BY <1>1, <2>1, <2>2
    <2> HIDE DEF p
    <2>4. ASSUME NEW m \in ProfileNames, m # n PROVE OldFileOf(m)' = OldFileOf(m)
      <3>1. LegacyPath[m] \in LegacyPaths
        BY <1>1
      <3>2. \A f : f \in legacy'[LegacyPath[m]] /\ f.name = m <=> f \in legacy[LegacyPath[m]] /\ f.name = m
        BY <2>2, <2>3, <2>4, <3>1
      <3> QED BY <3>2 DEF OldFileOf
    <2>5. OldFileOf(n)' = {}
      <3>1. legacy'[LegacyPath[n]] = left
        BY <2>1, <2>3 DEF p
      <3> QED BY <2>2, <3>1 DEF OldFileOf
    <2> QED BY <2>2, <2>3, <2>4, <2>5
  <1> QED BY <1>2, <1>3

LEMMA FilesTouched ==
  ASSUME FilesOK, NEW n \in ProfileNames, RemoveOld(n) \/ UNCHANGED legacy,
         NEW now, now \subseteq SavedProfile, \A c, d \in now : c = d,
         files' = [files EXCEPT ![n] = now]
  PROVE  /\ FilesOK' /\ OnlyTouches(n)
         /\ now # {} => loadSession(n)' = now
         /\ now = {} /\ RemoveOld(n) => loadSession(n)' = {}
         /\ now = {} => \A c \in loadSession(n)' : ChangesIn(c) = {}
  <1>1. /\ legacy' \in [LegacyPaths -> SUBSET OldFile]
        /\ \A p \in LegacyPaths : legacy'[p] \subseteq legacy[p]
        /\ \A m \in ProfileNames : m # n => OldFileOf(m)' = OldFileOf(m)
        /\ RemoveOld(n) => OldFileOf(n)' = {}
    BY OldIsLeft
  <1>2. /\ files' \in [ProfileNames -> SUBSET SavedProfile]
        /\ files'[n] = now
        /\ \A m \in ProfileNames : m # n => files'[m] = files[m]
    BY DEF FilesOK
  <1>3. FilesOK'
    <2>1. \A m \in ProfileNames : \A c, d \in files'[m] : c = d
      BY <1>2 DEF FilesOK
    <2>2. \A p \in LegacyPaths : \A f \in legacy'[p] : ChangesIn(f.profile) = {}
      BY <1>1 DEF FilesOK
    <2>3. \A f : ChangesIn(f.profile)' = ChangesIn(f.profile)
      BY DEF ChangesIn
    <2> QED BY <1>1, <1>2, <2>1, <2>2, <2>3 DEF FilesOK
  <1>4. OnlyTouches(n)
    BY <1>1, <1>2 DEF OnlyTouches, loadSession
  <1>5. loadSession(n)' = IF now # {} THEN now ELSE {fromJson(f.profile) : f \in OldFileOf(n)'}
    BY <1>2 DEF loadSession
  <1>6. ASSUME now = {} PROVE \A c \in loadSession(n)' : ChangesIn(c) = {}
    <2>1. SUFFICES ASSUME NEW f \in OldFileOf(n)' PROVE ChangesIn(fromJson(f.profile)) = {}
      BY <1>5, <1>6
    <2>2. f \in legacy'[LegacyPath[n]] /\ LegacyPath[n] \in LegacyPaths
      BY SavedAssumption DEF OldFileOf
    <2>3. f \in legacy[LegacyPath[n]] 
      BY <1>1, <2>2
    <2>4. ChangesIn(f.profile) = {} /\ f \in OldFile
      BY <2>2, <2>3 DEF FilesOK
    <2> DEFINE c == f.profile
    <2>5. c \in Profiles({"configured", "type"})
      BY <2>4 DEF OldFile
    <2> HIDE DEF c
    <2>6. ChangesIn(fromJson(c)) = ChangesIn(c)
      BY <2>5 DEF fromJson, Profiles, ChangesIn
    <2> QED BY <2>4, <2>6 DEF c
  <1> QED BY <1>1, <1>3, <1>4, <1>5, <1>6

LEMMA SaveTouches ==
  ASSUME FilesOK, NEW n \in ProfileNames, NEW c \in SavedProfile, saveSession(n, c)
  PROVE  FilesOK' /\ OnlyTouches(n) /\ loadSession(n)' = {c}
  <1>1. files' = [files EXCEPT ![n] = {c}] /\ (RemoveOld(n) \/ UNCHANGED legacy)
    BY DEF saveSession
  <1> QED BY <1>1, FilesTouched

LEMMA DeleteTouches ==
  ASSUME FilesOK, NEW n \in ProfileNames, deleteSession(n) \/ deleteSessionHalf(n)
  PROVE  FilesOK' /\ OnlyTouches(n) /\ \A c \in loadSession(n)' : ChangesIn(c) = {}
  <1>1. files' = [files EXCEPT ![n] = {}] /\ (RemoveOld(n) \/ UNCHANGED legacy)
    BY DEF deleteSession, deleteSessionHalf
  <1> QED BY <1>1, FilesTouched

LEMMA NothingTouched ==
  ASSUME UNCHANGED FilesOf
  PROVE  /\ FilesOK => FilesOK'
         /\ \A n : loadSession(n)' = loadSession(n)
  BY DEF FilesOf, FilesOK, loadSession, OldFileOf

-----------------------------------------------------------------------------
(* What the form becomes.                                                  *)

\* Fields made anew hold the profile's value, or none.
LEMMA Rebuilt ==
  ASSUME NEW f \in FormType
  PROVE  LET g == rebuildScriptVariableFields(f)
         IN  /\ g \in FormType
             /\ g.name = f.name /\ g.config = f.config /\ g.known = f.known /\ g.typed = f.typed
             /\ g.edit \in {0, f.config.variable}
             /\ f.config.script = "none" => g.edit = 0
  <1> DEFINE g == rebuildScriptVariableFields(f)
  <1>1. g = [name |-> f.name, config |-> f.config,
             edit |-> IF f.config.script = "none" THEN 0 ELSE f.config.variable,
             known |-> f.known, typed |-> f.typed]
    BY DEF rebuildScriptVariableFields, FormType
  <1>2. f.config.variable \in Nat
    BY DEF FormType, SavedProfile, Profiles
  <1> HIDE DEF g
  <1>3. g \in FormType
    BY <1>1, <1>2 DEF FormType
  <1>4. /\ g.name = f.name /\ g.config = f.config /\ g.known = f.known /\ g.typed = f.typed
        /\ g.edit \in {0, f.config.variable}
        /\ f.config.script = "none" => g.edit = 0
    BY <1>1
  <1> QED BY <1>3, <1>4 DEF g

\* The same with another script attached: what is typed stays, where there was a
\* field for it.
LEMMA Attached ==
  ASSUME NEW f \in FormType, NEW how \in {"linked", "copy"}
  PROVE  LET g == attachScriptFromFile(f, how)
         IN  /\ g \in FormType
             /\ g.name = f.name /\ g.known = f.known /\ g.typed = f.typed
             /\ g.edit \in {0, f.edit, f.config.variable}
             /\ g.config.variable \in {f.edit, f.config.variable}
             /\ g.config.script # "none"
  <1> DEFINE k == KeepTyped(f)
             a == [k EXCEPT !.config.script = how]
  <1>1. /\ f.edit \in Nat /\ f.config \in SavedProfile
        /\ f = [name |-> f.name, config |-> f.config, edit |-> f.edit, known |-> f.known, typed |-> f.typed]
    BY DEF FormType
  <1>2. \E v \in {f.edit, f.config.variable} :
          k = [name |-> f.name, config |-> [f.config EXCEPT !.variable = v], edit |-> f.edit,
               known |-> f.known, typed |-> f.typed]
    <2>1. CASE f.config.script = "none"
      <3>1. k = f
        BY <2>1 DEF KeepTyped
      <3>2. [f.config EXCEPT !.variable = f.config.variable] = f.config
        BY <1>1 DEF SavedProfile, Profiles
      <3> QED BY <1>1, <3>1, <3>2
    <2>2. CASE f.config.script # "none"
      BY <1>1, <2>2 DEF KeepTyped
    <2> QED BY <2>1, <2>2
  <1>3. PICK v \in {f.edit, f.config.variable} :
          k = [name |-> f.name, config |-> [f.config EXCEPT !.variable = v], edit |-> f.edit,
               known |-> f.known, typed |-> f.typed]
    BY <1>2
  <1> HIDE DEF k
  <1> DEFINE c == [f.config EXCEPT !.variable = v, !.script = how]
  <1>4. v \in Nat
    BY <1>1, <1>3 DEF SavedProfile, Profiles
  <1>5. c \in SavedProfile /\ c.variable = v /\ c.script = how
    BY <1>1, <1>4 DEF SavedProfile, Profiles
  <1>6. a = [name |-> f.name, config |-> c, edit |-> f.edit, known |-> f.known, typed |-> f.typed]
    BY <1>1, <1>3 DEF SavedProfile, Profiles
  <1> HIDE DEF c, a
  <1>7. a \in FormType
    BY <1>1, <1>5, <1>6 DEF FormType
  <1>8. attachScriptFromFile(f, how) = rebuildScriptVariableFields(a)
    BY DEF attachScriptFromFile, k, a
  <1>9. /\ a.name = f.name /\ a.config = c /\ a.edit = f.edit /\ a.known = f.known /\ a.typed = f.typed
    BY <1>6
  <1> DEFINE g == rebuildScriptVariableFields(a)
  <1>10. /\ g \in FormType
         /\ g.name = a.name /\ g.config = a.config /\ g.known = a.known /\ g.typed = a.typed
         /\ g.edit \in {0, a.config.variable}
    BY <1>7, Rebuilt
  <1> HIDE DEF g
  <1> QED BY <1>3, <1>5, <1>8, <1>9, <1>10 DEF g

LEMMA Updated ==
  ASSUME NEW f \in FormType, NEW g \in updateUI(f)
  PROVE  /\ g \in FormType /\ g.name = f.name
         /\ g.edit \in {0, f.config.variable} /\ g.config.variable \in {0, f.config.variable}
         /\ g.config.script = "none" => g.edit = 0
  <1> DEFINE r == rebuildScriptVariableFields(f)
  <1>1. /\ r \in FormType
        /\ r.name = f.name /\ r.config = f.config
        /\ r.edit \in {0, f.config.variable}
        /\ f.config.script = "none" => r.edit = 0
    BY Rebuilt
  <1>2. g = r \/ g = attachScriptFromFile(r, "linked")
    BY DEF updateUI
  <1> HIDE DEF r
  <1>3. CASE g = r
    BY <1>1, <1>3
  <1>4. CASE g = attachScriptFromFile(r, "linked")
    <2>1. LET h == attachScriptFromFile(r, "linked")
          IN  /\ h \in FormType /\ h.name = r.name
              /\ h.edit \in {0, r.edit, r.config.variable}
              /\ h.config.variable \in {r.edit, r.config.variable}
              /\ h.config.script # "none"
      BY <1>1, Attached
    <2> QED BY <1>1, <1>4, <2>1
  <1> QED BY <1>2, <1>3, <1>4

\* Another form, and what it knows.
LEMMA FormMade ==
  ASSUME NEW g \in GoodForm, form' = <<g>>, \A c \in loadSession(g.name)' : ChangesIn(c) \subseteq g.known
  PROVE  (form' = <<>> \/ \E f \in GoodForm : form' = <<f>>) /\ FormKnows'
  <1>1. \A f \in GoodForm : <<f>> = <<g>> => f = g
    OBVIOUS
  <1> QED BY <1>1 DEF FormKnows

OneChanges ==
  \A m, n \in ProfileNames :
    loadSession(m)' # loadSession(m) /\ loadSession(n)' # loadSession(n) => m = n

LEMMA FormIs ==
  ASSUME SavedOK, Opened
  PROVE  /\ Form \in GoodForm /\ form = <<Form>>
         /\ \A c \in loadSession(Form.name) : ChangesIn(c) \subseteq Form.known
  <1>1. PICK f \in GoodForm : form = <<f>>
    BY DEF SavedOK, Opened
  <1>2. Form = f
    BY <1>1 DEF Form
  <1>3. \A c \in loadSession(f.name) : ChangesIn(c) \subseteq f.known
    BY <1>1 DEF SavedOK, FormKnows
  <1> QED BY <1>1, <1>2, <1>3

\* The form alone changes, of the same profile or of none.
LEMMA FormChanged ==
  ASSUME SavedOK, Opened, UNCHANGED <<FilesOf, views, lost>>, changes' \in Nat,
         NEW g \in GoodForm, form' = <<g>>,
         g.name = Unnamed \/ (g.name = Form.name /\ g.known = Form.known)
  PROVE  SavedOK' /\ OneChanges
  <1>1. FilesOK /\ FilesOK' /\ \A n : loadSession(n)' = loadSession(n)
    BY NothingTouched DEF SavedOK
  <1>2. \A c \in loadSession(g.name)' : ChangesIn(c) \subseteq g.known
    <2>1. CASE g.name = Unnamed
      <3>1. loadSession(Unnamed) = {}
        BY <1>1, LoadedIs, SavedAssumption
      <3> QED BY <1>1, <2>1, <3>1
    <2>2. CASE g.name = Form.name /\ g.known = Form.known
      BY <1>1, <2>2, FormIs
    <2> QED BY <2>1, <2>2
  <1>3. (form' = <<>> \/ \E f \in GoodForm : form' = <<f>>) /\ FormKnows'
    BY <1>2, FormMade
  <1>4. lost' = {} /\ views' \in Seq(GoodView)
    BY DEF SavedOK
  <1> QED BY <1>1, <1>3, <1>4 DEF SavedOK, OneChanges

\* The dialog opens with an empty form; so it is after a profile is deleted.
EmptyForm == [name |-> Unnamed, config |-> NewProfile, edit |-> 0, known |-> {}, typed |-> {}]

LEMMA EmptyIsGood == EmptyForm \in GoodForm
  <1>1. NewProfile \in SavedProfile /\ NewProfile.variable = 0
    BY DEF NewProfile, SavedProfile, Profiles
  <1>2. EmptyForm \in FormType /\ EmptyForm.edit = 0 /\ EmptyForm.config = NewProfile
    BY <1>1 DEF EmptyForm, FormType
  <1> QED BY <1>1, <1>2 DEF GoodForm

LEMMA OpensGood ==
  ASSUME SavedOK, onConnectOpens
  PROVE  SavedOK' /\ OneChanges
  <1>1. form' = <<EmptyForm>> /\ UNCHANGED <<files, legacy, views, changes, lost>>
    BY DEF onConnectOpens, SetForm, EmptyForm
  <1>2. FilesOK /\ FilesOK' /\ \A n : loadSession(n)' = loadSession(n)
    BY <1>1 DEF SavedOK, FilesOK, loadSession, OldFileOf
  <1>3. loadSession(EmptyForm.name) = {}
    BY <1>2, LoadedIs, SavedAssumption DEF EmptyForm
  <1>4. (form' = <<>> \/ \E f \in GoodForm : form' = <<f>>) /\ FormKnows'
    BY <1>1, <1>2, <1>3, EmptyIsGood, FormMade
  <1> QED BY <1>1, <1>2, <1>4 DEF SavedOK, OneChanges

LEMMA LoadGood ==
  ASSUME SavedOK, NEW n \in ProfileNames, loadIntoForm(n)
  PROVE  SavedOK' /\ OneChanges
  <1>1. FilesOK /\ FilesOK' /\ \A m : loadSession(m)' = loadSession(m)
    BY NothingTouched DEF SavedOK, loadIntoForm
  <1>2. Form \in FormType
    BY FormIs DEF loadIntoForm, GoodForm
  <1>3. PICK c \in loadSession(n) : \E f \in updateUI([Form EXCEPT !.config = c, !.name = n]) :
                                      form' = <<[f EXCEPT !.known = ChangesIn(c), !.typed = {}]>>
    BY DEF loadIntoForm, SetForm
  <1> DEFINE o == [Form EXCEPT !.config = c, !.name = n]
  <1>4. c \in SavedProfile
    BY <1>1, LoadedIs
  <1>5. o \in FormType /\ o.config = c /\ o.name = n
    BY <1>2, <1>4 DEF FormType
  <1>6. PICK f \in updateUI(o) : form' = <<[f EXCEPT !.known = ChangesIn(c), !.typed = {}]>>
    BY <1>3
  <1> HIDE DEF o
  <1>7. /\ f \in FormType /\ f.name = n
        /\ f.edit \in {0, c.variable} /\ f.config.variable \in {0, c.variable}
        /\ f.config.script = "none" => f.edit = 0
    BY <1>5, Updated
  <1> DEFINE g == [f EXCEPT !.known = ChangesIn(c), !.typed = {}]
  <1>8. ChangesIn(c) \in SUBSET Nat
    BY <1>4, ChangesAre DEF SavedProfile
  <1>9. /\ g \in FormType /\ g.name = n /\ g.known = ChangesIn(c) /\ g.typed = {}
        /\ g.edit = f.edit /\ g.config = f.config
    BY <1>7, <1>8 DEF FormType
  <1>10. form' = <<g>>
    BY <1>6
  <1> HIDE DEF g
  <1>11. {0, c.variable} \ {0} \subseteq ChangesIn(c)
    BY DEF ChangesIn
  <1>12. g \in GoodForm
    BY <1>7, <1>9, <1>11 DEF GoodForm
  <1>13. \A d \in loadSession(g.name)' : ChangesIn(d) \subseteq g.known
    BY <1>1, <1>9, LoadedIs
  <1>14. (form' = <<>> \/ \E h \in GoodForm : form' = <<h>>) /\ FormKnows'
    BY <1>10, <1>12, <1>13, FormMade
  <1>15. UNCHANGED <<views, changes, lost>>
    BY DEF loadIntoForm
  <1> QED BY <1>1, <1>14, <1>15 DEF SavedOK, OneChanges

\* What is typed, attached or detached.
LEMMA TypingGood ==
  ASSUME SavedOK,
         onSessionComboNew \/ typeField \/ typeVariable \/ onScriptComboChanged \/ detachScript \/ onEditScriptClicked
  PROVE  SavedOK' /\ OneChanges
  <1> DEFINE f == Form
  <1>1. Opened /\ UNCHANGED <<FilesOf, views, lost>>
    BY DEF onSessionComboNew, typeField, typeVariable, onScriptComboChanged, detachScript, onEditScriptClicked,
           FormChanges
  <1>2. f \in GoodForm /\ changes \in Nat
    BY <1>1, FormIs DEF SavedOK
  <1>3. /\ f \in FormType /\ f.config \in SavedProfile /\ f.edit \in Nat
        /\ f.known \subseteq Nat /\ f.typed \subseteq Nat
        /\ f = [name |-> f.name, config |-> f.config, edit |-> f.edit, known |-> f.known, typed |-> f.typed]
        /\ f.config.script = "none" => f.edit = 0
        /\ {f.edit, f.config.variable} \ {0} \subseteq f.known \cup f.typed
    BY <1>2 DEF GoodForm, FormType
  <1>4. f.name \in ProfileNames \cup {Unnamed}
    BY <1>3 DEF FormType
  <1>5. changes' \in Nat
    BY <1>2 DEF onSessionComboNew, typeField, typeVariable, onScriptComboChanged, detachScript,
                onEditScriptClicked, FormChanges, NewChange
  <1>6. SUFFICES \E g \in GoodForm : /\ form' = <<g>>
                                     /\ g.name = Unnamed \/ (g.name = f.name /\ g.known = f.known)
    BY <1>1, <1>5, FormChanged
  <1>7. CASE onSessionComboNew
    <2> DEFINE g == [f EXCEPT !.name = Unnamed, !.known = {}, !.typed = @ \union f.known]
    <2>1. form' = <<g>>
      BY <1>7 DEF onSessionComboNew, SetForm
    <2> HIDE DEF f
    <2>2. /\ g \in FormType /\ g.name = Unnamed /\ g.config = f.config /\ g.edit = f.edit
          /\ g.known = {} /\ g.typed = f.typed \cup f.known
      BY <1>3 DEF FormType
    <2> HIDE DEF g
    <2>3. g \in GoodForm
      BY <1>3, <2>2 DEF GoodForm
    <2> QED BY <2>1, <2>2, <2>3
  <1>8. CASE typeField
    <2> DEFINE h == [f EXCEPT !.config.edits = @ \union {changes'}]
               g == [h EXCEPT !.typed = @ \union {changes'}]
    <2>1. form' = <<g>>
      BY <1>8 DEF typeField, FormChanges, SetForm
    <2> HIDE DEF f
    <2>2. /\ h \in FormType /\ h.name = f.name /\ h.edit = f.edit /\ h.known = f.known /\ h.typed = f.typed
          /\ h.config.variable = f.config.variable /\ h.config.script = f.config.script
      BY <1>3, <1>5 DEF FormType, SavedProfile, Profiles
    <2> HIDE DEF h
    <2>3. /\ g \in FormType /\ g.name = h.name /\ g.edit = h.edit /\ g.known = h.known
          /\ g.config = h.config /\ g.typed = h.typed \cup {changes'}
      BY <1>5, <2>2 DEF FormType
    <2> HIDE DEF g
    <2>4. g \in GoodForm
      BY <1>3, <2>2, <2>3 DEF GoodForm
    <2> QED BY <2>1, <2>2, <2>3, <2>4
  <1>9. CASE typeVariable
    <2> DEFINE h == [f EXCEPT !.edit = changes']
               g == [h EXCEPT !.typed = @ \union {changes'}]
    <2>1. form' = <<g>> /\ f.config.script # "none"
      BY <1>9 DEF typeVariable, FormChanges, SetForm
    <2> HIDE DEF f
    <2>2. /\ h \in FormType /\ h.name = f.name /\ h.edit = changes' /\ h.known = f.known /\ h.typed = f.typed
          /\ h.config = f.config
      BY <1>3, <1>5 DEF FormType
    <2> HIDE DEF h
    <2>3. /\ g \in FormType /\ g.name = h.name /\ g.edit = h.edit /\ g.known = h.known
          /\ g.config = h.config /\ g.typed = h.typed \cup {changes'}
      BY <1>5, <2>2 DEF FormType
    <2> HIDE DEF g
    <2>4. g \in GoodForm
      BY <1>3, <2>1, <2>2, <2>3 DEF GoodForm
    <2> QED BY <2>1, <2>2, <2>3, <2>4
  <1>10. CASE onScriptComboChanged
    <2>1. PICK how \in {"linked", "copy"} : form' = <<attachScriptFromFile(f, how)>>
      BY <1>10 DEF onScriptComboChanged, SetForm
    <2> DEFINE g == attachScriptFromFile(f, how)
    <2> HIDE DEF f
    <2>2. /\ g \in FormType
          /\ g.name = f.name /\ g.known = f.known /\ g.typed = f.typed
          /\ g.edit \in {0, f.edit, f.config.variable}
          /\ g.config.variable \in {f.edit, f.config.variable}
          /\ g.config.script # "none"
      BY <1>3, Attached
    <2>3. form' = <<g>>
      BY <2>1
    <2> HIDE DEF g
    <2>4. g \in GoodForm
      BY <1>3, <2>2 DEF GoodForm
    <2> QED BY <2>2, <2>3, <2>4
  <1>11. CASE detachScript
    <2> DEFINE g == [f EXCEPT !.config.script = "none", !.config.variable = 0, !.edit = 0]
    <2>1. form' = <<g>>
      BY <1>11 DEF detachScript, SetForm
    <2> HIDE DEF f
    <2>2. /\ g \in FormType /\ g.name = f.name /\ g.edit = 0 /\ g.known = f.known /\ g.typed = f.typed
          /\ g.config.variable = 0 /\ g.config.script = "none"
      BY <1>3 DEF FormType, SavedProfile, Profiles
    <2> HIDE DEF g
    <2>3. g \in GoodForm
      BY <2>2 DEF GoodForm
    <2> QED BY <2>1, <2>2, <2>3
  <1>12. CASE onEditScriptClicked
    <2> DEFINE g == rebuildScriptVariableFields(f)
    <2>1. form' = <<g>>
      BY <1>12 DEF onEditScriptClicked, SetForm
    <2> HIDE DEF f
    <2>2. /\ g \in FormType
          /\ g.name = f.name /\ g.config = f.config /\ g.known = f.known /\ g.typed = f.typed
          /\ g.edit \in {0, f.config.variable}
          /\ f.config.script = "none" => g.edit = 0
      BY <1>3, Rebuilt
    <2> HIDE DEF g
    <2>4. g \in GoodForm
      BY <1>3, <2>2 DEF GoodForm
    <2> QED BY <2>1, <2>2, <2>4
  <1> QED BY <1>7, <1>8, <1>9, <1>10, <1>11, <1>12

-----------------------------------------------------------------------------
(* Saving, deleting, and the tabs.                                         *)

LEMMA TouchedOnce ==
  ASSUME NEW n \in ProfileNames, OnlyTouches(n)
  PROVE  OneChanges
  BY DEF OnlyTouches, OneChanges

\* The form as it is saved: the variable's field, where there is one.
LEMMA SavedForm ==
  ASSUME SavedOK, Opened
  PROVE  getSessionConfig \in SavedProfile /\ getSessionConfig.variable = Form.edit
         /\ getSessionConfig.script = Form.config.script
  <1> DEFINE f == Form
  <1>1. f \in GoodForm
    BY FormIs
  <1>2. f.config \in SavedProfile /\ f.edit \in Nat /\ (f.config.script = "none" => f.edit = 0)
    BY <1>1 DEF GoodForm, FormType
  <1>3. getSessionConfig = [f.config EXCEPT !.variable = IF f.config.script = "none" THEN 0 ELSE f.edit]
    BY DEF getSessionConfig
  <1> HIDE DEF f
  <1>4. getSessionConfig = [f.config EXCEPT !.variable = f.edit]
    <2>1. (IF f.config.script = "none" THEN 0 ELSE f.edit) = f.edit
      BY <1>2
    <2> QED BY <1>3, <2>1
  <1>5. getSessionConfig \in SavedProfile /\ getSessionConfig.variable = f.edit
        /\ getSessionConfig.script = f.config.script
    BY <1>2, <1>4 DEF SavedProfile, Profiles
  <1> QED BY <1>5 DEF f

LEMMA NothingReplaced ==
  ASSUME NEW n, NEW known, \A c \in loadSession(n) : ChangesIn(c) \subseteq known
  PROVE  Replaced(n, known) = {}
  <1>1. SUFFICES ASSUME NEW x \in Replaced(n, known) PROVE FALSE
    OBVIOUS
  <1> DEFINE S == {ChangesIn(c) : c \in loadSession(n)}
  <1>2. x \in UNION S /\ x \notin known
    BY DEF Replaced
  <1>3. \A s \in S : s \subseteq known
    OBVIOUS
  <1> HIDE DEF S
  <1> QED BY <1>2, <1>3

LEMMA FormSaveGood ==
  ASSUME SavedOK, Opened, NEW n \in ProfileNames, FormSavesAs(n), UNCHANGED <<views, changes>>
  PROVE  SavedOK' /\ OneChanges
  <1>f. PICK f : f = Form
    OBVIOUS
  <1>c. PICK c : c = getSessionConfig
    OBVIOUS
  <1> DEFINE g == [f EXCEPT !.name = n, !.config = c, !.known = ChangesIn(c)]
  <1>1. /\ f \in FormType /\ f \in GoodForm /\ (f.config.script = "none" => f.edit = 0)
        /\ \A d \in loadSession(f.name) : ChangesIn(d) \subseteq f.known
    BY <1>f, FormIs DEF GoodForm
  <1>2. c \in SavedProfile /\ c.variable = f.edit /\ c.script = f.config.script
    BY <1>f, <1>c, SavedForm
  <1>3. /\ saveSession(n, c) /\ form' = <<g>>
        /\ lost' = lost \cup (IF n = f.name THEN Replaced(n, f.known) ELSE {})
    BY <1>f, <1>c DEF FormSavesAs, SavesAs, SetForm
  <1>4. FilesOK' /\ OnlyTouches(n) /\ loadSession(n)' = {c}
    BY <1>2, <1>3, SaveTouches DEF SavedOK
  <1>5. lost' = {}
    <2>1. n = f.name => Replaced(n, f.known) = {}
      BY <1>1, NothingReplaced
    <2> QED BY <1>3, <2>1 DEF SavedOK
  <1>6. ChangesIn(c) \in SUBSET Nat
    BY <1>2, ChangesAre DEF SavedProfile
  <1>7. /\ g \in FormType /\ g.name = n /\ g.config = c /\ g.edit = f.edit /\ g.known = ChangesIn(c)
        /\ g.typed = f.typed
    BY <1>1, <1>2, <1>6 DEF FormType
  <1> HIDE DEF g
  <1>8. g \in GoodForm
    <2>1. {f.edit} \ {0} \subseteq ChangesIn(c)
      BY <1>2 DEF ChangesIn
    <2> QED BY <1>1, <1>2, <1>7, <2>1 DEF GoodForm
  <1>9. \A d \in loadSession(g.name)' : ChangesIn(d) \subseteq g.known
    BY <1>4, <1>7
  <1>10. (form' = <<>> \/ \E h \in GoodForm : form' = <<h>>) /\ FormKnows'
    BY <1>3, <1>8, <1>9, FormMade
  <1> QED BY <1>4, <1>5, <1>10, TouchedOnce DEF SavedOK

LEMMA SaveGood ==
  ASSUME SavedOK, saveCurrentSession \/ \E n \in ProfileNames : saveCurrentAsSession(n)
  PROVE  SavedOK' /\ OneChanges
  <1>1. CASE saveCurrentSession
    <2>1. Opened /\ Form.name # Unnamed /\ FormSavesAs(Form.name) /\ UNCHANGED <<views, changes>>
      BY <1>1 DEF saveCurrentSession
    <2>2. Form.name \in ProfileNames
      BY <2>1, FormIs DEF GoodForm, FormType
    <2> QED BY <2>1, <2>2, FormSaveGood
  <1>2. CASE \E n \in ProfileNames : saveCurrentAsSession(n)
    <2>1. PICK n \in ProfileNames : Opened /\ FormSavesAs(n) /\ UNCHANGED <<views, changes>>
      BY <1>2 DEF saveCurrentAsSession
    <2> QED BY <2>1, FormSaveGood
  <1> QED BY <1>1, <1>2

LEMMA DeleteGood ==
  ASSUME SavedOK, NEW n \in ProfileNames, onDeleteSessionClicked(n)
  PROVE  SavedOK' /\ OneChanges
  <1>1. Opened /\ UNCHANGED <<views, changes, lost>> /\ (deleteSession(n) \/ deleteSessionHalf(n))
    BY DEF onDeleteSessionClicked
  <1>2. FilesOK /\ FilesOK' /\ OnlyTouches(n) /\ \A c \in loadSession(n)' : ChangesIn(c) = {}
    BY <1>1, DeleteTouches DEF SavedOK
  <1>3. form' = <<EmptyForm>> \/ form' = form
    BY DEF onDeleteSessionClicked, SetForm, EmptyForm
  <1>4. CASE form' = <<EmptyForm>>
    <2>1. EmptyForm.name = Unnamed
      BY DEF EmptyForm
    <2>2. loadSession(Unnamed)' = {}
      BY SavedAssumption DEF loadSession
    <2>3. (form' = <<>> \/ \E f \in GoodForm : form' = <<f>>) /\ FormKnows'
      BY <1>4, <2>1, <2>2, EmptyIsGood, FormMade
    <2> QED BY <1>1, <1>2, <2>3, TouchedOnce DEF SavedOK
  <1>5. CASE form' = form
    <2>0. PICK g : g = Form
      OBVIOUS
    <2>1. /\ g \in GoodForm /\ form' = <<g>>
          /\ \A c \in loadSession(g.name) : ChangesIn(c) \subseteq g.known
      BY <1>1, <1>5, <2>0, FormIs
    <2>2. \A c \in loadSession(g.name)' : ChangesIn(c) \subseteq g.known
      <3>1. CASE g.name = n
        BY <1>2, <3>1
      <3>2. CASE g.name # n /\ g.name \in ProfileNames
        BY <1>2, <2>1, <3>2 DEF OnlyTouches
      <3>3. CASE g.name \notin ProfileNames
        <4>1. loadSession(g.name)' = {}
          BY <3>3 DEF loadSession
        <4> QED BY <4>1
      <3> QED BY <3>1, <3>2, <3>3
    <2>4. (form' = <<>> \/ \E f \in GoodForm : form' = <<f>>) /\ FormKnows'
      BY <2>1, <2>2, FormMade
    <2> QED BY <1>1, <1>2, <2>4, TouchedOnce DEF SavedOK
  <1> QED BY <1>3, <1>4, <1>5

\* What a tab was given is what it saves.
LEMMA ViewIs ==
  ASSUME NEW v \in GoodView
  PROVE  /\ savedConfig(v) \in SavedProfile
         /\ \A c \in v.snapshot : ChangesIn(c) \subseteq v.known
         /\ v.name \in ProfileNames \cup {Unnamed} /\ v.snapshot \subseteq SavedProfile
         /\ v.known \subseteq Nat /\ v.copy \in Profiles({"configured", "given"}) /\ v.requested = "configured"
  <1>1. /\ v.name \in ProfileNames \cup {Unnamed} /\ v.snapshot \subseteq SavedProfile
        /\ v.known \subseteq Nat /\ v.copy \in Profiles({"configured", "given"}) /\ v.requested = "configured"
        /\ \A c \in v.snapshot : ChangesIn(c) \subseteq v.known
    BY DEF GoodView
  <1>2. savedConfig(v) = [v.copy EXCEPT !.device = "configured"]
    BY <1>1 DEF savedConfig
  <1>3. savedConfig(v) \in SavedProfile
    BY <1>1, <1>2 DEF SavedProfile, Profiles
  <1> QED BY <1>1, <1>3

LEMMA TabOpens ==
  ASSUME NEW name \in ProfileNames \cup {Unnamed}, NEW c \in SavedProfile,
         NEW snapshot \in SUBSET SavedProfile, NEW known \in SUBSET Nat,
         \A d \in snapshot : ChangesIn(d) \subseteq known,
         views \in Seq(GoodView), connectWithProfile(name, c, snapshot, known)
  PROVE  views' \in Seq(GoodView)
  <1> DEFINE v == [name |-> name, copy |-> InUse(c), requested |-> c.device, snapshot |-> snapshot, known |-> known]
  <1>1. InUse(c) \in Profiles({"configured", "given"}) /\ c.device = "configured"
    BY DEF InUse, SavedProfile, Profiles
  <1>2. v \in GoodView
    BY <1>1 DEF GoodView
  <1>3. views' = Append(views, v)
    BY DEF connectWithProfile
  <1> HIDE DEF v
  <1> QED BY <1>2, <1>3

\* A tab changes in its place.
LEMMA TabPut ==
  ASSUME views \in Seq(GoodView), NEW i \in DOMAIN views, NEW w \in GoodView,
         DOMAIN views' = DOMAIN views, views' = [j \in DOMAIN views' |-> views'[j]],
         views'[i] = w, \A j \in DOMAIN views : j # i => views'[j] = views[j]
  PROVE  views' \in Seq(GoodView)
  <1>1. Len(views) \in Nat /\ DOMAIN views = 1 .. Len(views) /\ \A j \in 1 .. Len(views) : views[j] \in GoodView
    OBVIOUS
  <1>2. \A j \in 1 .. Len(views) : views'[j] \in GoodView
    BY <1>1
  <1>3. views' \in [1 .. Len(views) -> GoodView]
    BY <1>1, <1>2
  <1> QED BY <1>1, <1>3

\* Only tabs change, while the dialog is closed.
LEMMA TabsChanged ==
  ASSUME SavedOK, ~Opened, UNCHANGED form, FilesOK', changes' \in Nat, lost' = {}, views' \in Seq(GoodView)
  PROVE  SavedOK'
  <1>1. form' = <<>>
    BY DEF Opened
  <1>2. \A f \in GoodForm : <<f>> # <<>>
    OBVIOUS
  <1> QED BY <1>1, <1>2 DEF SavedOK, FormKnows

LEMMA TabsAlone ==
  ASSUME SavedOK, ~Opened, UNCHANGED <<FilesOf, form, lost>>, changes' \in Nat, views' \in Seq(GoodView)
  PROVE  SavedOK' /\ OneChanges
  <1>1. FilesOK' /\ \A n : loadSession(n)' = loadSession(n)
    BY NothingTouched DEF SavedOK
  <1>2. lost' = {} /\ UNCHANGED form
    BY DEF SavedOK
  <1> QED BY <1>1, <1>2, TabsChanged DEF OneChanges

LEMMA ConnectGood ==
  ASSUME SavedOK, onConnectClicked
  PROVE  SavedOK' /\ OneChanges
  <1>f. PICK f : f = Form
    OBVIOUS
  <1>c. PICK c : c = getSessionConfig
    OBVIOUS
  <1>1. Opened /\ UNCHANGED <<FilesOf, changes, lost>> /\ form' = <<>>
        /\ connectWithProfile(f.name, c, loadSession(f.name), f.known \cup ChangesIn(c))
    BY <1>f, <1>c DEF onConnectClicked
  <1>2. /\ f.name \in ProfileNames \cup {Unnamed} /\ f.known \subseteq Nat
        /\ \A d \in loadSession(f.name) : ChangesIn(d) \subseteq f.known
    BY <1>1, <1>f, FormIs DEF GoodForm, FormType
  <1>3. c \in SavedProfile
    BY <1>1, <1>c, SavedForm
  <1>4. ChangesIn(c) \in SUBSET Nat
    BY <1>3, ChangesAre DEF SavedProfile
  <1>5. loadSession(f.name) \subseteq SavedProfile
    BY LoadedIs DEF SavedOK
  <1>6. views' \in Seq(GoodView)
    <2>1. (f.known \cup ChangesIn(c)) \in SUBSET Nat
      BY <1>2, <1>4
    <2>2. \A d \in loadSession(f.name) : ChangesIn(d) \subseteq (f.known \cup ChangesIn(c))
      BY <1>2
    <2>3. views \in Seq(GoodView)
      BY DEF SavedOK
    <2> QED BY <1>1, <1>2, <1>3, <1>5, <2>1, <2>2, <2>3, TabOpens
  <1>7. FilesOK' /\ \A n : loadSession(n)' = loadSession(n)
    BY <1>1, NothingTouched DEF SavedOK
  <1>8. \A g \in GoodForm : <<g>> # <<>>
    OBVIOUS
  <1>9. changes' \in Nat /\ lost' = {} /\ FormKnows'
    BY <1>1, <1>8 DEF SavedOK, FormKnows
  <1> QED BY <1>1, <1>6, <1>7, <1>9 DEF SavedOK, OneChanges

LEMMA OpenGood ==
  ASSUME SavedOK,
         \/ \E n \in ProfileNames : onSavedSessionChosen(n)
         \/ \E i \in DOMAIN views : onDuplicateProfile(views[i])
  PROVE  SavedOK' /\ OneChanges
  <1>1. views \in Seq(GoodView) /\ changes \in Nat /\ FilesOK
    BY DEF SavedOK
  <1>2. CASE \E n \in ProfileNames : onSavedSessionChosen(n)
    <2>0. PICK n \in ProfileNames : onSavedSessionChosen(n)
      BY <1>2
    <2>1. PICK c \in loadSession(n) :
            /\ ~Opened /\ UNCHANGED <<FilesOf, form, changes, lost>>
            /\ connectWithProfile(n, c, loadSession(n), ChangesIn(c))
      BY <2>0 DEF onSavedSessionChosen
    <2>2. c \in SavedProfile /\ loadSession(n) \subseteq SavedProfile
          /\ \A d \in loadSession(n) : ChangesIn(d) \subseteq ChangesIn(c)
      BY <1>1, <2>1, LoadedIs
    <2>3. ChangesIn(c) \in SUBSET Nat
      BY <2>2, ChangesAre DEF SavedProfile
    <2>4. views' \in Seq(GoodView)
      BY <1>1, <2>1, <2>2, <2>3, TabOpens
    <2> QED BY <1>1, <2>1, <2>4, TabsAlone
  <1>3. CASE \E i \in DOMAIN views : onDuplicateProfile(views[i])
    <2>1. PICK i \in DOMAIN views : onDuplicateProfile(views[i])
      BY <1>3
    <2>2. PICK v : v = views[i]
      OBVIOUS
    <2>3. v \in GoodView
      BY <1>1, <2>2
    <2>4. /\ ~Opened /\ UNCHANGED <<FilesOf, form, changes, lost>>
          /\ connectWithProfile(v.name, savedConfig(v), v.snapshot, v.known)
      BY <2>1, <2>2 DEF onDuplicateProfile
    <2>5. views' \in Seq(GoodView)
      BY <1>1, <2>3, <2>4, ViewIs, TabOpens
    <2> QED BY <1>1, <2>4, <2>5, TabsAlone
  <1> QED BY <1>2, <1>3

\* Another device name, another theme, or none of the tab.
LEMMA TabGood ==
  ASSUME SavedOK, NEW i \in DOMAIN views,
         onReconnectProfile(i) \/ applyThemeToSession(i) \/ onCloseProfileTab(i)
  PROVE  SavedOK' /\ OneChanges
  <1>1. views \in Seq(GoodView) /\ changes \in Nat
    BY DEF SavedOK
  <1>v. PICK v : v = views[i]
    OBVIOUS
  <1>2. v \in GoodView /\ Len(views) \in Nat /\ DOMAIN views = 1 .. Len(views)
    BY <1>1, <1>v
  <1>3. ~Opened /\ UNCHANGED <<FilesOf, form, lost>> /\ changes' \in Nat
    BY <1>1 DEF onReconnectProfile, applyThemeToSession, onCloseProfileTab, NewChange
  <1>4. CASE onReconnectProfile(i)
    <2>1. PICK c : c = [savedConfig(v) EXCEPT !.device = IF Len(views) > 1 THEN "given" ELSE @]
      OBVIOUS
    <2>2. views' = [views EXCEPT ![i].copy = c]
      BY <1>4, <1>v, <2>1 DEF onReconnectProfile
    <2>3. savedConfig(v) \in SavedProfile
      BY <1>2, ViewIs
    <2>4. c \in Profiles({"configured", "given"})
      BY <2>1, <2>3 DEF SavedProfile, Profiles
    <2>5. [v EXCEPT !.copy = c] \in GoodView
      BY <1>2, <2>4 DEF GoodView
    <2>6. views' = [views EXCEPT ![i] = [v EXCEPT !.copy = c]]
      BY <1>v, <2>2
    <2> QED BY <1>1, <1>2, <1>3, <2>5, <2>6, TabPut, TabsAlone
  <1>5. CASE applyThemeToSession(i)
    <2> DEFINE w == [v EXCEPT !.copy.theme = changes', !.known = @ \cup {changes'}]
    <2>1. views' = [views EXCEPT ![i].copy.theme = changes', ![i].known = @ \union {changes'}]
      BY <1>5 DEF applyThemeToSession
    <2>2. DOMAIN views' = DOMAIN views /\ views' = [j \in DOMAIN views' |-> views'[j]]
          /\ \A j \in DOMAIN views : j # i => views'[j] = views[j]
      BY <2>1
    <2>3. views'[i] = w
      BY <1>1, <1>2, <1>v, <2>1
    <2>4. w \in GoodView
      BY <1>2, <1>3 DEF GoodView, Profiles
    <2> HIDE DEF w
    <2> QED BY <1>1, <1>3, <2>2, <2>3, <2>4, TabPut, TabsAlone
  <1>6. CASE onCloseProfileTab(i)
    <2>1. views' = SubSeq(views, 1, i - 1) \o SubSeq(views, i + 1, Len(views))
      BY <1>6 DEF onCloseProfileTab, RemoveAt
    <2> DEFINE l == SubSeq(views, 1, i - 1)
               r == SubSeq(views, i + 1, Len(views))
    <2>2. l \in Seq(GoodView) /\ r \in Seq(GoodView)
      BY <1>1, <1>2, SubSeqProperties
    <2> HIDE DEF l, r
    <2>3. l \o r \in Seq(GoodView)
      BY <2>2
    <2>4. views' \in Seq(GoodView)
      BY <2>1, <2>3 DEF l, r
    <2> QED BY <1>3, <2>4, TabsAlone
  <1> QED BY <1>4, <1>5, <1>6

\* What a tab has written it knows.
LEMMA WrittenIs ==
  ASSUME views \in Seq(GoodView), NEW i \in DOMAIN views, NEW n \in ProfileNames, NEW c \in SavedProfile,
         Written(i, n, c)
  PROVE  views' \in Seq(GoodView)
  <1>v. PICK v : v = views[i]
    OBVIOUS
  <1>1. v \in GoodView /\ Len(views) \in Nat /\ DOMAIN views = 1 .. Len(views)
    BY <1>v
  <1> DEFINE w == [v EXCEPT !.name = n, !.snapshot = {c}, !.known = @ \union ChangesIn(c)]
  <1>2. views' = [views EXCEPT ![i].name = n, ![i].snapshot = {c}, ![i].known = @ \union ChangesIn(c)]
    BY DEF Written
  <1>3. DOMAIN views' = DOMAIN views /\ views' = [j \in DOMAIN views' |-> views'[j]]
        /\ \A j \in DOMAIN views : j # i => views'[j] = views[j]
    BY <1>2
  <1>4. views'[i] = w
    BY <1>1, <1>v, <1>2
  <1>5. ChangesIn(c) \in SUBSET Nat
    BY ChangesAre DEF SavedProfile
  <1>6. w \in GoodView
    BY <1>1, <1>5 DEF GoodView
  <1> HIDE DEF w
  <1> QED BY <1>3, <1>4, <1>6, TabPut

\* A tab saves: no change is replaced that it does not know.
LEMMA TabSaveGood ==
  ASSUME SavedOK, NEW i \in DOMAIN views,
         onSaveSession(i) \/ \E n \in ProfileNames : onSaveSessionAs(i, n)
  PROVE  SavedOK' /\ OneChanges
  <1>0. views \in Seq(GoodView) /\ changes \in Nat /\ lost = {} /\ FilesOK
    BY DEF SavedOK
  <1>v. PICK v : v = views[i]
    OBVIOUS
  <1>1. v \in GoodView
    BY <1>0, <1>v
  <1>2. PICK c : c = savedConfig(v)
    OBVIOUS
  <1>3. c \in SavedProfile /\ \A d \in v.snapshot : ChangesIn(d) \subseteq v.known
    BY <1>1, <1>2, ViewIs
  <1>4. PICK n \in ProfileNames : /\ ~Opened /\ saveSession(n, c) /\ Written(i, n, c) /\ UNCHANGED <<form, changes>>
                                  /\ lost' = {}
    <2>1. CASE onSaveSession(i)
      <3> DEFINE n == v.name
      <3>1. /\ ~Opened /\ n \in listSessions /\ saveSession(n, c) /\ Written(i, n, c) /\ UNCHANGED <<form, changes>>
            /\ lost' = lost \cup (IF loadSession(n) = v.snapshot THEN Replaced(n, v.known) ELSE {})
        BY <1>2, <1>v, <2>1 DEF onSaveSession
      <3> HIDE DEF n
      <3>2. n \in ProfileNames
        BY <3>1 DEF listSessions
      <3>3. loadSession(n) = v.snapshot => Replaced(n, v.known) = {}
        BY <1>3, NothingReplaced
      <3> QED BY <1>0, <3>1, <3>2, <3>3
    <2>2. CASE \E n \in ProfileNames : onSaveSessionAs(i, n)
      <3>1. PICK n \in ProfileNames : onSaveSessionAs(i, n)
        BY <2>2
      <3> QED BY <1>0, <1>2, <1>v, <3>1 DEF onSaveSessionAs
    <2> QED BY <2>1, <2>2
  <1>5. FilesOK' /\ OnlyTouches(n)
    BY <1>0, <1>3, <1>4, SaveTouches
  <1>6. views' \in Seq(GoodView)
    BY <1>0, <1>3, <1>4, WrittenIs
  <1>7. changes' \in Nat
    BY <1>0, <1>4
  <1> QED BY <1>4, <1>5, <1>6, <1>7, TabsChanged, TouchedOnce

\* A theme chosen is written to the profile, and the tab knows it.
LEMMA ThemeGood ==
  ASSUME SavedOK, NEW i \in DOMAIN views, onQuickProfileTheme(i)
  PROVE  SavedOK' /\ OneChanges
  <1>0. views \in Seq(GoodView) /\ changes \in Nat /\ lost = {} /\ FilesOK
    BY DEF SavedOK
  <1>v. PICK v : v = views[i]
    OBVIOUS
  <1>1. v \in GoodView
    BY <1>0, <1>v
  <1>2. ~Opened /\ NewChange /\ UNCHANGED <<form, lost>>
    BY DEF onQuickProfileTheme
  <1>3. PICK c \in loadSession(v.name) :
          /\ saveSession(v.name, [c EXCEPT !.theme = changes']) /\ views' = [views EXCEPT ![i] = Themed(i, c)]
    BY <1>v DEF onQuickProfileTheme
  <1>4. changes' \in Nat
    BY <1>0, <1>2 DEF NewChange
  <1>t. PICK t \in Nat : t = changes'
    BY <1>4
  <1> DEFINE d == [c EXCEPT !.theme = t]
  <1>5. v.name \in ProfileNames /\ c \in SavedProfile
    BY <1>0, LoadedIs
  <1>6. d \in SavedProfile /\ ChangesIn(d) \subseteq ChangesIn(c) \cup {t}
    BY <1>5 DEF SavedProfile, Profiles, ChangesIn
  <1>7. saveSession(v.name, d)
    BY <1>3, <1>t
  <1> HIDE DEF d
  <1>8. FilesOK' /\ OnlyTouches(v.name)
    BY <1>0, <1>5, <1>6, <1>7, SaveTouches
  <1> DEFINE w == [v EXCEPT !.copy.theme = t, !.known = @ \cup {t}, !.snapshot = IF {c} = @ THEN {d} ELSE @]
  <1>9. Themed(i, c) = w
    BY <1>v, <1>t DEF Themed, d
  <1>10. w \in GoodView
    <2> DEFINE s == IF {c} = v.snapshot THEN {d} ELSE v.snapshot
    <2>1. s \subseteq SavedProfile /\ \A e \in s : ChangesIn(e) \subseteq v.known \cup {t}
      BY <1>1, <1>6, ViewIs
    <2>2. w = [v EXCEPT !.copy.theme = t, !.known = @ \cup {t}, !.snapshot = s]
      OBVIOUS
    <2> HIDE DEF s, w
    <2> QED BY <1>1, <2>1, <2>2 DEF GoodView, Profiles
  <1> HIDE DEF w
  <1>11. views' \in Seq(GoodView)
    BY <1>0, <1>3, <1>9, <1>10
  <1>12. lost' = {}
    BY <1>0, <1>2
  <1> QED BY <1>2, <1>4, <1>5, <1>8, <1>11, <1>12, TabsChanged, TouchedOnce

LEMMA SavedStarts ==
  ASSUME SavedInit
  PROVE  SavedOK
  <1>1. /\ files = [n \in ProfileNames |-> {}] /\ form = <<>> /\ views = <<>> /\ changes = 0 /\ lost = {}
    BY DEF SavedInit
  <1>2. PICK n \in ProfileNames, s \in {"none", "linked"} :
          legacy = [p \in LegacyPaths |->
                      IF p = LegacyPath[n]
                      THEN {[name |-> n, profile |-> [NewProfile EXCEPT !.script = s, !.device = "type"]]}
                      ELSE {}]
    BY DEF SavedInit
  <1> DEFINE c == [NewProfile EXCEPT !.script = s, !.device = "type"]
  <1>3. c \in Profiles({"configured", "type"}) /\ ChangesIn(c) = {}
    BY DEF NewProfile, Profiles, ChangesIn
  <1> HIDE DEF c
  <1>4. [name |-> n, profile |-> c] \in OldFile
    BY <1>3 DEF OldFile
  <1>5. /\ legacy \in [LegacyPaths -> SUBSET OldFile]
        /\ \A p \in LegacyPaths : \A f \in legacy[p] : ChangesIn(f.profile) = {}
    BY <1>2, <1>3, <1>4 DEF c
  <1>6. FilesOK
    BY <1>1, <1>5 DEF FilesOK
  <1>7. FormKnows
    <2>1. \A f \in GoodForm : <<f>> # <<>>
      OBVIOUS
    <2> QED BY <1>1, <2>1 DEF FormKnows
  <1>8. views \in Seq(GoodView)
    BY <1>1
  <1> QED BY <1>1, <1>6, <1>7, <1>8 DEF SavedOK

LEMMA SavedStep ==
  ASSUME SavedOK, SavedNext
  PROVE  SavedOK' /\ OneChanges
  <1>1. CASE onConnectOpens
    BY <1>1, OpensGood
  <1>2. CASE onSessionComboNew \/ typeField \/ typeVariable \/ onScriptComboChanged \/ detachScript
             \/ onEditScriptClicked
    BY <1>2, TypingGood
  <1>3. CASE saveCurrentSession \/ \E n \in ProfileNames : saveCurrentAsSession(n)
    BY <1>3, SaveGood
  <1>4. CASE onCancelClicked
    <2>1. UNCHANGED <<FilesOf, views, changes, lost>> /\ form' = <<>>
      BY <1>4 DEF onCancelClicked
    <2>2. FilesOK' /\ \A n : loadSession(n)' = loadSession(n)
      BY <2>1, NothingTouched DEF SavedOK
    <2>3. \A f \in GoodForm : <<f>> # <<>>
      OBVIOUS
    <2> QED BY <2>1, <2>2, <2>3 DEF SavedOK, FormKnows, OneChanges
  <1>5. CASE onConnectClicked
    BY <1>5, ConnectGood
  <1>6. CASE \E n \in ProfileNames : loadIntoForm(n) \/ onDeleteSessionClicked(n)
    BY <1>6, LoadGood, DeleteGood
  <1>7. CASE \/ \E n \in ProfileNames : onSavedSessionChosen(n)
             \/ \E i \in DOMAIN views : onDuplicateProfile(views[i])
    BY <1>7, OpenGood
  <1>8. CASE \E i \in DOMAIN views : onReconnectProfile(i) \/ applyThemeToSession(i) \/ onCloseProfileTab(i)
    BY <1>8, TabGood
  <1>9. CASE \E i \in DOMAIN views : onSaveSession(i) \/ \E n \in ProfileNames : onSaveSessionAs(i, n)
    BY <1>9, TabSaveGood
  <1>10. CASE \E i \in DOMAIN views : onQuickProfileTheme(i)
    BY <1>10, ThemeGood
  <1> QED BY <1>1, <1>2, <1>3, <1>4, <1>5, <1>6, <1>7, <1>8, <1>9, <1>10 DEF SavedNext

LEMMA SavedStutters ==
  ASSUME SavedOK, UNCHANGED savedVars
  PROVE  SavedOK'
  <1>1. FilesOK' /\ \A n : loadSession(n)' = loadSession(n)
    BY NothingTouched DEF SavedOK, savedVars, FilesOf
  <1> QED BY <1>1 DEF SavedOK, FormKnows, savedVars

LEMMA SavedShows ==
  ASSUME SavedOK
  PROVE  NoSilentLoss /\ DeviceAsConfigured /\ VariablesAreTheProfiles
  <1>1. NoSilentLoss
    BY DEF SavedOK, NoSilentLoss
  <1>2. DeviceAsConfigured
    BY LoadedIs DEF SavedOK, DeviceAsConfigured, SavedProfile, Profiles
  <1>3. VariablesAreTheProfiles
    BY FormIs DEF VariablesAreTheProfiles, GoodForm
  <1> QED BY <1>1, <1>2, <1>3

\* Profiles lose nothing, however many there are and however long they are used:
\* a save that asks nothing replaces no change its tab or dialog did not know, a
\* profile keeps the device name the user configured, no variable is left in the
\* form from another profile, and what is saved or deleted is one profile, also
\* when the files an old version wrote collide (SessionManager, ConnectDialog,
\* onSaveSession, onQuickThemeChosen).
THEOREM ProfilesStayKept == SavedSpec => ProfilesKept
  <1> DEFINE Kept == /\ NoSilentLoss' /\ DeviceAsConfigured' /\ VariablesAreTheProfiles'
                     /\ \A m, n \in ProfileNames :
                          loadSession(m)' # loadSession(m) /\ loadSession(n)' # loadSession(n) => m = n
  <1>1. SavedInit => SavedOK
    BY SavedStarts
  <1>2. SavedOK /\ [SavedNext]_savedVars => SavedOK'
    BY SavedStep, SavedStutters
  <1>3. SavedOK /\ SavedOK' /\ [SavedNext]_savedVars => [Kept]_savedVars
    <2>1. SavedOK' => NoSilentLoss' /\ DeviceAsConfigured' /\ VariablesAreTheProfiles'
      BY SavedShows, PTL
    <2>2. SavedOK /\ SavedNext => OneChanges
      BY SavedStep
    <2> QED BY <2>1, <2>2 DEF OneChanges
  <1>4. SavedSpec => [][Kept]_savedVars
    BY <1>1, <1>2, <1>3, PTL DEF SavedSpec
  <1> QED BY <1>4 DEF ProfilesKept
===============================================================================
