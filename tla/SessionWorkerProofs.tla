-------------------------- MODULE SessionWorkerProofs --------------------------
(***************************************************************************)
(* Proofs about SessionWorker for every set of profiles and every bound:   *)
(* type correctness, the safety invariants of a stopped and of a           *)
(* reconnecting session, and the refinement of SessionPromise.             *)
(***************************************************************************)
EXTENDS SessionWorker, TLAPS

Outcomes == Lifecycle!ConnectOutcomes
              \cup UNION {Lifecycle!EventOutcomes(s) : s \in ConnectionState}

InPlace == ConnectionState \cup {"connected", "disconnected", "errorOccurred"}
Handled == InPlace \cup {"dataReceived"}

USE ConfigsAssumption, WorkerBoundsAssumption

-----------------------------------------------------------------------------
(* The client's outcomes.                                                  *)

Shape(o) ==
  /\ o.next \in ConnectionState
  /\ o.signals \in Seq(Handled)
  /\ Len(o.signals) \in 1..4
  /\ Direct(o) \in 0..Len(o.signals)
  /\ \A i \in 1..Direct(o) : o.signals[i] \in InPlace

Entries(o) ==
  /\ o.next \in ConnectionState
  /\ o.signals \in Seq(Handled)
  /\ Len(o.signals) \in 1..4
  /\ \A i \in 1..(Len(o.signals) - 1) : o.signals[i] \in InPlace

\* A record is always the last signal of an outcome, so what comes before it
\* is handled in place.
LEMMA ShapeOfEntries ==
  ASSUME NEW o, Entries(o)
  PROVE  Shape(o)
  <1>1. DOMAIN o.signals = 1..Len(o.signals)
    BY DEF Entries
  <1>2. \A i \in 1..Len(o.signals) : o.signals[i] \in Handled
    BY DEF Entries
  <1>3. Len(o.signals) \in 1..4
    BY DEF Entries
  <1>6. o.next \in ConnectionState /\ o.signals \in Seq(Handled)
    BY DEF Entries
  <1>4. CASE Received(o)
    <2>1. Direct(o) = Len(o.signals) - 1
      BY <1>4 DEF Direct
    <2>4. \A n \in 1..4 : n - 1 \in 0..n
      OBVIOUS
    <2>2. Direct(o) \in 0..Len(o.signals)
      BY <1>3, <2>1, <2>4
    <2>3. \A i \in 1..Direct(o) : o.signals[i] \in InPlace
      BY <2>1 DEF Entries
    <2> QED BY <1>3, <1>6, <2>2, <2>3 DEF Shape
  <1>5. CASE ~Received(o)
    <2>1. Direct(o) = Len(o.signals)
      BY <1>5 DEF Direct
    <2>2. \A i \in 1..Len(o.signals) : o.signals[i] # "dataReceived"
      BY <1>1, <1>5 DEF Received
    <2>3. \A i \in 1..Direct(o) : o.signals[i] \in InPlace
      BY <1>2, <2>1, <2>2 DEF Handled
    <2>4. Direct(o) \in 0..Len(o.signals)
      BY <1>3, <2>1
    <2> QED BY <1>3, <1>6, <2>3, <2>4 DEF Shape
  <1> QED BY <1>4, <1>5

\* An outcome of one signal is well formed when its signal is.
LEMMA ShapeOfOne ==
  ASSUME NEW n \in ConnectionState, NEW a \in Handled
  PROVE  Shape([next |-> n, signals |-> <<a>>])
  <1> DEFINE o == [next |-> n, signals |-> <<a>>]
  <1>1. o.next = n /\ o.signals = <<a>> /\ Len(o.signals) = 1
    OBVIOUS
  <1>2. o.signals \in Seq(Handled)
    BY <1>1
  <1>3. \A i \in 1..(Len(o.signals) - 1) : o.signals[i] \in InPlace
    BY <1>1
  <1>4. Entries(o)
    BY <1>1, <1>2, <1>3 DEF Entries
  <1> HIDE DEF o
  <1>5. Shape(o)
    BY <1>4, ShapeOfEntries
  <1> QED BY <1>5 DEF o

\* The same for two signals, of which the first is handled in place.
LEMMA ShapeOfTwo ==
  ASSUME NEW n \in ConnectionState, NEW a \in InPlace, NEW b \in Handled
  PROVE  Shape([next |-> n, signals |-> <<a, b>>])
  <1> DEFINE o == [next |-> n, signals |-> <<a, b>>]
  <1>1. o.next = n /\ o.signals = <<a, b>> /\ Len(o.signals) = 2
    OBVIOUS
  <1>2. o.signals \in Seq(Handled)
    BY <1>1 DEF Handled
  <1>3. \A i \in 1..(Len(o.signals) - 1) : o.signals[i] \in InPlace
    BY <1>1
  <1>4. Entries(o)
    BY <1>1, <1>2, <1>3 DEF Entries
  <1> HIDE DEF o
  <1>5. Shape(o)
    BY <1>4, ShapeOfEntries
  <1> QED BY <1>5 DEF o

\* The same for three signals.
LEMMA ShapeOfThree ==
  ASSUME NEW n \in ConnectionState, NEW a \in InPlace, NEW b \in InPlace,
         NEW c \in Handled
  PROVE  Shape([next |-> n, signals |-> <<a, b, c>>])
  <1> DEFINE o == [next |-> n, signals |-> <<a, b, c>>]
  <1>1. o.next = n /\ o.signals = <<a, b, c>> /\ Len(o.signals) = 3
    OBVIOUS
  <1>2. o.signals \in Seq(Handled)
    BY <1>1 DEF Handled
  <1>3. \A i \in 1..(Len(o.signals) - 1) : o.signals[i] \in InPlace
    BY <1>1
  <1>4. Entries(o)
    BY <1>1, <1>2, <1>3 DEF Entries
  <1> HIDE DEF o
  <1>5. Shape(o)
    BY <1>4, ShapeOfEntries
  <1> QED BY <1>5 DEF o

\* The same for four signals, the longest outcome of a client.
LEMMA ShapeOfFour ==
  ASSUME NEW n \in ConnectionState, NEW a \in InPlace, NEW b \in InPlace,
         NEW c \in InPlace, NEW d \in Handled
  PROVE  Shape([next |-> n, signals |-> <<a, b, c, d>>])
  <1> DEFINE o == [next |-> n, signals |-> <<a, b, c, d>>]
  <1>1. o.next = n /\ o.signals = <<a, b, c, d>> /\ Len(o.signals) = 4
    OBVIOUS
  <1>2. o.signals \in Seq(Handled)
    BY <1>1 DEF Handled
  <1>3. \A i \in 1..(Len(o.signals) - 1) : o.signals[i] \in InPlace
    BY <1>1
  <1>4. Entries(o)
    BY <1>1, <1>2, <1>3 DEF Entries
  <1> HIDE DEF o
  <1>5. Shape(o)
    BY <1>4, ShapeOfEntries
  <1> QED BY <1>5 DEF o

\* Every outcome leads to a state and has signals of which those handled in
\* place are states or signals the worker passes on (ClientLifecycle).
LEMMA OutcomeShape ==
  ASSUME NEW o \in Outcomes
  PROVE  Shape(o)
  <1> USE DEF ConnectionState, InPlace, Handled
  <1>1. CASE o \in Lifecycle!ConnectOutcomes
    BY <1>1, ShapeOfOne, ShapeOfThree DEF Lifecycle!ConnectOutcomes
  <1>2. ASSUME NEW s \in ConnectionState, o \in Lifecycle!EventOutcomes(s)
        PROVE  Shape(o)
    <2>1. CASE o \in Lifecycle!Lost \cup Lifecycle!Closed
      BY <2>1, ShapeOfTwo DEF Lifecycle!Lost, Lifecycle!Closed
    <2>2. CASE o \in Lifecycle!GaveUp
      BY <2>2, ShapeOfTwo, ShapeOfThree DEF Lifecycle!GaveUp
    <2>3. CASE o \in Lifecycle!CertificateRefused
      BY <2>3, ShapeOfFour DEF Lifecycle!CertificateRefused
    <2>4. CASE o \in { [next |-> "Negotiating", signals |-> <<"Negotiating">>],
                       [next |-> "Connected", signals |-> <<"dataReceived">>] }
      BY <2>4, ShapeOfOne
    <2>5. CASE o \in { [next |-> "Connected", signals |-> <<"Connected", "connected">>],
                       [next |-> "Connected",
                        signals |-> <<"Connected", "connected", "dataReceived">>] }
      BY <2>5, ShapeOfTwo, ShapeOfThree
    <2> QED BY <1>2, <2>1, <2>2, <2>3, <2>4, <2>5
      DEF Lifecycle!EventOutcomes
  <1> QED BY <1>1, <1>2 DEF Outcomes

\* What the worker's decisions turn on: an outcome connects only on the way to
\* Connected, and it ends the connection exactly if it leaves the client in
\* Disconnected or Error (ClientLifecycle).
Turns(o) ==
  /\ Connects(o) => o.next = "Connected"
  /\ o.next \in {"Disconnected", "Error"} <=>
       \E i \in 1..Direct(o) : Ends(o.signals, i)

\* An outcome turns where the first signal that ends the connection stands.
LEMMA TurnsEnding ==
  ASSUME NEW o \in Outcomes, o.next \in {"Disconnected", "Error"},
         ~Connects(o),
         \/ o.signals[1] \in {"Disconnected", "Error"} /\ 1 <= Direct(o)
         \/ /\ o.signals[2] \in {"Disconnected", "Error"} /\ 2 <= Direct(o)
            /\ o.signals[1] \notin {"Disconnected", "Error"}
  PROVE  Turns(o)
  <1>1. Direct(o) \in Nat
    BY OutcomeShape DEF Shape
  <1>2. CASE o.signals[1] \in {"Disconnected", "Error"} /\ 1 <= Direct(o)
    <2>1. Ends(o.signals, 1)
      BY <1>2 DEF Ends
    <2> QED BY <1>1, <1>2, <2>1 DEF Turns
  <1>3. CASE /\ o.signals[2] \in {"Disconnected", "Error"} /\ 2 <= Direct(o)
             /\ o.signals[1] \notin {"Disconnected", "Error"}
    <2>1. Ends(o.signals, 2)
      BY <1>3 DEF Ends
    <2> QED BY <1>1, <1>3, <2>1 DEF Turns
  <1> QED BY <1>2, <1>3

\* Without such a signal the worker passes the whole outcome on.
LEMMA TurnsNot ==
  ASSUME NEW o, o.next \notin {"Disconnected", "Error"},
         Connects(o) => o.next = "Connected",
         \A i \in 1..Direct(o) : o.signals[i] \notin {"Disconnected", "Error"}
  PROVE  Turns(o)
  BY DEF Turns, Ends

\* An ending outcome written out: its signals are all handled in place.
LEMMA TurnsTuple ==
  ASSUME NEW n \in {"Disconnected", "Error"},
         NEW a \in InPlace, NEW b \in InPlace \ {"Connected"},
         NEW c \in InPlace \ {"Connected"}, NEW d \in InPlace \ {"Connected"},
         NEW o \in Outcomes, o.next = n,
         o.signals \in {<<a, b>>, <<a, b, c>>, <<a, b, c, d>>},
         a # "Connected",
         \/ a \in {"Disconnected", "Error"}
         \/ a \notin {"Disconnected", "Error"} /\ b \in {"Disconnected", "Error"}
  PROVE  Turns(o)
  <1>1. /\ Len(o.signals) \in 2..4 /\ DOMAIN o.signals = 1..Len(o.signals)
        /\ o.signals[1] = a /\ o.signals[2] = b
    OBVIOUS
  <1>2. \A i \in DOMAIN o.signals : o.signals[i] \in {a, b, c, d}
    OBVIOUS
  <1>3. ~Received(o) /\ ~Connects(o)
    BY <1>2 DEF Received, Connects, InPlace, ConnectionState
  <1>4. 1 <= Direct(o) /\ 2 <= Direct(o)
    BY <1>1, <1>3 DEF Direct
  <1> QED BY <1>1, <1>3, <1>4, TurnsEnding

\* Every outcome of a connection attempt is a run of such turns.
LEMMA OutcomeTurns ==
  ASSUME NEW o \in Outcomes
  PROVE  Turns(o)
  <1> USE DEF ConnectionState, InPlace
  <1>1. CASE o.next = "Error" /\ o.signals \in
               {<<"Connecting", "Error", "errorOccurred">>, <<"Error", "errorOccurred">>}
    BY <1>1, TurnsTuple
  <1>2. CASE o.next = "Disconnected" /\ o.signals \in
               {<<"Disconnected", "disconnected">>, <<"Disconnected", "errorOccurred">>,
                <<"Disconnected", "disconnected", "errorOccurred">>,
                <<"Error", "errorOccurred", "Disconnected", "disconnected">>}
    BY <1>2, TurnsTuple
  <1>3. CASE /\ o.next \in {"Connecting", "Negotiating", "Connected"}
             /\ o.signals \in {<<"Connecting">>, <<"Negotiating">>,
                  <<"Connected", "connected">>, <<"dataReceived">>,
                  <<"Connected", "connected", "dataReceived">>}
             /\ o.next # "Connected" => o.signals = <<o.next>>
    <2>1. \A i \in DOMAIN o.signals : o.signals[i] \notin {"Disconnected", "Error"}
      BY <1>3
    <2>2. \A i \in 1..Direct(o) : i \in DOMAIN o.signals
      BY OutcomeShape DEF Shape
    <2>3. Connects(o) => o.next = "Connected"
      BY <1>3 DEF Connects
    <2> QED BY <1>3, <2>1, <2>2, <2>3, TurnsNot
  <1>4. CASE o \in Lifecycle!ConnectOutcomes
    BY <1>1, <1>3, <1>4 DEF Lifecycle!ConnectOutcomes
  <1>5. ASSUME NEW s \in ConnectionState, o \in Lifecycle!EventOutcomes(s)
        PROVE  Turns(o)
    <2>1. CASE o \in Lifecycle!Lost \cup Lifecycle!Closed \cup Lifecycle!GaveUp
                      \cup Lifecycle!CertificateRefused
      BY <2>1, <1>1, <1>2 DEF Lifecycle!Lost, Lifecycle!Closed, Lifecycle!GaveUp,
        Lifecycle!CertificateRefused
    <2>2. CASE o \in {
            [next |-> "Negotiating", signals |-> <<"Negotiating">>],
            [next |-> "Connected", signals |-> <<"dataReceived">>],
            [next |-> "Connected", signals |-> <<"Connected", "connected">>],
            [next |-> "Connected",
             signals |-> <<"Connected", "connected", "dataReceived">>] }
      BY <2>2, <1>3
    <2> QED BY <1>5, <2>1, <2>2 DEF Lifecycle!EventOutcomes
  <1> QED BY <1>4, <1>5 DEF Outcomes

-----------------------------------------------------------------------------
(* Emitting.                                                               *)

\* The state a signal carries is a connection state.
LEMMA SignalState ==
  ASSUME NEW signal \in Signal, signal.kind = "state"
  PROVE  signal.state \in ConnectionState
  BY DEF Signal

\* Emitting signals of the worker leaves its report a connection state.
LEMMA EmitType ==
  ASSUME NEW sequence \in Seq(Signal), reported \in ConnectionState,
         Emit(sequence)
  PROVE  emitted' \in Seq(Signal) /\ reported' \in ConnectionState
  <1>1. CASE \E i \in DOMAIN sequence : IsLastState(sequence, i)
    <2> DEFINE last == CHOOSE i \in DOMAIN sequence : IsLastState(sequence, i)
    <2>1. last \in DOMAIN sequence /\ IsLastState(sequence, last)
      BY <1>1
    <2>2. sequence[last] \in Signal /\ sequence[last].kind = "state"
      BY <2>1 DEF IsLastState
    <2>3. sequence[last].state \in ConnectionState
      BY <2>2, SignalState
    <2> QED BY <1>1, <2>3 DEF Emit
  <1>2. CASE ~\E i \in DOMAIN sequence : IsLastState(sequence, i)
    BY <1>2 DEF Emit
  <1> QED BY <1>1, <1>2

\* What the worker makes of a client's signals are signals of its own.
LEMMA ForwardedType ==
  ASSUME NEW signal \in InPlace
  PROVE  Forwarded(signal) \in Signal
  BY DEF Forwarded, State, Plain, InPlace, Signal, ConnectionState

\* What TypeOK says of the variables an outcome of the client can change.
ClientTypes ==
  /\ client \in ConnectionState \cup {"none"}
  /\ ever \in BOOLEAN
  /\ attempt \in Nat
  /\ timer \in BOOLEAN
  /\ inbox \in Seq(Event)
  /\ posted \in 0..MaxData
  /\ reported \in ConnectionState
  /\ emitted \in Seq(Signal)

\* Passing an outcome on gives what it changes values of their types.
LEMMA PassOnType ==
  ASSUME TypeOK, NEW o \in Outcomes, NEW active \in BOOLEAN, PassOn(o, active)
  PROVE  /\ client' \in ConnectionState \cup {"none"}
         /\ attempt' \in Nat
         /\ timer' \in BOOLEAN
         /\ reported' \in ConnectionState
         /\ emitted' \in Seq(Signal)
  <1>1. Shape(o)
    BY OutcomeShape
  <1> DEFINE sequence == [i \in 1..Direct(o) |-> Forwarded(o.signals[i])]
  <1>2. Direct(o) \in Nat
    BY <1>1 DEF Shape
  <1>3. \A i \in 1..Direct(o) : Forwarded(o.signals[i]) \in Signal
    BY <1>1, ForwardedType DEF Shape
  <1>4. sequence \in Seq(Signal)
    BY <1>2, <1>3
  <1>5. Emit(sequence)
    BY DEF PassOn
  <1>6. reported \in ConnectionState /\ attempt \in Nat
    BY DEF TypeOK
  <1>7. emitted' \in Seq(Signal) /\ reported' \in ConnectionState
    <2> HIDE DEF sequence
    <2> QED BY <1>4, <1>5, <1>6, EmitType
  <1>8. attempt' \in Nat
    BY <1>6 DEF PassOn, AttemptAfter
  <1>9. client' \in ConnectionState \cup {"none"}
    BY <1>1 DEF PassOn, Shape
  <1> QED BY <1>7, <1>8, <1>9 DEF PassOn

\* So does scheduling a reconnect, which drops the client.
LEMMA ScheduleReconnectType ==
  ASSUME TypeOK, NEW o \in Outcomes, NEW active \in BOOLEAN,
         NEW i \in 1..Direct(o), ScheduleReconnect(o, i, active)
  PROVE  /\ client' \in ConnectionState \cup {"none"}
         /\ attempt' \in Nat
         /\ timer' \in BOOLEAN
         /\ reported' \in ConnectionState
         /\ emitted' \in Seq(Signal)
  <1>1. Shape(o)
    BY OutcomeShape
  <1> DEFINE scheduled == [kind |-> "reconnectScheduled", attempt |-> attempt']
             sequence ==
               [j \in 1..(i + 1) |->
                  IF j <= i THEN Forwarded(o.signals[j]) ELSE scheduled]
  <1>2. i \in Nat /\ \A j \in 1..i : j \in 1..Direct(o)
    BY <1>1 DEF Shape
  <1>3. reported \in ConnectionState /\ attempt \in Nat
    BY DEF TypeOK
  <1>4. attempt' \in Nat
    BY <1>3 DEF ScheduleReconnect, AttemptAfter
  <1>5. scheduled \in Signal
    BY <1>4 DEF Signal
  <1>6. \A j \in 1..i : Forwarded(o.signals[j]) \in Signal
    BY <1>1, <1>2, ForwardedType DEF Shape
  <1>7. sequence \in Seq(Signal)
    <2> HIDE DEF scheduled
    <2>1. \A j \in 1..(i + 1) : j <= i => j \in 1..i
      BY <1>2
    <2>2. \A j \in 1..(i + 1) : sequence[j] \in Signal
      BY <1>5, <1>6, <2>1
    <2> QED BY <1>2, <2>2
  <1>8. Emit(sequence)
    BY DEF ScheduleReconnect
  <1>9. emitted' \in Seq(Signal) /\ reported' \in ConnectionState
    <2> HIDE DEF sequence
    <2> QED BY <1>3, <1>7, <1>8, EmitType
  <1> QED BY <1>4, <1>9 DEF ScheduleReconnect

\* So does handling an outcome, whichever of the two it leads to.
LEMMA HandleClientType ==
  ASSUME TypeOK, NEW o \in Outcomes, NEW active \in BOOLEAN,
         clients' \in 0..MaxClients, HandleClient(o, active)
  PROVE  ClientTypes'
  <1>1. ever' \in BOOLEAN
    BY DEF HandleClient, EverAfter, TypeOK, Connects
  <1>2. posted' \in 0..MaxData
    BY DEF HandleClient, TypeOK
  <1>3. inbox' \in Seq(Event)
    <2>1. [kind |-> "data", from |-> clients'] \in Event
      BY DEF Event
    <2>2. inbox \in Seq(Event)
      BY DEF TypeOK
    <2> QED BY <2>1, <2>2 DEF HandleClient
  <1>4. CASE PassOn(o, active)
    BY <1>1, <1>2, <1>3, <1>4, PassOnType DEF ClientTypes
  <1>5. CASE \E i \in 1..Direct(o) : ScheduleReconnect(o, i, active)
    BY <1>1, <1>2, <1>3, <1>5, ScheduleReconnectType DEF ClientTypes
  <1> QED BY <1>4, <1>5 DEF HandleClient

-----------------------------------------------------------------------------
(* Type correctness.                                                       *)

\* So does stop(), in every state.
LEMMA StopConnectionType ==
  ASSUME TypeOK, StopConnection
  PROVE  /\ client' \in ConnectionState \cup {"none"}
         /\ clients' \in 0..MaxClients
         /\ ever' \in BOOLEAN /\ attempt' \in Nat /\ timer' \in BOOLEAN
         /\ stopping' \in BOOLEAN
         /\ replay' \in {"off", "armed", "idle"} /\ index' \in Nat
         /\ reported' \in ConnectionState /\ emitted' \in Seq(Signal)
  <1> DEFINE forTimer == IF timer THEN <<State("Disconnected")>> ELSE <<>>
             forReplay == IF replay # "off"
                          THEN <<State("Disconnected"), Plain("disconnected")>>
                          ELSE <<>>
             forClient == IF client # "none"
                          THEN <<State("Disconnected"), Plain("disconnected")>>
                          ELSE <<>>
  <1>1. State("Disconnected") \in Signal /\ Plain("disconnected") \in Signal
    BY DEF State, Plain, Signal, ConnectionState
  <1>2. forTimer \in Seq(Signal) /\ forReplay \in Seq(Signal)
          /\ forClient \in Seq(Signal)
    BY <1>1
  <1>3. Emit(forTimer \o forReplay \o forClient)
    BY DEF StopConnection
  <1>4. reported \in ConnectionState
    BY DEF TypeOK
  <1>5. emitted' \in Seq(Signal) /\ reported' \in ConnectionState
    <2> HIDE DEF forTimer, forReplay, forClient
    <2>1. forTimer \o forReplay \o forClient \in Seq(Signal)
      BY <1>2
    <2> QED BY <1>3, <1>4, <2>1, EmitType
  <1> QED BY <1>5 DEF StopConnection, TypeOK

\* Emitting none, one or two of the worker's own signals keeps the types.
LEMMA EmitPlainTypes ==
  ASSUME TypeOK
  PROVE  /\ Emit(<<>>) => emitted' \in Seq(Signal) /\ reported' \in ConnectionState
         /\ \A s \in Signal : Emit(<<s>>) =>
              emitted' \in Seq(Signal) /\ reported' \in ConnectionState
         /\ \A s, t \in Signal : Emit(<<s, t>>) =>
              emitted' \in Seq(Signal) /\ reported' \in ConnectionState
  <1>1. reported \in ConnectionState
    BY DEF TypeOK
  <1>2. <<>> \in Seq(Signal)
    OBVIOUS
  <1>3. \A s \in Signal : <<s>> \in Seq(Signal)
    OBVIOUS
  <1>4. \A s, t \in Signal : <<s, t>> \in Seq(Signal)
    OBVIOUS
  <1> QED BY <1>1, <1>2, <1>3, <1>4, EmitType

\* Posting a stop keeps all types.
LEMMA PostStopType ==
  ASSUME TypeOK, PostStop, quit' \in BOOLEAN
  PROVE  TypeOK'
  <1>1. [kind |-> "stop"] \in Event
    BY DEF Event
  <1>2. inbox' \in Seq(Event)
    BY <1>1 DEF PostStop, TypeOK
  <1>3. emitted' \in Seq(Signal) /\ reported' \in ConnectionState
    BY EmitPlainTypes DEF PostStop
  <1>4. stops' \in 0..MaxStops
    BY DEF PostStop, TypeOK
  <1> QED BY <1>2, <1>3, <1>4 DEF PostStop, TypeOK, connectionVars, replayVars

\* Creating a client and connecting it keeps the types of what it changes.
LEMMA CreateType ==
  ASSUME TypeOK, CreateClientAndConnect
  PROVE  ClientTypes' /\ clients' \in 0..MaxClients
  <1>1. clients' \in 0..MaxClients
    BY DEF CreateClientAndConnect, TypeOK
  <1>2. PICK o \in Lifecycle!ConnectOutcomes : HandleClient(o, FALSE)
    BY DEF CreateClientAndConnect
  <1>3. o \in Outcomes
    BY DEF Outcomes
  <1> QED BY <1>1, <1>2, <1>3, HandleClientType

\* The types of all variables are preserved by every step (module SessionWorker).
LEMMA TypeStep ==
  ASSUME TypeOK, [Next]_vars
  PROVE  TypeOK'
  <1>1. CASE StartSession
    <2>1. ClientTypes' /\ clients' \in 0..MaxClients
      BY <1>1, CreateType DEF StartSession
    <2> QED BY <1>1, <2>1 DEF StartSession, TypeOK, ClientTypes, replayVars
  <1>2. CASE StartReplay
    <2>1. /\ State("Connected") \in Signal /\ Plain("connected") \in Signal
          /\ State("Disconnected") \in Signal /\ Plain("errorOccurred") \in Signal
      BY DEF State, Plain, Signal, ConnectionState
    <2>2. emitted' \in Seq(Signal) /\ reported' \in ConnectionState
      BY <1>2, <2>1, EmitPlainTypes DEF StartReplay
    <2> QED BY <1>2, <2>2
      DEF StartReplay, TypeOK, connectionVars, queueVars, replayVars
  <1>3. CASE ClientEvent
    <2>1. PICK o \in Lifecycle!EventOutcomes(client) : HandleClient(o, timer)
      BY <1>3 DEF ClientEvent
    <2>2. client \in ConnectionState /\ timer \in BOOLEAN
      BY <1>3 DEF ClientEvent, TypeOK
    <2>3. o \in Outcomes
      BY <2>2 DEF Outcomes
    <2>4. clients' \in 0..MaxClients
      BY <1>3 DEF ClientEvent, TypeOK
    <2>5. ClientTypes'
      BY <2>1, <2>2, <2>3, <2>4, HandleClientType
    <2> QED BY <1>3, <2>4, <2>5
      DEF ClientEvent, TypeOK, ClientTypes, threadVars, replayVars
  <1>4. CASE ReconnectTimeout
    <2>1. CASE stopping \/ client # "none"
      <3>1. emitted' \in Seq(Signal) /\ reported' \in ConnectionState
        BY <1>4, <2>1, EmitPlainTypes DEF ReconnectTimeout
      <3> QED BY <1>4, <2>1, <3>1
        DEF ReconnectTimeout, TypeOK, threadVars, replayVars
    <2>2. CASE ~(stopping \/ client # "none")
      <3>1. ClientTypes' /\ clients' \in 0..MaxClients
        BY <1>4, <2>2, CreateType DEF ReconnectTimeout
      <3> QED BY <1>4, <3>1
        DEF ReconnectTimeout, TypeOK, ClientTypes, threadVars, replayVars
    <2> QED BY <2>1, <2>2
  <1>5. CASE DeliverData
    <2>1. inbox \in Seq(Event) /\ inbox # <<>> /\ Head(inbox).kind = "data"
      BY <1>5 DEF DeliverData, TypeOK
    <2>2. Head(inbox) \in Event /\ inbox' \in Seq(Event)
      BY <1>5, <2>1 DEF DeliverData
    <2>3. [kind |-> "appData", from |-> Head(inbox).from] \in Signal
      BY <2>1, <2>2 DEF Event, Signal
    <2>4. emitted' \in Seq(Signal) /\ reported' \in ConnectionState
      BY <1>5, <2>3, EmitPlainTypes DEF DeliverData
    <2> QED BY <1>5, <2>2, <2>4
      DEF DeliverData, TypeOK, threadVars, connectionVars, replayVars
  <1>6. CASE DeliverStop
    <2>1. StopConnection
      BY <1>6 DEF DeliverStop
    <2>2. inbox' \in Seq(Event)
      BY <1>6 DEF DeliverStop, TypeOK
    <2> QED BY <1>6, <2>1, <2>2, StopConnectionType
      DEF DeliverStop, TypeOK, threadVars
  <1>7. CASE ReplayTick
    <2>1. [kind |-> "appData", from |-> 0] \in Signal
            /\ Plain("replayFinished") \in Signal
      BY DEF Plain, Signal
    <2>2. emitted' \in Seq(Signal) /\ reported' \in ConnectionState
      BY <1>7, <2>1, EmitPlainTypes DEF ReplayTick
    <2> QED BY <1>7, <2>2
      DEF ReplayTick, TypeOK, threadVars, connectionVars, queueVars
  <1>8. CASE RequestDisconnect
    BY <1>8, PostStopType DEF RequestDisconnect, TypeOK
  <1>9. CASE CloseSession
    BY <1>9, PostStopType DEF CloseSession
  <1>10. CASE FinishThread
    <2>1. StopConnection /\ inbox' \in Seq(Event)
      BY <1>10 DEF FinishThread
    <2> QED BY <1>10, <2>1, StopConnectionType DEF FinishThread, TypeOK
  <1>11. CASE UNCHANGED vars
    BY <1>11 DEF TypeOK, vars
  <1> QED BY <1>1, <1>2, <1>3, <1>4, <1>5, <1>6, <1>7, <1>8, <1>9, <1>10, <1>11
    DEF Next

\* The types hold at the start.
LEMMA TypeInit == Init => TypeOK
  <1> SUFFICES ASSUME Init PROVE TypeOK
    OBVIOUS
  <1>1. inbox \in Seq(Event) /\ emitted \in Seq(Signal)
    BY DEF Init
  <1>2. 0 \in 0..MaxClients /\ 0 \in 0..MaxData /\ 0 \in 0..MaxStops
    OBVIOUS
  <1> QED BY <1>1, <1>2 DEF Init, TypeOK, ConnectionState

\* Whatever the profiles and the network do, the worker's variables keep their
\* types (Worker, all slots).
THEOREM TypeCorrect == Spec => []TypeOK
  BY TypeInit, TypeStep, PTL DEF Spec

-----------------------------------------------------------------------------
(* Safety.  The inductive invariant adds to the invariants themselves what *)
(* start() finds (nothing is running yet), that a replay session never has *)
(* a client, and that only a thread told to quit finishes.                 *)

NewIsIdle ==
  thread = "new" =>
    /\ client = "none" /\ ~timer /\ replay = "off"
    /\ ~stopping /\ ~ever /\ attempt = 0

ReplayHasNoClient ==
  /\ replay # "off" => cfg.replay > 0
  /\ client # "none" \/ timer => cfg.replay = 0

\* A client that reports its end and is kept is one that is not retried.
KeptIsFinal ==
  client \in {"Error", "Disconnected"} =>
    ~(cfg.auto /\ ever /\ (cfg.max = 0 \/ attempt < cfg.max))

FinishedHasQuit == thread = "finished" => quit

IInv ==
  /\ TypeOK
  /\ NewIsIdle
  /\ ReplayHasNoClient
  /\ KeptIsFinal
  /\ FinishedHasQuit
  /\ StoppedIsQuiet
  /\ ClientOrTimer
  /\ AttemptsBounded
  /\ FinishedIsStopped

Safe == NewIsIdle /\ ReplayHasNoClient /\ KeptIsFinal /\ FinishedHasQuit
          /\ StoppedIsQuiet /\ ClientOrTimer /\ AttemptsBounded /\ FinishedIsStopped

\* Handling an outcome keeps the invariant in a session that runs and is not
\* stopped, with the timer off.
LEMMA HandleClientSafe ==
  ASSUME IInv, NEW o \in Outcomes, HandleClient(o, FALSE), ~stopping,
         ~stopping', cfg' = cfg, cfg.replay = 0, replay' = replay,
         thread' = "running"
  PROVE  Safe'
  <1>1. attempt \in Nat /\ cfg.max \in Nat /\ replay = "off" /\ cfg.auto \in BOOLEAN
    BY DEF IInv, TypeOK, ReplayHasNoClient
  <1>2. cfg.max > 0 => AttemptAfter(o) <= cfg.max
    BY <1>1 DEF IInv, AttemptsBounded, AttemptAfter
  <1>3. AttemptAfter(o) \in Nat
    BY <1>1 DEF AttemptAfter
  <1>4. CASE PassOn(o, FALSE)
    <2>1. client' = o.next /\ timer' = FALSE /\ attempt' = AttemptAfter(o)
      BY <1>4 DEF PassOn
    <2>2. ever' = EverAfter(o)
      BY DEF HandleClient
    <2>3. o.next \in {"Error", "Disconnected"} =>
            ~MayReconnect(EverAfter(o), AttemptAfter(o), FALSE)
      BY <1>4, OutcomeTurns DEF PassOn, Turns
    <2>4. KeptIsFinal'
      BY <2>1, <2>2, <2>3 DEF KeptIsFinal, MayReconnect
    <2> QED BY <1>1, <1>2, <2>1, <2>4
    DEF Safe, NewIsIdle, ReplayHasNoClient, FinishedHasQuit, StoppedIsQuiet,
        ClientOrTimer, AttemptsBounded, FinishedIsStopped
  <1>5. CASE \E i \in 1..Direct(o) : ScheduleReconnect(o, i, FALSE)
    <2>3. /\ client' = "none" /\ timer' = TRUE
          /\ MayReconnect(EverAfter(o), AttemptAfter(o), FALSE)
          /\ attempt' = AttemptAfter(o) + 1
          /\ ever' = EverAfter(o)
      BY <1>5 DEF ScheduleReconnect, HandleClient
    <2>1. cfg.max > 0 => attempt' <= cfg.max
      BY <1>1, <1>3, <2>3 DEF MayReconnect
    <2>2. ever' /\ cfg.auto
      BY <2>3 DEF MayReconnect
    <2> QED
      BY <1>1, <2>1, <2>2, <2>3
      DEF Safe, NewIsIdle, ReplayHasNoClient, KeptIsFinal, FinishedHasQuit, StoppedIsQuiet,
          ClientOrTimer, AttemptsBounded, FinishedIsStopped
  <1> QED BY <1>4, <1>5 DEF HandleClient

\* A client created in a running session keeps the invariant.
LEMMA CreateSafe ==
  ASSUME IInv, CreateClientAndConnect, ~stopping, ~stopping',
         cfg' = cfg, cfg.replay = 0, replay' = replay, thread' = "running"
  PROVE  Safe'
  <1>1. PICK o \in Lifecycle!ConnectOutcomes : HandleClient(o, FALSE)
    BY DEF CreateClientAndConnect
  <1>2. o \in Outcomes
    BY DEF Outcomes
  <1> QED BY <1>1, <1>2, HandleClientSafe

\* stop() keeps the invariant, and a stopped session satisfies its quiet part.
LEMMA StopSafe ==
  ASSUME IInv, StopConnection, cfg' = cfg, thread' \in {"running", "finished"},
         thread' = "finished" => quit' /\ inbox' = <<>>
  PROVE  Safe'
  BY DEF IInv, Safe, NewIsIdle, ReplayHasNoClient, KeptIsFinal, FinishedHasQuit,
         StoppedIsQuiet, ClientOrTimer, AttemptsBounded, FinishedIsStopped,
         StopConnection

\* Every step keeps the invariant: one case per action of the worker.
LEMMA SafeStep ==
  ASSUME IInv, [Next]_vars
  PROVE  Safe'
  <1> USE DEF Safe, NewIsIdle, ReplayHasNoClient, KeptIsFinal, FinishedHasQuit,
              StoppedIsQuiet, ClientOrTimer, AttemptsBounded, FinishedIsStopped
  <1>1. CASE StartSession
    BY <1>1, CreateSafe DEF StartSession, replayVars, IInv
  <1>2. CASE StartReplay
    BY <1>2 DEF StartReplay, connectionVars, queueVars, replayVars, IInv
  <1>3. CASE ClientEvent
    <2>1. PICK o \in Lifecycle!EventOutcomes(client) : HandleClient(o, timer)
      BY <1>3 DEF ClientEvent
    <2>2. client \in ConnectionState /\ timer \in BOOLEAN
            /\ attempt \in Nat /\ cfg.max \in Nat
      BY <1>3 DEF ClientEvent, IInv, TypeOK
    <2>3. o \in Outcomes
      BY <2>2 DEF Outcomes
    <2>4. ~timer /\ ~stopping /\ replay = "off"
      BY <1>3 DEF ClientEvent, IInv, TypeOK
    <2>5. timer = FALSE /\ cfg.replay = 0
      BY <1>3, <2>2, <2>4 DEF ClientEvent, IInv
    <2> HIDE DEF Safe
    <2> QED BY <1>3, <2>1, <2>3, <2>4, <2>5, HandleClientSafe
      DEF ClientEvent, Running, threadVars, replayVars
  <1>4. CASE ReconnectTimeout
    <2>1. client = "none" /\ ~stopping /\ cfg.replay = 0
      BY <1>4 DEF ReconnectTimeout, IInv
    <2>2. CreateClientAndConnect
      BY <1>4, <2>1 DEF ReconnectTimeout
    <2> HIDE DEF Safe
    <2> QED BY <1>4, <2>1, <2>2, CreateSafe
      DEF ReconnectTimeout, Running, threadVars, replayVars
  <1>5. CASE DeliverData
    BY <1>5 DEF DeliverData, IInv, Running, threadVars, connectionVars, replayVars
  <1>6. CASE DeliverStop
    BY <1>6, StopSafe DEF DeliverStop, Running, threadVars
  <1>7. CASE ReplayTick
    BY <1>7 DEF ReplayTick, IInv, Running, threadVars, connectionVars, queueVars
  <1>8. CASE RequestDisconnect
    BY <1>8 DEF RequestDisconnect, PostStop, IInv, connectionVars, replayVars
  <1>9. CASE CloseSession
    BY <1>9 DEF CloseSession, PostStop, IInv, connectionVars, replayVars
  <1>10. CASE FinishThread
    BY <1>10, StopSafe DEF FinishThread
  <1>11. CASE UNCHANGED vars
    BY <1>11 DEF vars, IInv
  <1> QED BY <1>1, <1>2, <1>3, <1>4, <1>5, <1>6, <1>7, <1>8, <1>9, <1>10, <1>11
    DEF Next

\* The inductive invariant holds at the start.
LEMMA IInvInit == Init => IInv
  BY TypeInit DEF Init, IInv, NewIsIdle, ReplayHasNoClient, KeptIsFinal, FinishedHasQuit,
     StoppedIsQuiet, ClientOrTimer, AttemptsBounded, FinishedIsStopped

\* Every step keeps the inductive invariant.
LEMMA IInvStep == IInv /\ [Next]_vars => IInv'
  BY TypeStep, SafeStep DEF IInv, Safe

\* The inductive invariant holds in every state of every session
\* (Worker, all slots).
THEOREM Inductive == Spec => []IInv
  BY IInvInit, IInvStep, PTL DEF Spec

\* A stopped session has no client, no pending reconnect and no replay, and
\* none comes back (Worker::stop).
THEOREM StoppedStaysQuiet == Spec => []StoppedIsQuiet
  BY Inductive, PTL DEF IInv

\* A pending reconnect never stands beside a client or a replay, and belongs to
\* a session that was connected (Worker::scheduleReconnect).
THEOREM ReconnectStandsAlone == Spec => []ClientOrTimer
  BY Inductive, PTL DEF IInv

\* The retry limit of the profile holds, for every limit
\* (Worker::shouldAutoReconnect).
THEOREM LimitHolds == Spec => []AttemptsBounded
  BY Inductive, PTL DEF IInv

\* A thread that has finished left nothing behind (Worker::~Worker).
THEOREM FinishedHasStopped == Spec => []FinishedIsStopped
  BY Inductive, PTL DEF IInv

-----------------------------------------------------------------------------
(* Refinement of SessionPromise.                                           *)

LiveStates == {"Connecting", "Negotiating", "Connected"}

\* A worker that was not started is an idle session.
LEMMA PromiseAtStart == Init => Promise!PromiseInit
  <1> SUFFICES ASSUME Init PROVE Promise!PromiseInit
    OBVIOUS
  <1>1. cfg.auto \in BOOLEAN /\ cfg.max \in Nat
    BY DEF Init
  <1>2. Phase = "idle"
    BY DEF Init, Phase
  <1> QED BY <1>1, <1>2 DEF Init, Promise!PromiseInit

\* An outcome handled with the timer off: either it ends nothing and the
\* session is live, or it ends the connection and the session waits or is lost,
\* as MayReconnect decides.
LEMMA HandleClientPhase ==
  ASSUME IInv, NEW o \in Outcomes, HandleClient(o, FALSE), ~stopping, ~stopping',
         cfg' = cfg, cfg.replay = 0, replay' = replay, thread' = "running"
  PROVE  \/ /\ o.next \in LiveStates /\ Phase' = "live"
            /\ ever' = EverAfter(o) /\ attempt' = AttemptAfter(o)
         \/ /\ ~Connects(o) /\ ever' = ever
            /\ \/ /\ MayReconnect(ever, attempt, FALSE)
                  /\ Phase' = "waiting" /\ attempt' = attempt + 1
               \/ /\ ~MayReconnect(ever, attempt, FALSE)
                  /\ Phase' = "lost" /\ attempt' = attempt
  <1>1. replay' = "off"
    BY DEF IInv, ReplayHasNoClient
  <1>2. ever' = EverAfter(o)
    BY DEF HandleClient
  <1>3. o.next \in ConnectionState /\ Turns(o)
    BY OutcomeShape, OutcomeTurns DEF Shape
  <1>4. CASE PassOn(o, FALSE)
    <2>1. client' = o.next /\ timer' = FALSE /\ attempt' = AttemptAfter(o)
      BY <1>4 DEF PassOn
    <2>2. CASE o.next \in LiveStates
      <3>1. Phase' = "live"
        BY <2>1, <2>2 DEF Phase, LiveStates
      <3> QED BY <1>2, <2>1, <2>2, <3>1
    <2>3. CASE o.next \in {"Disconnected", "Error"}
      <3>1. Phase' = "lost"
        BY <1>1, <2>1, <2>3 DEF Phase
      <3>2. ~Connects(o)
        BY <1>3, <2>3 DEF Turns
      <3>3. EverAfter(o) = ever /\ AttemptAfter(o) = attempt
        BY <3>2 DEF EverAfter, AttemptAfter, IInv, TypeOK
      <3>4. ~MayReconnect(ever, attempt, FALSE)
        BY <1>3, <1>4, <2>3, <3>3 DEF PassOn, Turns
      <3> QED BY <1>2, <2>1, <3>1, <3>2, <3>3, <3>4
    <2> QED BY <1>3, <2>2, <2>3 DEF ConnectionState, LiveStates
  <1>5. CASE \E i \in 1..Direct(o) : ScheduleReconnect(o, i, FALSE)
    <2>1. /\ timer' = TRUE /\ attempt' = AttemptAfter(o) + 1
          /\ MayReconnect(EverAfter(o), AttemptAfter(o), FALSE)
          /\ \E i \in 1..Direct(o) : Ends(o.signals, i)
      BY <1>5 DEF ScheduleReconnect
    <2>2. Phase' = "waiting"
      BY <2>1 DEF Phase
    <2>3. ~Connects(o)
      BY <1>3, <2>1 DEF Turns
    <2>4. EverAfter(o) = ever /\ AttemptAfter(o) = attempt
      BY <2>3 DEF EverAfter, AttemptAfter, IInv, TypeOK
    <2> QED BY <1>2, <2>1, <2>2, <2>3, <2>4
  <1> QED BY <1>4, <1>5 DEF HandleClient

\* Every step of the worker is a step of the promise or leaves it unchanged.
LEMMA PromiseStep ==
  ASSUME IInv, IInv', [Next]_vars
  PROVE  [Promise!PromiseNext]_Promise!promiseVars
  <1> USE DEF Promise!PromiseNext, Promise!promiseVars
  <1>1. CASE StartSession
    <2>1. PICK o \in Lifecycle!ConnectOutcomes : HandleClient(o, FALSE)
      BY <1>1 DEF StartSession, CreateClientAndConnect
    <2>2. o \in Outcomes /\ ~Connects(o)
      BY DEF Outcomes, Connects, Lifecycle!ConnectOutcomes
    <2>3. ~stopping /\ ~timer /\ replay = "off" /\ client = "none" /\ ~ever
            /\ thread = "new"
      BY <1>1 DEF StartSession, IInv, NewIsIdle
    <2>4. Phase = "idle"
      BY <2>3 DEF Phase
    <2>5. ~MayReconnect(ever, attempt, FALSE)
      BY <2>3 DEF MayReconnect
    <2>6. EverAfter(o) = ever /\ AttemptAfter(o) = attempt
      BY <2>2 DEF EverAfter, AttemptAfter, IInv, TypeOK
    <2>7. Phase' \in {"live", "lost"} /\ ever' = ever /\ attempt' = attempt
      BY <1>1, <2>1, <2>2, <2>3, <2>5, <2>6, HandleClientPhase
      DEF StartSession, replayVars
    <2> QED BY <1>1, <2>4, <2>7 DEF StartSession, Promise!Begin
  <1>2. CASE StartReplay
    <2>1. ~stopping /\ ~timer /\ replay = "off" /\ client = "none" /\ thread = "new"
      BY <1>2 DEF StartReplay, IInv, NewIsIdle
    <2>2. Phase = "idle"
      BY <2>1 DEF Phase
    <2>3. Phase' \in {"live", "lost"}
      BY <1>2, <2>1 DEF StartReplay, Phase, connectionVars, replayVars
    <2> QED BY <1>2, <2>2, <2>3 DEF StartReplay, connectionVars, Promise!Begin
  <1>3. CASE ClientEvent
    <2>1. PICK o \in Lifecycle!EventOutcomes(client) : HandleClient(o, timer)
      BY <1>3 DEF ClientEvent
    <2>2. client \in ConnectionState /\ timer = FALSE /\ ~stopping
            /\ replay = "off" /\ cfg.replay = 0 /\ thread = "running"
      BY <1>3 DEF ClientEvent, Running, IInv, TypeOK, ClientOrTimer,
        StoppedIsQuiet, ReplayHasNoClient
    <2>3. o \in Outcomes
      BY <2>2 DEF Outcomes
    <2>4. ~stopping' /\ cfg' = cfg /\ replay' = replay /\ thread' = "running"
      BY <1>3, <2>2 DEF ClientEvent, threadVars, replayVars
    <2>5. CASE client \in LiveStates
      <3>1. Phase = "live"
        BY <2>2, <2>5 DEF Phase, LiveStates
      <3>2. MayReconnect(ever, attempt, FALSE) <=> Promise!MayRetry
        BY <2>2 DEF MayReconnect, Promise!MayRetry
      <3>3. CASE /\ Phase' = "live" /\ Connects(o)
                 /\ ever' = EverAfter(o) /\ attempt' = AttemptAfter(o)
        BY <2>4, <3>1, <3>3 DEF EverAfter, AttemptAfter, Promise!Establish
      <3>4. CASE /\ Phase' = "live" /\ ~Connects(o)
                 /\ ever' = EverAfter(o) /\ attempt' = AttemptAfter(o)
        <4>1. ever' = ever /\ attempt' = attempt
          BY <3>4 DEF EverAfter, AttemptAfter, IInv, TypeOK
        <4> QED BY <2>4, <3>1, <3>4, <4>1
      <3>5. CASE /\ ever' = ever
                 /\ \/ /\ MayReconnect(ever, attempt, FALSE)
                       /\ Phase' = "waiting" /\ attempt' = attempt + 1
                    \/ /\ ~MayReconnect(ever, attempt, FALSE)
                       /\ Phase' = "lost" /\ attempt' = attempt
        BY <2>4, <3>1, <3>2, <3>5 DEF Promise!Drop
      <3> QED
        BY <2>1, <2>2, <2>3, <2>4, <3>3, <3>4, <3>5, HandleClientPhase
    <2>6. CASE client \in {"Disconnected", "Error"}
      <3>1. ~MayReconnect(ever, attempt, FALSE)
        BY <2>6 DEF MayReconnect, IInv, KeptIsFinal
      <3>2. o.next = "Disconnected"
        BY <2>1, <2>6 DEF Lifecycle!EventOutcomes, Lifecycle!Closed
      <3>3. Phase = "lost"
        BY <2>2, <2>6 DEF Phase
      <3>4. Phase' = "lost" /\ ever' = ever /\ attempt' = attempt
        BY <2>1, <2>2, <2>3, <2>4, <3>1, <3>2, HandleClientPhase DEF LiveStates
      <3> QED BY <2>4, <3>3, <3>4
    <2> QED BY <2>2, <2>5, <2>6 DEF ConnectionState, LiveStates
  <1>4. CASE ReconnectTimeout
    <2>1. client = "none" /\ ~stopping /\ cfg.replay = 0 /\ timer
      BY <1>4 DEF ReconnectTimeout, IInv, ClientOrTimer, StoppedIsQuiet,
        ReplayHasNoClient
    <2>2. Phase = "waiting"
      BY <2>1 DEF Phase
    <2>3. CreateClientAndConnect
      BY <1>4, <2>1 DEF ReconnectTimeout
    <2>4. PICK o \in Lifecycle!ConnectOutcomes : HandleClient(o, FALSE)
      BY <2>3 DEF CreateClientAndConnect
    <2>5. o \in Outcomes /\ ~Connects(o)
      BY DEF Outcomes, Connects, Lifecycle!ConnectOutcomes
    <2>6. ~stopping' /\ cfg' = cfg /\ replay' = replay /\ thread' = "running"
      BY <1>4, <2>1 DEF ReconnectTimeout, Running, threadVars, replayVars
    <2>7. EverAfter(o) = ever /\ AttemptAfter(o) = attempt
      BY <2>5 DEF EverAfter, AttemptAfter, IInv, TypeOK
    <2>8. MayReconnect(ever, attempt, FALSE) <=> Promise!MayRetry
      BY <2>1 DEF MayReconnect, Promise!MayRetry
    <2>9. /\ ever' = ever
          /\ \/ Phase' = "live" /\ attempt' = attempt
             \/ /\ MayReconnect(ever, attempt, FALSE)
                /\ Phase' = "waiting" /\ attempt' = attempt + 1
             \/ /\ ~MayReconnect(ever, attempt, FALSE)
                /\ Phase' = "lost" /\ attempt' = attempt
      BY <2>1, <2>4, <2>5, <2>6, <2>7, HandleClientPhase
    <2> QED BY <2>2, <2>6, <2>8, <2>9 DEF Promise!Retry
  <1>5. CASE DeliverData
    <2>1. Phase' = Phase
      BY <1>5 DEF DeliverData, Phase, threadVars, connectionVars, replayVars
    <2> QED BY <1>5, <2>1 DEF DeliverData, threadVars, connectionVars
  <1>6. CASE DeliverStop
    <2>1. Phase' = "over"
      BY <1>6 DEF DeliverStop, StopConnection, Phase
    <2> QED BY <1>6, <2>1 DEF DeliverStop, StopConnection, threadVars, Promise!Stop
  <1>7. CASE ReplayTick
    <2>1. replay # "off" /\ replay' # "off"
      BY <1>7 DEF ReplayTick
    <2>2. Phase' = Phase
      BY <1>7, <2>1 DEF ReplayTick, Phase, threadVars, connectionVars, queueVars
    <2> QED BY <1>7, <2>2 DEF ReplayTick, threadVars, connectionVars
  <1>8. CASE RequestDisconnect \/ CloseSession
    <2>1. PostStop
      BY <1>8 DEF RequestDisconnect, CloseSession
    <2>2. Phase' = Phase
      BY <2>1 DEF PostStop, Phase, connectionVars, replayVars
    <2> QED BY <2>1, <2>2 DEF PostStop, connectionVars
  <1>9. CASE FinishThread
    <2>1. Phase' = "over"
      BY <1>9 DEF FinishThread, StopConnection, Phase
    <2> QED BY <1>9, <2>1 DEF FinishThread, StopConnection, Promise!Stop
  <1>10. CASE UNCHANGED vars
    <2>1. Phase' = Phase
      BY <1>10 DEF vars, Phase
    <2> QED BY <1>10, <2>1 DEF vars
  <1> QED BY <1>1, <1>2, <1>3, <1>4, <1>5, <1>6, <1>7, <1>8, <1>9, <1>10 DEF Next

\* For every profile the session keeps its promise: it is retried only once
\* established, at most as often as allowed, and is neither revived after it
\* was given up nor after it was stopped (Worker, module SessionPromise).
THEOREM PromiseKept == Spec => KeepsPromise
  <1>1. IInv /\ IInv' /\ [Next]_vars => [Promise!PromiseNext]_Promise!promiseVars
    BY PromiseStep
  <1> QED BY <1>1, PromiseAtStart, Inductive, PTL
    DEF Spec, KeepsPromise, Promise!PromiseSpec

=============================================================================
