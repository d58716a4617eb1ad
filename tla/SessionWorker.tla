---------------------------- MODULE SessionWorker ----------------------------
(***************************************************************************)
(* session::Worker: the object that owns a session's connection, in a      *)
(* thread of its own.  It creates a TN5250Client per connection attempt,   *)
(* reconnects an established session that drops, stops when told to, and   *)
(* plays a capture back for replay sessions.                               *)
(*                                                                         *)
(* The client is what module ClientLifecycle promises: an event of the     *)
(* client emits signals which the worker handles in place, in order.  Only *)
(* dataReceived is posted to the worker's own event queue, where it waits  *)
(* behind whatever the window has posted there (stop).                     *)
(***************************************************************************)
EXTENDS Naturals, Sequences

CONSTANTS
  Configs,    \* [auto, max, replay]: autoReconnect, autoReconnectMaxAttempts
              \* (0 = no limit), number of captured records (0 = no replay)
  MaxClients, \* bound: clients created
  MaxData,    \* bound: records the hosts send altogether
  MaxStops    \* bound: stop requests the window posts

ASSUME ConfigsAssumption ==
  Configs \subseteq [auto : BOOLEAN, max : Nat, replay : Nat]
ASSUME WorkerBoundsAssumption ==
  MaxClients \in Nat /\ MaxData \in Nat /\ MaxStops \in Nat

VARIABLES
  cfg,       \* m_config
  thread,    \* the worker's thread: "new", "running", "finished"
  quit,      \* the window has called thread->quit()
  client,    \* "none" for a null m_client, else the client's state
  clients,   \* history: clients created; the number of the current one
  ever,      \* m_everConnected
  attempt,   \* m_reconnectAttempt
  timer,     \* m_reconnectTimer is active
  stopping,  \* m_stopping
  replay,    \* "off" (no m_replayTimer), "armed", "idle" (played to the end)
  index,     \* m_replayIndex
  inbox,     \* events posted to the worker and not yet processed
  posted,    \* history: records received from hosts
  stops,     \* history: stop requests posted
  reported,  \* the state of the latest stateChanged
  emitted    \* the worker's own signals emitted by the latest step

threadVars == <<cfg, thread, quit>>
connectionVars == <<client, clients, ever, attempt, timer>>
replayVars == <<replay, index>>
queueVars == <<inbox, posted, stops>>
signalVars == <<reported, emitted>>
vars == <<cfg, thread, quit, client, clients, ever, attempt, timer, stopping,
          replay, index, inbox, posted, stops, reported, emitted>>

Lifecycle == INSTANCE ClientLifecycle WITH state <- client, signals <- emitted

ConnectionState ==
  {"Disconnected", "Connecting", "Negotiating", "Connected", "Error"}

Event == [kind : {"data"}, from : Nat] \cup [kind : {"stop"}]

\* stateChanged(s) is [kind |-> "state", state |-> s].
Signal ==
  [kind : {"state"}, state : ConnectionState]
    \cup [kind : {"connected", "disconnected", "errorOccurred", "replayFinished"}]
    \cup [kind : {"appData"}, from : Nat]
    \cup [kind : {"reconnectScheduled"}, attempt : Nat]

TypeOK ==
  /\ cfg \in Configs
  /\ thread \in {"new", "running", "finished"}
  /\ quit \in BOOLEAN
  /\ client \in ConnectionState \cup {"none"}
  /\ clients \in 0..MaxClients
  /\ ever \in BOOLEAN
  /\ attempt \in Nat
  /\ timer \in BOOLEAN
  /\ stopping \in BOOLEAN
  /\ replay \in {"off", "armed", "idle"}
  /\ index \in Nat
  /\ inbox \in Seq(Event)
  /\ posted \in 0..MaxData
  /\ stops \in 0..MaxStops
  /\ reported \in ConnectionState
  /\ emitted \in Seq(Signal)

Init ==
  /\ cfg \in Configs
  /\ thread = "new" /\ quit = FALSE
  /\ client = "none" /\ clients = 0 /\ ever = FALSE /\ attempt = 0
  /\ timer = FALSE /\ stopping = FALSE
  /\ replay = "off" /\ index = 0
  /\ inbox = <<>> /\ posted = 0 /\ stops = 0
  /\ reported = "Disconnected"
  /\ emitted = <<>>

-----------------------------------------------------------------------------
(* What the worker does with the client's signals.                         *)

State(s) == [kind |-> "state", state |-> s]
Plain(kind) == [kind |-> kind]

\* The worker's signal for a signal of the client.  errorOccurred passes
\* onClientError, whose test of the timer cannot hold: scheduling a reconnect
\* cuts the client off before it reports the error (see ClientOrTimer).
Forwarded(signal) ==
  IF signal \in ConnectionState THEN State(signal) ELSE Plain(signal)

\* Emitting a sequence of signals, of which the tab keeps the latest state.
IsLastState(sequence, i) ==
  /\ sequence[i].kind = "state"
  /\ \A j \in DOMAIN sequence : j > i => sequence[j].kind # "state"

Emit(sequence) ==
  /\ emitted' = sequence
  /\ reported' = IF \E i \in DOMAIN sequence : IsLastState(sequence, i)
                 THEN sequence[CHOOSE i \in DOMAIN sequence :
                                 IsLastState(sequence, i)].state
                 ELSE reported

\* Mutant: a session never established is retried.
MayReconnectNeverConnected(everConnected, attempts, timerActive) ==
  /\ cfg.auto /\ ~stopping /\ ~timerActive
  /\ cfg.max = 0 \/ attempts < cfg.max

MayReconnect(everConnected, attempts, timerActive) ==
  /\ cfg.auto /\ ~stopping /\ everConnected /\ ~timerActive
  /\ cfg.max = 0 \/ attempts < cfg.max

Ends(signals, i) ==
  /\ signals[i] \in {"Disconnected", "Error"}
  /\ \A j \in 1..(i - 1) : signals[j] \notin {"Disconnected", "Error"}

\* An outcome that brings a record does so last; the signals before it are
\* handled in place.
Received(o) == \E i \in DOMAIN o.signals : o.signals[i] = "dataReceived"
Direct(o) == IF Received(o) THEN Len(o.signals) - 1 ELSE Len(o.signals)
Connects(o) == \E i \in DOMAIN o.signals : o.signals[i] = "Connected"

EverAfter(o) == ever \/ Connects(o)
AttemptAfter(o) == IF Connects(o) THEN 0 ELSE attempt

\* All of the outcome's signals are passed on.
PassOn(o, timerActive) ==
  /\ \A i \in 1..Direct(o) :
       Ends(o.signals, i) => ~MayReconnect(EverAfter(o), AttemptAfter(o), timerActive)
  /\ attempt' = AttemptAfter(o)
  /\ client' = o.next
  /\ timer' = timerActive
  /\ Emit([i \in 1..Direct(o) |-> Forwarded(o.signals[i])])

\* Mutants: the dead client is kept; the reconnect is not announced.
ScheduleReconnectKeepsClient(o, i, timerActive) ==
  /\ Ends(o.signals, i)
  /\ MayReconnect(EverAfter(o), AttemptAfter(o), timerActive)
  /\ clients' < MaxClients
  /\ attempt' = AttemptAfter(o) + 1
  /\ client' = o.next
  /\ timer' = TRUE
  /\ Emit([j \in 1..(i + 1) |->
             IF j <= i THEN Forwarded(o.signals[j])
             ELSE [kind |-> "reconnectScheduled", attempt |-> attempt']])

\* scheduleReconnect, at the i-th signal: the client is dropped, and with it
\* the rest of its signals.
ScheduleReconnect(o, i, timerActive) ==
  /\ Ends(o.signals, i)
  /\ MayReconnect(EverAfter(o), AttemptAfter(o), timerActive)
  /\ clients' < MaxClients
  /\ attempt' = AttemptAfter(o) + 1
  /\ client' = "none"
  /\ timer' = TRUE
  /\ Emit([j \in 1..(i + 1) |->
             IF j <= i THEN Forwarded(o.signals[j])
             ELSE [kind |-> "reconnectScheduled", attempt |-> attempt']])

\* The client goes to o.next and emits o.signals, which the worker handles
\* while its timer is active or not.  A record is posted to the worker.
HandleClient(o, timerActive) ==
  /\ ever' = EverAfter(o)
  /\ Received(o) => posted < MaxData
  /\ posted' = IF Received(o) THEN posted + 1 ELSE posted
  /\ inbox' = IF Received(o)
              THEN Append(inbox, [kind |-> "data", from |-> clients'])
              ELSE inbox
  /\ \/ PassOn(o, timerActive)
     \/ \E i \in 1..Direct(o) : ScheduleReconnect(o, i, timerActive)

CreateClientAndConnect ==
  /\ clients < MaxClients
  /\ clients' = clients + 1
  /\ \E o \in Lifecycle!ConnectOutcomes : HandleClient(o, FALSE)

\* Mutants: the timer runs on; the client's end, or the cancelled reconnect, is
\* not reported.
StopConnectionKeepsTimer ==
  /\ stopping' = TRUE
  /\ replay' = "off"
  /\ index' = IF replay # "off" THEN 0 ELSE index
  /\ client' = "none"
  /\ Emit(IF replay # "off" \/ client # "none"
          THEN <<State("Disconnected"), Plain("disconnected")>> ELSE <<>>)
  /\ UNCHANGED <<clients, ever, attempt, timer>>

\* stop(), in the order it looks at the timer, the replay and the client.
StopConnection ==
  /\ stopping' = TRUE
  /\ timer' = FALSE
  /\ replay' = "off"
  /\ index' = IF replay # "off" THEN 0 ELSE index
  /\ client' = "none"
  /\ Emit((IF timer THEN <<State("Disconnected")>> ELSE <<>>)
            \o (IF replay # "off"
                THEN <<State("Disconnected"), Plain("disconnected")>> ELSE <<>>)
            \o (IF client # "none"
                THEN <<State("Disconnected"), Plain("disconnected")>> ELSE <<>>))
  /\ UNCHANGED <<clients, ever, attempt>>

-----------------------------------------------------------------------------
(* The worker's slots and timers.                                          *)

Running == thread = "running"

\* The thread has started; start() of a session with a host.
StartSession ==
  /\ thread = "new"
  /\ cfg.replay = 0
  /\ client = "none"
  /\ thread' = "running"
  /\ stopping' = FALSE
  /\ CreateClientAndConnect
  /\ UNCHANGED <<cfg, quit, replayVars, stops>>

\* start() of a replay session: the capture is loaded, or refused.
StartReplay ==
  /\ thread = "new"
  /\ cfg.replay > 0
  /\ replay = "off"
  /\ thread' = "running"
  /\ \/ /\ replay' = "armed" /\ index' = 0
        /\ Emit(<<State("Connected"), Plain("connected")>>)
     \/ /\ Emit(<<Plain("errorOccurred"), State("Disconnected")>>)
        /\ UNCHANGED replayVars
  /\ UNCHANGED <<cfg, quit, connectionVars, stopping, queueVars>>

ClientEvent ==
  /\ Running
  /\ client # "none"
  /\ clients' = clients
  /\ \E o \in Lifecycle!EventOutcomes(client) : HandleClient(o, timer)
  /\ UNCHANGED <<threadVars, stopping, replayVars, stops>>

\* The single-shot reconnect timer fires.
ReconnectTimeout ==
  /\ Running
  /\ timer
  /\ IF stopping \/ client # "none"
     THEN /\ timer' = FALSE
          /\ Emit(<<>>)
          /\ UNCHANGED <<client, clients, ever, attempt, inbox, posted>>
     ELSE CreateClientAndConnect
  /\ UNCHANGED <<threadVars, stopping, replayVars, stops>>

\* onClientData, from the queue.
DeliverData ==
  /\ Running
  /\ inbox # <<>> /\ Head(inbox).kind = "data"
  /\ inbox' = Tail(inbox)
  /\ Emit(<<[kind |-> "appData", from |-> Head(inbox).from]>>)
  /\ UNCHANGED <<threadVars, connectionVars, stopping, replayVars, posted, stops>>

\* Mutant: stop() returns when there is no client.
DeliverStopNeedsClient ==
  /\ Running
  /\ inbox # <<>> /\ Head(inbox).kind = "stop"
  /\ inbox' = Tail(inbox)
  /\ IF client # "none"
     THEN StopConnection
     ELSE Emit(<<>>) /\ UNCHANGED <<connectionVars, stopping, replayVars>>
  /\ UNCHANGED <<threadVars, posted, stops>>

DeliverStop ==
  /\ Running
  /\ inbox # <<>> /\ Head(inbox).kind = "stop"
  /\ inbox' = Tail(inbox)
  /\ StopConnection
  /\ UNCHANGED <<threadVars, posted, stops>>

\* A captured record is handed to onClientData in place.
ReplayTick ==
  /\ Running
  /\ replay = "armed"
  /\ index < cfg.replay
  /\ index' = index + 1
  /\ IF index' < cfg.replay
     THEN /\ replay' = "armed"
          /\ Emit(<<[kind |-> "appData", from |-> 0]>>)
     ELSE /\ replay' = "idle"
          /\ Emit(<<[kind |-> "appData", from |-> 0], Plain("replayFinished")>>)
  /\ UNCHANGED <<threadVars, connectionVars, stopping, queueVars>>

-----------------------------------------------------------------------------
(* The window's side.                                                      *)

PostStop ==
  /\ stops < MaxStops
  /\ stops' = stops + 1
  /\ inbox' = Append(inbox, [kind |-> "stop"])
  /\ Emit(<<>>)
  /\ UNCHANGED <<cfg, thread, connectionVars, stopping, replayVars, posted>>

\* Session > Disconnect.
RequestDisconnect ==
  /\ ~quit
  /\ PostStop
  /\ UNCHANGED quit

\* Closing the tab, or the window: stop is posted and the thread told to quit.
CloseSession ==
  /\ ~quit
  /\ quit' = TRUE
  /\ PostStop

\* quit() ends the event loop, before or after it got to the posted stop.  The
\* worker is deleted: ~Worker stops it and drops what is left in its queue.
FinishThread ==
  /\ Running /\ quit
  /\ thread' = "finished"
  /\ inbox' = <<>>
  /\ StopConnection
  /\ UNCHANGED <<cfg, quit, posted, stops>>

Next ==
  \/ StartSession \/ StartReplay
  \/ ClientEvent \/ ReconnectTimeout
  \/ DeliverData \/ DeliverStop
  \/ ReplayTick
  \/ RequestDisconnect \/ CloseSession \/ FinishThread

Spec == Init /\ [][Next]_vars

-----------------------------------------------------------------------------
(* Properties.                                                             *)

\* A session the user stopped stays stopped: no client, no pending reconnect
\* and no replay is left behind or comes back, whatever was in flight when
\* stop() ran (Worker::stop, the reconnect timer, shouldAutoReconnect).
StoppedIsQuiet ==
  stopping => client = "none" /\ ~timer /\ replay = "off"

\* While a reconnect is pending there is no client: the dropped one was
\* detached, so none of its late signals reaches the tab, and the timer never
\* fires on top of a live connection (Worker::scheduleReconnect).
ClientOrTimer ==
  timer => client = "none" /\ replay = "off" /\ ever /\ cfg.auto

\* autoReconnectMaxAttempts limits the attempts since the last established
\* connection (Worker::shouldAutoReconnect).
AttemptsBounded ==
  cfg.max > 0 => attempt <= cfg.max

\* The tab is not told of a connection that is not there: a latest report of
\* Connected or Negotiating means the client is in that state, or a replay is
\* on, "otherwise the tab keeps showing a connected session that drops all
\* input" (Worker::stop, Worker::onClientStateChanged).
ReportTracksClient ==
  reported \in {"Connecting", "Negotiating", "Connected"} =>
    client = reported \/ replay # "off"

\* The thread leaves nothing running, even when it quits before it processed
\* the posted stop (Worker::~Worker).
FinishedIsStopped ==
  thread = "finished" => stopping /\ inbox = <<>>

\* The session is what its owner was promised (module SessionPromise).
Phase ==
  CASE stopping -> "over"
    [] ~stopping /\ timer -> "waiting"
    [] ~stopping /\ ~timer
         /\ (client \in {"Connecting", "Negotiating", "Connected"}
               \/ replay # "off") -> "live"
    [] ~stopping /\ ~timer /\ client \in {"Disconnected", "Error", "none"}
         /\ replay = "off" /\ thread # "new" -> "lost"
    [] OTHER -> "idle"

Promise ==
  INSTANCE SessionPromise WITH
    auto <- cfg.auto, limit <- cfg.max, phase <- Phase, established <- ever,
    tries <- attempt

KeepsPromise == Promise!PromiseSpec

=============================================================================
