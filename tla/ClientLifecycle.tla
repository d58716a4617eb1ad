--------------------------- MODULE ClientLifecycle ---------------------------
(***************************************************************************)
(* What one TN5250Client promises to the object that owns it: the          *)
(* connection states it goes through and, with every step, the Qt signals  *)
(* it emits, in the order it emits them.  Worker (module SessionWorker) is *)
(* written against this promise; module TelnetClient implements it.        *)
(*                                                                         *)
(* A signal is a string: the name of a state stands for                    *)
(* stateChanged(state), the others are the client's other signals.         *)
(***************************************************************************)
EXTENDS Sequences

VARIABLES
  state,    \* m_state
  signals   \* the signals emitted by the latest step

lifecycleVars == <<state, signals>>

ConnectionState ==
  {"Disconnected", "Connecting", "Negotiating", "Connected", "Error"}

Signal == ConnectionState \cup
  {"connected", "disconnected", "errorOccurred", "dataReceived"}

\* connectToHost: the attempt starts, or its TLS files cannot be used.
ConnectOutcomes ==
  { [next |-> "Connecting", signals |-> <<"Connecting">>],
    [next |-> "Error",
     signals |-> <<"Connecting", "Error", "errorOccurred">>] }

\* disconnectFromHost: aborting a socket that is connected emits
\* disconnected() before the client sets its own state.
DisconnectOutcomes(s) ==
  IF s = "Disconnected"
  THEN { [next |-> s, signals |-> <<>>] }
  ELSE { [next |-> "Disconnected", signals |-> <<"Disconnected">>],
         [next |-> "Disconnected",
          signals |-> <<"Disconnected", "disconnected">>] }

Lost ==
  { [next |-> "Error", signals |-> <<"Error", "errorOccurred">>] }

Closed ==
  { [next |-> "Disconnected",
     signals |-> <<"Disconnected", "disconnected">>] }

GaveUp ==
  { [next |-> "Disconnected", signals |-> <<"Disconnected", "errorOccurred">>],
    [next |-> "Disconnected",
     signals |-> <<"Disconnected", "disconnected", "errorOccurred">>] }

CertificateRefused ==
  { [next |-> "Disconnected",
     signals |-> <<"Error", "errorOccurred", "Disconnected", "disconnected">>] }

\* What one event of the client's own (socket, timer) may do in state s.
EventOutcomes(s) ==
  CASE s = "Connecting" ->
         { [next |-> "Negotiating", signals |-> <<"Negotiating">>] }
           \cup Lost \cup GaveUp \cup CertificateRefused
    [] s = "Negotiating" ->
         { [next |-> "Connected", signals |-> <<"Connected", "connected">>],
           [next |-> "Connected",
            signals |-> <<"Connected", "connected", "dataReceived">>] } \cup Lost
    [] s = "Connected" ->
         { [next |-> "Connected", signals |-> <<"dataReceived">>] } \cup Lost
    [] s = "Error" -> Closed
    [] OTHER -> {}

-----------------------------------------------------------------------------

Init ==
  /\ state = "Disconnected"
  /\ signals = <<>>

Take(outcomes) ==
  \E o \in outcomes : state' = o.next /\ signals' = o.signals

\* The owner calls connectToHost: only from Disconnected does it connect.
Connect == state = "Disconnected" /\ Take(ConnectOutcomes)

Disconnect == Take(DisconnectOutcomes(state))

Event == Take(EventOutcomes(state))

\* Work that is invisible to the owner.
Silent == state' = state /\ signals' = <<>>

Next == Connect \/ Disconnect \/ Event \/ Silent

Spec == Init /\ [][Next]_lifecycleVars

=============================================================================
