---------------------------- MODULE TelnetClient ----------------------------
(***************************************************************************)
(* TN5250Client: one TCP or TLS connection to a host, the telnet option    *)
(* negotiation that turns it into a 5250 session, and the delivery of the  *)
(* host's application data record by record.                               *)
(*                                                                         *)
(* The host is unconstrained: any command, any number of times, in any     *)
(* order, cut into chunks anywhere between two commands (module            *)
(* TelnetParser covers cuts inside one).  processTelnetData loops over a   *)
(* chunk; every iteration is an action here, and "reading" keeps the other *)
(* handlers of the worker thread out until the chunk is finished.          *)
(* Application bytes are numbered in the order they arrive.                *)
(***************************************************************************)
EXTENDS Naturals, Sequences

CONSTANTS
  HostOptions,  \* telnet options the host mentions
  KeepAlive,    \* m_keepaliveIntervalMs > 0
  MaxAttempts,  \* bound: calls of connectToHost that are accepted
  MaxData       \* bound: application bytes received per attempt

Option == {"BINARY", "EOR", "ECHO", "SGA", "TERMINAL_TYPE", "NEW_ENVIRON",
           "TIMING_MARK", "START_TLS", "OTHER"}

ASSUME OptionsAssumption == HostOptions \subseteq Option
ASSUME KeepAliveAssumption == KeepAlive \in BOOLEAN
ASSUME BoundsAssumption == MaxAttempts \in Nat /\ MaxData \in Nat

ConnectionState ==
  {"Disconnected", "Connecting", "Negotiating", "Connected", "Error"}

(***************************************************************************)
(* The socket behind m_socket: none (a null pointer), opening (TCP connect *)
(* in progress), tcp (TCP up, TLS handshake in progress), up (usable),     *)
(* closing (an error was reported, disconnected() is still to come), dead  *)
(* (the object is kept but the connection is gone).                        *)
(***************************************************************************)
Link == {"none", "opening", "tcp", "up", "closing", "dead"}

VARIABLES
  state,              \* m_state
  link,               \* the socket, see Link
  useTLS,             \* m_useTLS
  attempt,            \* history: accepted connectToHost calls
  connectTimer,       \* attempt m_connectTimeoutTimer was armed for, 0 if idle
  heartbeat,          \* m_heartbeatTimer is active
  handshakeComplete, binaryNegotiated, eorNegotiated, terminalTypeSent,
  deviceNameSent,
  optionsHim,         \* m_optionsHim: enabled on the host's side
  optionsUs,          \* m_optionsUs: enabled on ours
  reading,            \* inside processTelnetData
  processed,          \* its local buffer of unframed bytes
  recordBuffer,       \* m_recordBuffer
  handshakeBuffer,    \* m_handshakeBuffer
  received,           \* history: application bytes of this attempt
  delivered,          \* history: bytes emitted with dataReceived
  environAnswers,     \* history: did the first NEW-ENVIRON answer of this
                      \* attempt name the device, did a later one
  sent,               \* telnet commands written by the latest step
  signals             \* Qt signals emitted by the latest step

negotiation == <<handshakeComplete, binaryNegotiated, eorNegotiated,
                 terminalTypeSent, deviceNameSent, optionsHim, optionsUs,
                 environAnswers>>
buffers == <<processed, recordBuffer, handshakeBuffer, received, delivered>>
connection == <<state, link, useTLS, attempt, connectTimer, heartbeat>>
outputs == <<sent, signals>>
vars == <<connection, negotiation, reading, buffers, outputs>>

Command == [verb : {"WILL", "WONT", "DO", "DONT"}, opt : Option]

\* No NEW-ENVIRON answer sent yet in this attempt.
NoAnswer == [first |-> "none", renamed |-> FALSE]

Init ==
  /\ state = "Disconnected" /\ link = "none" /\ useTLS = FALSE
  /\ attempt = 0 /\ connectTimer = 0 /\ heartbeat = FALSE
  /\ handshakeComplete = FALSE /\ binaryNegotiated = FALSE
  /\ eorNegotiated = FALSE /\ terminalTypeSent = FALSE
  /\ deviceNameSent = FALSE /\ optionsHim = {} /\ optionsUs = {}
  /\ environAnswers = NoAnswer
  /\ reading = FALSE /\ processed = <<>> /\ recordBuffer = <<>>
  /\ handshakeBuffer = <<>> /\ received = 0 /\ delivered = <<>>
  /\ sent = <<>> /\ signals = <<>>

-----------------------------------------------------------------------------
(* Connecting, losing and closing the connection.                          *)

\* Mutants: every call announces; a running timer is kept; none is armed.
StateSignalAlways(s) == <<s>>
ArmedConnectTimerNever(n) == 0

\* setState: announces a change only.
StateSignal(s) == IF state = s THEN <<>> ELSE <<s>>

\* armConnectTimeout: QTimer::start restarts a timer that is still active.
ArmedConnectTimer(n) == n

ConnectToHost(tls) ==
  /\ ~reading
  /\ state = "Disconnected"
  /\ attempt < MaxAttempts
  /\ attempt' = attempt + 1
  /\ useTLS' = tls
  /\ handshakeComplete' = FALSE /\ binaryNegotiated' = FALSE
  /\ eorNegotiated' = FALSE /\ terminalTypeSent' = FALSE
  /\ deviceNameSent' = FALSE /\ optionsHim' = {} /\ optionsUs' = {}
  /\ environAnswers' = NoAnswer
  /\ recordBuffer' = <<>> /\ handshakeBuffer' = <<>> /\ processed' = <<>>
  /\ received' = 0 /\ delivered' = <<>>
  /\ sent' = <<>>
  /\ \/ /\ state' = "Connecting"
        /\ link' = "opening"
        /\ connectTimer' = ArmedConnectTimer(attempt')
        /\ signals' = <<"Connecting">>
     \/ \* applyTlsFiles fails: the socket is dropped, no timer is armed
        /\ tls
        /\ state' = "Error"
        /\ link' = "none"
        /\ signals' = <<"Connecting", "Error", "errorOccurred">>
        /\ UNCHANGED connectTimer
  /\ UNCHANGED <<heartbeat, reading>>

\* performHandshake
OpeningRequests ==
  << [verb |-> "DO", opt |-> "BINARY"], [verb |-> "WILL", opt |-> "BINARY"],
     [verb |-> "DO", opt |-> "EOR"], [verb |-> "WILL", opt |-> "EOR"] >>

\* onSocketConnected, from connected() without TLS and encrypted() with it.
OnSocketConnected ==
  \/ /\ link = "opening" /\ useTLS
     /\ link' = "tcp"
     /\ sent' = <<>> /\ signals' = <<>>
     /\ UNCHANGED <<state, useTLS, attempt, connectTimer, heartbeat,
                    negotiation, reading, buffers>>
  \/ /\ link = IF useTLS THEN "tcp" ELSE "opening"
     /\ link' = "up"
     /\ connectTimer' = 0
     /\ state' = "Negotiating"
     /\ sent' = OpeningRequests
     /\ signals' = StateSignal("Negotiating")
     /\ UNCHANGED <<useTLS, attempt, heartbeat, negotiation, reading, buffers>>

OnSocketError ==
  /\ ~reading
  /\ link \in {"opening", "tcp", "up"}
  /\ link' = IF link = "opening" THEN "dead" ELSE "closing"
  /\ state' = "Error"
  /\ sent' = <<>>
  /\ signals' = StateSignal("Error") \o <<"errorOccurred">>
  /\ UNCHANGED <<useTLS, attempt, connectTimer, heartbeat, negotiation,
                 reading, buffers>>

\* The connection an error was reported for is now closed.
OnSocketDisconnected ==
  /\ ~reading
  /\ link = "closing"
  /\ link' = "dead"
  /\ heartbeat' = FALSE
  /\ state' = "Disconnected"
  /\ sent' = <<>>
  /\ signals' = StateSignal("Disconnected") \o <<"disconnected">>
  /\ UNCHANGED <<useTLS, attempt, connectTimer, negotiation, reading, buffers>>

\* onSslErrors without allowInvalidCertificates; abort() emits disconnected().
OnSslErrors ==
  /\ link = "tcp"
  /\ link' = "dead"
  /\ heartbeat' = FALSE
  /\ state' = "Disconnected"
  /\ sent' = <<>>
  /\ signals' = StateSignal("Error")
                  \o <<"errorOccurred", "Disconnected", "disconnected">>
  /\ UNCHANGED <<useTLS, attempt, connectTimer, negotiation, reading, buffers>>

\* disconnectFromHost, followed by "after" in the caller.
Abort(after) ==
  /\ heartbeat' = FALSE
  /\ connectTimer' = 0
  /\ link' = "none"
  /\ state' = "Disconnected"
  /\ sent' = <<>>
  /\ signals' = StateSignal("Disconnected")
       \o (IF link \in {"tcp", "up", "closing"} THEN <<"disconnected">> ELSE <<>>)
       \o after
  /\ UNCHANGED <<useTLS, attempt, negotiation, reading, buffers>>

DisconnectFromHost == ~reading /\ Abort(<<>>)

\* A timer that fires when its attempt is no longer connecting does nothing.
OnConnectTimeout ==
  /\ ~reading
  /\ connectTimer # 0
  /\ IF state = "Connecting"
     THEN Abort(<<"errorOccurred">>)
     ELSE /\ connectTimer' = 0
          /\ sent' = <<>> /\ signals' = <<>>
          /\ UNCHANGED <<state, link, useTLS, attempt, heartbeat,
                         negotiation, reading, buffers>>

-----------------------------------------------------------------------------
(* processTelnetData: one action per iteration of its loop.                *)

OnSocketReadyRead ==
  /\ ~reading
  /\ link = "up"
  /\ reading' = TRUE
  /\ processed' = <<>>
  /\ sent' = <<>> /\ signals' = <<>>
  /\ UNCHANGED <<connection, negotiation, recordBuffer, handshakeBuffer,
                 received, delivered>>

Framing == handshakeComplete /\ eorNegotiated

\* Inside a record only IAC EOR is a command: any other IAC is data.
CommandsTaken == reading /\ ~(Framing /\ recordBuffer # <<>>)

Say(verb, opt) == << [verb |-> verb, opt |-> opt] >>

(***************************************************************************)
(* checkHandshakeComplete, with the flags as the caller has just set them  *)
(* and "pending" in m_handshakeBuffer.                                     *)
(***************************************************************************)
CheckHandshakeComplete(pending) ==
  IF /\ ~handshakeComplete
     /\ binaryNegotiated'
     /\ terminalTypeSent' \/ pending # <<>>
  THEN /\ handshakeComplete' = TRUE
       /\ state' = "Connected"
       /\ heartbeat' = KeepAlive
       /\ delivered' = delivered \o pending
       /\ handshakeBuffer' = <<>>
       /\ signals' = StateSignal("Connected") \o <<"connected">>
            \o (IF pending = <<>> THEN <<>> ELSE <<"dataReceived">>)
  ELSE /\ handshakeBuffer' = pending
       /\ signals' = <<>>
       /\ UNCHANGED <<handshakeComplete, state, heartbeat, delivered>>

\* The parts of the state no telnet command touches.
CommandFrame == UNCHANGED <<link, useTLS, attempt, connectTimer, reading,
                            processed, recordBuffer, received>>

NoHandshakeStep == UNCHANGED <<handshakeComplete, state, heartbeat, delivered,
                               handshakeBuffer>> /\ signals' = <<>>

\* Mutant: a repeated request is acknowledged again.
RepeatedRequestAcknowledged(verb, opt) ==
  /\ CommandsTaken
  /\ opt \in IF verb = "WILL" THEN optionsHim ELSE optionsUs
  /\ sent' = Say(IF verb = "WILL" THEN "DO" ELSE "WILL", opt)
  /\ NoHandshakeStep /\ CommandFrame
  /\ UNCHANGED <<binaryNegotiated, eorNegotiated, terminalTypeSent,
                 deviceNameSent, optionsHim, optionsUs, environAnswers>>

\* A WILL or DO for a mode already in effect is not acknowledged (RFC 854).
RepeatedRequest(verb, opt) ==
  /\ CommandsTaken
  /\ opt \in IF verb = "WILL" THEN optionsHim ELSE optionsUs
  /\ sent' = <<>>
  /\ NoHandshakeStep /\ CommandFrame
  /\ UNCHANGED <<binaryNegotiated, eorNegotiated, terminalTypeSent,
                 deviceNameSent, optionsHim, optionsUs, environAnswers>>

HostWill(opt) ==
  /\ CommandsTaken
  /\ opt \notin optionsHim
  /\ IF opt \in {"BINARY", "EOR", "ECHO", "SGA"}
     THEN sent' = Say("DO", opt) /\ optionsHim' = optionsHim \cup {opt}
     ELSE /\ sent' = IF opt = "START_TLS" THEN <<>> ELSE Say("DONT", opt)
          /\ optionsHim' = optionsHim
  /\ binaryNegotiated' = (binaryNegotiated \/ opt = "BINARY")
  /\ eorNegotiated' = (eorNegotiated \/ opt = "EOR")
  /\ UNCHANGED <<terminalTypeSent, deviceNameSent, optionsUs, environAnswers>>
  /\ IF opt \in {"BINARY", "EOR"}
     THEN CheckHandshakeComplete(handshakeBuffer)
     ELSE NoHandshakeStep
  /\ CommandFrame

HostDo(opt) ==
  /\ CommandsTaken
  /\ opt \notin optionsUs
  /\ IF opt \in {"BINARY", "EOR", "TERMINAL_TYPE", "NEW_ENVIRON"}
     THEN sent' = Say("WILL", opt) /\ optionsUs' = optionsUs \cup {opt}
     ELSE sent' = Say("WONT", opt) /\ optionsUs' = optionsUs
  /\ binaryNegotiated' = (binaryNegotiated \/ opt = "BINARY")
  /\ eorNegotiated' = (eorNegotiated \/ opt = "EOR")
  /\ UNCHANGED <<terminalTypeSent, deviceNameSent, optionsHim, environAnswers>>
  /\ IF opt \in {"BINARY", "EOR"}
     THEN CheckHandshakeComplete(handshakeBuffer)
     ELSE NoHandshakeStep
  /\ CommandFrame

\* WONT and DONT are acknowledged only when they change something, and they
\* leave m_binaryNegotiated and m_eorNegotiated as they are.
HostWont(opt) ==
  /\ CommandsTaken
  /\ sent' = IF opt \in optionsHim THEN Say("DONT", opt) ELSE <<>>
  /\ optionsHim' = optionsHim \ {opt}
  /\ NoHandshakeStep /\ CommandFrame
  /\ UNCHANGED <<binaryNegotiated, eorNegotiated, terminalTypeSent,
                 deviceNameSent, optionsUs, environAnswers>>

HostDont(opt) ==
  /\ CommandsTaken
  /\ sent' = IF opt \in optionsUs THEN Say("WONT", opt) ELSE <<>>
  /\ optionsUs' = optionsUs \ {opt}
  /\ NoHandshakeStep /\ CommandFrame
  /\ UNCHANGED <<binaryNegotiated, eorNegotiated, terminalTypeSent,
                 deviceNameSent, optionsHim, environAnswers>>

\* IAC SB TERMINAL-TYPE ... IAC SE: sendDeviceName, whatever the payload.
HostAsksTerminalType ==
  /\ CommandsTaken
  /\ terminalTypeSent' = TRUE
  /\ binaryNegotiated' = TRUE
  /\ sent' = <<>>
  /\ UNCHANGED <<eorNegotiated, deviceNameSent, optionsHim, optionsUs,
                 environAnswers>>
  /\ CheckHandshakeComplete(handshakeBuffer)
  /\ CommandFrame

\* The answer of sendNewEnviron carries the device name the first time only.
EnvironAnswered ==
  IF environAnswers.first = "none"
  THEN [first |-> IF deviceNameSent THEN "empty" ELSE "named", renamed |-> FALSE]
  ELSE [environAnswers EXCEPT !.renamed = @ \/ ~deviceNameSent]

\* Mutant: m_deviceNameSent is not set.
HostSendsEnvironForgets(asks) ==
  /\ CommandsTaken
  /\ environAnswers' = IF asks THEN EnvironAnswered ELSE environAnswers
  /\ sent' = <<>>
  /\ NoHandshakeStep /\ CommandFrame
  /\ UNCHANGED <<deviceNameSent, binaryNegotiated, eorNegotiated,
                 terminalTypeSent, optionsHim, optionsUs>>

\* IAC SB NEW-ENVIRON: a SEND (or an empty one) is answered, IS and INFO not.
HostSendsEnviron(asks) ==
  /\ CommandsTaken
  /\ IF asks
     THEN deviceNameSent' = TRUE /\ environAnswers' = EnvironAnswered
     ELSE UNCHANGED <<deviceNameSent, environAnswers>>
  /\ sent' = <<>>
  /\ NoHandshakeStep /\ CommandFrame
  /\ UNCHANGED <<binaryNegotiated, eorNegotiated, terminalTypeSent,
                 optionsHim, optionsUs>>

\* Mutant: only the first byte of a record goes to the record buffer.
HostDataSplitsRecord ==
  /\ reading
  /\ received < MaxData
  /\ received' = received + 1
  /\ IF Framing /\ recordBuffer = <<>>
     THEN /\ recordBuffer' = processed \o <<received'>>
          /\ processed' = <<>>
     ELSE processed' = Append(processed, received') /\ UNCHANGED recordBuffer
  /\ sent' = <<>> /\ signals' = <<>>
  /\ UNCHANGED <<connection, negotiation, reading, handshakeBuffer, delivered>>

\* appendData
HostData ==
  /\ reading
  /\ received < MaxData
  /\ received' = received + 1
  /\ IF Framing
     THEN /\ recordBuffer' = recordBuffer \o processed \o <<received'>>
          /\ processed' = <<>>
     ELSE /\ processed' = Append(processed, received')
          /\ UNCHANGED recordBuffer
  /\ sent' = <<>> /\ signals' = <<>>
  /\ UNCHANGED <<connection, negotiation, reading, handshakeBuffer, delivered>>

\* What IAC EOR hands over: bytes left over from before framing go first.
FinishedRecord == processed \o recordBuffer

\* IAC EOR and flushRecord
HostEndOfRecord ==
  /\ reading
  /\ sent' = <<>>
  /\ IF Framing /\ FinishedRecord # <<>>
     THEN /\ delivered' = delivered \o FinishedRecord
          /\ recordBuffer' = <<>> /\ processed' = <<>>
          /\ signals' = <<"dataReceived">>
     ELSE signals' = <<>> /\ UNCHANGED <<delivered, recordBuffer, processed>>
  /\ UNCHANGED <<connection, negotiation, reading, handshakeBuffer, received>>

\* The end of the loop; processHandshakeData takes data for an acceptance of
\* binary mode.
EndOfChunk ==
  /\ reading
  /\ reading' = FALSE
  /\ processed' = <<>>
  /\ sent' = <<>>
  /\ UNCHANGED <<link, useTLS, attempt, connectTimer, eorNegotiated,
                 terminalTypeSent, deviceNameSent, optionsHim, optionsUs,
                 environAnswers, recordBuffer, received>>
  /\ \/ /\ processed = <<>>
        /\ UNCHANGED binaryNegotiated
        /\ NoHandshakeStep
     \/ /\ processed # <<>> /\ handshakeComplete
        /\ delivered' = delivered \o processed
        /\ signals' = <<"dataReceived">>
        /\ UNCHANGED <<handshakeComplete, binaryNegotiated, state, heartbeat,
                       handshakeBuffer>>
     \/ /\ processed # <<>> /\ ~handshakeComplete
        /\ binaryNegotiated' = TRUE
        /\ CheckHandshakeComplete(handshakeBuffer \o processed)

-----------------------------------------------------------------------------

Owner == DisconnectFromHost \/ \E tls \in BOOLEAN : ConnectToHost(tls)

Socket == \/ OnSocketConnected \/ OnSocketError \/ OnSocketDisconnected
          \/ OnSslErrors \/ OnSocketReadyRead

HostCommand ==
  \/ \E opt \in HostOptions :
       \/ HostWill(opt) \/ HostDo(opt) \/ HostWont(opt) \/ HostDont(opt)
       \/ \E verb \in {"WILL", "DO"} : RepeatedRequest(verb, opt)
  \/ HostAsksTerminalType
  \/ \E asks \in BOOLEAN : HostSendsEnviron(asks)

Next ==
  \/ Owner \/ Socket \/ OnConnectTimeout
  \/ HostCommand \/ HostData \/ HostEndOfRecord \/ EndOfChunk

Spec == Init /\ [][Next]_vars

-----------------------------------------------------------------------------
(* Properties.                                                             *)

\* What was delivered, followed by what waits in the client's buffers, is the
\* stream received since the connection was opened.
StreamInOrder ==
  delivered \o handshakeBuffer \o recordBuffer \o processed
    = [i \in 1..received |-> i]

\* The application gets every byte the host sent, in the order it was sent,
\* across the switch to record framing; and once bytes of a record are held
\* back, nothing reaches it before the record's IAC EOR, which hands over the
\* whole record (client.h 206-208: "each record reaches the decoder whole").
StreamIntact ==
  [][ /\ StreamInOrder'
      /\ recordBuffer # <<>> /\ attempt' = attempt /\ delivered' # delivered
           => delivered' = delivered \o recordBuffer /\ recordBuffer' = <<>> ]_vars

\* No attempt to open the connection hangs: one in progress has its own connect
\* timer running, none left from an earlier attempt that would cut it short,
\* and is over in the end.  No keep-alive outlives its connection (client.h
\* 225-229, armConnectTimeout, onConnectTimeout, disconnectFromHost).
AttemptsTimed ==
  [][ /\ state' = "Connecting" => connectTimer' = attempt'
      /\ heartbeat' => handshakeComplete' /\ link' \in {"up", "closing"} ]_vars

AttemptsResolve ==
  /\ AttemptsTimed
  /\ (state = "Connecting") ~> (state # "Connecting")

\* The device name goes to the host in the first NEW-ENVIRON answer of an
\* attempt and in no later one: a repeated request means the name is taken
\* (client_handshake.cpp 92-94, client_telnet.cpp 525-529).
DeviceNameOfferedOnce ==
  environAnswers.first # "empty" /\ ~environAnswers.renamed

Lifecycle == INSTANCE ClientLifecycle

\* The client keeps the promise its owner is written against.
KeepsLifecycle == Lifecycle!Spec

=============================================================================
