-------------------------- MODULE TelnetNegotiation --------------------------
(***************************************************************************)
(* TN5250Client and a host negotiate telnet options over a connection that *)
(* delivers in order.  The client is module TelnetClient, unchanged; the   *)
(* host is external: it keeps, per option and side, whether the option is  *)
(* off, requested or on, and follows RFC 854.  Left open are the options   *)
(* it is willing to use, whether it acknowledges a request for an option   *)
(* that is already on, what it asks for on its own and which options it    *)
(* switches off again, and when.                                           *)
(***************************************************************************)
EXTENDS TelnetClient, FiniteSets

CONSTANTS
  Willing,   \* options the host agrees to
  Acks,      \* whether it acknowledges what is already on: a set of choices
  MaxOffers,      \* bound: requests the host makes on its own
  MaxWithdrawals  \* bound: options it switches off again

(* A WILL START_TLS is answered with TLS itself (handleStartTLS), which is *)
(* not modelled, and not with a DO or DONT: the host does not offer it.    *)
ASSUME HostAssumption ==
  /\ Willing \subseteq HostOptions \ {"START_TLS"}
  /\ Acks \subseteq BOOLEAN /\ Acks # {}
  /\ MaxOffers \in Nat /\ MaxWithdrawals \in Nat

VARIABLES
  toHost, toClient,  \* the two directions of the connection
  hostSide,          \* host's view of its own options
  clientSide,        \* host's view of the client's options
  offers,            \* history: requests it made on its own
  withdrawals        \* history: options it switched off

hostVars == <<toHost, toClient, hostSide, clientSide, offers, withdrawals>>
allVars == <<vars, hostVars>>

Status == {"off", "wanted", "on"}

NInit ==
  /\ Init
  /\ toHost = <<>> /\ toClient = <<>>
  /\ hostSide = [o \in HostOptions |-> "off"]
  /\ clientSide = [o \in HostOptions |-> "off"]
  /\ offers = 0 /\ withdrawals = 0

-----------------------------------------------------------------------------
(* The client.                                                             *)

ClientConnects ==
  /\ ConnectToHost(FALSE) \/ OnSocketConnected
  /\ toHost' = toHost \o sent'
  /\ UNCHANGED <<toClient, hostSide, clientSide, offers, withdrawals>>

ClientReads ==
  /\ OnSocketReadyRead /\ toClient # <<>>
  /\ UNCHANGED hostVars

Handle(command) ==
  CASE command.verb = "WILL" ->
         HostWill(command.opt) \/ RepeatedRequest("WILL", command.opt)
    [] command.verb = "DO" ->
         HostDo(command.opt) \/ RepeatedRequest("DO", command.opt)
    [] command.verb = "WONT" -> HostWont(command.opt)
    [] command.verb = "DONT" -> HostDont(command.opt)

ClientHandles ==
  /\ toClient # <<>>
  /\ Handle(Head(toClient))
  /\ toClient' = Tail(toClient)
  /\ toHost' = toHost \o sent'
  /\ UNCHANGED <<hostSide, clientSide, offers, withdrawals>>

\* The client reads all that has arrived.
ClientFinishes == toClient = <<>> /\ EndOfChunk /\ UNCHANGED hostVars

-----------------------------------------------------------------------------
(* The host.                                                               *)

\* What it may answer to a request (WILL or DO) about the option on one side:
\* a request for what is already on may be acknowledged or not.
Answers(side, opt, yes, no) ==
  CASE side[opt] = "wanted" -> {<<>>}
    [] side[opt] = "on" -> {IF ack THEN Say(yes, opt) ELSE <<>> : ack \in Acks}
    [] OTHER -> {Say(IF opt \in Willing THEN yes ELSE no, opt)}

Granted(side, opt) ==
  [side EXCEPT ![opt] = IF opt \in Willing THEN "on" ELSE "off"]

HostHandles ==
  /\ toHost # <<>>
  /\ toHost' = Tail(toHost)
  /\ LET c == Head(toHost) IN
     CASE c.verb = "DO" ->
            /\ \E answer \in Answers(hostSide, c.opt, "WILL", "WONT") :
                 toClient' = toClient \o answer
            /\ hostSide' = Granted(hostSide, c.opt)
            /\ UNCHANGED clientSide
       [] c.verb = "WILL" ->
            /\ \E answer \in Answers(clientSide, c.opt, "DO", "DONT") :
                 toClient' = toClient \o answer
            /\ clientSide' = Granted(clientSide, c.opt)
            /\ UNCHANGED hostSide
       [] c.verb = "DONT" ->
            /\ toClient' = toClient \o
                 (IF hostSide[c.opt] = "on" THEN Say("WONT", c.opt) ELSE <<>>)
            /\ hostSide' = [hostSide EXCEPT ![c.opt] = "off"]
            /\ UNCHANGED clientSide
       [] c.verb = "WONT" ->
            /\ toClient' = toClient \o
                 (IF clientSide[c.opt] = "on" THEN Say("DONT", c.opt) ELSE <<>>)
            /\ clientSide' = [clientSide EXCEPT ![c.opt] = "off"]
            /\ UNCHANGED hostSide
  /\ UNCHANGED <<offers, withdrawals, vars>>

HostOffers(opt) ==
  /\ link = "up"
  /\ offers < MaxOffers
  /\ offers' = offers + 1
  /\ \/ /\ hostSide[opt] = "off" /\ opt \in Willing
        /\ hostSide' = [hostSide EXCEPT ![opt] = "wanted"]
        /\ toClient' = toClient \o Say("WILL", opt)
        /\ UNCHANGED clientSide
     \/ /\ clientSide[opt] = "off" /\ opt \in Willing
        /\ clientSide' = [clientSide EXCEPT ![opt] = "wanted"]
        /\ toClient' = toClient \o Say("DO", opt)
        /\ UNCHANGED hostSide
  /\ UNCHANGED <<toHost, withdrawals, vars>>

\* The host switches an option off that is on.
HostWithdraws(opt) ==
  /\ withdrawals < MaxWithdrawals
  /\ withdrawals' = withdrawals + 1
  /\ \/ /\ hostSide[opt] = "on"
        /\ hostSide' = [hostSide EXCEPT ![opt] = "off"]
        /\ toClient' = toClient \o Say("WONT", opt)
        /\ UNCHANGED clientSide
     \/ /\ clientSide[opt] = "on"
        /\ clientSide' = [clientSide EXCEPT ![opt] = "off"]
        /\ toClient' = toClient \o Say("DONT", opt)
        /\ UNCHANGED hostSide
  /\ UNCHANGED <<toHost, offers, vars>>

-----------------------------------------------------------------------------

NNext ==
  \/ ClientConnects \/ ClientReads \/ ClientHandles \/ ClientFinishes
  \/ HostHandles
  \/ \E opt \in HostOptions : HostOffers(opt) \/ HostWithdraws(opt)

\* Both ends process what they receive; the connection loses nothing.
NFairness ==
  /\ WF_allVars(ClientReads) /\ WF_allVars(ClientHandles)
  /\ WF_allVars(HostHandles)

NSpec == NInit /\ [][NNext]_allVars /\ NFairness

\* Nothing is on its way.
Quiet == toHost = <<>> /\ toClient = <<>>

\* The two ends agree on every option, and no request of the host is left
\* unanswered.
Agreed ==
  \A o \in HostOptions :
    /\ o \in optionsHim <=> hostSide[o] = "on"
    /\ o \in optionsUs <=> clientSide[o] = "on"
    /\ "wanted" \notin {hostSide[o], clientSide[o]}

AgreedAtRest == Quiet => Agreed

\* Whatever the host asks for, acknowledges or switches off, and however the
\* messages cross, both ends agree whenever nothing is on its way; and they
\* come to rest, unless the host switches an option off
\* (handleTelnetCommand, acceptOption).
NegotiationConverges ==
  /\ []AgreedAtRest
  /\ <>[]Quiet \/ <>(withdrawals > 0)

\* "Repeats are not answered (see handleTelnetCommand), which ends any
\* acknowledgement loop" (client_telnet.cpp 272-273): so too when the host
\* switches an option off while the client's acknowledgement is on its way.
AcknowledgementLoopsEnd == <>[]Quiet

=============================================================================
