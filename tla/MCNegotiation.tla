---------------------------- MODULE MCNegotiation ----------------------------
(***************************************************************************)
(* The telnet client and what it negotiates; a behaviour is one of part,   *)
(* the others stay as they start.                                          *)
(*   client: the client alone, with the options the code treats            *)
(* differently and a host that sends anything.                             *)
(*   options: options agreed with a host (one both ends enable on both     *)
(* sides, one the client enables on its side only, one it refuses).        *)
(*   signon, resolve: conversations with a host server; the two clients    *)
(* share nothing.                                                          *)
(***************************************************************************)
EXTENDS TelnetNegotiation

CONSTANT MaxCalls

VARIABLES part, signonState, socket, fields, calls, heard, mapper, recvBuffer, wanted, loops,
          announced, answered

Host == INSTANCE HostServer

hostServerVars == <<signonState, socket, fields, calls, heard, mapper, recvBuffer, wanted, loops,
                    announced, answered>>
everything == <<part, allVars, hostServerVars>>

MCInit == part \in {"client", "options", "signon", "resolve"} /\ NInit /\ Host!HostServerInit

\* Options are agreed on anew in every attempt; one is enough to agree in.
MCNext ==
  /\ UNCHANGED part
  /\ \/ part = "client" /\ Next /\ UNCHANGED <<hostVars, hostServerVars>>
     \/ part = "options" /\ NNext /\ attempt' <= 1 /\ UNCHANGED hostServerVars
     \/ part = "signon" /\ Host!SignonNext /\ UNCHANGED allVars
     \/ part = "resolve" /\ Host!MapperNext /\ UNCHANGED allVars

\* Of the client alone: Qt fires an active timer, and an error reported for a
\* connected socket is followed by disconnected(). Nothing is assumed of the
\* host, of the owner or of the network. The host that agrees on options is there.
MCSpec ==
  /\ MCInit /\ [][MCNext]_everything
  /\ WF_vars(part = "client" /\ OnConnectTimeout)
  /\ WF_vars(part = "client" /\ OnSocketDisconnected)
  /\ WF_vars(part = "client" /\ EndOfChunk)
  /\ WF_vars(part = "options" /\ OnSocketConnected)
  /\ NFairness
  /\ Host!HostServerFairness

\* The host of NegotiationConverges is the one of the part that has one.
OptionsConverge == part = "options" => NegotiationConverges

\* Calls of signon and resolve get their own server's answer, in the end.
CallsAnswered == Host!CallsAnswered
=============================================================================
