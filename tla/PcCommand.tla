------------------------------ MODULE PcCommand ------------------------------
(***************************************************************************)
(* A host asks the workstation to run a command (STRPCCMD) and waits for   *)
(* an ENTER.  TN5250CommandHandler::onStrpccmdRequested refuses, asks or   *)
(* runs by the session's policy.  Its dialogs run a nested event loop in   *)
(* the middle of the handler: the next record, of this session or of       *)
(* another, is handled inside it, and the innermost dialog returns first.  *)
(***************************************************************************)
EXTENDS Naturals, Sequences, FiniteSets, SequencesExt

CONSTANTS
  PcSessions,  \* the sessions open
  Handlers,    \* the handlers there may be: policy, and whether anybody is there
  MaxCommands  \* bound: commands received, in all

Policies == {"deny", "denyAndAlert", "allowWithPrompt", "allowAlways"}

ASSUME HandlersAssumption ==
  Handlers \subseteq [policy : Policies, unattended : BOOLEAN]

VARIABLES
  handler,   \* each session's command handler
  received,  \* the commands received so far: session and command
  nested,    \* the dialogs open, the innermost last: kind and number of the command
  answered,  \* the numbers of the commands answered with ENTER, in order
  started,   \* the numbers of the commands that were run
  allowed    \* history: those the user allowed

commandVars == <<handler, received, nested, answered, started, allowed>>

\* A command is empty once trimmed, cannot be run (a quote is not closed, no
\* such program), or runs.
Commands == {"empty", "broken", "program"}

CommandInit ==
  /\ handler \in [PcSessions -> Handlers]
  /\ received = << >> /\ nested = << >> /\ answered = << >>
  /\ started = {} /\ allowed = {}

sendEnterAndReturn(n) == answered' = Append(answered, n)

\* CommandRunner::run after the confirmation.  A command waited for is over,
\* or killed after its time limit, when run returns.
Launch(n, command) ==
  started' = IF command = "program" THEN started \cup {n} ELSE started

\* Received: the number of the command, its session and what it is.
Arrives(s, command) ==
  /\ Len(received) < MaxCommands
  /\ received' = Append(received, [session |-> s, command |-> command])

Asks(h) == h.policy \in {"denyAndAlert", "allowWithPrompt"}

\* The answer needs no user, or there is none and it is no.
NeedsNobody(h) == ~Asks(h) \/ h.unattended

\* The callback of the runner is set, or cleared, at each call: it is the
\* policy's.
Dispatch(s, command) ==
  LET h == handler[s]
      n == Len(received) + 1 IN
  /\ Arrives(s, command)
  /\ IF command = "empty" \/ NeedsNobody(h)
     THEN /\ sendEnterAndReturn(n)
          /\ IF h.policy = "allowAlways" THEN Launch(n, command) ELSE UNCHANGED started
          /\ UNCHANGED nested
     ELSE /\ nested' = Append(nested, [kind |-> h.policy, number |-> n])
          /\ UNCHANGED <<answered, started>>
  /\ UNCHANGED <<handler, allowed>>

\* A mutant: what is run is the session's latest command.
AnswerDialogForLatest(allow) ==
  /\ nested # << >>
  /\ nested' = Front(nested)
  /\ allow => Last(nested).kind = "allowWithPrompt"
  /\ LET n == Last(nested).number IN
     /\ IF allow
        THEN /\ Launch(Len(received), Last(received).command)
             /\ allowed' = allowed \cup {n}
        ELSE UNCHANGED <<started, allowed>>
     /\ sendEnterAndReturn(n)
  /\ UNCHANGED <<handler, received>>

\* The innermost dialog is closed: OK of the alert, Allow or Deny of the prompt.
AnswerDialog(allow) ==
  /\ nested # << >>
  /\ nested' = Front(nested)
  /\ allow => Last(nested).kind = "allowWithPrompt"
  /\ LET n == Last(nested).number IN
     /\ IF allow
        THEN /\ Launch(n, received[n].command)
             /\ allowed' = allowed \cup {n}
        ELSE UNCHANGED <<started, allowed>>
     /\ sendEnterAndReturn(n)
  /\ UNCHANGED <<handler, received>>

CommandNext ==
  \/ \E s \in PcSessions, command \in Commands : Dispatch(s, command)
  \/ \E allow \in BOOLEAN : AnswerDialog(allow)

CommandSpec == CommandInit /\ [][CommandNext]_commandVars

-----------------------------------------------------------------------------
(* Properties.                                                             *)

Pending == {nested[i].number : i \in DOMAIN nested}

\* Every command is answered with one ENTER, or will be when its dialog
\* closes, whatever was refused, failed or nested in between, at once where
\* nobody sits in front; and what runs on this PC is what the policy lets run
\* without asking or the very command the user allowed, whatever dialogs of
\* others were open around it (onStrpccmdRequested, CommandRunner::run).
EachAsAllowed ==
  /\ IsInjective(answered)
  /\ ToSet(answered) \cap Pending = {}
  /\ ToSet(answered) \cup Pending = DOMAIN received
  /\ \A n \in Pending : ~handler[received[n].session].unattended
  /\ \A n \in started \ allowed : handler[received[n].session].policy = "allowAlways"

=============================================================================
