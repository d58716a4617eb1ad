----------------------------- MODULE MCSessionTab -----------------------------
(***************************************************************************)
(* What stands around a session in the window, side by side; a behaviour   *)
(* is one of part, the others stay as they start.  The tab: a session that *)
(* reconnects, one that does not, and a replay of one record.  The         *)
(* commands hosts ask the workstation to run: two sessions under every     *)
(* policy.  The script editor: two files, two texts.                       *)
(***************************************************************************)
EXTENDS SessionTab, PcCommand, ScriptEditor

VARIABLE part

MCConfigs ==
  { [auto |-> FALSE, max |-> 0, replay |-> 0],
    [auto |-> TRUE, max |-> 1, replay |-> 0],
    [auto |-> FALSE, max |-> 0, replay |-> 1] }

MCScripts ==
  { [trigger |-> "firstScreen", again |-> TRUE], [trigger |-> "afterConnect", again |-> FALSE] }

Handler(policy, unattended) == [policy |-> policy, unattended |-> unattended]
MCHandlers ==
  { Handler("deny", FALSE), Handler("denyAndAlert", FALSE), Handler("allowWithPrompt", FALSE),
    Handler("allowWithPrompt", TRUE), Handler("allowAlways", TRUE) }

everything == <<part, allVars, commandVars, editorVars>>

MCInit ==
  /\ part \in {"tab", "commands", "scripts"}
  /\ TabInit /\ CommandInit /\ EditorInit
  /\ part # "tab" => cfg.max = 1 /\ script.again
  /\ part # "commands" => \A s \in PcSessions : handler[s].policy = "deny"
  /\ part # "scripts" => \A p \in ScriptPaths : disk[p] = NoFile

MCNext ==
  /\ UNCHANGED part
  /\ \/ part = "tab" /\ TabNext /\ UNCHANGED <<commandVars, editorVars>>
     \/ part = "commands" /\ CommandNext /\ UNCHANGED <<allVars, editorVars>>
     \/ part = "scripts" /\ EditorNext /\ UNCHANGED <<allVars, commandVars>>

\* The worker's thread and the window's run their event loops: posted events are
\* processed and an active timer fires. Nothing is assumed of the network.
MCSpec ==
  /\ MCInit /\ [][MCNext]_everything
  /\ WF_allVars(part = "tab" /\ WorkerStep /\ (StartSession \/ StartReplay))
  /\ WF_allVars(part = "tab" /\ WorkerStep /\ (DeliverData \/ DeliverStop))
  /\ WF_allVars(part = "tab" /\ WorkerStep /\ ReplayTick)
  /\ WF_allVars(part = "tab" /\ Handle)
=============================================================================
