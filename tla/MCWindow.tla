------------------------------ MODULE MCWindow ------------------------------
(***************************************************************************)
(* The window's side of the program: its tabs, the terminal themes and the *)
(* saved sessions, and the worker of one session the window has opened,    *)
(* side by side; a behaviour is one of part, the others stay as they       *)
(* start.  Tabs are of one host and collide on device names, the user may  *)
(* give a theme the name of the built-in one, and two profiles had the     *)
(* same path in their old version.  Sessions are with and without          *)
(* reconnect, with and without a limit, or a replay of two records; the    *)
(* worker's client is ClientLifecycle, which TelnetClient is shown to keep.*)
(***************************************************************************)
EXTENDS WindowTabs, ThemeEditor, SavedSessions, SessionWorker

VARIABLE part

MCWantedNames == {<<0>>, <<0, 1>>}
MCCustomWord == [w \in BuiltinWords |-> "green_custom"]
MCLegacyPath == [n \in ProfileNames |-> "a_b.json"]
MCConfigs ==
  { [auto |-> FALSE, max |-> 0, replay |-> 0],
    [auto |-> TRUE, max |-> 0, replay |-> 0],
    [auto |-> TRUE, max |-> 1, replay |-> 0],
    [auto |-> TRUE, max |-> 2, replay |-> 0],
    [auto |-> TRUE, max |-> 0, replay |-> 2] }

everything == <<part, windowVars, themeVars, savedVars, vars>>

MCInit ==
  /\ part \in {"tabs", "themes", "profiles", "session"}
  /\ WindowInit /\ ThemeInit /\ SavedInit /\ Init
  /\ part # "profiles" => OldFileOf("a b") # {} /\ \A f \in OldFileOf("a b") : f.profile.script = "none"
  /\ part # "session" => cfg.max = 1

MCNext ==
  /\ UNCHANGED part
  /\ \/ part = "tabs" /\ WindowNext /\ UNCHANGED <<themeVars, savedVars, vars>>
     \/ part = "themes" /\ ThemeNext /\ UNCHANGED <<windowVars, savedVars, vars>>
     \/ part = "profiles" /\ SavedNext /\ UNCHANGED <<windowVars, themeVars, vars>>
     \/ part = "session" /\ Next /\ UNCHANGED <<windowVars, themeVars, savedVars>>

MCSpec == MCInit /\ [][MCNext]_everything
=============================================================================
