------------------------------ MODULE McpInput ------------------------------
(***************************************************************************)
(* The keyboard tools an MCP client calls (send_keys, press_key,           *)
(* press_keys, type_text, clear_inputs) at the work station.  A tool asks  *)
(* a copy of the widget's lock rule whether the first key would pass, to   *)
(* refuse a call whose key the widget would discard in silence, and then   *)
(* runs a script that injects the chord of each key into the widget.       *)
(***************************************************************************)
EXTENDS Workstation

\* The keys the tools know, by what they do: every key that is sent with the
\* fields is "ENTER", every local one "INSERT"; "TEXT" is typed text.
ToolKey == {"ENTER", "HELP", "ATTN", "SYSREQ", "ESC", "INSERT", "TEXT"}

\* The actions bound to the chords; Attn's is Control and Escape, and Escape
\* alone is bound to none.
ActionOf == [ENTER |-> "Enter", HELP |-> "Help", ATTN |-> "Attn", SYSREQ |-> "SysReq",
             INSERT |-> "Insert", TEXT |-> "Char"]
IsEscapeChord(key) == key \in {"ESC", "ATTN"}

\* keyPressEvent, for an injected chord.
InjectKey(w, key) ==
  CASE IsEscapeChord(key) /\ w.kbd = "ErrorLocked"          -> ErrorReset(w)
    [] key = "ESC" /\ w.kbd # "ErrorLocked"                 -> w
    [] key # "ESC" /\ ~TypedKeyPasses(w.kbd, ActionOf[key]) -> w
    [] OTHER                                                -> Dispatch(w, ActionOf[key])

\* Mutant: the error lock's list for either lock.
RefusedAlike(kbd, key) == kbd # "Unlocked" /\ key \notin {"ATTN", "SYSREQ", "ESC", "HELP"}

\* lockedKeyboardError, of the keyboard state and the first key.
Refused(kbd, key) ==
  \/ kbd = "Locked" /\ key \notin {"ATTN", "SYSREQ"}
  \/ kbd = "ErrorLocked" /\ key \notin {"ESC", "ATTN", "HELP"}

\* A call; the script's other keys are not asked about.
CallKeyTool(key) ==
  /\ Idle
  /\ ~Refused(widget.kbd, key)
  /\ widget' = InjectKey(widget, key)
  /\ UNCHANGED <<handler, record, mode>>

ScriptGoesOn(key) ==
  /\ Idle
  /\ widget' = InjectKey(widget, key)
  /\ UNCHANGED <<handler, record, mode>>

\* Arrow keys and the cursor tools move the cursor in any state.
ScriptMoves(position) ==
  /\ Idle
  /\ widget' = [widget EXCEPT !.cursor = position]
  /\ UNCHANGED <<handler, record, mode>>

McpClient ==
  \/ \E key \in ToolKey : CallKeyTool(key) \/ ScriptGoesOn(key)
  \/ \E position \in Position : ScriptMoves(position)

McpSpec == Init /\ [][Next \/ McpClient]_vars

-----------------------------------------------------------------------------
\* The copy of the lock rule agrees with the widget's at every point a call can
\* come: what the tools refuse would have done nothing, and a key they accept is
\* sent, resets the error or acts on an open keyboard; of Attn and System Request
\* it says nothing (lockedKeyboardError, keyPressEvent).
LockRulesAgree ==
  Idle => \A key \in ToolKey :
    LET after == InjectKey(widget, key) IN
    IF Refused(widget.kbd, key) THEN after = widget
    ELSE CASE key \in {"ENTER", "HELP"}            -> after.kbd = "Locked"
           [] key \in {"TEXT", "INSERT"}           -> widget.kbd = "Unlocked"
           [] key = "ESC"                          -> after.kbd = "Unlocked"
           [] key \in {"ATTN", "SYSREQ"}           -> TRUE
=============================================================================
