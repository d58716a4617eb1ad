------------------------------ MODULE SessionTab ------------------------------
(***************************************************************************)
(* A session's worker composed with the tab that shows it.  The worker's   *)
(* signals are posted to the window's thread (queued connections), which   *)
(* handles them one at a time while the worker moves on.  The module keeps *)
(* what the handlers of MainWindow::connectToServer change: the tab's      *)
(* status, its screen, its startup script, and the Disconnect action, one  *)
(* for the whole window, that shows the state of whichever tab is active.  *)
(***************************************************************************)
EXTENDS SessionWorker

CONSTANT
  Scripts  \* the profiles' startup scripts: [trigger, again], for
           \* startupScriptTrigger ("none": no script) and startupScriptOnReconnect

ASSUME ScriptsAssumption ==
  Scripts \subseteq [trigger : {"none", "afterConnect", "firstScreen"}, again : BOOLEAN]

VARIABLES
  script,        \* the profile's startup script
  window,        \* the worker's signals posted to the window
  closed,        \* the tab has been closed
  active,        \* m_activeIndex is this tab
  canDisconnect, \* m_disconnectAction is enabled
  view,          \* the state connectionStatus shows
  text,          \* what its status text is about: "state", "reconnect", "replay"
  epoch,         \* history: Connected reports handled
  input,         \* the screen has an input field and an unlocked keyboard
  ran,           \* *startupScriptRan
  waits,         \* first-screen waits of scheduleStartupScript, by epoch
  shots,         \* single shots that will call runStartupScript, by epoch (0:
                 \* the start queued behind another script)
  running,       \* what scriptExecutor runs: "startup", "chosen" or "nothing"
  wired,         \* how often its signals are connected to the screen
  queued         \* startupScriptQueued

statusVars == <<view, text>>
scriptVars == <<ran, waits, shots, running, wired, queued>>
menuVars == <<active, canDisconnect>>
tabVars == <<script, window, closed, menuVars, statusVars, epoch, input, scriptVars>>
allVars == <<vars, tabVars>>

TabInit ==
  /\ Init
  /\ script \in Scripts
  /\ window = <<>> /\ closed = FALSE
  /\ active = TRUE /\ canDisconnect = FALSE
  /\ view = "Disconnected" /\ text = "state" /\ epoch = 0
  /\ input = FALSE
  /\ ran = FALSE /\ waits = {} /\ shots = {}
  /\ running = "nothing" /\ wired = 0 /\ queued = FALSE

-----------------------------------------------------------------------------
(* The worker's side: a signal the window listens to is posted to it.      *)

Heard(signal) == signal.kind \notin {"connected", "disconnected"}

Post(signals) ==
  LET queue[i \in 0..Len(signals)] ==
        IF i = 0 THEN window
        ELSE IF Heard(signals[i]) THEN Append(queue[i - 1], signals[i])
        ELSE queue[i - 1]
  IN window' = queue[Len(signals)]

WorkerStep ==
  /\ \/ StartSession \/ StartReplay \/ ClientEvent \/ ReconnectTimeout
     \/ DeliverData \/ DeliverStop \/ ReplayTick
  /\ IF closed THEN UNCHANGED window ELSE Post(emitted')
  /\ UNCHANGED <<script, closed, menuVars, statusVars, epoch, input, scriptVars>>

\* The deleted tab's worker winds down with nobody listening.
WorkerFinishes ==
  /\ FinishThread
  /\ UNCHANGED tabVars

-----------------------------------------------------------------------------
(* The startup script.                                                     *)

\* scheduleStartupScript, with the screen as it is: a first-screen wait looks
\* at it at once.
ScheduleScript(now) ==
  IF script.trigger = "firstScreen" /\ ~input
  THEN waits' = waits \cup {now} /\ UNCHANGED shots
  ELSE shots' = shots \cup {now} /\ UNCHANGED waits

\* Every wait is checked when the screen changes.
ScreenShows(hasInput) ==
  IF hasInput
  THEN /\ waits' = {}
       /\ shots' = shots \cup waits
  ELSE UNCHANGED <<waits, shots>>

WaitTimesOut(e) ==
  /\ e \in waits
  /\ waits' = waits \ {e}
  /\ shots' = shots \cup {e}
  /\ UNCHANGED <<vars, script, window, closed, menuVars, statusVars, epoch, input,
                 ran, running, wired, queued>>

\* The executor begins a script: one set of connections for each.
Begin(kind) ==
  /\ running' = kind
  /\ wired' = wired + 1

\* A mutant: a script that is running is not looked for; the executor refuses
\* to start.
RunScriptAnyhow(shot) ==
  /\ shot \in shots
  /\ shots' = shots \ {shot}
  /\ running' = IF running = "nothing" THEN "startup" ELSE running
  /\ wired' = wired + 1
  /\ UNCHANGED <<vars, script, window, closed, menuVars, statusVars, epoch, input,
                 ran, waits, queued>>

\* runStartupScript: it starts after a script that is running.  A text with
\* errors is not run.
RunScript(shot) ==
  /\ shot \in shots
  /\ shots' = shots \ {shot}
  /\ \/ /\ running # "nothing"
        /\ queued' = TRUE
        /\ UNCHANGED <<running, wired>>
     \/ /\ running = "nothing"
        /\ Begin("startup")
        /\ UNCHANGED queued
     \/ /\ running = "nothing"
        /\ UNCHANGED <<running, wired, queued>>
  /\ UNCHANGED <<vars, script, window, closed, menuVars, statusVars, epoch, input,
                 ran, waits>>

\* executionFinished: the connections go; a queued start follows in a single
\* shot of its own.
ScriptFinishes ==
  /\ running # "nothing"
  /\ running' = "nothing"
  /\ wired' = wired - 1
  /\ queued' = FALSE
  /\ shots' = IF queued THEN shots \cup {0} ELSE shots
  /\ UNCHANGED <<vars, script, window, closed, menuVars, statusVars, epoch, input,
                 ran, waits>>

\* onRunScript: a script of the menu or of the editor takes the place of the
\* running one, unless its file cannot be read or has errors.
RunChosen ==
  /\ active /\ ~closed
  /\ shots' = IF queued /\ running # "nothing" THEN shots \cup {0} ELSE shots
  /\ queued' = (queued /\ running = "nothing")
  /\ \/ running' = "chosen" /\ wired' = (IF running = "nothing" THEN wired ELSE wired - 1) + 1
     \/ running' = "nothing" /\ wired' = IF running = "nothing" THEN wired ELSE wired - 1
  /\ UNCHANGED <<vars, script, window, closed, menuVars, statusVars, epoch, input,
                 ran, waits>>

\* onStopExecution takes the queued start along.
StopExecution ==
  /\ active /\ ~closed
  /\ queued' = FALSE
  /\ running' = "nothing"
  /\ wired' = IF running = "nothing" THEN wired ELSE wired - 1
  /\ UNCHANGED <<vars, script, window, closed, menuVars, statusVars, epoch, input,
                 ran, waits, shots>>

-----------------------------------------------------------------------------
(* The window handles the next posted signal.                              *)

Live(state) == state \in {"Connected", "Negotiating"}

Take(kind) ==
  /\ window # <<>>
  /\ Head(window).kind = kind
  /\ window' = Tail(window)
  /\ UNCHANGED <<vars, script, closed>>

\* A mutant: the status follows the active tab only.
ShowStateWhenActive ==
  /\ Take("state")
  /\ LET s == Head(window).state IN
     /\ view' = IF active THEN s ELSE view
     /\ text' = IF s = "Error" THEN text ELSE "state"
     /\ canDisconnect' = IF active THEN Live(s) ELSE canDisconnect
     /\ epoch' = IF s = "Connected" THEN epoch + 1 ELSE epoch
  /\ UNCHANGED <<active, input, scriptVars>>

\* stateChanged.  The screen is cleared on Disconnected only; a status text
\* goes with every state but Error.
ShowState ==
  /\ Take("state")
  /\ LET s == Head(window).state IN
     /\ view' = s
     /\ text' = IF s = "Error" THEN text ELSE "state"
     /\ canDisconnect' = IF active THEN Live(s) ELSE canDisconnect
     /\ input' = (input /\ s # "Disconnected")
     /\ IF s = "Connected"
        THEN /\ epoch' = epoch + 1
             /\ IF ~ran /\ script.trigger # "none"
                THEN ran' = TRUE /\ ScheduleScript(epoch')
                ELSE UNCHANGED <<ran, waits, shots>>
        ELSE UNCHANGED <<epoch, ran, waits, shots>>
  /\ UNCHANGED <<active, running, wired, queued>>

ShowReconnectScheduled ==
  /\ Take("reconnectScheduled")
  /\ ran' = (ran /\ ~script.again)
  /\ text' = "reconnect"
  /\ canDisconnect' = (canDisconnect \/ active)
  /\ UNCHANGED <<active, view, epoch, input, waits, shots, running, wired, queued>>

\* errorOccurred brings the tab to the front before its message box.
ShowError ==
  /\ Take("errorOccurred")
  /\ active' = TRUE
  /\ canDisconnect' = IF active THEN canDisconnect ELSE Live(view)
  /\ UNCHANGED <<statusVars, epoch, input, scriptVars>>

\* appData goes to the tab's parser, which draws the record.
ShowRecord ==
  /\ Take("appData")
  /\ input' \in BOOLEAN
  /\ ScreenShows(input')
  /\ UNCHANGED <<menuVars, statusVars, epoch, ran, running, wired, queued>>

ShowReplayFinished ==
  /\ Take("replayFinished")
  /\ text' = "replay"
  /\ UNCHANGED <<menuVars, view, epoch, input, scriptVars>>

-----------------------------------------------------------------------------
(* The user.                                                               *)

\* Another tab is shown; the action follows that tab.
SwitchAway ==
  /\ active /\ ~closed
  /\ active' = FALSE
  /\ canDisconnect' \in BOOLEAN
  /\ UNCHANGED <<vars, script, window, closed, statusVars, epoch, input, scriptVars>>

\* setActiveSession
SwitchBack ==
  /\ ~active /\ ~closed
  /\ active' = TRUE
  /\ canDisconnect' = Live(view)
  /\ UNCHANGED <<vars, script, window, closed, statusVars, epoch, input, scriptVars>>

Disconnect ==
  /\ active /\ canDisconnect /\ ~closed
  /\ RequestDisconnect
  /\ UNCHANGED tabVars

\* onCloseTabRequested: signals posted earlier are delivered to a session that
\* ignores them, pending script starts find the session gone.
CloseTab ==
  /\ ~closed
  /\ CloseSession
  /\ closed' = TRUE
  /\ window' = <<>>
  /\ waits' = {} /\ shots' = {}
  /\ running' = "nothing" /\ wired' = 0 /\ queued' = FALSE
  /\ active' = FALSE
  /\ canDisconnect' \in BOOLEAN
  /\ UNCHANGED <<script, statusVars, epoch, input, ran>>

Handle ==
  \/ ShowState \/ ShowReconnectScheduled \/ ShowError \/ ShowRecord
  \/ ShowReplayFinished

TabNext ==
  \/ WorkerStep \/ WorkerFinishes
  \/ Handle
  \/ \E e \in waits : WaitTimesOut(e)
  \/ \E shot \in shots : RunScript(shot)
  \/ ScriptFinishes \/ RunChosen \/ StopExecution
  \/ SwitchAway \/ SwitchBack \/ Disconnect \/ CloseTab

TabSpec == TabInit /\ [][TabNext]_allVars

-----------------------------------------------------------------------------
(* Properties.                                                             *)

AtRest == ~closed /\ window = <<>>

\* The tab tells the truth about the session: the worker never reports a
\* connection that is not there, and once its queue is empty the tab, whatever
\* was in flight, shows the state the session is in, an enabled Disconnect has a
\* client, a replay or a pending reconnect to act on, and a status that announces
\* a reconnect has one coming (Worker::stop, the stateChanged and
\* reconnectScheduled handlers, setActiveSession).
ViewCatchesUp ==
  /\ ReportTracksClient
  /\ AtRest => /\ view = reported
               /\ active /\ canDisconnect => client # "none" \/ timer \/ replay # "off"
               /\ text = "reconnect" => timer

\* A stop request is honoured, and the tab shows it, with drops, queued records
\* and pending reconnects in between (onDisconnect, Worker::stop).
DisconnectShows ==
  (stops > 0 /\ ~closed) ~>
    closed \/ (view = "Disconnected" /\ stopping /\ client = "none" /\ ~timer /\ replay = "off")

\* A script's keys reach the screen once, and none when no script runs: no
\* way of starting one wires the executor a second time (runStartupScript,
\* onRunScript, executionFinished).
WiredOnce == wired = IF running = "nothing" THEN 0 ELSE 1

=============================================================================
