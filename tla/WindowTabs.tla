----------------------------- MODULE WindowTabs -----------------------------
(***************************************************************************)
(* The main window's list of tabs: opening, closing, moving and showing    *)
(* them, the device names they ask the host for, the menu items that       *)
(* follow the tab shown, the virtual keyboard, and dialogs whose nested    *)
(* event loop lets MCP clients and hosts go on while the user answers.     *)
(*                                                                         *)
(* sessions and active are the window's own (m_sessions, m_activeIndex),   *)
(* pages and current are Qt's QTabWidget; tabs are numbered as they open,  *)
(* positions from 1, and 0 is none.                                        *)
(***************************************************************************)
EXTENDS Naturals, Sequences, FiniteSets, SequencesExt

CONSTANTS
  TabHosts,    \* hosts (address and port)
  WantedNames, \* device names a user may configure: characters are numbers, << >> is none
  StemLength,  \* what is kept of a name in front of a suffix
  MaxSuffix,   \* suffixes tried
  MaxOpens,    \* tabs opened, in all
  MaxDialogs,  \* dialogs open at once
  MaxToggles   \* menu items and the virtual keyboard switched, in all

ASSUME NamesAssumption == WantedNames \subseteq Seq(Nat)
ASSUME SuffixAssumption == StemLength \in Nat /\ MaxSuffix \in Nat

VARIABLES
  sessions, active,
  pages, current,
  tab,       \* for each tab opened so far: host, configured and given name, whether MCP's
  window,    \* the tab whose configuration and code page are the window's
  activity,  \* tabs marked for output that was not seen
  on,        \* features that are on, for each tab
  checked,   \* menu items with a check mark
  keyboard,  \* whether the virtual keyboard is visible
  pulse,     \* the tab whose keys it highlights
  dialogs,   \* dialogs, the innermost last: kind, position and tab they are for
  crowded,   \* whether a host had more tabs than suffixes
  toggles

tabsView == <<sessions, active, pages, current, window, activity, checked, pulse>>
windowVars == <<tabsView, tab, on, keyboard, dialogs, crowded, toggles>>

Positions(s) == 1 .. Len(s)

WindowInit ==
  /\ sessions = << >> /\ pages = << >>
  /\ active = 0 /\ current = 0 /\ window = 0 /\ pulse = 0
  /\ tab = << >> /\ on = << >> /\ dialogs = << >>
  /\ activity = {} /\ checked = {}
  /\ keyboard = FALSE /\ crowded = FALSE
  /\ toggles = 0

(***************************************************************************)
(* Device names: unique on a host, or as configured when every suffix is   *)
(* taken. Names in use are the given ones.                                 *)
(***************************************************************************)
Open(host) == {t \in ToSet(sessions) : tab[t].host = host}

UsedNames(tabs) == {tab[t].device : t \in tabs} \ {<< >>}

Stem(name) == SubSeq(name, 1, IF Len(name) > StemLength THEN StemLength ELSE Len(name))

UniqueName(tabs, wanted) ==
  LET free == {i \in 1 .. MaxSuffix : Append(Stem(wanted), i) \notin UsedNames(tabs)} IN
  IF wanted \notin UsedNames(tabs) \/ free = {} THEN wanted
  ELSE Append(Stem(wanted), CHOOSE i \in free : \A j \in free : i <= j)

(***************************************************************************)
(* Which tab the window is about. onCurrentTabChanged is the slot of Qt's  *)
(* signal; setActiveSession, when the window calls it itself, leaves the   *)
(* keyboard and the activity mark alone. features are those of the tabs    *)
(* after the step.                                                         *)
(***************************************************************************)
setActiveSession(ss, i, features) ==
  IF i \in Positions(ss)
  THEN /\ active' = i /\ window' = ss[i] /\ checked' = features[ss[i]]
  ELSE /\ active' = 0 /\ checked' = {} /\ UNCHANGED window

rebindVirtualKeyboardPulse(ss, i, visible) ==
  pulse' = IF visible /\ i \in Positions(ss) THEN ss[i] ELSE 0

onCurrentTabChanged(ss, i, features) ==
  /\ setActiveSession(ss, i, features)
  /\ rebindVirtualKeyboardPulse(ss, i, keyboard)
  /\ activity' = activity \ (IF i \in Positions(ss) THEN {ss[i]} ELSE {})

(* A new tab comes last. The first one is selected by Qt before the window *)
(* lists it; one of an MCP client stays behind the tab shown.              *)
AddFirst(t) ==
  /\ current' = 1
  /\ setActiveSession(<<t>>, 1, on')
  /\ pulse' = 0
  /\ UNCHANGED activity

(* A mutant: the window goes on with the new tab's configuration.          *)
AddBehindTaken(t) ==
  /\ window' = t
  /\ UNCHANGED <<active, checked, current, pulse, activity>>

AddBehind(t) ==
  /\ setActiveSession(Append(sessions, t), active, on')
  /\ UNCHANGED <<current, pulse, activity>>

AddShown(t) ==
  /\ current' = Len(sessions) + 1
  /\ onCurrentTabChanged(Append(sessions, t), Len(sessions) + 1, on')

addTab(t, mcp) ==
  /\ sessions' = Append(sessions, t)
  /\ pages' = Append(pages, t)
  /\ IF pages = << >> THEN AddFirst(t)
     ELSE IF mcp /\ active \in Positions(sessions) THEN AddBehind(t)
     ELSE AddShown(t)

connectToServer(host, wanted, mcp) ==
  LET t == Len(tab) + 1 IN
  /\ t <= MaxOpens
  /\ tab' = Append(tab, [host |-> host, wanted |-> wanted, mcp |-> mcp,
                         device |-> UniqueName(Open(host), wanted)])
  /\ on' = Append(on, {})
  /\ crowded' = (crowded \/ Cardinality(Open(host)) >= MaxSuffix)
  /\ addTab(t, mcp)
  /\ UNCHANGED <<keyboard, toggles>>

(* Where Qt goes when a page is removed: the page to the right, or the     *)
(* last one. Pages behind the one removed move up.                         *)
CurrentAfter(i) ==
  IF i < current THEN current - 1
  ELSE IF i > current \/ current < Len(pages) THEN current
  ELSE current - 1

(* The closed tab's signals are cut off, those to the keyboard as well.    *)
onCloseTabRequested(i) ==
  LET t  == sessions[i]
      ss == RemoveAt(sessions, i) IN
  /\ sessions' = ss
  /\ pages' = RemoveAt(pages, i)
  /\ current' = CurrentAfter(i)
  /\ setActiveSession(ss, CurrentAfter(i), on)
  /\ IF i <= current
     THEN /\ rebindVirtualKeyboardPulse(ss, CurrentAfter(i), keyboard)
          /\ activity' = activity \ ({t} \union (IF CurrentAfter(i) = 0 THEN {} ELSE {ss[CurrentAfter(i)]}))
     ELSE /\ pulse' = IF pulse = t THEN 0 ELSE pulse
          /\ activity' = activity \ {t}

Show(i) ==
  /\ current' = i
  /\ onCurrentTabChanged(sessions, i, on)
  /\ UNCHANGED <<sessions, pages>>

-----------------------------------------------------------------------------
(***************************************************************************)
(* The user, when no dialog is open.                                       *)
(***************************************************************************)
Idle == dialogs = << >>
Rest == <<tab, on, keyboard, dialogs, crowded, toggles>>

onConnect ==
  /\ Idle
  /\ \E h \in TabHosts, n \in WantedNames : connectToServer(h, n, FALSE)
  /\ UNCHANGED dialogs

(* With the configured name, not the one given to the tab.                 *)
onDuplicateSession ==
  /\ Idle
  /\ active \in Positions(sessions)
  /\ LET s == tab[sessions[active]] IN connectToServer(s.host, s.wanted, FALSE)
  /\ UNCHANGED dialogs

ClickTab(i) ==
  /\ Idle
  /\ i \in Positions(pages) \ {current}
  /\ Show(i)
  /\ UNCHANGED Rest

ClickClose(i) ==
  /\ Idle
  /\ i \in Positions(pages)
  /\ onCloseTabRequested(i)
  /\ UNCHANGED Rest

(* The tab dragged keeps being the current one of Qt's, if it was; the     *)
(* window moves its own list and index after it.                           *)
Moved(s, from, to) == InsertAt(RemoveAt(s, from), to, s[from])

CurrentMoved(from, to) ==
  IF current = from THEN to
  ELSE IF from < current /\ current <= to THEN current - 1
  ELSE IF to <= current /\ current < from THEN current + 1
  ELSE current

onTabMoved(from, to) ==
  /\ Idle
  /\ from \in Positions(pages) /\ to \in Positions(pages) /\ from # to
  /\ pages' = Moved(pages, from, to)
  /\ current' = CurrentMoved(from, to)
  /\ sessions' = Moved(sessions, from, to)
  /\ IF active = from
     THEN active' = to /\ UNCHANGED <<window, checked>>
     ELSE IF active \in from .. to \/ active \in to .. from
     THEN setActiveSession(Moved(sessions, from, to), CurrentMoved(from, to), on)
     ELSE UNCHANGED <<active, window, checked>>
  /\ UNCHANGED <<activity, pulse>>
  /\ UNCHANGED Rest

(***************************************************************************)
(* Features of the tab shown. Logging may fail to open its file; tabs of   *)
(* MCP clients have no agent panel.                                        *)
(***************************************************************************)
Flip(f) ==
  /\ Idle
  /\ toggles < MaxToggles
  /\ toggles' = toggles + 1
  /\ active \in Positions(sessions)
  /\ LET t == sessions[active]
         s == IF f \in on[t] THEN on[t] \ {f} ELSE on[t] \union {f}
     IN  on' = [on EXCEPT ![t] = s] /\ checked' = s
  /\ UNCHANGED <<sessions, active, pages, current, window, activity, pulse>>
  /\ UNCHANGED <<tab, keyboard, dialogs, crowded>>

onToggleCursorRules == Flip("display")

onToggleSessionLogging == Flip("logging")

onToggleMatchReplace == Flip("replace")

onToggleAgentPanel ==
  /\ active \in Positions(sessions) /\ ~tab[sessions[active]].mcp
  /\ Flip("panel")

onToggleVirtualKeyboard ==
  /\ Idle
  /\ toggles < MaxToggles
  /\ toggles' = toggles + 1
  /\ keyboard' = ~keyboard
  /\ rebindVirtualKeyboardPulse(sessions, active, ~keyboard)
  /\ UNCHANGED <<sessions, active, pages, current, window, activity, checked>>
  /\ UNCHANGED <<tab, on, dialogs, crowded>>

(***************************************************************************)
(* Dialogs. The menu of a tab and the name's dialog keep the position they *)
(* were opened for; the one of the replacement patterns looks whether its  *)
(* tab is still the active one. A window that opens closes menus.          *)
(***************************************************************************)
OpenDialog(kind, i, t) ==
  /\ Len(dialogs) < MaxDialogs
  /\ dialogs' = Append(SelectSeq(dialogs, LAMBDA d : d.kind # "menu"),
                       [kind |-> kind, index |-> i, for |-> t])

Ask(kind, i) ==
  /\ Idle
  /\ i \in Positions(sessions)
  /\ kind = "patterns" => i = active
  /\ OpenDialog(kind, i, sessions[i])
  /\ UNCHANGED tabsView
  /\ UNCHANGED <<tab, on, keyboard, crowded, toggles>>

Answered(kind) ==
  /\ ~Idle /\ Last(dialogs).kind = kind
  /\ dialogs' = Front(dialogs)

eventFilter ==
  LET i == Last(dialogs).index IN
  /\ Answered("menu")
  /\ i \in Positions(sessions)
  /\ onCloseTabRequested(i)
  /\ UNCHANGED <<tab, on, keyboard, crowded, toggles>>

\* The title and the patterns themselves are left out.
onRenameTabRequested ==
  LET i == Last(dialogs).index IN
  /\ Answered("rename")
  /\ i \in Positions(pages)
  /\ UNCHANGED tabsView
  /\ UNCHANGED <<tab, on, keyboard, crowded, toggles>>

onEditMatchReplacePatterns ==
  /\ Answered("patterns")
  /\ active \in Positions(sessions) /\ sessions[active] = Last(dialogs).for
  /\ UNCHANGED tabsView
  /\ UNCHANGED <<tab, on, keyboard, crowded, toggles>>

(* Cancelled, acknowledged, timed out, or for a tab that is gone.          *)
Dismissed ==
  /\ ~Idle
  /\ dialogs' = Front(dialogs)
  /\ UNCHANGED tabsView
  /\ UNCHANGED <<tab, on, keyboard, crowded, toggles>>

(* Reconnect asks nothing, but closes the tab before it opens another.     *)
onReconnect ==
  LET t  == sessions[active]
      ss == RemoveAt(sessions, active)
      n  == Len(tab) + 1 IN
  /\ Idle
  /\ active \in Positions(sessions)
  /\ n <= MaxOpens
  /\ tab' = Append(tab, [tab[t] EXCEPT !.mcp = FALSE,
                           !.device = UniqueName(Open(tab[t].host) \ {t}, tab[t].wanted)])
  /\ on' = Append(on, {})
  /\ crowded' = (crowded \/ Cardinality(Open(tab[t].host)) > MaxSuffix)
  /\ sessions' = Append(ss, n)
  /\ pages' = Append(RemoveAt(pages, active), n)
  /\ current' = Len(pages)
  /\ setActiveSession(Append(ss, n), Len(sessions), on')
  /\ pulse' = IF keyboard /\ ss # << >> THEN n ELSE 0
  /\ activity' = activity \ ({t} \union (IF CurrentAfter(active) = 0 THEN {} ELSE {ss[CurrentAfter(active)]}))
  /\ UNCHANGED <<keyboard, toggles, dialogs>>

-----------------------------------------------------------------------------
(***************************************************************************)
(* MCP clients and hosts, at any time.                                     *)
(***************************************************************************)
createSessionRequested ==
  /\ \E h \in TabHosts, n \in WantedNames : connectToServer(h, n, TRUE)
  /\ UNCHANGED dialogs

closeSessionRequested(i) ==
  /\ i \in Positions(sessions) /\ tab[sessions[i]].mcp
  /\ onCloseTabRequested(i)
  /\ UNCHANGED Rest

(* The password of an MCP tab is asked for in front of that tab.           *)
passwordPrompt(i) ==
  /\ i \in Positions(sessions) /\ tab[sessions[i]].mcp
  /\ OpenDialog("password", 0, 0)
  /\ IF i = current THEN UNCHANGED tabsView ELSE Show(i)
  /\ UNCHANGED <<tab, on, keyboard, crowded, toggles>>

errorOccurred(i) ==
  /\ i \in Positions(sessions)
  /\ OpenDialog("warning", 0, 0)
  /\ IF i = active THEN UNCHANGED tabsView ELSE Show(i)
  /\ UNCHANGED <<tab, on, keyboard, crowded, toggles>>

screenChanged(i) ==
  /\ i \in Positions(sessions) \ {active}
  /\ activity' = activity \union {sessions[i]}
  /\ UNCHANGED <<sessions, active, pages, current, window, checked, pulse>>
  /\ UNCHANGED Rest

WindowNext ==
  \/ onConnect \/ onDuplicateSession \/ onReconnect
  \/ onToggleCursorRules \/ onToggleSessionLogging \/ onToggleMatchReplace
  \/ onToggleAgentPanel \/ onToggleVirtualKeyboard
  \/ eventFilter \/ onRenameTabRequested \/ onEditMatchReplacePatterns \/ Dismissed
  \/ createSessionRequested
  \/ \E i \in Positions(pages) :
       \/ ClickTab(i) \/ ClickClose(i) \/ closeSessionRequested(i)
       \/ passwordPrompt(i) \/ errorOccurred(i) \/ screenChanged(i)
       \/ \E kind \in {"menu", "rename", "patterns"} : Ask(kind, i)
       \/ \E to \in Positions(pages) : onTabMoved(i, to)

WindowSpec == WindowInit /\ [][WindowNext]_windowVars

-----------------------------------------------------------------------------
(* However tabs are opened, closed, moved and shown, by whomever, the      *)
(* window is about the tab Qt shows: same order, same position, that tab's *)
(* configuration and check marks, and no unseen output of it               *)
(* (MainWindow::setActiveSession, main_window.cpp:1191).                   *)
WindowFollowsTab ==
  /\ sessions = pages /\ active = current
  /\ active = 0 <=> sessions = << >>
  /\ active # 0 => /\ window = sessions[active]
                   /\ checked = on[sessions[active]]
                   /\ sessions[active] \notin activity

\* Two tabs of one host never ask it for the same device name, unless all
\* suffixes were taken (main_window.cpp:409).
NamesDiffer ==
  ~crowded =>
    \A s, t \in ToSet(sessions) :
      s # t /\ tab[s].host = tab[t].host /\ tab[s].device # << >> => tab[s].device # tab[t].device

\* Tabs are never taken for one another, by the window or by the host.
TabsStayApart == WindowFollowsTab /\ NamesDiffer

=============================================================================
