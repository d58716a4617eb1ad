------------------------------ MODULE ScreenView ------------------------------
(***************************************************************************)
(* What the screen widget derives from the screen the host writes: the     *)
(* snapshots of its history and the one being viewed, the overlay of the   *)
(* match-and-replace rules, the hotspots, and the selection with what Copy *)
(* takes of it. Keys and the keyboard's states are Workstation's; here a   *)
(* key that types, like a record, is a screen drawn.                       *)
(*                                                                         *)
(* A cell is a character that may be hidden, as a password's. Rules match  *)
(* single characters, and a hotspot is the one cell of a label; both read  *)
(* a row as text, as the regular expressions of the code do.               *)
(***************************************************************************)
EXTENDS Integers, SequencesExt, FiniteSetsExt

CONSTANTS
  Characters,   \* of the cells; "*" stands for one that only hidden cells hold
  Screens,      \* what the host draws: rows, columns, and the cells
  ErrorText,    \* the message of a Write Error Code
  RuleLists,    \* the rules the user may give
  Pointed,      \* bound: cells the mouse is at
  MaxDepth      \* m_maxDepth of the history

ASSUME MaxDepthAssumption == MaxDepth \in Nat \ {0}
ASSUME CharactersAssumption == " " \in Characters /\ ErrorText \in Seq(Characters \ {"*"})

Cell == {x \in [char : Characters, hidden : BOOLEAN] : x.char = "*" => x.hidden}
IsScreen(s) ==
  s \in [rows : Nat, cols : Nat, at : [(0 .. s.rows - 1) \X (0 .. s.cols - 1) -> Cell]]
ASSUME ScreensAssumption == \A s \in Screens : IsScreen(s)

VARIABLES
  live,         \* the screen buffer
  keyboard,     \* "unlocked", "locked" or "error"
  savedLine,    \* the cells below an error message: <<>> or one row
  stale,        \* which of the history, the overlay and the hotspots were made before
                \* a change of the screen that the buffer did not announce
  history,      \* the snapshots, the newest first
  index,        \* of the one being viewed, from 0; -1 for the live screen
  settling,     \* the history timer runs
  label,        \* in the footer: <<>> or "HISTORY i/n"
  matching,     \* the match-and-replace engine: on or off, and its rules
  overlay,      \* the characters it has painted instead, by address
  hotspots,     \* detection on or off, and where
  selection,    \* first and last cell, <<-1, -1>> for none
  selecting,    \* the mouse button is down
  clipboard     \* the rows copied last

past == <<history, index, settling, label>>
derived == <<matching, overlay, hotspots>>
mouse == <<selection, selecting, clipboard>>
viewVars == <<live, keyboard, savedLine, stale, past, derived, mouse>>

Blank == [char |-> " ", hidden |-> FALSE]
NoCell == <<-1, -1>>
Nobody == <<NoCell, NoCell>>
Viewing == index >= 0

-----------------------------------------------------------------------------
\* Screens.

CellAt(s, r, c) == IF <<r, c>> \in DOMAIN s.at THEN s.at[<<r, c>>] ELSE Blank
displayedCharacter(s, r, c) == IF CellAt(s, r, c).hidden THEN " " ELSE CellAt(s, r, c).char

AsDisplayed(s) ==
  [s EXCEPT !.at = [p \in DOMAIN @ |-> [@[p] EXCEPT !.char = displayedCharacter(s, p[1], p[2])]]]

Row(s, r) == [i \in 1 .. s.cols |-> displayedCharacter(s, r, i - 1)]
Text(s) == FlattenSeq([i \in 1 .. s.rows |-> Row(s, i - 1)])

displayedBuffer == IF Viewing THEN history[index + 1] ELSE live

-----------------------------------------------------------------------------
\* Match and replace: the rules rewrite each row as text.

applyRule(rule, line) ==
  FlattenSeq([i \in DOMAIN line |-> IF line[i] = rule.find THEN rule.put ELSE <<line[i]>>])

applyRules(rules, line) ==
  FoldLeft(LAMBDA text, rule : IF rule.enabled THEN applyRule(rule, text) ELSE text,
           line, rules)

Padded(line, i) == IF i \in DOMAIN line THEN line[i] ELSE " "

\* Where a row reads differently once rewritten, blanks at its end included.
rebuildOverlay(m, s) ==
  [cols |-> s.cols,
   at |-> [a \in 0 .. s.rows * s.cols - 1 |->
             LET line == Row(s, a \div s.cols)
                 replaced == IF m.on THEN applyRules(m.rules, line) ELSE line
                 i == (a % s.cols) + 1
             IN  IF Padded(replaced, i) = line[i] THEN "none" ELSE Padded(replaced, i)]]

overlayChar(r, c) ==
  LET a == r * overlay.cols + c IN IF a \in DOMAIN overlay.at THEN overlay.at[a] ELSE "none"

\* The character renderCell draws.
Painted ==
  [p \in DOMAIN displayedBuffer.at |->
     IF displayedBuffer.at[p].hidden THEN " "
     ELSE IF matching.on /\ overlayChar(p[1], p[2]) # "none" THEN overlayChar(p[1], p[2])
     ELSE displayedBuffer.at[p].char]

-----------------------------------------------------------------------------
\* Hotspots: the labels of function keys.

detect(on, s) ==
  [on |-> on, at |-> IF on THEN {p \in DOMAIN s.at : displayedCharacter(s, p[1], p[2]) = "F"} ELSE {}]

-----------------------------------------------------------------------------
\* The buffer announces a change, and the widget derives the rest anew.

onScreenChanged(s) ==
  /\ settling' = TRUE
  /\ hotspots' = detect(hotspots.on, s)
  /\ overlay' = IF matching.on THEN rebuildOverlay(matching, s) ELSE overlay
  /\ UNCHANGED matching

Redraw(s) == live' = s /\ onScreenChanged(s) /\ stale' = {}

\* A Start Field writes its attribute, which is announced, and then hides or shows
\* the cells of its field, which is not. Its end is announced, if it writes one: not
\* at the end of the screen, nor where an attribute stands already.
Attribute == [char |-> " ", hidden |-> TRUE]
Address(s, p) == p[1] * s.cols + p[2]

IsField(s, F) ==
  \E first, last \in 1 .. s.rows * s.cols - 1 :
    /\ F = {p \in DOMAIN s.at : Address(s, p) \in first .. last} /\ F # {}
    /\ \E hidden \in BOOLEAN : \A p \in F : s.at[p].hidden = hidden
    /\ \A p \in DOMAIN s.at : Address(s, p) \in {first - 1, last + 1} => s.at[p] = Attribute

Hiding(s, F, H) ==
  [s EXCEPT !.at = [p \in DOMAIN @ |-> IF p \in F THEN [@[p] EXCEPT !.hidden = p \in H] ELSE @[p]]]

\* The screens that the last change of a record may announce: s itself, or, when a Start
\* Field comes last, s before it hid or showed the field.
LastAnnounced ==
  [s \in Screens |->
     {s} \cup {a \in {Hiding(s, F, H) : F \in {G \in SUBSET DOMAIN s.at : IsField(s, G)},
                                     H \in SUBSET DOMAIN s.at} : IsScreen(a)}]

\* A record of the host, a key that types, a change of the size.
Draw(s) ==
  /\ live' = s
  /\ \E a \in LastAnnounced[s] :
       /\ onScreenChanged(a)
       /\ stale' = IF a = s THEN {} ELSE {"overlay", "hotspots"}
  /\ keyboard' \in {keyboard, "unlocked", "locked"}
  /\ UNCHANGED <<savedLine, history, index, label, mouse>>

LastRow(s) == [i \in 1 .. s.cols |-> CellAt(s, s.rows - 1, i - 1)]
WithLastRow(s, line) ==
  [s EXCEPT !.at = [p \in DOMAIN @ |-> IF p[1] = s.rows - 1 /\ p[2] < Len(line)
                                       THEN line[p[2] + 1] ELSE @[p]]]
Message(s) ==
  [i \in 1 .. s.cols |-> IF i \in DOMAIN ErrorText
                         THEN [char |-> ErrorText[i], hidden |-> FALSE] ELSE Blank]

WriteErrorCode ==
  /\ savedLine' = LastRow(live)
  /\ Redraw(WithLastRow(live, Message(live)))
  /\ keyboard' = "error"
  /\ UNCHANGED <<history, index, label, mouse>>

\* The cells are assigned, which announces nothing. Typed on the live screen, or
\* injected by the MCP server over any.
ErrorReset ==
  /\ keyboard = "error"
  /\ keyboard' = "unlocked"
  /\ live' = WithLastRow(live, savedLine)
  /\ stale' = IF live' = live THEN stale ELSE {"history", "overlay", "hotspots"}
  /\ savedLine' = <<>>
  /\ UNCHANGED <<past, derived, mouse>>

-----------------------------------------------------------------------------
\* History.

HistoryLabel(i, n) == IF i < 0 THEN <<>> ELSE <<i + 1, n>>
historyViewChanged(i, total) == index' = i /\ label' = HistoryLabel(i, total)

push(snapshot) == SubSeq(<<snapshot>> \o history, 1, Min({Len(history) + 1, MaxDepth}))

\* A mutant: the index stays where it is.
FollowedLate(dropped) == IF dropped THEN -1 ELSE index
Followed(dropped) == IF dropped THEN -1 ELSE IF Viewing THEN index + 1 ELSE index

pushScreenToHistory ==
  /\ settling
  /\ settling' = FALSE /\ stale' = stale \ {"history"}
  /\ IF history # <<>> /\ Text(history[1]) = Text(live) THEN UNCHANGED <<history, index, label>>
     ELSE /\ history' = push(AsDisplayed(live))
          /\ historyViewChanged(Followed(Viewing /\ Len(history) >= MaxDepth /\ index = Len(history) - 1),
                                Len(history'))
  /\ UNCHANGED <<live, keyboard, savedLine, derived, mouse>>

View(i) ==
  /\ i < Len(history)
  /\ historyViewChanged(i, Len(history))
  /\ UNCHANGED <<live, keyboard, savedLine, stale, history, settling, derived, mouse>>

exitHistoryView == View(-1)

onHistoryBack == View(index + 1)
onHistoryForward == Viewing /\ View(index - 1)
\* The menu's, and any key but a modifier and Copy.
onHistoryExit == Viewing /\ exitHistoryView

-----------------------------------------------------------------------------
\* Match and replace, and hotspots, are set in the window's menus.

\* A mutant: the overlay waits for the next change of the screen.
RefreshedLater(m) == UNCHANGED overlay
refreshMatchReplaceOverlay(m) == overlay' = rebuildOverlay(m, live)

SetMatching(m) ==
  /\ matching' = m
  /\ refreshMatchReplaceOverlay(m) /\ stale' = stale \ {"overlay"}
  /\ UNCHANGED <<live, keyboard, savedLine, past, hotspots, mouse>>

onToggleMatchReplace == SetMatching([matching EXCEPT !.on = ~@])
onEditMatchReplacePatterns == \E rules \in RuleLists : SetMatching([matching EXCEPT !.rules = rules])

onToggleHotspots ==
  /\ hotspots' = detect(~hotspots.on, live) /\ stale' = stale \ {"hotspots"}
  /\ UNCHANGED <<live, keyboard, savedLine, past, matching, overlay, mouse>>

-----------------------------------------------------------------------------
\* The mouse. Cells are those of the live screen, whichever is shown.

hasSelection == NoCell \notin {selection[1], selection[2]} /\ selection[1] # selection[2]

mousePress(cell) ==
  /\ ~selecting
  /\ selection' = <<cell, cell>> /\ selecting' = TRUE
  /\ UNCHANGED <<live, keyboard, savedLine, stale, past, derived, clipboard>>

mouseMove(cell) ==
  /\ selecting
  /\ selection' = [selection EXCEPT ![2] = cell]
  /\ UNCHANGED <<live, keyboard, savedLine, stale, past, derived, selecting, clipboard>>

Clicked == selection[1] = selection[2] /\ selection[1] # NoCell

\* The keyboard is locked, and the cursor, if it is shown, is hidden: that is a
\* change of the screen.
SendHotspot ==
  /\ keyboard' = "locked"
  /\ Redraw(live) \/ UNCHANGED <<live, stale, settling, derived>>
  /\ UNCHANGED <<savedLine, history, index, label>>

mouseRelease ==
  /\ selecting
  /\ selecting' = FALSE
  /\ selection' = IF Clicked THEN Nobody ELSE selection
  /\ IF Clicked /\ ~Viewing /\ selection[1] \in hotspots.at /\ keyboard = "unlocked"
     THEN SendHotspot
     ELSE UNCHANGED <<live, keyboard, savedLine, stale, past, derived>>
  /\ UNCHANGED clipboard

Select(cells) ==
  /\ selection' = cells /\ selecting' = FALSE
  /\ UNCHANGED <<live, keyboard, savedLine, stale, past, derived, clipboard>>

clearSelection == hasSelection /\ Select(Nobody)
selectAll == Select(<< <<0, 0>>, <<displayedBuffer.rows - 1, displayedBuffer.cols - 1>> >>)

\* Rows and columns of the selection that the screen shown has.
copySelection ==
  /\ hasSelection
  /\ LET between(k, size) == LET ends == {selection[1][k], selection[2][k]}
                             IN  {x \in Min(ends) .. Max(ends) : x < size}
         rows == between(1, displayedBuffer.rows)
         cols == between(2, displayedBuffer.cols)
         character(i, j) == displayedCharacter(displayedBuffer, Min(rows) + i - 1, Min(cols) + j - 1)
     IN  clipboard' = [i \in 1 .. Cardinality(rows) |->
                         [j \in 1 .. Cardinality(cols) |-> character(i, j)]]
  /\ UNCHANGED <<live, keyboard, savedLine, stale, past, derived, selection, selecting>>

-----------------------------------------------------------------------------
\* Sized by the tab that makes it, which starts the timer.
ViewInit ==
  /\ live \in {s \in Screens : \A p \in DOMAIN s.at : s.at[p] = Blank}
  /\ keyboard = "unlocked" /\ savedLine = <<>> /\ stale = {}
  /\ history = <<>> /\ index = -1 /\ settling = TRUE /\ label = <<>>
  /\ matching = [on |-> FALSE, rules |-> <<>>] /\ overlay = [cols |-> 0, at |-> <<>>]
  /\ hotspots = detect(FALSE, live)
  /\ selection = Nobody /\ selecting = FALSE /\ clipboard = <<>>

User == onHistoryBack \/ onHistoryForward \/ onHistoryExit

\* What the screen and its history do, whatever else goes on.
Watch ==
  \/ \E s \in Screens : Draw(s)
  \/ pushScreenToHistory
  \/ User
  \/ onToggleHotspots

Errors == WriteErrorCode \/ ErrorReset
Match == onToggleMatchReplace \/ onEditMatchReplacePatterns

Mouse ==
  \/ \E cell \in Pointed \cap DOMAIN live.at : mousePress(cell) \/ mouseMove(cell)
  \/ mouseRelease \/ clearSelection \/ selectAll \/ copySelection

ViewNext == Watch \/ Errors \/ Match \/ Mouse
ViewSpec == ViewInit /\ [][ViewNext]_viewVars

-----------------------------------------------------------------------------
\* A past screen that is viewed stays the one shown, with a true label, however
\* many snapshots are put in front of it: only the user leaves it, or the
\* history at its full depth, and then for the live screen (Q5250ScreenWidget.cpp,
\* pushScreenToHistory: "keep showing the screen being viewed, or return to the
\* live screen when that screen left the history").
ViewedIsKept ==
  [][/\ label' = HistoryLabel(index', Len(history')) /\ index' < Len(history')
     /\ Viewing => \/ index' >= 0 /\ displayedBuffer' = displayedBuffer
                   \/ User
                   \/ index' = -1 /\ index + 1 = MaxDepth /\ Len(history) = MaxDepth]_viewVars

\* What is derived from the screen follows it through every change of the screen,
\* of the rules and of the switches, and only from what is displayed: the newest
\* snapshot once the screen has settled, the overlay, the hotspots. None of them,
\* nor the clipboard, tells a hidden character. Except, until they are made again,
\* those made before a change that was not announced: the row an Error Reset puts
\* back, and for the overlay and the hotspots a field hidden or shown by a Start
\* Field that ends its record.
DerivedIsCurrent ==
  /\ "history" \notin stale /\ ~settling => Text(history[1]) = Text(live)
  /\ "overlay" \notin stale /\ matching.on => overlay = rebuildOverlay(matching, AsDisplayed(live))
  /\ "hotspots" \notin stale => hotspots = detect(hotspots.on, AsDisplayed(live))
  /\ \A i \in DOMAIN history : history[i] = AsDisplayed(history[i])
  /\ \A row \in ToSet(clipboard) : "*" \notin ToSet(row)

\* A record leaves an overlay in which hidden cells took part as blanks (actions.cpp:46,
\* refreshMatchReplaceOverlay: "a rule must not match their contents, nor shift them
\* into visible cells").
RulesSpareHidden ==
  [][\A s \in Screens :
       Draw(s) /\ matching.on => overlay' = rebuildOverlay(matching, AsDisplayed(s))]_viewVars

\* The host drawing another screen changes nothing of a past screen that the user
\* looks at (test_history_view.cpp, testNewSnapshotKeepsViewedScreen: the widget
\* paints what it painted before).
PaintedAsViewed ==
  [][Viewing /\ (\E s \in Screens : Draw(s)) => Painted' = Painted]_viewVars
=============================================================================
