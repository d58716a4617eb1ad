---------------------------- MODULE ScriptEditor ----------------------------
(***************************************************************************)
(* The script library on disk and the window that edits it                 *)
(* (ScriptEditorWindow): tabs over files that other programs change, a     *)
(* watcher that tells of the changes, questions whose nested event loop    *)
(* lets further changes in, and the menu that makes, imports and deletes   *)
(* scripts.  Questions stop the user's other actions, not the file system. *)
(* The file dialogs are taken as one step.                                 *)
(***************************************************************************)
EXTENDS Naturals, Sequences, FiniteSets, SequencesExt

CONSTANTS
  ScriptPaths,  \* where scripts may be
  ScriptTexts,  \* what they may say
  Template,     \* what a new script says
  MaxOpened,    \* bound: tabs opened, in all
  MaxTyped,     \* bound: texts typed
  MaxOutside    \* bound: files changed by others

NoFile == "none"
NoPath == "untitled"

ASSUME ScriptAssumption ==
  /\ Template \in ScriptTexts /\ NoFile \notin ScriptTexts
  /\ NoPath \notin ScriptPaths

VARIABLES
  disk,      \* the text of each file
  watch,     \* what m_watcher knows of each: "off", "on", or the event it
             \* has still to tell, "changed" or "removed"
  tabs,      \* the tabs: number, path, text, whether modified
  current,   \* m_tabs->currentIndex(), 0 for none
  asks,      \* the questions open, the innermost last: kind, number of the
             \* tab, the text to reload, whether all tabs are being closed
  closing,   \* confirmCloseAll goes on
  opened, typed, outside,
  said,      \* history: what the last step did, as far as it may lose text
  excused    \* history: paths found missing, or opened twice by Save As

editorVars == <<disk, watch, tabs, current, asks, closing, opened, typed, outside, said,
                excused>>

EditorInit ==
  /\ disk \in [ScriptPaths -> {Template, NoFile}]
  /\ watch = [p \in ScriptPaths |-> "off"]
  /\ tabs = << >> /\ current = 0 /\ asks = << >> /\ closing = FALSE
  /\ opened = 0 /\ typed = 0 /\ outside = 0
  /\ said = "nothing" /\ excused = {}

UserIsFree == asks = << >> /\ ~closing

-----------------------------------------------------------------------------
(* The file system and the watcher.                                        *)

Exists(p) == disk[p] # NoFile

\* QFileSystemWatcher: a path that is watched already is left as it is, one
\* without a file is not added, and removing one drops what it had to tell.
AddPath(w, d, p) == IF w[p] = "off" /\ d[p] # NoFile THEN [w EXCEPT ![p] = "on"] ELSE w

RemovePath(w, p) == IF p = NoPath THEN w ELSE [w EXCEPT ![p] = "off"]

Told(p, event) ==
  watch' = IF watch[p] = "off" \/ watch[p] = "removed" THEN watch
           ELSE [watch EXCEPT ![p] = event]

\* Another program writes the file in place, replaces or deletes it; a file
\* made anew is not the one that was watched.
ChangedOutside(p, text) ==
  /\ outside < MaxOutside
  /\ outside' = outside + 1
  /\ text # disk[p]
  /\ disk' = [disk EXCEPT ![p] = text]
  /\ said' = "outside"
  /\ IF text = NoFile THEN Told(p, "removed")
     ELSE IF Exists(p) THEN Told(p, "changed") \/ Told(p, "removed")
     ELSE UNCHANGED watch
  /\ UNCHANGED <<tabs, current, asks, closing, opened, typed, excused>>

-----------------------------------------------------------------------------
(* Tabs.                                                                   *)

Positions == DOMAIN tabs

Tabs(p) == {i \in Positions : tabs[i].path = p}

\* 0 when no tab has the file.
indexOfPath(p) ==
  IF p = NoPath \/ Tabs(p) = {} THEN 0 ELSE CHOOSE i \in Tabs(p) : \A j \in Tabs(p) : i <= j

IndexOf(number) == CHOOSE i \in Positions : tabs[i].number = number

addTab(path, text, d) ==
  /\ opened < MaxOpened
  /\ opened' = opened + 1
  /\ tabs' = Append(tabs, [number |-> opened + 1, path |-> path, text |-> text,
                           modified |-> FALSE])
  /\ current' = Len(tabs) + 1
  /\ watch' = IF path = NoPath THEN watch ELSE AddPath(watch, d, path)
  /\ excused' = excused \ {path}

\* With the library as it is after the step that opens the file.
openFile(p, d) ==
  IF indexOfPath(p) # 0
  THEN /\ current' = indexOfPath(p)
       /\ UNCHANGED <<tabs, watch, opened, excused>>
  ELSE addTab(p, d[p], d)

EditScript(p) ==
  /\ UserIsFree
  /\ Exists(p)
  /\ openFile(p, disk)
  /\ said' = "nothing"
  /\ UNCHANGED <<disk, asks, closing, typed, outside>>

newScript ==
  /\ UserIsFree
  /\ addTab(NoPath, Template, disk)
  /\ said' = "nothing"
  /\ UNCHANGED <<disk, asks, closing, typed, outside>>

\* The user types, or formats, in the tab shown.
Type(text) ==
  /\ UserIsFree /\ current # 0
  /\ text # tabs[current].text
  /\ typed < MaxTyped
  /\ typed' = typed + 1
  /\ tabs' = [tabs EXCEPT ![current].text = text, ![current].modified = TRUE]
  /\ said' = "typed"
  /\ UNCHANGED <<disk, watch, current, asks, closing, opened, outside, excused>>

ShowTab(i) ==
  /\ UserIsFree
  /\ i \in Positions /\ i # current
  /\ current' = i
  /\ said' = "nothing"
  /\ UNCHANGED <<disk, watch, tabs, asks, closing, opened, typed, outside, excused>>

-----------------------------------------------------------------------------
(* Saving.                                                                 *)

\* writeFile takes the file off the watcher and puts it back; with Save As the
\* former file goes off it.
SavedWatch(d, i, path) ==
  LET again == AddPath(RemovePath(watch, path), d, path) IN
  IF tabs[i].path \in {NoPath, path} THEN again ELSE RemovePath(again, tabs[i].path)

\* The file is replaced as a whole, or the write fails and all stays but the
\* watch.  i is the tab, path the file, which Save As gives to the tab.
Writes(i, path, done) ==
  /\ disk' = IF done THEN [disk EXCEPT ![path] = tabs[i].text] ELSE disk
  /\ tabs' = IF done THEN [tabs EXCEPT ![i].path = path, ![i].modified = FALSE] ELSE tabs
  /\ watch' = IF done THEN SavedWatch(disk', i, path)
              ELSE AddPath(RemovePath(watch, path), disk, path)
  /\ excused' = IF Tabs(path) \ {i} # {} \/ disk'[path] = NoFile THEN excused \cup {path}
                ELSE excused \ {path}

\* saveTab: to its file, or, untitled, to one the user chooses.
Saves(i, path, done) ==
  /\ tabs[i].path \in {NoPath, path}
  /\ Writes(i, path, done)

SaveTab(path, done) ==
  /\ UserIsFree /\ current # 0
  /\ Saves(current, path, done)
  /\ said' = "save"
  /\ UNCHANGED <<current, asks, closing, opened, typed, outside>>

SaveTabAs(path, done) ==
  /\ UserIsFree /\ current # 0
  /\ Writes(current, path, done)
  /\ said' = "save"
  /\ UNCHANGED <<current, asks, closing, opened, typed, outside>>

\* Run and Open Externally save a tab that needs it first; the session reads the
\* file (RunChosen of SessionTab).
runCurrent(path, done) ==
  /\ current # 0
  /\ tabs[current].modified \/ tabs[current].path = NoPath
  /\ SaveTab(path, done)

-----------------------------------------------------------------------------
(* Closing.                                                                *)

\* removeTab shows a neighbour of a tab that was shown.
CurrentWithout(i) ==
  IF current > i \/ current = Len(tabs) THEN current - 1 ELSE current

Removes(i, w, ts, d) ==
  /\ watch' = RemovePath(w, ts[i].path)
  /\ tabs' = RemoveAt(ts, i)
  /\ current' = CurrentWithout(i)
  /\ disk' = d

\* A modified tab is shown and asked about.
closeTab(i) ==
  IF tabs[i].modified
  THEN /\ current' = i
       /\ asks' = Append(asks, [kind |-> "close", number |-> tabs[i].number, text |-> NoFile])
       /\ UNCHANGED <<disk, watch, tabs>>
  ELSE Removes(i, watch, tabs, disk) /\ UNCHANGED asks

RequestCloseTab(i) ==
  /\ UserIsFree
  /\ i \in Positions
  /\ closeTab(i)
  /\ said' = "nothing"
  /\ UNCHANGED <<closing, opened, typed, outside, excused>>

\* closeEvent, of this window or of the main window: from the last tab on.
CloseAll ==
  /\ UserIsFree
  /\ tabs # << >>
  /\ closing' = TRUE
  /\ said' = "nothing"
  /\ UNCHANGED <<disk, watch, tabs, current, asks, opened, typed, outside, excused>>

CloseAllGoesOn ==
  /\ closing /\ asks = << >>
  /\ said' = "nothing"
  /\ IF tabs = << >>
     THEN closing' = FALSE /\ UNCHANGED <<disk, watch, tabs, current, asks>>
     ELSE closeTab(Len(tabs)) /\ UNCHANGED closing
  /\ UNCHANGED <<opened, typed, outside, excused>>

Answered == asks' = Front(asks)

AskedToClose(i) ==
  /\ asks # << >> /\ Last(asks).kind = "close"
  /\ i = IndexOf(Last(asks).number)

AnswerCancel(i) ==
  /\ AskedToClose(i)
  /\ Answered
  /\ closing' = FALSE
  /\ said' = "nothing"
  /\ UNCHANGED <<disk, watch, tabs, current, opened, typed, outside, excused>>

AnswerDiscard(i) ==
  /\ AskedToClose(i)
  /\ Answered
  /\ Removes(i, watch, tabs, disk)
  /\ said' = "discard"
  /\ UNCHANGED <<closing, opened, typed, outside, excused>>

\* A mutant: the tab closes whether it could be saved or not.
AnswerSaveAndClose(i, path, done) ==
  /\ AskedToClose(i)
  /\ tabs[i].path \in {NoPath, path}
  /\ Answered
  /\ Removes(i, watch, tabs, IF done THEN [disk EXCEPT ![path] = tabs[i].text] ELSE disk)
  /\ said' = "save"
  /\ UNCHANGED <<closing, opened, typed, outside, excused>>

\* A tab that could not be saved stays, and closing all of them ends.
AnswerSave(i, path, done) ==
  /\ AskedToClose(i)
  /\ tabs[i].path \in {NoPath, path}
  /\ Answered
  /\ said' = "save"
  /\ IF done
     THEN /\ Removes(i, RemovePath(watch, path), tabs, [disk EXCEPT ![path] = tabs[i].text])
          /\ excused' = IF Tabs(path) \ {i} # {} THEN excused \cup {path} ELSE excused
          /\ UNCHANGED closing
     ELSE /\ Saves(i, path, FALSE)
          /\ closing' = FALSE
          /\ UNCHANGED current
  /\ UNCHANGED <<opened, typed, outside>>

-----------------------------------------------------------------------------
(* Changes outside.                                                        *)

\* A mutant: a replaced file is not watched again.
WatchedAgainNever(w, p) == w

WatchedAgain(w, p) == AddPath(w, disk, p)

Asking(i) == tabs[i].modified

Reloads(i, text) == tabs' = [tabs EXCEPT ![i].text = text, ![i].modified = FALSE]

\* onFileChanged.  The watcher forgets a removed file before it tells.
onFileChanged(p) ==
  /\ watch[p] \in {"changed", "removed"}
  /\ LET i == indexOfPath(p)
         w == [watch EXCEPT ![p] = IF @ = "removed" THEN "off" ELSE "on"] IN
     /\ watch' = IF i = 0 THEN w ELSE WatchedAgain(w, p)
     /\ excused' = IF Exists(p) THEN excused ELSE excused \cup {p}
     /\ IF i = 0 \/ ~Exists(p) THEN UNCHANGED <<tabs, asks>>
        ELSE IF disk[p] = tabs[i].text THEN UNCHANGED <<tabs, asks>>
        ELSE IF Asking(i)
        THEN /\ asks' = Append(asks, [kind |-> "reload", number |-> tabs[i].number,
                                      text |-> disk[p]])
             /\ UNCHANGED tabs
        ELSE Reloads(i, disk[p]) /\ UNCHANGED asks
  /\ said' = "nothing"
  /\ UNCHANGED <<disk, current, closing, opened, typed, outside>>

\* "Reload it and lose your changes?"
AnswerReload(yes) ==
  /\ asks # << >> /\ Last(asks).kind = "reload"
  /\ Answered
  /\ IF yes THEN Reloads(IndexOf(Last(asks).number), Last(asks).text) ELSE UNCHANGED tabs
  /\ said' = IF yes THEN "reload" ELSE "nothing"
  /\ UNCHANGED <<disk, watch, current, closing, opened, typed, outside, excused>>

-----------------------------------------------------------------------------
(* The Scripts menu.                                                       *)

\* The name gets a suffix until nothing has it.
Free(p) == ~Exists(p)

\* createScriptFromTemplate, then the editor.
onNewScript(p) ==
  /\ UserIsFree /\ Free(p)
  /\ disk' = [disk EXCEPT ![p] = Template]
  /\ openFile(p, disk')
  /\ said' = "new"
  /\ UNCHANGED <<asks, closing, typed, outside>>

onImportScript(p, text) ==
  /\ UserIsFree /\ Free(p)
  /\ disk' = [disk EXCEPT ![p] = text]
  /\ said' = "new"
  /\ UNCHANGED <<watch, tabs, current, asks, closing, opened, typed, outside, excused>>

\* onDeleteScript, once confirmed; an open tab keeps its text.
onDeleteScript(p) ==
  /\ UserIsFree /\ Exists(p)
  /\ disk' = [disk EXCEPT ![p] = NoFile]
  /\ Told(p, "removed")
  /\ said' = "delete"
  /\ UNCHANGED <<tabs, current, asks, closing, opened, typed, outside, excused>>

EditorNext ==
  \/ newScript \/ CloseAll \/ CloseAllGoesOn
  \/ \E text \in ScriptTexts : Type(text)
  \/ \E i \in Positions : ShowTab(i) \/ RequestCloseTab(i) \/ AnswerCancel(i) \/ AnswerDiscard(i)
  \/ \E yes \in BOOLEAN : AnswerReload(yes)
  \/ \E p \in ScriptPaths :
       \/ EditScript(p) \/ onFileChanged(p)
       \/ onNewScript(p) \/ onDeleteScript(p)
       \/ \E text \in ScriptTexts : onImportScript(p, text)
       \/ \E text \in ScriptTexts \cup {NoFile} : ChangedOutside(p, text)
       \/ \E done \in BOOLEAN :
            \/ SaveTab(p, done) \/ SaveTabAs(p, done) \/ runCurrent(p, done)
            \/ \E i \in Positions : AnswerSave(i, p, done)

EditorSpec == EditorInit /\ [][EditorNext]_editorVars

-----------------------------------------------------------------------------
(* Properties.                                                             *)

\* Text the user typed leaves the editor for a file, or because the user said
\* so; and what a file says is replaced by a save, a deletion or another
\* program, never by a script that is made or imported (writeFile, closeTab,
\* confirmCloseAll, onFileChanged, the suffixes of onImportScript).
NothingLostUnasked ==
  [][ /\ \A i \in Positions : tabs[i].modified =>
           \/ \E j \in DOMAIN tabs' : tabs'[j].number = tabs[i].number /\ tabs'[j].modified
           \/ said' = "save" /\ \E p \in ScriptPaths : disk'[p] = tabs[i].text
           \/ said' \in {"discard", "reload"}
      /\ \A p \in ScriptPaths : Exists(p) /\ disk'[p] # disk[p] =>
           said' \in {"save", "delete", "outside"} ]_editorVars

\* The editor goes on hearing of changes to an open file, saved, replaced by
\* other programs or under another tab closed as often as may be; it stops
\* only for a file it once found missing, or one that Save As put into a
\* second tab (addTab, writeFile, onFileChanged).
StaysWatched ==
  \A i \in Positions :
    LET p == tabs[i].path IN
    p # NoPath /\ p \notin excused /\ Exists(p) => watch[p] # "off"

=============================================================================
