---------------------------- MODULE SavedSessions ----------------------------
(***************************************************************************)
(* Saved sessions: the manager's files, the Connect dialog's form, and the *)
(* tabs that hold a copy of a profile each and write it back.              *)
(*                                                                         *)
(* A profile is what the properties tell apart: the edits it is made of,   *)
(* its theme, the value of a script's variable, whether a script is        *)
(* attached, the device name asked for. Every change a user makes gets a   *)
(* number of its own; 0 is what was there at the start. A file, or what a  *)
(* tab remembers of one, is a set of at most one profile.                  *)
(***************************************************************************)
EXTENDS Naturals, Sequences, FiniteSets, SequencesExt

CONSTANTS
  ProfileNames, LegacyPaths,
  LegacyPath,  \* the file an old version kept a profile in: names may collide
  MaxChanges,  \* changes the user makes, in all
  MaxWrites,   \* profiles saved or deleted, in all
  MaxConnectDialogs,  \* openings of the Connect dialog, in all
  MaxTabs      \* tabs opened, in all

VARIABLES
  files,   \* canonical files, by name
  legacy,  \* files of the old version, by path
  form,    \* the Connect dialog, when open
  views,   \* tabs: name, copy, what the file was, changes they know of
  changes, writes, visits,
  lost     \* changes replaced without a question, by one who did not know of them

FilesOf == <<files, legacy, writes, visits>>

savedVars == <<files, legacy, form, views, changes, writes, visits, lost>>

Unnamed == "Current Session"

(* A profile is saved under any name but the reserved ones.                *)
ASSUME SavedAssumption == Unnamed \notin ProfileNames /\ LegacyPath \in [ProfileNames -> LegacyPaths]

NewProfile == [edits |-> {}, theme |-> 0, variable |-> 0, script |-> "none", device |-> "configured"]

ChangesIn(c) == (c.edits \union {c.theme, c.variable}) \ {0}

SavedInit ==
  /\ files = [n \in ProfileNames |-> {}]
  /\ \E n \in ProfileNames, s \in {"none", "linked"} :
       legacy = [p \in LegacyPaths |->
                   IF p = LegacyPath[n] THEN {[name |-> n, profile |-> [NewProfile EXCEPT !.script = s, !.device = "type"]]}
                   ELSE {}]
  /\ form = << >>
  /\ views = << >>
  /\ changes = 0 /\ writes = 0 /\ visits = 0
  /\ lost = {}

-----------------------------------------------------------------------------
(***************************************************************************)
(* SessionManager. Writing a file succeeds or leaves it as it was;         *)
(* removing one may fail.                                                  *)
(***************************************************************************)
OldFileOf(n) == {f \in legacy[LegacyPath[n]] : f.name = n}

(* An old file has the device's type where the name is now: no name.       *)
fromJson(c) == [c EXCEPT !.device = IF @ = "type" THEN "configured" ELSE @]

loadSession(n) ==
  IF n \notin ProfileNames THEN {}
  ELSE IF files[n] # {} THEN files[n]
  ELSE {fromJson(f.profile) : f \in OldFileOf(n)}

listSessions == {n \in ProfileNames : loadSession(n) # {}}

RemoveOld(n) == legacy' = [legacy EXCEPT ![LegacyPath[n]] = @ \ OldFileOf(n)]

WriteProfile == writes < MaxWrites /\ writes' = writes + 1 /\ UNCHANGED visits

saveSession(n, c) ==
  /\ WriteProfile
  /\ files' = [files EXCEPT ![n] = {c}]
  /\ RemoveOld(n) \/ UNCHANGED legacy

deleteSession(n) ==
  /\ WriteProfile
  /\ files' = [files EXCEPT ![n] = {}]
  /\ RemoveOld(n)

(* The new file is gone and the old one stays: reported as a failure.      *)
deleteSessionHalf(n) ==
  /\ WriteProfile
  /\ OldFileOf(n) # {}
  /\ files' = [files EXCEPT ![n] = {}]
  /\ UNCHANGED legacy

(* What a save takes from the profile it replaces.                         *)
Replaced(n, known) == (UNION {ChangesIn(c) : c \in loadSession(n)}) \ known

NewChange == changes < MaxChanges /\ changes' = changes + 1

-----------------------------------------------------------------------------
(***************************************************************************)
(* The Connect dialog. config is m_currentConfig, edit the field of the    *)
(* script's variable; the other fields are written to config as they are   *)
(* typed. known is what the dialog read or wrote of the profile.           *)
(***************************************************************************)
Opened == form # << >>
Form == form[1]
SetForm(f) == form' = <<f>>

rebuildScriptVariableFields(f) ==
  [f EXCEPT !.edit = IF f.config.script = "none" THEN 0 ELSE f.config.variable]

(* Values typed so far are kept, when there is a field for them.           *)
KeepTyped(f) == IF f.config.script = "none" THEN f ELSE [f EXCEPT !.config.variable = f.edit]

attachScriptFromFile(f, how) ==
  rebuildScriptVariableFields([KeepTyped(f) EXCEPT !.config.script = how])

(* The file of a linked script is read again, when it is there.            *)
updateUI(f) ==
  LET g == rebuildScriptVariableFields(f) IN
  {g} \union (IF f.config.script = "linked" THEN {attachScriptFromFile(g, "linked")} ELSE {})

(* Without a script there are no fields, and no variables.                 *)
getSessionConfig == [Form.config EXCEPT !.variable = IF Form.config.script = "none" THEN 0 ELSE Form.edit]

onConnectOpens ==
  /\ ~Opened
  /\ visits < MaxConnectDialogs
  /\ visits' = visits + 1
  /\ SetForm([name |-> Unnamed, config |-> NewProfile, edit |-> 0, known |-> {}, typed |-> {}])
  /\ UNCHANGED <<files, legacy, writes, views, changes, lost>>

loadIntoForm(n) ==
  /\ Opened
  /\ \E c \in loadSession(n) :
       \E f \in updateUI([Form EXCEPT !.config = c, !.name = n]) :
         SetForm([f EXCEPT !.known = ChangesIn(c), !.typed = {}])
  /\ UNCHANGED <<FilesOf, views, changes, lost>>

(* The values stay as a starting point, without the profile they are of.   *)
onSessionComboNew ==
  /\ Opened
  /\ SetForm([Form EXCEPT !.name = Unnamed, !.known = {}, !.typed = @ \union Form.known])
  /\ UNCHANGED <<FilesOf, views, changes, lost>>

FormChanges(f) ==
  /\ Opened
  /\ NewChange
  /\ SetForm([f EXCEPT !.typed = @ \union {changes'}])
  /\ UNCHANGED <<FilesOf, views, lost>>

typeField == Opened /\ FormChanges([Form EXCEPT !.config.edits = @ \union {changes'}])

typeVariable ==
  /\ Opened /\ Form.config.script # "none"
  /\ FormChanges([Form EXCEPT !.edit = changes'])

onScriptComboChanged ==
  /\ Opened
  /\ NewChange
  /\ \E how \in {"linked", "copy"} : SetForm(attachScriptFromFile(Form, how))
  /\ UNCHANGED <<FilesOf, views, lost>>

detachScript ==
  /\ Opened
  /\ NewChange
  /\ SetForm([Form EXCEPT !.config.script = "none", !.config.variable = 0, !.edit = 0])
  /\ UNCHANGED <<FilesOf, views, lost>>

(* The text of a saved copy: what was typed is not kept.                   *)
onEditScriptClicked ==
  /\ Opened
  /\ Form.config.script = "copy"
  /\ NewChange
  /\ SetForm(rebuildScriptVariableFields(Form))
  /\ UNCHANGED <<FilesOf, views, lost>>

(* Saved as n: with a question when that is another profile.               *)
SavesAs(n, name, c, known) ==
  /\ saveSession(n, c)
  /\ lost' = lost \union (IF n = name THEN Replaced(n, known) ELSE {})

FormSavesAs(n) ==
  /\ SavesAs(n, Form.name, getSessionConfig, Form.known)
  /\ SetForm([Form EXCEPT !.name = n, !.config = getSessionConfig, !.known = ChangesIn(getSessionConfig)])

saveCurrentSession ==
  /\ Opened
  /\ Form.name # Unnamed
  /\ FormSavesAs(Form.name)
  /\ UNCHANGED <<views, changes>>

saveCurrentAsSession(n) ==
  /\ Opened
  /\ FormSavesAs(n)
  /\ UNCHANGED <<views, changes>>

(* A failure leaves the form as it is.                                     *)
onDeleteSessionClicked(n) ==
  /\ Opened
  /\ n \in listSessions
  /\ \/ /\ deleteSession(n)
        /\ SetForm([name |-> Unnamed, config |-> NewProfile, edit |-> 0, known |-> {}, typed |-> {}])
     \/ /\ deleteSessionHalf(n)
        /\ UNCHANGED form
  /\ UNCHANGED <<views, changes, lost>>

onCancelClicked ==
  /\ Opened
  /\ form' = << >>
  /\ UNCHANGED <<FilesOf, views, changes, lost>>

-----------------------------------------------------------------------------
(***************************************************************************)
(* Tabs. The device name in use is one no other tab has; config is the     *)
(* configuration with the name asked for.                                  *)
(***************************************************************************)
InUse(c) == [c EXCEPT !.device = IF views # << >> /\ c.device = "configured" THEN "given" ELSE c.device]

connectWithProfile(name, c, snapshot, known) ==
  /\ Len(views) < MaxTabs
  /\ views' = Append(views, [name |-> name, copy |-> InUse(c), requested |-> c.device,
                             snapshot |-> snapshot, known |-> known])

savedConfig(v) == [v.copy EXCEPT !.device = v.requested]

onConnectClicked ==
  /\ Opened
  /\ connectWithProfile(Form.name, getSessionConfig, loadSession(Form.name),
                     Form.known \union ChangesIn(getSessionConfig))
  /\ form' = << >>
  /\ UNCHANGED <<FilesOf, changes, lost>>

onSavedSessionChosen(n) ==
  /\ ~Opened
  /\ \E c \in loadSession(n) : connectWithProfile(n, c, loadSession(n), ChangesIn(c))
  /\ UNCHANGED <<FilesOf, form, changes, lost>>

(* Duplicate, and Reconnect, which replaces the tab: the copy is the       *)
(* tab's, so is what it remembers of the file.                             *)
onDuplicateProfile(v) ==
  /\ ~Opened
  /\ connectWithProfile(v.name, savedConfig(v), v.snapshot, v.known)
  /\ UNCHANGED <<FilesOf, form, changes, lost>>

onReconnectProfile(i) ==
  LET v == views[i] IN
  /\ ~Opened
  /\ views' = [views EXCEPT ![i].copy = [savedConfig(v) EXCEPT
                 !.device = IF Len(views) > 1 THEN "given" ELSE @]]
  /\ UNCHANGED <<FilesOf, form, changes, lost>>

Written(i, n, c) ==
  views' = [views EXCEPT ![i].name = n, ![i].snapshot = {c}, ![i].known = @ \union ChangesIn(c)]

(* The user is asked when the file is not what the tab last read or wrote. *)
onSaveSession(i) ==
  LET v == views[i] IN
  /\ ~Opened
  /\ v.name \in listSessions
  /\ saveSession(v.name, savedConfig(v))
  /\ Written(i, v.name, savedConfig(v))
  /\ lost' = lost \union (IF loadSession(v.name) = v.snapshot THEN Replaced(v.name, v.known) ELSE {})
  /\ UNCHANGED <<form, changes>>

(* Under the tab's own name nothing is asked: see the README.              *)
onSaveSessionAs(i, n) ==
  LET v == views[i] IN
  /\ ~Opened
  /\ saveSession(n, savedConfig(v))
  /\ Written(i, n, savedConfig(v))
  /\ UNCHANGED <<form, changes, lost>>

applyThemeToSession(i) ==
  /\ ~Opened
  /\ NewChange
  /\ views' = [views EXCEPT ![i].copy.theme = changes', ![i].known = @ \union {changes'}]
  /\ UNCHANGED <<FilesOf, form, lost>>

(* A mutant: the snapshot taken whatever the profile was before.           *)
ThemedAlways(v, c) == [views[v] EXCEPT !.copy.theme = changes', !.known = @ \union {changes'},
                         !.snapshot = {[c EXCEPT !.theme = changes']}]

(* Quick theme writes the theme to the profile; the tab goes on as before  *)
(* when the profile had changed under it.                                  *)
Themed(v, c) == [views[v] EXCEPT !.copy.theme = changes', !.known = @ \union {changes'},
                   !.snapshot = IF {c} = @ THEN {[c EXCEPT !.theme = changes']} ELSE @]

onQuickProfileTheme(i) ==
  /\ ~Opened
  /\ NewChange
  /\ \E c \in loadSession(views[i].name) :
       /\ saveSession(views[i].name, [c EXCEPT !.theme = changes'])
       /\ views' = [views EXCEPT ![i] = Themed(i, c)]
  /\ UNCHANGED <<form, lost>>

onCloseProfileTab(i) ==
  /\ ~Opened
  /\ views' = RemoveAt(views, i)
  /\ UNCHANGED <<FilesOf, form, changes, lost>>

SavedNext ==
  \/ onConnectOpens \/ onSessionComboNew \/ typeField \/ typeVariable
  \/ onScriptComboChanged \/ detachScript \/ onEditScriptClicked
  \/ saveCurrentSession \/ onCancelClicked \/ onConnectClicked
  \/ \E n \in ProfileNames :
       \/ loadIntoForm(n) \/ saveCurrentAsSession(n) \/ onDeleteSessionClicked(n)
       \/ onSavedSessionChosen(n)
  \/ \E i \in DOMAIN views :
       \/ onDuplicateProfile(views[i]) \/ onReconnectProfile(i) \/ onCloseProfileTab(i)
       \/ onSaveSession(i) \/ applyThemeToSession(i) \/ onQuickProfileTheme(i)
       \/ \E n \in ProfileNames : onSaveSessionAs(i, n)

SavedSpec == SavedInit /\ [][SavedNext]_savedVars

-----------------------------------------------------------------------------
(* A save that asks nothing never replaces a change its tab or dialog had  *)
(* not read or made itself, in whatever order tabs, themes and the dialog  *)
(* write the profile (onSaveSession.cpp:62).                               *)
NoSilentLoss == lost = {}

(* A profile keeps the device name the user configured, however often tabs *)
(* given another one are duplicated, reconnected and saved                 *)
(* (onSaveSession.cpp:24).                                                 *)
DeviceAsConfigured ==
  \A n \in ProfileNames : \A c \in loadSession(n) : c.device = "configured"

(* Variables in the form were typed since the profile was loaded, or are   *)
(* the profile's own: none is left from another (connect_dialog.cpp:627).  *)
VariablesAreTheProfiles ==
  Opened => {Form.edit, Form.config.variable} \ {0} \subseteq Form.known \union Form.typed

\* Profiles lose nothing: the above, and whatever is saved or deleted, and
\* whichever removal fails, one profile changes, also when the old files of two
\* have one path (SessionManager::saveSession, manager.cpp:126).
ProfilesKept ==
  [][ /\ NoSilentLoss' /\ DeviceAsConfigured' /\ VariablesAreTheProfiles'
      /\ \A m, n \in ProfileNames :
           loadSession(m)' # loadSession(m) /\ loadSession(n)' # loadSession(n) => m = n ]_savedVars

=============================================================================
