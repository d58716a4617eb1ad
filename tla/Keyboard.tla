------------------------------ MODULE Keyboard ------------------------------
(***************************************************************************)
(* From a key to what it does: the mapping of chords to 5250 actions       *)
(* (KeyboardMapping, saved in the settings), the dialog that changes it    *)
(* (KeyboardRemapDialog), the virtual keyboard, a key press on the screen  *)
(* (Q5250ScreenWidget::keyPressEvent over KeyboardEncoder), and the        *)
(* recording of keys into a script (MacroRecorder, macroToScript) that     *)
(* replays them as key presses.                                            *)
(*                                                                         *)
(* The keyboard is unlocked throughout; Workstation models its states.     *)
(***************************************************************************)
EXTENDS Naturals, FiniteSets, SequencesExt

CONSTANTS
  Chords,        \* what can be pressed, and bound
  Shadowed,      \* the chords a menu of the window, Paste or Copy takes
  Files,         \* the mappings of the files there are to import
  Earlier,       \* those an earlier run of the program may have saved
  MaxUses        \* bound: rows changed in the dialog and keys recorded, together

Modifier == {"shift", "ctrl", "alt"}
Chord == [key : {"F3", "Delete", "Backtab", "x", "none"}, mods : SUBSET Modifier]

Key(k) == [key |-> k, mods |-> {}]
With(mod, k) == [key |-> k, mods |-> {mod}]

\* A few of each kind: AIDs, cursor keys, editing keys.
Aids == {"PF3"}
Moves == {"BackTab"}
Edits == {"Delete", "EraseEOF"}
Actions == Aids \cup Moves \cup Edits

Waiting == Key("none")    \* a chip that waits for its chord

\* Only chords with a key are bound, and only to actions.
IsMapping(m) ==
  m = [c \in DOMAIN m |-> m[c]] /\ \A c \in DOMAIN m : c \in Chord \ {Waiting} /\ m[c] \in Actions

ASSUME ChordsAssumption == Chords \subseteq Chord /\ Shadowed \subseteq Chords
ASSUME MappingsAssumption == \A m \in Files \cup Earlier : IsMapping(m)
ASSUME MaxUsesAssumption == MaxUses \in Nat

VARIABLES
  mapping,       \* KeyboardMapping::instance(): a function from chords to actions
  stored,        \* the settings: {} when nothing was ever saved, or the one saved mapping
  dialog,        \* the remap dialog is open
  working,       \* its copy of the mapping
  rows,          \* its editors: for each action, the chips of its row
  labels,        \* the chords in the virtual keyboard's tooltips: {} before it is shown
  latched,       \* the virtual keyboard's modifiers held
  recorder,      \* the recording going on
  script,        \* {} or the one script made of the last recording
  uses           \* rows changed and keys recorded

keyboardVars == <<mapping, stored, dialog, working, rows, labels, latched, recorder,
                  script, uses>>

-----------------------------------------------------------------------------
\* The mapping.

None == "none"

Defaults ==
  LET bound == { <<Key("F3"), "PF3">>,
                 <<Key("Backtab"), "BackTab">>,
                 <<Key("Delete"), "Delete">>, <<With("ctrl", "Delete"), "EraseEOF">> }
  IN  [c \in {b[1] : b \in bound} |-> (CHOOSE b \in bound : b[1] = c)[2]]

Unshifted(c) == [c EXCEPT !.mods = @ \ {"shift"}]

\* Qt reports Shift+Tab as Backtab with Shift still held.
Lookup(m, c) ==
  LET found == IF c \notin DOMAIN m /\ c.key = "Backtab" /\ "shift" \in c.mods THEN Unshifted(c) ELSE c
  IN  IF found \in DOMAIN m THEN m[found] ELSE None

ChordsFor(m, a) == {c \in DOMAIN m : m[c] = a}

Rebound(m, a, chords) ==
  [c \in {d \in DOMAIN m : m[d] # a} \cup chords |-> IF c \in chords THEN a ELSE m[c]]

Load(saved) == IF saved = {} THEN Defaults ELSE CHOOSE m \in saved : TRUE

-----------------------------------------------------------------------------
\* A key press on the screen.

IsEncoderAidChord(c) == c.key = "F3"
EncoderBaseChord(c) == [c EXCEPT !.mods = {}]

\* An unbound modifier on a key of the encoder follows the key's own binding.
ActionOf(m, c) ==
  IF Lookup(m, c) = None /\ IsEncoderAidChord(c) THEN Lookup(m, EncoderBaseChord(c)) ELSE Lookup(m, c)

\* What KeyboardEncoder and processKeyEvent make of a chord without an action.
Encoded(c) ==
  CASE c.key = "F3" -> "PF3"
    [] c.key = "x" /\ c.mods \subseteq {"shift"} -> "character"
    [] OTHER -> None

\* A chord the user typed and has unbound does nothing; replayed by a script
\* it has the encoder's meaning.
Effect(m, c, typed) ==
  LET action == ActionOf(m, c)
  IN  IF action # None THEN action
      ELSE IF typed /\ IsEncoderAidChord(c) THEN None ELSE Encoded(c)

\* The chord a script's PRESS is replayed as: aidToQtKey, and 5250script's own
\* table for the editing keys.
ReplayChord(a) ==
  CASE a = "PF3" -> Key("F3")
    [] a = "Delete" -> Key("Delete")
    [] a = "EraseEOF" -> With("ctrl", "Delete")

-----------------------------------------------------------------------------
\* Recording, and the script made of it.

NotRecording == [on |-> FALSE, steps |-> <<>>, did |-> <<>>, plain |-> TRUE]

\* The AID step is the screen's, whichever key or button sent it.
AidStep(effect) == IF effect \in Aids THEN <<[aid |-> effect]>> ELSE <<>>
Did(effect) == IF effect = None THEN <<>> ELSE <<effect>>

\* plain: every key so far was typed, and none was remapped in between.
Recorded(step, effect, plain) ==
  IF ~recorder.on THEN recorder
  ELSE [recorder EXCEPT !.steps = @ \o step \o AidStep(effect), !.did = @ \o Did(effect),
                        !.plain = @ /\ plain]

\* A chord that sent an AID is left to the AID step behind it.
Line(m, step) ==
  IF "aid" \in DOMAIN step THEN <<[press |-> step.aid]>>
  ELSE IF Lookup(m, step.chord) \in Moves \cup Edits THEN <<[press |-> Lookup(m, step.chord)]>>
  ELSE IF Lookup(m, step.chord) = None /\ Encoded(step.chord) = "character"
       THEN <<[type |-> step.chord]>> ELSE <<>>

MacroToScript(m, steps) == FlattenSeq([i \in DOMAIN steps |-> Line(m, steps[i])])

\* MOVE CURSOR moves the cursor itself, PRESS and TYPE send key events.
ReplayLine(m, line) ==
  IF "type" \in DOMAIN line THEN Effect(m, line.type, FALSE)
  ELSE IF line.press \in Moves THEN line.press ELSE Effect(m, ReplayChord(line.press), FALSE)
Replay(m, lines) == [i \in DOMAIN lines |-> ReplayLine(m, lines[i])]

-----------------------------------------------------------------------------
\* The operator at the screen.

Press == /\ ~dialog /\ recorder.on /\ uses < MaxUses
         /\ uses' = uses + 1

PressKey(c) ==
  /\ Press
  /\ recorder' = Recorded(<<[chord |-> c]>>, Effect(mapping, c, TRUE), TRUE)
  /\ UNCHANGED <<mapping, stored, dialog, working, rows, labels, latched, script>>

\* Past keyPressEvent, so without a key step.
ClickAction(a) ==
  /\ Press /\ labels # {}
  /\ recorder' = Recorded(<<>>, a, FALSE)
  /\ latched' = {}
  /\ UNCHANGED <<mapping, stored, dialog, working, rows, labels, script>>

ClickCharacter(c) ==
  /\ Press /\ labels # {} /\ c.key = "x" /\ c.mods = latched
  /\ recorder' = Recorded(<<>>, IF latched \cap {"ctrl", "alt"} = {} THEN "character"
                                ELSE Lookup(mapping, c), FALSE)
  /\ latched' = {}
  /\ UNCHANGED <<mapping, stored, dialog, working, rows, labels, script>>

LatchModifier(mod) ==
  /\ ~dialog /\ labels # {} /\ recorder.on
  /\ latched' = IF mod \in latched THEN latched \ {mod} ELSE latched \cup {mod}
  /\ UNCHANGED <<mapping, stored, dialog, working, rows, labels, recorder, script, uses>>

ShowVirtualKeyboard ==
  /\ ~dialog /\ labels = {}
  /\ labels' = {mapping}
  /\ UNCHANGED <<mapping, stored, dialog, working, rows, latched, recorder, script, uses>>

HideVirtualKeyboard ==
  /\ ~dialog /\ labels # {}
  /\ labels' = {}
  /\ UNCHANGED <<mapping, stored, dialog, working, rows, latched, recorder, script, uses>>

StartRecording ==
  /\ ~dialog /\ ~recorder.on
  /\ recorder' = [NotRecording EXCEPT !.on = TRUE]
  /\ script' = {}
  /\ UNCHANGED <<mapping, stored, dialog, working, rows, labels, latched, uses>>

StopRecording(keep) ==
  /\ ~dialog /\ recorder.on
  /\ script' = IF keep THEN {[lines |-> MacroToScript(mapping, recorder.steps), did |-> recorder.did,
                              plain |-> recorder.plain, mapping |-> mapping]} ELSE {}
  /\ recorder' = NotRecording
  /\ UNCHANGED <<mapping, stored, dialog, working, rows, labels, latched, uses>>

-----------------------------------------------------------------------------
\* The remap dialog.

RowOf(m, a) == SetToSeq(ChordsFor(m, a))
RowsOf(m) == [a \in Actions |-> RowOf(m, a)]
ChordsIn(row) == {row[i] : i \in DOMAIN row} \ {Waiting}

Open ==
  /\ ~dialog
  /\ dialog' = TRUE
  /\ working' = mapping
  /\ rows' = RowsOf(mapping)
  /\ UNCHANGED <<mapping, stored, labels, latched, recorder, script, uses>>

AddChip(a) ==
  /\ dialog /\ uses < MaxUses /\ ~\E i \in DOMAIN rows[a] : rows[a][i] = Waiting
  /\ rows' = [rows EXCEPT ![a] = Append(@, Waiting)]
  /\ UNCHANGED <<mapping, stored, dialog, working, labels, latched, recorder, script, uses>>

Without(chords, row) ==
  FlattenSeq([i \in DOMAIN row |-> IF row[i] \in chords THEN <<>> ELSE <<row[i]>>])

\* The rows that lose a chord are rebuilt without it.
OnlyOwnRow(a, row) == [rows EXCEPT ![a] = row]
WithoutStolen(a, row) ==
  [b \in Actions |-> IF b = a THEN row
                     ELSE IF ChordsIn(rows[b]) \cap ChordsIn(row) = {} THEN rows[b]
                     ELSE Without(ChordsIn(row) \cup {Waiting}, rows[b])]

\* What has to be asked before: the chord is a shortcut's, or another action's.
Contested(a, row) ==
  \E c \in ChordsIn(row) \ ChordsFor(working, a) : c \in Shadowed \cup DOMAIN working

RowChanged(a, row) ==
  /\ dialog /\ uses < MaxUses
  /\ uses' = uses + 1
  /\ \/ /\ working' = Rebound(working, a, ChordsIn(row))
        /\ rows' = WithoutStolen(a, row)
     \/ /\ Contested(a, row)
        /\ rows' = [rows EXCEPT ![a] = RowOf(working, a)]
        /\ UNCHANGED working
  /\ UNCHANGED <<mapping, stored, dialog, labels, latched, recorder, script>>

Capture(a) == \E i \in DOMAIN rows[a], c \in Chords : RowChanged(a, [rows[a] EXCEPT ![i] = c])
RemoveChip(a) == \E i \in DOMAIN rows[a] : RowChanged(a, RemoveAt(rows[a], i))

Repopulate(m) ==
  /\ dialog
  /\ working' = m
  /\ rows' = RowsOf(m)
  /\ UNCHANGED <<mapping, stored, dialog, labels, latched, recorder, script, uses>>

ResetDefaults == Repopulate(Defaults)
\* Entries of a file that name no chord or no action are left out.
Import == \E m \in Files : Repopulate(m)

Finished(m) == /\ dialog' = FALSE
             /\ working' = m
             /\ rows' = RowsOf(m)

Save ==
  /\ dialog
  /\ mapping' = working
  /\ stored' = {working}
  /\ labels' = IF labels = {} THEN {} ELSE {working}
  /\ recorder' = [recorder EXCEPT !.plain = @ /\ (recorder.steps = <<>> \/ working = mapping)]
  /\ Finished(working)
  /\ UNCHANGED <<latched, script, uses>>

Cancel ==
  /\ dialog
  /\ Finished(mapping)
  /\ UNCHANGED <<mapping, stored, labels, latched, recorder, script, uses>>

\* The program ends and starts again.
Restart ==
  /\ mapping' = Load(stored)
  /\ Finished(mapping')
  /\ labels' = {} /\ latched' = {} /\ recorder' = NotRecording /\ script' = {}
  /\ UNCHANGED <<stored, uses>>

-----------------------------------------------------------------------------
\* Started with what an earlier run has saved, if any.
KeyboardInit ==
  /\ stored \in {{}} \cup {{m} : m \in Earlier}
  /\ mapping = Load(stored)
  /\ dialog = FALSE /\ working = mapping /\ rows = RowsOf(mapping)
  /\ labels = {} /\ latched = {}
  /\ recorder = NotRecording /\ script = {} /\ uses = 0

Remapping ==
  \/ \E a \in Actions : AddChip(a) \/ Capture(a) \/ RemoveChip(a)
  \/ ShowVirtualKeyboard \/ HideVirtualKeyboard
  \/ Open \/ ResetDefaults \/ Import \/ Save \/ Cancel \/ Restart

Recording ==
  \/ \E c \in Chords : PressKey(c) \/ ClickCharacter(c)
  \/ \E a \in Actions : ClickAction(a)
  \/ LatchModifier("alt")
  \/ ShowVirtualKeyboard
  \/ StartRecording \/ \E keep \in BOOLEAN : StopRecording(keep)

KeyboardNext == Remapping \/ Recording
KeyboardSpec == KeyboardInit /\ [][KeyboardNext]_keyboardVars

-----------------------------------------------------------------------------
\* What the user sees is what is bound, and stays so: each row of the dialog has
\* exactly the chords of the working copy that Save will store, after any
\* sequence of chips added, captured, stolen from other rows, refused and
\* removed; the tooltips of a virtual keyboard on the screen tell the mapping in
\* force; and that is the one a restart would load, also when no chord is left
\* bound (KeyboardMapDialog, KeyboardMapping::load, save).
BindingsAreShownAndKept ==
  /\ dialog => \A a \in Actions : ChordsIn(rows[a]) = ChordsFor(working, a)
  /\ labels \subseteq {mapping}
  /\ Load(stored) = mapping

\* Under the default mapping, a recording of typed keys becomes a script that
\* does again what the keys did, no more and no less: keys that send an AID are
\* recorded as two steps, and unbound modifiers as one (MacroRecorder,
\* macroToScript; "a faithful, linear replay", docs/5250script.md:544).
DefaultsReplay ==
  \A s \in script : s.plain /\ s.mapping = Defaults => Replay(Defaults, s.lines) = s.did

\* A chord does what the window says it does, and does it again from a recording.
KeysDoAsShown == BindingsAreShownAndKept /\ DefaultsReplay

=============================================================================
