----------------------------- MODULE MCEditing -----------------------------
(***************************************************************************)
(* What the operator's keys do: the editing of fields on screens with      *)
(* fields of every kind, and the mapping of chords with its dialog and its *)
(* recordings; a behaviour is one of part, the others stay as they start.  *)
(***************************************************************************)
EXTENDS FieldEditing, Keyboard

VARIABLE part

Plain == [shift |-> "any", autoEnter |-> FALSE, exitRequired |-> FALSE, monocase |-> FALSE,
          adjust |-> "none"]
Amount == [Plain EXCEPT !.shift = "signed", !.adjust = "zero"]
AutoEntered == [Plain EXCEPT !.autoEnter = TRUE, !.monocase = TRUE, !.adjust = "blank"]
Filled == [Plain EXCEPT !.exitRequired = TRUE, !.adjust = "fill", !.shift = "alpha"]

At(c) == [op |-> "position", at |-> c]
Start(length, protected, kind) ==
    [op |-> "field", length |-> length, protected |-> protected, kind |-> kind]
Says(text) == [op |-> "text", text |-> text]
Control(null, reset) == [op |-> "control", null |-> null, reset |-> reset, unlock |-> TRUE]

\* Two input fields with host text between them, on two rows of five cells.
TwoFields == << [op |-> "clear"], Control(FALSE, "none"), Start(3, FALSE, Plain),
                At(5), Start(2, FALSE, Amount), At(8), Says(<<"text">>) >>
\* Over what is there: an auto-enter field, one over the end of the row, and one
\* the operator may not type into.
Mixed == << Control(TRUE, "nonBypass"), Start(2, FALSE, AutoEntered), Says(<<"1">>),
            At(3), Start(3, FALSE, Filled), At(7), Start(2, TRUE, Plain), Says(<<"text">>),
            [op |-> "insertCursor", at |-> 4] >>
\* The text moves and the fields stay; the next answer holds them all.
Rolled == << Control(FALSE, "all"), [op |-> "roll", top |-> 0, bottom |-> 1, lines |-> 1, up |-> TRUE],
             [op |-> "read", all |-> TRUE] >>
\* Another format table over the old text.
Window == << [op |-> "clearFormat"], Control(FALSE, "none"), [op |-> "startOfHeader"], At(3),
             [op |-> "attribute"], [op |-> "repeatTo", to |-> 6, char |-> "text"],
             At(6), Start(2, FALSE, Amount), [op |-> "eraseTo", to |-> 9] >>

MCFormats == {TwoFields, Mixed, Rolled, Window}

-----------------------------------------------------------------------------
\* A chord of each kind: an AID key's, with a modifier nobody bound, one Qt
\* reports with Shift, an editing key's, a character's.
MCChords == {Key("F3"), With("ctrl", "F3"), With("shift", "Backtab"), With("ctrl", "Delete"), Key("x")}
MCFiles == {[c \in {} |-> None], [c \in {Key("F3"), With("ctrl", "F3")} |-> "Delete"]}
MCShadowed == {With("ctrl", "F3")}

\* Recordings are made under every binding of two of them.
Free == {Key("F3"), With("ctrl", "Delete")}
Remapped(f) == [c \in (DOMAIN Defaults \cup Free) \ {d \in Free : f[d] = None} |->
                  IF c \in Free THEN f[c] ELSE Defaults[c]]
MCEarlier == {Remapped(f) : f \in [Free -> Actions \cup {None}]}

MCInit ==
  /\ part \in {"fields", "remapping", "recording"}
  /\ Init /\ KeyboardInit
  /\ part # "recording" => stored = {}

MCNext ==
  /\ UNCHANGED part
  /\ \/ part = "fields" /\ Next /\ UNCHANGED keyboardVars
     \/ part = "remapping" /\ Remapping /\ UNCHANGED vars
     \/ part = "recording" /\ Recording /\ UNCHANGED vars

MCSpec == MCInit /\ [][MCNext]_<<part, vars, keyboardVars>>
=============================================================================
