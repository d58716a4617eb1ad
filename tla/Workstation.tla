---------------------------- MODULE Workstation ----------------------------
(***************************************************************************)
(* The emulated display station: TN5250CommandHandler, which carries out   *)
(* what the host writes, and the keyboard side of Q5250ScreenWidget, which *)
(* decides what the operator may send.  They share the keyboard state, the *)
(* error line, the format table and the cursor.                            *)
(*                                                                         *)
(* Every handler runs on the window's thread.  The decoder reports the     *)
(* parts of one host record one after the other and its display data last, *)
(* with no operator input between them, so the orders of a record are      *)
(* steps of their own between Begin and End, and the operator acts only    *)
(* between records.                                                        *)
(*                                                                         *)
(* The screen is rows of Text, and one input field of FieldLen positions.  *)
(* A position is its offset in that field, Outside anywhere else.          *)
(***************************************************************************)
EXTENDS Integers, Sequences

CONSTANTS
    SmallRows,   \* rows of the 24x80 format
    LargeRows,   \* rows of the 27x132 format
    FieldLen,    \* positions of the input field
    Modes,       \* what the view menu offers: sets of "readOnly" and "history"
    MaxOrders,   \* bound: orders in one host record before its display data
    Pastes       \* the clipboard texts: sequences over {"char", "break"}

ASSUME SizesAssumption == /\ SmallRows \in Nat \ {0}
                          /\ LargeRows \in Nat \ {0}
                          /\ SmallRows <= LargeRows
ASSUME FieldAssumption == FieldLen \in Nat \ {0}
ASSUME ModesAssumption == /\ {} \in Modes
                          /\ Modes \subseteq SUBSET {"readOnly", "history"}
                          /\ \A m \in Modes : m \ {"history"} \in Modes
ASSUME PastesAssumption == Pastes \subseteq Seq({"char", "break"})

VARIABLES
    widget,      \* Q5250ScreenWidget and its ScreenBuffer
    handler,     \* TN5250CommandHandler: what waits for the end of the record
    record,      \* the host record being delivered
    mode         \* what of "history" (a past screen is shown), "readOnly" is on

vars == <<widget, handler, record, mode>>

\* SystemRequest, the fourth state of the enumeration, is assigned nowhere.
KeyboardState == {"Unlocked", "Locked", "ErrorLocked"}
Text == {"blank", "host", "error"}
Nothing == "nothing"
Outside == -1
Position == Outside .. FieldLen - 1
NoIC == -2
Field == {"none", "plain", "autoEnter"}
\* CC2: the bits the keyboard and the cursor depend on.  "stay" is 0x40,
\* and stands as well for any bit that only makes CC2 different from zero.
CC2 == SUBSET {"unlock", "stay"}
Action == {"Enter", "Attn", "SysReq", "Help", "Reset", "Insert", "Char"}

\* History: the line the first error code since the keyboard opened wrote over;
\* single until a second error code, or an SOH that moves the error row.
Covered == [row : -1 .. LargeRows - 1, text : Text, single : BOOLEAN]
Uncovered == [row |-> -1, text |-> "blank", single |-> FALSE]
NothingPending == [pending |-> {}, errorAfterCC2 |-> FALSE, errorSetCursor |-> FALSE]

LastRow(w) == Len(w.lines) - 1
Blank(rows) == [i \in 1 .. rows |-> "blank"]

-----------------------------------------------------------------------------
\* The widget.  Each operator takes the widget to the widget, so that the
\* handlers that make several calls are compositions of them.

\* History: what `aids` and `covered` remember ends when the keyboard opens.
Released(w) == [w EXCEPT !.aids = 0, !.covered = Uncovered]

SetKeyboardState(w, state) ==
    LET entered == [w EXCEPT !.kbd = state]
        opened  == IF state = "Unlocked" THEN Released(entered) ELSE entered
    IN  IF w.kbd # state /\ state \in {"Locked", "ErrorLocked"}
        THEN [opened EXCEPT !.insert = FALSE, !.visible = FALSE]
        ELSE opened

InField(w) == w.field # "none" /\ w.cursor # Outside

\* moveToNextField: findNextField wraps to the one input field there is.
MoveToNextField(w) == IF w.field = "none" THEN w ELSE [w EXCEPT !.cursor = 0]

\* An AID takes the fields to the host and waits for its answer.  Help is not
\* counted: it asks about the error and leaves the screen's input where it is.
Sent(w) == [w EXCEPT !.aids = @ + 1]
SendAid(w, action) ==
    LET sent == IF action = "Help" THEN w ELSE Sent(w)
    IN  [SetKeyboardState(sent, "Locked") EXCEPT !.insert = FALSE]

\* Mutant: auto-enter without the lock.
SendAutoEnterUnlocked(w) == [Sent(w) EXCEPT !.insert = FALSE]

SendAutoEnter(w) == [SetKeyboardState(Sent(w), "Locked") EXCEPT !.insert = FALSE]

\* A character the field's rules accept; one they refuse changes nothing.
TypeCharacter(w) ==
    IF w.kbd # "Unlocked" \/ ~InField(w) THEN w
    ELSE IF w.cursor < FieldLen - 1 THEN [w EXCEPT !.cursor = @ + 1]
    ELSE IF w.field = "autoEnter" THEN SendAutoEnter(w)
    ELSE MoveToNextField(w)

\* The row Write Error Code writes and Error Reset restores.
ErrorRow(w) == IF w.errorRow < 0 \/ w.errorRow > LastRow(w) THEN LastRow(w) ELSE w.errorRow

\* Mutant: the line is saved after the message is in it.
ShowErrorThenSave(w) ==
  LET r == ErrorRow(w) + 1
      seen == IF w.covered = Uncovered THEN [row |-> r - 1, text |-> w.lines[r], single |-> TRUE]
              ELSE [w.covered EXCEPT !.single = FALSE]
  IN  [w EXCEPT !.saved = "error", !.lines[r] = "error", !.covered = seen]

ShowError(w) ==
  LET r == ErrorRow(w) + 1
      seen == IF w.covered = Uncovered THEN [row |-> r - 1, text |-> w.lines[r], single |-> TRUE]
              ELSE [w.covered EXCEPT !.single = FALSE]
  IN  [w EXCEPT !.saved = w.lines[r], !.lines[r] = "error", !.covered = seen]

Moved(w) == [w EXCEPT !.covered.single = FALSE]

ErrorReset(w) ==
    LET restored == IF w.saved = Nothing THEN w
                    ELSE [w EXCEPT !.lines[ErrorRow(w) + 1] = w.saved, !.saved = Nothing]
    IN  SetKeyboardState(restored, "Unlocked")

Dispatch(w, action) ==
  CASE action = "Enter"  -> SendAid(w, action)
      [] action = "Help"   -> SendAid(w, action)
      [] action = "Attn"   -> [SetKeyboardState(w, "Locked") EXCEPT !.insert = FALSE]
      [] action = "SysReq" -> w
      [] action = "Reset"  -> IF w.kbd = "ErrorLocked" THEN ErrorReset(w) ELSE w
      [] action = "Insert" -> [w EXCEPT !.insert = ~@]
      [] action = "Char"   -> TypeCharacter(w)

\* What the lock lets through, for typed keys and for every other input.
\* keyPressEvent handles Escape before it asks.
TypedKeyPasses(kbd, action) ==
  CASE kbd = "Locked"      -> action \in {"Attn", "SysReq"}
    [] kbd = "ErrorLocked" -> action \in {"Attn", "Help"}
    [] OTHER               -> TRUE

StatePasses(kbd, action) ==
  CASE kbd = "Locked"      -> action \in {"Attn", "SysReq"}
    [] kbd = "ErrorLocked" -> action \in {"Attn", "Help", "Reset"}
    [] OTHER               -> TRUE

AcceptsInput(action) == mode = {} /\ StatePasses(widget.kbd, action)

\* One character of a text; nothing is typed once the keyboard is locked.
TypeOne(w, ch) ==
  IF w.kbd # "Unlocked" THEN w
  ELSE IF ch = "break" THEN MoveToNextField(w) ELSE TypeCharacter(w)

Typing(w, text) ==
  LET typed[i \in 0 .. Len(text)] ==
        IF i = 0 THEN w ELSE TypeOne(typed[i - 1], text[i])
  IN  typed[Len(text)]

-----------------------------------------------------------------------------
(* The operator, and the scripts that inject keys into a widget the        *)
(* operator may not type into.                                             *)

Idle == ~record.open

\* A key in history view returns to the live screen.
KeyInHistory(injected) == "history" \in mode /\ ~injected

KeyActs(injected) == ~KeyInHistory(injected) /\ ("readOnly" \notin mode \/ injected)

LeaveHistory ==
  /\ Idle /\ "history" \in mode
  /\ mode' = mode \ {"history"}
  /\ UNCHANGED <<widget, handler, record>>

TypeKey(action, injected) ==
  /\ Idle /\ KeyActs(injected)
  /\ TypedKeyPasses(widget.kbd, action)
  /\ widget' = Dispatch(widget, action)
  /\ UNCHANGED <<handler, record, mode>>

TypeEscape(injected) ==
  /\ Idle /\ KeyActs(injected)
  /\ widget.kbd = "ErrorLocked"
  /\ widget' = ErrorReset(widget)
  /\ UNCHANGED <<handler, record, mode>>

\* The virtual keyboard; a hotspot that stands for a function key is "Enter".
ClickKey(action) ==
  /\ Idle /\ AcceptsInput(action)
  /\ widget' = Dispatch(widget, action)
  /\ UNCHANGED <<handler, record, mode>>

Paste(text) ==
  /\ Idle /\ AcceptsInput("Char")
  /\ widget' = Typing(IF InField(widget) THEN widget ELSE MoveToNextField(widget), text)
  /\ UNCHANGED <<handler, record, mode>>

\* A menu hotspot: the option replaces the selection field and is entered,
\* unless typing it entered the screen.
ActivateMenuOption(n) ==
  /\ Idle /\ AcceptsInput("Enter")
  /\ widget.field # "none" /\ n <= FieldLen
  /\ widget.ic \notin {NoIC, Outside} \/ widget.cursor # Outside
  /\ LET typed == Typing([widget EXCEPT !.cursor = 0], [i \in 1 .. n |-> "char"]) IN
     widget' = IF typed.kbd = "Unlocked" THEN Dispatch(typed, "Enter") ELSE typed
  /\ UNCHANGED <<handler, record, mode>>

\* A click moves the cursor, whatever the keyboard state.
ClickPosition(position) ==
  /\ Idle /\ mode = {}
  /\ widget' = [widget EXCEPT !.cursor = position]
  /\ UNCHANGED <<handler, record, mode>>

\* The view menu: read-only on and off, a past screen on.
SetMode(m) ==
  /\ Idle /\ m # mode
  /\ "history" \in mode => "history" \in m
  /\ mode' = m
  /\ UNCHANGED <<widget, handler, record>>

-----------------------------------------------------------------------------
(* A host record.                                                          *)

Closed == [open |-> FALSE, orders |-> 0, wtds |-> 0, last |-> "none"]

Begin ==
  /\ Idle
  /\ record' = [Closed EXCEPT !.open = TRUE]
  /\ UNCHANGED <<widget, handler, mode>>

\* History: the last order of the record that sets the keyboard, and the number
\* of Write To Displays.
Order(last) ==
  /\ record.open /\ record.orders < MaxOrders
  /\ record' = [record EXCEPT !.orders = @ + 1,
                              !.last = IF last = "none" THEN @ ELSE last]

\* The control characters of a Write To Display.
ControlCharacters(lock, cc2) ==
  /\ record.open /\ record.orders < MaxOrders
  /\ record' = [record EXCEPT !.orders = @ + 1, !.wtds = @ + 1,
                              !.last = IF "unlock" \in cc2 THEN "unlock" ELSE "keep"]
  /\ widget' = IF lock THEN SetKeyboardState(widget, "Locked") ELSE widget
  /\ handler' = [handler EXCEPT !.pending = cc2]
  /\ UNCHANGED mode

\* row is the host's byte, counted from 1; 0 names no error row.
StartOfHeader(row) ==
  /\ Order("none")
  /\ LET cleared == [widget EXCEPT !.field = "none", !.ic = NoIC] IN
     widget' = IF row = 0 THEN cleared
               ELSE [Moved(cleared) EXCEPT !.errorRow = IF row - 1 > LastRow(widget)
                                                        THEN LastRow(widget) ELSE row - 1]
  /\ UNCHANGED <<handler, mode>>

\* Clear Unit and Clear Unit Alternate, which differ in the format they select.
ClearUnit(rows) ==
  /\ Order("none")
  /\ widget' = [widget EXCEPT !.ic = NoIC, !.lines = Blank(rows), !.field = "none",
                              !.cursor = Outside, !.covered = Uncovered]
  /\ UNCHANGED <<handler, mode>>

ClearFormatTable ==
  /\ Order("none")
  /\ widget' = [widget EXCEPT !.field = "none"]
  /\ UNCHANGED <<handler, mode>>

Invite ==
  /\ Order("unlock")
  /\ widget' = SetKeyboardState(widget, "Unlocked")
  /\ UNCHANGED <<handler, mode>>

CancelInvite ==
  /\ Order("keep")
  /\ widget' = SetKeyboardState(widget, "Locked")
  /\ UNCHANGED <<handler, mode>>

\* ic is where an Insert Cursor in the error data puts the cursor.
WriteErrorCode(ic) ==
  /\ Order("error")
  /\ LET shown == ShowError(widget)
         placed == IF ic = NoIC THEN shown ELSE [shown EXCEPT !.cursor = ic]
     IN  widget' = [SetKeyboardState(placed, "ErrorLocked") EXCEPT !.visible = TRUE]
  /\ handler' = IF handler.pending = {} THEN handler
                ELSE [handler EXCEPT !.errorAfterCC2 = TRUE,
                                     !.errorSetCursor = @ \/ ic # NoIC]
  /\ UNCHANGED mode

\* The cursor goes to the IC address; from one that is in no input field, or
\* from none, to the first input field there is.
PlaceCursor(w) ==
  LET placed == IF w.ic = NoIC THEN w ELSE [w EXCEPT !.cursor = w.ic] IN
  IF w.field # "none" /\ w.ic \in {NoIC, Outside} THEN [placed EXCEPT !.cursor = 0] ELSE placed

\* Mutant: an error code does not hold off the unlock.
ProcessDeferredCC2Always(w) ==
  LET opened == [SetKeyboardState(w, "Unlocked") EXCEPT !.visible = TRUE] IN
  IF "unlock" \notin handler.pending THEN w
  ELSE IF "stay" \in handler.pending \/ handler.errorSetCursor THEN opened ELSE PlaceCursor(opened)

ProcessDeferredCC2(w) ==
  LET opened == IF handler.errorAfterCC2 THEN w
                ELSE [SetKeyboardState(w, "Unlocked") EXCEPT !.visible = TRUE] IN
  IF "unlock" \notin handler.pending THEN w
  ELSE IF "stay" \in handler.pending \/ (handler.errorAfterCC2 /\ handler.errorSetCursor)
       THEN opened ELSE PlaceCursor(opened)

\* Display data: one row written, or a field or an IC order or both.
Displays ==
  LET Display == [row : -1 .. LastRow(widget), text : {"blank", "host"}, field : Field,
                  ic : {NoIC} \cup Position]
  IN  { d \in Display : IF d.row = -1 THEN d.text = "blank"
                        ELSE d.field = "none" /\ d.ic = NoIC }

Render(w, d) ==
  LET written == IF d.row = -1 THEN w
                 ELSE [w EXCEPT !.lines[d.row + 1] = d.text,
                                !.covered = IF @.row = d.row THEN Uncovered ELSE @]
      defined == IF d.field = "none" THEN written ELSE [written EXCEPT !.field = d.field]
  IN  IF d.ic = NoIC THEN defined ELSE [defined EXCEPT !.ic = d.ic, !.cursor = d.ic]

\* handleRawScreenData, which ends every record that holds a Write To Display.
EndRecord(d) ==
  /\ record.open /\ record.wtds > 0
  /\ record' = Closed
  /\ widget' = ProcessDeferredCC2(Render(widget, d))
  /\ handler' = NothingPending
  /\ UNCHANGED mode

\* A record with none.
EndCommands ==
  /\ record.open /\ record.wtds = 0
  /\ record' = Closed
  /\ UNCHANGED <<widget, handler, mode>>

\* The window, when the connection ends.
Disconnected ==
  /\ Idle
  /\ widget' = SetKeyboardState([widget EXCEPT !.lines = Blank(Len(@)), !.field = "none",
                                               !.cursor = Outside], "Unlocked")
  /\ UNCHANGED <<handler, record, mode>>

-----------------------------------------------------------------------------
Operator ==
  \/ LeaveHistory
  \/ \E a \in Action, injected \in BOOLEAN : TypeKey(a, injected)
  \/ \E injected \in BOOLEAN : TypeEscape(injected)
  \/ \E a \in Action : ClickKey(a)
  \/ \E text \in Pastes : Paste(text)
  \/ \E n \in 1 .. FieldLen : ActivateMenuOption(n)
  \/ \E p \in Position : ClickPosition(p)
  \/ \E m \in Modes : SetMode(m)

Host ==
  \/ Begin
  \/ \E lock \in BOOLEAN, cc2 \in CC2 : ControlCharacters(lock, cc2)
  \/ \E row \in 0 .. LargeRows + 1 : StartOfHeader(row)
  \/ \E rows \in {SmallRows, LargeRows} : ClearUnit(rows)
  \/ ClearFormatTable
  \/ Invite
  \/ CancelInvite
  \/ \E ic \in {NoIC} \cup Position : WriteErrorCode(ic)
  \/ \E d \in Displays : EndRecord(d)
  \/ EndCommands

Init ==
  /\ widget = [kbd |-> "Unlocked", insert |-> FALSE, visible |-> TRUE, cursor |-> Outside,
               ic |-> NoIC, field |-> "none", lines |-> Blank(SmallRows), errorRow |-> -1,
               saved |-> Nothing, aids |-> 0, covered |-> Uncovered]
  /\ handler = NothingPending
  /\ record = Closed
  /\ mode = {}

Next == Operator \/ Host \/ Disconnected

Spec == Init /\ [][Next]_vars

-----------------------------------------------------------------------------

\* Between two times the keyboard opens the operator sends the screen once,
\* by whatever way: a typed or clicked key, a paste that fills an auto-enter
\* field, a menu option.
OneAidPerRelease == widget.aids <= 1

RecordEnds == record.open /\ ~record'.open

\* The last word of a record about the keyboard holds: a Write Error Code that
\* nothing follows leaves it error-locked, whatever unlock an earlier order left
\* pending, and a Write To Display that unlocks opens it, after any error code
\* and even when it writes nothing (processDeferredCC2, handleRawScreenData).
RecordDecidesKeyboard ==
  [][ RecordEnds =>
        /\ record.last = "error" => widget'.kbd = "ErrorLocked"
        /\ record.last = "unlock" /\ record.wtds <= 1 => widget'.kbd = "Unlocked" ]_vars

ResetStep == (\E injected \in BOOLEAN : TypeEscape(injected)) \/ ClickKey("Reset")

\* Error Reset puts back the line one error code covered, unless the host moved
\* the error row meanwhile, and touches no other.
ResetUndoesError ==
  [][ResetStep /\ widget.covered.single
       => widget'.lines = [widget.lines EXCEPT ![widget.covered.row + 1] = widget.covered.text]]_vars
=============================================================================
