---------------------------- MODULE FieldEditing ----------------------------
(***************************************************************************)
(* What the operator does to the fields of a screen (the editing half of   *)
(* Q5250ScreenWidget), what the host does to them (TN5250CommandHandler    *)
(* and TN5250StreamRenderer), and what of it the host hears: the answer to *)
(* an AID key, and the image a Save Screen sends away for a later Restore. *)
(*                                                                         *)
(* A host record is a sequence of orders, carried out one by one with no   *)
(* operator input between them.  Workstation models the keyboard states;   *)
(* here the keyboard is locked or not.                                     *)
(***************************************************************************)
EXTENDS ScreenBuffer, FiniteSetsExt

CONSTANTS
    Formats,     \* the host's records: sequences of orders
    Keys,        \* the characters the operator types
    MaxEdits,    \* bound: edits in a behaviour
    MaxRecords   \* bound: host records

Order ==
    [op : {"clear", "clearFormat", "startOfHeader"}]
      \cup [op : {"control"}, null : BOOLEAN, reset : {"none", "nonBypass", "all"}, unlock : BOOLEAN]
      \cup [op : {"position", "insertCursor"}, at : Cell]
      \cup [op : {"field"}, length : 1 .. Size, protected : BOOLEAN, kind : FieldKind]
      \cup [op : {"text"}, text : Seq(Character)]
      \cup [op : {"attribute"}]
      \cup [op : {"repeatTo"}, to : Cell, char : Character]
      \cup [op : {"eraseTo"}, to : Cell]
      \cup [op : {"roll"}, top : Nat, bottom : Nat, lines : Nat, up : BOOLEAN]
      \cup [op : {"read"}, all : BOOLEAN]
      \cup [op : {"image"}, cells : [Cell -> Character \cup {"marker"}]]

ASSUME FormatsAssumption == Formats \subseteq Seq(Order)
ASSUME KeysAssumption == Keys \subseteq Character \ {"null", "dup"}
ASSUME BoundsAssumption == MaxEdits \in Nat /\ MaxRecords \in Nat

VARIABLES
    screen,      \* the ScreenBuffer
    keyboard,    \* locked, and insert mode
    ic,          \* the Insert Cursor address, or NoIC
    readAll,     \* the host asked for all input fields, not the modified ones
    record,      \* the host record being carried out
    saved,       \* {} or the one screen a Save Screen sent away
    answer,      \* {} or the one answer to the last AID key, with field data
    history      \* for the properties: cells the operator changed; bounds

vars == <<screen, keyboard, ic, readAll, record, saved, answer, history>>

NoIC == -1

Idle == ~record.open

-----------------------------------------------------------------------------
\* Fields, from a cell.

\* Strictly behind the cell, else the first of the screen.
FindNextField(s, c) ==
    LET behind == {a \in InputFields(s) : a > c}
    IN  IF behind # {} THEN Min(behind) ELSE Min(InputFields(s))

FindPreviousField(s, c) ==
    LET before == {a \in InputFields(s) : a < c}
    IN  IF before # {} THEN Max(before) ELSE Max(InputFields(s))

ToNextField(s, c) == IF InputFields(s) = {} THEN s ELSE [s EXCEPT !.cursor = FindNextField(s, c)]

Data(s, a) == {c \in CellsOf(s, a) : s.chars[c] \notin Empty}

Put(s, cells, new) == [s EXCEPT !.chars = [c \in Cell |-> IF c \in cells THEN new[c] ELSE @[c]]]

RightAdjust(s, c) ==
    IF Holding(s, c) = {} THEN s
    ELSE LET a     == FieldAt(s, c)
             kind  == s.fields[a].kind.adjust
             shift == EndOf(s, a) - Max(Data(s, a))
             fill  == IF kind = "zero" THEN "0" ELSE "blank"
         IN  IF kind \notin {"zero", "blank"} \/ Data(s, a) = {} \/ shift = 0 THEN s
             ELSE MarkModified(Put(s, CellsOf(s, a),
                    [d \in CellsOf(s, a) |-> IF d - shift >= a THEN s.chars[d - shift] ELSE fill]), a)

-----------------------------------------------------------------------------
\* The answer to an AID key: the reported fields in list order, each without
\* its trailing nulls, other nulls as blanks.

FieldData(s, a) ==
    LET data == [i \in 1 .. s.fields[a].length |-> s.chars[a + i - 1]]
        last == Max({0} \cup {i \in DOMAIN data : data[i] # "null"})
    IN  [i \in 1 .. last |-> IF data[i] = "null" THEN "blank" ELSE data[i]]

AidResponse(s) ==
    LET fields == Among(s.order, Reported(s, readAll))
    IN  [i \in 1 .. Len(fields) |-> [at |-> fields[i], data |-> FieldData(s, fields[i])]]

Locked == [locked |-> TRUE, insert |-> FALSE]

Entering(s) == history.typed \cup {c \in Cell : s.chars[c] # screen.chars[c]}

\* An edit of the screen, and perhaps the auto-enter it ends in.
Edit(s, sends) ==
    /\ Idle /\ ~keyboard.locked /\ history.edits < MaxEdits
    /\ screen' = s
    /\ keyboard' = IF sends THEN Locked ELSE keyboard
    /\ answer' = IF sends THEN {AidResponse(s)} ELSE answer
    /\ history' = [history EXCEPT !.edits = @ + 1, !.typed = Entering(s)]
    /\ UNCHANGED <<ic, readAll, record, saved>>

-----------------------------------------------------------------------------
(* The operator.  here is the cursor, there the field it is in.            *)

here == screen.cursor
there == FieldAt(screen, here)
kindThere == screen.fields[there].kind
Typable == ~IsProtected(screen, here)

\* The shift of the field refuses some characters; monocase changes one.
Accepts(kind, ch) ==
    CASE kind.shift = "alpha"   -> ch \notin Digit
      [] kind.shift = "numeric" -> ch \notin Letter
      [] kind.shift = "digits"  -> ch \in Digit
      [] kind.shift = "signed"  -> ch \in Digit \cup {"-"}
      [] OTHER                  -> TRUE

Stored(kind, ch) == IF kind.monocase /\ ch = "j" THEN "J" ELSE ch

HasRoom == keyboard.insert => CharAt(screen, EndOf(screen, there)) \in Empty

Entered(ch) ==
    LET rest == here .. EndOf(screen, there)
    IN  MarkModified(
          Put(screen, rest, [c \in rest |-> IF c = here THEN Stored(kindThere, ch)
                                            ELSE screen.chars[IF keyboard.insert THEN c - 1 ELSE c]]),
          here)

TypeCharacter(ch) ==
    /\ Typable /\ Accepts(kindThere, ch) /\ HasRoom
    /\ LET full == here = EndOf(screen, there)
           s    == Entered(ch)
       IN  CASE ~full                   -> Edit([s EXCEPT !.cursor = CellAfter(here)], FALSE)
             [] full /\ kindThere.autoEnter -> Edit(RightAdjust(s, here), TRUE)
             [] full /\ kindThere.exitRequired /\ ~kindThere.autoEnter -> Edit(s, FALSE)
             [] OTHER                   -> Edit(ToNextField(RightAdjust(s, here), here), FALSE)

Tab == Edit(ToNextField(RightAdjust(screen, here), here), FALSE)

BackTab ==
    LET s == RightAdjust(screen, here)
    IN  Edit(IF InputFields(s) = {} THEN s
             ELSE [s EXCEPT !.cursor = FindPreviousField(s, here)], FALSE)

Nulled(s, cells) == Put(s, cells, [c \in cells |-> "null"])

\* Field Exit, Field Plus and Field Minus empty the field from the cursor on;
\* the last two then turn the sign of its last digit.
ExitKey == {"exit", "plus", "minus"}
Zone(key, ch) ==
    CASE key = "plus" /\ ch = "}"  -> "0"
      [] key = "plus" /\ ch = "J"  -> "1"
      [] key = "minus" /\ ch = "0" -> "}"
      [] key = "minus" /\ ch = "1" -> "J"
      [] OTHER                     -> ch

LeaveField(key) ==
    /\ Typable
    /\ key = "exit" /\ kindThere.adjust = "fill" =>
         \A c \in CellsOf(screen, there) : screen.chars[c] \notin Empty
    /\ LET last     == EndOf(screen, there)
           adjusted == RightAdjust(Nulled(screen, here .. last), there)
           left     == MarkModified([adjusted EXCEPT !.chars[last] = Zone(key, @)], there)
       IN  IF kindThere.autoEnter THEN Edit(left, TRUE)
           ELSE Edit(ToNextField(left, here), FALSE)

EraseEOF ==
    /\ Typable
    /\ Edit(MarkModified(Nulled(screen, here .. EndOf(screen, there)), there), FALSE)

EraseField ==
    /\ Typable
    /\ Edit([MarkModified(Nulled(screen, CellsOf(screen, there)), there) EXCEPT !.cursor = there],
            FALSE)

\* Mutant: the field is not marked.
DupUnmarked ==
    /\ Typable
    /\ Edit(ToNextField([screen EXCEPT !.chars[here] = "dup"], here), FALSE)

Dup ==
    /\ Typable
    /\ Edit(ToNextField(MarkModified([screen EXCEPT !.chars[here] = "dup"], here), here), FALSE)

\* A backspace into a protected cell leaves the cursor where it is.
Backspace ==
    /\ here > 0 /\ ~IsProtected(screen, here - 1)
    /\ Edit([MarkModified([screen EXCEPT !.chars[here - 1] = "blank"], here - 1)
               EXCEPT !.cursor = here - 1], FALSE)

Delete ==
    /\ Typable
    /\ LET rest == here .. EndOf(screen, there)
       IN  Edit(MarkModified(Put(screen, rest,
                  [c \in rest |-> IF c = EndOf(screen, there) THEN "blank"
                                  ELSE CharAt(screen, c + 1)]), here), FALSE)

\* Empties every input field, and marks none.
EraseInput ==
    /\ Idle /\ ~keyboard.locked /\ history.edits < MaxEdits
    /\ LET s == NullInput(screen)
       IN  screen' = IF ic = NoIC THEN HomeCursor(s) ELSE [s EXCEPT !.cursor = ic]
    /\ history' = [history EXCEPT !.edits = @ + 1]
    /\ UNCHANGED <<keyboard, ic, readAll, record, saved, answer>>

\* Home, End and the arrow keys.
MoveCursor(c) ==
    /\ Idle /\ ~keyboard.locked
    /\ \/ Holding(screen, here) # {} /\ c \in {there, EndOf(screen, there)}
       \/ c \in {here - 1, here + 1, here - Cols, here + Cols} \cap Cell
    /\ screen' = [screen EXCEPT !.cursor = c]
    /\ UNCHANGED <<keyboard, ic, readAll, record, saved, answer, history>>

\* A click, with the keyboard locked or not.
ClickCell(c) ==
    /\ Idle
    /\ screen' = [screen EXCEPT !.cursor = c]
    /\ UNCHANGED <<keyboard, ic, readAll, record, saved, answer, history>>

ToggleInsert ==
    /\ Idle /\ ~keyboard.locked
    /\ keyboard' = [keyboard EXCEPT !.insert = ~@]
    /\ UNCHANGED <<screen, ic, readAll, record, saved, answer, history>>

\* An AID key adjusts the field and sends; one that the screen's header names a
\* command attention key sends no fields.
SendAid(noFields) ==
    /\ Idle /\ ~keyboard.locked
    /\ LET s == RightAdjust(screen, here)
       IN  /\ screen' = s
           /\ answer' = IF noFields THEN {} ELSE {AidResponse(s)}
           /\ history' = [history EXCEPT !.typed = Entering(s)]
    /\ keyboard' = Locked
    /\ UNCHANGED <<ic, readAll, record, saved>>

\* The Attn key, a signal of its own.
SendAttention ==
    /\ Idle /\ ~keyboard.locked
    /\ keyboard' = Locked /\ answer' = {}
    /\ UNCHANGED <<screen, ic, readAll, record, saved, history>>

-----------------------------------------------------------------------------
(* The host.  Its record waits in `orders`; `at` and `attr` are where the  *)
(* renderer writes next and with which attribute, `unlock` what the        *)
(* control characters leave for the end of the record.                     *)

Closed == [open |-> FALSE, orders |-> <<>>, at |-> 0, attr |-> "open", unlock |-> FALSE,
           restoring |-> FALSE]

BeginRecord(orders, restoring) ==
    /\ Idle /\ (restoring \/ history.records < MaxRecords)
    /\ record' = [Closed EXCEPT !.open = TRUE, !.orders = orders, !.restoring = restoring]
    /\ answer' = {}
    /\ history' = IF restoring THEN history ELSE [history EXCEPT !.records = @ + 1]
    /\ UNCHANGED <<screen, keyboard, ic, readAll, saved>>

Due(op) == record.open /\ record.orders # <<>> /\ Head(record.orders).op = op
order == Head(record.orders)
at == record.at
Rest == [record EXCEPT !.orders = Tail(@)]
Advanced(n) == [Rest EXCEPT !.at = IF at + n < Size THEN at + n ELSE (Rows - 1) * Cols]
Behind(to) == [Rest EXCEPT !.at = IF to + 1 < Size THEN to + 1 ELSE Size - 1]
Forget(cells) == [history EXCEPT !.typed = @ \ cells]

\* Clear Unit; the format table, or the whole header, alone.
ClearUnit ==
    /\ Due("clear")
    /\ screen' = Cleared /\ ic' = NoIC /\ record' = Rest /\ history' = Forget(Cell)
    /\ UNCHANGED <<keyboard, readAll, saved, answer>>

ClearFormatTable ==
    /\ Due("clearFormat")
    /\ screen' = ClearFields(screen) /\ record' = Rest /\ history' = Forget(Cell)
    /\ UNCHANGED <<keyboard, ic, readAll, saved, answer>>

StartOfHeader ==
    /\ Due("startOfHeader")
    /\ screen' = ClearFields(screen) /\ ic' = NoIC /\ record' = Rest /\ history' = Forget(Cell)
    /\ UNCHANGED <<keyboard, readAll, saved, answer>>

\* A Write To Display begins with its control characters, of which those that
\* act on fields lock; its data is rendered from the top of the screen.
ControlCharacters ==
    /\ Due("control")
    /\ LET nulled == IF order.null THEN NullInput(screen) ELSE screen
           these  == CASE order.reset = "all"       -> DOMAIN screen.fields
                       [] order.reset = "nonBypass" -> InputFields(screen)
                       [] OTHER                     -> {}
       IN  /\ screen' = ResetModified(nulled, these)
           /\ history' = Forget(UNION {CellsOf(screen, a) : a \in these})
    /\ keyboard' = IF order.null \/ order.reset # "none" THEN Locked ELSE keyboard
    /\ record' = [Rest EXCEPT !.unlock = order.unlock, !.at = 0, !.attr = "open"]
    /\ UNCHANGED <<ic, readAll, saved, answer>>

\* Set Buffer Address.
SetPosition ==
    /\ Due("position")
    /\ record' = [Rest EXCEPT !.at = order.at]
    /\ UNCHANGED <<screen, keyboard, ic, readAll, saved, answer, history>>

InsertCursor ==
    /\ Due("insertCursor")
    /\ screen' = [screen EXCEPT !.cursor = order.at] /\ ic' = order.at /\ record' = Rest
    /\ UNCHANGED <<keyboard, readAll, saved, answer, history>>

DefineField ==
    /\ Due("field")
    /\ screen' = StartField(screen, at, order.length, order.protected, order.kind)
    /\ record' = [Rest EXCEPT !.at = at + 1, !.attr = IF order.protected THEN "protected" ELSE "open"]
    /\ history' = Forget(UNION {CellsOf(screen, a) : a \in Overlapped(screen, at + 1, order.length)})
    /\ UNCHANGED <<keyboard, ic, readAll, saved, answer>>

Text ==
    /\ Due("text")
    /\ screen' = WriteText(screen, at, order.text, record.attr)
    /\ record' = Advanced(Len(order.text))
    /\ UNCHANGED <<keyboard, ic, readAll, saved, answer, history>>

\* An attribute byte outside a field.
AttributeByte ==
    /\ Due("attribute")
    /\ screen' = Write(screen, at, "blank", "marker")
    /\ record' = [Advanced(1) EXCEPT !.attr = "open"]
    /\ UNCHANGED <<keyboard, ic, readAll, saved, answer, history>>

RepeatToAddress ==
    /\ Due("repeatTo")
    /\ screen' = FillTo(screen, at, order.to, order.char, record.attr)
    /\ record' = Behind(order.to)
    /\ UNCHANGED <<keyboard, ic, readAll, saved, answer, history>>

EraseToAddress ==
    /\ Due("eraseTo")
    /\ screen' = FillTo(screen, at, order.to, "blank", "open")
    /\ record' = Behind(order.to)
    /\ UNCHANGED <<keyboard, ic, readAll, saved, answer, history>>

Roll ==
    /\ Due("roll")
    /\ screen' = ScrollRegion(screen, order.top, order.bottom, order.lines, order.up)
    /\ record' = Rest
    /\ UNCHANGED <<keyboard, ic, readAll, saved, answer, history>>

ReadFields ==
    /\ Due("read")
    /\ readAll' = order.all /\ record' = Rest
    /\ UNCHANGED <<screen, keyboard, ic, saved, answer, history>>

\* The runs of text of a saved screen: every cell but the attribute bytes.
Image ==
    /\ Due("image")
    /\ LET written == {c \in Cell : order.cells[c] # "marker"} IN
       screen' = [Put(screen, written, order.cells) EXCEPT
                    !.attr = [c \in Cell |-> IF c \in written THEN record.attr ELSE @[c]]]
    /\ record' = Rest
    /\ UNCHANGED <<keyboard, ic, readAll, saved, answer, history>>

\* An unlock puts the cursor on the IC address, and from one outside the input
\* fields, or from none, into the first of them.
EndRecord ==
    /\ record.open /\ record.orders = <<>>
    /\ record' = Closed
    /\ keyboard' = IF record.unlock THEN [keyboard EXCEPT !.locked = FALSE] ELSE keyboard
    /\ screen' = IF ~record.unlock THEN screen
                 ELSE IF ic \in InputCells(screen) THEN [screen EXCEPT !.cursor = ic]
                 ELSE HomeCursor(IF ic = NoIC THEN screen ELSE [screen EXCEPT !.cursor = ic])
    /\ saved' = IF record.restoring THEN {} ELSE saved
    /\ UNCHANGED <<ic, readAll, answer, history>>

\* Mutant: the field's own address.
OwnAddress(a) == a

\* Where the attribute byte of a field is.
AttributeAddress(a) == a - 1

\* Save Screen: what the answer says of a screen, as orders.
SaveOrders(s) ==
    LET n == Len(s.order)
        fieldOrder(i) ==
          LET a == s.order[(i + 1) \div 2]
              f == s.fields[a]
          IN  IF i % 2 = 1 THEN [op |-> "position", at |-> AttributeAddress(a)]
              ELSE [op |-> "field", length |-> f.length, protected |-> f.protected, kind |-> f.kind]
        shown(c) == IF s.attr[c] = "marker" THEN "marker"
                    ELSE IF s.chars[c] \in {"null", "dup"} THEN "blank" ELSE s.chars[c]
    IN  << [op |-> "clear"], [op |-> "clearFormat"],
           [op |-> "control", null |-> FALSE, reset |-> "none", unlock |-> TRUE] >>
        \o [i \in 1 .. 2 * n |-> fieldOrder(i)]
        \o << [op |-> "image", cells |-> [c \in Cell |-> shown(c)]],
              [op |-> "insertCursor", at |-> s.cursor] >>

SaveScreen ==
    /\ Idle /\ history.records < MaxRecords
    /\ saved' = {screen}
    /\ history' = [history EXCEPT !.records = @ + 1]
    /\ UNCHANGED <<screen, keyboard, ic, readAll, record, answer>>

RestoreScreen == \E s \in saved : BeginRecord(SaveOrders(s), TRUE)

-----------------------------------------------------------------------------
Operator ==
    \/ \E ch \in Keys : TypeCharacter(ch)
    \/ Tab
    \/ BackTab
    \/ \E key \in ExitKey : LeaveField(key)
    \/ EraseEOF
    \/ EraseField
    \/ EraseInput
    \/ Dup
    \/ Backspace
    \/ Delete
    \/ \E c \in Cell : MoveCursor(c)
    \/ \E c \in Cell : ClickCell(c)
    \/ ToggleInsert
    \/ \E noFields \in BOOLEAN : SendAid(noFields)
    \/ SendAttention

Orders ==
    \/ ClearUnit \/ ClearFormatTable \/ StartOfHeader \/ ControlCharacters \/ SetPosition
    \/ InsertCursor \/ DefineField \/ Text \/ AttributeByte \/ RepeatToAddress
    \/ EraseToAddress \/ Roll \/ ReadFields \/ Image

Host ==
    \/ \E orders \in Formats : BeginRecord(orders, FALSE)
    \/ Orders
    \/ EndRecord
    \/ SaveScreen
    \/ RestoreScreen

Init ==
    /\ screen = Cleared
    /\ keyboard = [locked |-> FALSE, insert |-> FALSE]
    /\ ic = NoIC
    /\ readAll = FALSE
    /\ record = Closed
    /\ saved = {}
    /\ answer = {}
    /\ history = [typed |-> {}, edits |-> 0, records |-> 0]

Next == Operator \/ Host

Spec == Init /\ [][Next]_vars

-----------------------------------------------------------------------------

\* No cell belongs to two fields: what is typed is marked, shifted and sent by
\* one of them (setField, getField).
FieldsDisjoint == Disjoint(screen)

Shown(ch) == IF ch = "null" THEN "blank" ELSE ch

\* What the operator entered since the host defined a field, or reset its mark,
\* is in the answer to the AID key as the screen shows it.  An answer holds input
\* fields only.
Answered ==
    \A fields \in answer : \A c \in history.typed : \A a \in Holding(screen, c) \cap InputFields(screen) :
        \E i \in 1 .. Len(fields) :
            /\ fields[i].at = a
            /\ IF c - a < Len(fields[i].data) THEN fields[i].data[c - a + 1] = Shown(screen.chars[c])
               ELSE screen.chars[c] = "null"

Changed == {c \in Cell : screen'.chars[c] # screen.chars[c]}

\* What the operator does to a field reaches the host, and touches nothing else:
\* a stroke changes characters of one field; Erase Input, of input fields, to
\* null (markFieldModified, buildAIDResponse, the editing handlers of
\* events.cpp; tests/unit/test_typing_outside_fields.cpp:24).
TypedReachesHost ==
    [][ /\ Answered'
        /\ Idle /\ Idle' =>
             \/ screen'.chars = screen.chars
             \/ \E a \in DOMAIN screen.fields : Changed \subseteq CellsOf(screen, a)
             \/ \A c \in Changed : c \in InputCells(screen) /\ screen'.chars[c] = "null" ]_vars

Restored == record.restoring /\ record.orders = <<>>

\* Restore Screen brings back the fields of the saved screen, in their order,
\* and its text, the nulls as blanks (buildSaveScreenResponse).  What stands
\* under an attribute byte is not saved.
RestoreKeepsText ==
    Restored => \A s \in saved :
        /\ screen.order = s.order
        /\ \A a \in DOMAIN s.fields :
             screen.fields[a] = [s.fields[a] EXCEPT !.modified = FALSE]
        /\ \A c \in Cell : s.attr[c] # "marker" =>
             screen.chars[c] = IF s.chars[c] = "dup" THEN "blank" ELSE Shown(s.chars[c])

=============================================================================
