---------------------------- MODULE ScreenBuffer ----------------------------
(***************************************************************************)
(* The display buffer (ScreenBuffer) and the 5250 orders that fill it      *)
(* (TN5250StreamRenderer): characters, the attribute that protects a cell, *)
(* the format table and the cursor.  A cell is its linear address, as in   *)
(* every computation of the code that follows a field over rows.           *)
(*                                                                         *)
(* The format table maps the address a field starts at to the field; no    *)
(* two have the same one.  Its list order, which decides what "the first   *)
(* field" is, is kept beside it.                                           *)
(*                                                                         *)
(* Colours, the other display attributes and the cells of non-display      *)
(* fields are left out, and so are fields and text that run past the end   *)
(* of the screen.                                                          *)
(***************************************************************************)
EXTENDS Integers, Sequences

CONSTANTS Rows, Cols

ASSUME SizeAssumption == Rows \in Nat \ {0} /\ Cols \in Nat \ {0}

Size == Rows * Cols
Cell == 0 .. Size - 1

\* EBCDIC classes.  "}" and "J" are 0xD0 and 0xD1: a letter and a brace to a
\* plain field, the digits 0 and 1 with a minus sign to a signed one.
Digit == {"0", "1"}
Letter == {"J", "j"}
Empty == {"null", "blank"}
Character == Digit \cup Letter \cup Empty \cup {"}", "-", "dup", "text"}

\* protected_field and nonDisplay: a cell is "open", "protected" or both
\* (an attribute byte's "marker").
Attribute == {"open", "protected", "marker"}

\* What the field format word asks of the operator's input.
FieldKind == [shift : {"any", "alpha", "numeric", "digits", "signed"},
              autoEnter : BOOLEAN, exitRequired : BOOLEAN, monocase : BOOLEAN,
              adjust : {"none", "zero", "blank", "fill"}]

Field == [length : 1 .. Size, protected : BOOLEAN, modified : BOOLEAN, kind : FieldKind]

NoFields == [a \in {} |-> a]

Cleared == [chars  |-> [c \in Cell |-> "blank"],
            attr   |-> [c \in Cell |-> "open"],
            fields |-> NoFields,
            order  |-> <<>>,
            cursor |-> 0]

-----------------------------------------------------------------------------
\* The format table.

EndOf(s, a) == a + s.fields[a].length - 1
CellsOf(s, a) == a .. EndOf(s, a)
Holding(s, c) == {a \in DOMAIN s.fields : c \in CellsOf(s, a)}
FieldAt(s, c) == CHOOSE a \in Holding(s, c) : TRUE

InputFields(s) == {a \in DOMAIN s.fields : ~s.fields[a].protected}
InputCells(s) == UNION {CellsOf(s, a) : a \in InputFields(s)}

\* No cell belongs to two fields.
Disjoint(s) ==
    \A a, b \in DOMAIN s.fields : a # b => CellsOf(s, a) \cap CellsOf(s, b) = {}

\* What a cell shows, blank for one outside the screen, and the cell behind it,
\* from the last one the first of its row.
CharAt(s, c) == IF c \in Cell THEN s.chars[c] ELSE "blank"
CellAfter(c) == IF c + 1 < Size THEN c + 1 ELSE (Rows - 1) * Cols

\* Outside every field, or marked so.
IsProtected(s, c) == s.attr[c] # "open" \/ Holding(s, c) = {}

ClearFields(s) == [s EXCEPT !.fields = NoFields, !.order = <<>>]

MarkModified(s, c) ==
    IF Holding(s, c) = {} THEN s ELSE [s EXCEPT !.fields[FieldAt(s, c)].modified = TRUE]

\* Mutant: a field that starts before the new one is kept.
OverlappedFrom(s, at, length) == {a \in DOMAIN s.fields : a < at + length /\ a >= at}

\* The addresses of a list that are in a set, in its order.
Among(list, addresses) ==
    LET among[n \in 0 .. Len(list)] ==
          IF n = 0 THEN <<>>
          ELSE IF list[n] \in addresses THEN Append(among[n - 1], list[n]) ELSE among[n - 1]
    IN  among[Len(list)]

\* A new field drops the ones it overlaps.
Overlapped(s, at, length) == {a \in DOMAIN s.fields : a < at + length /\ EndOf(s, a) >= at}

SetField(s, at, length, protected, kind) ==
    LET kept == DOMAIN s.fields \ Overlapped(s, at, length)
        new  == [length |-> length, protected |-> protected, modified |-> FALSE, kind |-> kind]
    IN  [s EXCEPT
          !.fields = [a \in kept \cup {at} |-> IF a = at THEN new ELSE s.fields[a]],
          !.order  = Append(Among(@, kept), at),
          !.attr   = [c \in Cell |-> IF c \notin at .. at + length - 1 THEN @[c]
                                     ELSE IF protected THEN "protected" ELSE "open"]]

\* The first input field in list order; the cursor stays where there is none.
HomeCursor(s) ==
    LET inputs == {i \in 1 .. Len(s.order) : s.order[i] \in InputFields(s)}
    IN  IF inputs = {} THEN s
        ELSE [s EXCEPT !.cursor = s.order[CHOOSE i \in inputs : \A j \in inputs : i <= j]]

\* Fields the host hears of: those the operator changed, or every input field.
Reported(s, all) == {a \in InputFields(s) : all \/ s.fields[a].modified}

-----------------------------------------------------------------------------
\* The display orders, at a position of the renderer's.

Write(s, c, ch, attribute) ==
    IF c \notin Cell THEN s ELSE [s EXCEPT !.chars[c] = ch, !.attr[c] = attribute]

WriteText(s, at, text, attribute) ==
    LET written == at .. at + Len(text) - 1
    IN  [s EXCEPT !.chars = [c \in Cell |-> IF c \in written THEN text[c - at + 1] ELSE @[c]],
                  !.attr  = [c \in Cell |-> IF c \in written THEN attribute ELSE @[c]]]

\* Start Field: an attribute byte, the field behind it, and a second attribute
\* byte behind the field.
StartField(s, at, length, protected, kind) ==
    LET start  == at + 1
        after  == start + length
        marked == Write(s, at, "blank", "marker")
        framed == SetField(marked, start, length, protected, kind)
    IN  IF start \notin Cell THEN marked
        ELSE IF after \in Cell /\ framed.attr[after] # "marker"
             THEN Write(framed, after, "blank", "marker")
             ELSE framed

\* Repeat to Address, Erase to Address.
FillTo(s, at, to, ch, attribute) ==
    [s EXCEPT !.chars = [c \in Cell |-> IF c \in at .. to THEN ch ELSE @[c]],
              !.attr  = [c \in Cell |-> IF c \in at .. to THEN attribute ELSE @[c]]]

\* Roll: the rows from top to bottom move by lines; the format table stays.
ScrollRegion(s, top, bottom, lines, up) ==
    LET last   == IF bottom >= Rows THEN Rows - 1 ELSE bottom
        height == last - top + 1
        shift  == (IF lines > height THEN height ELSE lines) * Cols
        from(c) == IF up THEN c + shift ELSE c - shift
        moved(f, new) == [c \in Cell |-> IF c \notin top * Cols .. (last + 1) * Cols - 1 THEN f[c]
                                         ELSE IF from(c) \in top * Cols .. (last + 1) * Cols - 1
                                              THEN f[from(c)] ELSE new]
    IN  IF top > last \/ lines <= 0 THEN s
        ELSE [s EXCEPT !.chars = moved(@, "blank"), !.attr = moved(@, "open")]

\* The control characters of Write To Display: what they do to input fields.
NullInput(s) ==
    [s EXCEPT !.chars = [c \in Cell |-> IF c \in InputCells(s) THEN "null" ELSE @[c]]]

ResetModified(s, these) ==
    [s EXCEPT !.fields = [a \in DOMAIN @ |-> IF a \in these THEN [@[a] EXCEPT !.modified = FALSE]
                                             ELSE @[a]]]
=============================================================================
