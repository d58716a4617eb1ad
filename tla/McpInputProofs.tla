----------------------------- MODULE McpInputProofs -----------------------------
(***************************************************************************)
(* Proofs about the work station and its MCP clients, for every size of    *)
(* screen and field, every view mode and every clipboard text: the         *)
(* operator sends a screen once, a record has the last word about the      *)
(* keyboard, Error Reset undoes the error, and the tools' copy of the lock *)
(* rule agrees with the widget's.                                          *)
(***************************************************************************)
EXTENDS McpInput, WellFoundedInduction, TLAPS

-----------------------------------------------------------------------------
(* The invariant.                                                          *)

Lines == UNION {[1 .. n -> Text] : n \in {SmallRows, LargeRows}}

Widget == [kbd : KeyboardState, insert : BOOLEAN, visible : BOOLEAN, cursor : Position,
           ic : {NoIC} \cup Position, field : Field, lines : Lines,
           errorRow : -1 .. LargeRows - 1, saved : Text \cup {Nothing}, aids : Nat,
           covered : Covered]

Record == [open : BOOLEAN, orders : Nat, wtds : Nat, last : {"none", "error", "unlock", "keep"}]

TypeOK ==
  /\ widget \in Widget
  /\ handler \in [pending : CC2, errorAfterCC2 : BOOLEAN, errorSetCursor : BOOLEAN]
  /\ record \in Record
  /\ mode \in SUBSET {"readOnly", "history"}

\* An open keyboard has sent nothing yet, any other at most one screen.
SentOnce(w) ==
  /\ w.aids <= 1
  /\ w.kbd = "Unlocked" => w.aids = 0

\* The line a single error code covered is the one Error Reset will put back.
CoverKept(w) ==
  w.covered.single => w.saved = w.covered.text /\ w.covered.row = ErrorRow(w)

ErrorKept(w) == w.covered.single => w.kbd # "Unlocked"

WidgetOK(w) == w \in Widget /\ SentOnce(w) /\ CoverKept(w) /\ ErrorKept(w)

\* What waits for the end of the record agrees with its last word.
RecordOK ==
  /\ ~record.open => record = Closed /\ handler = NothingPending
  /\ record.wtds = 0 => handler = NothingPending
  /\ record.last = "error" =>
       /\ widget.kbd = "ErrorLocked"
       /\ "unlock" \in handler.pending => handler.errorAfterCC2
  /\ record.last = "unlock" /\ record.wtds <= 1 =>
       widget.kbd = "Unlocked" \/ ("unlock" \in handler.pending /\ ~handler.errorAfterCC2)

InputInv == TypeOK /\ WidgetOK(widget) /\ RecordOK

-----------------------------------------------------------------------------
(* The widget's operators, each from widgets to widgets.                   *)


\* Changing the keyboard state.
LEMMA Locking ==
  ASSUME NEW w \in Widget, NEW state \in KeyboardState
  PROVE  /\ SetKeyboardState(w, state) \in Widget
         /\ SetKeyboardState(w, state).kbd = state
         /\ SetKeyboardState(w, state).lines = w.lines
         /\ SetKeyboardState(w, state).saved = w.saved
         /\ SetKeyboardState(w, state).errorRow = w.errorRow
         /\ SetKeyboardState(w, state).aids = (IF state = "Unlocked" THEN 0 ELSE w.aids)
         /\ SetKeyboardState(w, state).covered =
              (IF state = "Unlocked" THEN Uncovered ELSE w.covered)
  <1> DEFINE entered == [w EXCEPT !.kbd = state]
             released == Released(entered)
             opened == IF state = "Unlocked" THEN released ELSE entered
             hidden == [opened EXCEPT !.insert = FALSE, !.visible = FALSE]
             v == SetKeyboardState(w, state)
  <1>1. /\ entered \in Widget /\ entered.kbd = state
        /\ entered.lines = w.lines /\ entered.saved = w.saved /\ entered.errorRow = w.errorRow
        /\ entered.aids = w.aids /\ entered.covered = w.covered
    BY DEF Widget
  <1> HIDE DEF entered
  <1>2. Uncovered \in Covered /\ 0 \in Nat
    BY SizesAssumption DEF Uncovered, Covered, Text
  <1>3. /\ released \in Widget /\ released.kbd = entered.kbd
        /\ released.lines = entered.lines /\ released.saved = entered.saved
        /\ released.errorRow = entered.errorRow
        /\ released.aids = 0 /\ released.covered = Uncovered
    BY <1>1, <1>2 DEF Widget, Released
  <1> HIDE DEF released
  <1>4. /\ opened \in Widget /\ opened.kbd = state
        /\ opened.lines = w.lines /\ opened.saved = w.saved /\ opened.errorRow = w.errorRow
        /\ opened.aids = (IF state = "Unlocked" THEN 0 ELSE w.aids)
        /\ opened.covered = (IF state = "Unlocked" THEN Uncovered ELSE w.covered)
    BY <1>1, <1>3
  <1> HIDE DEF opened
  <1>5. /\ hidden \in Widget /\ hidden.kbd = opened.kbd
        /\ hidden.lines = opened.lines /\ hidden.saved = opened.saved
        /\ hidden.errorRow = opened.errorRow
        /\ hidden.aids = opened.aids /\ hidden.covered = opened.covered
    BY <1>4 DEF Widget
  <1> HIDE DEF hidden
  <1>6. v = hidden \/ v = opened
    BY DEF SetKeyboardState, hidden, opened, released, entered
  <1> HIDE DEF v
  <1>7. /\ v \in Widget /\ v.kbd = state
        /\ v.lines = w.lines /\ v.saved = w.saved /\ v.errorRow = w.errorRow
        /\ v.aids = (IF state = "Unlocked" THEN 0 ELSE w.aids)
        /\ v.covered = (IF state = "Unlocked" THEN Uncovered ELSE w.covered)
    BY <1>4, <1>5, <1>6
  <1> QED BY <1>7 DEF v

\* It keeps what a widget's invariant says, in whatever state the keyboard was.
LEMMA LockKeeps ==
  ASSUME NEW w \in Widget, NEW state \in KeyboardState, w.aids <= 1, CoverKept(w)
  PROVE  WidgetOK(SetKeyboardState(w, state))
  <1> DEFINE v == SetKeyboardState(w, state)
  <1>1. /\ v \in Widget /\ v.kbd = state
        /\ v.lines = w.lines /\ v.saved = w.saved /\ v.errorRow = w.errorRow
        /\ v.aids = (IF state = "Unlocked" THEN 0 ELSE w.aids)
        /\ v.covered = (IF state = "Unlocked" THEN Uncovered ELSE w.covered)
    BY Locking
  <1> HIDE DEF v
  <1>2. ErrorRow(v) = ErrorRow(w)
    BY <1>1 DEF ErrorRow, LastRow
  <1>3. Uncovered.single = FALSE
    BY DEF Uncovered
  <1>4. WidgetOK(v)
    BY <1>1, <1>2, <1>3 DEF WidgetOK, SentOnce, CoverKept, ErrorKept
  <1> QED BY <1>4 DEF v

\* Two widgets that differ in the cursor, the field and what is shown of them only.
Alike(v, w) ==
  /\ v \in Widget
  /\ v.kbd = w.kbd /\ v.aids = w.aids
  /\ v.lines = w.lines /\ v.saved = w.saved /\ v.errorRow = w.errorRow
  /\ v.covered = w.covered

\* A widget that differs in nothing the invariant speaks of is as good.
LEMMA AlikeKeeps ==
  ASSUME NEW v, NEW w, WidgetOK(w), Alike(v, w)
  PROVE  WidgetOK(v)
  <1>1. ErrorRow(v) = ErrorRow(w)
    BY DEF Alike, ErrorRow, LastRow
  <1> QED BY <1>1 DEF WidgetOK, Alike, SentOnce, CoverKept, ErrorKept

\* Moving the cursor, changing the insert mode.
LEMMA SmallChanges ==
  ASSUME NEW w \in Widget
  PROVE  /\ \A p \in Position : Alike([w EXCEPT !.cursor = p], w)
         /\ \A b \in BOOLEAN : Alike([w EXCEPT !.insert = b], w)
         /\ \A b \in BOOLEAN : Alike([w EXCEPT !.visible = b], w)
         /\ \A f \in Field : Alike([w EXCEPT !.field = f], w)
         /\ Alike(w, w)
  BY DEF Widget, Alike

\* A move to the next field changes nothing the invariant speaks of.
LEMMA MoveAlike ==
  ASSUME NEW w \in Widget
  PROVE  Alike(MoveToNextField(w), w)
  <1>1. 0 \in Position
    BY FieldAssumption DEF Position, Outside
  <1> QED BY <1>1, SmallChanges DEF MoveToNextField

\* Sending the screen from an open keyboard locks it.
LEMMA SendingKeeps ==
  ASSUME NEW w, WidgetOK(w), w.kbd = "Unlocked"
  PROVE  /\ \A action : WidgetOK(SendAid(w, action)) /\ SendAid(w, action).kbd = "Locked"
         /\ WidgetOK(SendAutoEnter(w)) /\ SendAutoEnter(w).kbd = "Locked"
  <1>0. w \in Widget /\ w.aids = 0 /\ CoverKept(w) /\ "Locked" \in KeyboardState
    BY DEF WidgetOK, SentOnce, KeyboardState
  <1> DEFINE sent == Sent(w)
  <1>1. /\ sent \in Widget /\ sent.aids = 1
        /\ sent.lines = w.lines /\ sent.saved = w.saved /\ sent.errorRow = w.errorRow
        /\ sent.covered = w.covered
    BY <1>0 DEF Widget, Sent
  <1> HIDE DEF sent
  <1>2. CoverKept(sent)
    BY <1>0, <1>1 DEF CoverKept, ErrorRow, LastRow
  <1>3. ASSUME NEW x \in Widget, x.aids <= 1, CoverKept(x)
        PROVE  LET v == [SetKeyboardState(x, "Locked") EXCEPT !.insert = FALSE]
               IN  WidgetOK(v) /\ v.kbd = "Locked"
    <2> DEFINE locked == SetKeyboardState(x, "Locked")
               v == [locked EXCEPT !.insert = FALSE]
    <2>1. WidgetOK(locked) /\ locked.kbd = "Locked" /\ locked \in Widget
      BY <1>0, <1>3, LockKeeps, Locking
    <2> HIDE DEF locked
    <2>2. Alike(v, locked)
      BY <2>1, SmallChanges
    <2> HIDE DEF v
    <2>3. WidgetOK(v) /\ v.kbd = "Locked"
      BY <2>1, <2>2, AlikeKeeps DEF Alike
    <2> QED BY <2>3 DEF v, locked
  <1>4. ASSUME NEW action
        PROVE  WidgetOK(SendAid(w, action)) /\ SendAid(w, action).kbd = "Locked"
    <2>1. CASE action = "Help"
      BY <1>0, <1>3, <2>1 DEF SendAid
    <2>2. CASE action # "Help"
      BY <1>1, <1>2, <1>3, <2>2 DEF SendAid, sent
    <2> QED BY <2>1, <2>2
  <1>5. WidgetOK(SendAutoEnter(w)) /\ SendAutoEnter(w).kbd = "Locked"
    BY <1>1, <1>2, <1>3 DEF SendAutoEnter, sent
  <1> QED BY <1>4, <1>5

\* Locking without sending, which is what Attn and Help do.
LEMMA LockingKeeps ==
  ASSUME NEW w, WidgetOK(w)
  PROVE  LET v == [SetKeyboardState(w, "Locked") EXCEPT !.insert = FALSE]
         IN  WidgetOK(v) /\ v.kbd = "Locked"
  <1> DEFINE locked == SetKeyboardState(w, "Locked")
             v == [locked EXCEPT !.insert = FALSE]
  <1>1. w \in Widget /\ w.aids <= 1 /\ CoverKept(w) /\ "Locked" \in KeyboardState
    BY DEF WidgetOK, SentOnce, KeyboardState
  <1>2. WidgetOK(locked) /\ locked.kbd = "Locked" /\ locked \in Widget
    BY <1>1, LockKeeps, Locking
  <1> HIDE DEF locked
  <1>3. Alike(v, locked)
    BY <1>2, SmallChanges
  <1> HIDE DEF v
  <1>4. WidgetOK(v) /\ v.kbd = "Locked"
    BY <1>2, <1>3, AlikeKeeps DEF Alike
  <1> QED BY <1>4 DEF v, locked

\* A character is typed into an open keyboard only, and may enter the screen.
LEMMA TypingOneKeeps ==
  ASSUME NEW w, WidgetOK(w)
  PROVE  WidgetOK(TypeCharacter(w)) /\ \A ch : WidgetOK(TypeOne(w, ch))
  <1>0. w \in Widget
    BY DEF WidgetOK
  <1>1. WidgetOK(MoveToNextField(w))
    BY <1>0, MoveAlike, AlikeKeeps
  <1>2. ASSUME w.kbd = "Unlocked", InField(w), w.cursor < FieldLen - 1
        PROVE  WidgetOK([w EXCEPT !.cursor = @ + 1])
    <2>1. w.cursor + 1 \in Position
      BY <1>0, <1>2, FieldAssumption DEF Widget, Position, Outside
    <2> QED BY <1>0, <2>1, SmallChanges, AlikeKeeps
  <1>3. WidgetOK(TypeCharacter(w))
    <2>1. CASE w.kbd # "Unlocked" \/ ~InField(w)
      BY <2>1 DEF TypeCharacter
    <2>2. CASE w.kbd = "Unlocked" /\ InField(w) /\ w.cursor < FieldLen - 1
      BY <1>2, <2>2 DEF TypeCharacter
    <2>3. CASE w.kbd = "Unlocked" /\ InField(w) /\ ~(w.cursor < FieldLen - 1)
      <3>1. CASE w.field = "autoEnter"
        BY <2>3, <3>1, SendingKeeps DEF TypeCharacter
      <3>2. CASE w.field # "autoEnter"
        BY <1>1, <2>3, <3>2 DEF TypeCharacter
      <3> QED BY <3>1, <3>2
    <2> QED BY <2>1, <2>2, <2>3
  <1> QED BY <1>1, <1>3 DEF TypeOne

\* Error Reset opens the keyboard and puts the saved line back.
LEMMA ResetKeeps ==
  ASSUME NEW w, WidgetOK(w)
  PROVE  /\ WidgetOK(ErrorReset(w)) /\ ErrorReset(w).kbd = "Unlocked"
         /\ ErrorReset(w).lines = IF w.saved = Nothing THEN w.lines
                                  ELSE [w.lines EXCEPT ![ErrorRow(w) + 1] = w.saved]
  <1> DEFINE put == [w EXCEPT !.lines[ErrorRow(w) + 1] = w.saved, !.saved = Nothing]
             restored == IF w.saved = Nothing THEN w ELSE put
  <1>0. w \in Widget /\ w.aids <= 1 /\ "Unlocked" \in KeyboardState
    BY DEF WidgetOK, SentOnce, KeyboardState
  <1>1. ASSUME w.saved # Nothing
        PROVE  /\ put \in Widget /\ put.aids = w.aids
               /\ put.lines = [w.lines EXCEPT ![ErrorRow(w) + 1] = w.saved]
    <2>1. w.lines \in Lines /\ w.saved \in Text
      BY <1>0, <1>1 DEF Widget
    <2>2. [w.lines EXCEPT ![ErrorRow(w) + 1] = w.saved] \in Lines
      BY <2>1 DEF Lines
    <2>3. put = [w EXCEPT !.lines = [w.lines EXCEPT ![ErrorRow(w) + 1] = w.saved],
                          !.saved = Nothing]
      BY <1>0 DEF Widget
    <2> QED BY <1>0, <2>2, <2>3 DEF Widget
  <1> HIDE DEF put
  <1>2. /\ restored \in Widget /\ restored.aids <= 1
        /\ restored.lines = IF w.saved = Nothing THEN w.lines
                            ELSE [w.lines EXCEPT ![ErrorRow(w) + 1] = w.saved]
    BY <1>0, <1>1
  <1>3. ErrorReset(w) = SetKeyboardState(restored, "Unlocked")
    BY DEF ErrorReset, put
  <1> HIDE DEF restored
  <1> DEFINE v == SetKeyboardState(restored, "Unlocked")
  <1>4. /\ v \in Widget /\ v.kbd = "Unlocked" /\ v.lines = restored.lines
        /\ v.aids = 0 /\ v.covered = Uncovered
    BY <1>0, <1>2, Locking
  <1> HIDE DEF v
  <1>5. WidgetOK(v)
    BY <1>4 DEF WidgetOK, SentOnce, CoverKept, ErrorKept, Uncovered
  <1> QED BY <1>2, <1>3, <1>4, <1>5 DEF v

\* Whatever an action does to a widget that lets it through, the widget keeps
\* its invariant.
LEMMA DispatchKeeps ==
  ASSUME NEW w, WidgetOK(w), NEW action \in Action,
         TypedKeyPasses(w.kbd, action) \/ StatePasses(w.kbd, action)
  PROVE  WidgetOK(Dispatch(w, action))
  <1>0. w \in Widget /\ w.kbd \in KeyboardState /\ w.insert \in BOOLEAN
    BY DEF WidgetOK, Widget
  <1>1. CASE action = "Enter"
    <2>1. w.kbd = "Unlocked"
      BY <1>0, <1>1 DEF KeyboardState, TypedKeyPasses, StatePasses
    <2> QED BY <1>1, <2>1, SendingKeeps DEF Dispatch
  <1>2. CASE action = "Help"
    BY <1>2, LockingKeeps DEF Dispatch, SendAid
  <1>3. CASE action = "Attn"
    BY <1>3, LockingKeeps DEF Dispatch
  <1>4. CASE action = "SysReq"
    BY <1>4 DEF Dispatch
  <1>5. CASE action = "Reset"
    BY <1>5, ResetKeeps DEF Dispatch
  <1>6. CASE action = "Insert"
    <2>1. (~w.insert) \in BOOLEAN
      OBVIOUS
    <2>2. WidgetOK([w EXCEPT !.insert = ~w.insert])
      BY <1>0, <2>1, SmallChanges, AlikeKeeps
    <2>3. Dispatch(w, action) = [w EXCEPT !.insert = ~w.insert]
      BY <1>6, Zenon DEF Dispatch
    <2> QED BY <2>2, <2>3
  <1>7. CASE action = "Char"
    BY <1>7, TypingOneKeeps DEF Dispatch
  <1> QED BY <1>1, <1>2, <1>3, <1>4, <1>5, <1>6, <1>7 DEF Action


-----------------------------------------------------------------------------
(* A text is typed one character after the other.                          *)

\* Induction over a set of naturals.
LEMMA NatSetInduction ==
  ASSUME NEW T \in SUBSET Nat, 0 \in T, \A n \in T : n + 1 \in T
  PROVE  T = Nat
  <1> SUFFICES ASSUME Nat \ T # {} PROVE FALSE
    OBVIOUS
  <1>1. PICK x \in Nat \ T : \A y \in Nat \ T : ~(<<y, x>> \in OpToRel(<, Nat))
    BY WFMin, NatLessThanWellFounded
  <1>2. x # 0
    OBVIOUS
  <1>3. x - 1 \in Nat /\ x - 1 < x
    BY <1>2
  <1>4. <<x - 1, x>> \in OpToRel(<, Nat)
    BY <1>3 DEF OpToRel
  <1>5. x - 1 \in T
    BY <1>1, <1>3, <1>4
  <1> QED BY <1>3, <1>5

\* The widget after each of the first n characters.
TypedUpTo(g, w, text, n) ==
  /\ g = [i \in 0 .. n |-> g[i]]
  /\ g[0] = w
  /\ \A i \in 1 .. n : g[i] = TypeOne(g[i - 1], text[i])

\* The recursive function of Typing exists.
LEMMA TypedExists ==
  ASSUME NEW w, NEW text, Len(text) \in Nat
  PROVE  \E g : TypedUpTo(g, w, text, Len(text))
  <1> DEFINE T == {n \in Nat : \E g : TypedUpTo(g, w, text, n)}
  <1>1. 0 \in T
    <2>1. TypedUpTo([i \in 0 .. 0 |-> w], w, text, 0)
      BY DEF TypedUpTo
    <2> QED BY <2>1
  <1>2. ASSUME NEW n \in T PROVE n + 1 \in T
    <2>1. n \in Nat
      OBVIOUS
    <2>2. PICK g : TypedUpTo(g, w, text, n)
      OBVIOUS
    <2> DEFINE h == [i \in 0 .. (n + 1) |-> IF i <= n THEN g[i] ELSE TypeOne(g[n], text[n + 1])]
    <2>3. /\ h = [i \in 0 .. (n + 1) |-> h[i]]
          /\ h[n + 1] = TypeOne(g[n], text[n + 1])
          /\ \A i \in 0 .. n : h[i] = g[i]
      BY <2>1
    <2> HIDE DEF h
    <2>4. h[0] = w
      <3>1. 0 \in 0 .. n
        BY <2>1
      <3>2. g[0] = w
        BY <2>2, Zenon DEF TypedUpTo
      <3> QED BY <2>3, <3>1, <3>2
    <2>5. ASSUME NEW i \in 1 .. (n + 1) PROVE h[i] = TypeOne(h[i - 1], text[i])
      <3>1. CASE i = n + 1
        BY <2>1, <2>3, <3>1
      <3>2. CASE i # n + 1
        <4>1. i \in 1 .. n /\ i \in 0 .. n /\ i - 1 \in 0 .. n
          BY <2>1, <3>2
        <4> QED BY <2>2, <2>3, <4>1 DEF TypedUpTo
      <3> QED BY <3>1, <3>2
    <2>6. TypedUpTo(h, w, text, n + 1)
      BY <2>3, <2>4, <2>5 DEF TypedUpTo
    <2> QED BY <2>1, <2>6
  <1>3. T \in SUBSET Nat
    OBVIOUS
  <1> HIDE DEF T
  <1>4. T = Nat
    BY <1>1, <1>2, <1>3, NatSetInduction
  <1> QED BY <1>4 DEF T

\* What is typed is the last of them.
LEMMA TypingStages ==
  ASSUME NEW w, NEW text, Len(text) \in Nat
  PROVE  \E g : TypedUpTo(g, w, text, Len(text)) /\ Typing(w, text) = g[Len(text)]
  <1> DEFINE Made(f) == [i \in 0 .. Len(text) |->
                           IF i = 0 THEN w ELSE TypeOne(f[i - 1], text[i])]
             typed == CHOOSE f : f = Made(f)
  <1>1. PICK g : TypedUpTo(g, w, text, Len(text))
    BY TypedExists
  <1>2. g = Made(g)
    <2>1. \A i \in 0 .. Len(text) : g[i] = Made(g)[i]
      BY <1>1 DEF TypedUpTo
    <2> QED BY <1>1, <2>1 DEF TypedUpTo
  <1>3. typed = Made(typed)
    BY <1>2
  <1>4. Typing(w, text) = typed[Len(text)]
    BY DEF Typing
  <1> HIDE DEF typed
  <1>5. typed[0] = w /\ typed = [i \in 0 .. Len(text) |-> typed[i]]
    BY <1>3
  <1>6. \A i \in 1 .. Len(text) : typed[i] = TypeOne(typed[i - 1], text[i])
    <2>1. \A i \in 1 .. Len(text) : i \in 0 .. Len(text) /\ i # 0
      OBVIOUS
    <2>2. \A i \in 0 .. Len(text) : i # 0 => typed[i] = TypeOne(typed[i - 1], text[i])
      BY <1>3
    <2> QED BY <2>1, <2>2
  <1>7. TypedUpTo(typed, w, text, Len(text))
    BY <1>5, <1>6 DEF TypedUpTo
  <1> QED BY <1>4, <1>7

\* Typing a text of any length keeps the widget's invariant.
LEMMA TypingKeeps ==
  ASSUME NEW w, WidgetOK(w), NEW text, Len(text) \in Nat
  PROVE  WidgetOK(Typing(w, text))
  <1>1. PICK g : TypedUpTo(g, w, text, Len(text)) /\ Typing(w, text) = g[Len(text)]
    BY TypingStages
  <1> DEFINE T == {n \in Nat : n <= Len(text) => WidgetOK(g[n])}
  <1>2. 0 \in T
    BY <1>1 DEF TypedUpTo
  <1>3. ASSUME NEW n \in T PROVE n + 1 \in T
    <2> SUFFICES ASSUME n + 1 <= Len(text) PROVE WidgetOK(g[n + 1])
      OBVIOUS
    <2>1. n \in Nat /\ n + 1 \in 1 .. Len(text) /\ (n + 1) - 1 = n /\ WidgetOK(g[n])
      OBVIOUS
    <2>2. g[n + 1] = TypeOne(g[n], text[n + 1])
      BY <1>1, <2>1 DEF TypedUpTo
    <2> QED BY <2>1, <2>2, TypingOneKeeps
  <1>4. T \in SUBSET Nat
    OBVIOUS
  <1> HIDE DEF T
  <1>5. T = Nat
    BY <1>2, <1>3, <1>4, NatSetInduction
  <1> QED BY <1>1, <1>5 DEF T


-----------------------------------------------------------------------------
(* The operator, the scripts and the MCP clients.                          *)

\* A chord a script injects keeps the widget's invariant.
LEMMA InjectKeeps ==
  ASSUME NEW w, WidgetOK(w), NEW key \in ToolKey
  PROVE  WidgetOK(InjectKey(w, key))
  <1>0. w.kbd \in KeyboardState
    BY DEF WidgetOK, Widget
  <1>1. CASE IsEscapeChord(key) /\ w.kbd = "ErrorLocked"
    <2>1. InjectKey(w, key) = ErrorReset(w)
      BY <1>1 DEF InjectKey, IsEscapeChord, TypedKeyPasses, ActionOf
    <2> QED BY <2>1, ResetKeeps
  <1>2. CASE ~(IsEscapeChord(key) /\ w.kbd = "ErrorLocked")
    <2>1. CASE key = "ESC" \/ ~TypedKeyPasses(w.kbd, ActionOf[key])
      <3>1. InjectKey(w, key) = w
        BY <1>2, <2>1 DEF InjectKey, IsEscapeChord
      <3> QED BY <3>1
    <2>2. CASE key # "ESC" /\ TypedKeyPasses(w.kbd, ActionOf[key])
      <3>1. InjectKey(w, key) = Dispatch(w, ActionOf[key])
        BY <1>2, <2>2 DEF InjectKey
      <3>2. ActionOf[key] \in Action
        BY <2>2 DEF ActionOf, ToolKey, Action
      <3> QED BY <2>2, <3>1, <3>2, DispatchKeeps
    <2> QED BY <2>1, <2>2
  <1> QED BY <1>1, <1>2

\* Between records nothing waits and no order has spoken.
LEMMA IdleKeeps ==
  ASSUME InputInv, Idle, WidgetOK(widget'), mode' \in SUBSET {"readOnly", "history"},
         handler' = handler, record' = record
  PROVE  InputInv'
  <1>1. record = Closed /\ handler = NothingPending
    BY DEF InputInv, RecordOK, Idle
  <1>2. RecordOK'
    BY <1>1 DEF RecordOK, Closed, NothingPending
  <1>3. TypeOK'
    BY DEF InputInv, TypeOK, WidgetOK
  <1> QED BY <1>2, <1>3 DEF InputInv

\* Whatever the operator, a script or an MCP client does.
LEMMA OperatorKeeps ==
  ASSUME InputInv, Operator \/ McpClient
  PROVE  InputInv'
  <1>0. WidgetOK(widget) /\ widget \in Widget /\ mode \in SUBSET {"readOnly", "history"}
    BY DEF InputInv, TypeOK
  <1>1. CASE LeaveHistory
    BY <1>0, <1>1, IdleKeeps DEF LeaveHistory
  <1>2. ASSUME NEW a \in Action, NEW injected \in BOOLEAN, TypeKey(a, injected)
        PROVE  InputInv'
    <2>1. WidgetOK(widget')
      BY <1>0, <1>2, DispatchKeeps DEF TypeKey
    <2> QED BY <1>0, <1>2, <2>1, IdleKeeps DEF TypeKey
  <1>3. ASSUME NEW injected \in BOOLEAN, TypeEscape(injected)
        PROVE  InputInv'
    BY <1>0, <1>3, IdleKeeps, ResetKeeps DEF TypeEscape
  <1>4. ASSUME NEW a \in Action, ClickKey(a)
        PROVE  InputInv'
    <2>1. WidgetOK(widget')
      BY <1>0, <1>4, DispatchKeeps DEF ClickKey, AcceptsInput
    <2> QED BY <1>0, <1>4, <2>1, IdleKeeps DEF ClickKey
  <1>5. ASSUME NEW text \in Pastes, Paste(text)
        PROVE  InputInv'
    <2>1. Len(text) \in Nat
      BY PastesAssumption
    <2>2. WidgetOK(IF InField(widget) THEN widget ELSE MoveToNextField(widget))
      BY <1>0, MoveAlike, AlikeKeeps
    <2>3. WidgetOK(widget')
      BY <1>5, <2>1, <2>2, TypingKeeps DEF Paste
    <2> QED BY <1>0, <1>5, <2>3, IdleKeeps DEF Paste
  <1>6. ASSUME NEW n \in 1 .. FieldLen, ActivateMenuOption(n)
        PROVE  InputInv'
    <2> DEFINE text == [i \in 1 .. n |-> "char"]
               start == [widget EXCEPT !.cursor = 0]
    <2>1. Len(text) \in Nat /\ n \in Nat
      <3>1. n \in Nat
        BY FieldAssumption
      <3>2. text \in Seq({"char"})
        BY <3>1
      <3> QED BY <3>1, <3>2
    <2>2. 0 \in Position
      BY FieldAssumption DEF Position, Outside
    <2>3. WidgetOK(start)
      BY <1>0, <2>2, SmallChanges, AlikeKeeps
    <2> DEFINE typed == Typing(start, text)
    <2>4. WidgetOK(typed)
      <3> HIDE DEF text, start
      <3> QED BY <2>1, <2>3, TypingKeeps
    <2>5. widget' = IF typed.kbd = "Unlocked" THEN Dispatch(typed, "Enter") ELSE typed
      BY <1>6 DEF ActivateMenuOption
    <2> HIDE DEF typed
    <2>6. WidgetOK(widget')
      <3>1. "Enter" \in Action /\ TypedKeyPasses("Unlocked", "Enter")
        BY DEF Action, TypedKeyPasses
      <3> QED BY <2>4, <2>5, <3>1, DispatchKeeps
    <2> QED BY <1>0, <1>6, <2>6, IdleKeeps DEF ActivateMenuOption
  <1>7. ASSUME NEW p \in Position, ClickPosition(p)
        PROVE  InputInv'
    <2>1. WidgetOK(widget')
      BY <1>0, <1>7, SmallChanges, AlikeKeeps DEF ClickPosition
    <2> QED BY <1>0, <1>7, <2>1, IdleKeeps DEF ClickPosition
  <1>8. ASSUME NEW m \in Modes, SetMode(m)
        PROVE  InputInv'
    BY <1>0, <1>8, IdleKeeps, ModesAssumption DEF SetMode
  <1>9. ASSUME NEW key \in ToolKey, CallKeyTool(key) \/ ScriptGoesOn(key)
        PROVE  InputInv'
    BY <1>0, <1>9, IdleKeeps, InjectKeeps DEF CallKeyTool, ScriptGoesOn
  <1>10. ASSUME NEW p \in Position, ScriptMoves(p)
         PROVE  InputInv'
    <2>1. WidgetOK(widget')
      BY <1>0, <1>10, SmallChanges, AlikeKeeps DEF ScriptMoves
    <2> QED BY <1>0, <1>10, <2>1, IdleKeeps DEF ScriptMoves
  <1> QED BY <1>1, <1>2, <1>3, <1>4, <1>5, <1>6, <1>7, <1>8, <1>9, <1>10
    DEF Operator, McpClient


-----------------------------------------------------------------------------
(* The host.                                                               *)

\* A screen is a sequence of at least one row.
LEMMA LinesAre ==
  ASSUME NEW w \in Widget
  PROVE  /\ w.lines \in Lines
         /\ Len(w.lines) \in {SmallRows, LargeRows}
         /\ w.lines \in [1 .. Len(w.lines) -> Text]
         /\ LastRow(w) \in 0 .. LargeRows - 1
         /\ ErrorRow(w) \in 0 .. LastRow(w)
         /\ ErrorRow(w) + 1 \in 1 .. Len(w.lines)
  <1>1. w.lines \in Lines /\ w.errorRow \in -1 .. LargeRows - 1
    BY DEF Widget
  <1>2. PICK n \in {SmallRows, LargeRows} : w.lines \in [1 .. n -> Text]
    BY <1>1 DEF Lines
  <1>3. n \in Nat /\ n >= 1 /\ n <= LargeRows
    BY SizesAssumption
  <1>4. Len(w.lines) = n
    <2>1. w.lines \in Seq(Text)
      BY <1>2, <1>3
    <2> QED BY <1>2, <1>3, <2>1
  <1>5. LastRow(w) = n - 1 /\ LargeRows \in Nat
    BY <1>4, SizesAssumption DEF LastRow
  <1>6. ErrorRow(w) \in 0 .. LastRow(w)
    BY <1>1, <1>3, <1>5 DEF ErrorRow
  <1> QED BY <1>1, <1>2, <1>3, <1>4, <1>5, <1>6

\* An error code: its line is saved before the message is written over it.
LEMMA ErrorKeeps ==
  ASSUME NEW w, WidgetOK(w)
  PROVE  /\ ShowError(w) \in Widget /\ ShowError(w).aids = w.aids
         /\ CoverKept(ShowError(w))
  <1> DEFINE r == ErrorRow(w) + 1
             lines == [w.lines EXCEPT ![r] = "error"]
             seen == IF w.covered = Uncovered
                     THEN [row |-> r - 1, text |-> w.lines[r], single |-> TRUE]
                     ELSE [w.covered EXCEPT !.single = FALSE]
             v == ShowError(w)
  <1>0. w \in Widget /\ w.covered \in Covered
    BY DEF WidgetOK, Widget
  <1>1. /\ w.lines \in [1 .. Len(w.lines) -> Text] /\ r \in 1 .. Len(w.lines)
        /\ Len(w.lines) \in {SmallRows, LargeRows} /\ LastRow(w) \in 0 .. LargeRows - 1
        /\ r - 1 = ErrorRow(w) /\ ErrorRow(w) \in 0 .. LastRow(w)
        /\ Len(w.lines) \in Nat /\ LargeRows \in Nat
    BY <1>0, LinesAre, SizesAssumption
  <1>2. w.lines[r] \in Text
    BY <1>1
  <1>3. lines \in [1 .. Len(w.lines) -> Text]
    BY <1>1 DEF Text
  <1>4. lines \in Lines
    BY <1>1, <1>3 DEF Lines
  <1>5. Len(lines) = Len(w.lines)
    <2>1. lines \in Seq(Text) /\ DOMAIN lines = 1 .. Len(w.lines)
      BY <1>1, <1>3
    <2> HIDE DEF lines
    <2> QED BY <1>1, <2>1
  <1>6. seen \in Covered
    <2>1. CASE w.covered = Uncovered
      <3>1. r - 1 \in -1 .. LargeRows - 1
        BY <1>1
      <3> QED BY <1>2, <2>1, <3>1 DEF Covered
    <2>2. CASE w.covered # Uncovered
      BY <1>0, <2>2 DEF Covered
    <2> QED BY <2>1, <2>2
  <1>7. seen.single => seen.text = w.lines[r] /\ seen.row = ErrorRow(w)
    <2>1. CASE w.covered = Uncovered
      BY <1>1, <2>1
    <2>2. CASE w.covered # Uncovered
      BY <1>0, <2>2 DEF Covered
    <2> QED BY <2>1, <2>2
  <1>8. v = [w EXCEPT !.saved = w.lines[r], !.lines = lines, !.covered = seen]
    BY <1>0 DEF ShowError, Widget
  <1> HIDE DEF lines, seen, v
  <1>9. /\ v \in Widget /\ v.aids = w.aids /\ v.saved = w.lines[r] /\ v.lines = lines
        /\ v.covered = seen /\ v.errorRow = w.errorRow
    BY <1>0, <1>2, <1>4, <1>6, <1>8 DEF Widget
  <1>10. ErrorRow(v) = ErrorRow(w)
    BY <1>5, <1>9 DEF ErrorRow, LastRow
  <1>11. CoverKept(v)
    BY <1>7, <1>9, <1>10 DEF CoverKept
  <1> QED BY <1>9, <1>11 DEF v

\* A blank screen of either size.
LEMMA BlankLines ==
  ASSUME NEW n \in {SmallRows, LargeRows}
  PROVE  Blank(n) \in Lines /\ Len(Blank(n)) = n
  <1>1. n \in Nat
    BY SizesAssumption
  <1>2. Blank(n) \in [1 .. n -> Text]
    BY DEF Blank, Text
  <1>3. Blank(n) \in Seq(Text) /\ DOMAIN Blank(n) = 1 .. n
    BY <1>1, <1>2
  <1>4. Len(Blank(n)) = n
    BY <1>1, <1>3
  <1> QED BY <1>2, <1>4 DEF Lines

\* Display data: a row written takes with it the memory of an error shown there.
LEMMA RenderKeeps ==
  ASSUME InputInv, NEW d \in Displays
  PROVE  WidgetOK(Render(widget, d)) /\ Render(widget, d).kbd = widget.kbd
  <1> DEFINE w == widget
             lines == [w.lines EXCEPT ![d.row + 1] = d.text]
             cover == IF w.covered.row = d.row THEN Uncovered ELSE w.covered
             written == IF d.row = -1 THEN w
                        ELSE [w EXCEPT !.lines = lines, !.covered = cover]
             defined == IF d.field = "none" THEN written ELSE [written EXCEPT !.field = d.field]
             moved == [defined EXCEPT !.ic = d.ic, !.cursor = d.ic]
  <1>0. w \in Widget /\ WidgetOK(w) /\ w.covered \in Covered
    BY DEF InputInv, WidgetOK, Widget
  <1>1. /\ d.row \in -1 .. LastRow(w) /\ d.text \in {"blank", "host"} /\ d.field \in Field
        /\ d.ic \in {NoIC} \cup Position
    BY DEF Displays
  <1>2. /\ w.lines \in [1 .. Len(w.lines) -> Text] /\ LastRow(w) \in 0 .. LargeRows - 1
        /\ Len(w.lines) \in {SmallRows, LargeRows}
        /\ Len(w.lines) \in Nat /\ LargeRows \in Nat /\ LastRow(w) = Len(w.lines) - 1
    BY <1>0, LinesAre, SizesAssumption DEF LastRow
  <1>3. lines \in [1 .. Len(w.lines) -> Text]
    BY <1>1, <1>2 DEF Text
  <1>4. Len(lines) = Len(w.lines)
    <2>1. lines \in Seq(Text) /\ DOMAIN lines = 1 .. Len(w.lines)
      BY <1>2, <1>3
    <2> HIDE DEF lines
    <2> QED BY <1>2, <2>1
  <1>5. lines \in Lines
    BY <1>2, <1>3 DEF Lines
  <1>6. cover \in Covered /\ (cover.single => cover = w.covered)
    BY <1>0, SizesAssumption DEF Covered, Uncovered, Text
  <1> HIDE DEF lines, cover
  <1>7. WidgetOK(written) /\ written.kbd = w.kbd /\ written \in Widget
    <2>1. CASE d.row = -1
      BY <1>0, <2>1
    <2>2. CASE d.row # -1
      <3> DEFINE x == [w EXCEPT !.lines = lines, !.covered = cover]
      <3>1. /\ x \in Widget /\ x.kbd = w.kbd /\ x.aids = w.aids /\ x.lines = lines
            /\ x.saved = w.saved /\ x.errorRow = w.errorRow /\ x.covered = cover
        BY <1>0, <1>5, <1>6 DEF Widget
      <3> HIDE DEF x
      <3>2. ErrorRow(x) = ErrorRow(w)
        BY <1>4, <3>1 DEF ErrorRow, LastRow
      <3>3. WidgetOK(x)
        BY <1>0, <1>6, <3>1, <3>2 DEF WidgetOK, SentOnce, CoverKept, ErrorKept
      <3> QED BY <2>2, <3>1, <3>3 DEF x
    <2> QED BY <2>1, <2>2
  <1> HIDE DEF written
  <1>8. WidgetOK(defined) /\ defined.kbd = w.kbd /\ defined \in Widget
    <2>1. Alike([written EXCEPT !.field = d.field], written)
      BY <1>1, <1>7, SmallChanges
    <2> QED BY <1>7, <2>1, AlikeKeeps DEF Alike
  <1> HIDE DEF defined
  <1>9. ASSUME d.ic # NoIC PROVE WidgetOK(moved) /\ moved.kbd = w.kbd
    <2>1. Alike(moved, defined)
      BY <1>1, <1>8, <1>9 DEF Alike, Widget
    <2> QED BY <1>8, <2>1, AlikeKeeps DEF Alike
  <1>10. Render(w, d) = IF d.ic = NoIC THEN defined ELSE moved
    <2>1. d.row # -1 => [w EXCEPT !.lines[d.row + 1] = d.text,
                                  !.covered = IF @.row = d.row THEN Uncovered ELSE @]
                        = [w EXCEPT !.lines = lines, !.covered = cover]
      BY <1>0 DEF Widget, lines, cover
    <2> QED BY <2>1 DEF Render, defined, written
  <1> HIDE DEF w, moved
  <1>11. WidgetOK(Render(w, d)) /\ Render(w, d).kbd = w.kbd
    BY <1>8, <1>9, <1>10
  <1> QED BY <1>11 DEF w



\* Placing the cursor.
LEMMA PlaceAlike ==
  ASSUME NEW w \in Widget
  PROVE  Alike(PlaceCursor(w), w)
  <1> DEFINE placed == IF w.ic = NoIC THEN w ELSE [w EXCEPT !.cursor = w.ic]
  <1>1. 0 \in Position /\ w.ic \in {NoIC} \cup Position
    BY FieldAssumption DEF Position, Outside, Widget
  <1>2. Alike(placed, w) /\ placed \in Widget
    BY <1>1, SmallChanges DEF Alike
  <1> HIDE DEF placed
  <1>3. Alike([placed EXCEPT !.cursor = 0], placed)
    BY <1>1, <1>2, SmallChanges
  <1> QED BY <1>2, <1>3 DEF PlaceCursor, placed, Alike

\* What waited for the end of the record: the keyboard opens if the control
\* characters said so and no error code came after them.
LEMMA DeferredKeeps ==
  ASSUME NEW w, WidgetOK(w)
  PROVE  /\ WidgetOK(ProcessDeferredCC2(w))
         /\ ProcessDeferredCC2(w).kbd =
              IF "unlock" \in handler.pending /\ ~handler.errorAfterCC2
              THEN "Unlocked" ELSE w.kbd
  <1> DEFINE unlocked == SetKeyboardState(w, "Unlocked")
             visible == [unlocked EXCEPT !.visible = TRUE]
             opened == IF handler.errorAfterCC2 THEN w ELSE visible
             v == ProcessDeferredCC2(w)
  <1>0. w \in Widget /\ w.aids <= 1 /\ CoverKept(w) /\ "Unlocked" \in KeyboardState
    BY DEF WidgetOK, SentOnce, KeyboardState
  <1>1. WidgetOK(unlocked) /\ unlocked \in Widget /\ unlocked.kbd = "Unlocked"
    BY <1>0, LockKeeps, Locking
  <1> HIDE DEF unlocked
  <1>2. WidgetOK(visible) /\ visible \in Widget /\ visible.kbd = "Unlocked"
    <2>1. Alike(visible, unlocked)
      BY <1>1, SmallChanges
    <2> HIDE DEF visible
    <2> QED BY <1>1, <2>1, AlikeKeeps DEF Alike
  <1> HIDE DEF visible
  <1>3. /\ WidgetOK(opened) /\ opened \in Widget
        /\ opened.kbd = IF handler.errorAfterCC2 THEN w.kbd ELSE "Unlocked"
    BY <1>0, <1>2
  <1>4. v = IF "unlock" \notin handler.pending THEN w
            ELSE IF "stay" \in handler.pending
                    \/ (handler.errorAfterCC2 /\ handler.errorSetCursor)
                 THEN opened ELSE PlaceCursor(opened)
    BY DEF ProcessDeferredCC2, visible, unlocked
  <1> HIDE DEF opened, v
  <1>5. WidgetOK(PlaceCursor(opened)) /\ PlaceCursor(opened).kbd = opened.kbd
    BY <1>3, PlaceAlike, AlikeKeeps DEF Alike
  <1>6. /\ WidgetOK(v)
        /\ v.kbd = IF "unlock" \in handler.pending /\ ~handler.errorAfterCC2
                   THEN "Unlocked" ELSE w.kbd
    BY <1>3, <1>4, <1>5
  <1> QED BY <1>6 DEF v

\* The end of a record that holds a Write To Display.
LEMMA RecordKeeps ==
  ASSUME InputInv, NEW d \in Displays
  PROVE  LET v == ProcessDeferredCC2(Render(widget, d))
         IN  /\ WidgetOK(v)
             /\ v.kbd = IF "unlock" \in handler.pending /\ ~handler.errorAfterCC2
                        THEN "Unlocked" ELSE widget.kbd
  BY RenderKeeps, DeferredKeeps

\* Once the record is closed nothing waits.
LEMMA ClosedKeeps ==
  ASSUME InputInv, WidgetOK(widget'), record' = Closed, handler' = NothingPending, mode' = mode
  PROVE  InputInv'
  <1>1. RecordOK'
    BY DEF RecordOK, Closed, NothingPending
  <1>2. TypeOK'
    BY DEF InputInv, TypeOK, WidgetOK, Closed, NothingPending, CC2, Record
  <1> QED BY <1>1, <1>2 DEF InputInv

-----------------------------------------------------------------------------
(* The orders of a record.                                                 *)

\* Counting an order and what it says.
LEMMA RecordsCount ==
  ASSUME NEW r \in Record, r.open, NEW said \in {"none", "error", "unlock", "keep"}
  PROVE  /\ LET v == [r EXCEPT !.orders = r.orders + 1, !.last = said]
            IN  v \in Record /\ v.open /\ v.wtds = r.wtds /\ v.last = said
         /\ LET v == [r EXCEPT !.orders = r.orders + 1, !.wtds = r.wtds + 1, !.last = said]
            IN  v \in Record /\ v.open /\ v.wtds = r.wtds + 1 /\ v.last = said
  <1>1. PICK n \in Nat, m \in Nat : n = r.orders + 1 /\ m = r.wtds + 1
    BY DEF Record
  <1>2. [r EXCEPT !.orders = n, !.last = said] \in Record
    BY DEF Record
  <1>3. [r EXCEPT !.orders = n, !.wtds = m, !.last = said] \in Record
    BY DEF Record
  <1>4. LET v == [r EXCEPT !.orders = n, !.last = said]
        IN  v.open = r.open /\ v.wtds = r.wtds /\ v.last = said
    BY DEF Record
  <1>5. LET v == [r EXCEPT !.orders = n, !.wtds = m, !.last = said]
        IN  v.open = r.open /\ v.wtds = m /\ v.last = said
    BY DEF Record
  <1> QED BY <1>1, <1>2, <1>3, <1>4, <1>5

\* What an order leaves of the record.
LEMMA OrderCounts ==
  ASSUME InputInv, NEW last \in {"none", "error", "unlock", "keep"}, Order(last)
  PROVE  /\ record'.open /\ record'.wtds = record.wtds
         /\ record'.last = (IF last = "none" THEN record.last ELSE last)
         /\ record' \in Record
  <1> DEFINE said == IF last = "none" THEN record.last ELSE last
  <1>1. /\ record \in Record
        /\ record.open
    BY DEF InputInv, TypeOK, Order
  <1>2. said \in {"none", "error", "unlock", "keep"}
    BY <1>1 DEF Record
  <1>3. record' = [record EXCEPT !.orders = record.orders + 1, !.last = said]
    BY <1>1 DEF Order
  <1> HIDE DEF said
  <1>4. /\ record'.open /\ record'.wtds = record.wtds /\ record'.last = said
        /\ record' \in Record
    BY <1>1, <1>2, <1>3, RecordsCount
  <1> QED BY <1>4 DEF said

\* An order that leaves the keyboard alone.
LEMMA QuietOrderKeeps ==
  ASSUME InputInv, Order("none"), WidgetOK(widget'), widget'.kbd = widget.kbd,
         handler' = handler, mode' = mode
  PROVE  InputInv'
  <1>1. /\ record'.open /\ record'.wtds = record.wtds
        /\ record'.last = record.last
        /\ record' \in Record
    BY OrderCounts
  <1>2. RecordOK'
    BY <1>1 DEF InputInv, RecordOK
  <1>3. TypeOK'
    BY <1>1 DEF InputInv, TypeOK, WidgetOK
  <1> QED BY <1>2, <1>3 DEF InputInv

\* One that sets it.
LEMMA SpokenOrderKeeps ==
  ASSUME InputInv, NEW last \in {"error", "unlock", "keep"}, Order(last), WidgetOK(widget'),
         handler' \in [pending : CC2, errorAfterCC2 : BOOLEAN, errorSetCursor : BOOLEAN],
         handler.pending = {} => handler' = handler,
         last = "error" => /\ widget'.kbd = "ErrorLocked"
                           /\ "unlock" \in handler'.pending => handler'.errorAfterCC2,
         last = "unlock" => widget'.kbd = "Unlocked",
         mode' = mode
  PROVE  InputInv'
  <1>1. /\ record'.open /\ record'.wtds = record.wtds /\ record'.last = last
        /\ record' \in Record
    BY OrderCounts
  <1>2. RecordOK'
    BY <1>1 DEF InputInv, RecordOK, NothingPending
  <1>3. TypeOK'
    BY <1>1 DEF InputInv, TypeOK, WidgetOK
  <1> QED BY <1>2, <1>3 DEF InputInv

\* Whatever the host writes.
LEMMA HostKeeps ==
  ASSUME InputInv, Host
  PROVE  InputInv'
  <1> DEFINE w == widget
  <1>0. /\ WidgetOK(w) /\ w \in Widget /\ w.aids <= 1 /\ CoverKept(w)
        /\ "Locked" \in KeyboardState /\ "Unlocked" \in KeyboardState
        /\ "ErrorLocked" \in KeyboardState
        /\ Uncovered \in Covered /\ Uncovered.single = FALSE
    BY SizesAssumption DEF InputInv, WidgetOK, SentOnce, KeyboardState, Uncovered, Covered, Text
  <1> HIDE DEF w
  <1>1. CASE Begin
    <2>1. record = Closed /\ handler = NothingPending
      BY <1>1 DEF InputInv, RecordOK, Begin, Idle
    <2>2. /\ record'.open /\ record'.wtds = 0 /\ record'.last = "none"
          /\ record' \in Record
      BY <1>1 DEF Begin, Closed, Record
    <2>3. TypeOK' /\ RecordOK'
      BY <1>1, <2>1, <2>2 DEF InputInv, TypeOK, RecordOK, Begin
    <2> QED BY <1>1, <2>3 DEF InputInv, Begin
  <1>2. ASSUME NEW lock \in BOOLEAN, NEW cc2 \in CC2, ControlCharacters(lock, cc2)
        PROVE  InputInv'
    <2>1. /\ record'.open /\ record'.wtds = record.wtds + 1 /\ record.wtds \in Nat
          /\ record'.last = (IF "unlock" \in cc2 THEN "unlock" ELSE "keep")
          /\ record' \in Record
      <3> DEFINE said == IF "unlock" \in cc2 THEN "unlock" ELSE "keep"
      <3>1. /\ record \in Record
            /\ record.open
        BY <1>2 DEF InputInv, TypeOK, ControlCharacters
      <3>2. said \in {"none", "error", "unlock", "keep"}
        OBVIOUS
      <3>3. record' = [record EXCEPT !.orders = record.orders + 1, !.wtds = record.wtds + 1,
                                     !.last = said]
        BY <1>2, <3>1 DEF ControlCharacters
      <3> HIDE DEF said
      <3>4. /\ record'.open /\ record'.wtds = record.wtds + 1 /\ record.wtds \in Nat
            /\ record'.last = said
            /\ record' \in Record
        <4>1. record.wtds \in Nat
          BY <3>1 DEF Record
        <4> QED BY <3>1, <3>2, <3>3, <4>1, RecordsCount
      <3> QED BY <3>4 DEF said
    <2>2. /\ handler'.pending = cc2 /\ handler'.errorAfterCC2 = handler.errorAfterCC2
          /\ handler' \in [pending : CC2, errorAfterCC2 : BOOLEAN, errorSetCursor : BOOLEAN]
      BY <1>2 DEF InputInv, TypeOK, ControlCharacters
    <2>3. WidgetOK(widget')
      BY <1>0, <1>2, LockKeeps DEF ControlCharacters, w
    <2>4. record'.wtds <= 1 => ~handler.errorAfterCC2
      BY <2>1 DEF InputInv, RecordOK, NothingPending
    <2>5. RecordOK'
      BY <2>1, <2>2, <2>4 DEF RecordOK
    <2>6. TypeOK'
      BY <1>2, <2>1, <2>2, <2>3 DEF InputInv, TypeOK, WidgetOK, ControlCharacters
    <2> QED BY <2>3, <2>5, <2>6 DEF InputInv
  <1>3. ASSUME NEW row \in 0 .. LargeRows + 1, StartOfHeader(row)
        PROVE  InputInv'
    <2> DEFINE cleared == [w EXCEPT !.field = "none", !.ic = NoIC]
               r == IF row - 1 > LastRow(w) THEN LastRow(w) ELSE row - 1
               cover == [w.covered EXCEPT !.single = FALSE]
               headed == [cleared EXCEPT !.covered = cover, !.errorRow = r]
    <2>1. Alike(cleared, w)
      BY <1>0 DEF Alike, Widget, Field
    <2> HIDE DEF cleared
    <2>2. cleared \in Widget /\ cleared.kbd = w.kbd /\ WidgetOK(cleared)
          /\ cleared.covered = w.covered
      BY <1>0, <2>1, AlikeKeeps DEF Alike
    <2>3. ASSUME row # 0 PROVE r \in -1 .. LargeRows - 1
      BY <1>0, <2>3, LinesAre, SizesAssumption
    <2>4. cover \in Covered /\ cover.single = FALSE
      BY <1>0 DEF Widget, Covered
    <2> HIDE DEF r, cover
    <2>5. ASSUME row # 0 PROVE WidgetOK(headed) /\ headed.kbd = w.kbd
      <3>1. /\ headed \in Widget /\ headed.kbd = cleared.kbd /\ headed.aids = cleared.aids
            /\ headed.covered = cover
        BY <2>2, <2>3, <2>4, <2>5 DEF Widget
      <3> HIDE DEF headed
      <3> QED BY <2>2, <2>4, <3>1 DEF WidgetOK, SentOnce, CoverKept, ErrorKept
    <2>6. widget' = IF row = 0 THEN cleared ELSE headed
      <3>1. widget' = IF row = 0 THEN cleared ELSE [Moved(cleared) EXCEPT !.errorRow = r]
        BY <1>3 DEF StartOfHeader, cleared, r, w
      <3>2. [Moved(cleared) EXCEPT !.errorRow = r] = headed
        BY <2>2 DEF Moved, cover, Widget
      <3> QED BY <3>1, <3>2
    <2> HIDE DEF headed
    <2>7. WidgetOK(widget') /\ widget'.kbd = widget.kbd
      BY <2>2, <2>5, <2>6 DEF w
    <2> QED BY <1>3, <2>7, QuietOrderKeeps DEF StartOfHeader
  <1>4. ASSUME NEW rows \in {SmallRows, LargeRows}, ClearUnit(rows)
        PROVE  InputInv'
    <2> DEFINE v == [w EXCEPT !.ic = NoIC, !.lines = Blank(rows), !.field = "none",
                              !.cursor = Outside, !.covered = Uncovered]
    <2>1. Outside \in Position
      BY FieldAssumption DEF Position, Outside
    <2>2. /\ v \in Widget /\ v.kbd = w.kbd /\ v.aids = w.aids /\ v.covered = Uncovered
      BY <1>0, <2>1, BlankLines DEF Widget, Field
    <2>3. widget' = v
      BY <1>4 DEF ClearUnit, w
    <2> HIDE DEF v
    <2>4. WidgetOK(v)
      BY <1>0, <2>2 DEF WidgetOK, SentOnce, CoverKept, ErrorKept
    <2> QED BY <1>4, <2>2, <2>3, <2>4, QuietOrderKeeps DEF ClearUnit, w
  <1>5. CASE ClearFormatTable
    <2>1. Alike([w EXCEPT !.field = "none"], w)
      BY <1>0, SmallChanges DEF Field
    <2>2. WidgetOK(widget') /\ widget'.kbd = widget.kbd
      BY <1>0, <1>5, <2>1, AlikeKeeps DEF ClearFormatTable, w, Alike
    <2> QED BY <1>5, <2>2, QuietOrderKeeps DEF ClearFormatTable
  <1>6. CASE Invite
    <2>1. WidgetOK(widget') /\ widget'.kbd = "Unlocked"
      BY <1>0, <1>6, LockKeeps, Locking DEF Invite, w
    <2> QED BY <1>6, <2>1, SpokenOrderKeeps DEF Invite, InputInv, TypeOK
  <1>7. CASE CancelInvite
    <2>1. WidgetOK(widget')
      BY <1>0, <1>7, LockKeeps DEF CancelInvite, w
    <2> QED BY <1>7, <2>1, SpokenOrderKeeps DEF CancelInvite, InputInv, TypeOK
  <1>8. ASSUME NEW ic \in {NoIC} \cup Position, WriteErrorCode(ic)
        PROVE  InputInv'
    <2> DEFINE shown == ShowError(w)
               placed == IF ic = NoIC THEN shown ELSE [shown EXCEPT !.cursor = ic]
               locked == SetKeyboardState(placed, "ErrorLocked")
               v == [locked EXCEPT !.visible = TRUE]
    <2>1. shown \in Widget /\ shown.aids <= 1 /\ CoverKept(shown)
      BY <1>0, ErrorKeeps
    <2> HIDE DEF shown
    <2>2. placed \in Widget /\ placed.aids <= 1 /\ CoverKept(placed)
      <3>1. CASE ic = NoIC
        BY <2>1, <3>1
      <3>2. CASE ic # NoIC
        <4> DEFINE x == [shown EXCEPT !.cursor = ic]
        <4>1. Alike(x, shown)
          BY <2>1, <3>2, SmallChanges
        <4> HIDE DEF x
        <4>2. x \in Widget /\ x.aids <= 1 /\ CoverKept(x)
          BY <2>1, <4>1 DEF Alike, CoverKept, ErrorRow, LastRow
        <4> QED BY <3>2, <4>2 DEF x
      <3> QED BY <3>1, <3>2
    <2> HIDE DEF placed
    <2>3. WidgetOK(locked) /\ locked \in Widget /\ locked.kbd = "ErrorLocked"
      BY <1>0, <2>2, LockKeeps, Locking
    <2> HIDE DEF locked
    <2>4. WidgetOK(v) /\ v.kbd = "ErrorLocked"
      <3>1. Alike(v, locked)
        BY <2>3, SmallChanges
      <3> HIDE DEF v
      <3> QED BY <2>3, <3>1, AlikeKeeps DEF Alike
    <2>5. widget' = v
      BY <1>8 DEF WriteErrorCode, w, shown, placed, locked
    <2> HIDE DEF v
    <2>6. /\ handler' \in [pending : CC2, errorAfterCC2 : BOOLEAN, errorSetCursor : BOOLEAN]
          /\ handler.pending = {} => handler' = handler
          /\ handler.pending # {} => handler'.errorAfterCC2
      <3>1. handler \in [pending : CC2, errorAfterCC2 : BOOLEAN, errorSetCursor : BOOLEAN]
        BY DEF InputInv, TypeOK
      <3>2. CASE handler.pending = {}
        BY <1>8, <3>1, <3>2 DEF WriteErrorCode
      <3>3. CASE handler.pending # {}
        <4> DEFINE b == handler.errorSetCursor \/ ic # NoIC
        <4>1. b \in BOOLEAN
          OBVIOUS
        <4>2. handler' = [handler EXCEPT !.errorAfterCC2 = TRUE, !.errorSetCursor = b]
          BY <1>8, <3>3, Zenon DEF WriteErrorCode
        <4> HIDE DEF b
        <4> QED BY <3>1, <3>3, <4>1, <4>2
      <3> QED BY <3>2, <3>3
    <2>7. "unlock" \in handler'.pending => handler'.errorAfterCC2
      BY <2>6
    <2> QED BY <1>8, <2>4, <2>5, <2>6, <2>7, SpokenOrderKeeps DEF WriteErrorCode
  <1>9. ASSUME NEW d \in Displays, EndRecord(d)
        PROVE  InputInv'
    <2>1. WidgetOK(widget')
      BY <1>9, RecordKeeps DEF EndRecord
    <2>2. record' = Closed /\ handler' = NothingPending /\ mode' = mode
      BY <1>9 DEF EndRecord
    <2> QED BY <2>1, <2>2, ClosedKeeps
  <1>10. CASE EndCommands
    <2>1. handler' = NothingPending
      BY <1>10 DEF InputInv, RecordOK, EndCommands
    <2> QED BY <1>0, <1>10, <2>1, ClosedKeeps DEF EndCommands, w
  <1> QED BY <1>1, <1>2, <1>3, <1>4, <1>5, <1>6, <1>7, <1>8, <1>9, <1>10 DEF Host

\* The end of the connection.
LEMMA DisconnectedKeeps ==
  ASSUME InputInv, Disconnected
  PROVE  InputInv'
  <1> DEFINE w == widget
             blank == [w EXCEPT !.lines = Blank(Len(w.lines)), !.field = "none",
                                !.cursor = Outside]
             v == SetKeyboardState(blank, "Unlocked")
  <1>0. w \in Widget /\ "Unlocked" \in KeyboardState
    BY DEF InputInv, WidgetOK, KeyboardState
  <1>1. Blank(Len(w.lines)) \in Lines
    BY <1>0, LinesAre, BlankLines
  <1>2. Outside \in Position
    BY FieldAssumption DEF Position, Outside
  <1>3. blank \in Widget
    BY <1>0, <1>1, <1>2 DEF Widget, Field
  <1>4. widget' = v
    BY <1>0 DEF Disconnected, Widget
  <1> HIDE DEF blank
  <1>5. v \in Widget /\ v.kbd = "Unlocked" /\ v.aids = 0 /\ v.covered = Uncovered
    BY <1>0, <1>3, Locking
  <1> HIDE DEF v
  <1>6. WidgetOK(v)
    BY <1>5 DEF WidgetOK, SentOnce, CoverKept, ErrorKept, Uncovered
  <1> QED BY <1>4, <1>6, IdleKeeps DEF Disconnected, InputInv, TypeOK

\* A blank screen with an unlocked keyboard.
LEMMA InputInvInit ==
  ASSUME Init
  PROVE  InputInv
  <1>1. Blank(SmallRows) \in Lines
    BY BlankLines
  <1>2. Outside \in Position
    BY FieldAssumption DEF Position, Outside
  <1>3. Uncovered \in Covered
    BY SizesAssumption DEF Uncovered, Covered, Text
  <1>4. -1 \in -1 .. LargeRows - 1
    BY SizesAssumption
  <1>5. widget \in Widget
    BY <1>1, <1>2, <1>3, <1>4 DEF Init, Widget, KeyboardState, Field
  <1>6. WidgetOK(widget)
    BY <1>5 DEF Init, WidgetOK, SentOnce, CoverKept, ErrorKept, Uncovered
  <1>7. RecordOK
    BY DEF Init, RecordOK, Closed, NothingPending
  <1>8. TypeOK
    BY <1>5 DEF Init, TypeOK, Closed, NothingPending, CC2, Record
  <1> QED BY <1>6, <1>7, <1>8 DEF InputInv

\* Every step of the operator, the host and the clients' calls.
LEMMA InputInvStep ==
  ASSUME InputInv, [Next \/ McpClient]_vars
  PROVE  InputInv'
  <1>1. CASE UNCHANGED vars
    BY <1>1 DEF vars, InputInv, TypeOK, RecordOK
  <1> QED BY <1>1, OperatorKeeps, HostKeeps, DisconnectedKeeps DEF Next

-----------------------------------------------------------------------------
(* The theorems.                                                           *)

\* Whatever the host, the operator, the scripts and the MCP clients do: the
\* widget stays a widget, an open keyboard has sent nothing, the line one error
\* code covered is the one Error Reset puts back, and what waits for the end of
\* a record agrees with the record's last word about the keyboard
\* (Q5250ScreenWidget, TN5250CommandHandler).
THEOREM InputInductive == McpSpec => []InputInv
  <1>1. Init => InputInv
    BY InputInvInit
  <1>2. InputInv /\ [Next \/ McpClient]_vars => InputInv'
    BY InputInvStep
  <1> QED BY <1>1, <1>2, PTL DEF McpSpec

\* The operator sends the screen at most once between two times the keyboard
\* opens, by whatever key, paste, menu option, script or tool (setKeyboardState,
\* the auto-enter of processCharacterInput).
THEOREM ScreenSentOnce == McpSpec => []OneAidPerRelease
  <1>1. InputInv => OneAidPerRelease
    BY DEF InputInv, WidgetOK, SentOnce, OneAidPerRelease
  <1> QED BY <1>1, InputInductive, PTL

\* The tools' copy of the lock rule agrees with the widget's wherever a call can
\* come (lockedKeyboardError, keyPressEvent).
THEOREM ToolsKnowTheLock == McpSpec => []LockRulesAgree
  <1>1. InputInv => LockRulesAgree
    <2> SUFFICES ASSUME InputInv, NEW key \in ToolKey
                 PROVE  LET after == InjectKey(widget, key) IN
                        IF Refused(widget.kbd, key) THEN after = widget
                        ELSE CASE key \in {"ENTER", "HELP"}  -> after.kbd = "Locked"
                               [] key \in {"TEXT", "INSERT"} -> widget.kbd = "Unlocked"
                               [] key = "ESC"                -> after.kbd = "Unlocked"
                               [] key \in {"ATTN", "SYSREQ"} -> TRUE
      BY DEF LockRulesAgree
    <2> DEFINE w == widget
    <2>0. WidgetOK(w) /\ w.kbd \in {"Unlocked", "Locked", "ErrorLocked"}
      BY DEF InputInv, WidgetOK, Widget, KeyboardState
    <2> HIDE DEF w
    <2>1. ASSUME Refused(w.kbd, key) PROVE InjectKey(w, key) = w
      BY <2>0, <2>1 DEF Refused, InjectKey, IsEscapeChord, TypedKeyPasses, ActionOf, ToolKey
    <2>2. ASSUME ~Refused(w.kbd, key), key \in {"ENTER", "HELP"}
          PROVE  InjectKey(w, key).kbd = "Locked"
      <3>1. ActionOf[key] = IF key = "ENTER" THEN "Enter" ELSE "Help"
        BY <2>2 DEF ActionOf
      <3>2. InjectKey(w, key) = Dispatch(w, ActionOf[key])
        BY <2>0, <2>2, <3>1 DEF Refused, InjectKey, IsEscapeChord, TypedKeyPasses
      <3>3. Dispatch(w, ActionOf[key]) = SendAid(w, ActionOf[key])
        BY <2>2, <3>1 DEF Dispatch
      <3>4. CASE key = "ENTER"
        <4>1. w.kbd = "Unlocked"
          BY <2>0, <2>2, <3>4 DEF Refused
        <4> QED BY <2>0, <3>2, <3>3, <4>1, SendingKeeps
      <3>5. CASE key = "HELP"
        BY <2>0, <3>1, <3>2, <3>3, <3>5, LockingKeeps DEF SendAid
      <3> QED BY <2>2, <3>4, <3>5
    <2>3. ASSUME ~Refused(w.kbd, key), key \in {"TEXT", "INSERT"}
          PROVE  w.kbd = "Unlocked"
      BY <2>0, <2>3 DEF Refused
    <2>4. ASSUME ~Refused(w.kbd, key), key = "ESC"
          PROVE  InjectKey(w, key).kbd = "Unlocked"
      <3>1. CASE w.kbd = "ErrorLocked"
        <4>1. InjectKey(w, key) = ErrorReset(w)
          BY <2>4, <3>1 DEF InjectKey, IsEscapeChord
        <4> QED BY <2>0, <4>1, ResetKeeps
      <3>2. CASE w.kbd = "Unlocked"
        BY <2>4, <3>2 DEF InjectKey, IsEscapeChord
      <3> QED BY <2>0, <2>4, <3>1, <3>2 DEF Refused
    <2>5. CASE Refused(w.kbd, key)
      BY <2>1, <2>5 DEF w
    <2>6. CASE ~Refused(w.kbd, key)
      BY <2>2, <2>3, <2>4, <2>6 DEF w, ToolKey
    <2> QED BY <2>5, <2>6
  <1> QED BY <1>1, InputInductive, PTL

\* A record ends in two steps only, and both find in what waits for it the
\* record's last word.
LEMMA RecordEndDecides ==
  ASSUME InputInv, Next \/ McpClient, RecordEnds
  PROVE  /\ record.last = "error" => widget'.kbd = "ErrorLocked"
         /\ record.last = "unlock" /\ record.wtds <= 1 => widget'.kbd = "Unlocked"
  <1>1. record.open /\ record' # record /\ ~record'.open
    BY DEF RecordEnds
  <1>2. ~Operator
    BY <1>1 DEF Operator, LeaveHistory, TypeKey, TypeEscape, ClickKey, Paste,
                ActivateMenuOption, ClickPosition, SetMode
  <1>3. ~McpClient
    BY <1>1 DEF McpClient, CallKeyTool, ScriptGoesOn, ScriptMoves
  <1>4. ~Disconnected
    BY <1>1 DEF Disconnected
  <1>5. ~Begin
    BY <1>1 DEF Begin, Idle
  <1>6. ASSUME NEW last \in {"none", "error", "unlock", "keep"} PROVE ~Order(last)
    BY <1>1, OrderCounts
  <1>7. ASSUME NEW lock \in BOOLEAN, NEW cc2 \in CC2 PROVE ~ControlCharacters(lock, cc2)
    BY <1>1 DEF ControlCharacters, InputInv, TypeOK, Record
  <1>8. EndCommands \/ \E d \in Displays : EndRecord(d)
    BY <1>2, <1>3, <1>4, <1>5, <1>6, <1>7
    DEF Next, Host, StartOfHeader, ClearUnit, ClearFormatTable, Invite, CancelInvite,
        WriteErrorCode
  <1>9. CASE EndCommands
    BY <1>9 DEF EndCommands, InputInv, RecordOK, NothingPending
  <1>10. ASSUME NEW d \in Displays, EndRecord(d)
         PROVE  /\ record.last = "error" => widget'.kbd = "ErrorLocked"
                /\ record.last = "unlock" /\ record.wtds <= 1 => widget'.kbd = "Unlocked"
    <2>1. widget'.kbd = IF "unlock" \in handler.pending /\ ~handler.errorAfterCC2
                        THEN "Unlocked" ELSE widget.kbd
      BY <1>10, RecordKeeps DEF EndRecord
    <2> QED BY <2>1 DEF InputInv, RecordOK
  <1> QED BY <1>8, <1>9, <1>10

\* The last word of a record about the keyboard holds, whatever was pending and
\* however the orders were mixed (processDeferredCC2, handleRawScreenData).
THEOREM RecordsDecide == McpSpec => RecordDecidesKeyboard
  <1> DEFINE Decides ==
        RecordEnds =>
          /\ record.last = "error" => widget'.kbd = "ErrorLocked"
          /\ record.last = "unlock" /\ record.wtds <= 1 => widget'.kbd = "Unlocked"
  <1>1. InputInv /\ [Next \/ McpClient]_vars => [Decides]_vars
    BY RecordEndDecides
  <1>2. InputInv /\ [Next \/ McpClient]_vars => InputInv'
    BY InputInvStep
  <1>3. Init => InputInv
    BY InputInvInit
  <1>4. RecordDecidesKeyboard <=> [][Decides]_vars
    BY DEF RecordDecidesKeyboard
  <1> HIDE DEF Decides
  <1> QED BY <1>1, <1>2, <1>3, <1>4, PTL DEF McpSpec

\* Error Reset puts back the line one error code covered and touches no other
\* (handleErrorReset).
THEOREM ErrorsAreUndone == McpSpec => ResetUndoesError
  <1> DEFINE Undone ==
        ResetStep /\ widget.covered.single
          => widget'.lines = [widget.lines EXCEPT ![widget.covered.row + 1]
                                                    = widget.covered.text]
  <1>1. InputInv /\ [Next \/ McpClient]_vars => [Undone]_vars
    <2> SUFFICES ASSUME InputInv, ResetStep, widget.covered.single
                 PROVE  widget'.lines = [widget.lines EXCEPT ![widget.covered.row + 1]
                                                               = widget.covered.text]
      OBVIOUS
    <2>1. WidgetOK(widget) /\ widget.kbd # "Unlocked" /\ widget.kbd \in KeyboardState
      BY DEF InputInv, WidgetOK, ErrorKept, Widget
    <2>2. widget' = ErrorReset(widget)
      <3>1. CASE \E injected \in BOOLEAN : TypeEscape(injected)
        BY <3>1 DEF TypeEscape
      <3>2. CASE ClickKey("Reset")
        <4>1. widget.kbd = "ErrorLocked"
          BY <2>1, <3>2 DEF ClickKey, AcceptsInput, StatePasses, KeyboardState
        <4> QED BY <3>2, <4>1 DEF ClickKey, Dispatch
      <3> QED BY <3>1, <3>2 DEF ResetStep
    <2>3. /\ widget.saved = widget.covered.text /\ widget.covered.row = ErrorRow(widget)
          /\ widget.covered.text \in Text
      BY <2>1 DEF WidgetOK, CoverKept, Widget, Covered
    <2>4. widget.saved # Nothing
      BY <2>3 DEF Text, Nothing
    <2> QED BY <2>1, <2>2, <2>3, <2>4, ResetKeeps
  <1>2. InputInv /\ [Next \/ McpClient]_vars => InputInv'
    BY InputInvStep
  <1>3. Init => InputInv
    BY InputInvInit
  <1>4. ResetUndoesError <=> [][Undone]_vars
    BY DEF ResetUndoesError
  <1> HIDE DEF Undone
  <1> QED BY <1>1, <1>2, <1>3, <1>4, PTL DEF McpSpec

===============================================================================
