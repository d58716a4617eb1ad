------------------------------ MODULE McpTools ------------------------------
(***************************************************************************)
(* The tools an MCP client reads a session's screen with, moves its cursor *)
(* with, writes files with and signs on with (McpToolHandler).  All run on *)
(* the window's thread; login waits in nested event loops, for the user's  *)
(* password and for the host, with the session busy.                       *)
(*                                                                         *)
(* A screen is a row-major sequence of cells, counted from 0, and a set of *)
(* fields; the password field's attribute hides what is typed in it.       *)
(***************************************************************************)
EXTENDS Integers, Sequences, FiniteSets, SequencesExt

CONSTANTS
    Rows, Cols,   \* the screen
    HostScreens,  \* what the host may write
    SearchTexts,  \* what a client looks for
    MaxInt,       \* the largest int a client can pass
    UserNames,    \* what a client or a saved session may name: strings over Letter
    SavedUsers,   \* the user names saved sessions hold
    MaxOuter,     \* bound: calls of login the recovery of a job puts inside one another
    Contents      \* what a client may write to a file

Cell == 0 .. Rows * Cols - 1
\* Letters of a user name, of a password, and text in either case.
Letter == {" ", "u", "U", "p", "a", "A"}
ASSUME ScreenAssumption == Rows \in Nat \ {0} /\ Cols \in Nat \ {0} /\ MaxInt \in Nat
HostField == [start : Cell, length : 1 .. Rows * Cols, hidden : BOOLEAN, bypass : BOOLEAN]
HostScreen == [title : {"Sign On", "Recover", "Messages", "other"}, open : BOOLEAN,
               cells : [Cell -> Letter], fields : SUBSET HostField]
ASSUME HostScreensAssumption == HostScreens \subseteq HostScreen
ASSUME UsersAssumption == SavedUsers \subseteq UserNames /\ UserNames \subseteq Seq(Letter)
\* find_text refuses an empty text.
ASSUME SearchAssumption == \A text \in SearchTexts : text \in Seq(Letter) /\ text # <<>>

VARIABLES
    display,   \* the session's screen, and whether its keyboard is unlocked
    cursor,    \* the cursor's cell
    alive,     \* the session is in the registry and its tab is there
    credentials, \* the user whose sign-on the session's profile saved
    login,     \* the call of login that is running
    file,      \* what a file holds
    told       \* the last answer of a tool that writes

toolVars == <<display, cursor, alive, credentials, login, file, told>>

NoUser == <<>>
NoFile == "absent"
Missing == "missing"
NewLogin(at, asked, user, password) ==
  [at |-> at, asked |-> asked, user |-> user, password |-> password, outer |-> 0]
NoLogin == NewLogin("none", NoUser, NoUser, NoUser)

LowerCase(ch) == CASE ch = "A" -> "a" [] ch = "U" -> "u" [] OTHER -> ch
SameText(s, t) == Len(s) = Len(t) /\ \A i \in DOMAIN s : LowerCase(s[i]) = LowerCase(t[i])

-----------------------------------------------------------------------------
(* Reading.  Every tool reads through displayedCharacter.                  *)

FieldCells(f) == f.start .. f.start + f.length - 1
HiddenCells(d) == UNION { FieldCells(f) : f \in { f \in d.fields : f.hidden } }

DisplayedCharacter(d, cell) == IF cell \in HiddenCells(d) THEN " " ELSE d.cells[cell]

\* A part of a row, and the same without trailing blanks.
RowPart(d, row, col, n) == [i \in 1 .. n |-> DisplayedCharacter(d, row * Cols + col + i - 1)]
Chopped(s) ==
  LET last == { i \in DOMAIN s : s[i] # " " } IN
  IF last = {} THEN <<>> ELSE SubSeq(s, 1, CHOOSE i \in last : \A j \in last : j <= i)

ReadLine(d, row) == Chopped(RowPart(d, row, 0, Cols))
ReadScreen(d) == [r \in 1 .. Rows |-> ReadLine(d, r - 1)]

RegionAccepted(row, col, numRows, numCols) ==
  /\ row >= 0 /\ col >= 0 /\ numRows > 0 /\ numCols > 0
  /\ numRows <= Rows - row /\ numCols <= Cols - col

ReadRegion(d, row, col, numRows, numCols) ==
  [r \in 1 .. numRows |-> Chopped(RowPart(d, row + r - 1, col, numCols))]

\* find_text in one row: from the left, each search after the last match.
OccursAt(line, text, i) == SameText(SubSeq(line, i, i + Len(text) - 1), text)
FindInRow(line, text) ==
  LET Matches[i \in 1 .. Len(line) + Len(text)] ==
        IF i + Len(text) - 1 > Len(line) THEN {}
        ELSE IF OccursAt(line, text, i) THEN {i - 1} \cup Matches[i + Len(text)]
        ELSE Matches[i + 1]
  IN  Matches[1]
FindText(d, text) ==
  UNION { { row * Cols + col : col \in FindInRow(RowPart(d, row, 0, Cols), text) } : row \in 0 .. Rows - 1 }

OnScreen(row, col) == row \in 0 .. Rows - 1 /\ col \in 0 .. Cols - 1

\* The positions of a field, up to the end of the screen.
Places(f) == { i \in 1 .. f.length : f.start + i - 1 \in Cell }

\* Mutant: the field's cells as they are.
GetFieldRaw(d, row, col) ==
  LET at == { f \in d.fields : row * Cols + col \in FieldCells(f) } IN
  IF ~OnScreen(row, col) \/ at = {} THEN <<>>
  ELSE LET f == CHOOSE f \in at : TRUE IN
       <<f, [i \in Places(f) |-> d.cells[f.start + i - 1]]>>

GetFieldAt(d, row, col) ==
  LET at == { f \in d.fields : row * Cols + col \in FieldCells(f) } IN
  IF ~OnScreen(row, col) \/ at = {} THEN <<>>
  ELSE LET f == CHOOSE f \in at : TRUE IN
       <<f, [i \in Places(f) |-> DisplayedCharacter(d, f.start + i - 1)]>>

-----------------------------------------------------------------------------
(* The cursor.  The tools count from 0 and the script statement they run   *)
(* from 1.                                                                 *)

Free == alive /\ login.at = "none"

MoveCursorAt(row1, col1) ==
  cursor' = IF OnScreen(row1 - 1, col1 - 1) THEN (row1 - 1) * Cols + col1 - 1 ELSE cursor

SetCursorPosition(row, col) ==
  /\ Free
  /\ OnScreen(row, col)
  /\ MoveCursorAt(row + 1, col + 1)
  /\ UNCHANGED <<display, alive, credentials, login, file, told>>

\* One cell: up and down stop at the edge, left and right go from row to row.
CursorUp(c) == IF c >= Cols THEN c - Cols ELSE c
CursorDown(c) == IF c + Cols \in Cell THEN c + Cols ELSE c
CursorLeft(c) == IF c > 0 THEN c - 1 ELSE c
CursorRight(c) == IF c + 1 \in Cell THEN c + 1 ELSE c

Times(Step(_), n, c) == FoldLeft(LAMBDA at, i : Step(at), c, [i \in 1 .. n |-> i])

MoveCursor(rows, cols) ==
  /\ Free
  /\ rows # 0 \/ cols # 0
  /\ rows \in -(Rows - 1) .. Rows - 1
  /\ cols \in -(Rows * Cols - 1) .. Rows * Cols - 1
  /\ LET moved == IF rows > 0 THEN Times(CursorDown, rows, cursor) ELSE Times(CursorUp, -rows, cursor)
     IN  cursor' = IF cols > 0 THEN Times(CursorRight, cols, moved) ELSE Times(CursorLeft, -cols, moved)
  /\ UNCHANGED <<display, alive, credentials, login, file, told>>

-----------------------------------------------------------------------------
(* Files.                                                                  *)

\* What the file system makes of a write: it refuses to open the file, takes a
\* part, fails in the flush or in the close, or does it.
WriteOutcome == {"not opened", "short", "not flushed", "not closed", "done"}

\* The content is looked at before the file is opened, which empties it.
WriteFileTool(content, outcome) ==
  /\ IF content = Missing \/ outcome = "not opened"
     THEN file' = file /\ told' = "error"
     ELSE /\ file' = IF outcome = "done" THEN content ELSE "part of it"
          /\ told' = IF outcome = "done" THEN "ok" ELSE "error"
  /\ UNCHANGED <<display, cursor, alive, credentials, login>>

-----------------------------------------------------------------------------
(* login.                                                                  *)

\* Mutant: the saved credentials whoever is named.
UseSavedAlways(saved, user, given) == saved # NoUser /\ ~given

UseSaved(saved, user, given) ==
  saved # NoUser /\ ~given /\ (user = NoUser \/ SameText(user, saved))

\* A password is known by the user it was saved, given or asked for.
Login(user, given) ==
  /\ Free
  /\ UseSaved(credentials, user, given) \/ user # NoUser
  /\ login' = IF UseSaved(credentials, user, given)
              THEN NewLogin("sign on", user, credentials, credentials)
              ELSE NewLogin(IF given THEN "sign on" ELSE "prompt", user, user,
                            IF given THEN user ELSE NoUser)
  /\ UNCHANGED <<display, cursor, alive, credentials, file, told>>

\* The dialog: an answer, or Cancel, Escape or three minutes.
Answered(yes) ==
  /\ login.at = "prompt"
  /\ login' = IF alive /\ yes THEN [login EXCEPT !.at = "sign on", !.password = login.user] ELSE NoLogin
  /\ UNCHANGED <<display, cursor, alive, credentials, file, told>>

InputFields(d) == { f \in d.fields : ~f.bypass }

\* moveToNextField.
NextField(d, c) ==
  LET starts == { f.start : f \in InputFields(d) }
      later  == { s \in starts : s > c }
      Least(S) == CHOOSE s \in S : \A t \in S : s <= t
  IN  IF starts = {} THEN c ELSE IF later # {} THEN Least(later) ELSE Least(starts)

\* TYPE: a character goes into the input field under the cursor; the last
\* position of a field leads to the next.
TypeOne(at, ch) ==
  LET under == { f \in InputFields(at.display) : at.cursor \in FieldCells(f) }
      last  == \E f \in under : at.cursor = f.start + f.length - 1
  IN  IF under = {} THEN at
      ELSE [display |-> [at.display EXCEPT !.cells[at.cursor] = ch],
            cursor  |-> IF last THEN NextField(at.display, at.cursor) ELSE at.cursor + 1]
TypeText(at, text) ==
  LET typed[n \in 0 .. Len(text)] == IF n = 0 THEN at ELSE TypeOne(typed[n - 1], text[n])
  IN  typed[Len(text)]
ToNextField(at) == [display |-> at.display, cursor |-> NextField(at.display, at.cursor)]

\* MOVE CURSOR AT (1,1) and the statements up to PRESS ENTER, none of which
\* waits; a locked keyboard takes no text.
Password == <<"p">>
TypeCredentials(user) ==
  LET inUser   == ToNextField([display |-> display, cursor |-> 0])
      named    == IF display.open THEN TypeText(inUser, user) ELSE inUser
      inSecond == ToNextField(named)
      typed    == IF display.open THEN TypeText(inSecond, Password) ELSE inSecond
  IN  display' = [typed.display EXCEPT !.open = FALSE] /\ cursor' = typed.cursor

\* EXPECT TEXT "Sign On" AT ROW 1.
SeesSignOn ==
  /\ login.at = "sign on" /\ display.title = "Sign On"
  /\ login' = [login EXCEPT !.at = "unlocked"]
  /\ UNCHANGED <<display, cursor, alive, credentials, file, told>>

\* EXPECT KEYBOARD UNLOCKED; then the title is read again.
EntersCredentials ==
  /\ login.at = "unlocked" /\ display.open
  /\ display.title # "Recover"
  /\ TypeCredentials(login.user)
  /\ login' = [login EXCEPT !.at = "messages"]
  /\ UNCHANGED <<alive, credentials, file, told>>

\* A job to recover: option 90, and login is called again inside this call.
EntersSignOff ==
  /\ login.at = "unlocked" /\ display.open
  /\ display.title = "Recover" /\ login.outer < MaxOuter
  /\ LET typed == TypeText(ToNextField([display |-> display, cursor |-> 0]), <<"a", "a">>) IN
     display' = [typed.display EXCEPT !.open = FALSE] /\ cursor' = typed.cursor
  /\ login' = [login EXCEPT !.at = "sign on", !.outer = @ + 1]
  /\ UNCHANGED <<alive, credentials, file, told>>

\* What follows a sign-on: an Enter for the program messages; the call that ran
\* inside another goes on with the outer one's own user name and password.
Follows ==
  /\ login.at = "messages" /\ display.open
  /\ IF display.title = "Messages"
     THEN /\ display' = [display EXCEPT !.open = FALSE]
          /\ cursor' = NextField(display, 0)
          /\ login' = IF login.outer = 0 THEN NoLogin ELSE [login EXCEPT !.at = "outer"]
     ELSE /\ UNCHANGED <<display, cursor>>
          /\ login' = IF login.outer = 0 THEN NoLogin ELSE [login EXCEPT !.at = "outer"]
  /\ UNCHANGED <<alive, credentials, file, told>>

OuterGoesOn ==
  /\ login.at = "outer"
  /\ TypeCredentials(login.user)
  /\ login' = [login EXCEPT !.at = "messages", !.outer = @ - 1]
  /\ UNCHANGED <<alive, credentials, file, told>>

\* The thirty seconds of an EXPECT: the script aborts.
Waits == login.at \in {"sign on", "unlocked", "messages"}
ExpectTimesOut ==
  /\ Waits
  /\ login.at = "sign on" => display.title # "Sign On"
  /\ login.at # "sign on" => ~display.open
  /\ login' = NoLogin
  /\ UNCHANGED <<display, cursor, alive, credentials, file, told>>

-----------------------------------------------------------------------------
\* The host writes a screen, or answers with an error on the one there is.
HostWrites(screen) ==
  /\ alive
  /\ display' = screen
  /\ cursor' = NextField(screen, -1)
  /\ UNCHANGED <<alive, credentials, login, file, told>>

HostRefuses ==
  /\ alive /\ ~display.open
  /\ display' = [display EXCEPT !.open = TRUE]
  /\ UNCHANGED <<cursor, alive, credentials, login, file, told>>

\* The user closes the tab: the script stops, the prompt stays.
TabCloses ==
  /\ alive
  /\ alive' = FALSE /\ credentials' = NoUser
  /\ login' = IF login.at = "prompt" THEN login ELSE NoLogin
  /\ UNCHANGED <<display, cursor, file, told>>

ToolInit ==
  /\ display \in { s \in HostScreens : s.title = "Sign On" }
  /\ cursor = NextField(display, -1)
  /\ alive \in BOOLEAN
  /\ credentials \in SavedUsers \cup {NoUser}
  /\ login = NoLogin
  /\ file = NoFile /\ told = "nothing"

ToolNext ==
  \/ \E row \in 0 .. Rows, col \in 0 .. Cols : SetCursorPosition(row, col)
  \/ \E rows \in -Rows .. Rows, cols \in -(Rows * Cols) .. Rows * Cols : MoveCursor(rows, cols)
  \/ \E content \in Contents \cup {Missing}, outcome \in WriteOutcome : WriteFileTool(content, outcome)
  \/ \E user \in UserNames \cup {NoUser}, given \in BOOLEAN : Login(user, given)
  \/ \E yes \in BOOLEAN : Answered(yes)
  \/ SeesSignOn \/ EntersCredentials \/ EntersSignOff \/ Follows \/ OuterGoesOn \/ ExpectTimesOut
  \/ \E screen \in HostScreens : HostWrites(screen)
  \/ HostRefuses
  \/ TabCloses

ToolSpec == ToolInit /\ [][ToolNext]_toolVars

-----------------------------------------------------------------------------
Regions == { r \in [row : -1 .. MaxInt, col : -1 .. MaxInt, rows : -1 .. MaxInt, cols : -1 .. MaxInt] :
             RegionAccepted(r.row, r.col, r.rows, r.cols) }

Answers(d) ==
  << ReadScreen(d),
     [text \in SearchTexts |-> FindText(d, text)],
     [cell \in Cell |-> GetFieldAt(d, cell \div Cols, cell % Cols)] >>

\* No reading tool tells what a non-display field holds: two screens that differ
\* there only have the same answers.
HiddenStaysHidden == alive =>
  LET Filled(ch) == [display EXCEPT !.cells =
                       [c \in Cell |-> IF c \in HiddenCells(display) THEN ch ELSE @[c]]]
  IN  Answers(Filled("p")) = Answers(Filled("a"))

\* A region that is accepted lies on the screen and reads as its lines do, whatever
\* ints a client passes; find_text reports matches that do not overlap and misses
\* none that is apart from all it reports.
AnswersAreTrue == alive =>
  /\ \A r \in Regions :
       /\ OnScreen(r.row, r.col) /\ OnScreen(r.row + r.rows - 1, r.col + r.cols - 1)
       /\ r.col = 0 /\ r.cols = Cols =>
            \A i \in 1 .. r.rows : ReadRegion(display, r.row, 0, r.rows, Cols)[i] = ReadLine(display, r.row + i - 1)
  /\ \A text \in SearchTexts :
       LET found == FindText(display, text)
           Covers(p) == p .. p + Len(text) - 1
           Real(p) == /\ (p % Cols) + Len(text) <= Cols
                      /\ SameText([i \in 1 .. Len(text) |-> DisplayedCharacter(display, p + i - 1)], text)
       IN  /\ \A p \in found : Real(p)
           /\ \A p, q \in found : p # q => Covers(p) \cap Covers(q) = {}
           /\ \A p \in Cell \ found : Real(p) => \E q \in found : Covers(p) \cap Covers(q) # {}

\* What the reading tools tell is the screen, and nothing the operator could not
\* see (read_screen, read_region, find_text, get_field_at).
ReadsAreTrue == HiddenStaysHidden /\ AnswersAreTrue

\* login signs on as the user the client names, with that user's password, and as
\* the saved user only when the client names that one or none; the user's answer
\* goes to no session but the one that asked.
SignsOnAsNamed ==
  login.at \notin {"none", "prompt"} =>
    /\ alive
    /\ SameText(login.password, login.user)
    /\ login.asked # NoUser => SameText(login.asked, login.user)

\* "The password never appears in the MCP client's tool calls or results": when the
\* session takes calls again, what they can read holds no letter of the password.
PasswordStaysHidden == Free => \A c \in Cell : DisplayedCharacter(display, c) # "p"
=============================================================================
