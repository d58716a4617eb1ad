------------------------------ MODULE MCAgent ------------------------------
(* The agent panel, its sign-on, and the tools of an MCP client share no    *)
(* variable: a behaviour of this model is one of one of the three.          *)
EXTENDS AgentPanel, AgentSignOn, McpTools

VARIABLE part

\* Two rows of four cells; the sign-on screen has a user name of two, a hidden
\* password of two and a program name of one.
Blank(title, open, fields) == [title |-> title, open |-> open, fields |-> fields, cells |-> [c \in Cell |-> " "]]
Input(start, length) == [start |-> start, length |-> length, hidden |-> FALSE, bypass |-> FALSE]
MCScreens ==
  LET secret == [Input(4, 2) EXCEPT !.hidden = TRUE]
      menu   == Blank("other", TRUE, {Input(5, 2)})
      signOn == {Input(1, 2), secret, Input(7, 1)}
  IN  { Blank("Sign On", TRUE, signOn), Blank("Sign On", FALSE, signOn),
        Blank("Recover", TRUE, {Input(1, 2)}), Blank("Messages", TRUE, {}),
        [menu EXCEPT !.cells = [c \in Cell |-> IF c \in {0, 2} THEN "a" ELSE IF c \in {1, 3, 4} THEN "A" ELSE " "]],
        [Blank("other", TRUE, {secret, [Input(1, 2) EXCEPT !.bypass = TRUE]})
           EXCEPT !.cells = [c \in Cell |-> IF c = 2 THEN "a" ELSE IF c = 1 THEN "A" ELSE " "]] }
MCSearch == {<<"a">>, <<"a", "A">>, <<"p">>}
MCUsers == {<<"u">>, <<"U">>, <<"u", "u">>, <<"U", "u">>}
MCSaved == {<<"u">>}

\* The parts that do not run start in one state.
MCInit ==
  /\ Init /\ SignOnInit /\ ToolInit
  /\ part \in {"panel", "signon", "tools"}
  /\ part # "panel" => ~auto.tools /\ ~auto.files /\ provider = NewProvider("openai")
  /\ part # "signon" => storage = NoToken
  /\ part # "tools" => ~alive /\ credentials = NoUser /\ display.open
  /\ part = "tools" => alive

MCNext ==
  \/ part = "panel" /\ Next
     /\ UNCHANGED <<signOnVars, part, display, cursor, alive, credentials, login, file, told>>
  \/ part = "signon" /\ SignOnNext
     /\ UNCHANGED <<vars, part, display, cursor, alive, credentials, login, file, told>>
  \/ part = "tools" /\ ToolNext /\ UNCHANGED <<vars, signOnVars, part>>

MCSpec == MCInit /\ [][MCNext]_<<vars, signOnVars, toolVars, part>> /\ Fairness
=============================================================================
