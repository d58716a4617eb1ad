----------------------------- MODULE AgentPanel -----------------------------
(***************************************************************************)
(* The agent panel of a tab: a conversation with a language model that may *)
(* ask for tools (QAgentPanelWidget), the provider that keeps the history  *)
(* and posts it to the service (AnthropicProvider, OpenAiProvider), the    *)
(* subagent that writes scripts (ScriptGeneratorSubagent) and the runner   *)
(* that executes them on the screen (AgentScriptRunner).                   *)
(*                                                                         *)
(* Everything runs on one thread; each action is one event of its loop.    *)
(* A tool call is known by a number; what it asks for matters only through *)
(* its tool and through whether its arguments are missing, refused or      *)
(* accepted by the handler.                                                *)
(***************************************************************************)
EXTENDS Naturals, Sequences, FiniteSets

CONSTANTS
  MaxMessages,   \* messages the user submits
  MaxCalls,      \* tool calls the model makes, over all conversations
  MaxClears,     \* times the user clears the conversation
  MaxChanges     \* times the settings are saved (each replaces the provider)

VARIABLES
  inputEnabled,  \* the input field accepts a message
  thinking,      \* the indicator is shown and its timer runs
  pendingCall,   \* m_pendingToolCall: the call that waits for the user or for its script
  bar,           \* the two buttons: shown, what they are wired to, the call they were shown for
  running,       \* call whose script the runner executes, or NoCall
  generation,    \* call the two generation handlers answer, or NoCall
  generating,    \* the subagent's request is in flight
  provider,      \* brand, history, held assistant message, request in flight
  auto,          \* the two auto-accept settings
  \* what the properties look back on
  conversation,  \* number of the conversation shown
  calls,         \* for each call made so far: its conversation, and whether it acts
  consented,     \* calls the user accepted, or that an auto-accept setting covered
  acted,         \* calls that reached the screen or the disk
  replaced,      \* the provider was replaced under an unfinished turn
  messages, changes

panel == <<inputEnabled, thinking, pendingCall, bar>>
ghosts == <<conversation, replaced, messages, changes>>
vars == <<inputEnabled, thinking, pendingCall, bar, running, generation, generating,
          provider, auto, calls, consented, acted, ghosts>>

NoCall == 0

(* Tools by the way their handler answers.                                 *)
Immediate == {"read_file", "read_screen", "list_files", "get_cursor_position", "get_screen_size",
              "get_field_at", "find_text", "read_line", "read_region"}
McpOnly == {"connect", "login"}
Scripted == {"run_5250script", "send_keys", "type_text", "set_cursor_position", "move_cursor",
             "wait_for_text"}
Acting == Scripted \union {"write_file"}
Tools == Immediate \union McpOnly \union Acting \union {"generate_5250script"}

User == [is |-> "user", call |-> NoCall, ok |-> TRUE]
Text == [is |-> "text", call |-> NoCall, ok |-> TRUE]
Use(c) == [is |-> "use", call |-> c, ok |-> TRUE]
Result(c, ok) == [is |-> "result", call |-> c, ok |-> ok]

(***************************************************************************)
(* The provider.                                                           *)
(***************************************************************************)
NewProvider(brand) ==
  [brand |-> brand, history |-> <<>>, held |-> NoCall, asked |-> NoCall]

(* "asked" is the number of the conversation the request in flight belongs *)
(* to.                                                                     *)
SendRequest(p) == [p EXCEPT !.asked = conversation]

SendMessage(p) == SendRequest([p EXCEPT !.history = Append(@, User)])

(* A mutant: the held assistant message is not released.                   *)
SendToolResultHolds(p, call, ok) ==
  SendRequest([p EXCEPT
    !.history = (IF p.held = NoCall THEN @ ELSE Append(@, Use(p.held))) \o <<Result(call, ok)>>])

SendToolResult(p, call, ok) ==
  SendRequest([p EXCEPT
    !.history = (IF p.held = NoCall THEN @ ELSE Append(@, Use(p.held))) \o <<Result(call, ok)>>,
    !.held = NoCall])

ClearHistory(p) == [p EXCEPT !.history = <<>>, !.held = NoCall]

Cancel(p) == [p EXCEPT !.asked = NoCall]

(***************************************************************************)
(* The panel's answers to a tool call. Every handler ends in one of them:  *)
(* an answer at once, or buttons (or the setting that presses them).       *)
(***************************************************************************)
showThinkingIndicator == thinking' = TRUE

removeThinkingIndicator == thinking' = FALSE

setInputEnabled(b) == inputEnabled' = b

Answer(p, call, ok) ==
  /\ showThinkingIndicator
  /\ provider' = SendToolResult(p, call, ok)
  /\ UNCHANGED inputEnabled

AnswerNow(p, call, ok) ==
  /\ Answer(p, call, ok)
  /\ UNCHANGED <<pendingCall, bar, running, generation, generating, acted, consented>>

Hidden == [shown |-> FALSE, wired |-> "none", for |-> NoCall]

(* Wiring the buttons cuts whatever they were wired to before.             *)
Offer(p, call, handler) ==
  /\ pendingCall' = call
  /\ bar' = [shown |-> TRUE, wired |-> handler, for |-> call]
  /\ provider' = p
  /\ removeThinkingIndicator
  /\ UNCHANGED <<inputEnabled, running, generation, generating, acted, consented>>

(* The runner reports its end: the pending call is answered, if it is      *)
(* still there.                                                            *)
onScriptFinished(p, success) ==
  IF pendingCall = NoCall
  THEN provider' = p /\ UNCHANGED <<inputEnabled, thinking, pendingCall, bar>>
  ELSE /\ pendingCall' = NoCall
       /\ bar' = [bar EXCEPT !.shown = FALSE]
       /\ Answer(p, pendingCall, success)

(* runScript refuses at once (a script runs, the screen is gone, the text  *)
(* does not parse), and the refusal reaches onScriptFinished before it     *)
(* returns; or it starts.                                                  *)
runScript(p, call) ==
  \/ /\ Answer(p, call, FALSE)
     /\ pendingCall' = NoCall
     /\ bar' = Hidden
     /\ UNCHANGED <<running, acted>>
  \/ /\ running = NoCall
     /\ running' = call
     /\ pendingCall' = call
     /\ acted' = acted \union {call}
     /\ provider' = p
     /\ bar' = [bar EXCEPT !.wired = "none"]
     /\ removeThinkingIndicator
     /\ UNCHANGED inputEnabled

WriteFile(p, call) ==
  \E written \in BOOLEAN :
    /\ Answer(p, call, written)
    /\ acted' = acted \union {call}
    /\ pendingCall' = NoCall
    /\ bar' = Hidden
    /\ UNCHANGED running

(* A mutant: the scripts of single tools run without a question.           *)
runToolUnasked(p, call) ==
  /\ runScript(p, call)
  /\ UNCHANGED <<consented, generation, generating>>

runTool(p, call) ==
  IF auto.tools
  THEN /\ consented' = consented \union {call}
       /\ runScript(p, call)
       /\ UNCHANGED <<generation, generating>>
  ELSE Offer(p, call, "script")

(***************************************************************************)
(* The handlers, by tool. args: "none" (missing), "bad" (out of bounds,    *)
(* no such thing) or "good".                                               *)
(***************************************************************************)
onReadScreenToolCall(p, call) == AnswerNow(p, call, TRUE)

onGetCursorPositionToolCall(p, call) == AnswerNow(p, call, TRUE)

onGetScreenSizeToolCall(p, call) == AnswerNow(p, call, TRUE)

onReadFileToolCall(p, call, args) == AnswerNow(p, call, args = "good")

(* Without a path the current directory is listed.                         *)
onListFilesToolCall(p, call, args) == AnswerNow(p, call, args # "bad")

onFindTextToolCall(p, call, args) == AnswerNow(p, call, args = "good")

(* Without a row (or a column) row 0 is meant, which every screen has; a   *)
(* field need not be there.                                                *)
onReadLineToolCall(p, call, args) == AnswerNow(p, call, args # "bad")

onGetFieldAtToolCall(p, call, args) ==
  \E inField \in BOOLEAN : AnswerNow(p, call, args # "bad" /\ inField)

onReadRegionToolCall(p, call, args) == AnswerNow(p, call, args = "good")

refuseMcpOnly(p, call) == AnswerNow(p, call, FALSE)

onSendKeysToolCall(p, call, args) ==
  IF args = "none" THEN AnswerNow(p, call, FALSE) ELSE runTool(p, call)

onTypeTextToolCall(p, call, args) ==
  IF args = "none" THEN AnswerNow(p, call, FALSE) ELSE runTool(p, call)

onWaitForTextToolCall(p, call, args) ==
  IF args = "none" THEN AnswerNow(p, call, FALSE) ELSE runTool(p, call)

onSetCursorPositionToolCall(p, call, args) ==
  IF args = "bad" THEN AnswerNow(p, call, FALSE) ELSE runTool(p, call)

onMoveCursorToolCall(p, call, args) ==
  IF args # "good" THEN AnswerNow(p, call, FALSE) ELSE runTool(p, call)

onRunScriptToolCall(p, call, args) ==
  IF args = "none" THEN AnswerNow(p, call, FALSE) ELSE runTool(p, call)

onWriteFileToolCall(p, call, args) ==
  IF args = "none" THEN AnswerNow(p, call, FALSE)
  ELSE IF auto.files
       THEN /\ consented' = consented \union {call}
            /\ WriteFile(p, call)
            /\ UNCHANGED <<generation, generating>>
       ELSE Offer(p, call, "file")

(* The handlers of an earlier generation are cut before the new ones are   *)
(* connected; the request replaces one still in flight.                    *)
onGenerateScriptToolCall(p, call, args) ==
  IF args = "none" THEN AnswerNow(p, call, FALSE)
  ELSE \/ /\ generation' = call
          /\ generating' = TRUE
          /\ provider' = p
          /\ removeThinkingIndicator
          /\ UNCHANGED <<inputEnabled, pendingCall, bar, running, acted, consented>>
       \/ AnswerNow(p, call, FALSE)   \* the prompt template cannot be read

(* A name that is none of these is taken for run_5250script.               *)
onToolCallReceived(p, call, tool, args) ==
  \/ tool = "generate_5250script" /\ onGenerateScriptToolCall(p, call, args)
  \/ tool = "read_file" /\ onReadFileToolCall(p, call, args)
  \/ tool \in McpOnly /\ refuseMcpOnly(p, call)
  \/ tool = "write_file" /\ onWriteFileToolCall(p, call, args)
  \/ tool = "read_screen" /\ onReadScreenToolCall(p, call)
  \/ tool = "list_files" /\ onListFilesToolCall(p, call, args)
  \/ tool = "send_keys" /\ onSendKeysToolCall(p, call, args)
  \/ tool = "type_text" /\ onTypeTextToolCall(p, call, args)
  \/ tool = "set_cursor_position" /\ onSetCursorPositionToolCall(p, call, args)
  \/ tool = "move_cursor" /\ onMoveCursorToolCall(p, call, args)
  \/ tool = "wait_for_text" /\ onWaitForTextToolCall(p, call, args)
  \/ tool = "get_screen_size" /\ onGetScreenSizeToolCall(p, call)
  \/ tool = "find_text" /\ onFindTextToolCall(p, call, args)
  \/ tool = "read_line" /\ onReadLineToolCall(p, call, args)
  \/ tool = "read_region" /\ onReadRegionToolCall(p, call, args)
  \/ tool = "get_cursor_position" /\ onGetCursorPositionToolCall(p, call)
  \/ tool = "get_field_at" /\ onGetFieldAtToolCall(p, call, args)
  \/ tool = "run_5250script" /\ onRunScriptToolCall(p, call, args)

(***************************************************************************)
(* The service's reply, read by each provider in its own way. A reply      *)
(* carries text, a block that is neither text nor a call, a tool call, and *)
(* the reason it stopped for.                                              *)
(***************************************************************************)
Replies == [text : BOOLEAN, other : BOOLEAN, call : BOOLEAN, whole : BOOLEAN]

(* A mutant: a reply that ends the turn leaves the input locked.           *)
EndTurnLocked(p) ==
  /\ provider' = p
  /\ removeThinkingIndicator
  /\ UNCHANGED <<inputEnabled, pendingCall, bar, running, generation, generating, acted,
                 consented, calls>>

EndTurn(p) ==
  /\ provider' = p
  /\ removeThinkingIndicator
  /\ setInputEnabled(TRUE)
  /\ UNCHANGED <<pendingCall, bar, running, generation, generating, acted, consented, calls>>

MakeCall(p) ==
  LET call == Len(calls) + 1 IN
  /\ Len(calls) < MaxCalls
  /\ \E tool \in Tools, args \in {"none", "bad", "good"} :
       /\ calls' = Append(calls, [conversation |-> conversation, acts |-> tool \in Acting])
       /\ onToolCallReceived([p EXCEPT !.held = call], call, tool, args)

(* Whatever is not a whole tool call is text, cut off or missing; a call   *)
(* that was cut off is dropped from what the history keeps.                *)
AnthropicReply(p, r) ==
  IF r.call /\ r.whole THEN MakeCall(p)
  ELSE EndTurn(IF r.text \/ r.other THEN [p EXCEPT !.history = Append(@, Text)] ELSE p)

OpenAiReply(p, r) ==
  IF r.call /\ r.whole THEN MakeCall(p)
  ELSE EndTurn(IF r.text THEN [p EXCEPT !.history = Append(@, Text)] ELSE p)

handleResponse ==
  /\ provider.asked # NoCall
  /\ LET p == Cancel(provider) IN
     \/ EndTurn(p)   \* a network error, or not JSON
     \/ \E r \in Replies :
          IF p.brand = "anthropic" THEN AnthropicReply(p, r) ELSE OpenAiReply(p, r)
  /\ UNCHANGED <<auto, ghosts>>

(***************************************************************************)
(* The user.                                                               *)
(***************************************************************************)
submitMessage ==
  /\ inputEnabled
  /\ messages < MaxMessages
  /\ messages' = messages + 1
  /\ setInputEnabled(FALSE)
  /\ showThinkingIndicator
  /\ provider' = SendMessage(provider)
  /\ UNCHANGED <<pendingCall, bar, running, generation, generating, auto, calls, acted,
                 conversation, consented, replaced, changes>>

Accepting ==
  /\ bar.shown
  /\ consented' = consented \union {bar.for}
  /\ UNCHANGED <<generation, generating, auto, calls, conversation, replaced, messages, changes>>

onRunScriptClicked ==
  /\ bar.wired = "script"
  /\ pendingCall # NoCall
  /\ Accepting
  /\ runScript(provider, pendingCall)

onAcceptFileWriteClicked ==
  /\ bar.wired = "file"
  /\ pendingCall # NoCall
  /\ Accepting
  /\ WriteFile(provider, pendingCall)

onCancelClicked ==
  /\ bar.shown /\ bar.wired # "none"
  /\ pendingCall # NoCall
  /\ pendingCall' = NoCall
  /\ bar' = Hidden
  /\ Answer(provider, pendingCall, FALSE)
  /\ UNCHANGED <<running, generation, generating, auto, calls, acted, consented, ghosts>>

(* The pending call goes first: the runner's stop() reports finished while *)
(* it runs, and finds nothing to answer.                                   *)
Clear ==
  /\ conversation <= MaxClears
  /\ conversation' = conversation + 1
  /\ thinking' = FALSE
  /\ pendingCall' = NoCall
  /\ running' = NoCall
  /\ generation' = NoCall
  /\ generating' = FALSE
  /\ bar' = [bar EXCEPT !.shown = FALSE]
  /\ provider' = ClearHistory(Cancel(provider))
  /\ setInputEnabled(TRUE)
  /\ replaced' = FALSE
  /\ UNCHANGED <<auto, calls, consented, acted, messages, changes>>

(* Saving the settings gives every panel a new provider: the old one is    *)
(* disconnected and deleted, with its history and its request; the panel   *)
(* itself is left as it is.                                                *)
setProvider ==
  /\ changes < MaxChanges
  /\ changes' = changes + 1
  /\ \E brand \in {"anthropic", "openai"} : provider' = NewProvider(brand)
  /\ \E tools, files \in BOOLEAN : auto' = [tools |-> tools, files |-> files]
  /\ replaced' = (replaced \/ ~inputEnabled)
  /\ UNCHANGED <<panel, running, generation, generating, calls, acted, conversation, consented,
                 messages>>

(***************************************************************************)
(* The script and the subagent end.                                        *)
(***************************************************************************)
(* The script completed, failed, or asked for what an agent's script may   *)
(* not ask for (PAUSE, INPUT).                                             *)
scriptEnds ==
  /\ running # NoCall
  /\ running' = NoCall
  /\ \E success \in BOOLEAN : onScriptFinished(provider, success)
  /\ UNCHANGED <<generation, generating, auto, calls, acted, consented, ghosts>>

onScriptGenerated(call) == Answer(provider, call, TRUE)

onScriptGenerationError(call) == Answer(provider, call, FALSE)

subagentReplied ==
  /\ generating
  /\ generating' = FALSE
  /\ generation' = NoCall
  /\ IF generation = NoCall
     THEN UNCHANGED <<inputEnabled, thinking, provider>>
     ELSE onScriptGenerated(generation) \/ onScriptGenerationError(generation)
  /\ UNCHANGED <<pendingCall, bar, running, auto, calls, acted, consented, ghosts>>

Init ==
  /\ inputEnabled = TRUE
  /\ thinking = FALSE
  /\ pendingCall = NoCall
  /\ bar = Hidden
  /\ running = NoCall
  /\ generation = NoCall
  /\ generating = FALSE
  /\ \E brand \in {"anthropic", "openai"} : provider = NewProvider(brand)
  /\ auto \in [tools : BOOLEAN, files : BOOLEAN]
  /\ conversation = 1
  /\ calls = <<>>
  /\ consented = {}
  /\ acted = {}
  /\ replaced = FALSE
  /\ messages = 0
  /\ changes = 0

Next ==
  \/ handleResponse
  \/ submitMessage \/ onRunScriptClicked \/ onAcceptFileWriteClicked \/ onCancelClicked
  \/ Clear \/ setProvider
  \/ scriptEnds \/ subagentReplied

Spec == Init /\ [][Next]_vars

(* The service answers every request, or it fails; a script and a          *)
(* generation end; the user decides about what is put to him. (The answer  *)
(* may be another call: MaxCalls bounds how often.)                        *)
Fairness ==
  /\ WF_vars(handleResponse)
  /\ WF_vars(scriptEnds)
  /\ WF_vars(subagentReplied)
  /\ WF_vars(onRunScriptClicked \/ onAcceptFileWriteClicked \/ onCancelClicked)

FairSpec == Spec /\ Fairness

-----------------------------------------------------------------------------
(* What reaches the screen or the disk was put to the user as that very    *)
(* call and accepted, or an auto-accept setting was on when it came; and   *)
(* the model is told of a success only for such a call. (Wiring of the     *)
(* shared buttons, QAgentPanelWidget.cpp:588-598.)                         *)
ActsOnlyWithConsent ==
  /\ acted \subseteq consented
  /\ \A i \in DOMAIN provider.history :
       LET m == provider.history[i] IN
       m.is = "result" /\ m.ok /\ calls[m.call].acts => m.call \in acted

\* Nothing of a cleared conversation is under way or written into the next one:
\* not its request, its pending call, its script, its generation, its messages.
NothingFromCleared ==
  /\ provider.asked \in {NoCall, conversation}
  /\ \A call \in {pendingCall, running, generation, provider.held} \union
                  {provider.history[i].call : i \in DOMAIN provider.history} :
       call # NoCall => calls[call].conversation = conversation

\* The history the service gets holds each call's result right after the call,
\* once, as both services demand, unless a provider was replaced in a turn.
ResultsFollowCalls ==
  replaced \/
  LET h == provider.history
      At(is) == {i \in DOMAIN h : h[i].is = is}
  IN /\ \A i \in At("use") : i + 1 \in At("result") /\ h[i + 1].call = h[i].call
     /\ \A i \in At("result") : i - 1 \in At("use") /\ h[i - 1].call = h[i].call
     /\ provider.asked # NoCall => provider.held = NoCall

\* Whatever is cleared, answered late or refused, what the service is sent is
\* the conversation the user sees: nothing of a cleared one, and every call
\* with its result (Clear, QAgentPanelWidget.cpp:90-115; sendToolResult,
\* anthropic_provider.cpp:99, 189).
ConversationIsWhole == NothingFromCleared /\ ResultsFollowCalls

\* While the input is locked exactly one thing is under way that will unlock
\* it: a request, a question to the user, a script or a generation.
OneUnderWay ==
  LET waiting == bar.shown /\ bar.wired # "none" /\ pendingCall = bar.for
      underWay == <<provider.asked # NoCall, waiting, running # NoCall,
                    generating /\ generation # NoCall>>
  IN replaced \/ Cardinality({i \in DOMAIN underWay : underWay[i]}) =
                   IF inputEnabled THEN 0 ELSE 1

\* A message gets its end, by the one thing that is under way for it: the input
\* unlocks again, unless the provider is replaced under the turn (sendMessage,
\* finishTurn and all that leads there).
TurnEnds ==
  /\ [][OneUnderWay']_vars
  /\ ~inputEnabled ~> (inputEnabled \/ replaced)

=============================================================================
