# A verification project for 5250ng

5250ng is a TN5250 terminal emulator for IBM i, written in C++ with Qt 6. This
directory holds TLA+ models of its core, the TLC configurations that check
them, and proofs checked by TLAPS. Paths below are relative to the repository.

## 1. The system

| Component | Source | State it keeps | Operations |
|---|---|---|---|
| TN5250 client | `src/network/tn5250_qt/client/` | connection state, socket, connect timer, keep-alive timer, negotiated options, parser and record buffers | `connectToHost`, `disconnectFromHost`, socket slots, timeouts, `processTelnetData`, `sendData`, `sendGDS` |
| Telnet tables, second parser | `src/network/tn5250_qt/telnet/` | parse state of `telnet::Client` (not used by the program) | `processData` |
| Host servers | `src/network/hostserver/` | sign-on exchange, port requests (no window uses them yet) | sign on, resolve, socket slots |
| Session worker | `src/session/worker.cpp` | client, reconnect timer and counter, replay position, `m_stopping` | `start`, `stop`, client signals, timers, `sendInput` ... |
| Session profiles | `src/session/manager.cpp`, `config.cpp`, `src/ui/dialogs/connect_dialog.cpp` | JSON files of two naming schemes and their index; the dialog's form; each tab's copy of its profile | save, save as, load, delete, connect, quick theme |
| Main window, tabs | `src/ui/main_window.cpp`, `src/ui/actions/` | list of sessions, active tab, menu actions, per-tab status, startup script | connect, disconnect, reconnect, duplicate, close, move, scripts |
| 5250 rendering | `src/ui/rendering/` | command handler, stream renderer, GDDM decoder | one handler per 5250 order and command |
| Screen widget | `src/ui/widgets/Q5250ScreenWidget/` | screen buffer, fields, keyboard state, type-ahead, selection | key events, AID keys, drawing |
| MCP server | `src/mcp/` | listening socket, client connections, session registry | HTTP and JSON-RPC requests, tools |
| Agent | `src/agent/`, `src/ui/widgets/QAgentPanelWidget/` | conversation, tool calls, OAuth flow and tokens | requests, tool results, script runs, sign in and out |
| Keyboard and recorder | `src/core/keyboard_*`, `macro_*`, the remap dialog, the virtual keyboard | mapping, saved mapping, the dialog's copy, a recording | press, remap, record, make a script |
| Scripts | `src/core/script_*`, `src/ui/dialogs/script_editor_window.cpp`, `src/ui/actions/onScripts.cpp` | files and their watch, editor tabs, executor | edit, save, reload, run, stop |
| PC commands | `onStrpccmdRequested`, `src/core/command_runner.cpp` | policies, open questions | ask, run, answer |
| Captures | `src/core/pcap_replay.cpp` | none: a file becomes records | load |
| Themes | `src/ui/themes/`, `src/ui/dialogs/session_settings_dialog.cpp` | registry, files, the page's unsaved edits | edit, apply, save, delete |
| View of the screen | `Q5250ScreenWidget`, `src/core/` | history and the screen viewed, rules and their overlay, hotspots, selection | draw, settle, look back, switch, edit rules, select, copy |
| Other services | `src/core/`, `src/logger/` | code pages, session logger | translate, log |
| Other dialogs, devices, utilities | `src/ui/dialogs/`, `src/ui/device/`, `src/utils/` | user interface | — |
| `5250script` engine, `tn5250` decoder, `QtUiStyle` | git submodules, not in the tree | external | — |

How they interact. A tab owns a worker in a thread of its own; the worker owns a
client. Client signals are handled by the worker in place, except
`dataReceived`, which is posted to the worker's queue. The worker's signals are
posted to the window's thread, where the tab's handlers update its status, its
screen and the window's menu actions. The window posts `stop` to the worker and
ends its thread with `quit`. MCP and agent requests arrive in the window's
thread and act on tabs.

What makes each part correct. Client: data in order and in whole records, a
negotiation that settles, timers that act on their own attempt. Worker: stopped
means quiet, reconnects as announced and as often as allowed. Tab: it shows what
the worker is, its actions have an effect, a script's keys arrive once. Rendering
and widget: the operator is neither locked out nor let in twice, errors outlive
what comes before them, what is typed stays in its field and reaches the host, a
saved screen comes back. MCP server and tools: each call once, in order, one at a
time per session, for a client that is still there; answers true to the screen.
Agent: nothing without consent, a conversation that stays whole. Window and
profiles: two tabs stay two, no edit is carried over another. Scripts and themes:
nothing is lost that nobody was asked about. Codecs: every cut of a stream, block
or capture means the same. The rest is correct when its tables and formats are.

What is hard: two threads with a queue in each direction; signals that are
handled inside the object that is being torn down; timers (connect, reconnect,
keep-alive, replay, first screen) that race what they wait for; a byte stream
cut anywhere; option negotiation with a peer that negotiates at the same time;
user actions in the middle of all of it. `PROJECT.json` lists each hazard at
its line.

## 2. Modules

| Module | What it models |
|---|---|
| `ClientLifecycle` | abstract: the states of a client and the signals each step emits, as its owner may rely on them |
| `TelnetClient` | `TN5250Client` with an unconstrained host |
| `TelnetNegotiation` | `TelnetClient` composed with an RFC 854 host over an ordered connection |
| `TelnetParser` | the byte parser of `processTelnetData` and the escaping of `sendRawData` |
| `SessionPromise` | abstract: what a session promises the window |
| `SessionWorker` | `session::Worker` with a client that behaves as `ClientLifecycle` says |
| `SessionTab` | `SessionWorker` composed with the tab that shows it and the scripts that run on it |
| `PcCommand` | commands a host asks the PC to run, with their nested dialogs |
| `ScriptEditor` | the script editor window, its file watch, and the script library's menu |
| `HostServer` | the sign-on and port clients of the host servers |
| `Workstation` | the emulated display station: `TN5250CommandHandler` and the keyboard side of `Q5250ScreenWidget` |
| `McpInput` | `Workstation` with the keyboard tools of an MCP client |
| `ScreenBuffer` | the display buffer with its format table, and the display orders as functions on it |
| `FieldEditing` | the editing keys, the orders of a host record that touch fields, the answer to an AID key, Save and Restore Screen |
| `ScreenView` | what the screen widget derives from the screen: history, overlay of the rules, hotspots, selection |
| `Keyboard` | the mapping of keys, the dialog that changes it, recording and replay |
| `McpServer` | `mcp::McpServer` with its tool calls and the nested event loops they run |
| `McpTools` | the tools that read a screen, move its cursor, write files, sign on |
| `AgentPanel` | a conversation with a model: panel, providers, script subagent, script runner |
| `AgentSignOn` | OAuth: the flow, the tokens, everyone who renews them |
| `WindowTabs` | the list of tabs, device names, menu check marks, dialogs over nested loops |
| `SavedSessions` | profiles in files, in the Connect dialog and in tabs |
| `ThemeEditor` | themes, their files and the page that edits them |
| `GraphicsDecoder` | the 5292 graphics orders |
| `Raster` | their lines, styles and fillings as dots |
| `PcapReplay` | from a capture to the host's records |
| `TelnetClientProofs` | theorems about `TelnetClient`, `TelnetNegotiation`, `TelnetParser`, for what the stream drew `ScreenView`, and `HostServer` |
| `SessionWorkerProofs` | theorems about `SessionWorker` |
| `SessionTabProofs` | theorems about `SessionTab`, on top of those about the worker, `PcCommand`, `ScriptEditor` and `SavedSessions` |
| `McpInputProofs` | theorems about `Workstation` and `McpInput` |
| `FieldEditingProofs` | theorems about `ScreenBuffer`, `FieldEditing` and `Keyboard` |
| `McpServerProofs` | theorems about `McpServer` |
| `AgentProofs` | theorems about `AgentPanel`, `AgentSignOn` and `McpTools` |
| `WindowTabsProofs` | theorems about `WindowTabs` and `ThemeEditor` |
| `MC...` | instances for TLC |

Two refinements carry the composition. `TelnetClient` implements
`ClientLifecycle` (`KeepsLifecycle`), and `SessionWorker` is built on exactly
that abstract client: its `HandleClient` takes the outcomes of
`ClientLifecycle`. `SessionWorker` implements `SessionPromise`
(`KeepsPromise`), with `Phase` as refinement mapping.

### TelnetClient, ClientLifecycle

State: `m_state`, the socket behind `m_socket` (`link`), the connect timer (the
attempt it was armed for), the keep-alive timer, the handshake flags, the two
option sets `m_optionsHim` and `m_optionsUs`, the three buffers
(`m_recordBuffer`, `m_handshakeBuffer`, the local `processed` of
`processTelnetData`). Histories number the application bytes and remember what
was delivered and what the answers to NEW-ENVIRON named.

One action per slot and per branch of `handleTelnetCommand` and
`handleSubnegotiation`. `processTelnetData` is a loop, so each turn of it is an
action and `reading` keeps the thread's other handlers out until `EndOfChunk`.
The host is unconstrained. The signals a step emits are in `signals`, in order:
that is what `ClientLifecycle` speaks about, and `KeepsLifecycle` says that
every step of the client is one of its outcomes. Not in the model: what
NEW-ENVIRON carries, TLS (a socket that takes one more step to be up),
in-band START-TLS.

### TelnetNegotiation

`TelnetClient` unchanged, two ordered channels, and a host that follows RFC 854
with a status per option and side. Open are the options it is willing to use,
whether it acknowledges what is on already, what it asks for itself and what it
switches off again. The host is external to the repository.

### TelnetParser

`processTelnetData` byte by byte over `m_receiveBuffer`, and the escaping of
`sendRawData`. Bytes are classes: IAC, the commands with and without an option,
and plain bytes. `Feed` is one read: `Loop` makes a turn for each byte received,
and `Turn` does nothing once what is left is the beginning of a command. The
action `ReadChunk` cuts a stream into reads anywhere. Whether records are framed
is settled before the bytes looked at here; `TelnetClient` has the switch.

### SessionWorker, SessionPromise

State: `m_client` (the state of an abstract client, or `"none"`),
`m_reconnectTimer`, `m_reconnectAttempt`, `m_everConnected`, `m_stopping`, the
replay timer and index, the worker's event queue (`inbox`), the thread. A client
event is an outcome of `ClientLifecycle`: its signals are handled in place in
their order, up to one that makes the worker drop the client
(`scheduleReconnect`, which disconnects the client's signals first), and
`dataReceived` is posted behind what the window has posted. `FinishThread` is
the end of the event loop followed by the destructor, with or without the posted
`stop` handled before. `sendInput`, `sendAttention` and `sendSystemRequest`
change nothing in the worker and are no actions.

`SessionPromise` is what the window may rely on: idle, live, waiting, lost, over;
retried only after it was established once and at most as often as the profile
says. `Phase` maps a worker to it.

### SessionTab

The worker composed with one tab: the queue of posted signals, and the handlers
of `MainWindow::connectToServer` (`stateChanged`, `reconnectScheduled`,
`errorOccurred`, `appData`, `replayFinished`), switching tabs, Disconnect,
closing, and `scheduleStartupScript` / `runStartupScript` with their
first-screen waits, delays and the start queued behind a running script. Of the
screen it keeps whether it asks for input (`input`).

### Workstation

State: `widget` (keyboard state, insert mode, cursor, input field, rows of
`blank`, `host` or `error` text, the saved error line), `handler` (what waits
for the end of a record: CC2, and whether an error code came after it), `record`
(the record being delivered) and `mode` (history view, read-only). Orders of a
record are actions between `Begin` and `EndRecord`, as the decoder calls the
handler; the operator acts between records, through every door: typed and
injected keys, the virtual keyboard, a paste, a menu option, a click. The
decoder is a submodule that is not in the tree: how it groups orders is taken
from the handler's signals and the tests.

### ScreenBuffer, FieldEditing

`ScreenBuffer` has no state of its own: it is the type of a screen (characters,
the attribute that protects a cell, the fields by start address and in list
order, the cursor) and the functions of `screen_buffer.cpp` and
`tn5250_stream_renderer.cpp` on it. A cell is its linear address, as in every
loop of the code that follows a field over rows. Characters are EBCDIC classes.

`FieldEditing` has one action per editing key and one per order. A host record
is a sequence of orders, carried out one by one with the operator kept out until
`EndRecord`, where the deferred unlock places the cursor. `Edit` is what all
editing keys share, with the auto-enter some end in. `SaveScreen` keeps the
screen and `RestoreScreen` replays the orders `buildSaveScreenResponse` would
have sent, through the same actions as every other record. The history `typed`
holds the cells the operator changed since the host defined their field or reset
its mark. Left out: colours, non-display fields, fields and text beyond the end
of the screen, Move Cursor, Write Extended Attribute, Transparent Data,
structured fields, the partial save. `Workstation` has the keyboard states and
error lines; here the keyboard is locked or not.

### ScreenView

State: the screen as a whole (`live`), the history with the index being viewed,
its timer and the label the window keeps of it, the rules and their overlay, the
hotspots, the selection, the clipboard. A record, a key that types and a change of
the size all are `Draw`: what matters here is that each announces a change, and
what is derived then. What a record announced last is not always what it drew: a
Start Field hides or shows the cells of its field by assignment, and may end the
record (`LastAnnounced`); Error Reset announces nothing at all. `stale` is the set
of screens the derived may still be of. Cells may be hidden. Rules and labels are single characters
where the code has regular expressions.

### McpServer

State: per socket its phase, the requests that arrived and how many the parser
was reset after, whether a `readyRead` is posted, `_mcp_busy` and the idle
timer; the registry, `m_busySessions`; and `stack`, the handlers on the call
stack. A tool that runs a script or asks for a password runs a nested event
loop: its frame waits, every event may be delivered above it, and only the top
frame's loop can return. Handlers between two loops are the actions `NoMore`,
`Malformed`, `TakeRequest`, `CarryOut`, `CallReturns`. A request is what the
server makes of it: malformed, refused, answered without a call, one call, a
batch. Qt deletes a closed socket in the loop that closed it or further out; the
model lets any loop delete it, which allows more.

### PcCommand, ScriptEditor

`PcCommand`: a STRPCCMD arrives inside a record, is refused, run or asked about
by the session's policy, and answered with one ENTER. `nested` is the stack of
dialogs: each runs an event loop that delivers further records, of any session,
and only the innermost returns. A command's allowance is the
one of its own question or policy.

`ScriptEditor`: files with a text, tabs with theirs, the set of watched paths, the
notifications under way, the stack of questions. Saving and other programs
replace a file, which drops the watch; `WatchedAgain`, `SavedWatch` put it back.
While a question is open the user does nothing else in the window and the file
system goes on. The history `said` is what the last step did to a tab, `excused`
the paths for which the code gives the watch up (section 3).

### McpInput, McpTools

`McpInput` adds the keyboard tools to `Workstation`: which calls are refused by
the lock rule's copy, and what the injected chords then do. `McpTools` has the
rest that touches a screen: each read with its bounds checks on any integer, moves
counted from 0 and from 1, `write_file` with its failures, and `login`: the
prompt's nested loop, the saved credentials, the script that types into the
fields of whatever screen is there. Statements between two waits of that script
are one step, for the script library is not in the tree.

### HostServer

Two machines. `SignonClient`: `signonState`, its socket with what is on the way
both ways, the call it works for; calls may come over calls. `ServiceMapper`: its
socket with the call whose name went over it, the first piece of an answer in
`m_recvBuffer`, the name wanted last, and `loops`, the event loops of the
`resolveSync` calls that lie on one another: each has its time limit, any call may
come while they wait, an answer or an error ends them all, and only the
innermost returns. Calls carry numbers: what a server knows of a connection is the
number it was made for, and what a caller hears is compared with its own.

### AgentPanel, AgentSignOn

`AgentPanel`: `provider` is brand, history, the assistant message held back
until its tool has answered, and the request in flight; `pendingCall`, `bar`,
`running` and `generation` are the four places a tool call may be remembered in:
the one that waits, the buttons, the runner, the subagent. They are cleared apart
in the code, and the properties are about what happens when one is stale. One
action per handler of a tool, per button, per answer of the service.

`AgentSignOn`: the flow's callback server and its connections, the exchange, the
stored tokens, and one `OAuthAuth` per dialog and tab with its renewal timer.
`boxes` is the stack of message boxes: an outcome, a refused renewal, "Signed
out." and a start that failed each open one inside the signal or the click, and
until it is closed connections are read, replies come and timers fire, the dialog
cannot be used, and what was handed to `deleteLater()` lives: the flow, and the
`OAuthAuth` that Sign In or Sign Out has let go of (`"leaving"`). Stored tokens and
tabs are there for the renewals; no property is about what is stored.

### WindowTabs, SavedSessions, ThemeEditor

`WindowTabs` keeps the two lists the code keeps, `m_sessions` and Qt's pages, and
the signals that link them: closing removes from one and lets Qt move the other's
current page. Dialogs are a stack with the index or the tab they remember.

`SavedSessions`: files under their new and old names, the manager's map, the
form of the Connect dialog, and per tab the copy, the profile's snapshot it
was taken from. Every change by the user has a number, so a lost or carried-over
change is one that is missing or present. `onDuplicateProfile` and its like are
what the window's functions do to profiles; `WindowTabs` has the functions
themselves, under their own names.

`ThemeEditor`: registry, files, the page's theme, its unsaved edits, what each
tab wears; ids are made of words as `uniqueId` makes them.

### GraphicsDecoder, Raster, PcapReplay

Functions of their input with small states around them, checked against what
they are meant to compute. `GraphicsDecoder!process` takes a block order by
order; `result` is what is answered. `Raster` has the line, style and fill
loops as recursive functions over integers. `PcapReplay` chooses the flow and the
host's side, reassembles it modulo `SeqModulus` and hands the bytes to the parser
of `TelnetParser`.

### Keyboard

The mapping in use, the saved one, the dialog's working copy and its rows (which
the code updates apart), the virtual keyboard's latches and labels, the
recorder, and the script made from it. `Effect` is what `keyPressEvent` and
`KeyboardEncoder` make of a chord.

### Several parts in one run

Modules that share no state are checked in one run where that costs nothing: the
MC module has a variable `part` that is chosen at the start, one part moves, the
others stay as they start. `EXTENDS` brings in the parts whose properties have
theorems, so that run and theorem speak of the same definition; `INSTANCE` brings
in the others.
`MCNegotiation` also chooses between the client alone and the client with a host.

### Written to be proved about

Loops of the code are recursive functions (`Typing`, `Post`, `TypeText`,
`FindInRow`, `Loop`) or folds of the community modules, and no module declares a
`RECURSIVE` operator: the prover has none. A guard with many cases is a
disjunction, not a `CASE` between truth values.

## 3. Runs

| Run | Question | Bounds | Result |
|---|---|---|---|
| `negotiation` | The client: data in order, whole records, timers that belong to their attempt, the device name once, attempts that resolve, the lifecycle. With an RFC 854 host negotiation settles and both ends agree at rest; calls to host servers end, with their own answer unless another comes over them | client alone: 5 options, one of each treatment, 2 attempts, 2 bytes per attempt; with the host: the same options, 3 of them acceptable to it, 2 own requests, 1 withdrawal, a host that may acknowledge repeats, 1 attempt; 3 calls of each kind | holds |
| `ack_loop` | The same without the exception for a withdrawal | no own requests, 1 withdrawal | violated |
| `session_tab` | What the tab shows catches up, Disconnect acts and shows, scripts are wired once; PC commands run as allowed; the editor watches and loses nothing unasked | 3 profiles, 2 scripts, 2 clients, 1 record, 1 stop; 2 sessions, 5 handlers, 3 commands; 2 paths, 2 texts, 2 tabs opened, 1 typed, 2 outside changes | holds |
| `workstation` | One AID per release, a record's end decides the lock, the error line comes back, tools and widget agree on the lock | screens of 1 and 2 rows, a field of 1 position, 2 orders per record, 3 modes | holds |
| `editing` | Fields stay apart, strokes stay in their field and reach the host, a restored screen keeps its text; keys do what the dialog shows, also after a restart; recordings replay | 2 rows of 5 cells, 4 formats, 2 characters, 2 edits, 2 host records; 5 chords, 4 actions, 1 shadowed chord, 2 importable files, 2 row changes or recorded keys | holds |
| `mcp_server` | Each call once, in order, only for an open connection, one per session; guards and timers match; every request answered | 2 connections, 1 session, 3 requests, 1 stop | holds |
| `agent` | No action without consent, a whole conversation, turns that end; one exchange per sign-on; true reads, sign-on as named | 2 messages, 2 calls, 1 clear, 1 settings save; 2 tabs, 3 grants, 2 connections at a time, 3 presses; a 2×4 screen, six host screens, integers up to 5, user names of 1 or 2 letters, 1 outer login | holds |
| `password_shown` | The password `login` types stays hidden | as `agent` | violated |
| `window` | The window's state is that of its tab and names differ; profiles lose nothing; built-in themes stay; the worker: stopping, reconnecting, replay, the promise | 1 host, names A and A1, 2 suffixes, 3 opens, 1 dialog, 1 toggle; 2 profiles with one old path, 2 tabs, 2 changes, 3 writes; 1 built-in theme, 1 typed word equal to its name, 2 colours, 2 file writes; 5 session profiles, 5 clients, 3 records, 2 stops | holds |
| `display` | The past screen shown stays, what is derived from the screen is of the screen; cuts of a stream are irrelevant and what is sent is read back; every block answered; dots as meant; replay as sent | screens of 2×2 and 2×3, a history of 2, three rules at once; streams of up to 4 bytes of 8 classes, records up to 2 and 4; blocks of 2 of 21 items, 4 pending bytes, 3 fill edges; a 5×5 plane, triangles and quadrangles on 3×3 dots; captures of up to 4 frames, 14 bytes cut at 0, 3, 8, 14, sequence numbers 26 modulo 32 | holds |
| `past_screen_painted` | A past screen is painted as it was | as `display` | violated |
| `hidden_text_matched` | The overlay never has a match in hidden cells | as `display` | violated |

Why the bounds are enough. An attempt, a client or an epoch leaves nothing in
the code but a counter and the timers, so the second of each shows what is left
over from the first; the worker has five clients because a limit of two
retries, counted anew after an established connection, needs four. Two bytes
are what a record that could be split takes. A command is cut only between its
three bytes, a doubled IAC between its two, so streams of four bytes hold every
cut with a byte before or after it. Error rows move between formats of one and
two rows, and two orders are what it takes for one to undo the other. Two rows of
five cells hold a field within a row, one over the row end, and one that overlaps
both; two edits are one and the one that finds its traces, with any number of
cursor moves, AID keys and insert toggles between; two records are a screen and
what the host makes of it while it is in use. A simulation with five records and
eight edits found nothing else. Three requests are one whose call runs a nested
loop, one that arrives during it on the same connection, and one on the other.
Two messages and two calls let an answer of an earlier turn meet a later one, and
one Clear or one replaced provider falls at any point of it. Three tabs are the
one shown, one before and one behind it; two suffixes run out with the third.
Two tabs of a profile, two changes and three writes hold every stale copy that
can be written back. Commands of two sessions nest in each other three deep. Two
snapshots are one to look at and one that pushes it out; the rules replace a
character by two, a hidden one and one by nothing, so a row grows, would tell a
password, and shrinks. A label that is displayed on one screen and hidden by a field
on the next is what a silent Start Field takes. Two connections to the callback
server are one whose callback is taken and one that is read after it, at any
point; three presses are Sign In, Sign Out over it and Sign In again, or a Sign In
that cannot start over tokens in use. Four frames hold a segment twice, out of order, overlapping, and missing, and a wrap
of the sequence number falls among them. `CHECK_DEADLOCK` is off where the
bounds, or a session that is over, end every behaviour.

### Fairness

`TelnetClient`: an active timer fires, Qt follows an error of a connected socket
with `disconnected()`, a handler returns; with a host to negotiate with, the
connection comes up. `SessionTab`: the worker's thread and
the window's run their loops, timers fire. What the runs ask of `SessionWorker`
alone is safety. `TelnetNegotiation`: both ends read
what arrives. `HostServer`: a server answers or closes, the time limit of each
loop of `resolveSync` fires, and a loop that was ended returns when it is the
innermost. `McpServer`: handlers run on, posted signals are delivered, and a nested
loop ends: every script has a time limit (`scriptTimeoutMs`) and the password
prompt one of three minutes. `AgentPanel`: the service answers or the request
fails, scripts and generations end, and the user decides about a call that asks.
Weak fairness is enough everywhere: none of these steps is disabled for good by
anything but being taken or being cancelled. Nothing is assumed of the network,
the host of `TelnetClient`, the user elsewhere, or a client of the MCP server.

### Where code and documents disagree

Four runs end in a counterexample; `PROJECT.json` quotes the line each refers to.

- `ack_loop`: an acknowledgement that crosses the host's withdrawal of the
  option is taken for a request, and the option is switched on and off without
  end, although the code says that repeats cannot loop.
- `password_shown`: the script of `login` moves to the next field after typing
  the user name, but a name as long as its field has moved the cursor there
  already: the password goes into the field behind the password's, where it
  shows, and the reading tools return it.
- `past_screen_painted`: with match and replace on, the overlay made of the live
  screen is painted over the past screen the user looks at, and changes with each
  record of the host.
- `hidden_text_matched`: a record whose last order is a Start Field over displayed
  text hides the text and announces nothing, so rules and hotspots keep what they
  found in it, although the code says that they take hidden cells for blanks.

Seen while modelling. The models have this behaviour, and no property asks for
another.

*Telnet.* A host that withdraws EOR leaves `m_eorNegotiated` set, and bytes go on
waiting for an end of record. A host that accepts the connection and never
finishes negotiating is waited for without limit (`client_connection.cpp:143`).

*Host servers.* A second `resolve` of the same mapper during the loop of `resolveSync`
ends that loop with the second service's port (`service_mapper.cpp:66` looks at no
name), where the header promises 0 on failure (`service_mapper.h:46`);
`CallsAnswered` excepts a call another came over. It "blocks up to timeoutMs", but
an outer one blocks until those that came over it return.

*Session.* Session > Disconnect, said to cancel a pending reconnect
(`main_window.cpp:707`), is disabled by showing another tab and coming back. In a
session that reconnects, a connection the host closes ends in Error, and the
screen that was to be cleared (`main_window.cpp:660`) stays. A first-screen wait
looks at once at a screen that may be an earlier connection's, and survives its
connection: the next one adds a second, and the script said to run "once on first
connect" (`main_window.cpp:646`) runs twice. The window waits two seconds for a
worker's thread and deletes it, running or not (`onCloseTabRequested.cpp:84`).
`onRunScript`'s end disables Stop whatever tab is shown, and its log goes to the
tab shown; the startup script guards both. Stop does not cancel a first-screen
wait. The ENTER of a PC command whose dialog stayed open over a reconnect goes to
the new connection.

*Keyboard.* Invite and the end of a connection unlock the keyboard and leave the
cursor hidden. Attn, by default Ctrl+Escape, is taken for Error Reset under an
error (`events.cpp:145` looks at no modifier; the comment at 197 says "Attn and
Help remain"). The Reset key under an error passes the gate of typed keys and not
the one of injected keys. An Insert Cursor among a record's display data moves
the cursor from where the error data of the same record put it. A second error
code saves the line over the one saved first, and a screen written in between is
overwritten by the reset. A script's or tool's key press goes through the user's
mapping, where `aid_key_map.h:28` names the default table; with a changed mapping a
recording is not the "faithful, linear replay" of `docs/5250script.md:544`. Escape's
error reset, pastes and the virtual keyboard's local keys are not recorded. The
virtual keyboard shown before the first tab opens stays unbound.

*View.* Error Reset puts the covered row back cell by cell and announces no change
(`events.cpp:155`, `:331`), and a Start Field at a record's end hides or shows its
field without one (`tn5250_stream_renderer.cpp:169`): until the next one the overlay
(`match_replace_engine.h:53`: "Call after each screen update") and the hotspots are
those of the message, or of the cells before. A selection keeps its cells when the screen changes its size
or another is shown.

*Fields.* Field Exit checks a mandatory-fill field first and then empties it from
the cursor on, so the field is always left unfilled (`events.cpp:1205-1228`); a
field that requires Field Exit loses its last typed character to it. The comment
of `handleEraseInput` says it resets the modified marks (`events.cpp:1117`), and
it does not. Text the host writes over a protected field without a Start Field
makes it typable. Tab and AID keys shift host text in a protected field that
right-adjusts. `setFieldFFW` drops the modified bit of the field format word. A
restored screen has lost its modified marks, nulls, Dup characters and what stood
under displaced attribute bytes; its text is replayed behind all its fields and
takes the protection of the last of them (`tn5250_command_handler.cpp:633` says
"reproduces the current screen").

*MCP.* The 405 answer to an event-stream GET does not close a connection the
client asked to close. A `readyRead` of a socket that closes after its last
answer leads to `abort()`, which drops what is unsent of it (`McpServer.cpp:305`).
Requests that wait behind a call count as the body of the first
(`McpHttpParser.cpp:162`). `login`'s outer call types again on whatever screen
follows the inner one.

*Agent.* A provider replaced during a turn locks the panel until Clear. A renewal
that answers after Sign Out stores tokens again (`auth_method.h:44`), the dialog's
while "Signed out." is open, a tab's at any time; so does a flow that ends under
that box. Sign Out during a flow leaves Sign In disabled until the dialog is opened
again. The browser flow has no time limit.

*Window and profiles.* A tab's context menu and the rename dialog keep an index
over a nested loop and reach another tab if one before it is closed meanwhile
(`main_window.cpp:1465-1500`). Save As and the question of Save use the session
after a dialog without looking whether it is still there (`onSaveSession.cpp:64`,
97). Save As under the profile's own name overwrites without asking
(`connect_dialog.cpp:754`). Editing the script of a profile drops typed values of
its variables, attaching it anew keeps them. A delete may half fail
(`manager.cpp:185`).

*Themes.* Typing in the filter, importing and selecting discard unsaved edits.
`onSaveTheme` ignores whether the file was written
(`session_settings_dialog.cpp:1029`). Deleting a theme while the search shows none
leaves its look under the default's id. A user file with a built-in's id replaces
it at the next start.

*Scripts.* A script deleted and written anew in two steps loses its watch. Two
tabs on one path share its watch, and closing one drops it. Save overwrites an
outside change the watcher has not told yet. Run runs the file of a stale tab, not
what it shows. Nested questions are answered innermost first, so the outer answer
may bring the older text.

*Captures and graphics.* A capture whose host does not double IAC is read by other
rules than the live client's (`pcap_replay.cpp:526` against
`client_telnet.cpp:81`). A SYN with data loses its first byte; two connections
with the same ports are one flow. A hatch at 45 degrees with a negative phase is
painted solid. The decoder's last error stays in Read Status until a reset.

## 4. What is proved

TLAPS checks eight modules of proofs, each for every value of the constants of the
modules it is about. The invariants they rest on were checked by TLC on the runs
of section 3 before they were proved.

| Module | Theorem | Statement |
|---|---|---|
| `TelnetClientProofs` | `Inductive` | state, socket, timers, flags and buffers agree |
| | `StreamDelivered` | `StreamIntact`: data whole, in order, and a record only at its end |
| | `NameOfferedOnce` | `DeviceNameOfferedOnce` |
| | `AttemptsAreTimed` | the safety half of `AttemptsResolve` |
| | `LifecycleKept` | the client implements `ClientLifecycle` |
| | `EndsAgree` | the safety half of `OptionsConverge`: nothing on its way, then both ends agree on every option |
| | `HostStreamIsRead` | `StreamIsRead`: cuts are irrelevant, what is sent is read back |
| | `DerivedStaysCurrent` | `DerivedIsCurrent` |
| | `ViewedStaysKept` | `ViewedIsKept` |
| | `AnswersStayOwn` | the safety half of `CallsAnswered`: a sign-on succeeds on its own server's word; a port goes out under its own name, and a `resolveSync` no other call came over returns its own or 0 |
| `SessionWorkerProofs` | `TypeCorrect` | the variables keep their types |
| | `StoppedStaysQuiet` | `StoppedIsQuiet` |
| | `ReconnectStandsAlone` | `ClientOrTimer` |
| | `LimitHolds` | the retry limit, for every limit |
| | `FinishedHasStopped` | a finished thread was stopped and has an empty queue |
| | `PromiseKept` | the worker implements `SessionPromise` |
| `SessionTabProofs` | `ReportIsTrue` | the last state told agrees with the client |
| | `TabInductive` | what is in flight ends where the session is |
| | `ViewIsTrue` | `ViewCatchesUp` |
| | `KeysReachOnce` | `WiredOnce` |
| | `CommandsAsAllowed` | `EachAsAllowed` |
| | `ScriptsStayWatched` | `StaysWatched` |
| | `TextsAreKept` | `NothingLostUnasked` |
| | `ProfilesStayKept` | `ProfilesKept` |
| `McpInputProofs` | `InputInductive` | keyboard, cursor, error line and pending controls agree |
| | `ScreenSentOnce` | `OneAidPerRelease` |
| | `RecordsDecide` | `RecordDecidesKeyboard` |
| | `ErrorsAreUndone` | `ResetUndoesError` |
| | `ToolsKnowTheLock` | `LockRulesAgree` |
| `FieldEditingProofs` | `SetFieldDisjoint` | a new field leaves all fields listed and apart |
| | `FieldsNeverShare` | `FieldsDisjoint` |
| | `RestoreIsTrue` | `RestoreKeepsText` |
| | `TypedIsSent` | `TypedReachesHost` |
| | `KeysStayAsShown` | `KeysDoAsShown` |
| `McpServerProofs` | `ServerInductive` | one handler per socket, all but the innermost wait |
| | `GuardsAreTrue` | `GuardsMatchCalls` |
| | `CallsRunOnce` | `RunsOnceInOrder` |
| `AgentProofs` | `PanelInductive` | one thing under way, all of the conversation shown |
| | `OnlyConsentedActs` | `ActsOnlyWithConsent` |
| | `WholeConversation` | `ConversationIsWhole` |
| | `OneIsUnderWay` | the safety half of `TurnEnds`: what locked the input is still there to unlock it |
| | `OneCodeExchanged` | `OneExchangeAtATime` |
| | `LoginSignsOnAsNamed` | `SignsOnAsNamed` |
| | `ReadingIsTrue` | `ReadsAreTrue` |
| `WindowTabsProofs` | `TabsNeverMixed` | `TabsStayApart` |
| | `ThemesStayKept` | `ThemesKept` |

With `LifecycleKept` and `PromiseKept` both refinements hold for all bounds: the
abstract client the worker is built on is what `TelnetClient` does, and the
promise is what the window gets.

### Assumptions

All are the named ones of the component modules, which TLC evaluates in every
run. They say what kind of thing a constant is. `SessionWorker`: a profile is a
record of the right type and the bounds are naturals. `TelnetClient`: `KeepAlive`
is a truth value; the options a host may mention are any. `TelnetNegotiation`: the
host does not offer START_TLS, which the client would answer with TLS itself
(`handleStartTLS`, not modelled). `Workstation`: the two
sizes and the field have at least one row and one position, a mode is a set of the two
restrictions, a clipboard is a sequence of characters and line breaks.
`ScreenBuffer`: at least one row and column; `FieldEditing`: a record is a
sequence of orders, a key types something that is not null. `McpServer`: a single
request has one call, a batch at least one, the others none. `PcCommand`: a handler
is a policy and whether somebody is there. `ScriptEditor`: the template is a text, and the marks
for a missing file and an untitled tab are neither text nor path. `WindowTabs`: names
are sequences, the longest stem and the number of suffixes are naturals. `McpTools`:
a screen has a row and a column at least, its fields lie in it, names are letters,
a text searched is not empty (`find_text` refuses one that is). `ThemeEditor`: the
default is a built-in, a built-in has an id. `ScreenView`: the history has
room for one screen; `*` stands for the hidden characters, so it is none of an
error message. `Keyboard`: a mapping read from a file or the settings maps chords
to actions. `TelnetParser`: plain bytes are not command bytes, a record is not
empty, as it opens with its length. `SavedSessions`: a profile is not saved
under the name that marks a session without one, which `isSavedSessionName`
refuses (`connect_dialog.cpp`), and an old profile has one file. `AgentPanel` and
`AgentSignOn` need none.

### The arguments

*TelnetClient.* `IInv` ties the state the owner sees to the socket behind it and
to the timers (`LinkMatchesState`), the device name to the first answer
(`NameFollowsAnswer`), and says that bytes wait in one place at a time
(`BuffersApart`): without that, a flush could put a chunk before what arrived
earlier. `StreamKept` moves the numbered bytes from buffer to buffer.
`LifecycleStep` has a case per handler and names the outcome each one is.

*TelnetNegotiation.* What the two ends think of an option may differ while
commands cross. `SideOK` says of one option on one side how it will end: from the
host's status and the commands on their way to the client follows whether the
client will have it (`WillHave`), and where the client has it and the host does
not know, the last word on its way to the host says so (`LastWord`). Both sides are
instances of it with DO and WILL exchanged, so each step is followed once
(`ClientKeepsSide`, `HostKeepsSide`, `ActingKeepsSide`); with nothing on its way,
`SideOK` is agreement (`AgreedThen`). That repeats are not answered is needed in it,
that they end in quiet is liveness and stays with TLC.

*HostServer.* `SignonOK`: one reply at most is on its way, it answers what
the client waits for, and a good one to a sign-on is the word of this connection's
server. `MapperOK`: the one socket was made for the last call and has carried its
name or none; a piece held back is of that call; a port held in a loop is that of a
call not before the loop's own, since an answer to an earlier one went down with its
socket. So a loop returns another's port only if a later call was made.

*TelnetParser.* A turn of the loop that is made is made alike when more bytes are
there (`TurnMore`), and each takes a byte, so a loop over two parts of a read is the
loop over the whole (`LoopInParts`, by `TurnInduction` on what is left).
`ChunkInv` compares the parser with one that got everything at once: framed, they
are equal; unframed, where a read hands on what it has, the same bytes have been
handed on or wait (`Alike`, which a turn preserves: `TurnAlike`). That a
record comes back is followed byte by byte (`EscapedRead`); so is a record of
a host that does not double IAC (`UnescapedRead`): once a record has begun, only
EOR behind an IAC is a command, and in a record that can be recognised no IAC
comes first and none is followed by another or by EOR.

*ScreenView.* `ViewInv`: all screens kept are as they were drawn, index and label
name one of the history (`HistoryOK`), and the newest snapshot, the overlay and
the hotspots are those of the live screen, or of one in `stale` (`DerivedOK`). The lemmas about the derived (`AsDisplayed`, `rebuildOverlay`,
`detect`) show that none depends on a hidden cell. `ViewedIsKept` is an action
property on top of it: only `PushKeeps` moves the history under the index.

*SessionWorker.* Its invariants are not inductive by themselves. `IInv` adds that
nothing runs before `start` (`NewIsIdle`), that a replay session never has a client
nor one with a client a replay (`ReplayHasNoClient`), that a client that reported its
end and is kept is one that will not be retried (`KeptIsFinal`), and that only a
thread told to quit finishes (`FinishedHasQuit`). Without `KeptIsFinal` the
refinement fails: a session that is lost could become waiting without a step of
the promise in between. `OutcomeShape` shows that each outcome of
`ClientLifecycle` is a state with signals of which all but the last are handled
in place, `OutcomeTurns` that the signals the worker handles end the connection
exactly when the outcome's state is an end: so a client is let go only when it is
over, and kept only when it is not retried. `HandleClientSafe` and
`HandleClientPhase` carry this over one outcome; `SafeStep` and `PromiseStep` have
a case per action.

*SessionTab.* Every step of the worker tells the truth (`WorkerTells`): the last
state among its signals is the one its client went to. `TabInv` then says of the
queue that taking everything in it leads from what the view shows to what the
worker told last (`ViewFollows`), that a reconnect announced while no timer runs
has something behind it that takes the announcement off again (`AnnouncedComes`),
and that a closed tab hears nothing (`ClosedIsDeaf`). `Post` queues a list of
signals one by one; `PostInduction` takes an invariant along it.

*PcCommand.* `CommandInv`: an open dialog is of a command received whose session
asks and has somebody there (`DialogsAsk`), no two are of one command
(`DialogsApart`), and each command received is answered once or has its dialog
(`AnsweredOnce`). The innermost dialog closes first, so the others keep their
commands' numbers.

*ScriptEditor.* `StaysWatched` is not inductive: a file that another program
deletes and makes again must still be on the watcher, and closing one of two
tabs of a file takes it off for both. `EditorInv` says that the watcher knows
every open file that is not excused, there or not (`KnowsOpen`), and that two
tabs have one file only by Save As (`OneTabEach`). A step then adds a tab, removes
one, writes one, or leaves all their paths (`AddsTab`, `RemovesTab`, `WritesTab`,
`SamePaths`); each action is one of these, and `EditorKept` says of each what
`NothingLostUnasked` asks.

*SavedSessions.* The property says that nothing is lost; what makes it so is that
whoever writes without asking knows all the changes of what is replaced. `SavedOK`
says this of the form (`FormKnows`) and of each tab with its snapshot
(`GoodView`); a write touches one name, and every other name still loads what it
did (`FilesTouched`).

*Workstation and McpInput.* `InputInv` is about the widget between any two steps
(`WidgetOK`) and about what waits for the end of a record (`RecordOK`). Each
operator of the widget takes good widgets to good ones; typed text goes through
`Typing` character by character, stage after stage (`TypingKeeps`). At the end
of a record, `RecordOK` is what makes its last word about the keyboard hold.

*ScreenBuffer and FieldEditing.* `ScreenOK`: the list names every field once, and
no cell belongs to two. A key or an order changes the format table only through
`SetField`, which drops what the new field overlaps, so `EditInv` is about the
screen, the saved one, and a record that is a list of orders. `RestoreInv` adds
how far a restore has come: after k orders of the saved screen the first j
fields are back, and the image behind them brings the text (`FieldStage`,
`LastStage`). `TypedInv` says that each cell typed lies in a field that is marked,
which is what an AID key sends, and that an answer stands only while the keyboard
is locked and no record is carried out: nothing changes behind it. A stroke
changes one field (`OneField`), which is shown of each key.

*Keyboard.* `BoundOK`: the settings hold the mapping, and the dialog's rows are
those of its copy, though the code changes both apart (`RemappingKeeps`).
`RecorderOK`: what was recorded under the default mapping, made into a script and
run, does what was done. A recording grows at its end, and so do the script and
its effects (`ScriptGrows`, `ReplayGrows`, over the stages of `FlattenSeq`); what is
left is one chord (`ChordReplays`).

*McpServer.* `ServerInv`: a socket has one handler (`Alone`), all but the latest
wait in a nested loop (`OthersWait`), a handler in a call holds its request
(`CallsHeld`), and what was carried out is behind the call in hand (`RanBehind`).
Order and once-only then follow for any depth: a handler pops only at the top of
the stack, and nothing that happens above it touches its request (`HeldStays`).

*Agent.* Every handler ends in one of four ways: the call is answered, its script
runs, the user is asked, or a file is generated (`HandlerWays`). `Standing` is a
turn that has come to a call, and `AnswerKeeps`, `RunKeeps` and `WaitKeeps` lead
from there back to `PanelInv`, whose parts say that one thing at most is under
way and belongs to the conversation shown. The assistant message held back is the
one whose result is awaited (`HeldForResult`), so each call's result is written
right after it; a provider replaced during a turn is excepted, as in the run.
`FlowOK` counts what a flow has sent and reported against its two guards
(`Counted`), also while the box with its outcome is open, and says that the dialog
has no tokens to renew until then (`NothingElse`): a refused renewal is what could
let Sign In be pressed over it. `Unlocking` is what `PanelInv` lacks for
`OneIsUnderWay`: a locked input has a request, a question with buttons that work,
a script or a generation; each handler leaves one.

*McpTools.* `LoginOK` follows the names of a `login` through its prompt and phases:
whatever the user answers, the password is that of the user it signs on as. For
`find_text`, `FindInRow` is followed from the right end of a row: from each place
on it has places apart, each true, and leaves out only what overlaps one
(`FoundStep`); rows cannot overlap (`RowsApart`). That nothing hidden is read is shown by
comparing two screens that differ in hidden cells only (`ReadAlike`).

*WindowTabs.* Closing, moving and opening change the code's list and Qt's pages
in step (`Removed`, `Inserted`, `MovedOnce`); a name made for a new tab is not
in use while suffixes are left (`NameIsNew`), since those tried before it are.

*ThemeEditor.* `ThemesOK`: registry and files have ids made by writes so far
(`Ids`), no file has a built-in's, and every built-in is in the registry as
shipped. An id made by `UniqueId` is therefore in use nowhere (`NewId`), and what is
saved under it replaces nothing.

### Induction over data

The library's induction theorems take an operator, which the provers cannot
instantiate. Where a proof follows a list to its end, it is about the set of
numbers for which the claim holds, and `SetInduction` (from `WFMin`: a nonempty
set of naturals has a least one) shows that it is all of them; a
function defined by recursion, or a fold such as `FlattenSeq`, is shown to exist up
to every length in the same way (`Stages`, `JoinsExist`, `ScanExists`), and then
followed stage by stage (`FlattenAppend`, `LoopRuns`, `FindStages`).

### Only model-checked

Liveness, which needs ENABLED: the leads-to of `AttemptsResolve`, `TurnEnds` and
`CallsAnswered` and the coming to rest of `OptionsConverge` (their safety halves
are proved), `DisconnectShows`, `RequestsAnswered`. And what two codecs compute:
`GraphicsAsMeant` and
`ReplayIsWhatHostSent` compare nested folds and sorts over data with geometry and
with a reordered capture. For them each data structure would need an induction by
hand as `TelnetParser` has one; TLC compares them on all inputs within the bounds.

## 5. What is not modelled

`PROJECT.json` lists the parts with the reason for each. In short: painting and
geometry, forms, tables of codes, logs and string checks have no state worth a
model; the decoder and the script engine are submodules outside the tree, so
queries, structured fields and the statements of a script are as their callers
see them. Of the scripts' side `rebuildScriptsSubmenu`, `script_input_dialog` and
`onOpenScriptsFolder` are left out: they read or show and change nothing. So are a
build without TLS (`client_connection.cpp:103-112`), the repair of GDS lengths in
captures (`repairGdsRecordLength`) and the 15 seconds in which `create_session`
waits for a screen. Bytes of HTTP and JSON are left out; what the server makes of a request is an input.

Two limits of what is modelled. Nothing bounds a connection in Negotiating: a
host that accepts it and never completes the handshake is waited for, so
`AttemptsResolve` speaks of Connecting only. `RequestsAnswered` needs the bound
on requests: every nested loop waits for the ones above it, and the code sets no
limit to how many a busy client can add. And two properties are weaker than they
might be: once a discard or a reload was answered, `NothingLostUnasked` excuses it
for the step whatever the tab, and TLC meets the names of `TabsStayApart` with two
tabs only, where the theorem is about any number.

## 6. Plan

Every safety property that a run expects to hold has a theorem, but for the two
codecs just named. What would come next: the reassembly of `PcapReplay`, where
`HostStreamIsRead` already gives the last step, from bytes to records; the filling
of `Raster`; the settings dialog's pages and the executor of scripts, once their
state matters to another part. A first-screen wait that outlives its connection
and the stale index of a tab's context menu (section 3) are hazards without a
property, since the code does there what no document denies.

## 7. Running it

`tlc -config MCWindow.cfg MCWindow` checks a run, likewise for the
other configurations; `tlapm SessionWorkerProofs.tla` checks the proofs of a
module, likewise for the others. The longest run takes about three minutes, the
longest proof a few.

In each module an operator that a comment calls a mutant is a changed form of
the definition that follows it, as a plausible mistake in the code would change
it. `PROJECT.json` names the property each of them must violate, to show that the
property is about the code and not about the model.

