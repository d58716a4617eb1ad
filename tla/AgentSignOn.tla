---------------------------- MODULE AgentSignOn ----------------------------
(***************************************************************************)
(* Signing on to a model's service with OAuth: the settings dialog starts  *)
(* one authorization flow (OAuthFlow: a callback server on the loopback    *)
(* interface, the browser, the exchange of the code), the tokens go to     *)
(* QSettings (TokenStorage), and every OAuthAuth that holds them - the     *)
(* dialog's and one in the provider of each tab - renews them on a timer.  *)
(* Tokens are numbered in the order the service grants them; 0 is none.    *)
(* What the dialog tells the user it tells in a modal box, whose own event *)
(* loop runs inside the signal that is being reported: sockets, replies    *)
(* and timers go on, and what was handed to deleteLater() lives until the  *)
(* box is closed. Only the dialog itself cannot be used meanwhile.         *)
(***************************************************************************)
EXTENDS Naturals, FiniteSets, SequencesExt

CONSTANTS
  Tabs,            \* tabs whose provider signs on with OAuth
  MaxSignOnGrants, \* tokens the service grants
  MaxConnections,  \* connections to the callback server, per flow
  MaxSignOns       \* times Sign In and Sign Out are pressed

VARIABLES
  storage,       \* the stored tokens: number and whether a refresh token is among them
  auth,          \* for the dialog and each tab: its OAuthAuth; "leaving" is the
                 \* one the dialog has let go of and that is not deleted yet
  flow,          \* the authorization flow
  boxes,         \* the message boxes open, each in the loop of the one before
  signInEnabled, \* the Sign In button
  granted, presses

signOnVars == <<storage, auth, flow, boxes, signInEnabled, granted, presses>>

OfDialog == {"dialog", "leaving"}
Holders == Tabs \union OfDialog

NoToken == [n |-> 0, renewable |-> FALSE]

Absent == [exists |-> FALSE, token |-> NoToken, timer |-> FALSE, asked |-> FALSE]

(* loadFromStorage: the timer runs only for tokens that can be renewed.    *)
Loaded(t) ==
  [exists |-> TRUE, token |-> t, timer |-> t.n # 0 /\ t.renewable, asked |-> FALSE]

NoFlow ==
  [exists |-> FALSE, listening |-> FALSE, handled |-> FALSE, completed |-> FALSE,
   connections |-> 0, replies |-> 0, exchanges |-> 0, outcomes |-> 0]

SignOnInit ==
  /\ \E t \in {NoToken} \union [n : {1}, renewable : BOOLEAN] :
       /\ storage = t
       /\ auth = [h \in Holders |-> IF h \in OfDialog THEN Absent ELSE Loaded(t)]
  /\ flow = NoFlow
  /\ boxes = <<>>
  /\ signInEnabled = TRUE
  /\ granted = 1
  /\ presses = 0

(***************************************************************************)
(* Tokens.                                                                 *)
(***************************************************************************)
(* onTokensReceived: kept, saved and scheduled in one go.                  *)
onTokensReceived(h, renewable) ==
  LET t == [n |-> granted + 1, renewable |-> renewable] IN
  /\ granted < MaxSignOnGrants
  /\ granted' = granted + 1
  /\ auth' = [auth EXCEPT ![h].token = t, ![h].timer = @ \/ renewable, ![h].asked = FALSE]
  /\ storage' = t

refreshAccessToken(h) ==
  /\ auth[h].exists /\ auth[h].timer
  /\ auth' = [auth EXCEPT ![h].timer = FALSE, ![h].asked = TRUE]
  /\ UNCHANGED <<storage, flow, boxes, signInEnabled, granted, presses>>

(* A refusal is reported and nothing is scheduled again; an answer without *)
(* a refresh token keeps the old one, which signing out has cleared.       *)
refreshReplied(h) ==
  /\ auth[h].asked
  /\ \/ /\ auth' = [auth EXCEPT ![h].asked = FALSE]
        /\ signInEnabled' = (signInEnabled \/ h \in OfDialog)
        /\ boxes' = IF h \in OfDialog THEN Append(boxes, "notice") ELSE boxes
        /\ UNCHANGED <<storage, granted>>
     \/ /\ \E renewable \in {TRUE, auth[h].token.renewable} : onTokensReceived(h, renewable)
        /\ UNCHANGED <<signInEnabled, boxes>>
  /\ UNCHANGED <<flow, presses>>

(***************************************************************************)
(* The flow: a child of the OAuthAuth that started it, which may be        *)
(* leaving, and handed to deleteLater() when its report has returned.      *)
(***************************************************************************)
FlowOwner == IF Contains(boxes, "signedOut") THEN "leaving" ELSE "dialog"

(* An outcome, success or failure: the button first, then the box.         *)
Reported(f) ==
  /\ flow' = [f EXCEPT !.completed = TRUE, !.outcomes = @ + 1]
  /\ signInEnabled' = TRUE
  /\ boxes' = Append(boxes, "outcome")

(* The OAuthAuth before is handed to deleteLater(): it is gone when this   *)
(* handler returns, which is after the box when the flow cannot start.     *)
onOAuthSignInClicked ==
  /\ boxes = <<>> /\ signInEnabled
  /\ presses < MaxSignOns
  /\ presses' = presses + 1
  /\ LET new == [auth EXCEPT !["dialog"] = [Absent EXCEPT !.exists = TRUE], !["leaving"] = Absent] IN
     \/ /\ boxes' = <<"notice">>             \* a field is not filled in
        /\ UNCHANGED <<auth, flow, signInEnabled>>
     \/ /\ boxes' = <<"failedStart">>        \* no server, or no browser
        /\ auth' = [new EXCEPT !["leaving"] = auth["dialog"]]
        /\ flow' = [NoFlow EXCEPT !.exists = TRUE, !.outcomes = 1]
        /\ UNCHANGED signInEnabled
     \/ /\ auth' = new
        /\ flow' = [NoFlow EXCEPT !.exists = TRUE, !.listening = TRUE]
        /\ signInEnabled' = FALSE
        /\ UNCHANGED boxes
  /\ UNCHANGED <<storage, granted>>

(* The user closes the box in front; its handler returns, and what it or   *)
(* the handler around it has let go of is deleted.                         *)
closeBox ==
  /\ boxes # <<>>
  /\ boxes' = Front(boxes)
  /\ flow' = IF Last(boxes) = "notice" THEN flow ELSE NoFlow
  /\ auth' = IF Last(boxes) \in {"failedStart", "signedOut"}
             THEN [auth EXCEPT !["leaving"] = Absent] ELSE auth
  /\ UNCHANGED <<storage, signInEnabled, granted, presses>>

onNewConnection ==
  /\ flow.exists /\ flow.listening
  /\ flow.connections < MaxConnections
  /\ flow' = [flow EXCEPT !.connections = @ + 1]
  /\ UNCHANGED <<storage, auth, boxes, signInEnabled, granted, presses>>

Callbacks == [callback : BOOLEAN, own : BOOLEAN, carries : {"error", "nothing", "code"}]

(* A mutant: a callback is taken however many came before.                 *)
CallbackReadAgain(r) ==
  /\ flow.exists /\ flow.connections > 0
  /\ flow' = [flow EXCEPT !.connections = @ - 1, !.listening = FALSE, !.handled = TRUE,
                          !.replies = @ + 1, !.exchanges = @ + 1]
  /\ r.callback /\ r.own /\ r.carries = "code"
  /\ UNCHANGED <<storage, auth, boxes, signInEnabled, granted, presses>>

(* A whole request line. Other pages, a second callback and one without    *)
(* the state of this flow are answered and change nothing. The server      *)
(* closes with the first callback; connections it had accepted stay.       *)
CallbackRead(r) ==
  /\ flow.exists /\ flow.connections > 0
  /\ LET rest == [flow EXCEPT !.connections = @ - 1]
         f    == [rest EXCEPT !.listening = FALSE, !.handled = TRUE]
     IN
     IF ~r.callback \/ flow.handled \/ flow.completed \/ ~r.own
     THEN flow' = rest /\ UNCHANGED <<boxes, signInEnabled>>
     ELSE IF r.carries = "code"
     THEN /\ flow' = [f EXCEPT !.replies = @ + 1, !.exchanges = @ + 1]
          /\ UNCHANGED <<boxes, signInEnabled>>
     ELSE Reported(f)
  /\ UNCHANGED <<storage, auth, granted, presses>>

exchangeReplied ==
  /\ flow.exists /\ flow.replies > 0
  /\ LET f == [flow EXCEPT !.replies = @ - 1] IN
     IF flow.completed
     THEN flow' = f /\ UNCHANGED <<storage, auth, boxes, signInEnabled, granted>>
     ELSE /\ Reported(f)
          /\ \/ UNCHANGED <<storage, auth, granted>>
             \/ \E renewable \in BOOLEAN : onTokensReceived(FlowOwner, renewable)
  /\ UNCHANGED presses

(***************************************************************************)
(* Signing out, saving the settings (every tab gets a new provider, which  *)
(* loads what is stored), and leaving the dialog.                          *)
(***************************************************************************)
onOAuthSignOutClicked ==
  /\ boxes = <<>>
  /\ presses < MaxSignOns
  /\ presses' = presses + 1
  /\ storage' = NoToken
  /\ auth' = [auth EXCEPT !["dialog"] = Absent,
                          !["leaving"] = [auth["dialog"] EXCEPT !.token = NoToken, !.timer = FALSE]]
  /\ boxes' = <<"signedOut">>
  /\ UNCHANGED <<flow, signInEnabled, granted>>

refreshAgentProviders ==
  /\ boxes = <<>>
  /\ auth' = [h \in Holders |-> IF h \in OfDialog THEN auth[h] ELSE Loaded(storage)]
  /\ UNCHANGED <<storage, flow, boxes, signInEnabled, granted, presses>>

(* The dialog is closed and opened again.                                  *)
reopenDialog ==
  /\ boxes = <<>>
  /\ auth' = [auth EXCEPT !["dialog"] = Absent]
  /\ flow' = NoFlow
  /\ signInEnabled' = TRUE
  /\ UNCHANGED <<storage, boxes, granted, presses>>

SignOnNext ==
  \/ onOAuthSignInClicked \/ onOAuthSignOutClicked \/ refreshAgentProviders \/ reopenDialog
  \/ closeBox \/ onNewConnection \/ exchangeReplied
  \/ \E r \in Callbacks : CallbackRead(r)
  \/ \E h \in Holders : refreshAccessToken(h) \/ refreshReplied(h)

SignOnSpec == SignOnInit /\ [][SignOnNext]_signOnVars

-----------------------------------------------------------------------------
(* Whatever callbacks arrive on the connections it has accepted - after    *)
(* its outcome too, while the box that reports it is open, and after Sign  *)
(* Out has let go of it - a flow sends one code at most and reports one    *)
(* outcome, after which nothing is in flight (oauth_flow.cpp:105-205). And *)
(* until it has reported nothing lets Sign In be pressed, so that no       *)
(* second flow begins over it: no renewal of the dialog's is refused       *)
(* meanwhile (settings_dialog.cpp:952-973).                                *)
OneExchangeAtATime ==
  /\ flow.exchanges <= 1 /\ flow.outcomes <= 1
  /\ flow.outcomes > 0 => flow.replies = 0
  /\ flow.exists /\ flow.outcomes = 0 => ~signInEnabled

=============================================================================
