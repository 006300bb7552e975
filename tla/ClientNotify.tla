---------------------------- MODULE ClientNotify ----------------------------
(***************************************************************************)
(* The client between login and game: the receiver thread of               *)
(* ServerHandler.cs, which leaves each message in the static fields of     *)
(* ReceiverArgs and sets an AutoResetEvent; the notification worker of     *)
(* Program.cs, which waits for the event, reads the fields without a lock  *)
(* and invokes a handler on the form; and the form of QueriesForm.cs, with *)
(* its screens, its menu of invitations and the user who clicks.           *)
(*                                                                         *)
(* A message is its number and its text.  Texts that a handler only        *)
(* displays are "SHOW" and "CHAT"; the answers to the queries (numbers 1 to 3 and 13  *)
(* to 15) are number 2 with the text "ROWS" or, when the database found no *)
(* row, "EMPTY", which stands for the "/0/" of BBDD_Handler.c.             *)
(* A message box is modal: the worker, which invoked the handler, and the  *)
(* user's other clicks wait until it is dismissed; what the handler does   *)
(* after the box is done then.  The pause of 100 ms after each message     *)
(* promises nothing and is not modelled.                                   *)
(***************************************************************************)
EXTENDS Naturals, Sequences, FiniteSets, SequencesExt, Selections

CONSTANTS Users,        \* the other users of the server
          Parties,      \* names of parties, each used once
          MaxMessages,  \* messages the server sends, answers to logins included
          NoParty,      \* a form that has no gameName yet
          Other         \* a row of the grid that is not a user

ASSUME NotifyAssumption == MaxMessages \in Nat

VARIABLES
    \* What the receiver thread does: "off", or what it does next.
    rpc, response,
    \* ReceiverArgs, shared without a lock.
    responseType, responseStr, connectedList, signal,
    \* The worker: what it does next, the number it read, what it last invoked.
    wpc, wtype, shown,
    intact,     \* no message was left half stored by an aborted receiver
    alive,      \* no thread ended with an unhandled exception
    DataGridUpdateRequested,
    form,
    \* The server, as far as it matters to this client.
    net,        \* sent and not yet read
    server, sent

receiverVars == <<rpc, response>>
argsVars     == <<responseType, responseStr, connectedList>>
workerVars   == <<wpc, wtype, shown>>
notifyVars   == <<receiverVars, argsVars, signal, workerVars, intact, alive,
                  DataGridUpdateRequested, form, net, server, sent>>

NoText == <<"NONE", NoParty>>
Text(word) == <<word, NoParty>>
Message(number, data) == [number |-> number, data |-> data]
List(users) == Message(6, users)
NoMessage == Message(0, {})

Texts == {"NONE", "SHOW", "CHAT", "ROWS", "EMPTY", "OK", "NOTIFY", "ACCEPTED", "REJECTED",
          "FAIL", "LOSE", "START", "ALONE", "CANCEL"} \X (Parties \cup {NoParty})
Messages == [number : {2, 7, 9, 11, 12}, data : Texts]
            \cup [number : {0, 6}, data : SUBSET Users]
Screens == {"login", "welcome", "main", "queries", "create", "party"}
-----------------------------------------------------------------------------
(* The form.                                                               *)

\* A form as its constructor leaves it.
NewForm(s) == [screen |-> s, start |-> FALSE, quit |-> FALSE, gameName |-> NoParty,
               menu |-> <<>>, selection |-> NoParty, grid |-> {}, selected |-> <<>>]

\* Shows the widgets of screen s: on the party screen all three of Start, Cancel
\* and Quit, until the caller hides some.
UpdateScreen(f, s) == [f EXCEPT !.screen = s, !.start = (s = "party"), !.quit = (s = "party")]

\* The selected users that stay when those not in users are removed by position:
\* the index moves on after a removal, so the row after a removed one is kept.
StillConnected(rows, users) ==
    LET removed[i \in 0 .. Len(rows)] == i > 0 /\ ~removed[i - 1] /\ rows[i] \notin users
    IN Pick(rows, {i \in DOMAIN rows : ~removed[i]})

UpdateConnectedList(f, users) ==
    [f EXCEPT !.grid = users,
              !.selected = IF f.screen = "queries" THEN StillConnected(@, users) ELSE @]

\* The ranking, the characters, the opponents and the results share the grid.
UpdateRows(f) == [f EXCEPT !.grid = {Other}]

CreatePartyPopup(f, word) ==
    IF word = "OK" THEN [UpdateScreen(f, "party") EXCEPT !.quit = FALSE] ELSE f

InvitationNotificationMessage(f, party) == [f EXCEPT !.menu = Append(@, party)]

\* Faulty variant: the buttons stay as UpdateScreen left them.
AcceptedAllButtons(f) ==
    [UpdateScreen(f, "party") EXCEPT !.menu = WithoutFirst(@, f.selection)]

\* A guest may not start or cancel the party.
AcceptedGamePopup(f) ==
    [UpdateScreen(f, "party") EXCEPT !.start = FALSE, !.menu = WithoutFirst(@, f.selection)]

RejectGamePopup(f) == [f EXCEPT !.menu = WithoutFirst(@, f.selection)]

\* Goes to the main screen, whatever party the user is in.
CancelGamePopup(f, party) == UpdateScreen([f EXCEPT !.menu = WithoutFirst(@, party)], "main")

AlonePlayerPopup(f) == UpdateScreen(f, "main")

\* What a handler does to the form, after its message box if it has one.  The client
\* waits for "LOST" where the server says "LOSE"; other texts are only shown.
Handled(f, m) ==
    LET word == m.data[1]  party == m.data[2]
    IN CASE m.number = 6 -> UpdateConnectedList(f, m.data)
         [] m.number = 2 -> UpdateRows(f)
         [] m.number = 7 -> CreatePartyPopup(f, word)
         [] m.number = 9 /\ word = "NOTIFY" -> InvitationNotificationMessage(f, party)
         [] m.number = 9 /\ word = "ACCEPTED" -> AcceptedGamePopup(f)
         [] m.number = 9 /\ word = "REJECTED" -> RejectGamePopup(f)
         [] m.number = 12 /\ word = "CANCEL" -> CancelGamePopup(f, party)
         [] m.number = 12 /\ word \in {"ALONE", "START"} -> AlonePlayerPopup(f)
         [] OTHER -> f

\* The branch of the worker's chain of tests that the message takes, if any.
HasHandler(m) ==
    \/ m.number \in {2, 7, 11}
    \/ m.number = 6 /\ DataGridUpdateRequested = 6
    \/ m.number = 9 /\ m.data[1] \in {"NOTIFY", "ACCEPTED", "REJECTED", "FAIL"}
    \/ m.number = 12 /\ m.data[1] \in {"SHOW", "START", "ALONE", "CANCEL"}

OpensBox(m) == m.number \in {7, 12} \/ (m.number = 9 /\ m.data[1] # "NOTIFY")

\* The worker takes the text apart: a number of rows, the name and the text of a chat.
Parses(m) ==
    /\ m.number = 2 => m.data[1] = "ROWS"
    /\ m.number = 11 => m.data[1] \in {"CHAT", "NOTIFY", "CANCEL", "LOSE", "ROWS", "EMPTY"}
    /\ m.number \in {9, 12} => m.data[1] # "NONE"
-----------------------------------------------------------------------------
(* The receiver thread.                                                    *)

\* One read returns what has arrived, but only its first message is kept.
Receive == \E n \in 1 .. Len(net) :
    /\ alive /\ rpc = "read"
    /\ response' = Head(net) /\ net' = SubSeq(net, n + 1, Len(net))
    /\ rpc' = "type"
    /\ UNCHANGED <<argsVars, signal, workerVars, intact, alive, DataGridUpdateRequested,
                   form, server, sent>>

StoreType ==
    /\ alive /\ rpc = "type"
    /\ responseType' = response.number
    /\ rpc' = "data"
    /\ UNCHANGED <<response, responseStr, connectedList, signal, workerVars, intact, alive,
                   DataGridUpdateRequested, form, net, server, sent>>

StoreData ==
    /\ alive /\ rpc = "data"
    /\ IF response.number = 6
       THEN connectedList' = response.data /\ UNCHANGED responseStr
       ELSE responseStr' = response.data /\ UNCHANGED connectedList
    /\ rpc' = "set" /\ response' = NoMessage
    /\ UNCHANGED <<responseType, signal, workerVars, intact, alive,
                   DataGridUpdateRequested, form, net, server, sent>>

\* Faulty variant: does not set the event while the worker is busy.
SetIfWaiting ==
    /\ alive /\ rpc = "set"
    /\ signal' = (signal \/ wpc = "wait") /\ intact' = TRUE
    /\ rpc' = "read"
    /\ UNCHANGED <<response, argsVars, workerVars, alive, DataGridUpdateRequested, form, net, server, sent>>

Set ==
    /\ alive /\ rpc = "set"
    /\ signal' = TRUE /\ intact' = TRUE
    /\ rpc' = "read"
    /\ UNCHANGED <<response, argsVars, workerVars, alive, DataGridUpdateRequested, form, net, server, sent>>

\* Thread.Abort, wherever the receiver is.
AbortReceiver ==
    /\ rpc' = "off" /\ response' = NoMessage
    /\ intact' = (intact /\ rpc \notin {"data", "set"})
-----------------------------------------------------------------------------
(* The notification worker.                                                *)

Wake ==
    /\ alive /\ wpc = "wait" /\ signal
    /\ signal' = FALSE /\ wpc' = "woken"
    /\ UNCHANGED <<receiverVars, argsVars, wtype, shown, intact, alive,
                   DataGridUpdateRequested, form, net, server, sent>>

ReadType ==
    /\ alive /\ wpc = "woken"
    /\ wtype' = responseType /\ wpc' = "typed"
    /\ UNCHANGED <<receiverVars, argsVars, signal, shown, intact, alive,
                   DataGridUpdateRequested, form, net, server, sent>>

\* The text or the list that goes with a number, as the fields hold it now.
Current(number) ==
    Message(number, IF number \in {0, 6} THEN connectedList ELSE responseStr)

\* Reads the text and invokes the handler.  A text that cannot be taken apart, or a
\* form that is not on the screen, ends the worker with an exception nobody catches.
Dispatch ==
    /\ alive /\ wpc = "typed"
    /\ LET m == Current(wtype)
           runs == HasHandler(m) /\ Parses(m) /\ form.screen \notin {"login", "welcome"}
           box == OpensBox(m)
       IN /\ shown' = m
          /\ alive' = (Parses(m) /\ (HasHandler(m) => runs))
          /\ wpc' = IF ~runs \/ ~box THEN "wait"
                    ELSE IF m.number = 12 /\ m.data[1] = "START" THEN "playing"
                    ELSE "popup"
          /\ form' = IF runs /\ ~box THEN Handled(form, m) ELSE form
          /\ IF wpc' = "playing" THEN AbortReceiver ELSE UNCHANGED <<receiverVars, intact>>
    /\ wtype' = 0
    /\ UNCHANGED <<argsVars, signal, DataGridUpdateRequested, net, server, sent>>

\* The user closes the box and the handler goes on.
Dismiss ==
    /\ alive /\ wpc = "popup"
    /\ form' = Handled(form, shown) /\ wpc' = "wait"
    /\ UNCHANGED <<receiverVars, argsVars, signal, wtype, shown, intact, alive,
                   DataGridUpdateRequested, net, server, sent>>

\* The game window is closed; leaving the game read and dropped what had arrived, up
\* to the read that began with GOODBYE, and a new receiver runs in notification mode.
GameEnds == \E n \in 0 .. Len(net) :
    /\ alive /\ wpc = "playing"
    /\ net' = SubSeq(net, n + 1, Len(net))
    /\ form' = Handled(form, shown) /\ wpc' = "wait"
    /\ rpc' = "read"
    /\ UNCHANGED <<response, argsVars, signal, wtype, shown, intact, alive,
                   DataGridUpdateRequested, server, sent>>
-----------------------------------------------------------------------------
(* The server: it answers at once, and the answers arrive later.           *)

NoServer == [connected |-> {}, invited |-> {}, used |-> {}, created |-> {}, member |-> NoParty]

Reply(m) == /\ form.screen # "login" /\ sent < MaxMessages
            /\ net' = Append(net, m) /\ sent' = sent + 1

Leaves(party) == [server EXCEPT !.invited = @ \ {party},
                                !.member = IF @ = party THEN NoParty ELSE @]

\* Other users come and go; invite this one; cancel or start their parties; leave
\* this one alone in its party; chat.
ServerEvent ==
    /\ alive /\ UNCHANGED <<receiverVars, argsVars, signal, workerVars, intact, alive,
                            DataGridUpdateRequested, form>>
    /\ \/ \E users \in SUBSET Users \ {server.connected} :
            /\ Reply(List(users)) /\ server' = [server EXCEPT !.connected = users]
       \/ \E p \in Parties \ server.used :
            /\ Reply(Message(9, <<"NOTIFY", p>>))
            /\ server' = [server EXCEPT !.invited = @ \cup {p}, !.used = @ \cup {p}]
       \/ \E p \in (server.invited \cup {server.member}) \ (server.created \cup {NoParty}) :
            /\ Reply(Message(12, <<"CANCEL", p>>)) /\ server' = Leaves(p)
       \/ \E p \in server.invited : Reply(Message(9, <<"LOSE", p>>)) /\ server' = Leaves(p)
       \/ /\ server.member # NoParty
          /\ \/ /\ server.member \notin server.created
                /\ Reply(Message(12, Text("START"))) /\ server' = Leaves(server.member)
             \/ Reply(Message(12, Text("ALONE"))) /\ server' = Leaves(server.member)
             \/ Reply(Message(11, Text("CHAT"))) /\ UNCHANGED server
-----------------------------------------------------------------------------
(* The user.                                                               *)

Free(screens) == alive /\ wpc \notin {"popup", "playing"} /\ form.screen \in screens
OnlyForm == UNCHANGED <<receiverVars, argsVars, signal, workerVars, intact, alive>>

\* Login: the answer is read directly; then the receiver starts, and the form when the
\* user has dismissed a message box.  By the time the user has typed a password, the
\* worker is done with what an earlier receiver left.
Login ==
    /\ Free({"login"}) /\ sent < MaxMessages
    /\ wpc = "wait" /\ ~signal
    /\ form' = [form EXCEPT !.screen = "welcome"] /\ rpc' = "read" /\ sent' = sent + 1
    /\ UNCHANGED <<response, argsVars, signal, workerVars, intact, alive,
                   DataGridUpdateRequested, net, server>>

LoginOk ==
    /\ Free({"welcome"}) /\ form' = NewForm("main")
    /\ OnlyForm /\ UNCHANGED <<DataGridUpdateRequested, net, server, sent>>

\* The buttons that only change the screen.
Navigate == \E from \in Screens, to \in Screens :
    /\ Free({from})
    /\ <<from, to>> \in {<<"main", "queries">>, <<"queries", "main">>, <<"create", "main">>}
    /\ form' = UpdateScreen(form, to)
    /\ OnlyForm /\ UNCHANGED <<DataGridUpdateRequested, net, server, sent>>

\* A query, for the list of connected users or for a table of rows.
Send_btn_Click ==
    /\ Free({"queries"}) /\ OnlyForm /\ UNCHANGED <<form, server>>
    /\ \/ Reply(List(server.connected)) /\ DataGridUpdateRequested' = 6
       \/ /\ \E word \in {"ROWS", "EMPTY"} : Reply(Message(2, Text(word)))
          /\ UNCHANGED DataGridUpdateRequested

NewParty_btn_Click ==
    /\ Free({"main"}) /\ OnlyForm /\ UNCHANGED server
    /\ DataGridUpdateRequested' = 6 /\ Reply(List(server.connected))
    /\ form' = UpdateScreen([form EXCEPT !.selected = <<>>], "create")

\* The test for a row selected before compares two arrays and never succeeds; but it
\* looks at as many rows of the grid as are selected, one more, and fails silently
\* when there are not so many.
QueryGrid_CellClick == \E row \in form.grid :
    /\ Free({"create"}) /\ DataGridUpdateRequested = 6
    /\ Len(form.selected) < Cardinality(form.grid)
    /\ form' = [form EXCEPT !.selected = Append(@, row)]
    /\ OnlyForm /\ UNCHANGED <<DataGridUpdateRequested, net, server, sent>>

PlayersSelected_dg_CellClick == \E i \in DOMAIN form.selected :
    /\ Free({"create"}) /\ form' = [form EXCEPT !.selected = RemoveAt(@, i)]
    /\ OnlyForm /\ UNCHANGED <<DataGridUpdateRequested, net, server, sent>>

\* Faulty variant: takes the name from the list of selected users.
CreatePartyOfRow == \E p \in Parties \ server.used :
    /\ Free({"create"}) /\ form.selected # <<>>
    /\ form' = [form EXCEPT !.gameName = Head(form.selected)]
    /\ OnlyForm /\ UNCHANGED DataGridUpdateRequested
    /\ Reply(Message(7, Text("FAIL"))) /\ UNCHANGED server

CreateParty_btn_Click == \E p \in Parties \ server.used :
    /\ Free({"create"}) /\ form.selected # <<>>
    /\ form' = [form EXCEPT !.gameName = p]
    /\ OnlyForm /\ UNCHANGED DataGridUpdateRequested
    /\ \/ /\ Reply(Message(7, Text("OK")))
          /\ server' = [server EXCEPT !.created = @ \cup {p}, !.used = @ \cup {p}, !.member = p]
       \/ Reply(Message(7, Text("FAIL"))) /\ UNCHANGED server

\* An item of the menu of invitations, on any screen.
AnswerInvitation == \E i \in DOMAIN form.menu :
    LET p == form.menu[i] IN
    /\ Free(Screens \ {"login", "welcome"})
    /\ OnlyForm /\ UNCHANGED DataGridUpdateRequested
    /\ \/ \* AcceptInvitation
          /\ form' = [form EXCEPT !.gameName = p, !.selection = p]
          /\ IF p \in server.invited
             THEN /\ Reply(Message(9, Text("ACCEPTED")))
                  /\ server' = [server EXCEPT !.invited = @ \ {p}, !.member = p]
             ELSE Reply(Message(9, Text("FAIL"))) /\ UNCHANGED server
       \/ \* RejectInvitation
          /\ form' = [form EXCEPT !.selection = p]
          /\ Reply(Message(9, Text(IF p \in server.invited THEN "REJECTED" ELSE "FAIL")))
          /\ server' = Leaves(p)

\* SelectChar and Chatting, whose answers are only shown; Start, Cancel and Quit.
PartyButton ==
    /\ Free({"party"}) /\ form.gameName # NoParty
    /\ OnlyForm /\ UNCHANGED DataGridUpdateRequested
    /\ \/ Reply(Message(12, Text("SHOW"))) /\ UNCHANGED <<form, server>>
       \/ /\ form.start /\ UNCHANGED form
          /\ \/ Reply(Message(12, Text("START"))) /\ server' = Leaves(server.member)
             \/ Reply(Message(12, Text("SHOW"))) /\ UNCHANGED server
       \/ /\ form.start /\ form' = UpdateScreen(form, "main")
          /\ Reply(Message(12, <<"CANCEL", server.member>>)) /\ server' = Leaves(server.member)
       \/ /\ form.quit /\ form' = UpdateScreen(form, "main")
          /\ Reply(Message(9, Text(IF form.gameName = server.member THEN "REJECTED" ELSE "FAIL")))
          /\ server' = Leaves(form.gameName)

\* Closing the window leaves the party and disconnects; the login form is still open.
\* What stays is history: the names that were used and the parties created from here.
QueriesForm_FormClosing ==
    /\ Free(Screens \ {"login", "welcome"})
    /\ server' = [NoServer EXCEPT !.used = server.used, !.created = server.created]
    /\ DataGridUpdateRequested' = 0
    /\ AbortReceiver
    /\ net' = <<>> /\ form' = NewForm("login")
    /\ UNCHANGED <<argsVars, signal, workerVars, alive, sent>>
-----------------------------------------------------------------------------
NotifyInit ==
    /\ rpc = "off" /\ response = NoMessage
    /\ responseType = 0 /\ responseStr = NoText /\ connectedList = {} /\ signal = FALSE
    /\ wpc = "wait" /\ wtype = 0 /\ shown = NoMessage
    /\ intact = TRUE /\ alive = TRUE /\ DataGridUpdateRequested = 0
    /\ form = NewForm("login") /\ net = <<>> /\ sent = 0
    /\ server = NoServer

User == \/ Login \/ LoginOk \/ Navigate \/ Send_btn_Click \/ NewParty_btn_Click
        \/ QueryGrid_CellClick \/ PlayersSelected_dg_CellClick \/ CreateParty_btn_Click
        \/ AnswerInvitation \/ PartyButton \/ QueriesForm_FormClosing
Receiver == Receive \/ StoreType \/ StoreData \/ Set
Worker == Wake \/ ReadType \/ Dispatch
NotifyNext == Receiver \/ Worker \/ Dismiss \/ GameEnds \/ ServerEvent \/ User

NotifySpec == NotifyInit /\ [][NotifyNext]_notifyVars

\* The two threads run; the user may do nothing, and leave boxes on the screen.
NotifyFairSpec == NotifySpec /\ WF_notifyVars(Receiver) /\ WF_notifyVars(Worker)
-----------------------------------------------------------------------------
NotifyTypeOK ==
    /\ rpc \in {"off", "read", "type", "data", "set"} /\ response \in Messages
    /\ responseType \in {0, 2, 6, 7, 9, 11, 12} /\ responseStr \in Texts
    /\ connectedList \subseteq Users /\ signal \in BOOLEAN
    /\ wpc \in {"wait", "woken", "typed", "popup", "playing"} /\ shown \in Messages
    /\ wtype \in {0, 2, 6, 7, 9, 11, 12} /\ DataGridUpdateRequested \in {0, 6}
    /\ form.screen \in Screens /\ form.gameName \in Parties \cup {NoParty}
    /\ form.selected \in Seq(Users \cup {Other}) /\ form.grid \subseteq Users \cup {Other}
    /\ Len(net) <= MaxMessages /\ sent \in 0 .. MaxMessages
    /\ server.member \in Parties \cup {NoParty} /\ server.created \subseteq server.used

\* Although the fields are shared without a lock and the event merges wake-ups: when
\* both threads wait for something new, the last thing the worker showed is the last
\* message that was stored, number and text.  (Not if a switch to the game or a
\* disconnection aborted the receiver in the middle.)
QuietIsCurrent ==
    (rpc \in {"read", "off"} /\ wpc = "wait" /\ ~signal /\ intact /\ alive)
        => shown = Current(responseType)

\* The server cancels or starts the sender's party whoever sends the request: the
\* buttons must not be offered by a client that never created a party since it was
\* started.  (Since the last login would be too much: ReceiverArgs is static, and an OK
\* of before, read together with the number of a FAIL, still opens the party screen.)
OnlyCreatorsStart == form.start => server.created # {}

\* The worker comes to rest: it has shown the last message, waits for the user, or
\* is gone.
LastMessageShown ==
    <>[](\/ ~alive \/ wpc \in {"popup", "playing"} \/ rpc = "off"
         \/ (net = <<>> /\ wpc = "wait" /\ ~signal /\ (intact => shown = Current(responseType))))

\* src/server/main.c:756 says that the answer to a query is "n_pairs/each user*games won pair
\* separated by '/'"; an answer without pairs still lets the client run on.  It fails: the worker
\* takes the word EMPTY apart as if it were a pair.
EmptyAnswerShown == (shown.number = 2 /\ shown.data[1] = "EMPTY") => alive
=============================================================================
