------------------------- MODULE ClientNotifyProofs -------------------------
(***************************************************************************)
(* Proofs about the client between login and game, for any users, parties  *)
(* and messages: what the types are, that the worker has shown the last    *)
(* message when it rests, and who is offered the buttons of a party.       *)
(***************************************************************************)
EXTENDS ClientNotify, SelectionsProofs

Words   == {"NONE", "SHOW", "CHAT", "ROWS", "EMPTY", "OK", "NOTIFY", "ACCEPTED", "REJECTED",
            "FAIL", "LOSE", "START", "ALONE", "CANCEL"}
Names   == Parties \cup {NoParty}
Rows    == Users \cup {Other}
Numbers == {0, 2, 6, 7, 9, 11, 12}
Forms   == [screen : Screens, start : BOOLEAN, quit : BOOLEAN, gameName : Names,
            menu : Seq(Names), selection : Names, grid : SUBSET Rows, selected : Seq(Rows)]
Servers == [connected : SUBSET Users, invited : SUBSET Parties, used : SUBSET Parties,
            created : SUBSET Parties, member : Names]

\* A message that is sent has a number.
Sendable == {m \in Messages : m.number # 0}

\* What each variable holds: for the type invariant, of all parts of the form and of
\* the server, and of every message on its way.
ArgsType == /\ responseType \in Numbers /\ responseStr \in Texts
            /\ connectedList \in SUBSET Users /\ signal \in BOOLEAN
ThreadsType == /\ rpc \in {"off", "read", "type", "data", "set"} /\ response \in Messages
               /\ rpc \in {"type", "data"} => response.number # 0
               /\ wpc \in {"wait", "woken", "typed", "popup", "playing"}
               /\ wtype \in Numbers /\ shown \in Messages
FormType == form \in Forms /\ DataGridUpdateRequested \in {0, 6}
ServerType == /\ net \in Seq(Sendable) /\ sent \in 0 .. MaxMessages /\ Len(net) <= sent
              /\ server \in Servers /\ server.created \subseteq server.used

\* There is a receiver only after a login, and a box or a game only on the form.
ScreenInv == /\ form.screen = "login" => rpc = "off"
             /\ wpc \in {"popup", "playing"} => form.screen \notin {"login", "welcome"}
             /\ wpc = "playing" => rpc = "off"

\* The worker follows the fields: it has seen their number, or their whole message, unless
\* it is woken, will be woken, or the receiver is about to set the event.
FollowsInv ==
    alive /\ intact /\ ~signal /\ rpc \notin {"data", "set"} =>
        /\ wpc = "typed" => wtype = responseType
        /\ wpc \in {"wait", "popup", "playing"} => shown = Current(responseType)

\* Without a party of this client there is no confirmation of one, on its way, stored or
\* shown.
Confirms(m) == m.number \notin {0, 6} /\ m.data[1] = "OK"
NothingConfirmed ==
    /\ \A k \in 1 .. Len(net) : ~Confirms(net[k])
    /\ ~Confirms(response) /\ ~Confirms(shown)
    /\ responseStr[1] # "OK"
    /\ ~form.start
CreatorsInv == server.created = {} => NothingConfirmed

\* The inductive invariant.
NotifyInv == /\ ArgsType /\ ThreadsType /\ FormType /\ ServerType
             /\ ScreenInv /\ FollowsInv /\ CreatorsInv

-----------------------------------------------------------------------------
(***************************************************************************)
(* What the handlers do to the form.                                       *)
(***************************************************************************)

\* The screen that is shown comes with its buttons.
LEMMA Shows ==
    ASSUME NEW f \in Forms, NEW s \in Screens
    PROVE  /\ UpdateScreen(f, s) \in Forms
           /\ UpdateScreen(f, s).screen = s
           /\ UpdateScreen(f, s).start <=> s = "party"
  BY DEF UpdateScreen, Forms

\* A new form is one.
LEMMA NewFormType ==
    ASSUME NEW s \in Screens
    PROVE  NewForm(s) \in Forms /\ NewForm(s).screen = s /\ ~NewForm(s).start
  BY DEF NewForm, Forms, Names, Rows

\* Changing a list of the form leaves screen and buttons.
LEMMA Lists ==
    ASSUME NEW f \in Forms
    PROVE  /\ \A menu \in Seq(Names) :
                 /\ [f EXCEPT !.menu = menu] \in Forms
                 /\ [f EXCEPT !.menu = menu].screen = f.screen
                 /\ [f EXCEPT !.menu = menu].start = f.start
           /\ \A grid \in SUBSET Rows, selected \in Seq(Rows) :
                 /\ [f EXCEPT !.grid = grid, !.selected = selected] \in Forms
                 /\ [f EXCEPT !.grid = grid, !.selected = selected].screen = f.screen
                 /\ [f EXCEPT !.grid = grid, !.selected = selected].start = f.start
  BY DEF Forms

\* The selected users that are left were selected.
LEMMA StillConnectedType ==
    ASSUME NEW rows \in Seq(Rows), NEW users
    PROVE  StillConnected(rows, users) \in Seq(Rows)
<1> DEFINE removed[i \in 0 .. Len(rows)] == i > 0 /\ ~removed[i - 1] /\ rows[i] \notin users
           K == {i \in DOMAIN rows : ~removed[i]}
<1>1. K \in SUBSET DOMAIN rows
  OBVIOUS
<1>2. StillConnected(rows, users) = Pick(rows, K)
  BY DEF StillConnected
<1> HIDE DEF K
<1> QED
  BY <1>1, <1>2, PickType

\* What a message carries.
LEMMA MessageParts ==
    ASSUME NEW m \in Messages
    PROVE  /\ m.number \in Numbers
           /\ m.number \in {0, 6} => m.data \in SUBSET Users
           /\ m.number \notin {0, 6} =>
                 m.data \in Texts /\ m.data[1] \in Words /\ m.data[2] \in Names
  BY DEF Messages, Texts, Words, Names, Numbers

\* A handler turns a form into a form: it goes to another screen only when it opens or
\* leaves the party, and only a confirmation brings the buttons.
HandledWell(f, m) ==
    /\ Handled(f, m) \in Forms
    /\ Handled(f, m).screen \in {f.screen, "party", "main"}
    /\ Handled(f, m).start => f.start \/ Confirms(m)

\* The list of users and the rows only fill the grid.
LEMMA GridHandled ==
    ASSUME NEW f \in Forms, NEW m \in Messages, m.number \in {2, 6}
    PROVE  HandledWell(f, m)
<1>1. f.grid \in SUBSET Rows /\ f.selected \in Seq(Rows)
  BY DEF Forms
<1>2. CASE m.number = 6
  <2> DEFINE selected == IF f.screen = "queries" THEN StillConnected(f.selected, m.data)
                                                 ELSE f.selected
  <2>1. selected \in Seq(Rows) /\ m.data \in SUBSET Rows
    BY <1>1, <1>2, StillConnectedType, MessageParts DEF Rows
  <2>2. Handled(f, m) = [f EXCEPT !.grid = m.data, !.selected = selected]
    BY <1>2 DEF Handled, UpdateConnectedList, Forms
  <2> HIDE DEF selected
  <2> DEFINE g == [f EXCEPT !.grid = m.data, !.selected = selected]
  <2>3. g \in Forms /\ g.screen = f.screen /\ g.start = f.start
    BY <2>1, Lists
  <2> HIDE DEF g
  <2> QED
    BY <2>2, <2>3 DEF HandledWell, g
<1>3. CASE m.number = 2
  <2> DEFINE g == [f EXCEPT !.grid = {Other}]
  <2>1. Handled(f, m) = g
    BY <1>3 DEF Handled, UpdateRows
  <2>2. g \in Forms /\ g.screen = f.screen /\ g.start = f.start
    BY DEF Forms, Rows
  <2> QED
    BY <2>1, <2>2 DEF HandledWell
<1> QED
  BY <1>2, <1>3

\* The pop-ups open the party, go back to the main screen, or change the invitations.
LEMMA PopupHandled ==
    ASSUME NEW f \in Forms, NEW m \in Messages, m.number \notin {2, 6}
    PROVE  HandledWell(f, m)
<1>1. f.menu \in Seq(Names)
  BY DEF Forms
<1>2. m.number \in {7, 9, 12} => m.data[1] \in Words /\ m.data[2] \in Names
  BY MessageParts
<1>3. \A e : LET g == [f EXCEPT !.menu = WithoutFirst(@, e)]
             IN g \in Forms /\ g.screen = f.screen /\ g.start = f.start
  BY <1>1, Lists, WithoutFirstType
<1>4. CASE m.number = 7
  <2>1. CASE m.data[1] = "OK"
    <3> DEFINE g == UpdateScreen(f, "party")
    <3>1. g \in Forms /\ g.screen = "party"
      BY Shows DEF Screens
    <3>2. Handled(f, m) = [g EXCEPT !.quit = FALSE]
      BY <1>4, <2>1 DEF Handled, CreatePartyPopup
    <3> HIDE DEF g
    <3>3. [g EXCEPT !.quit = FALSE] \in Forms /\ [g EXCEPT !.quit = FALSE].screen = g.screen
      BY <3>1 DEF Forms
    <3> QED
      BY <1>4, <2>1, <3>1, <3>2, <3>3 DEF HandledWell, Confirms
  <2>2. CASE m.data[1] # "OK"
    <3>1. Handled(f, m) = f
      BY <1>4, <2>2 DEF Handled, CreatePartyPopup
    <3> QED
      BY <3>1 DEF HandledWell
  <2> QED
    BY <2>1, <2>2
<1>5. CASE m.number = 9 /\ m.data[1] = "NOTIFY"
  <2> DEFINE g == [f EXCEPT !.menu = Append(@, m.data[2])]
  <2>1. Handled(f, m) = g
    BY <1>5 DEF Handled, InvitationNotificationMessage
  <2>2. Append(f.menu, m.data[2]) \in Seq(Names)
    BY <1>1, <1>2, <1>5, AppendProperties
  <2>3. g \in Forms /\ g.screen = f.screen /\ g.start = f.start
    BY <2>2, Lists
  <2> QED
    BY <2>1, <2>3 DEF HandledWell
<1>6. CASE m.number = 9 /\ m.data[1] = "ACCEPTED"
  <2> DEFINE u == UpdateScreen(f, "party")
             g == [u EXCEPT !.start = FALSE, !.menu = WithoutFirst(@, f.selection)]
  <2>1. u \in Forms /\ u.screen = "party"
    BY Shows DEF Screens
  <2>2. Handled(f, m) = g
    BY <1>6 DEF Handled, AcceptedGamePopup
  <2>3. WithoutFirst(u.menu, f.selection) \in Seq(Names)
    BY <2>1, WithoutFirstType DEF Forms
  <2> HIDE DEF u
  <2>4. g \in Forms /\ g.screen = "party" /\ ~g.start
    BY <2>1, <2>3 DEF Forms
  <2> QED
    BY <2>2, <2>4 DEF HandledWell
<1>7. CASE m.number = 9 /\ m.data[1] = "REJECTED"
  <2> DEFINE g == [f EXCEPT !.menu = WithoutFirst(@, f.selection)]
  <2>1. Handled(f, m) = g
    BY <1>7 DEF Handled, RejectGamePopup
  <2>2. g \in Forms /\ g.screen = f.screen /\ g.start = f.start
    BY <1>3
  <2> QED
    BY <2>1, <2>2 DEF HandledWell
<1>8. CASE m.number = 12 /\ m.data[1] = "CANCEL"
  <2> DEFINE g == [f EXCEPT !.menu = WithoutFirst(@, m.data[2])]
  <2>1. Handled(f, m) = UpdateScreen(g, "main")
    BY <1>8 DEF Handled, CancelGamePopup
  <2>2. g \in Forms
    BY <1>3
  <2> HIDE DEF g
  <2> QED
    BY <2>1, <2>2, Shows DEF HandledWell, Screens
<1>9. CASE m.number = 12 /\ m.data[1] \in {"ALONE", "START"}
  <2>1. Handled(f, m) = UpdateScreen(f, "main")
    BY <1>9 DEF Handled, AlonePlayerPopup
  <2> QED
    BY <2>1, Shows DEF HandledWell, Screens
<1>10. CASE /\ m.number # 7
            /\ m.number = 9 => m.data[1] \notin {"NOTIFY", "ACCEPTED", "REJECTED"}
            /\ m.number = 12 => m.data[1] \notin {"CANCEL", "ALONE", "START"}
  <2>1. Handled(f, m) = f
    BY <1>10 DEF Handled
  <2> QED
    BY <2>1 DEF HandledWell
<1> QED
  BY <1>4, <1>5, <1>6, <1>7, <1>8, <1>9, <1>10

\* Every message is handled well.
LEMMA HandledForm ==
    ASSUME NEW f \in Forms, NEW m \in Messages
    PROVE  HandledWell(f, m)
  BY GridHandled, PopupHandled

-----------------------------------------------------------------------------
(***************************************************************************)
(* The server and the user: they send messages, and change the form and    *)
(* what the server knows.                                                  *)
(***************************************************************************)

TypeInv == ArgsType /\ ThreadsType /\ FormType /\ ServerType

\* A step that leaves the threads of the client alone and sends one message at most.
\* A confirmation is sent with the creation of a party.
Says == /\ UNCHANGED <<receiverVars, argsVars, signal, workerVars, intact, alive>>
        /\ \/ UNCHANGED <<net, sent>>
           \/ \E m \in Sendable : Reply(m) /\ (Confirms(m) => server'.created # {})
        /\ server' \in Servers /\ server'.created \subseteq server'.used
        /\ server.created \subseteq server'.created

\* What such a step may do to the form.
Moves == /\ FormType'
         /\ form' = form \/ (form'.screen # "login" /\ wpc \notin {"popup", "playing"})
         /\ form'.start => form.start

\* Leaving a party.
LEMMA LeavesType ==
    ASSUME ServerType, NEW p
    PROVE  /\ Leaves(p) \in Servers
           /\ Leaves(p).created = server.created /\ Leaves(p).used = server.used
  BY DEF ServerType, Leaves, Servers, Names

\* The messages the server has are messages, and one of them confirms.
LEMMA Sayings ==
    /\ \A users \in SUBSET Users : List(users) \in Sendable /\ ~Confirms(List(users))
    /\ \A number \in {2, 7, 9, 11, 12}, word \in Words, name \in Names :
          /\ Message(number, <<word, name>>) \in Sendable
          /\ Confirms(Message(number, <<word, name>>)) => word = "OK"
    /\ \A number \in {2, 7, 9, 11, 12}, word \in Words :
          /\ Message(number, Text(word)) \in Sendable
          /\ Confirms(Message(number, Text(word))) => word = "OK"
<1>1. \A users \in SUBSET Users : List(users) \in Sendable /\ ~Confirms(List(users))
  BY DEF List, Message, Messages, Sendable, Confirms
<1>2. \A word \in Words, name \in Names : <<word, name>> \in Texts
  BY DEF Words, Names, Texts
<1>3. \A number \in {2, 7, 9, 11, 12}, text \in Texts :
         /\ Message(number, text) \in Sendable
         /\ Confirms(Message(number, text)) => text[1] = "OK"
  BY DEF Message, Messages, Sendable, Confirms
<1>4. \A word \in Words : Text(word) \in Texts /\ Text(word)[1] = word
  BY <1>2 DEF Text, Names
<1> QED
  BY <1>1, <1>2, <1>3, <1>4

\* What other users do.
LEMMA ServerSays == TypeInv /\ ServerEvent => Says /\ Moves
<1> SUFFICES ASSUME TypeInv, ServerEvent PROVE Says /\ Moves
  OBVIOUS
<1>1. Moves
  BY DEF Moves, ServerEvent, TypeInv, FormType
<1>2. UNCHANGED <<receiverVars, argsVars, signal, workerVars, intact, alive>>
  BY DEF ServerEvent
<1>3. /\ server \in Servers /\ server.created \subseteq server.used
      /\ server.invited \subseteq Parties /\ server.member \in Names
  BY DEF TypeInv, ServerType, Servers
<1>4. \A p : /\ Leaves(p) \in Servers /\ Leaves(p).created \subseteq Leaves(p).used
             /\ server.created \subseteq Leaves(p).created
  BY <1>3, LeavesType DEF TypeInv
<1>5. ASSUME NEW users \in SUBSET Users, Reply(List(users)),
             server' = [server EXCEPT !.connected = users]
      PROVE  Says
  <2>1. /\ server' \in Servers /\ server'.created \subseteq server'.used
        /\ server.created \subseteq server'.created
    BY <1>3, <1>5 DEF Servers
  <2> QED
    BY <1>2, <1>5, <2>1, Sayings DEF Says
<1>6. ASSUME NEW p \in Parties, Reply(Message(9, <<"NOTIFY", p>>)),
             server' = [server EXCEPT !.invited = @ \cup {p}, !.used = @ \cup {p}]
      PROVE  Says
  <2>1. /\ server' \in Servers /\ server'.created \subseteq server'.used
        /\ server.created \subseteq server'.created
    BY <1>3, <1>6 DEF Servers
  <2>2. Message(9, <<"NOTIFY", p>>) \in Sendable /\ ~Confirms(Message(9, <<"NOTIFY", p>>))
    BY Sayings DEF Names, Words
  <2> QED
    BY <1>2, <1>6, <2>1, <2>2 DEF Says
<1>7. ASSUME NEW p \in Names, NEW number \in {2, 7, 9, 11, 12}, NEW word \in Words, word # "OK",
             Reply(Message(number, <<word, p>>)), server' = Leaves(p)
      PROVE  Says
  BY <1>2, <1>4, <1>7, Sayings DEF Says
<1>8. ASSUME NEW word \in Words, word # "OK", NEW number \in {2, 7, 9, 11, 12},
             Reply(Message(number, Text(word))),
             server' = Leaves(server.member) \/ UNCHANGED server
      PROVE  Says
  BY <1>2, <1>3, <1>4, <1>8, Sayings DEF Says
<1>9. \/ \E users \in SUBSET Users :
            Reply(List(users)) /\ server' = [server EXCEPT !.connected = users]
      \/ \E p \in Parties :
            /\ Reply(Message(9, <<"NOTIFY", p>>))
            /\ server' = [server EXCEPT !.invited = @ \cup {p}, !.used = @ \cup {p}]
      \/ \E p \in Names :
            /\ \/ Reply(Message(12, <<"CANCEL", p>>))
               \/ Reply(Message(9, <<"LOSE", p>>))
            /\ server' = Leaves(p)
      \/ /\ \/ Reply(Message(12, Text("START")))
            \/ Reply(Message(12, Text("ALONE")))
            \/ Reply(Message(11, Text("CHAT")))
         /\ server' = Leaves(server.member) \/ UNCHANGED server
  BY <1>3 DEF ServerEvent, Names
<1>10. {"CANCEL", "LOSE", "START", "ALONE", "CHAT"} \subseteq Words \ {"OK"}
  BY DEF Words
<1> QED
  BY <1>1, <1>5, <1>6, <1>7, <1>8, <1>9, <1>10

\* Nothing is said, or something that confirms nothing; the server forgets a party or
\* stays as it is.
LEMMA Quietly ==
    ASSUME TypeInv, OnlyForm,
           \/ UNCHANGED <<net, sent>>
           \/ \E m \in Sendable : Reply(m) /\ ~Confirms(m),
           UNCHANGED server \/ \E p : server' = Leaves(p)
    PROVE  Says
<1>1. server \in Servers /\ server.created \subseteq server.used
  BY DEF TypeInv, ServerType
<1>2. /\ server' \in Servers /\ server'.created \subseteq server'.used
      /\ server.created \subseteq server'.created
  BY <1>1, LeavesType DEF TypeInv
<1> QED
  BY <1>2 DEF Says, OnlyForm

\* The user changes one part of the form.
LEMMA Parts ==
    ASSUME FormType
    PROVE  /\ \A selected \in Seq(Rows) :
                 /\ [form EXCEPT !.selected = selected] \in Forms
                 /\ [form EXCEPT !.selected = selected].screen = form.screen
                 /\ [form EXCEPT !.selected = selected].start = form.start
           /\ \A p \in Names :
                 /\ [form EXCEPT !.gameName = p] \in Forms
                 /\ [form EXCEPT !.gameName = p].screen = form.screen
                 /\ [form EXCEPT !.gameName = p].start = form.start
                 /\ [form EXCEPT !.selection = p] \in Forms
                 /\ [form EXCEPT !.selection = p].screen = form.screen
                 /\ [form EXCEPT !.selection = p].start = form.start
  BY DEF FormType, Forms

\* The screens the user goes to.
LEMMA NavigateSays ==
    TypeInv /\ (LoginOk \/ Navigate \/ Send_btn_Click \/ NewParty_btn_Click) => Says /\ Moves
<1>1. ASSUME TypeInv, LoginOk PROVE Says /\ Moves
  <2>1. form' \in Forms /\ form'.screen = "main" /\ ~form'.start
    BY <1>1, NewFormType DEF LoginOk, Screens
  <2>2. Says
    BY <1>1, Quietly DEF LoginOk
  <2> QED
    BY <1>1, <2>1, <2>2 DEF LoginOk, Free, Moves, TypeInv, FormType
<1>2. ASSUME TypeInv, Navigate PROVE Says /\ Moves
  <2>1. form \in Forms
    BY <1>2 DEF TypeInv, FormType
  <2>2. form' \in Forms /\ form'.screen \in {"main", "queries"} /\ ~form'.start
    BY <1>2, <2>1, Shows DEF Navigate
  <2>3. Says
    BY <1>2, Quietly DEF Navigate
  <2> QED
    BY <1>2, <2>2, <2>3 DEF Navigate, Free, Moves, TypeInv, FormType
<1>3. ASSUME TypeInv, Send_btn_Click PROVE Says /\ Moves
  <2>1. server.connected \in SUBSET Users
    BY <1>3 DEF TypeInv, ServerType, Servers
  <2>2. UNCHANGED form /\ DataGridUpdateRequested' \in {0, 6}
    BY <1>3 DEF Send_btn_Click, TypeInv, FormType
  <2>3. {"ROWS", "EMPTY"} \subseteq Words \ {"OK"}
    BY DEF Words
  <2>4. \E m \in Sendable : Reply(m) /\ ~Confirms(m)
    BY <1>3, <2>1, <2>3, Sayings DEF Send_btn_Click
  <2>5. Says
    BY <1>3, <2>4, Quietly DEF Send_btn_Click
  <2> QED
    BY <1>3, <2>2, <2>5 DEF Moves, TypeInv, FormType
<1>4. ASSUME TypeInv, NewParty_btn_Click PROVE Says /\ Moves
  <2>1. server.connected \in SUBSET Users /\ FormType
    BY <1>4 DEF TypeInv, ServerType, Servers
  <2> DEFINE g == [form EXCEPT !.selected = <<>>]
  <2>2. g \in Forms
    <3>1. <<>> \in Seq(Rows)
      OBVIOUS
    <3> QED
      BY <2>1, <3>1, Parts
  <2>3. form' = UpdateScreen(g, "create")
    BY <1>4 DEF NewParty_btn_Click
  <2> HIDE DEF g
  <2>4. form' \in Forms /\ form'.screen = "create" /\ ~form'.start
    BY <2>2, <2>3, Shows DEF Screens
  <2>5. Says
    BY <1>4, <2>1, Sayings, Quietly DEF NewParty_btn_Click
  <2> QED
    BY <1>4, <2>4, <2>5 DEF NewParty_btn_Click, Free, Moves, FormType
<1> QED
  BY <1>1, <1>2, <1>3, <1>4

\* Removing the i-th element of a list.
LEMMA RemoveAtType ==
    ASSUME NEW S, NEW s \in Seq(S), NEW i \in DOMAIN s
    PROVE  RemoveAt(s, i) \in Seq(S)
<1>1. i \in 1 .. Len(s) /\ Len(s) \in Nat
  OBVIOUS
<1>2. SubSeq(s, 1, i - 1) \in Seq(S) /\ SubSeq(s, i + 1, Len(s)) \in Seq(S)
  BY <1>1, SubSeqProperties
<1> QED
  BY <1>2, ConcatProperties DEF RemoveAt

\* What the user selects, and the party made of it.
LEMMA CreateSays ==
    TypeInv /\ (QueryGrid_CellClick \/ PlayersSelected_dg_CellClick \/ CreateParty_btn_Click)
        => Says /\ Moves
<1> SUFFICES ASSUME TypeInv,
                    QueryGrid_CellClick \/ PlayersSelected_dg_CellClick \/ CreateParty_btn_Click
             PROVE  Says /\ Moves
  OBVIOUS
<1>1. FormType /\ form.selected \in Seq(Rows) /\ form.grid \subseteq Rows
  BY DEF TypeInv, FormType, Forms
<1>2. ASSUME Free({"create"}), form' \in Forms, DataGridUpdateRequested' \in {0, 6},
             form'.screen = form.screen, form'.start = form.start
      PROVE  Moves
  BY <1>2 DEF Free, Moves, FormType
<1>3. CASE QueryGrid_CellClick
  <2>1. PICK row \in form.grid : form' = [form EXCEPT !.selected = Append(@, row)]
    BY <1>3 DEF QueryGrid_CellClick
  <2>2. Append(form.selected, row) \in Seq(Rows)
    BY <1>1, AppendProperties
  <2>3. form' \in Forms /\ form'.screen = form.screen /\ form'.start = form.start
    BY <1>1, <2>1, <2>2, Parts
  <2>4. Says
    BY <1>3, Quietly DEF QueryGrid_CellClick
  <2> QED
    BY <1>1, <1>2, <1>3, <2>3, <2>4 DEF QueryGrid_CellClick, FormType
<1>4. CASE PlayersSelected_dg_CellClick
  <2>1. PICK i \in DOMAIN form.selected : form' = [form EXCEPT !.selected = RemoveAt(@, i)]
    BY <1>4 DEF PlayersSelected_dg_CellClick
  <2>2. RemoveAt(form.selected, i) \in Seq(Rows)
    BY <1>1, RemoveAtType
  <2>3. form' \in Forms /\ form'.screen = form.screen /\ form'.start = form.start
    BY <1>1, <2>1, <2>2, Parts
  <2>4. Says
    BY <1>4, Quietly DEF PlayersSelected_dg_CellClick
  <2> QED
    BY <1>1, <1>2, <1>4, <2>3, <2>4 DEF PlayersSelected_dg_CellClick, FormType
<1>5. CASE CreateParty_btn_Click
  <2>1. PICK p \in Parties :
          /\ form' = [form EXCEPT !.gameName = p]
          /\ \/ /\ Reply(Message(7, Text("OK")))
                /\ server' = [server EXCEPT !.created = @ \cup {p}, !.used = @ \cup {p},
                                            !.member = p]
             \/ Reply(Message(7, Text("FAIL"))) /\ UNCHANGED server
    BY <1>5 DEF CreateParty_btn_Click
  <2>2. Moves
    BY <1>1, <1>2, <1>5, <2>1, Parts DEF CreateParty_btn_Click, FormType, Names
  <2>3. CASE Reply(Message(7, Text("FAIL"))) /\ UNCHANGED server
    <3>1. Message(7, Text("FAIL")) \in Sendable /\ ~Confirms(Message(7, Text("FAIL")))
      BY Sayings DEF Words
    <3> QED
      BY <1>5, <2>2, <2>3, <3>1, Quietly DEF CreateParty_btn_Click
  <2>4. CASE /\ Reply(Message(7, Text("OK")))
             /\ server' = [server EXCEPT !.created = @ \cup {p}, !.used = @ \cup {p},
                                         !.member = p]
    <3>1. server \in Servers /\ server.created \subseteq server.used
      BY DEF TypeInv, ServerType
    <3>2. /\ server' \in Servers /\ server'.created \subseteq server'.used
          /\ server.created \subseteq server'.created /\ p \in server'.created
      BY <2>4, <3>1 DEF Servers, Names
    <3>3. Message(7, Text("OK")) \in Sendable
      BY Sayings DEF Words
    <3> QED
      BY <1>5, <2>2, <2>4, <3>2, <3>3 DEF CreateParty_btn_Click, OnlyForm, Says
  <2> QED
    BY <2>1, <2>3, <2>4
<1> QED
  BY <1>3, <1>4, <1>5

\* The answers to an invitation.
LEMMA AnswerSays == TypeInv /\ AnswerInvitation => Says /\ Moves
<1> SUFFICES ASSUME TypeInv, AnswerInvitation PROVE Says /\ Moves
  OBVIOUS
<1>1. FormType /\ form.menu \in Seq(Names)
  BY DEF TypeInv, FormType, Forms
<1>2. PICK i \in DOMAIN form.menu :
         LET p == form.menu[i] IN
         /\ Free(Screens \ {"login", "welcome"})
         /\ OnlyForm /\ UNCHANGED DataGridUpdateRequested
         /\ \/ /\ form' = [form EXCEPT !.gameName = p, !.selection = p]
               /\ IF p \in server.invited
                  THEN /\ Reply(Message(9, Text("ACCEPTED")))
                       /\ server' = [server EXCEPT !.invited = @ \ {p}, !.member = p]
                  ELSE Reply(Message(9, Text("FAIL"))) /\ UNCHANGED server
            \/ /\ form' = [form EXCEPT !.selection = p]
               /\ Reply(Message(9, Text(IF p \in server.invited THEN "REJECTED" ELSE "FAIL")))
               /\ server' = Leaves(p)
  BY DEF AnswerInvitation
<1> DEFINE p == form.menu[i]
<1>3. p \in Names
  BY <1>1
<1> HIDE DEF p
<1>4. \/ form' = [form EXCEPT !.gameName = p, !.selection = p]
      \/ form' = [form EXCEPT !.selection = p]
  BY <1>2 DEF p
<1>5. form' \in Forms /\ form'.screen = form.screen /\ form'.start = form.start
  BY <1>1, <1>3, <1>4 DEF FormType, Forms
<1>6. Moves
  BY <1>1, <1>2, <1>5 DEF Free, Moves, FormType
<1>7. OnlyForm
  BY <1>2
<1>8. {"ACCEPTED", "FAIL", "REJECTED"} \subseteq Words \ {"OK"}
  BY DEF Words
<1>9. CASE /\ p \in server.invited /\ Reply(Message(9, Text("ACCEPTED")))
           /\ server' = [server EXCEPT !.invited = @ \ {p}, !.member = p]
  <2>1. server \in Servers /\ server.created \subseteq server.used
    BY DEF TypeInv, ServerType
  <2>2. /\ server' \in Servers /\ server'.created = server.created
        /\ server'.used = server.used
    BY <1>3, <1>9, <2>1 DEF Servers
  <2>3. Message(9, Text("ACCEPTED")) \in Sendable /\ ~Confirms(Message(9, Text("ACCEPTED")))
    BY <1>8, Sayings
  <2> QED
    BY <1>6, <1>7, <1>9, <2>1, <2>2, <2>3 DEF OnlyForm, Says
<1>10. CASE /\ \E word \in {"FAIL", "REJECTED"} : Reply(Message(9, Text(word)))
            /\ UNCHANGED server \/ server' = Leaves(p)
  <2>1. \E m \in Sendable : Reply(m) /\ ~Confirms(m)
    BY <1>8, <1>10, Sayings
  <2> QED
    BY <1>6, <1>7, <1>10, <2>1, Quietly
<1> QED
  BY <1>2, <1>9, <1>10 DEF p

\* The buttons of a party.
LEMMA PartySays == TypeInv /\ PartyButton => Says /\ Moves
<1> SUFFICES ASSUME TypeInv, PartyButton PROVE Says /\ Moves
  OBVIOUS
<1>1. form \in Forms /\ DataGridUpdateRequested \in {0, 6} /\ server.member \in Names
  BY DEF TypeInv, FormType, ServerType, Servers
<1>2. UNCHANGED form \/ form' = UpdateScreen(form, "main")
  BY DEF PartyButton
<1>3. /\ form' \in Forms
      /\ form' = form \/ (form'.screen = "main" /\ ~form'.start)
  BY <1>1, <1>2, Shows DEF Screens
<1>4. Moves
  <2>1. DataGridUpdateRequested' = DataGridUpdateRequested /\ wpc \notin {"popup", "playing"}
    BY DEF PartyButton, Free
  <2>2. FormType'
    BY <1>1, <1>3, <2>1 DEF FormType
  <2>3. form' = form \/ form'.screen # "login"
    BY <1>3
  <2> QED
    BY <1>3, <2>1, <2>2, <2>3 DEF Moves
<1>5. {"SHOW", "START", "CANCEL", "REJECTED", "FAIL"} \subseteq Words \ {"OK"}
  BY DEF Words
<1>6. \/ \E word \in {"SHOW", "START"} : Reply(Message(12, Text(word)))
      \/ Reply(Message(12, <<"CANCEL", server.member>>))
      \/ \E word \in {"REJECTED", "FAIL"} : Reply(Message(9, Text(word)))
  BY DEF PartyButton
<1>7. \E m \in Sendable : Reply(m) /\ ~Confirms(m)
  BY <1>1, <1>5, <1>6, Sayings
<1>8. OnlyForm /\ (UNCHANGED server \/ \E p : server' = Leaves(p))
  BY DEF PartyButton
<1> QED
  BY <1>4, <1>7, <1>8, Quietly

-----------------------------------------------------------------------------
(***************************************************************************)
(* The steps and the invariant.                                            *)
(***************************************************************************)

\* A message that is sent.
LEMMA Sent ==
    ASSUME TypeInv, NEW m \in Sendable, Reply(m)
    PROVE  /\ net' \in Seq(Sendable) /\ sent' \in 0 .. MaxMessages /\ Len(net') <= sent'
           /\ \A k \in 1 .. Len(net') : net'[k] = m \/ \E j \in 1 .. Len(net) : net'[k] = net[j]
<1>1. /\ net \in Seq(Sendable) /\ Len(net) \in Nat /\ MaxMessages \in Nat
      /\ sent \in 0 .. MaxMessages /\ Len(net) <= sent
  BY NotifyAssumption DEF TypeInv, ServerType
<1>2. net' = Append(net, m) /\ sent' = sent + 1 /\ sent < MaxMessages
  BY DEF Reply
<1>3. /\ net' \in Seq(Sendable) /\ Len(net') = Len(net) + 1 /\ net'[Len(net) + 1] = m
      /\ \A k \in 1 .. Len(net) : net'[k] = net[k]
  BY <1>1, <1>2, AppendProperties
<1>4. \A k \in 1 .. Len(net') : k \in 1 .. Len(net) \/ k = Len(net) + 1
  BY <1>1, <1>3
<1> QED
  BY <1>1, <1>2, <1>3, <1>4

\* What has arrived and is taken.
LEMMA Taken ==
    ASSUME ServerType, NEW n \in 0 .. Len(net), net' = SubSeq(net, n + 1, Len(net))
    PROVE  /\ net' \in Seq(Sendable) /\ Len(net') <= sent
           /\ \A k \in 1 .. Len(net') : \E j \in 1 .. Len(net) : net'[k] = net[j]
<1>1. /\ net \in Seq(Sendable) /\ Len(net) \in Nat /\ n \in Nat /\ n <= Len(net)
      /\ sent \in Nat /\ Len(net) <= sent
  BY DEF ServerType
<1>2. \A k \in n + 1 .. Len(net) : net[k] \in Sendable
  BY <1>1
<1>3. /\ net' \in Seq(Sendable)
      /\ Len(net') = IF n + 1 <= Len(net) THEN Len(net) - (n + 1) + 1 ELSE 0
      /\ \A k \in 1 .. Len(net) - (n + 1) + 1 : net'[k] = net[n + 1 + k - 1]
  BY <1>1, <1>2, SubSeqProperties
<1>4. Len(net') = Len(net) - n
  BY <1>1, <1>3
<1>5. ASSUME NEW k \in 1 .. Len(net') PROVE \E j \in 1 .. Len(net) : net'[k] = net[j]
  <2>1. k \in 1 .. Len(net) - (n + 1) + 1 /\ n + 1 + k - 1 \in 1 .. Len(net)
    BY <1>1, <1>4
  <2> QED
    BY <1>3, <2>1
<1>6. Len(net') <= sent
  BY <1>1, <1>4
<1> QED
  BY <1>3, <1>5, <1>6

\* The server and the user keep the invariant when they say and move as they may.
LEMMA SaysKeeps == NotifyInv /\ Says /\ Moves => NotifyInv'
<1> SUFFICES ASSUME NotifyInv, Says, Moves PROVE NotifyInv'
  OBVIOUS
<1> USE DEF NotifyInv
<1>1. /\ UNCHANGED <<rpc, response, responseType, responseStr, connectedList, signal, wpc, wtype,
                     shown, intact, alive>>
      /\ TypeInv
  BY DEF Says, receiverVars, argsVars, workerVars, TypeInv
<1>2. ArgsType' /\ ThreadsType' /\ FormType'
  BY <1>1 DEF ArgsType, ThreadsType, Moves
<1>3. /\ net' \in Seq(Sendable) /\ sent' \in 0 .. MaxMessages /\ Len(net') <= sent'
      /\ server'.created = {} =>
            \A k \in 1 .. Len(net') : Confirms(net'[k]) =>
                \E j \in 1 .. Len(net) : net'[k] = net[j]
  <2>1. CASE UNCHANGED <<net, sent>>
    BY <2>1 DEF ServerType
  <2>2. CASE \E m \in Sendable : Reply(m) /\ (Confirms(m) => server'.created # {})
    BY <1>1, <2>2, Sent
  <2> QED
    BY <2>1, <2>2 DEF Says
<1>4. ServerType'
  BY <1>3 DEF Says, ServerType
<1>5. ScreenInv'
  BY <1>1 DEF ScreenInv, Moves
<1>6. FollowsInv'
  BY <1>1 DEF FollowsInv, Current
<1>7. CreatorsInv'
  <2> SUFFICES ASSUME server'.created = {} PROVE NothingConfirmed'
    BY DEF CreatorsInv
  <2>1. NothingConfirmed
    BY DEF CreatorsInv, Says
  <2>2. \A k \in 1 .. Len(net') : ~Confirms(net'[k])
    BY <1>3, <2>1 DEF NothingConfirmed
  <2>3. ~form'.start
    BY <2>1 DEF NothingConfirmed, Moves
  <2> QED
    BY <1>1, <2>1, <2>2, <2>3 DEF NothingConfirmed, Confirms
<1> QED
  BY <1>2, <1>4, <1>5, <1>6, <1>7

\* The receiver reads a message and stores it.
LEMMA ReceiverKeeps == NotifyInv /\ Receiver => NotifyInv'
<1> SUFFICES ASSUME NotifyInv, Receiver PROVE NotifyInv'
  OBVIOUS
<1> USE DEF NotifyInv
<1>1. CASE Receive
  <2>1. PICK n \in 1 .. Len(net) :
          /\ rpc = "read" /\ rpc' = "type"
          /\ response' = Head(net) /\ net' = SubSeq(net, n + 1, Len(net))
          /\ UNCHANGED <<responseType, responseStr, connectedList, signal, wpc, wtype, shown,
                         intact, alive, DataGridUpdateRequested, form, server, sent>>
    BY <1>1 DEF Receive, argsVars, workerVars
  <2>2. /\ net \in Seq(Sendable) /\ Len(net) \in Nat /\ n \in 0 .. Len(net)
        /\ 1 \in 1 .. Len(net) /\ net # <<>>
    BY <2>1 DEF ServerType
  <2>3. response' = net[1] /\ response' \in Messages /\ response'.number # 0
    BY <2>1, <2>2 DEF Sendable
  <2>4. /\ net' \in Seq(Sendable) /\ Len(net') <= sent
        /\ \A k \in 1 .. Len(net') : \E j \in 1 .. Len(net) : net'[k] = net[j]
    BY <2>1, <2>2, Taken
  <2>5. ArgsType' /\ ThreadsType' /\ FormType' /\ ServerType'
    BY <2>1, <2>3, <2>4 DEF ArgsType, ThreadsType, FormType, ServerType
  <2>6. ScreenInv'
    BY <2>1 DEF ScreenInv
  <2>7. FollowsInv'
    BY <2>1 DEF FollowsInv, Current
  <2>8. ASSUME NothingConfirmed PROVE NothingConfirmed'
    <3>1. \A k \in 1 .. Len(net') : ~Confirms(net'[k])
      BY <2>4, <2>8 DEF NothingConfirmed
    <3>2. ~Confirms(response')
      BY <2>2, <2>3, <2>8 DEF NothingConfirmed
    <3> QED
      BY <2>1, <2>8, <3>1, <3>2 DEF NothingConfirmed, Confirms
  <2> QED
    BY <2>1, <2>5, <2>6, <2>7, <2>8 DEF CreatorsInv
<1>2. CASE StoreType
  <2>1. /\ rpc = "type" /\ rpc' = "data" /\ responseType' = response.number
        /\ UNCHANGED <<response, responseStr, connectedList, signal, wpc, wtype, shown, intact,
                       alive, DataGridUpdateRequested, form, net, server, sent>>
    BY <1>2 DEF StoreType, workerVars
  <2>2. response.number \in Numbers
    BY MessageParts DEF ThreadsType
  <2>3. ArgsType' /\ ThreadsType' /\ FormType' /\ ServerType'
    BY <2>1, <2>2 DEF ArgsType, ThreadsType, FormType, ServerType
  <2>4. ScreenInv' /\ FollowsInv'
    BY <2>1 DEF ScreenInv, FollowsInv
  <2>5. CreatorsInv'
    BY <2>1 DEF CreatorsInv, NothingConfirmed, Confirms
  <2> QED
    BY <2>3, <2>4, <2>5
<1>3. CASE StoreData
  <2>1. /\ rpc = "data" /\ rpc' = "set" /\ response' = NoMessage
        /\ UNCHANGED <<responseType, signal, wpc, wtype, shown, intact, alive,
                       DataGridUpdateRequested, form, net, server, sent>>
        /\ \/ response.number = 6 /\ connectedList' = response.data /\ UNCHANGED responseStr
           \/ response.number # 6 /\ responseStr' = response.data /\ UNCHANGED connectedList
    BY <1>3 DEF StoreData, workerVars
  <2>2. /\ NoMessage \in Messages /\ ~Confirms(NoMessage)
        /\ response.number # 0
        /\ response.number = 6 => response.data \in SUBSET Users
        /\ response.number # 6 =>
              response.data \in Texts /\ (~Confirms(response) => response.data[1] # "OK")
    BY <2>1, MessageParts DEF ThreadsType, NoMessage, Message, Messages, Confirms
  <2>3. ArgsType' /\ ThreadsType' /\ FormType' /\ ServerType'
    BY <2>1, <2>2 DEF ArgsType, ThreadsType, FormType, ServerType
  <2>4. ScreenInv' /\ FollowsInv'
    BY <2>1 DEF ScreenInv, FollowsInv
  <2>5. ASSUME NothingConfirmed PROVE NothingConfirmed'
    <3>1. responseStr'[1] # "OK" /\ ~Confirms(response')
      BY <2>1, <2>2, <2>5 DEF NothingConfirmed
    <3>2. \A k \in 1 .. Len(net') : ~Confirms(net'[k])
      BY <2>1, <2>5 DEF NothingConfirmed
    <3>3. ~Confirms(shown') /\ ~form'.start
      BY <2>1, <2>5 DEF NothingConfirmed
    <3> QED
      BY <3>1, <3>2, <3>3 DEF NothingConfirmed, Confirms
  <2> QED
    BY <2>1, <2>3, <2>4, <2>5 DEF CreatorsInv
<1>4. CASE Set
  <2>1. /\ rpc = "set" /\ rpc' = "read" /\ signal' = TRUE
        /\ UNCHANGED <<response, responseType, responseStr, connectedList, wpc, wtype, shown,
                       alive, DataGridUpdateRequested, form, net, server, sent>>
    BY <1>4 DEF Set, argsVars, workerVars
  <2>2. ArgsType' /\ ThreadsType' /\ FormType' /\ ServerType'
    BY <2>1 DEF ArgsType, ThreadsType, FormType, ServerType
  <2>3. ScreenInv' /\ FollowsInv'
    BY <2>1 DEF ScreenInv, FollowsInv
  <2>4. CreatorsInv'
    BY <2>1 DEF CreatorsInv, NothingConfirmed, Confirms
  <2> QED
    BY <2>2, <2>3, <2>4
<1> QED
  BY <1>1, <1>2, <1>3, <1>4 DEF Receiver

\* The worker finds a message in the fields, and a confirmation only if one was stored.
LEMMA CurrentType ==
    ASSUME ArgsType, NEW number \in Numbers
    PROVE  /\ Current(number) \in Messages
           /\ Confirms(Current(number)) => responseStr[1] = "OK"
  BY DEF ArgsType, Numbers, Current, Message, Messages, Confirms

\* The worker wakes and reads the number.
LEMMA WakeKeeps == NotifyInv /\ (Wake \/ ReadType) => NotifyInv'
<1> SUFFICES ASSUME NotifyInv, Wake \/ ReadType PROVE NotifyInv'
  OBVIOUS
<1> USE DEF NotifyInv
<1>1. /\ UNCHANGED <<rpc, response, responseType, responseStr, connectedList, shown, intact,
                     alive, DataGridUpdateRequested, form, net, server, sent>>
      /\ signal' \in {signal, FALSE}
      /\ \/ wpc' = "woken" /\ UNCHANGED wtype
         \/ wpc' = "typed" /\ wtype' = responseType /\ UNCHANGED signal
  BY DEF Wake, ReadType, receiverVars, argsVars
<1>2. signal' \in BOOLEAN
  BY <1>1 DEF ArgsType
<1>3. ArgsType' /\ ThreadsType' /\ FormType' /\ ServerType'
  BY <1>1, <1>2 DEF ArgsType, ThreadsType, FormType, ServerType
<1>4. ScreenInv'
  BY <1>1 DEF ScreenInv
<1>5. FollowsInv'
  BY <1>1 DEF FollowsInv
<1>6. CreatorsInv'
  BY <1>1 DEF CreatorsInv, NothingConfirmed, Confirms
<1> QED
  BY <1>3, <1>4, <1>5, <1>6

\* An aborted receiver leaves no message, and the history remembers a half-stored one.
LEMMA Aborts ==
    ASSUME ThreadsType, AbortReceiver
    PROVE  /\ rpc' = "off" /\ response' \in Messages /\ ~Confirms(response')
           /\ intact' => intact /\ rpc \notin {"data", "set"}
  BY DEF ThreadsType, AbortReceiver, NoMessage, Message, Messages, Confirms

\* The worker reads the rest and invokes a handler.
LEMMA DispatchKeeps == NotifyInv /\ Dispatch => NotifyInv'
<1> SUFFICES ASSUME NotifyInv, Dispatch PROVE NotifyInv'
  OBVIOUS
<1> USE DEF NotifyInv
<1> DEFINE m == Current(wtype)
           onForm == form.screen \notin {"login", "welcome"}
<1>1. /\ m \in Messages
      /\ Confirms(m) => responseStr[1] = "OK"
  BY CurrentType DEF ThreadsType
<1>2. /\ alive /\ wpc = "typed" /\ shown' = m /\ wtype' = 0
      /\ UNCHANGED <<responseType, responseStr, connectedList, signal, DataGridUpdateRequested,
                     net, server, sent>>
  BY DEF Dispatch, argsVars
<1>3. /\ wpc' \in {"wait", "popup", "playing"}
      /\ wpc' \in {"popup", "playing"} => onForm /\ form' = form
      /\ form' = form \/ (onForm /\ form' = Handled(form, m))
      /\ wpc' = "playing" => AbortReceiver
      /\ wpc' # "playing" => UNCHANGED <<rpc, response, intact>>
  BY DEF Dispatch, receiverVars
<1> HIDE DEF m
<1>4. /\ form' \in Forms
      /\ form'.screen \in {form.screen, "party", "main"}
      /\ form'.start => form.start \/ Confirms(m)
  BY <1>1, <1>3, HandledForm DEF HandledWell, FormType
<1>5. /\ rpc' \in {"off", "read", "type", "data", "set"} /\ response' \in Messages
      /\ rpc' \in {"type", "data"} => response'.number # 0
      /\ rpc' = rpc \/ rpc' = "off"
      /\ wpc' = "playing" => rpc' = "off"
      /\ intact' /\ rpc' \notin {"data", "set"} => intact /\ rpc \notin {"data", "set"}
      /\ ~Confirms(response) => ~Confirms(response')
  BY <1>3, Aborts DEF ThreadsType, Confirms
<1>6. ArgsType' /\ ThreadsType' /\ FormType' /\ ServerType'
  BY <1>1, <1>2, <1>3, <1>4, <1>5 DEF ArgsType, ThreadsType, FormType, ServerType, Numbers
<1>7. ScreenInv'
  BY <1>3, <1>4, <1>5 DEF ScreenInv
<1>8. FollowsInv'
  <2>1. ASSUME intact', ~signal', rpc' \notin {"data", "set"} PROVE shown' = Current(responseType)'
    BY <1>2, <1>5, <2>1 DEF FollowsInv, m, Current
  <2> QED
    BY <1>3, <2>1 DEF FollowsInv
<1>9. ASSUME NothingConfirmed PROVE NothingConfirmed'
  <2>1. ~Confirms(m) /\ ~form'.start
    BY <1>1, <1>4, <1>9 DEF NothingConfirmed
  <2>2. ~Confirms(response')
    BY <1>5, <1>9 DEF NothingConfirmed
  <2> QED
    BY <1>2, <1>9, <2>1, <2>2 DEF NothingConfirmed, Confirms
<1> QED
  BY <1>2, <1>6, <1>7, <1>8, <1>9 DEF CreatorsInv

\* What the handler does after its box or the game.
LEMMA DismissKeeps == NotifyInv /\ (Dismiss \/ GameEnds) => NotifyInv'
<1> SUFFICES ASSUME NotifyInv, Dismiss \/ GameEnds PROVE NotifyInv'
  OBVIOUS
<1> USE DEF NotifyInv
<1>1. /\ form' = Handled(form, shown) /\ wpc \in {"popup", "playing"} /\ wpc' = "wait"
      /\ UNCHANGED <<response, responseType, responseStr, connectedList, signal, wtype, shown,
                     intact, alive, DataGridUpdateRequested, server, sent>>
      /\ \/ UNCHANGED <<rpc, net>>
         \/ /\ wpc = "playing" /\ rpc' = "read"
            /\ \E n \in 0 .. Len(net) : net' = SubSeq(net, n + 1, Len(net))
  BY DEF Dismiss, GameEnds, receiverVars, argsVars
<1>2. /\ net' \in Seq(Sendable) /\ Len(net') <= sent
      /\ \A k \in 1 .. Len(net') : \E j \in 1 .. Len(net) : net'[k] = net[j]
  BY <1>1, Taken DEF ServerType
<1>3. /\ form' \in Forms /\ form'.screen \in {form.screen, "party", "main"}
      /\ form'.start => form.start \/ Confirms(shown)
  BY <1>1, HandledForm DEF HandledWell, FormType, ThreadsType
<1>4. ArgsType' /\ ThreadsType' /\ FormType' /\ ServerType'
  BY <1>1, <1>2, <1>3 DEF ArgsType, ThreadsType, FormType, ServerType
<1>5. form.screen \notin {"login", "welcome"}
  BY <1>1 DEF ScreenInv
<1>6. ScreenInv'
  BY <1>1, <1>3, <1>5 DEF ScreenInv
<1>7. FollowsInv'
  <2>1. rpc \notin {"data", "set"} \/ UNCHANGED rpc
    BY <1>1 DEF ScreenInv
  <2>2. ~signal /\ intact /\ alive /\ rpc \notin {"data", "set"} => shown = Current(responseType)
    BY <1>1 DEF FollowsInv
  <2>3. Current(responseType)' = Current(responseType)
    BY <1>1 DEF Current
  <2> QED
    BY <1>1, <2>1, <2>2, <2>3 DEF FollowsInv
<1>8. ASSUME NothingConfirmed PROVE NothingConfirmed'
  <2>1. \A k \in 1 .. Len(net') : ~Confirms(net'[k])
    BY <1>2, <1>8 DEF NothingConfirmed
  <2>2. ~form'.start
    BY <1>3, <1>8 DEF NothingConfirmed
  <2> QED
    BY <1>1, <1>8, <2>1, <2>2 DEF NothingConfirmed, Confirms
<1> QED
  BY <1>1, <1>4, <1>6, <1>7, <1>8 DEF CreatorsInv

\* A login starts the receiver.
LEMMA LoginKeeps == NotifyInv /\ Login => NotifyInv'
<1> SUFFICES ASSUME NotifyInv, Login PROVE NotifyInv'
  OBVIOUS
<1> USE DEF NotifyInv
<1>1. /\ form' = [form EXCEPT !.screen = "welcome"] /\ form.screen = "login" /\ wpc = "wait"
      /\ rpc' = "read" /\ sent' = sent + 1 /\ sent < MaxMessages
      /\ UNCHANGED <<response, responseType, responseStr, connectedList, signal, wpc, wtype,
                     shown, intact, alive, DataGridUpdateRequested, net, server>>
  BY DEF Login, Free, argsVars, workerVars
<1>2. form' \in Forms /\ form'.screen = "welcome" /\ form'.start = form.start
  BY <1>1 DEF FormType, Forms, Screens
<1>3. /\ sent' \in 0 .. MaxMessages /\ Len(net') <= sent' /\ net' \in Seq(Sendable)
  <2>1. MaxMessages \in Nat /\ sent \in Nat /\ Len(net) <= sent /\ net \in Seq(Sendable)
    BY NotifyAssumption DEF ServerType
  <2>2. Len(net) \in Nat
    BY <2>1
  <2> QED
    BY <1>1, <2>1, <2>2
<1>4. ArgsType' /\ ThreadsType' /\ FormType' /\ ServerType'
  BY <1>1, <1>2, <1>3 DEF ArgsType, ThreadsType, FormType, ServerType
<1>5. ScreenInv'
  BY <1>1, <1>2 DEF ScreenInv
<1>6. FollowsInv'
  BY <1>1 DEF FollowsInv, ScreenInv, Current
<1>7. CreatorsInv'
  BY <1>1, <1>2 DEF CreatorsInv, NothingConfirmed, Confirms
<1> QED
  BY <1>4, <1>5, <1>6, <1>7

\* Closing the window ends the receiver and drops what was on its way.
LEMMA ClosingKeeps == NotifyInv /\ QueriesForm_FormClosing => NotifyInv'
<1> SUFFICES ASSUME NotifyInv, QueriesForm_FormClosing PROVE NotifyInv'
  OBVIOUS
<1> USE DEF NotifyInv
<1>1. /\ wpc \notin {"popup", "playing"} /\ AbortReceiver /\ DataGridUpdateRequested' = 0
      /\ net' = <<>> /\ form' = NewForm("login")
      /\ server' = [NoServer EXCEPT !.used = server.used, !.created = server.created]
      /\ UNCHANGED <<responseType, responseStr, connectedList, signal, wpc, wtype, shown,
                     alive, sent>>
  BY DEF QueriesForm_FormClosing, Free, argsVars, workerVars
<1>2. form' \in Forms /\ form'.screen = "login" /\ ~form'.start
  BY <1>1, NewFormType DEF Screens
<1>3. /\ rpc' = "off" /\ response' \in Messages /\ ~Confirms(response')
      /\ intact' => intact /\ rpc \notin {"data", "set"}
  BY <1>1, Aborts
<1>4. server' \in Servers /\ server'.created = server.created /\ server'.used = server.used
  BY <1>1 DEF ServerType, Servers, NoServer, Names
<1>5. net' \in Seq(Sendable) /\ Len(net') = 0
  BY <1>1
<1>6. sent \in Nat
  BY NotifyAssumption DEF ServerType
<1>7. ArgsType' /\ ThreadsType' /\ FormType'
  BY <1>1, <1>2, <1>3 DEF ArgsType, ThreadsType, FormType
<1>8. ServerType'
  BY <1>1, <1>4, <1>5, <1>6 DEF ServerType
<1>9. ScreenInv'
  BY <1>1, <1>3 DEF ScreenInv
<1>10. FollowsInv'
  BY <1>1, <1>3 DEF FollowsInv, Current
<1>11. ASSUME NothingConfirmed PROVE NothingConfirmed'
  <2>1. \A k \in 1 .. Len(net') : FALSE
    BY <1>5
  <2> QED
    BY <1>1, <1>2, <1>3, <1>11, <2>1 DEF NothingConfirmed, Confirms
<1> QED
  BY <1>4, <1>7, <1>8, <1>9, <1>10, <1>11 DEF CreatorsInv

\* It holds at the start.
LEMMA NotifyStarts == NotifyInit => NotifyInv
<1> SUFFICES ASSUME NotifyInit PROVE NotifyInv
  OBVIOUS
<1>1. form \in Forms /\ form.screen = "login" /\ ~form.start
  BY NewFormType DEF NotifyInit, Screens
<1>2. NoMessage \in Messages /\ ~Confirms(NoMessage) /\ NoMessage = Message(0, {})
  BY DEF NoMessage, Message, Messages, Confirms
<1>3. NoText \in Texts /\ NoText[1] # "OK"
  BY DEF NoText, Texts
<1>4. NoServer \in Servers /\ NoServer.created = {} /\ NoServer.used = {}
  BY DEF NoServer, Servers, Names
<1>5. <<>> \in Seq(Sendable) /\ Len(<<>>) = 0
  OBVIOUS
<1>6. ArgsType /\ ThreadsType /\ FormType
  BY <1>1, <1>2, <1>3 DEF NotifyInit, ArgsType, ThreadsType, FormType, Numbers
<1>7. ServerType
  BY <1>4, <1>5, NotifyAssumption DEF NotifyInit, ServerType
<1>8. ScreenInv
  BY <1>1 DEF NotifyInit, ScreenInv
<1>9. FollowsInv
  BY <1>2 DEF NotifyInit, FollowsInv, Current
<1>10. CreatorsInv
  <2>1. \A k \in 1 .. Len(net) : FALSE
    BY <1>5 DEF NotifyInit
  <2> QED
    BY <1>1, <1>2, <1>3, <2>1 DEF NotifyInit, CreatorsInv, NothingConfirmed
<1> QED
  BY <1>6, <1>7, <1>8, <1>9, <1>10 DEF NotifyInv

\* Every step keeps it.
LEMMA NotifyKeeps == NotifyInv /\ [NotifyNext]_notifyVars => NotifyInv'
<1> SUFFICES ASSUME NotifyInv, [NotifyNext]_notifyVars PROVE NotifyInv'
  OBVIOUS
<1>1. TypeInv
  BY DEF NotifyInv, TypeInv
<1>2. CASE ServerEvent
  BY <1>1, <1>2, ServerSays, SaysKeeps
<1>3. CASE User
  BY <1>1, <1>3, NavigateSays, CreateSays, AnswerSays, PartySays, SaysKeeps, LoginKeeps,
     ClosingKeeps DEF User
<1>4. CASE Receiver \/ Worker \/ Dismiss \/ GameEnds
  BY <1>4, ReceiverKeeps, WakeKeeps, DispatchKeeps, DismissKeeps DEF Worker
<1>5. CASE UNCHANGED notifyVars
  <2> USE DEF notifyVars, receiverVars, argsVars, workerVars
  <2>1. (ArgsType /\ ThreadsType /\ FormType /\ ServerType)'
    BY <1>5 DEF NotifyInv, ArgsType, ThreadsType, FormType, ServerType
  <2>2. ScreenInv' /\ FollowsInv' /\ CreatorsInv'
    BY <1>5 DEF NotifyInv, ScreenInv, FollowsInv, Current, CreatorsInv, NothingConfirmed, Confirms
  <2> QED
    BY <2>1, <2>2 DEF NotifyInv
<1> QED
  BY <1>2, <1>3, <1>4, <1>5 DEF NotifyNext

\* The invariant holds throughout.
LEMMA NotifyAlways == NotifySpec => []NotifyInv
  BY NotifyStarts, NotifyKeeps, PTL DEF NotifySpec

-----------------------------------------------------------------------------
(***************************************************************************)
(* The theorems.                                                           *)
(***************************************************************************)

\* Threads, fields, form and server stay within their types, and the bound on messages holds.
THEOREM NotifyTypes == NotifySpec => []NotifyTypeOK
<1>1. NotifyInv => NotifyTypeOK
  <2> SUFFICES ASSUME NotifyInv PROVE NotifyTypeOK
    OBVIOUS
  <2>1. /\ form.screen \in Screens /\ form.gameName \in Names
        /\ form.selected \in Seq(Rows) /\ form.grid \subseteq Rows
    BY DEF NotifyInv, FormType, Forms
  <2>2. Len(net) <= MaxMessages
    <3>1. /\ net \in Seq(Sendable) /\ sent \in 0 .. MaxMessages /\ Len(net) <= sent
          /\ MaxMessages \in Nat
      BY NotifyAssumption DEF NotifyInv, ServerType
    <3>2. Len(net) \in Nat
      BY <3>1
    <3> QED
      BY <3>1, <3>2
  <2>3. server.member \in Names /\ server.created \subseteq server.used
    BY DEF NotifyInv, ServerType, Servers
  <2> QED
    BY <2>1, <2>2, <2>3 DEF NotifyInv, NotifyTypeOK, ArgsType, ThreadsType, FormType, ServerType,
       Numbers, Names, Rows
<1> QED
  BY <1>1, NotifyAlways, PTL

\* Although the receiver and the worker share ReceiverArgs without a lock, a worker at rest
\* has shown the last message that was stored, number and text.
THEOREM RestIsCurrent == NotifySpec => []QuietIsCurrent
<1>1. NotifyInv => QuietIsCurrent
  BY DEF NotifyInv, FollowsInv, QuietIsCurrent
<1> QED
  BY <1>1, NotifyAlways, PTL

\* A client that created no party is never offered the buttons that start or cancel one.
THEOREM GuestsCannotStart == NotifySpec => []OnlyCreatorsStart
<1>1. NotifyInv => OnlyCreatorsStart
  BY DEF NotifyInv, CreatorsInv, NothingConfirmed, OnlyCreatorsStart
<1> QED
  BY <1>1, NotifyAlways, PTL
=============================================================================
