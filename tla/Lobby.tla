-------------------------------- MODULE Lobby --------------------------------
(***************************************************************************)
(* The threads that serve the connected players (attendClient, cases 7, 9  *)
(* and 12 and 101/LEAVE of main.c) working on the table of module          *)
(* GameTable, together with what the queries form of each client can send. *)
(*                                                                         *)
(* A request is served in several critical sections, and what one section  *)
(* read (a game, a position in its party) is used by the next after the    *)
(* mutex was released; pc says which section comes next.  A section that   *)
(* dereferences a game or player that was freed in between has no defined  *)
(* outcome: the step sets "faulted" and the model says nothing after it.   *)
(*                                                                         *)
(* Notifications to the clients are delivered in the step that hands them  *)
(* to the sender; module GameSender models how they can be lost.  An       *)
(* invitation nobody answers stands for a lost one.                        *)
(***************************************************************************)
EXTENDS GameTable, Sequences

CONSTANTS Creators,     \* the users who create games
          InviteLists   \* the lists of users that a creation request may carry

ASSUME LobbyAssumption == /\ Creators \subseteq Users
                          /\ InviteLists \subseteq Seq(Users)

VARIABLES
    \* Local variables of the thread serving each user.
    pc,         \* the critical section that comes next
    preGame,    \* pointer to the game the user is in, possibly dangling
    preGameUser, \* the player whose record the thread points to, with its game
    gameId,     \* slot used to reach the sender and the processor of a game
    target,     \* the game of the request being served
    asking,     \* the name of the game in the request being served
    pos,        \* a position read by GetPreGameUserPosByName
    todo,       \* invited users still to be added
    \* Arguments of the threads that serve each slot.
    senderGame, \* gameSenderArgs[slot]->game
    processor,  \* what START wrote into gameProcessorArgs[slot], or NULL
    \* The client's side.
    invites,    \* names in the user's menu of pending invitations
    party,      \* the user's screen: "none", "creator", "guest" or "playing"
    partyName,  \* the form's gameName
    \* A dangling or null pointer was dereferenced.
    faulted

sessionVars == <<pc, preGame, preGameUser, gameId, target, asking, pos, todo>>
threadVars  == <<senderGame, processor>>
clientVars  == <<invites, party, partyName>>
lobbyVars   == <<tableVars, sessionVars, threadVars, clientVars, faulted>>

Labels == {"idle", "adding", "inviting", "announcing", "accepting", "marking",
           "rejecting", "removing", "checking", "telling", "dropping", "cancelling",
           "starting", "closing", "reporting", "hung"}

\* left counts the departures: inGamePlayers of the processor is n_players - left.
ProcessorArgs == [gameId : Slots, n_players : 0 .. MaxUsers, left : Nat]

LobbyTypeOK ==
    /\ pc \in [Users -> Labels]
    /\ preGame \in [Users -> Games \cup {NULL}]
    /\ preGameUser \in [Users -> (Games \X Users) \cup {NULL}]
    /\ gameId \in [Users -> Slots \cup {-2, -1}]
    /\ target \in [Users -> Games \cup {NULL}]
    /\ asking \in [Users -> Names \cup {NULL}]
    /\ pos \in [Users -> Index \cup {-1}]
    /\ todo \in [Users -> Seq(Users)]
    /\ senderGame \in [Slots -> Games \cup {NULL}]
    /\ processor \in [Slots -> ProcessorArgs \cup {NULL}]
    /\ invites \in [Users -> SUBSET Names]
    /\ party \in [Users -> {"none", "creator", "guest", "playing"}]
    /\ partyName \in [Users -> Names \cup {NULL}]
    /\ faulted \in BOOLEAN

LobbyInit ==
    /\ Init
    /\ pc = [u \in Users |-> "idle"]
    /\ preGame = [u \in Users |-> NULL]     \* uninitialised in the code
    /\ preGameUser = [u \in Users |-> NULL] \* uninitialised in the code
    /\ gameId = [u \in Users |-> -1]        \* uninitialised in the code
    /\ target = [u \in Users |-> NULL]
    /\ asking = [u \in Users |-> NULL]
    /\ pos = [u \in Users |-> -1]
    /\ todo = [u \in Users |-> <<>>]
    /\ senderGame = [s \in Slots |-> NULL]
    /\ processor = [s \in Slots |-> NULL]
    /\ invites = [u \in Users |-> {}]
    /\ party = [u \in Users |-> "none"]
    /\ partyName = [u \in Users |-> NULL]
    /\ faulted = FALSE

\* A thread inside GetPreGameStateByName's endless loop keeps the mutex.
MutexFree == \A u \in Users : pc[u] # "hung"

Live(p) == p # NULL /\ Listed(p)

\* The game's creator points to a player's record that a rejection may free.
CreatorLive(p) == Live(p) /\ game[p].creator \in Members(p)

SenderLive(u) == gameId[u] \in Slots /\ Live(senderGame[gameId[u]])

\* preGameUser points to a player of a listed game.
PlayerLive(u) == preGameUser[u] # NULL /\ LET p == preGameUser[u]
                                          IN Live(p[1]) /\ p[2] \in Members(p[1])

\* The session moves from one label to the next.
Goto(u, from, to) == pc[u] = from /\ pc' = [pc EXCEPT ![u] = to]

\* Members of a game in a userState: the addressees of a notification.
InState(g, state) == {u \in Members(g) : game[g].user[u].userState = state}

\* The request is over; its local variables are dead.
Finish(u) ==
    /\ target' = [target EXCEPT ![u] = NULL]
    /\ asking' = [asking EXCEPT ![u] = NULL]
    /\ pos' = [pos EXCEPT ![u] = -1]

\* The step's pointer is not live.
Fault ==
    /\ faulted' = TRUE
    /\ UNCHANGED <<tableVars, sessionVars, threadVars, clientVars>>

-----------------------------------------------------------------------------
(***************************************************************************)
(* Request 7: create a game and invite.                                    *)
(***************************************************************************)

\* GameNameAvailable, then CreateGame on memory nobody else sees yet.  A taken
\* name is answered EXISTS and changes nothing.
RequestCreate(u, g, name, list) ==
    /\ u \in Creators /\ party[u] = "none"
    /\ MutexFree
    /\ GameNameAvailable(name)
    /\ CreateGame(g, u, name)
    /\ Goto(u, "idle", "adding")
    /\ preGame' = [preGame EXCEPT ![u] = g]
    /\ target' = [target EXCEPT ![u] = g]
    /\ asking' = [asking EXCEPT ![u] = name]
    /\ todo' = [todo EXCEPT ![u] = list]
    /\ partyName' = [partyName EXCEPT ![u] = name]
    /\ UNCHANGED <<preGameUser, gameId, pos, threadVars, invites, party, faulted>>

AddRefused(u) ==
    /\ MutexFree
    /\ Goto(u, "adding", "idle")
    /\ gameId' = [gameId EXCEPT ![u] = IF TableFull THEN -1 ELSE -2]
    /\ RefuseGame(target[u])
    /\ todo' = [todo EXCEPT ![u] = <<>>]
    /\ Finish(u)
    /\ UNCHANGED <<preGame, preGameUser, threadVars, clientVars, faulted>>

\* The session keeps the creator's record as its own.
AddDone(u) ==
    /\ MutexFree
    /\ Goto(u, "adding", "inviting")
    /\ AddGameToGameTable(target[u])
    /\ gameId' = [gameId EXCEPT ![u] = game'[target[u]].gameId]
    /\ preGameUser' = [preGameUser EXCEPT ![u] = <<target[u], u>>]
    /\ UNCHANGED <<preGame, target, asking, pos, todo, threadVars, clientVars, faulted>>

\* Faulty variant: the list is not checked for members.
InviteNextUnchecked(u) ==
    /\ pc[u] = "inviting" /\ todo[u] # <<>>
    /\ Live(target[u]) /\ game[target[u]].userCount < MaxUsers
    /\ todo' = [todo EXCEPT ![u] = Tail(todo[u])]
    /\ game' = [game EXCEPT ![target[u]] = WithUser(@, Head(todo[u]), Invited)]
    /\ UNCHANGED <<createdGames, gameCount, pc, preGame, preGameUser, gameId, target,
                   asking, pos, threadVars, clientVars, faulted>>

\* The next user of the list joins.  It does not when it is not connected
\* (any user may be offline), is already a member or finds the party full.
InviteNext(u) ==
    /\ pc[u] = "inviting" /\ todo[u] # <<>>
    /\ Live(target[u])
    /\ todo' = [todo EXCEPT ![u] = Tail(todo[u])]
    /\ \/ AddPreGameUser(target[u], Head(todo[u])) /\ MutexFree
       \/ UNCHANGED tableVars
    /\ UNCHANGED <<pc, preGame, preGameUser, gameId, target, asking, pos, threadVars,
                   clientVars, faulted>>

\* With company: the sender of the slot gets the game and the invited players
\* get the notification, which names the creator.
Announce(u) ==
    LET g == target[u] IN
    /\ MutexFree
    /\ todo[u] = <<>>
    /\ Goto(u, "inviting", "idle")
    /\ CreatorLive(g) /\ game[g].userCount > 1
    /\ senderGame' = [senderGame EXCEPT ![gameId[u]] = g]
    /\ invites' = [v \in Users |-> IF v \in InState(g, Invited)
                                   THEN invites[v] \cup {asking[u]} ELSE invites[v]]
    /\ party' = [party EXCEPT ![u] = "creator"]
    /\ Finish(u)
    /\ UNCHANGED <<tableVars, preGame, preGameUser, gameId, todo, processor, partyName,
                   faulted>>

\* Alone: the game is deleted but preGame keeps its address.
CreatedAlone(u) ==
    /\ MutexFree
    /\ todo[u] = <<>>
    /\ Goto(u, "inviting", "idle")
    /\ Live(target[u]) /\ game[target[u]].userCount <= 1
    /\ DeleteGameFromTable(target[u])
    /\ Finish(u)
    /\ UNCHANGED <<preGame, preGameUser, gameId, todo, threadVars, clientVars, faulted>>

-----------------------------------------------------------------------------
(***************************************************************************)
(* The lookup that opens requests 9/ACCEPT and 9/REJECT.                   *)
(***************************************************************************)

\* The player picks an entry of the invitation menu, from whatever screen;
\* leaving a party sends the same request as rejecting an invitation to it.
MayAccept(u, name) == party[u] # "playing" /\ name \in invites[u]
MayReject(u, name) == MayAccept(u, name) \/ (party[u] = "guest" /\ partyName[u] = name)

\* The lookup does not terminate and its thread never releases the mutex.
LookupForever(u, name) ==
    /\ MutexFree
    /\ MayReject(u, name)
    /\ LookupHangs(name)
    /\ Goto(u, "idle", "hung")
    /\ asking' = [asking EXCEPT ![u] = name]
    /\ UNCHANGED <<tableVars, preGame, preGameUser, gameId, target, pos, todo, threadVars,
                   clientVars, faulted>>

\* The form remembers the name when the button is pressed; preGame is assigned
\* before anything is known of the user's place in the game.
RequestAccept(u, name, g) ==
    /\ MutexFree
    /\ MayAccept(u, name)
    /\ LookupFinds(name, g)
    /\ Goto(u, "idle", "accepting")
    /\ preGame' = [preGame EXCEPT ![u] = g]
    /\ target' = [target EXCEPT ![u] = g]
    /\ asking' = [asking EXCEPT ![u] = name]
    /\ partyName' = [partyName EXCEPT ![u] = name]
    /\ UNCHANGED <<tableVars, preGameUser, gameId, pos, todo, threadVars, invites, party,
                   faulted>>

RequestReject(u, name, g) ==
    /\ MutexFree
    /\ MayReject(u, name)
    /\ LookupFinds(name, g)
    /\ Goto(u, "idle", "rejecting")
    /\ gameId' = [gameId EXCEPT ![u] = game[g].gameId]
    /\ target' = [target EXCEPT ![u] = g]
    /\ asking' = [asking EXCEPT ![u] = name]
    /\ UNCHANGED <<tableVars, preGame, preGameUser, pos, todo, threadVars, clientVars,
                   faulted>>

\* GetPreGameUserPosByName, without the mutex.
FindPosition(u) ==
    /\ \/ Goto(u, "accepting", "marking")
       \/ Goto(u, "rejecting", "removing")
    /\ Live(target[u])
    /\ \E i \in Index \cup {-1} : /\ IsPosition(target[u], u, i)
                                  /\ pos' = [pos EXCEPT ![u] = i]
    /\ UNCHANGED <<tableVars, preGame, preGameUser, gameId, target, asking, todo,
                   threadVars, clientVars, faulted>>

\* The user was not in the game: FAIL.
NotInGame(u) ==
    /\ pos[u] = -1
    /\ \/ /\ MutexFree
          /\ Live(target[u])
          /\ Goto(u, "marking", "idle")
          /\ gameId' = [gameId EXCEPT ![u] = game[target[u]].gameId]
       \/ Goto(u, "removing", "idle") /\ UNCHANGED gameId
    /\ Finish(u)
    /\ UNCHANGED <<tableVars, preGame, preGameUser, todo, threadVars, clientVars, faulted>>

-----------------------------------------------------------------------------
(***************************************************************************)
(* Request 9/ACCEPT.                                                       *)
(***************************************************************************)

\* The player at the position read before is marked as accepted, whoever it
\* is by now, and the session keeps that record as its own.  A player freed by
\* a rejection may still be in the cell.
AcceptMark(u) ==
    LET v == game[target[u]].users[pos[u]] IN
    /\ MutexFree
    /\ pos[u] # -1
    /\ Live(target[u]) /\ v \in Members(target[u])
    /\ Goto(u, "marking", "reporting")
    /\ SetUserState(target[u], v, Accepted)
    /\ preGameUser' = [preGameUser EXCEPT ![u] = <<target[u], v>>]
    /\ gameId' = [gameId EXCEPT ![u] = game[target[u]].gameId]
    /\ invites' = [invites EXCEPT ![u] = @ \ {asking[u]}]
    /\ party' = [party EXCEPT ![u] = "guest"]
    /\ UNCHANGED <<preGame, target, asking, pos, todo, threadVars, partyName, faulted>>

\* The state of the party is written out and sent to the accepted players.
Report(u) ==
    /\ MutexFree
    /\ Live(target[u])
    /\ Goto(u, "reporting", "idle")
    /\ Finish(u)
    /\ UNCHANGED <<tableVars, preGame, preGameUser, gameId, todo, threadVars, clientVars,
                   faulted>>

-----------------------------------------------------------------------------
(***************************************************************************)
(* Request 9/REJECT.                                                       *)
(***************************************************************************)

\* The pointer in the cell read before is passed to the removal, which looks
\* for it among the members and only logs an error when it is not there.  A
\* session that points to the removed record points to nothing from then on.
RejectRemove(u) ==
    LET v == game[target[u]].users[pos[u]] IN
    /\ MutexFree
    /\ pos[u] # -1
    /\ Live(target[u])
    /\ Goto(u, "removing", "checking")
    /\ IF v \in Members(target[u])
       THEN /\ DeletePreGameUserWithCharIdResassignment(target[u], v)
            /\ preGameUser' = [w \in Users |-> IF preGameUser[w] = <<target[u], v>>
                                               THEN NULL ELSE preGameUser[w]]
       ELSE UNCHANGED <<tableVars, preGameUser>>
    /\ invites' = [invites EXCEPT ![u] = @ \ {asking[u]}]
    /\ party' = [party EXCEPT ![u] = IF @ = "guest" /\ partyName[u] = asking[u]
                                     THEN "none" ELSE @]
    /\ UNCHANGED <<preGame, gameId, target, asking, pos, todo, threadVars, partyName, faulted>>

\* Faulty variant: no answer when the creator is not alone.
RejectCheckSilent(u) ==
    /\ MutexFree
    /\ Live(target[u]) /\ IamAloneinGame(target[u])
    /\ Goto(u, "checking", "telling")
    /\ UNCHANGED <<tableVars, preGame, preGameUser, gameId, target, asking, pos, todo,
                   threadVars, clientVars, faulted>>

RejectCheck(u) ==
    /\ MutexFree
    /\ Live(target[u])
    /\ IF IamAloneinGame(target[u]) THEN Goto(u, "checking", "telling")
                                   ELSE Goto(u, "checking", "reporting")
    /\ UNCHANGED <<tableVars, preGame, preGameUser, gameId, target, asking, pos, todo,
                   threadVars, clientVars, faulted>>

\* The creator, whose name was copied without the mutex just before, is told
\* that it is alone, and its form leaves the party screen.
TellCreator(u) ==
    /\ MutexFree
    /\ CreatorLive(target[u])
    /\ Goto(u, "telling", "dropping")
    /\ party' = [party EXCEPT ![game[target[u]].creator] = "none"]
    /\ UNCHANGED <<tableVars, preGame, preGameUser, gameId, target, asking, pos, todo,
                   threadVars, invites, partyName, faulted>>

\* Deletion by the last one to reject, whose own preGame and gameId are reset.
RejectDelete(u) ==
    /\ MutexFree
    /\ Live(target[u])
    /\ Goto(u, "dropping", "idle")
    /\ DeleteGameFromTable(target[u])
    /\ preGame' = [preGame EXCEPT ![u] = NULL]
    /\ gameId' = [gameId EXCEPT ![u] = -1]
    /\ Finish(u)
    /\ UNCHANGED <<preGameUser, todo, threadVars, clientVars, faulted>>

-----------------------------------------------------------------------------
(***************************************************************************)
(* Requests 12/CHARACTER, 12/START and 12/CANCEL.                          *)
(***************************************************************************)

InParty(u) == party[u] \in {"creator", "guest"}

RequestCharacter(u, c) ==
    /\ MutexFree
    /\ InParty(u)
    /\ Live(preGame[u]) /\ u \in Members(preGame[u])
    /\ Goto(u, "idle", "reporting")
    /\ PreGameAssignChar(preGame[u], u, c)
    /\ target' = [target EXCEPT ![u] = preGame[u]]
    /\ UNCHANGED <<preGame, preGameUser, gameId, asking, pos, todo, threadVars, clientVars,
                   faulted>>

\* Otherwise START is answered NOTALLSELECTED and changes nothing.
RequestStart(u) ==
    /\ MutexFree
    /\ party[u] = "creator"
    /\ Live(preGame[u]) /\ AllHasCharacter(preGame[u])
    /\ Goto(u, "idle", "starting")
    /\ target' = [target EXCEPT ![u] = preGame[u]]
    /\ UNCHANGED <<tableVars, preGame, preGameUser, gameId, asking, pos, todo, threadVars,
                   clientVars, faulted>>

\* The players that START counts: those who accepted.
PlayersToWaitFor(g) == Cardinality(InState(g, Accepted))

\* The processor is told how many accepted players to wait for, in a second
\* pass over the party; then START goes out through the sender of the slot,
\* to the accepted players of that sender's game.
Start(u) ==
    LET g == preGame[u]
        s == gameId[u]
    IN
    /\ MutexFree
    /\ Live(g) /\ s \in Slots /\ Live(senderGame[s])
    /\ Goto(u, "starting", "closing")
    /\ processor' = [processor EXCEPT ![s] =
                        [gameId    |-> game[g].gameId,
                         n_players |-> PlayersToWaitFor(g),
                         left      |-> 0]]
    /\ party' = [v \in Users |-> IF v \in InState(senderGame[s], Accepted)
                                 THEN "playing" ELSE party[v]]
    /\ UNCHANGED <<tableVars, preGame, preGameUser, gameId, target, asking, pos, todo,
                   senderGame, invites, partyName, faulted>>

\* The invited players are told 9/LOSE with the creator's name, to which their
\* form, waiting for "LOST", does nothing.
CloseInvitations(u) ==
    /\ MutexFree
    /\ CreatorLive(preGame[u]) /\ SenderLive(u)
    /\ Goto(u, "closing", "idle")
    /\ Finish(u)
    /\ UNCHANGED <<tableVars, preGame, preGameUser, gameId, todo, threadVars, clientVars,
                   faulted>>

\* CANCEL is sent to the invited and then to the accepted players; the second
\* message may take the place of the first.  Receivers leave the party screen
\* and lose the entry of the invitation menu.
RequestCancel(u) ==
    LET s == gameId[u] IN
    /\ MutexFree
    /\ party[u] = "creator"
    /\ CreatorLive(preGame[u]) /\ SenderLive(u)
    /\ Goto(u, "idle", "cancelling")
    /\ target' = [target EXCEPT ![u] = preGame[u]]
    /\ \E states \in {{Invited, Accepted}, {Accepted}} :
          LET told == UNION {InState(senderGame[s], st) : st \in states}
          IN /\ party' = [v \in Users |-> IF v \in told \cup {u} THEN "none" ELSE party[v]]
             /\ invites' = [v \in Users |-> IF v \in told
                                THEN invites[v] \ {game[preGame[u]].gameName} ELSE invites[v]]
    /\ UNCHANGED <<tableVars, preGame, preGameUser, gameId, asking, pos, todo, threadVars,
                   partyName, faulted>>

\* Two seconds later the game is deleted; preGame is not reset.
CancelDelete(u) ==
    /\ MutexFree
    /\ Live(target[u])
    /\ Goto(u, "cancelling", "idle")
    /\ DeleteGameFromTable(target[u])
    /\ Finish(u)
    /\ UNCHANGED <<preGame, preGameUser, gameId, todo, threadVars, clientVars, faulted>>

-----------------------------------------------------------------------------
(***************************************************************************)
(* The end of a game, as far as the lobby sees it (module GameProcessor).  *)
(***************************************************************************)

\* 101/LEAVE: the player marked is the one preGameUser points to, in whatever
\* game it is, and the processor of gameId counts the departure.
RequestLeave(u) ==
    LET s == gameId[u] IN
    /\ MutexFree
    /\ pc[u] = "idle" /\ party[u] = "playing"
    /\ preGame[u] # NULL
    /\ PlayerLive(u) /\ s \in Slots /\ processor[s] # NULL
    /\ SetUserState(preGameUser[u][1], preGameUser[u][2], Left)
    /\ processor' = [processor EXCEPT ![s].left = @ + 1]
    /\ preGame' = [preGame EXCEPT ![u] = NULL]
    /\ preGameUser' = [preGameUser EXCEPT ![u] = NULL]
    /\ gameId' = [gameId EXCEPT ![u] = -1]
    /\ party' = [party EXCEPT ![u] = "none"]
    /\ UNCHANGED <<pc, target, asking, pos, todo, senderGame, invites, partyName, faulted>>

\* The processor has counted as many departures as START told it players.
AllLeft(s) == /\ processor[s] # NULL
              /\ processor[s].left > 0 /\ processor[s].left >= processor[s].n_players

\* The processor deletes the game of its sender and waits for the next START.
\* It may never do so: when everybody left before there was a winner the game
\* stays in its slot, and a departure whose flag merged with another's (module
\* GameProcessor) is waited for without end.
GameOver(s) ==
    /\ MutexFree
    /\ AllLeft(s) /\ Live(senderGame[s])
    /\ DeleteGameFromTable(senderGame[s])
    /\ processor' = [processor EXCEPT ![s].left = 0]
    /\ UNCHANGED <<sessionVars, senderGame, clientVars, faulted>>

\* The game that the processor would delete is not live.
DanglingGame(s) == MutexFree /\ AllLeft(s) /\ ~Live(senderGame[s]) /\ Fault

-----------------------------------------------------------------------------
\* The next section of u's request dereferences a pointer that is not live.
Dangling(u) ==
    LET g == target[u] IN
    /\ MutexFree
    /\ \/ /\ pc[u] \in {"inviting", "accepting", "rejecting", "marking", "reporting",
                        "checking", "cancelling", "dropping"}
          /\ ~Live(g)
       \/ pc[u] = "removing" /\ pos[u] # -1 /\ ~Live(g)
       \/ pc[u] = "inviting" /\ todo[u] = <<>> /\ ~CreatorLive(g)
       \/ pc[u] = "telling" /\ ~CreatorLive(g)
       \/ /\ pc[u] = "marking" /\ pos[u] # -1 /\ Live(g)
          /\ game[g].users[pos[u]] \notin Members(g)
       \/ pc[u] = "starting" /\ ~(Live(preGame[u]) /\ SenderLive(u))
       \/ pc[u] = "idle" /\ InParty(u) /\ ~Live(preGame[u])
       \/ pc[u] = "closing" /\ ~(CreatorLive(preGame[u]) /\ SenderLive(u))
       \/ /\ pc[u] = "idle" /\ party[u] = "creator"
          /\ ~(CreatorLive(preGame[u]) /\ SenderLive(u))
       \/ /\ pc[u] = "idle" /\ party[u] = "playing"
          /\ ~ /\ Live(preGame[u]) /\ PlayerLive(u)
              /\ gameId[u] \in Slots /\ processor[gameId[u]] # NULL
    /\ Fault

\* One section of a session that serves a request.
SessionStep(u) ==
    /\ pc[u] # "idle"
    /\ \/ AddRefused(u)
       \/ AddDone(u)
       \/ InviteNext(u)
       \/ Announce(u)
       \/ CreatedAlone(u)
       \/ FindPosition(u)
       \/ NotInGame(u)
       \/ AcceptMark(u)
       \/ Report(u)
       \/ RejectRemove(u)
       \/ RejectCheck(u)
       \/ TellCreator(u)
       \/ RejectDelete(u)
       \/ Start(u)
       \/ CloseInvitations(u)
       \/ CancelDelete(u)

\* One request of one client, read when the previous one has been served.
ClientStep(u) ==
    /\ pc[u] = "idle"
    /\ \/ \E g \in Games, name \in Names, list \in InviteLists : RequestCreate(u, g, name, list)
       \/ \E name \in Names, g \in Games : RequestAccept(u, name, g)
       \/ \E name \in Names, g \in Games : RequestReject(u, name, g)
       \/ \E name \in Names : LookupForever(u, name)
       \/ \E c \in Characters : RequestCharacter(u, c)
       \/ RequestStart(u)
       \/ RequestCancel(u)
       \/ RequestLeave(u)

LobbyNext == /\ ~faulted
             /\ \/ \E u \in Users : SessionStep(u)
                \/ \E u \in Users : ClientStep(u)
                \/ \E u \in Users : Dangling(u)
                \/ \E s \in Slots : GameOver(s) \/ DanglingGame(s)

LobbySpec == LobbyInit /\ [][LobbyNext]_lobbyVars

\* A thread that has received a request goes on serving it.
LobbyFairSpec ==
    LobbySpec /\ \A u \in Users : WF_lobbyVars(~faulted /\ (SessionStep(u) \/ Dangling(u)))

-----------------------------------------------------------------------------
(***************************************************************************)
(* Properties.                                                             *)
(***************************************************************************)

\* Whatever the sessions interleave, the table sees only its own operations:
\* the lobby implements GameTable, and inherits every invariant proved of it.
\* This is Spec, with the steps that leave the table alone named first: TLC then
\* need not try every operation on them.
TableSpec == Init /\ [][UNCHANGED tableVars \/ Next]_tableVars

\* START checks that everybody has a character in one critical section and
\* counts the players in another; the answer of the check is still true then.
CharactersKeptUntilStart ==
    \A u \in Users : pc[u] = "starting" /\ Live(target[u]) => AllHasCharacter(target[u])

\* A name in somebody's invitation menu, or of the party somebody is in, is
\* never answered "the game does not exist": either the game is there or the
\* lookup hangs, because every deletion leaves a hole below gameCount.  REJECT
\* relies on it, since it locks the mutex of the game it was given before it
\* tests the pointer for NULL; the two NULL branches have no action here.
LookupNeverNull ==
    \A u \in Users, name \in Names : MayReject(u, name) => ~LookupFails(name)

\* Every request is answered, unless the server has faulted or a lookup keeps
\* the mutex for ever.
RequestsAnswered ==
    \A u \in Users : pc[u] # "idle" ~> (pc[u] = "idle" \/ faulted \/ ~MutexFree)

-----------------------------------------------------------------------------
(***************************************************************************)
(* What comments and messages of the code say and the model refutes.       *)
(***************************************************************************)

\* A request about a game that does not exist is refused.
LookupsAnswer == MutexFree

\* The player who rejects leaves the party: when the rejection has been
\* carried out, the user is no longer a member.
RejectRemovesRejecter ==
    \A u \in Users : pc[u] = "checking" /\ Live(target[u]) => u \notin Members(target[u])

\* Deleting a game that is no longer in the table does nothing.
NoDanglingPointers == ~faulted
=============================================================================
