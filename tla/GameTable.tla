------------------------------ MODULE GameTable ------------------------------
(***************************************************************************)
(* The table of created games and the party of players each game gathers   *)
(* (src/server/source/game_table.c).  Every game shares the mutex of the   *)
(* table once it is listed (AddGameToGameTable assigns game_table_mutex to *)
(* it), so each function that takes the mutex is one atomic action here.   *)
(* Who calls which action, with which possibly stale argument, is the      *)
(* subject of module Lobby; this module allows every call on a live game.  *)
(*                                                                         *)
(* Games are heap objects: an element of Games is an address, used once.   *)
(***************************************************************************)
EXTENDS Integers, FiniteSets

CONSTANTS Users,       \* user names; a name is also the identity of its PreGameUser
          Names,       \* names of games
          Games,       \* addresses of PreGameState objects
          Characters,  \* characters a player can choose
          NoCharacter, \* the charname "none" of a PreGameUser that has not chosen
          MaxGames,    \* MAX_GAMES of globals.h
          MaxUsers,    \* MAX_GAME_USRCOUNT of globals.h
          NULL

ASSUME TableAssumption ==
    /\ MaxGames \in Nat \ {0}
    /\ MaxUsers \in Nat \ {0}
    /\ NULL \notin Users \cup Games \cup Names
    /\ NoCharacter \notin Characters

Slots == 0 .. MaxGames - 1
Index == 0 .. MaxUsers - 1

\* What happens to the object at an address: never allocated, built by its
\* creator's thread, in the table, or given back by free().
Status == {"unallocated", "private", "listed", "freed"}

\* userState: invited, accepted, asked for a back-off, left the running game.
Invited  == 0
Accepted == 1
BackOff  == 3
Left     == -1

PreGameUser == [charId    : Index,
                userState : {Invited, Accepted, BackOff, Left},
                charname  : Characters \cup {NoCharacter}]

\* The array users[] keeps pointers; the cells from userCount on are not part
\* of the party but still hold what was written there last.
PreGameState == [status    : Status,
                 gameId    : Slots \cup {-1},
                 gameName  : Names \cup {NULL},
                 creator   : Users \cup {NULL},
                 userCount : 0 .. MaxUsers,
                 users     : [Index -> Users \cup {NULL}],
                 user      : [Users -> PreGameUser]]

\* CreatePreGameUser: an invited player, before it has a place in a party.
NewPreGameUser == [charId |-> 0, userState |-> Invited, charname |-> NoCharacter]

\* An address with no object behind it.
NoObject(s) == [status    |-> s,
                gameId    |-> -1,
                gameName  |-> NULL,
                creator   |-> NULL,
                userCount |-> 0,
                users     |-> [i \in Index |-> NULL],
                user      |-> [u \in Users |-> NewPreGameUser]]

VARIABLES createdGames,  \* slot -> address of the game in it, or NULL
          gameCount,     \* table->gameCount
          game           \* address -> PreGameState

tableVars == <<createdGames, gameCount, game>>

TypeOK == /\ createdGames \in [Slots -> Games \cup {NULL}]
          /\ gameCount \in 0 .. MaxGames
          /\ game \in [Games -> PreGameState]

Listed(g)   == game[g].status = "listed"
Positions(g) == {i \in Index : i < game[g].userCount}
Members(g)  == {game[g].users[i] : i \in Positions(g)}

-----------------------------------------------------------------------------
(***************************************************************************)
(* Queries.                                                                *)
(***************************************************************************)

GameNameAvailable(name) ==
    \A s \in Slots : createdGames[s] # NULL => game[createdGames[s]].gameName # name

\* The loop of GetPreGameStateByName visits slot i when no earlier slot
\* stopped it.  It advances past a game with another name, and only then:
\* at an empty slot the index is not incremented and the loop never ends.
Visits(name, i) ==
    /\ i < gameCount
    /\ \A j \in Slots : j < i => /\ createdGames[j] # NULL
                                 /\ game[createdGames[j]].gameName # name

LookupFinds(name, g) ==
    \E i \in Slots : /\ Visits(name, i)
                     /\ createdGames[i] = g
                     /\ game[g].gameName = name

LookupHangs(name) ==
    \E i \in Slots : Visits(name, i) /\ createdGames[i] = NULL

LookupFails(name) ==
    \A i \in Slots : i < gameCount => /\ createdGames[i] # NULL
                                      /\ game[createdGames[i]].gameName # name

\* GetPreGameUserPosByName: first position of the user, -1 when absent.
IsPosition(g, u, i) ==
    \/ /\ i \in Positions(g)
       /\ game[g].users[i] = u
       /\ \A j \in Positions(g) : j < i => game[g].users[j] # u
    \/ i = -1 /\ u \notin Members(g)

AllHasCharacter(g) ==
    \A i \in Positions(g) : game[g].user[game[g].users[i]].charname # NoCharacter

Active(g, i) == game[g].user[game[g].users[i]].userState \in {Invited, Accepted}

\* At most one player is still invited or in.
IamAloneinGame(g) ==
    \A i, j \in Positions(g) : Active(g, i) /\ Active(g, j) => i = j

-----------------------------------------------------------------------------
(***************************************************************************)
(* Operations.                                                             *)
(***************************************************************************)

\* The table is malloc'ed at start-up and createdGames is not written: the cells
\* are NULL because the first allocations of a process come from zeroed pages.
Init == /\ createdGames = [s \in Slots |-> NULL]
        /\ gameCount = 0
        /\ game = [g \in Games |-> NoObject("unallocated")]

\* The record r with u appended to its party (__addPreGameUser).
WithUser(r, u, state) ==
    [r EXCEPT !.userCount = r.userCount + 1,
              !.users = [r.users EXCEPT ![r.userCount] = u],
              !.user = [r.user EXCEPT ![u] =
                            [NewPreGameUser EXCEPT !.charId = r.userCount,
                                                   !.userState = state]]]

\* Allocation of a game whose only player is its creator, already accepted.
CreateGame(g, u, name) ==
    /\ game[g].status = "unallocated"
    /\ game' = [game EXCEPT ![g] =
                   WithUser([NoObject("private") EXCEPT !.gameName = name,
                                                        !.creator = u],
                            u, Accepted)]
    /\ UNCHANGED <<createdGames, gameCount>>

\* Faulty variant: the name is not checked again under the mutex.
NameTakenUnchecked(g) == FALSE

TableFull    == gameCount = MaxGames
NameTaken(g) == ~TableFull /\ ~GameNameAvailable(game[g].gameName)

\* Full table or name taken meanwhile: the game is freed.
RefuseGame(g) ==
    /\ game[g].status = "private"
    /\ TableFull \/ NameTaken(g)
    /\ game' = [game EXCEPT ![g] = NoObject("freed")]
    /\ UNCHANGED <<createdGames, gameCount>>

\* Faulty variant: the id is the number of games, not the slot.
AddGameNumbered(g) ==
    /\ game[g].status = "private"
    /\ ~TableFull /\ ~NameTaken(g)
    /\ \E s \in Slots : /\ createdGames[s] = NULL
                       /\ createdGames' = [createdGames EXCEPT ![s] = g]
    /\ game' = [game EXCEPT ![g].gameId = gameCount, ![g].status = "listed"]
    /\ gameCount' = gameCount + 1

\* The game takes the first empty slot, and the slot is its id.
AddGameToGameTable(g) ==
    /\ game[g].status = "private"
    /\ ~TableFull /\ ~NameTaken(g)
    /\ \E s \in Slots :
          /\ createdGames[s] = NULL
          /\ \A t \in Slots : t < s => createdGames[t] # NULL
          /\ createdGames' = [createdGames EXCEPT ![s] = g]
          /\ game' = [game EXCEPT ![g].gameId = s, ![g].status = "listed"]
    /\ gameCount' = gameCount + 1

\* A player joins unless the party is full, in which case the caller ignores
\* the error.  The caller has checked that no member has this name.
AddPreGameUser(g, u) ==
    /\ Listed(g)
    /\ u \notin Members(g)
    /\ game[g].userCount < MaxUsers
    /\ game' = [game EXCEPT ![g] = WithUser(game[g], u, Invited)]
    /\ UNCHANGED <<createdGames, gameCount>>

\* A member's userState is overwritten: by the acceptance of an invitation,
\* LEAVE, BACK-OFF, RESUME, and the sender's own back-off timer.
SetUserState(g, u, state) ==
    /\ Listed(g)
    /\ u \in Members(g)
    /\ game' = [game EXCEPT ![g].user[u].userState = state]
    /\ UNCHANGED <<createdGames, gameCount>>

\* Faulty variants: the players keep their old charId (as the unused
\* DeletePreGameUser does); they lose everything but their charId.
RemovalWith(g, u, Keep(_, _)) ==
    /\ Listed(g)
    /\ \E pos \in Positions(g) :
          LET count == game[g].userCount - 1
              users == [i \in Index |-> game[g].users[
                            IF pos <= i /\ i < count THEN i + 1 ELSE i]]
              kept  == {i \in Index : i < count}
          IN /\ IsPosition(g, u, pos)
             /\ game' = [game EXCEPT
                   ![g].userCount = count,
                   ![g].users = users,
                   ![g].user = [v \in Users |->
                       IF \E i \in kept : users[i] = v
                       THEN Keep(v, CHOOSE i \in kept : users[i] = v)
                       ELSE NewPreGameUser]]
    /\ UNCHANGED <<createdGames, gameCount>>
DeletePreGameUser(g, u) ==
    LET Same(v, i) == game[g].user[v] IN RemovalWith(g, u, Same)
DeletePreGameUserForgetful(g, u) ==
    LET Fresh(v, i) == [game[g].user[v] EXCEPT !.charId = i, !.charname = NoCharacter]
    IN RemovalWith(g, u, Fresh)

\* The players behind the removed one move down a place, and every remaining
\* player's charId is rewritten to its place.  The last cell keeps its pointer.
DeletePreGameUserWithCharIdResassignment(g, u) ==
    /\ Listed(g)
    /\ \E pos \in Positions(g) :
          LET r     == game[g]
              count == r.userCount - 1
              users == [i \in Index |-> IF pos <= i /\ i < count THEN r.users[i + 1]
                                                                ELSE r.users[i]]
              PlaceOf(v) == CHOOSE i \in Index : i < count /\ users[i] = v
              Kept(v)    == \E i \in Index : i < count /\ users[i] = v
          IN /\ IsPosition(g, u, pos)
             /\ game' = [game EXCEPT
                   ![g].userCount = count,
                   ![g].users = users,
                   ![g].user = [v \in Users |->
                                  IF Kept(v) THEN [r.user[v] EXCEPT !.charId = PlaceOf(v)]
                                             ELSE NewPreGameUser]]
    /\ UNCHANGED <<createdGames, gameCount>>

PreGameAssignChar(g, u, c) ==
    /\ Listed(g)
    /\ u \in Members(g)
    /\ game' = [game EXCEPT ![g].user[u].charname = c]
    /\ UNCHANGED <<createdGames, gameCount>>

\* Faulty variant: the counter follows the number of games.
DeleteGameCounted(g) ==
    /\ Listed(g)
    /\ game' = [game EXCEPT ![createdGames[game[g].gameId]] = NoObject("freed")]
    /\ createdGames' = [createdGames EXCEPT ![game[g].gameId] = NULL]
    /\ gameCount' = gameCount - 1

\* Whatever game occupies the slot is freed; gameCount stays as it was.
DeleteGameFromTable(g) ==
    /\ Listed(g)
    /\ game' = [game EXCEPT ![createdGames[game[g].gameId]] = NoObject("freed")]
    /\ createdGames' = [createdGames EXCEPT ![game[g].gameId] = NULL]
    /\ UNCHANGED gameCount

Next == \E g \in Games :
           \/ \E u \in Users, name \in Names : CreateGame(g, u, name)
           \/ RefuseGame(g)
           \/ AddGameToGameTable(g)
           \/ \E u \in Users : AddPreGameUser(g, u)
           \/ \E u \in Users, s \in {Accepted, BackOff, Left} : SetUserState(g, u, s)
           \/ \E u \in Users : DeletePreGameUserWithCharIdResassignment(g, u)
           \/ \E u \in Users, c \in Characters : PreGameAssignChar(g, u, c)
           \/ DeleteGameFromTable(g)

Spec == Init /\ [][Next]_tableVars

-----------------------------------------------------------------------------
(***************************************************************************)
(* Properties.                                                             *)
(***************************************************************************)

\* The table and the games agree: the game in a slot carries that slot as its
\* id, and a game that believes it is listed is found at its id.  Deletion
\* goes through the id, so this is what keeps it from freeing another game.
SlotsMatch ==
    /\ \A s \in Slots : createdGames[s] # NULL =>
          Listed(createdGames[s]) /\ game[createdGames[s]].gameId = s
    /\ \A g \in Games : Listed(g) =>
          game[g].gameId \in Slots /\ createdGames[game[g].gameId] = g

\* Two listed games never share a name, although the name is checked once
\* before the game is built and again when it is added.
ListedNamesUnique ==
    \A g, h \in Games :
        Listed(g) /\ Listed(h) /\ game[g].gameName = game[h].gameName => g = h

\* The lookup scans only the first gameCount slots.  It must still reach the
\* slot of every listed game: a stopped lookup has found it or hangs at a hole,
\* and never answers that the game does not exist.
LookupNeverMisses ==
    \A g \in Games : Listed(g) => /\ ~LookupFails(game[g].gameName)
                                  /\ game[g].gameId < gameCount

\* While the counter has not reached the limit there is an empty slot, so the
\* search of AddGameToGameTable never falls through to its last else branch.
RoomWhenCounted == ~TableFull => \E s \in Slots : createdGames[s] = NULL

\* A party holds each player once.
MembersDistinct ==
    \A g \in Games : \A i, j \in Positions(g) :
        game[g].users[i] = game[g].users[j] => i = j

\* A player's charId is its place in the party, through any order of joins and
\* removals: the realtime protocol indexes arrays with the charId it is sent
\* and treats users[charId]->charId # charId as a critical error.
CharIdIsPlace ==
    \A g \in Games : \A i \in Positions(g) :
        /\ game[g].users[i] \in Users
        /\ game[g].user[game[g].users[i]].charId = i
=============================================================================
