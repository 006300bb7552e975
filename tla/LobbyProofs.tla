---------------------------- MODULE LobbyProofs ----------------------------
(***************************************************************************)
(* Proofs about the table of games and about the lobby, for every number   *)
(* of users, games, slots and places.  Part 1 proves the invariants of the *)
(* table.  Part 2 proves that the lobby implements the table, so that they *)
(* hold of it too, that its lookups never miss, and that what START        *)
(* checked still holds when START counts.                                  *)
(***************************************************************************)
EXTENDS Lobby, FiniteSetTheorems, TLAPS

-----------------------------------------------------------------------------
(***************************************************************************)
(* Part 1: the table of games (GameTable).                                 *)
(***************************************************************************)

\* An occupied slot lies below gameCount.
CountCoversSlots == \A s \in Slots : createdGames[s] # NULL => s < gameCount

\* The inductive invariant.
TableInv == /\ TypeOK
            /\ SlotsMatch
            /\ ListedNamesUnique
            /\ CountCoversSlots
            /\ CharIdIsPlace

-----------------------------------------------------------------------------
(***************************************************************************)
(* Lemmas about the operators.                                             *)
(***************************************************************************)

\* An address with no object holds a well-formed, empty record.
LEMMA NoObjectType ==
    ASSUME NEW s \in Status
    PROVE  /\ NoObject(s) \in PreGameState
           /\ NoObject(s).status = s
           /\ NoObject(s).userCount = 0
  BY TableAssumption DEF NoObject, PreGameState, NewPreGameUser, PreGameUser, Index, Invited

\* Appending a player to a party with room gives a well-formed record whose
\* earlier places are unchanged and whose last place is the new player's.
LEMMA WithUserType ==
    ASSUME NEW r \in PreGameState, NEW u \in Users, r.userCount < MaxUsers,
           NEW st \in {Invited, Accepted, BackOff, Left}
    PROVE  /\ WithUser(r, u, st) \in PreGameState
           /\ WithUser(r, u, st).status = r.status
           /\ WithUser(r, u, st).gameId = r.gameId
           /\ WithUser(r, u, st).gameName = r.gameName
           /\ WithUser(r, u, st).userCount = r.userCount + 1
           /\ WithUser(r, u, st).users[r.userCount] = u
           /\ \A i \in Index : i # r.userCount =>
                 WithUser(r, u, st).users[i] = r.users[i]
           /\ WithUser(r, u, st).user[u].charId = r.userCount
           /\ \A v \in Users : v # u => WithUser(r, u, st).user[v] = r.user[v]
<1>1. r.userCount \in Index
  BY TableAssumption DEF PreGameState, Index
<1>2. [NewPreGameUser EXCEPT !.charId = r.userCount, !.userState = st] \in PreGameUser
  BY <1>1 DEF NewPreGameUser, PreGameUser
<1>3. [NewPreGameUser EXCEPT !.charId = r.userCount, !.userState = st].charId = r.userCount
  BY DEF NewPreGameUser
<1>4. r.userCount + 1 \in 0 .. MaxUsers
  BY TableAssumption DEF PreGameState
<1> QED
  BY <1>1, <1>2, <1>3, <1>4 DEF WithUser, PreGameState

\* In a party whose charIds are places nobody sits twice: the charId of a
\* player would have to be two places at once.
LEMMA PlacesDistinct ==
    ASSUME TypeOK, CharIdIsPlace
    PROVE  MembersDistinct
  BY DEF CharIdIsPlace, MembersDistinct

\* What a removal leaves: the remaining players keep their order, close the
\* gap, and are numbered by their new places.
LEMMA RemovalNumbersPlaces ==
    ASSUME TypeOK, CharIdIsPlace, NEW g \in Games, NEW u \in Users,
           DeletePreGameUserWithCharIdResassignment(g, u)
    PROVE  /\ game' = [game EXCEPT ![g] = game'[g]]
           /\ game'[g] \in PreGameState
           /\ game'[g].status = game[g].status
           /\ game'[g].gameId = game[g].gameId
           /\ game'[g].gameName = game[g].gameName
           /\ \A i \in Index : i < game'[g].userCount =>
                 /\ game'[g].users[i] \in Users
                 /\ game'[g].user[game'[g].users[i]].charId = i
<1> DEFINE r == game[g]
           count == r.userCount - 1
           users(place) == [i \in Index |-> IF place <= i /\ i < count THEN r.users[i + 1]
                                                                       ELSE r.users[i]]
           Kept(place, v) == \E i \in Index : i < count /\ users(place)[i] = v
           PlaceOf(place, v) == CHOOSE i \in Index : i < count /\ users(place)[i] = v
           user(place) == [v \in Users |->
                           IF Kept(place, v) THEN [r.user[v] EXCEPT !.charId = PlaceOf(place, v)]
                                             ELSE NewPreGameUser]
<1>1. PICK place \in Positions(g) :
         /\ IsPosition(g, u, place)
         /\ game' = [game EXCEPT ![g].userCount = count,
                                 ![g].users = users(place),
                                 ![g].user = user(place)]
  BY DEF DeletePreGameUserWithCharIdResassignment
<1>2. r \in PreGameState
  BY DEF TypeOK
<1>3. /\ count \in 0 .. MaxUsers
      /\ place \in Index /\ place < r.userCount
      /\ MaxUsers \in Nat
      /\ r.userCount \in 0 .. MaxUsers
  BY <1>2, TableAssumption DEF Positions, PreGameState, Index
<1>4. users(place) \in [Index -> Users \cup {NULL}]
  BY <1>2, <1>3 DEF PreGameState, Index
<1>5. ASSUME NEW v \in Users, Kept(place, v)
      PROVE  PlaceOf(place, v) \in Index /\ PlaceOf(place, v) < count
                /\ users(place)[PlaceOf(place, v)] = v
  BY <1>5
<1>6. user(place) \in [Users -> PreGameUser]
  <2> SUFFICES ASSUME NEW v \in Users
               PROVE  user(place)[v] \in PreGameUser
    BY Zenon
  <2>1. CASE Kept(place, v)
    <3>1. user(place)[v] = [r.user[v] EXCEPT !.charId = PlaceOf(place, v)]
      BY <2>1
    <3>2. r.user[v] \in PreGameUser
      BY <1>2 DEF PreGameState
    <3>3. PlaceOf(place, v) \in Index
      BY <1>5, <2>1
    <3> HIDE DEF PlaceOf, user
    <3> QED
      BY <3>1, <3>2, <3>3 DEF PreGameUser
  <2>2. CASE ~Kept(place, v)
    <3>1. user(place)[v] = NewPreGameUser
      BY <2>2
    <3>2. 0 \in Index
      BY TableAssumption DEF Index
    <3> QED
      BY <3>1, <3>2 DEF NewPreGameUser, PreGameUser
  <2> QED
    BY <2>1, <2>2
<1>7. ASSUME NEW i \in Index, i < count
      PROVE  /\ users(place)[i] \in Users
             /\ user(place)[users(place)[i]].charId = i
  <2>0. r.users \in [Index -> Users \cup {NULL}] /\ r.user \in [Users -> PreGameUser]
    BY <1>2 DEF PreGameState
  <2>1. /\ \A k \in Index : k < r.userCount =>
              r.users[k] \in Users /\ r.user[r.users[k]].charId = k
    BY DEF CharIdIsPlace, Positions
  <2>2. \A j \in Index : j < count =>
           \E k \in Index : /\ k < r.userCount
                            /\ users(place)[j] = r.users[k]
                            /\ k = IF place <= j THEN j + 1 ELSE j
    BY <1>3 DEF Index
  <2>3. users(place)[i] \in Users
    BY <1>7, <2>1, <2>2
  <2>4. \A j \in Index : j < count /\ users(place)[j] = users(place)[i] => j = i
    <3> SUFFICES ASSUME NEW j \in Index, j < count, users(place)[j] = users(place)[i]
                 PROVE  j = i
      OBVIOUS
    <3>1. PICK k \in Index : /\ k < r.userCount
                             /\ users(place)[j] = r.users[k]
                             /\ k = IF place <= j THEN j + 1 ELSE j
      BY <2>2
    <3>2. PICK m \in Index : /\ m < r.userCount
                             /\ users(place)[i] = r.users[m]
                             /\ m = IF place <= i THEN i + 1 ELSE i
      BY <2>2, <1>7
    <3>3. k = m
      BY <3>1, <3>2, <2>1
    <3> HIDE DEF users
    <3> QED
      BY <3>1, <3>2, <3>3, <1>3 DEF Index
  <2>5. Kept(place, users(place)[i])
    BY <1>7
  <2>6. PlaceOf(place, users(place)[i]) = i
    BY <1>5, <2>3, <2>4, <2>5
  <2>7. user(place)[users(place)[i]] =
           [r.user[users(place)[i]] EXCEPT !.charId = PlaceOf(place, users(place)[i])]
    BY <2>3, <2>5
  <2>8. r.user[users(place)[i]] \in PreGameUser
    BY <2>0, <2>3
  <2> HIDE DEF users, user, PlaceOf, Kept
  <2> QED
    BY <2>3, <2>6, <2>7, <2>8 DEF PreGameUser
<1> HIDE DEF users, user, Kept, PlaceOf
<1>8. game'[g] = [r EXCEPT !.userCount = count, !.users = users(place), !.user = user(place)]
  BY <1>1, <1>2 DEF TypeOK
<1>9. game' = [game EXCEPT ![g] = game'[g]]
  BY <1>1, <1>8 DEF TypeOK
<1> QED
  BY <1>2, <1>3, <1>4, <1>6, <1>7, <1>8, <1>9 DEF PreGameState

-----------------------------------------------------------------------------
(***************************************************************************)
(* The inductive invariant.                                                *)
(***************************************************************************)

\* The places of a party are numbered by charIds: CharIdIsPlace for one record.
PlacesNumbered(r) ==
    \A i \in Index : i < r.userCount =>
        r.users[i] \in Users /\ r.user[r.users[i]].charId = i

LEMMA InitInv == Init => TableInv
<1> SUFFICES ASSUME Init PROVE TableInv
  OBVIOUS
<1>1. TypeOK
  BY NoObjectType, TableAssumption DEF Init, TypeOK, Status
<1>2. \A g \in Games : game[g].status = "unallocated" /\ game[g].userCount = 0
  BY NoObjectType DEF Init, Status
<1>3. \A s \in Slots : createdGames[s] = NULL
  BY DEF Init
<1> QED
  BY <1>1, <1>2, <1>3, TableAssumption
  DEF TableInv, SlotsMatch, ListedNamesUnique, CountCoversSlots, CharIdIsPlace,
      Positions, Index, Listed

\* A step that rewrites the party of one game, and nothing the table relies
\* on, keeps the invariant as long as the party stays numbered.
LEMMA PartyStep ==
    ASSUME TableInv, NEW g \in Games,
           game' = [game EXCEPT ![g] = game'[g]],
           game'[g] \in PreGameState,
           game'[g].status = game[g].status,
           game'[g].gameId = game[g].gameId,
           game'[g].gameName = game[g].gameName,
           PlacesNumbered(game'[g]),
           UNCHANGED <<createdGames, gameCount>>
    PROVE  TableInv'
<1> USE DEF TableInv
<1>1. TypeOK'
  BY DEF TypeOK
<1>2. \A h \in Games : /\ game'[h].status = game[h].status
                       /\ game'[h].gameId = game[h].gameId
                       /\ game'[h].gameName = game[h].gameName
  BY DEF TypeOK
<1>3. SlotsMatch' /\ ListedNamesUnique' /\ CountCoversSlots'
  BY <1>2, TableAssumption
  DEF SlotsMatch, ListedNamesUnique, CountCoversSlots, Listed, TypeOK
<1>4. CharIdIsPlace'
  BY DEF CharIdIsPlace, PlacesNumbered, Positions, TypeOK
<1> QED
  BY <1>1, <1>3, <1>4

LEMMA CreateGameInv ==
    ASSUME TableInv, NEW g \in Games, NEW u \in Users, NEW name \in Names,
           CreateGame(g, u, name)
    PROVE  TableInv'
<1> USE DEF TableInv
<1> DEFINE r == [NoObject("private") EXCEPT !.gameName = name, !.creator = u]
<1>1. r \in PreGameState /\ r.status = "private" /\ r.userCount = 0
  BY NoObjectType, TableAssumption DEF PreGameState, Status
<1>2. game' = [game EXCEPT ![g] = WithUser(r, u, Accepted)]
  BY DEF CreateGame
<1> HIDE DEF r
<1>3. 0 < MaxUsers
  BY TableAssumption
<1>4. /\ WithUser(r, u, Accepted) \in PreGameState
      /\ WithUser(r, u, Accepted).status = "private"
      /\ WithUser(r, u, Accepted).userCount = 1
      /\ WithUser(r, u, Accepted).users[0] = u
      /\ WithUser(r, u, Accepted).user[u].charId = 0
  BY <1>1, <1>3, WithUserType
<1>5. game'[g] = WithUser(r, u, Accepted)
  BY <1>2 DEF TypeOK
<1>6. TypeOK'
  BY <1>2, <1>4 DEF TypeOK, CreateGame
<1>7. \A h \in Games : Listed(h)' <=> Listed(h)
  BY <1>2, <1>4 DEF TypeOK, Listed, CreateGame
<1>8. \A h \in Games : Listed(h) => game'[h] = game[h]
  BY <1>2 DEF TypeOK, Listed, CreateGame
<1>9. SlotsMatch' /\ ListedNamesUnique' /\ CountCoversSlots'
  BY <1>7, <1>8, TableAssumption
  DEF SlotsMatch, ListedNamesUnique, CountCoversSlots, TypeOK, CreateGame
<1>10. CharIdIsPlace'
  BY <1>2, <1>4, <1>5 DEF CharIdIsPlace, Positions, Index, TypeOK
<1> QED
  BY <1>6, <1>9, <1>10

LEMMA RefuseGameInv ==
    ASSUME TableInv, NEW g \in Games, RefuseGame(g)
    PROVE  TableInv'
<1> USE DEF TableInv
<1>1. /\ NoObject("freed") \in PreGameState
      /\ NoObject("freed").status = "freed"
      /\ NoObject("freed").userCount = 0
  BY NoObjectType DEF Status
<1>2. TypeOK'
  BY <1>1 DEF TypeOK, RefuseGame
<1>3. \A h \in Games : (Listed(h)' <=> Listed(h)) /\ (Listed(h) => game'[h] = game[h])
  BY <1>1 DEF TypeOK, Listed, RefuseGame
<1>4. SlotsMatch' /\ ListedNamesUnique' /\ CountCoversSlots'
  BY <1>3, TableAssumption
  DEF SlotsMatch, ListedNamesUnique, CountCoversSlots, TypeOK, RefuseGame
<1>5. CharIdIsPlace'
  BY <1>1 DEF CharIdIsPlace, Positions, Index, TypeOK, RefuseGame
<1> QED
  BY <1>2, <1>4, <1>5

\* An empty slot exists below the limit: were all occupied, the last one would
\* lie below gameCount, and gameCount would be at the limit.
LEMMA RoomLemma == TableInv => RoomWhenCounted
<1> SUFFICES ASSUME TableInv, gameCount # MaxGames,
                    \A s \in Slots : createdGames[s] # NULL
             PROVE  FALSE
  BY DEF RoomWhenCounted, TableFull
<1>1. MaxGames - 1 \in Slots
  BY TableAssumption DEF Slots
<1> QED
  BY <1>1, TableAssumption DEF TableInv, CountCoversSlots, TypeOK, Slots

LEMMA AddGameInv ==
    ASSUME TableInv, NEW g \in Games, AddGameToGameTable(g)
    PROVE  TableInv'
<1> USE DEF TableInv
<1>1. PICK s \in Slots :
         /\ createdGames[s] = NULL
         /\ \A t \in Slots : t < s => createdGames[t] # NULL
         /\ createdGames' = [createdGames EXCEPT ![s] = g]
         /\ game' = [game EXCEPT ![g].gameId = s, ![g].status = "listed"]
  BY DEF AddGameToGameTable
<1>2. /\ game[g].status = "private"
      /\ gameCount # MaxGames
      /\ GameNameAvailable(game[g].gameName)
      /\ gameCount' = gameCount + 1
  BY DEF AddGameToGameTable, TableFull, NameTaken
<1>3. game'[g] = [game[g] EXCEPT !.gameId = s, !.status = "listed"]
  BY <1>1 DEF TypeOK
<1>r. game[g] \in PreGameState
  BY DEF TypeOK
<1>a. game'[g] \in PreGameState
  BY <1>3, <1>r DEF PreGameState, Status
<1>4. /\ game'[g] \in PreGameState
      /\ game'[g].status = "listed"
      /\ game'[g].gameId = s
      /\ game'[g].gameName = game[g].gameName
      /\ game'[g].userCount = game[g].userCount
      /\ game'[g].users = game[g].users
      /\ game'[g].user = game[g].user
  BY <1>3, <1>r, <1>a DEF PreGameState
<1>5. \A h \in Games : h # g => game'[h] = game[h]
  BY <1>1 DEF TypeOK
<1>6. TypeOK'
  <2>1. game' \in [Games -> PreGameState]
    BY <1>1, <1>4, <1>5 DEF TypeOK
  <2>2. gameCount' \in 0 .. MaxGames
    BY <1>2, TableAssumption DEF TypeOK
  <2> QED
    BY <1>1, <2>1, <2>2 DEF TypeOK
<1>7. \A t \in Slots : createdGames'[t] = IF t = s THEN g ELSE createdGames[t]
  BY <1>1 DEF TypeOK
<1>8. g # NULL /\ \A t \in Slots : createdGames[t] # g
  BY <1>2, TableAssumption DEF SlotsMatch, Listed
<1>9. SlotsMatch'
  <2>1. \A t \in Slots : createdGames'[t] # NULL =>
           /\ game'[createdGames'[t]].status = "listed"
           /\ game'[createdGames'[t]].gameId = t
    BY <1>4, <1>5, <1>7, <1>8 DEF SlotsMatch, Listed, TypeOK
  <2>2. \A h \in Games : Listed(h)' =>
           game'[h].gameId \in Slots /\ createdGames'[game'[h].gameId] = h
    BY <1>1, <1>4, <1>5, <1>7, TableAssumption DEF SlotsMatch, Listed, TypeOK
  <2> QED
    BY <2>1, <2>2 DEF SlotsMatch, Listed
<1>10. ListedNamesUnique'
  <2>1. \A h \in Games : Listed(h) => game[h].gameName # game[g].gameName
    BY <1>2, TableAssumption DEF GameNameAvailable, SlotsMatch
  <2> QED
    BY <2>1, <1>4, <1>5 DEF ListedNamesUnique, Listed
<1>11. CountCoversSlots'
  <2>1. s < gameCount + 1
    <3> SUFFICES ASSUME gameCount < s PROVE FALSE
      BY <1>1, TableAssumption DEF TypeOK, Slots
    <3>1. gameCount \in Slots
      BY <1>1, TableAssumption DEF TypeOK, Slots
    <3>2. createdGames[gameCount] # NULL
      BY <1>1, <3>1
    <3> QED
      BY <3>1, <3>2 DEF CountCoversSlots, TypeOK
  <2> QED
    BY <2>1, <1>2, <1>7 DEF CountCoversSlots, TypeOK, Slots
<1>12. CharIdIsPlace'
  BY <1>4, <1>5 DEF CharIdIsPlace, Positions
<1> QED
  BY <1>6, <1>9, <1>10, <1>11, <1>12

LEMMA DeleteGameInv ==
    ASSUME TableInv, NEW g \in Games, DeleteGameFromTable(g)
    PROVE  TableInv'
<1> USE DEF TableInv
<1>1. /\ game[g].gameId \in Slots
      /\ createdGames[game[g].gameId] = g
  BY DEF DeleteGameFromTable, SlotsMatch
<1>2. /\ game' = [game EXCEPT ![g] = NoObject("freed")]
      /\ createdGames' = [createdGames EXCEPT ![game[g].gameId] = NULL]
      /\ gameCount' = gameCount
  BY <1>1 DEF DeleteGameFromTable
<1>3. /\ NoObject("freed") \in PreGameState
      /\ NoObject("freed").status = "freed"
      /\ NoObject("freed").userCount = 0
  BY NoObjectType DEF Status
<1>4. TypeOK'
  BY <1>1, <1>2, <1>3 DEF TypeOK
<1>5. \A h \in Games : (Listed(h)' <=> (Listed(h) /\ h # g)) /\ (h # g => game'[h] = game[h])
  BY <1>2, <1>3 DEF TypeOK, Listed
<1>6. \A t \in Slots : createdGames'[t] = IF t = game[g].gameId THEN NULL ELSE createdGames[t]
  BY <1>1, <1>2 DEF TypeOK
<1>7. SlotsMatch'
  <2>1. \A t \in Slots : createdGames'[t] # NULL =>
           createdGames'[t] = createdGames[t] /\ createdGames[t] # g
    BY <1>6 DEF SlotsMatch
  <2>2. \A t \in Slots : createdGames'[t] # NULL =>
           /\ game'[createdGames'[t]].status = "listed"
           /\ game'[createdGames'[t]].gameId = t
    BY <2>1, <1>5 DEF SlotsMatch, Listed, TypeOK
  <2>3. \A h \in Games : Listed(h)' =>
           game'[h].gameId \in Slots /\ createdGames'[game'[h].gameId] = h
    BY <1>1, <1>5, <1>6, TableAssumption DEF SlotsMatch
  <2> QED
    BY <2>2, <2>3 DEF SlotsMatch, Listed
<1>8. ListedNamesUnique'
  BY <1>5 DEF ListedNamesUnique
<1>9. CountCoversSlots'
  BY <1>2, <1>6 DEF CountCoversSlots
<1>10. CharIdIsPlace'
  BY <1>2, <1>3, <1>5 DEF CharIdIsPlace, Positions, Index, TypeOK
<1> QED
  BY <1>4, <1>7, <1>8, <1>9, <1>10

LEMMA AddUserInv ==
    ASSUME TableInv, NEW g \in Games, NEW u \in Users, AddPreGameUser(g, u)
    PROVE  TableInv'
<1> USE DEF TableInv
<1> DEFINE r == game[g]
           q == WithUser(game[g], u, Invited)
<1>1. r \in PreGameState /\ r.userCount < MaxUsers /\ u \notin Members(g)
  BY DEF AddPreGameUser, TypeOK
<1>2. game' = [game EXCEPT ![g] = q] /\ UNCHANGED <<createdGames, gameCount>>
  BY DEF AddPreGameUser
<1>3. game'[g] = q
  BY <1>2 DEF TypeOK
<1>4. /\ q \in PreGameState
      /\ q.status = r.status
      /\ q.gameId = r.gameId
      /\ q.gameName = r.gameName
      /\ q.userCount = r.userCount + 1
      /\ q.users[r.userCount] = u
      /\ \A i \in Index : i # r.userCount => q.users[i] = r.users[i]
      /\ q.user[u].charId = r.userCount
      /\ \A v \in Users : v # u => q.user[v] = r.user[v]
  BY <1>1, WithUserType
<1>5. PlacesNumbered(q)
  <2> SUFFICES ASSUME NEW i \in Index, i < r.userCount + 1
               PROVE  q.users[i] \in Users /\ q.user[q.users[i]].charId = i
    BY <1>4 DEF PlacesNumbered
  <2>1. CASE i = r.userCount
    BY <2>1, <1>4
  <2>2. CASE i # r.userCount
    <3>1. i \in Positions(g)
      BY <2>2, <1>1 DEF Positions, Index, PreGameState
    <3>2. r.users[i] \in Users /\ r.user[r.users[i]].charId = i /\ r.users[i] # u
      BY <3>1, <1>1 DEF CharIdIsPlace, Members
    <3> HIDE DEF q
    <3> QED
      BY <2>2, <3>2, <1>4
  <2> QED
    BY <2>1, <2>2
<1> HIDE DEF q
<1> QED
  BY <1>2, <1>3, <1>4, <1>5, PartyStep

\* SetUserState and PreGameAssignChar replace one player's record by one with
\* the same charId.
LEMMA PlayerRecordStep ==
    ASSUME TableInv, NEW g \in Games, NEW u \in Users, NEW p \in PreGameUser,
           p.charId = game[g].user[u].charId,
           game' = [game EXCEPT ![g].user[u] = p],
           UNCHANGED <<createdGames, gameCount>>
    PROVE  TableInv'
<1> USE DEF TableInv
<1>1. game'[g] = [game[g] EXCEPT !.user = [game[g].user EXCEPT ![u] = p]]
  BY DEF TypeOK
<1>2. game[g] \in PreGameState
  BY DEF TypeOK
<1>3. /\ game'[g] \in PreGameState
      /\ game'[g].status = game[g].status
      /\ game'[g].gameId = game[g].gameId
      /\ game'[g].gameName = game[g].gameName
      /\ game'[g].userCount = game[g].userCount
      /\ game'[g].users = game[g].users
      /\ game'[g].user = [game[g].user EXCEPT ![u] = p]
  BY <1>1, <1>2 DEF PreGameState
<1>4. \A v \in Users : game'[g].user[v].charId = game[g].user[v].charId
  BY <1>2, <1>3 DEF PreGameState
<1>5. PlacesNumbered(game'[g])
  BY <1>3, <1>4 DEF PlacesNumbered, CharIdIsPlace, Positions
<1>6. game' = [game EXCEPT ![g] = game'[g]]
  BY <1>1 DEF TypeOK
<1> QED
  BY <1>3, <1>5, <1>6, PartyStep

LEMMA SetUserStateInv ==
    ASSUME TableInv, NEW g \in Games, NEW u \in Users,
           NEW s \in {Accepted, BackOff, Left}, SetUserState(g, u, s)
    PROVE  TableInv'
<1> DEFINE p == [game[g].user[u] EXCEPT !.userState = s]
<1>1. game[g].user[u] \in PreGameUser
  BY DEF TableInv, TypeOK, PreGameState
<1>2. p \in PreGameUser /\ p.charId = game[g].user[u].charId
  BY <1>1 DEF PreGameUser
<1>3. game' = [game EXCEPT ![g].user[u] = p]
  BY DEF SetUserState
<1> HIDE DEF p
<1> QED
  BY <1>2, <1>3, PlayerRecordStep DEF SetUserState

LEMMA AssignCharInv ==
    ASSUME TableInv, NEW g \in Games, NEW u \in Users, NEW c \in Characters,
           PreGameAssignChar(g, u, c)
    PROVE  TableInv'
<1> DEFINE p == [game[g].user[u] EXCEPT !.charname = c]
<1>1. game[g].user[u] \in PreGameUser
  BY DEF TableInv, TypeOK, PreGameState
<1>2. p \in PreGameUser /\ p.charId = game[g].user[u].charId
  BY <1>1 DEF PreGameUser
<1>3. game' = [game EXCEPT ![g].user[u] = p]
  BY DEF PreGameAssignChar
<1> HIDE DEF p
<1> QED
  BY <1>2, <1>3, PlayerRecordStep DEF PreGameAssignChar

LEMMA DeleteUserInv ==
    ASSUME TableInv, NEW g \in Games, NEW u \in Users,
           DeletePreGameUserWithCharIdResassignment(g, u)
    PROVE  TableInv'
<1>1. UNCHANGED <<createdGames, gameCount>>
  BY DEF DeletePreGameUserWithCharIdResassignment
<1> QED
  BY <1>1, RemovalNumbersPlaces, PartyStep DEF TableInv, PlacesNumbered

LEMMA NextInv == TableInv /\ [Next]_tableVars => TableInv'
<1> SUFFICES ASSUME TableInv, [Next]_tableVars PROVE TableInv'
  OBVIOUS
<1>1. CASE UNCHANGED tableVars
  BY <1>1 DEF tableVars, TableInv, TypeOK, SlotsMatch, ListedNamesUnique,
              CountCoversSlots, CharIdIsPlace, Listed, Positions
<1>2. ASSUME NEW g \in Games, NEW u \in Users, NEW name \in Names, CreateGame(g, u, name)
      PROVE  TableInv'
  BY <1>2, CreateGameInv
<1>3. ASSUME NEW g \in Games, RefuseGame(g) PROVE TableInv'
  BY <1>3, RefuseGameInv
<1>4. ASSUME NEW g \in Games, AddGameToGameTable(g) PROVE TableInv'
  BY <1>4, AddGameInv
<1>5. ASSUME NEW g \in Games, NEW u \in Users, AddPreGameUser(g, u) PROVE TableInv'
  BY <1>5, AddUserInv
<1>6. ASSUME NEW g \in Games, NEW u \in Users, NEW s \in {Accepted, BackOff, Left},
             SetUserState(g, u, s)
      PROVE  TableInv'
  BY <1>6, SetUserStateInv
<1>7. ASSUME NEW g \in Games, NEW u \in Users,
             DeletePreGameUserWithCharIdResassignment(g, u)
      PROVE  TableInv'
  BY <1>7, DeleteUserInv
<1>8. ASSUME NEW g \in Games, NEW u \in Users, NEW c \in Characters,
             PreGameAssignChar(g, u, c)
      PROVE  TableInv'
  BY <1>8, AssignCharInv
<1>9. ASSUME NEW g \in Games, DeleteGameFromTable(g) PROVE TableInv'
  BY <1>9, DeleteGameInv
<1> QED
  BY <1>1, <1>2, <1>3, <1>4, <1>5, <1>6, <1>7, <1>8, <1>9 DEF Next

-----------------------------------------------------------------------------
(***************************************************************************)
(* Theorems.                                                               *)
(***************************************************************************)

\* The inductive invariant holds in every reachable state of the table.
THEOREM TableInvariant == Spec => []TableInv
<1> QED
  BY InitInv, NextInv, PTL DEF Spec

\* Type correctness of the table and of every party.
THEOREM TypeCorrect == Spec => []TypeOK
<1>1. TableInv => TypeOK
  BY DEF TableInv
<1> QED
  BY <1>1, TableInvariant, PTL

\* A slot and the game in it always agree (AddGameToGameTable,
\* DeleteGameFromTable).
THEOREM SlotsAgree == Spec => []SlotsMatch
<1>1. TableInv => SlotsMatch
  BY DEF TableInv
<1> QED
  BY <1>1, TableInvariant, PTL

\* The second name check, under the table's mutex, keeps names unique.
THEOREM NamesUnique == Spec => []ListedNamesUnique
<1>1. TableInv => ListedNamesUnique
  BY DEF TableInv
<1> QED
  BY <1>1, TableInvariant, PTL

\* GetPreGameStateByName never answers NULL for a game in the table.
THEOREM LookupComplete == Spec => []LookupNeverMisses
<1>1. TableInv => LookupNeverMisses
  <2> SUFFICES ASSUME TableInv, NEW g \in Games, Listed(g)
               PROVE  ~LookupFails(game[g].gameName) /\ game[g].gameId < gameCount
    BY DEF LookupNeverMisses
  <2>1. game[g].gameId \in Slots /\ createdGames[game[g].gameId] = g
    BY DEF TableInv, SlotsMatch
  <2>2. game[g].gameId < gameCount
    BY <2>1, TableAssumption DEF TableInv, CountCoversSlots
  <2> QED
    BY <2>1, <2>2 DEF LookupFails
<1> QED
  BY <1>1, TableInvariant, PTL

\* The search for an empty slot always succeeds, although gameCount is not the
\* number of games (AddGameToGameTable's last else branch is dead code).
THEOREM RoomInTable == Spec => []RoomWhenCounted
<1> QED
  BY RoomLemma, TableInvariant, PTL

\* Places in a party and charIds are the same numbers, so users[charId] is the
\* player with that charId.
THEOREM CharIdsArePlaces == Spec => [](CharIdIsPlace /\ MembersDistinct)
<1>1. TableInv => CharIdIsPlace /\ MembersDistinct
  BY PlacesDistinct DEF TableInv
<1> QED
  BY <1>1, TableInvariant, PTL

-----------------------------------------------------------------------------
(***************************************************************************)
(* Part 2: the lobby.                                                      *)
(***************************************************************************)

\* A request that creates a game knows its address and its name.
CreatorsHaveGames ==
    \A u \in Users : pc[u] \in {"adding", "inviting"} =>
                        target[u] \in Games /\ asking[u] \in Names

\* The inductive invariant for type correctness and refinement.
LobbyInv == LobbyTypeOK /\ TableInv /\ CreatorsHaveGames

-----------------------------------------------------------------------------
(***************************************************************************)
(* The lobby implements the table.                                         *)
(***************************************************************************)

\* A live pointer is the address of a listed game.
LEMMA LiveGame ==
    ASSUME NEW p \in Games \cup {NULL}, Live(p)
    PROVE  p \in Games /\ Listed(p)
  BY DEF Live

\* The members of a game are users.
LEMMA MembersAreUsers ==
    ASSUME TableInv, NEW g \in Games, NEW v \in Members(g)
    PROVE  v \in Users
  BY DEF TableInv, CharIdIsPlace, Members

\* The game a sender serves, when it is live, is an address.
LEMMA SenderGame ==
    ASSUME LobbyTypeOK, NEW s \in Slots, Live(senderGame[s])
    PROVE  senderGame[s] \in Games
  BY DEF LobbyTypeOK, Live

\* A live player belongs to a listed game.
LEMMA PlayerIsUser ==
    ASSUME LobbyInv, NEW u \in Users, PlayerLive(u)
    PROVE  preGameUser[u][1] \in Games /\ preGameUser[u][2] \in Users
  BY DEF LobbyInv, LobbyTypeOK, PlayerLive

\* A step that leaves every variable but faulted alone.
Rests == UNCHANGED <<tableVars, sessionVars, threadVars, clientVars>>

\* A pass of the invitation loop adds a user or leaves the table alone.
LEMMA InviteNextTable ==
    ASSUME LobbyInv, NEW u \in Users, InviteNext(u)
    PROVE  \/ AddPreGameUser(target[u], Head(todo[u])) /\ Head(todo[u]) \in Users
           \/ UNCHANGED tableVars
  BY DEF LobbyInv, LobbyTypeOK, InviteNext

\* The sections of a session are operations of the table.
LEMMA SessionTable ==
    ASSUME LobbyInv, NEW u \in Users, SessionStep(u)
    PROVE  [Next]_tableVars
<1> USE DEF LobbyInv
<1>0. target[u] \in Games \cup {NULL} /\ preGame[u] \in Games \cup {NULL}
  BY DEF LobbyTypeOK
<1>1. CASE AddRefused(u)
  BY <1>1 DEF AddRefused, Goto, CreatorsHaveGames, Next
<1>2. CASE AddDone(u)
  BY <1>2 DEF AddDone, Goto, CreatorsHaveGames, Next
<1>3. CASE InviteNext(u)
  <2>1. target[u] \in Games
    BY <1>3, <1>0, LiveGame DEF InviteNext
  <2> QED
    BY <1>3, <2>1, InviteNextTable DEF Next
<1>4. CASE CreatedAlone(u)
  BY <1>4, <1>0, LiveGame DEF CreatedAlone, Next
<1>5. CASE AcceptMark(u)
  BY <1>5, <1>0, LiveGame, MembersAreUsers DEF AcceptMark, Next
<1>6. CASE RejectRemove(u)
  BY <1>6, <1>0, LiveGame, MembersAreUsers DEF RejectRemove, Next
<1>7. CASE RejectDelete(u)
  BY <1>7, <1>0, LiveGame DEF RejectDelete, Next
<1>8. CASE CancelDelete(u)
  BY <1>8, <1>0, LiveGame DEF CancelDelete, Next
<1>9. CASE Announce(u) \/ FindPosition(u) \/ NotInGame(u) \/ Report(u) \/ RejectCheck(u)
           \/ TellCreator(u) \/ Start(u) \/ CloseInvitations(u)
  BY <1>9 DEF Announce, FindPosition, NotInGame, Report, RejectCheck, TellCreator, Start,
     CloseInvitations
<1> QED
  BY <1>1, <1>2, <1>3, <1>4, <1>5, <1>6, <1>7, <1>8, <1>9 DEF SessionStep

\* The requests of a client are operations of the table.
LEMMA ClientTable ==
    ASSUME LobbyInv, NEW u \in Users, ClientStep(u)
    PROVE  [Next]_tableVars
<1> USE DEF LobbyInv
<1>0. preGame[u] \in Games \cup {NULL}
  BY DEF LobbyTypeOK
<1>1. ASSUME NEW g \in Games, NEW name \in Names, NEW list \in InviteLists,
             RequestCreate(u, g, name, list)
      PROVE  Next
  BY <1>1 DEF RequestCreate, Next
<1>2. ASSUME NEW c \in Characters, RequestCharacter(u, c) PROVE Next
  BY <1>2, <1>0, LiveGame DEF RequestCharacter, Next
<1>3. CASE RequestLeave(u)
  BY <1>3, PlayerIsUser DEF RequestLeave, Next
<1>4. ASSUME NEW name \in Names, NEW g \in Games,
             RequestAccept(u, name, g) \/ RequestReject(u, name, g)
      PROVE  UNCHANGED tableVars
  BY <1>4 DEF RequestAccept, RequestReject
<1>5. ASSUME NEW name \in Names, LookupForever(u, name) PROVE UNCHANGED tableVars
  BY <1>5 DEF LookupForever
<1>6. CASE RequestStart(u) \/ RequestCancel(u)
  BY <1>6 DEF RequestStart, RequestCancel
<1> QED
  BY <1>1, <1>2, <1>3, <1>4, <1>5, <1>6 DEF ClientStep

\* Every step of the lobby is an operation of the table or leaves it alone.
LEMMA LobbyTable == LobbyInv /\ [LobbyNext]_lobbyVars => [Next]_tableVars
<1> SUFFICES ASSUME LobbyInv, [LobbyNext]_lobbyVars PROVE [Next]_tableVars
  OBVIOUS
<1>1. ASSUME NEW u \in Users, SessionStep(u) PROVE [Next]_tableVars
  BY <1>1, SessionTable
<1>2. ASSUME NEW u \in Users, ClientStep(u) PROVE [Next]_tableVars
  BY <1>2, ClientTable
<1>3. ASSUME NEW u \in Users, Dangling(u) PROVE UNCHANGED tableVars
  BY <1>3 DEF Dangling, Fault
<1>4. ASSUME NEW s \in Slots, GameOver(s) PROVE [Next]_tableVars
  BY <1>4, SenderGame DEF GameOver, LobbyInv, Next
<1>6. ASSUME NEW s \in Slots, DanglingGame(s) PROVE UNCHANGED tableVars
  BY <1>6 DEF DanglingGame, Fault
<1>5. CASE UNCHANGED lobbyVars
  BY <1>5 DEF lobbyVars
<1> QED
  BY <1>1, <1>2, <1>3, <1>4, <1>5, <1>6 DEF LobbyNext

-----------------------------------------------------------------------------
(***************************************************************************)
(* Type correctness.                                                       *)
(***************************************************************************)

\* A party cannot have more players in a state than it has places: the charId
\* of a member is its place, so different members have different charIds.
LEMMA InStateBound ==
    ASSUME TableInv, NEW g \in Games, NEW state
    PROVE  Cardinality(InState(g, state)) \in 0 .. MaxUsers
<1> DEFINE S == InState(g, state)
           charId == [v \in S |-> game[g].user[v].charId]
<1>1. IsFiniteSet(Index) /\ Cardinality(Index) = MaxUsers
  BY FS_Interval, TableAssumption DEF Index
<1>2. \A v \in S : \E i \in Positions(g) : v = game[g].users[i] /\ charId[v] = i
  BY DEF TableInv, CharIdIsPlace, InState, Members
<1>3. charId \in Injection(S, Index)
  BY <1>2 DEF Injection, IsInjective, Positions
<1> HIDE DEF S, charId
<1>4. IsFiniteSet(S) /\ Cardinality(S) <= MaxUsers
  BY <1>1, <1>3, FS_Injection
<1>5. Cardinality(S) \in Nat
  BY <1>4, FS_CardinalityType
<1> QED
  BY <1>4, <1>5, TableAssumption DEF S

\* A listed game has the number of its slot.
LEMMA ListedId ==
    ASSUME TableInv, NEW g \in Games, Listed(g)
    PROVE  game[g].gameId \in Slots
  BY DEF TableInv, SlotsMatch

\* The sections of a session keep the types.
LEMMA SessionType ==
    ASSUME LobbyInv, TypeOK', NEW u \in Users, SessionStep(u)
    PROVE  LobbyTypeOK'
<1> USE DEF LobbyInv, LobbyTypeOK
<1>0. /\ target[u] \in Games \cup {NULL} /\ preGame[u] \in Games \cup {NULL}
      /\ \A g \in Games : game[g].gameId \in Slots \cup {-2, -1}
      /\ \A g \in Games : game'[g].gameId \in Slots \cup {-2, -1}
  BY DEF TableInv, TypeOK, PreGameState
<1>1. CASE AddRefused(u)
  BY <1>1 DEF AddRefused, Goto, Finish, Labels, threadVars, clientVars
<1>2. CASE AddDone(u)
  BY <1>0, <1>2 DEF AddDone, Goto, CreatorsHaveGames, Labels, threadVars, clientVars
<1>3. CASE InviteNext(u)
  BY <1>3 DEF InviteNext, threadVars, clientVars
<1>4. CASE Announce(u)
  <2>1. asking[u] \in Names /\ target[u] \in Games
    BY <1>4 DEF Announce, Goto, CreatorsHaveGames
  <2>2. invites' \in [Users -> SUBSET Names]
    BY <1>4, <2>1 DEF Announce
  <2> QED
    BY <1>4, <2>1, <2>2 DEF Announce, Goto, Finish, Labels
<1>5. CASE CreatedAlone(u)
  BY <1>5 DEF CreatedAlone, Goto, Finish, Labels, threadVars, clientVars
<1>6. CASE FindPosition(u)
  <2>1. pos' \in [Users -> Index \cup {-1}]
    BY <1>6 DEF FindPosition
  <2>2. pc' \in [Users -> Labels]
    BY <1>6 DEF FindPosition, Goto, Labels
  <2> QED
    BY <1>6, <2>1, <2>2 DEF FindPosition, threadVars, clientVars
<1>7. CASE NotInGame(u)
  BY <1>0, <1>7, LiveGame DEF NotInGame, Goto, Finish, Labels, threadVars, clientVars
<1>8. CASE AcceptMark(u)
  <2> DEFINE v == game[target[u]].users[pos[u]]
  <2>1. target[u] \in Games /\ v \in Users
    BY <1>0, <1>8, LiveGame, MembersAreUsers DEF AcceptMark
  <2>2. preGameUser' = [preGameUser EXCEPT ![u] = <<target[u], v>>]
    BY <1>8 DEF AcceptMark
  <2> HIDE DEF v
  <2>3. preGameUser' \in [Users -> (Games \X Users) \cup {NULL}]
    BY <2>1, <2>2
  <2> QED
    BY <1>0, <1>8, <2>1, <2>3 DEF AcceptMark, Goto, Labels, threadVars
<1>9. CASE Report(u)
  BY <1>9 DEF Report, Goto, Finish, Labels, threadVars, clientVars
<1>10. CASE RejectRemove(u)
  <2>1. preGameUser' \in [Users -> (Games \X Users) \cup {NULL}]
    BY <1>10 DEF RejectRemove
  <2> QED
    BY <1>10, <2>1 DEF RejectRemove, Goto, Labels, threadVars
<1>11. CASE RejectCheck(u)
  <2>1. \/ pc' = [pc EXCEPT ![u] = "telling"]
        \/ pc' = [pc EXCEPT ![u] = "reporting"]
    BY <1>11 DEF RejectCheck, Goto
  <2>2. pc' \in [Users -> Labels]
    BY <2>1 DEF Labels
  <2> QED
    BY <1>11, <2>2 DEF RejectCheck, threadVars, clientVars
<1>15. CASE TellCreator(u)
  BY <1>15 DEF TellCreator, Goto, Labels, threadVars
<1>16. CASE CloseInvitations(u)
  BY <1>16 DEF CloseInvitations, Goto, Finish, Labels, threadVars, clientVars
<1>12. CASE RejectDelete(u)
  BY <1>12 DEF RejectDelete, Goto, Finish, Labels, threadVars, clientVars
<1>13. CASE Start(u)
  <2>1. preGame[u] \in Games /\ game[preGame[u]].gameId \in Slots
    BY <1>0, <1>13, LiveGame, ListedId DEF Start
  <2>2. PlayersToWaitFor(preGame[u]) \in 0 .. MaxUsers
    BY <2>1, InStateBound DEF PlayersToWaitFor
  <2>3. processor' \in [Slots -> ProcessorArgs \cup {NULL}]
    BY <1>13, <2>1, <2>2 DEF Start, ProcessorArgs
  <2> QED
    BY <1>13, <2>3 DEF Start, Goto, Labels
<1>14. CASE CancelDelete(u)
  BY <1>14 DEF CancelDelete, Goto, Finish, Labels, threadVars, clientVars
<1> QED
  BY <1>1, <1>2, <1>3, <1>4, <1>5, <1>6, <1>7, <1>8, <1>9, <1>10, <1>11, <1>12, <1>13,
     <1>14, <1>15, <1>16 DEF SessionStep

\* The requests of a client keep the types.
LEMMA ClientType ==
    ASSUME LobbyInv, NEW u \in Users, ClientStep(u)
    PROVE  LobbyTypeOK'
<1> USE DEF LobbyInv, LobbyTypeOK
<1>0. /\ preGame[u] \in Games \cup {NULL}
      /\ \A g \in Games : game[g].gameId \in Slots \cup {-2, -1}
  BY DEF TableInv, TypeOK, PreGameState
<1>1. ASSUME NEW g \in Games, NEW name \in Names, NEW list \in InviteLists,
             RequestCreate(u, g, name, list)
      PROVE  LobbyTypeOK'
  BY <1>1, LobbyAssumption DEF RequestCreate, Goto, Labels, threadVars
<1>2. ASSUME NEW name \in Names, NEW g \in Games, RequestAccept(u, name, g)
      PROVE  LobbyTypeOK'
  BY <1>2 DEF RequestAccept, Goto, Labels, threadVars
<1>3. ASSUME NEW name \in Names, NEW g \in Games, RequestReject(u, name, g)
      PROVE  LobbyTypeOK'
  BY <1>0, <1>3 DEF RequestReject, Goto, Labels, threadVars, clientVars
<1>4. ASSUME NEW name \in Names, LookupForever(u, name) PROVE LobbyTypeOK'
  BY <1>4 DEF LookupForever, Goto, Labels, threadVars, clientVars
<1>5. ASSUME NEW c \in Characters, RequestCharacter(u, c) PROVE LobbyTypeOK'
  BY <1>5 DEF RequestCharacter, Goto, Labels, threadVars, clientVars
<1>6. CASE RequestStart(u)
  BY <1>6 DEF RequestStart, Goto, Labels, threadVars, clientVars
<1>7. CASE RequestCancel(u)
  <2>1. invites' \in [Users -> SUBSET Names]
    BY <1>7 DEF RequestCancel
  <2>2. party' \in [Users -> {"none", "creator", "guest", "playing"}]
    BY <1>7 DEF RequestCancel
  <2> QED
    BY <1>7, <2>1, <2>2 DEF RequestCancel, Goto, Labels, threadVars
<1>8. CASE RequestLeave(u)
  <2> DEFINE p == processor[gameId[u]]
  <2>1. p \in ProcessorArgs
    BY <1>8 DEF RequestLeave
  <2>2. processor' = [processor EXCEPT ![gameId[u]] = [p EXCEPT !.left = p.left + 1]]
    BY <1>8 DEF RequestLeave
  <2> HIDE DEF p
  <2>3. p.left + 1 \in Nat
    BY <2>1 DEF ProcessorArgs
  <2>5. [p EXCEPT !.left = p.left + 1] \in ProcessorArgs
    BY <2>1, <2>3 DEF ProcessorArgs
  <2>4. processor' \in [Slots -> ProcessorArgs \cup {NULL}]
    BY <2>2, <2>5
  <2> QED
    BY <1>8, <2>4 DEF RequestLeave
<1> QED
  BY <1>1, <1>2, <1>3, <1>4, <1>5, <1>6, <1>7, <1>8 DEF ClientStep

\* A request knows its game from the moment it asks for one.
LEMMA CreatorsStep ==
    ASSUME LobbyInv, [LobbyNext]_lobbyVars
    PROVE  CreatorsHaveGames'
<1> USE DEF LobbyInv, LobbyTypeOK, CreatorsHaveGames
<1>1. ASSUME NEW u \in Users, SessionStep(u) PROVE CreatorsHaveGames'
  BY <1>1 DEF SessionStep, AddRefused, AddDone, InviteNext, Announce, CreatedAlone,
     FindPosition, NotInGame, AcceptMark, Report, RejectRemove, RejectCheck, TellCreator,
     RejectDelete, Start, CloseInvitations, CancelDelete, Goto, Finish
<1>2. ASSUME NEW u \in Users, ClientStep(u) PROVE CreatorsHaveGames'
  BY <1>2 DEF ClientStep, RequestCreate, RequestAccept, RequestReject, LookupForever,
     RequestCharacter, RequestStart, RequestCancel, RequestLeave, Goto
<1>3. ASSUME NEW u \in Users, Dangling(u) PROVE CreatorsHaveGames'
  BY <1>3 DEF Dangling, Fault, sessionVars
<1>4. ASSUME NEW s \in Slots, GameOver(s) PROVE CreatorsHaveGames'
  BY <1>4 DEF GameOver, sessionVars
<1>5. CASE UNCHANGED lobbyVars
  BY <1>5 DEF lobbyVars, sessionVars
<1>6. ASSUME NEW s \in Slots, DanglingGame(s) PROVE CreatorsHaveGames'
  BY <1>6 DEF DanglingGame, Fault, sessionVars
<1> QED
  BY <1>1, <1>2, <1>3, <1>4, <1>5, <1>6 DEF LobbyNext

LEMMA LobbyInit_Inv == LobbyInit => LobbyInv
<1> SUFFICES ASSUME LobbyInit PROVE LobbyInv
  OBVIOUS
<1>1. TableInv
  BY InitInv DEF LobbyInit
<1>2. LobbyTypeOK
  <2>1. todo \in [Users -> Seq(Users)]
    BY DEF LobbyInit
  <2>2. faulted \in BOOLEAN
    BY DEF LobbyInit
  <2>3. gameId \in [Users -> Slots \cup {-2, -1}]
    BY DEF LobbyInit
  <2> QED
    BY <2>1, <2>2, <2>3 DEF LobbyInit, LobbyTypeOK, Labels
<1> QED
  BY <1>1, <1>2 DEF LobbyInv, CreatorsHaveGames, LobbyInit

LEMMA LobbyNext_Inv == LobbyInv /\ [LobbyNext]_lobbyVars => LobbyInv'
<1> SUFFICES ASSUME LobbyInv, [LobbyNext]_lobbyVars PROVE LobbyInv'
  OBVIOUS
<1>1. TableInv'
  BY LobbyTable, NextInv DEF LobbyInv
<1>2. TypeOK'
  BY <1>1 DEF TableInv
<1>3. LobbyTypeOK'
  <2>1. ASSUME NEW u \in Users, SessionStep(u) PROVE LobbyTypeOK'
    BY <1>2, <2>1, SessionType
  <2>2. ASSUME NEW u \in Users, ClientStep(u) PROVE LobbyTypeOK'
    BY <2>2, ClientType
  <2>3. ASSUME NEW u \in Users, Dangling(u) PROVE LobbyTypeOK'
    BY <2>3 DEF Dangling, Fault, LobbyInv, LobbyTypeOK, sessionVars, threadVars, clientVars
  <2>4. ASSUME NEW s \in Slots, GameOver(s) PROVE LobbyTypeOK'
    <3>1. processor[s] \in ProcessorArgs
      BY <2>4 DEF GameOver, AllLeft, LobbyInv, LobbyTypeOK
    <3>2. processor' = [processor EXCEPT ![s] = [processor[s] EXCEPT !.left = 0]]
      BY <2>4 DEF GameOver
    <3>3. processor' \in [Slots -> ProcessorArgs \cup {NULL}]
      BY <3>1, <3>2 DEF ProcessorArgs, LobbyInv, LobbyTypeOK
    <3> QED
      BY <2>4, <3>3 DEF GameOver, LobbyInv, LobbyTypeOK, sessionVars, clientVars
  <2>6. ASSUME NEW s \in Slots, DanglingGame(s) PROVE LobbyTypeOK'
    BY <2>6 DEF DanglingGame, Fault, LobbyInv, LobbyTypeOK, sessionVars, threadVars, clientVars
  <2>5. CASE UNCHANGED lobbyVars
    BY <2>5 DEF lobbyVars, LobbyInv, LobbyTypeOK, sessionVars, threadVars, clientVars
  <2> QED
    BY <2>1, <2>2, <2>3, <2>4, <2>5, <2>6 DEF LobbyNext
<1> QED
  BY <1>1, <1>3, CreatorsStep DEF LobbyInv

-----------------------------------------------------------------------------
(***************************************************************************)
(* Lookups: a listed game is found, and a deleted one has left a hole below *)
(* gameCount that no later addition can make up for.                       *)
(***************************************************************************)

\* An empty slot among those a lookup visits.
Hole == \E s \in Slots : s < gameCount /\ createdGames[s] = NULL

\* A name for which the lookup does not answer NULL.
Known(name) == Hole \/ \E g \in Games : Listed(g) /\ game[g].gameName = name

LEMMA KnownFound ==
    ASSUME TableInv, NEW name, Known(name)
    PROVE  ~LookupFails(name)
<1>1. CASE Hole
  BY <1>1 DEF Hole, LookupFails
<1>2. ASSUME NEW g \in Games, Listed(g), game[g].gameName = name
      PROVE  ~LookupFails(name)
  BY <1>2, TableAssumption DEF TableInv, SlotsMatch, CountCoversSlots, LookupFails
<1> QED
  BY <1>1, <1>2 DEF Known

\* What any operation of the table does to the games that are or were in it,
\* and to the hole: an addition that fills it uncovers the next one, since the
\* counter advances past a slot that was empty.
LEMMA ListedStays ==
    ASSUME TableInv, [Next]_tableVars
    PROVE  /\ Hole => Hole'
           /\ \A g \in Games : game[g].status = "freed" => game'[g].status = "freed"
           /\ \A g \in Games : Listed(g) =>
                 \/ Listed(g)' /\ game'[g].gameName = game[g].gameName
                 \/ game'[g].status = "freed" /\ Hole'
<1> DEFINE Kept(g) == /\ game[g].status = "freed" => game'[g].status = "freed"
                      /\ Listed(g) => \/ Listed(g)' /\ game'[g].gameName = game[g].gameName
                                      \/ game'[g].status = "freed" /\ Hole'
           Goal == (Hole => Hole') /\ \A g \in Games : Kept(g)
<1> SUFFICES Goal
  OBVIOUS
<1> USE DEF TableInv
<1>0. game \in [Games -> PreGameState]
  BY DEF TypeOK
<1>1. CASE UNCHANGED tableVars
  BY <1>1 DEF tableVars, Hole, Listed
<1>2. ASSUME NEW h \in Games, NEW u \in Users, NEW name \in Names, CreateGame(h, u, name)
      PROVE  Goal
  <2>1. \A g \in Games : g # h => game'[g] = game[g]
    BY <1>0, <1>2 DEF CreateGame
  <2> QED
    BY <2>1, <1>2 DEF CreateGame, Hole, Listed
<1>3. ASSUME NEW h \in Games, RefuseGame(h) PROVE Goal
  <2>1. \A g \in Games : g # h => game'[g] = game[g]
    BY <1>0, <1>3 DEF RefuseGame
  <2> QED
    BY <2>1, <1>3 DEF RefuseGame, Hole, Listed
<1>4. ASSUME NEW h \in Games, AddGameToGameTable(h) PROVE Goal
  <2>1. PICK s \in Slots :
           /\ createdGames[s] = NULL
           /\ \A t \in Slots : t < s => createdGames[t] # NULL
           /\ createdGames' = [createdGames EXCEPT ![s] = h]
           /\ game' = [game EXCEPT ![h].gameId = s, ![h].status = "listed"]
    BY <1>4 DEF AddGameToGameTable
  <2>2. \A g \in Games : g # h => game'[g] = game[g]
    BY <1>0, <2>1
  <2>3. game[h].status = "private" /\ gameCount # MaxGames /\ gameCount' = gameCount + 1
    BY <1>4 DEF AddGameToGameTable, TableFull
  <2>4. ASSUME Hole PROVE Hole'
    <3>1. s < gameCount
      BY <2>1, <2>4 DEF Hole, Slots, TypeOK
    <3>2. gameCount \in Slots
      BY <2>3, TableAssumption DEF TypeOK, Slots
    <3>3. createdGames[gameCount] = NULL
      BY <3>2 DEF CountCoversSlots, Slots
    <3>4. createdGames'[gameCount] = NULL
      BY <2>1, <3>1, <3>2, <3>3 DEF TypeOK, Slots
    <3> QED
      BY <2>3, <3>2, <3>4 DEF Hole, Slots
  <2> QED
    BY <2>2, <2>3, <2>4 DEF Listed
<1>5. ASSUME NEW h \in Games, NEW u \in Users,
             \/ AddPreGameUser(h, u)
             \/ \E st \in {Accepted, BackOff, Left} : SetUserState(h, u, st)
             \/ \E c \in Characters : PreGameAssignChar(h, u, c)
      PROVE  Goal
  <2>1. UNCHANGED <<createdGames, gameCount>>
    BY <1>5 DEF AddPreGameUser, SetUserState, PreGameAssignChar
  <2>2. /\ game'[h].status = game[h].status
        /\ game'[h].gameName = game[h].gameName
        /\ \A g \in Games : g # h => game'[g] = game[g]
    BY <1>0, <1>5 DEF AddPreGameUser, SetUserState, PreGameAssignChar, WithUser, PreGameState
  <2> QED
    BY <2>1, <2>2 DEF Hole, Listed
<1>6. ASSUME NEW h \in Games, NEW u \in Users,
             DeletePreGameUserWithCharIdResassignment(h, u)
      PROVE  Goal
  <2>1. UNCHANGED <<createdGames, gameCount>>
    BY <1>6 DEF DeletePreGameUserWithCharIdResassignment
  <2>2. /\ game' = [game EXCEPT ![h] = game'[h]]
        /\ game'[h].status = game[h].status
        /\ game'[h].gameName = game[h].gameName
    BY <1>6, RemovalNumbersPlaces
  <2>3. \A g \in Games : g # h => game'[g] = game[g]
    BY <1>0, <2>2
  <2> QED
    BY <2>1, <2>2, <2>3 DEF Hole, Listed
<1>7. ASSUME NEW h \in Games, DeleteGameFromTable(h) PROVE Goal
  <2>1. game[h].gameId \in Slots /\ createdGames[game[h].gameId] = h
    BY <1>7 DEF DeleteGameFromTable, SlotsMatch
  <2>2. /\ game' = [game EXCEPT ![h] = NoObject("freed")]
        /\ createdGames' = [createdGames EXCEPT ![game[h].gameId] = NULL]
        /\ gameCount' = gameCount
    BY <1>7, <2>1 DEF DeleteGameFromTable
  <2>3. game[h].gameId < gameCount
    BY <2>1, TableAssumption DEF CountCoversSlots
  <2>4. Hole'
    BY <2>1, <2>2, <2>3 DEF Hole, TypeOK
  <2>5. game'[h].status = "freed" /\ \A g \in Games : g # h => game'[g] = game[g]
    BY <1>0, <2>2, NoObjectType DEF Status
  <2> QED
    BY <2>4, <2>5 DEF Listed
<1> QED
  BY <1>1, <1>2, <1>3, <1>4, <1>5, <1>6, <1>7 DEF Next

\* A name stays known.
LEMMA KnownStays ==
    ASSUME TableInv, [Next]_tableVars, NEW name, Known(name)
    PROVE  Known(name)'
<1>1. CASE Hole
  BY <1>1, ListedStays DEF Known
<1>2. ASSUME NEW g \in Games, Listed(g), game[g].gameName = name
      PROVE  Known(name)'
  BY <1>2, ListedStays DEF Known
<1> QED
  BY <1>1, <1>2 DEF Known

-----------------------------------------------------------------------------
(***************************************************************************)
(* Who knows which game.                                                   *)
(***************************************************************************)

\* A game that is not in the table yet is in the hands of one thread only, the
\* one that created it.
PrivateToCreator ==
    /\ \A u \in Users : pc[u] = "adding" =>
          /\ game[target[u]].status = "private"
          /\ game[target[u]].gameName = asking[u]
    /\ \A u, v \in Users :
          pc[u] = "adding" /\ pc[v] = "adding" /\ target[u] = target[v] => u = v

\* Every other request is about a game that is or was in the table.
TargetsListedOnce ==
    \A u \in Users : pc[u] # "adding" /\ target[u] # NULL =>
                        game[target[u]].status \in {"listed", "freed"}

\* While the creator's thread invites, the game has the name of the request.
InvitingByName ==
    \A u \in Users : pc[u] = "inviting" /\ Live(target[u]) =>
                        game[target[u]].gameName = asking[u]

HandsInv == PrivateToCreator /\ TargetsListedOnce /\ InvitingByName

\* Operations on a listed game do not touch any other.
LEMMA OtherGames ==
    ASSUME TableInv, NEW h \in Games,
           \/ \E u \in Users : \/ AddPreGameUser(h, u)
                              \/ DeletePreGameUserWithCharIdResassignment(h, u)
                              \/ \E st \in {Accepted, BackOff, Left} : SetUserState(h, u, st)
                              \/ \E c \in Characters : PreGameAssignChar(h, u, c)
           \/ DeleteGameFromTable(h)
    PROVE  Listed(h) /\ \A g \in Games : g # h => game'[g] = game[g]
<1>0. game \in [Games -> PreGameState]
  BY DEF TableInv, TypeOK
<1>1. ASSUME NEW u \in Users,
             \/ AddPreGameUser(h, u)
             \/ \E st \in {Accepted, BackOff, Left} : SetUserState(h, u, st)
             \/ \E c \in Characters : PreGameAssignChar(h, u, c)
      PROVE  Listed(h) /\ \A g \in Games : g # h => game'[g] = game[g]
  BY <1>0, <1>1 DEF AddPreGameUser, SetUserState, PreGameAssignChar
<1>2. ASSUME NEW u \in Users, DeletePreGameUserWithCharIdResassignment(h, u)
      PROVE  Listed(h) /\ \A g \in Games : g # h => game'[g] = game[g]
  <2>1. game' = [game EXCEPT ![h] = game'[h]]
    BY <1>2, RemovalNumbersPlaces DEF TableInv
  <2> QED
    BY <1>0, <1>2, <2>1 DEF DeletePreGameUserWithCharIdResassignment
<1>3. CASE DeleteGameFromTable(h)
  BY <1>0, <1>3 DEF DeleteGameFromTable, TableInv, SlotsMatch
<1> QED
  BY <1>1, <1>2, <1>3

\* The effect on hands of all the sections and requests but the three of
\* PrivateToCreator: what is private stays as it is, and threads turn to
\* games that are listed.
Serving ==
    /\ \A g \in Games : game[g].status = "private" => game'[g] = game[g]
    /\ \A v \in Users :
          /\ pc'[v] = "adding" <=> pc[v] = "adding"
          /\ pc'[v] = "inviting" => pc[v] = "inviting"
          /\ pc'[v] \in {"adding", "inviting"} => UNCHANGED <<target[v], asking[v]>>
          /\ \/ UNCHANGED target[v]
             \/ target'[v] = NULL
             \/ Live(target'[v])

Serves(u) ==
    \/ InviteNext(u) \/ Announce(u) \/ CreatedAlone(u) \/ FindPosition(u) \/ NotInGame(u)
    \/ AcceptMark(u) \/ Report(u) \/ RejectRemove(u) \/ RejectCheck(u) \/ TellCreator(u)
    \/ RejectDelete(u) \/ Start(u) \/ CloseInvitations(u) \/ CancelDelete(u)
    \/ RequestStart(u) \/ RequestCancel(u) \/ RequestLeave(u)
    \/ Dangling(u)
    \/ \E name \in Names, g \in Games : RequestAccept(u, name, g) \/ RequestReject(u, name, g)
    \/ \E name \in Names : LookupForever(u, name)
    \/ \E c \in Characters : RequestCharacter(u, c)

\* A step of the lobby is one of four, a serving step or a rest.
LEMMA StepKinds ==
    ASSUME [LobbyNext]_lobbyVars
    PROVE  \/ \E u \in Users, g \in Games, name \in Names, list \in InviteLists :
                 RequestCreate(u, g, name, list)
           \/ \E u \in Users : AddRefused(u)
           \/ \E u \in Users : AddDone(u)
           \/ \E u \in Users : Serves(u)
           \/ \E s \in Slots : GameOver(s)
           \/ Rests
<1>1. ASSUME NEW u \in Users, SessionStep(u)
      PROVE  AddRefused(u) \/ AddDone(u) \/ Serves(u)
  BY <1>1 DEF SessionStep, Serves
<1>2. ASSUME NEW u \in Users, ClientStep(u)
      PROVE  \/ Serves(u)
             \/ \E g \in Games, name \in Names, list \in InviteLists :
                   RequestCreate(u, g, name, list)
  BY <1>2 DEF ClientStep, Serves
<1>3. ASSUME NEW u \in Users, Dangling(u) PROVE Serves(u)
  BY <1>3 DEF Serves
<1>4. ASSUME NEW s \in Slots, DanglingGame(s) PROVE Rests
  BY <1>4 DEF DanglingGame, Fault, Rests
<1>5. CASE UNCHANGED lobbyVars
  BY <1>5 DEF lobbyVars, Rests
<1> QED
  BY <1>1, <1>2, <1>3, <1>4, <1>5 DEF LobbyNext

\* A lookup finds a listed game.
LEMMA FoundIsListed ==
    ASSUME TableInv, NEW name \in Names, NEW g \in Games, LookupFinds(name, g)
    PROVE  Live(g) /\ game[g].gameName = name
  BY TableAssumption DEF LookupFinds, TableInv, SlotsMatch, Live

LEMMA ServesTable ==
    ASSUME LobbyInv, NEW u \in Users, Serves(u)
    PROVE  \A g \in Games : game[g].status = "private" => game'[g] = game[g]
<1> USE DEF LobbyInv
<1>0. target[u] \in Games \cup {NULL} /\ preGame[u] \in Games \cup {NULL}
  BY DEF LobbyTypeOK
<1>1. CASE InviteNext(u)
  <2>1. target[u] \in Games
    BY <1>1, <1>0, LiveGame DEF InviteNext
  <2> QED
    BY <1>1, <2>1, InviteNextTable, OtherGames DEF Listed, tableVars
<1>2. CASE AcceptMark(u)
  BY <1>2, <1>0, LiveGame, MembersAreUsers, OtherGames DEF AcceptMark, Listed
<1>3. CASE RejectRemove(u)
  BY <1>3, <1>0, LiveGame, MembersAreUsers, OtherGames DEF RejectRemove, Listed, tableVars
<1>4. CASE CreatedAlone(u) \/ RejectDelete(u) \/ CancelDelete(u)
  BY <1>4, <1>0, LiveGame, OtherGames DEF CreatedAlone, RejectDelete, CancelDelete, Listed
<1>5. ASSUME NEW c \in Characters, RequestCharacter(u, c)
      PROVE  \A g \in Games : game[g].status = "private" => game'[g] = game[g]
  BY <1>5, <1>0, LiveGame, OtherGames DEF RequestCharacter, Listed
<1>6. CASE RequestLeave(u)
  BY <1>6, PlayerIsUser, OtherGames DEF RequestLeave, Listed
<1>7. CASE Announce(u) \/ FindPosition(u) \/ NotInGame(u) \/ Report(u) \/ RejectCheck(u)
           \/ TellCreator(u) \/ Start(u) \/ CloseInvitations(u) \/ RequestStart(u)
           \/ RequestCancel(u) \/ Dangling(u)
  BY <1>7 DEF Announce, FindPosition, NotInGame, Report, RejectCheck, TellCreator, Start,
              CloseInvitations, RequestStart, RequestCancel, Dangling, Fault, tableVars
<1>8. ASSUME NEW name \in Names, NEW g \in Games,
             RequestAccept(u, name, g) \/ RequestReject(u, name, g)
      PROVE  UNCHANGED game
  BY <1>8 DEF RequestAccept, RequestReject, tableVars
<1>9. ASSUME NEW name \in Names, LookupForever(u, name) PROVE UNCHANGED game
  BY <1>9 DEF LookupForever, tableVars
<1> QED
  BY <1>1, <1>2, <1>3, <1>4, <1>5, <1>6, <1>7, <1>8, <1>9 DEF Serves

LEMMA ServesServing ==
    ASSUME LobbyInv, NEW u \in Users, Serves(u)
    PROVE  Serving
<1> USE DEF LobbyInv, LobbyTypeOK
<1>1. CASE Announce(u) \/ CreatedAlone(u) \/ NotInGame(u) \/ Report(u) \/ RejectDelete(u)
           \/ CloseInvitations(u) \/ CancelDelete(u)
  BY <1>1, ServesTable DEF Serving, Announce, CreatedAlone, NotInGame, Report, RejectDelete,
     CloseInvitations, CancelDelete, Goto, Finish
<1>2. CASE InviteNext(u) \/ FindPosition(u) \/ AcceptMark(u) \/ RejectRemove(u)
           \/ RejectCheck(u) \/ TellCreator(u) \/ Start(u) \/ RequestLeave(u) \/ Dangling(u)
  BY <1>2, ServesTable DEF Serving, InviteNext, FindPosition, AcceptMark, RejectRemove,
     RejectCheck, TellCreator, Start, RequestLeave, Dangling, Fault, sessionVars, Goto
<1>3. CASE RequestStart(u) \/ RequestCancel(u)
  BY <1>3, ServesTable DEF Serving, RequestStart, RequestCancel, CreatorLive, Goto
<1>4. ASSUME NEW c \in Characters, RequestCharacter(u, c) PROVE Serving
  BY <1>4, ServesTable DEF Serving, Serves, RequestCharacter, Goto
<1>5. ASSUME NEW name \in Names, NEW g \in Games,
             RequestAccept(u, name, g) \/ RequestReject(u, name, g)
      PROVE  Serving
  <2>1. \A h \in Games : game[h].status = "private" => game'[h] = game[h]
    BY <1>5, ServesTable DEF Serves
  <2>2. Live(g)
    BY <1>5, FoundIsListed DEF RequestAccept, RequestReject
  <2>3. /\ target' = [target EXCEPT ![u] = g]
        /\ asking' = [asking EXCEPT ![u] = name]
    BY <1>5 DEF RequestAccept, RequestReject
  <2>4. \/ pc[u] = "idle" /\ pc' = [pc EXCEPT ![u] = "accepting"]
        \/ pc[u] = "idle" /\ pc' = [pc EXCEPT ![u] = "rejecting"]
    BY <1>5 DEF RequestAccept, RequestReject, Goto
  <2> QED
    BY <2>1, <2>2, <2>3, <2>4 DEF Serving
<1>6. ASSUME NEW name \in Names, LookupForever(u, name) PROVE Serving
  BY <1>6, ServesTable DEF Serving, Serves, LookupForever, Goto
<1> QED
  BY <1>1, <1>2, <1>3, <1>4, <1>5, <1>6 DEF Serves

LEMMA GameOverServing ==
    ASSUME LobbyInv, NEW s \in Slots, GameOver(s)
    PROVE  Serving
<1>1. senderGame[s] \in Games
  BY SenderGame DEF LobbyInv, GameOver
<1>2. \A g \in Games : game[g].status = "private" => game'[g] = game[g]
  BY <1>1, OtherGames DEF LobbyInv, GameOver, Listed, tableVars
<1> QED
  BY <1>2 DEF Serving, GameOver, sessionVars

LEMMA HandsInit == LobbyInit => HandsInv
  BY DEF LobbyInit, HandsInv, PrivateToCreator, TargetsListedOnce, InvitingByName

LEMMA HandsServing ==
    ASSUME LobbyInv, HandsInv, [Next]_tableVars, LobbyTypeOK', Serving
    PROVE  HandsInv'
<1> USE DEF LobbyInv, HandsInv
<1>0. \A u \in Users : target[u] \in Games \cup {NULL}
  BY DEF LobbyTypeOK
<1>1. \A g \in Games :
         /\ game[g].status \in {"listed", "freed"} => game'[g].status \in {"listed", "freed"}
         /\ Listed(g) /\ Listed(g)' => game'[g].gameName = game[g].gameName
         /\ game[g].status = "freed" => ~Listed(g)'
  BY ListedStays DEF Listed
<1>2. PrivateToCreator'
  BY DEF Serving, PrivateToCreator, CreatorsHaveGames
<1>3. TargetsListedOnce'
  <2> SUFFICES ASSUME NEW u \in Users, pc'[u] # "adding", target'[u] # NULL
               PROVE  game'[target'[u]].status \in {"listed", "freed"}
    BY DEF TargetsListedOnce
  <2>1. pc[u] # "adding"
    BY DEF Serving
  <2>2. CASE UNCHANGED target[u]
    BY <1>0, <1>1, <2>1, <2>2 DEF TargetsListedOnce
  <2>3. CASE Live(target'[u])
    <3>1. target'[u] \in Games
      BY <2>3 DEF Live, LobbyTypeOK
    <3> QED
      BY <1>1, <2>3, <3>1 DEF Live, Listed
  <2> QED
    BY <2>2, <2>3 DEF Serving
<1>4. InvitingByName'
  <2> SUFFICES ASSUME NEW u \in Users, pc'[u] = "inviting", Listed(target[u])'
               PROVE  game'[target'[u]].gameName = asking'[u]
    BY DEF InvitingByName, Live
  <2>1. pc[u] = "inviting" /\ UNCHANGED <<target[u], asking[u]>>
    BY DEF Serving
  <2>2. target[u] \in Games
    BY <2>1 DEF CreatorsHaveGames
  <2>3. Listed(target[u])
    BY <1>1, <2>1, <2>2, TableAssumption DEF TargetsListedOnce, Listed
  <2> QED
    BY <1>1, <2>1, <2>2, <2>3, TableAssumption DEF InvitingByName, Live
<1> QED
  BY <1>2, <1>3, <1>4

\* Nobody else knows a game that is not in the table.
LEMMA NobodyElse ==
    ASSUME HandsInv, NEW u \in Users, NEW g \in Games
    PROVE  /\ game[g].status = "unallocated" => target[u] # g
           /\ \A v \in Users : pc[v] = "adding" /\ target[v] = g /\ v # u => target[u] # g
  BY TableAssumption DEF HandsInv, PrivateToCreator, TargetsListedOnce

LEMMA HandsCreate ==
    ASSUME LobbyInv, HandsInv, NEW u \in Users, NEW g \in Games, NEW name \in Names,
           NEW list \in InviteLists, RequestCreate(u, g, name, list)
    PROVE  HandsInv'
<1>0. /\ pc \in [Users -> Labels] /\ asking \in [Users -> Names \cup {NULL}]
      /\ target \in [Users -> Games \cup {NULL}]
      /\ game \in [Games -> PreGameState]
  BY DEF LobbyInv, LobbyTypeOK, TableInv, TypeOK
<1>1. /\ game[g].status = "unallocated"
      /\ pc' = [pc EXCEPT ![u] = "adding"]
      /\ target' = [target EXCEPT ![u] = g]
      /\ asking' = [asking EXCEPT ![u] = name]
  BY DEF RequestCreate, CreateGame, Goto
<1>2. game' = [game EXCEPT ![g] = WithUser([NoObject("private") EXCEPT !.gameName = name,
                                                                  !.creator = u],
                                          u, Accepted)]
  BY DEF RequestCreate, CreateGame
<1>3. game'[g].status = "private" /\ game'[g].gameName = name
  BY <1>0, <1>2 DEF WithUser, NoObject
<1>4. \A h \in Games : h # g => game'[h] = game[h]
  BY <1>0, <1>2
<1>5. \A v \in Users : target[v] # g
  BY <1>1, NobodyElse
<1>6. \A v \in Users : v # u =>
         pc'[v] = pc[v] /\ target'[v] = target[v] /\ asking'[v] = asking[v]
  BY <1>0, <1>1
<1>7. pc'[u] = "adding" /\ target'[u] = g /\ asking'[u] = name
  BY <1>0, <1>1
<1>8. PrivateToCreator'
  BY <1>3, <1>4, <1>5, <1>6, <1>7 DEF LobbyInv, HandsInv, PrivateToCreator, CreatorsHaveGames
<1>9. TargetsListedOnce'
  BY <1>0, <1>4, <1>5, <1>6, <1>7 DEF HandsInv, TargetsListedOnce
<1>10. InvitingByName'
  BY <1>4, <1>5, <1>6, <1>7 
  DEF LobbyInv, HandsInv, InvitingByName, Live, Listed, CreatorsHaveGames
<1> QED
  BY <1>8, <1>9, <1>10 DEF HandsInv

\* The outcome of the addition, either way, takes the game out of its
\* creator's hands.
LEMMA HandsAdd ==
    ASSUME LobbyInv, HandsInv, NEW u \in Users, AddRefused(u) \/ AddDone(u)
    PROVE  HandsInv'
<1> DEFINE g == target[u]
<1>0. /\ pc \in [Users -> Labels] /\ asking \in [Users -> Names \cup {NULL}]
      /\ target \in [Users -> Games \cup {NULL}]
      /\ game \in [Games -> PreGameState]
  BY DEF LobbyInv, LobbyTypeOK, TableInv, TypeOK
<1>1. pc[u] = "adding" /\ g \in Games
  BY DEF AddRefused, AddDone, Goto, LobbyInv, CreatorsHaveGames
<1>listed. AddDone(u) => /\ game'[g].status = "listed"
                     /\ game'[g].gameName = game[g].gameName
  <2> SUFFICES ASSUME AddDone(u)
               PROVE  game'[g].status = "listed" /\ game'[g].gameName = game[g].gameName
    OBVIOUS
  <2>1. PICK s \in Slots : game' = [game EXCEPT ![g].gameId = s, ![g].status = "listed"]
    BY DEF AddDone, AddGameToGameTable
  <2>2. game[g] \in PreGameState
    BY <1>0, <1>1
  <2>3. game'[g] = [game[g] EXCEPT !.gameId = s, !.status = "listed"]
    BY <1>0, <1>1, <2>1
  <2> QED
    BY <2>2, <2>3 DEF PreGameState
<1>2. \A h \in Games : h # g => game'[h] = game[h]
  <2>1. CASE AddRefused(u)
    BY <1>0, <1>1, <2>1 DEF AddRefused, RefuseGame
  <2>2. CASE AddDone(u)
    BY <1>0, <1>1, <2>2 DEF AddDone, AddGameToGameTable
  <2> QED
    BY <2>1, <2>2
<1>3. \/ /\ pc'[u] = "idle" /\ target'[u] = NULL
      \/ /\ pc'[u] = "inviting" /\ target'[u] = g /\ asking'[u] = asking[u]
         /\ game'[g].gameName = game[g].gameName
  <2>1. CASE AddRefused(u)
    BY <1>0, <2>1 DEF AddRefused, Goto, Finish
  <2>2. CASE AddDone(u)
    <3>1. pc'[u] = "inviting" /\ target'[u] = g /\ asking'[u] = asking[u]
      BY <1>0, <2>2 DEF AddDone, Goto
    <3>2. game'[g].gameName = game[g].gameName
      BY <1>listed, <2>2
    <3> QED
      BY <3>1, <3>2
  <2> QED
    BY <2>1, <2>2
<1>4. game'[g].status \in {"listed", "freed"}
  <2>1. CASE AddRefused(u)
    BY <1>0, <1>1, <2>1, NoObjectType DEF AddRefused, RefuseGame, Status
  <2>2. CASE AddDone(u)
    BY <1>listed, <2>2
  <2> QED
    BY <2>1, <2>2
<1>5. \A v \in Users : v # u =>
         pc'[v] = pc[v] /\ target'[v] = target[v] /\ asking'[v] = asking[v]
  BY <1>0 DEF AddRefused, AddDone, Goto, Finish
<1>6. \A v \in Users : v # u => target[v] # g
  BY <1>1, NobodyElse
<1>7. game[g].gameName = asking[u]
  BY <1>1 DEF HandsInv, PrivateToCreator
<1> HIDE DEF g
<1>8. PrivateToCreator'
  BY <1>1, <1>2, <1>3, <1>5, <1>6 DEF LobbyInv, HandsInv, PrivateToCreator, CreatorsHaveGames
<1>9. TargetsListedOnce'
  BY <1>0, <1>1, <1>2, <1>3, <1>4, <1>5, <1>6 DEF HandsInv, TargetsListedOnce
<1>10. InvitingByName'
  BY <1>1, <1>2, <1>3, <1>5, <1>6, <1>7 
  DEF LobbyInv, HandsInv, InvitingByName, Live, Listed, CreatorsHaveGames
<1> QED
  BY <1>8, <1>9, <1>10 DEF HandsInv

LEMMA HandsStep ==
    ASSUME LobbyInv, HandsInv, [LobbyNext]_lobbyVars
    PROVE  HandsInv'
<1>1. LobbyTypeOK' /\ [Next]_tableVars
  BY LobbyNext_Inv, LobbyTable DEF LobbyInv
<1>2. ASSUME NEW u \in Users, Serves(u) PROVE HandsInv'
  BY <1>1, <1>2, ServesServing, HandsServing
<1>3. ASSUME NEW s \in Slots, GameOver(s) PROVE HandsInv'
  BY <1>1, <1>3, GameOverServing, HandsServing
<1>4. CASE Rests
  BY <1>4 DEF Rests, sessionVars, tableVars, HandsInv, PrivateToCreator,
              TargetsListedOnce, InvitingByName, Live, Listed
<1> QED
  BY <1>2, <1>3, <1>4, StepKinds, HandsCreate, HandsAdd

-----------------------------------------------------------------------------
(***************************************************************************)
(* The names in the clients' hands.                                        *)
(***************************************************************************)

\* Every name a client may send is known, and so is the name of a party it is
\* about to enter.
NamesKnown ==
    \A u \in Users :
        /\ \A name \in invites[u] : Known(name)
        /\ party[u] = "guest" \/ pc[u] \in {"accepting", "marking"} => Known(partyName[u])

\* A step that gives clients no name they did not have keeps names known.
LEMMA NamesKept ==
    ASSUME LobbyInv, NamesKnown, [Next]_tableVars,
           \A v \in Users :
              /\ invites'[v] \subseteq invites[v]
              /\ party'[v] = "guest" \/ pc'[v] \in {"accepting", "marking"} =>
                    /\ party[v] = "guest" \/ pc[v] \in {"accepting", "marking"}
                    /\ partyName'[v] = partyName[v]
    PROVE  NamesKnown'
<1>1. \A name : Known(name) => Known(name)'
  BY KnownStays DEF LobbyInv
<1> SUFFICES ASSUME NEW v \in Users
             PROVE  /\ \A name \in invites'[v] : Known(name)'
                    /\ party'[v] = "guest" \/ pc'[v] \in {"accepting", "marking"} =>
                          Known(partyName[v])'
  BY DEF NamesKnown
<1> QED
  BY <1>1 DEF NamesKnown

\* Steps that give clients no name.
LEMMA NamesSilent ==
    ASSUME LobbyInv, NamesKnown, [Next]_tableVars, NEW u \in Users,
           \/ AddRefused(u) \/ AddDone(u)
           \/ InviteNext(u) \/ CreatedAlone(u) \/ FindPosition(u) \/ NotInGame(u)
           \/ AcceptMark(u) \/ Report(u) \/ RejectRemove(u) \/ RejectCheck(u) \/ TellCreator(u)
           \/ RejectDelete(u) \/ Start(u) \/ CloseInvitations(u) \/ CancelDelete(u)
           \/ RequestStart(u)
           \/ RequestCancel(u) \/ RequestLeave(u) \/ Dangling(u)
           \/ \E g \in Games, name \in Names, list \in InviteLists : RequestCreate(u, g, name, list)
           \/ \E name \in Names, g \in Games : RequestReject(u, name, g)
           \/ \E name \in Names : LookupForever(u, name)
           \/ \E c \in Characters : RequestCharacter(u, c)
    PROVE  NamesKnown'
<1> DEFINE Silent == \A v \in Users :
              /\ invites'[v] \subseteq invites[v]
              /\ party'[v] = "guest" \/ pc'[v] \in {"accepting", "marking"} =>
                    /\ party[v] = "guest" \/ pc[v] \in {"accepting", "marking"}
                    /\ partyName'[v] = partyName[v]
<1>0. /\ pc \in [Users -> Labels] /\ party \in [Users -> {"none", "creator", "guest", "playing"}]
      /\ invites \in [Users -> SUBSET Names] /\ partyName \in [Users -> Names \cup {NULL}]
  BY DEF LobbyInv, LobbyTypeOK
<1>1. CASE AddRefused(u) \/ AddDone(u) \/ InviteNext(u) \/ CreatedAlone(u) \/ FindPosition(u)
           \/ NotInGame(u) \/ Report(u) \/ RejectCheck(u) \/ RejectDelete(u)
           \/ CloseInvitations(u) \/ CancelDelete(u) \/ RequestStart(u) \/ Dangling(u)
  <2>1. Silent
    BY <1>0, <1>1 DEF AddRefused, AddDone, InviteNext, CreatedAlone, FindPosition, NotInGame,
       Report, RejectCheck, RejectDelete, CloseInvitations, CancelDelete, RequestStart, Dangling,
       Fault, Goto, clientVars, sessionVars
  <2> QED
    BY <2>1, NamesKept
<1>2. CASE AcceptMark(u)
  <2>1. Silent
    BY <1>0, <1>2 DEF AcceptMark, Goto
  <2> QED
    BY <2>1, NamesKept
<1>3. CASE RejectRemove(u)
  <2>1. Silent
    BY <1>0, <1>3 DEF RejectRemove, Goto
  <2> QED
    BY <2>1, NamesKept
<1>4. CASE TellCreator(u)
  <2>1. Silent
    BY <1>0, <1>4 DEF TellCreator, Goto
  <2> QED
    BY <2>1, NamesKept
<1>5. CASE Start(u)
  <2>1. Silent
    BY <1>0, <1>5 DEF Start, Goto
  <2> QED
    BY <2>1, NamesKept
<1>6. CASE RequestCancel(u)
  <2>1. \A v \in Users : /\ invites'[v] \subseteq invites[v]
                         /\ party'[v] \in {"none", party[v]}
    BY <1>0, <1>6 DEF RequestCancel
  <2>2. Silent
    BY <1>0, <1>6, <2>1 DEF RequestCancel, Goto
  <2> QED
    BY <2>2, NamesKept
<1>7. CASE RequestLeave(u)
  <2>1. Silent
    BY <1>0, <1>7 DEF RequestLeave
  <2> QED
    BY <2>1, NamesKept
<1>8. ASSUME NEW g \in Games, NEW name \in Names, NEW list \in InviteLists,
             RequestCreate(u, g, name, list)
      PROVE  NamesKnown'
  <2>1. Silent
    BY <1>0, <1>8 DEF RequestCreate, Goto
  <2> QED
    BY <2>1, NamesKept
<1>9. ASSUME NEW name \in Names, NEW g \in Games, RequestReject(u, name, g) PROVE NamesKnown'
  <2>1. Silent
    BY <1>0, <1>9 DEF RequestReject, Goto, clientVars
  <2> QED
    BY <2>1, NamesKept
<1>10. ASSUME NEW name \in Names, LookupForever(u, name) PROVE NamesKnown'
  <2>1. Silent
    BY <1>0, <1>10 DEF LookupForever, Goto, clientVars
  <2> QED
    BY <2>1, NamesKept
<1>11. ASSUME NEW c \in Characters, RequestCharacter(u, c) PROVE NamesKnown'
  <2>1. Silent
    BY <1>0, <1>11 DEF RequestCharacter, Goto, clientVars
  <2> QED
    BY <2>1, NamesKept
<1> QED
  BY <1>1, <1>2, <1>3, <1>4, <1>5, <1>6, <1>7, <1>8, <1>9, <1>10, <1>11

\* An invitation carries the name of a game that is listed at that moment.
LEMMA NamesAnnounce ==
    ASSUME LobbyInv, HandsInv, NamesKnown, NEW u \in Users, Announce(u)
    PROVE  NamesKnown'
<1>0. /\ pc \in [Users -> Labels] /\ party \in [Users -> {"none", "creator", "guest", "playing"}]
  BY DEF LobbyInv, LobbyTypeOK
<1>1. /\ pc[u] = "inviting" /\ Live(target[u])
      /\ \A v \in Users : invites'[v] \subseteq invites[v] \cup {asking[u]}
      /\ UNCHANGED <<createdGames, gameCount, game, partyName>>
  BY DEF Announce, CreatorLive, Goto, tableVars
<1>2. \A v \in Users : party'[v] = "guest" \/ pc'[v] \in {"accepting", "marking"} =>
                          party[v] = "guest" \/ pc[v] \in {"accepting", "marking"}
  BY <1>0 DEF Announce, Goto
<1>3. \A name : Known(name)' <=> Known(name)
  BY <1>1 DEF Known, Hole, Listed
<1>4. Known(asking[u])
  BY <1>1 DEF LobbyInv, CreatorsHaveGames, HandsInv, InvitingByName, Known, Live
<1> SUFFICES ASSUME NEW v \in Users
             PROVE  /\ \A name \in invites'[v] : Known(name)'
                    /\ party'[v] = "guest" \/ pc'[v] \in {"accepting", "marking"} =>
                          Known(partyName[v])'
  BY DEF NamesKnown
<1>5. \A name \in invites'[v] : Known(name)
  BY <1>1, <1>4 DEF NamesKnown
<1>6. party'[v] = "guest" \/ pc'[v] \in {"accepting", "marking"} => Known(partyName[v])
  BY <1>2 DEF NamesKnown
<1>7. Known(partyName[v])' <=> Known(partyName[v])
  BY <1>1, <1>3 DEF Known, Hole, Listed
<1> QED
  BY <1>3, <1>5, <1>6, <1>7

\* A client accepts invitations it has.
LEMMA NamesAccept ==
    ASSUME LobbyInv, NamesKnown, NEW u \in Users, NEW name \in Names, NEW g \in Games,
           RequestAccept(u, name, g)
    PROVE  NamesKnown'
<1>0. /\ pc \in [Users -> Labels] /\ partyName \in [Users -> Names \cup {NULL}]
  BY DEF LobbyInv, LobbyTypeOK
<1>1. /\ name \in invites[u]
      /\ partyName' = [partyName EXCEPT ![u] = name]
      /\ pc' = [pc EXCEPT ![u] = "accepting"]
      /\ UNCHANGED <<createdGames, gameCount, game, invites, party>>
  BY DEF RequestAccept, MayAccept, Goto, tableVars
<1>2. Hole' <=> Hole
  BY <1>1 DEF Hole
<1>3. \A n : (\E h \in Games : Listed(h) /\ game[h].gameName = n)
               <=> (\E h \in Games : game'[h].status = "listed" /\ game'[h].gameName = n)
  BY <1>1 DEF Listed
<1> SUFFICES ASSUME NEW v \in Users
             PROVE  /\ \A n \in invites[v] : Known(n)'
                    /\ party[v] = "guest" \/ pc'[v] \in {"accepting", "marking"} =>
                          Known(partyName[v])'
  BY <1>1 DEF NamesKnown
<1>4. \A n \in invites[v] : Known(n)'
  BY <1>2, <1>3 DEF Known, Listed, NamesKnown
<1>5. partyName'[v] = IF v = u THEN name ELSE partyName[v]
  BY <1>0, <1>1
<1>6. party[v] = "guest" \/ pc'[v] \in {"accepting", "marking"} => Known(partyName'[v])
  BY <1>0, <1>1, <1>5 DEF NamesKnown
<1>7. party[v] = "guest" \/ pc'[v] \in {"accepting", "marking"} => Known(partyName[v])'
  BY <1>2, <1>3, <1>6 DEF Known, Listed
<1> QED
  BY <1>4, <1>7

LEMMA NamesStep ==
    ASSUME LobbyInv, HandsInv, NamesKnown, [LobbyNext]_lobbyVars
    PROVE  NamesKnown'
<1>1. [Next]_tableVars
  BY LobbyTable
<1>2. ASSUME NEW u \in Users, Serves(u) PROVE NamesKnown'
  BY <1>1, <1>2, NamesSilent, NamesAnnounce, NamesAccept DEF Serves
<1>3. CASE \E s \in Slots : GameOver(s)
  BY <1>1, <1>3, NamesKept DEF GameOver, sessionVars, clientVars
<1>4. CASE Rests
  BY <1>1, <1>4, NamesKept DEF Rests, sessionVars, clientVars
<1> QED
  BY <1>1, <1>2, <1>3, <1>4, StepKinds, NamesSilent

-----------------------------------------------------------------------------
(***************************************************************************)
(* From the check of START to its count: nobody joins a party all of whose *)
(* players have chosen, because the only thread that adds players is the   *)
(* creator's own, and until it is done the creator has no character and    *)
(* cannot be removed.                                                      *)
(***************************************************************************)

\* AllHasCharacter for a record.
Chosen(r) == \A i \in Index : i < r.userCount => r.user[r.users[i]].charname # NoCharacter

\* The first cell, and no other, points to v, who has not chosen.
HeadedBy(r, v) == /\ r.userCount > 0
                  /\ \A i \in Index : r.users[i] = v <=> i = 0
                  /\ r.user[v].charname = NoCharacter

LEMMA HeadedNotChosen ==
    ASSUME NEW g \in Games, NEW v \in Users, HeadedBy(game[g], v)
    PROVE  v \in Members(g) /\ ~AllHasCharacter(g)
<1>1. 0 \in Positions(g) /\ game[g].users[0] = v
  BY TableAssumption DEF HeadedBy, Positions, Index
<1> QED
  BY <1>1 DEF HeadedBy, Members, AllHasCharacter

\* A removal closes the gap and keeps the choices of those who remain.
LEMMA RemovalShape ==
    ASSUME TypeOK, NEW g \in Games, NEW x \in Users,
           DeletePreGameUserWithCharIdResassignment(g, x)
    PROVE  LET r == game[g]
               q == game'[g]
           IN \E p \in Index :
                 /\ p < r.userCount /\ r.users[p] = x
                 /\ q.userCount = r.userCount - 1
                 /\ \A i \in Index : q.users[i] = IF p <= i /\ i < r.userCount - 1
                                                  THEN r.users[i + 1] ELSE r.users[i]
                 /\ \A v \in Users :
                       (\E i \in Index : i < r.userCount - 1 /\ q.users[i] = v) =>
                          q.user[v].charname = r.user[v].charname
<1> DEFINE r == game[g]
           count == r.userCount - 1
           users(at) == [i \in Index |-> IF at <= i /\ i < count THEN r.users[i + 1]
                                                              ELSE r.users[i]]
           Kept(at, v) == \E i \in Index : i < count /\ users(at)[i] = v
           PlaceOf(at, v) == CHOOSE i \in Index : i < count /\ users(at)[i] = v
           user(at) == [v \in Users |->
                           IF Kept(at, v) THEN [r.user[v] EXCEPT !.charId = PlaceOf(at, v)]
                                           ELSE NewPreGameUser]
<1>1. PICK p \in Positions(g) :
         /\ IsPosition(g, x, p)
         /\ game' = [game EXCEPT ![g].userCount = count,
                                 ![g].users = users(p),
                                 ![g].user = user(p)]
  BY DEF DeletePreGameUserWithCharIdResassignment
<1>2. p \in Index /\ p < r.userCount /\ r.users[p] = x
  <2>1. p \in Index /\ p < r.userCount
    BY <1>1 DEF Positions
  <2>2. p # -1
    BY <2>1, TableAssumption DEF Index
  <2> QED
    BY <1>1, <2>1, <2>2 DEF IsPosition
<1>3. r \in PreGameState
  BY DEF TypeOK
<1>4. \A i \in Index : users(p)[i] = IF p <= i /\ i < count THEN r.users[i + 1] ELSE r.users[i]
  OBVIOUS
<1>5. ASSUME NEW v \in Users, Kept(p, v)
      PROVE  user(p)[v].charname = r.user[v].charname
  <2>1. user(p)[v] = [r.user[v] EXCEPT !.charId = PlaceOf(p, v)]
    BY <1>5
  <2>2. r.user[v] \in PreGameUser
    BY <1>3 DEF PreGameState
  <2> HIDE DEF user, PlaceOf
  <2> QED
    BY <2>1, <2>2 DEF PreGameUser
<1>6. \A v \in Users : Kept(p, v) => user(p)[v].charname = r.user[v].charname
  BY <1>5
<1> DEFINE uu == users(p)
           us == user(p)
<1>7. game'[g] = [r EXCEPT !.userCount = count, !.users = uu, !.user = us]
  BY <1>1, <1>3 DEF TypeOK
<1>8. \A v \in Users : (\E i \in Index : i < count /\ uu[i] = v) => us[v].charname = r.user[v].charname
  BY <1>6
<1> HIDE DEF uu, us, users, user, Kept, PlaceOf
<1>9. game'[g].userCount = count /\ game'[g].users = uu /\ game'[g].user = us
  BY <1>3, <1>7 DEF PreGameState
<1>10. \A i \in Index : uu[i] = IF p <= i /\ i < count THEN r.users[i + 1] ELSE r.users[i]
  BY <1>4 DEF uu
<1> QED
  BY <1>2, <1>8, <1>9, <1>10

\* A removal makes nobody lose a character, and leaves the head of a party in
\* place unless it is the one removed.
LEMMA RemovalKeeps ==
    ASSUME TableInv, NEW g \in Games, NEW x \in Users,
           DeletePreGameUserWithCharIdResassignment(g, x)
    PROVE  /\ Chosen(game[g]) => Chosen(game'[g])
           /\ \A v \in Users : v # x /\ HeadedBy(game[g], v) => HeadedBy(game'[g], v)
<1> DEFINE r == game[g]
           q == game'[g]
<1>1. PICK p \in Index :
         /\ p < r.userCount /\ r.users[p] = x
         /\ q.userCount = r.userCount - 1
         /\ \A i \in Index : q.users[i] = IF p <= i /\ i < r.userCount - 1
                                          THEN r.users[i + 1] ELSE r.users[i]
         /\ \A v \in Users : (\E i \in Index : i < r.userCount - 1 /\ q.users[i] = v) =>
                               q.user[v].charname = r.user[v].charname
  BY RemovalShape DEF TableInv
<1>2. r.userCount \in 0 .. MaxUsers
  BY DEF TableInv, TypeOK, PreGameState
<1>3. \A i \in Index : i < r.userCount => r.users[i] \in Users
  BY DEF TableInv, CharIdIsPlace, Positions
<1> HIDE DEF r, q
<1>4. \A i \in Index : i < r.userCount - 1 =>
         \E k \in Index : k < r.userCount /\ q.users[i] = r.users[k]
  BY <1>1, <1>2, TableAssumption DEF Index
<1>5. ASSUME Chosen(r) PROVE Chosen(q)
  <2> SUFFICES ASSUME NEW i \in Index, i < r.userCount - 1
               PROVE  q.user[q.users[i]].charname # NoCharacter
    BY <1>1 DEF Chosen
  <2>1. PICK k \in Index : k < r.userCount /\ q.users[i] = r.users[k]
    BY <1>4
  <2>2. q.user[q.users[i]].charname = r.user[q.users[i]].charname
    BY <1>1, <1>3, <2>1
  <2> QED
    BY <1>5, <2>1, <2>2 DEF Chosen
<1>6. ASSUME NEW v \in Users, v # x, HeadedBy(r, v) PROVE HeadedBy(q, v)
  <2>1. p # 0 /\ 0 \in Index
    BY <1>1, <1>6, TableAssumption DEF HeadedBy, Index
  <2>2. r.userCount - 1 > 0
    BY <1>1, <1>2, <2>1 DEF Index
  <2>3. \A i \in Index : p <= i /\ i < r.userCount - 1 => i + 1 \in Index /\ i + 1 # 0
    BY <1>2, TableAssumption DEF Index
  <2>4. \A i \in Index : q.users[i] = v <=> i = 0
    BY <1>1, <1>6, <2>1, <2>3 DEF HeadedBy, Index
  <2>5. q.user[v].charname = r.user[v].charname
    BY <1>1, <2>1, <2>2, <2>4
  <2> QED
    BY <1>1, <1>6, <2>2, <2>4, <2>5 DEF HeadedBy
<1> QED
  BY <1>5, <1>6 DEF r, q

\* The other operations on the party of a listed game.
LEMMA PartyKeeps ==
    ASSUME TableInv, NEW g \in Games, NEW x \in Users
    PROVE  /\ \A st \in {Accepted, BackOff, Left} : SetUserState(g, x, st) =>
                 /\ Chosen(game[g]) => Chosen(game'[g])
                 /\ \A v \in Users : HeadedBy(game[g], v) => HeadedBy(game'[g], v)
           /\ \A c \in Characters : PreGameAssignChar(g, x, c) =>
                 /\ Chosen(game[g]) => Chosen(game'[g])
                 /\ \A v \in Users : v # x /\ HeadedBy(game[g], v) => HeadedBy(game'[g], v)
           /\ AddPreGameUser(g, x) =>
                 \A v \in Users : HeadedBy(game[g], v) => HeadedBy(game'[g], v)
<1>0. game \in [Games -> PreGameState]
  BY DEF TableInv, TypeOK
<1>r. game[g] \in PreGameState
  BY <1>0
<1>1. ASSUME NEW st \in {Accepted, BackOff, Left}, SetUserState(g, x, st)
      PROVE  /\ Chosen(game[g]) => Chosen(game'[g])
             /\ \A v \in Users : HeadedBy(game[g], v) => HeadedBy(game'[g], v)
  <2>1. game'[g] = [game[g] EXCEPT !.user = [game[g].user EXCEPT ![x] =
                                                [game[g].user[x] EXCEPT !.userState = st]]]
    BY <1>0, <1>1 DEF SetUserState
  <2>2. /\ game'[g].userCount = game[g].userCount /\ game'[g].users = game[g].users
        /\ \A v \in Users : game'[g].user[v].charname = game[g].user[v].charname
    BY <1>r, <2>1 DEF PreGameState, PreGameUser
  <2>3. \A i \in Index : i < game[g].userCount => game[g].users[i] \in Users
    BY DEF TableInv, CharIdIsPlace, Positions
  <2> QED
    BY <2>2, <2>3 DEF Chosen, HeadedBy
<1>2. ASSUME NEW c \in Characters, PreGameAssignChar(g, x, c)
      PROVE  /\ Chosen(game[g]) => Chosen(game'[g])
             /\ \A v \in Users : v # x /\ HeadedBy(game[g], v) => HeadedBy(game'[g], v)
  <2>1. game'[g] = [game[g] EXCEPT !.user = [game[g].user EXCEPT ![x] =
                                                [game[g].user[x] EXCEPT !.charname = c]]]
    BY <1>0, <1>2 DEF PreGameAssignChar
  <2>2. /\ game'[g].userCount = game[g].userCount /\ game'[g].users = game[g].users
        /\ \A v \in Users : game'[g].user[v].charname =
                               IF v = x THEN c ELSE game[g].user[v].charname
    BY <1>r, <2>1 DEF PreGameState, PreGameUser
  <2>3. \A i \in Index : i < game[g].userCount => game[g].users[i] \in Users
    BY DEF TableInv, CharIdIsPlace, Positions
  <2>4. c # NoCharacter
    BY TableAssumption
  <2> QED
    BY <2>2, <2>3, <2>4 DEF Chosen, HeadedBy
<1>3. ASSUME AddPreGameUser(g, x), NEW v \in Users, HeadedBy(game[g], v)
      PROVE  HeadedBy(game'[g], v)
  <2>1. /\ x # v
        /\ game[g].userCount < MaxUsers
        /\ game'[g] = WithUser(game[g], x, Invited)
    BY <1>0, <1>3, HeadedNotChosen DEF AddPreGameUser
  <2>2. /\ game'[g].userCount = game[g].userCount + 1
        /\ game'[g].users[game[g].userCount] = x
        /\ \A i \in Index : i # game[g].userCount => game'[g].users[i] = game[g].users[i]
        /\ game'[g].user[v] = game[g].user[v]
    BY <1>r, <2>1, WithUserType
  <2>3. game[g].userCount \in Nat
    BY <1>r DEF PreGameState
  <2> QED
    BY <1>3, <2>1, <2>2, <2>3, TableAssumption DEF HeadedBy, Index
<1> QED
  BY <1>1, <1>2, <1>3

\* What a step does to the party of a listed game, and which thread does it.
PartyEffect(g) ==
    \/ game'[g] = game[g]
    \/ game'[g].status = "freed"
    \/ \E x \in Users, st \in {Accepted, BackOff, Left} : SetUserState(g, x, st)
    \/ \E w, x \in Users : pc[w] = "inviting" /\ target[w] = g /\ AddPreGameUser(g, x)
    \/ \E w, x \in Users : /\ pc[w] = "removing" /\ target[w] = g /\ pos[w] \in Index
                          /\ x = game[g].users[pos[w]]
                          /\ DeletePreGameUserWithCharIdResassignment(g, x)
    \/ \E w \in Users, c \in Characters : pc[w] = "idle" /\ PreGameAssignChar(g, w, c)

\* Deleting a game frees it.
LEMMA DeletedIsFreed ==
    ASSUME TableInv, NEW g \in Games, DeleteGameFromTable(g)
    PROVE  game'[g].status = "freed"
  BY NoObjectType DEF DeleteGameFromTable, TableInv, TypeOK, SlotsMatch, Status

LEMMA ServesEffect ==
    ASSUME LobbyInv, NEW u \in Users, Serves(u), NEW g \in Games
    PROVE  PartyEffect(g)
<1> USE DEF LobbyInv
<1>0. /\ target[u] \in Games \cup {NULL} /\ preGame[u] \in Games \cup {NULL}
      /\ pos[u] \in Index \cup {-1}
  BY DEF LobbyTypeOK
<1>1. CASE InviteNext(u)
  <2>1. target[u] \in Games /\ pc[u] = "inviting"
    BY <1>1, <1>0, LiveGame DEF InviteNext
  <2>2. CASE AddPreGameUser(target[u], Head(todo[u])) /\ Head(todo[u]) \in Users
    <3>1. CASE g = target[u]
      BY <2>1, <2>2, <3>1 DEF PartyEffect
    <3>2. CASE g # target[u]
      BY <2>1, <2>2, <3>2, OtherGames DEF PartyEffect
    <3> QED
      BY <3>1, <3>2
  <2>3. CASE UNCHANGED tableVars
    BY <2>3 DEF tableVars, PartyEffect
  <2> QED
    BY <1>1, <2>2, <2>3, InviteNextTable
<1>2. CASE AcceptMark(u)
  <2> DEFINE x == game[target[u]].users[pos[u]]
  <2>1. target[u] \in Games /\ x \in Users /\ SetUserState(target[u], x, Accepted)
    BY <1>2, <1>0, LiveGame, MembersAreUsers DEF AcceptMark
  <2> HIDE DEF x
  <2>2. CASE g = target[u]
    BY <2>1, <2>2 DEF PartyEffect
  <2>3. CASE g # target[u]
    BY <2>1, <2>3, OtherGames DEF PartyEffect
  <2> QED
    BY <2>2, <2>3
<1>3. CASE RejectRemove(u)
  <2> DEFINE x == game[target[u]].users[pos[u]]
  <2>1. target[u] \in Games /\ pc[u] = "removing" /\ pos[u] \in Index
    BY <1>3, <1>0, LiveGame DEF RejectRemove, Goto
  <2>2. CASE UNCHANGED tableVars
    BY <2>2 DEF tableVars, PartyEffect
  <2>3. CASE x \in Users /\ DeletePreGameUserWithCharIdResassignment(target[u], x)
    <3>1. CASE g = target[u]
      BY <2>1, <2>3, <3>1 DEF PartyEffect
    <3>2. CASE g # target[u]
      BY <2>1, <2>3, <3>2, OtherGames DEF PartyEffect
    <3> QED
      BY <3>1, <3>2
  <2> QED
    BY <1>3, <2>1, <2>2, <2>3, MembersAreUsers DEF RejectRemove
<1>4. ASSUME NEW h \in Games, DeleteGameFromTable(h)
      PROVE  PartyEffect(g)
  BY <1>4, DeletedIsFreed, OtherGames DEF PartyEffect
<1>5. CASE CreatedAlone(u) \/ RejectDelete(u) \/ CancelDelete(u)
  BY <1>4, <1>5, <1>0, LiveGame DEF CreatedAlone, RejectDelete, CancelDelete
<1>6. ASSUME NEW c \in Characters, RequestCharacter(u, c)
      PROVE  PartyEffect(g)
  <2>1. preGame[u] \in Games /\ pc[u] = "idle" /\ PreGameAssignChar(preGame[u], u, c)
    BY <1>6, <1>0, LiveGame DEF RequestCharacter, Goto
  <2>2. CASE g = preGame[u]
    BY <2>1, <2>2 DEF PartyEffect
  <2>3. CASE g # preGame[u]
    BY <2>1, <2>3, OtherGames DEF PartyEffect
  <2> QED
    BY <2>2, <2>3
<1>7. CASE RequestLeave(u)
  <2> DEFINE h == preGameUser[u][1]
             x == preGameUser[u][2]
  <2>1. h \in Games /\ x \in Users /\ SetUserState(h, x, Left)
    BY <1>7, PlayerIsUser DEF RequestLeave
  <2> HIDE DEF h, x
  <2>2. CASE g = h
    BY <2>1, <2>2 DEF PartyEffect
  <2>3. CASE g # h
    BY <2>1, <2>3, OtherGames DEF PartyEffect
  <2> QED
    BY <2>2, <2>3
<1>8. CASE UNCHANGED game
  BY <1>8 DEF PartyEffect
<1>9. CASE Announce(u) \/ FindPosition(u) \/ NotInGame(u) \/ Report(u) \/ RejectCheck(u)
           \/ TellCreator(u) \/ Start(u) \/ CloseInvitations(u) \/ RequestStart(u)
           \/ RequestCancel(u) \/ Dangling(u)
  BY <1>8, <1>9 DEF Announce, FindPosition, NotInGame, Report, RejectCheck, TellCreator, Start,
              CloseInvitations, RequestStart, RequestCancel, Dangling, Fault, tableVars
<1>10. ASSUME NEW name \in Names, NEW h \in Games,
              RequestAccept(u, name, h) \/ RequestReject(u, name, h)
       PROVE  PartyEffect(g)
  BY <1>8, <1>10 DEF RequestAccept, RequestReject, tableVars
<1>11. ASSUME NEW name \in Names, LookupForever(u, name) PROVE PartyEffect(g)
  BY <1>8, <1>11 DEF LookupForever, tableVars
<1> QED
  BY <1>1, <1>2, <1>3, <1>5, <1>6, <1>7, <1>9, <1>10, <1>11 DEF Serves

LEMMA GameOverEffect ==
    ASSUME LobbyInv, NEW s \in Slots, GameOver(s), NEW g \in Games
    PROVE  PartyEffect(g)
<1>1. senderGame[s] \in Games
  BY SenderGame DEF LobbyInv, GameOver
<1> QED
  BY <1>1, DeletedIsFreed, OtherGames DEF LobbyInv, GameOver, PartyEffect, tableVars

\* Until its thread has invited everybody, the creator heads its party.
CreatorFirst ==
    \A v \in Users : pc[v] = "adding" \/ (pc[v] = "inviting" /\ Live(target[v])) =>
                        HeadedBy(game[target[v]], v)

\* No rejection is about to remove it.
HeadNotRejected ==
    \A v, w \in Users : /\ pc[v] = "inviting" /\ Live(target[v])
                        /\ pc[w] = "removing" /\ target[w] = target[v]
                        => pos[w] # 0

HeadInv == CreatorFirst /\ HeadNotRejected /\ CharactersKeptUntilStart

LEMMA HeadInit == LobbyInit => HeadInv
  BY DEF LobbyInit, HeadInv, CreatorFirst, HeadNotRejected, CharactersKeptUntilStart

\* The head of a party being gathered stays the head while the game exists.
LEMMA HeadStays ==
    ASSUME LobbyInv, HeadInv, NEW v \in Users, pc[v] = "inviting", Live(target[v]),
           PartyEffect(target[v])
    PROVE  game'[target[v]].status = "freed" \/ HeadedBy(game'[target[v]], v)
<1> DEFINE g == target[v]
<1>1. g \in Games /\ HeadedBy(game[g], v)
  BY DEF LobbyInv, CreatorsHaveGames, HeadInv, CreatorFirst
<1>2. TableInv /\ PartyEffect(g)
  BY DEF LobbyInv
<1> SUFFICES game'[g].status = "freed" \/ HeadedBy(game'[g], v)
  OBVIOUS
<1> HIDE DEF g
<1>3. ASSUME NEW x \in Users, NEW st \in {Accepted, BackOff, Left}, SetUserState(g, x, st)
      PROVE  HeadedBy(game'[g], v)
  BY <1>1, <1>2, <1>3, PartyKeeps
<1>4. ASSUME NEW x \in Users, AddPreGameUser(g, x)
      PROVE  HeadedBy(game'[g], v)
  BY <1>1, <1>2, <1>4, PartyKeeps
<1>5. ASSUME NEW w \in Users, NEW x \in Users, pc[w] = "removing", target[w] = g,
             pos[w] \in Index, x = game[g].users[pos[w]],
             DeletePreGameUserWithCharIdResassignment(g, x)
      PROVE  HeadedBy(game'[g], v)
  <2>1. pos[w] # 0
    BY <1>5 DEF HeadInv, HeadNotRejected, g
  <2>2. x # v
    BY <1>1, <1>5, <2>1 DEF HeadedBy
  <2> QED
    BY <1>1, <1>2, <1>5, <2>2, RemovalKeeps
<1>6. ASSUME NEW w \in Users, NEW c \in Characters, pc[w] = "idle",
             PreGameAssignChar(g, w, c)
      PROVE  HeadedBy(game'[g], v)
  BY <1>1, <1>2, <1>6, PartyKeeps
<1> QED
  BY <1>1, <1>2, <1>3, <1>4, <1>5, <1>6 DEF PartyEffect

\* What the check found stays true while the game exists.
LEMMA ChosenStays ==
    ASSUME LobbyInv, HeadInv, NEW u \in Users, pc[u] = "starting", Live(target[u]),
           PartyEffect(target[u])
    PROVE  game'[target[u]].status = "freed" \/ Chosen(game'[target[u]])
<1> DEFINE g == target[u]
<1>1. g \in Games /\ Live(g)
  BY LiveGame DEF LobbyInv, LobbyTypeOK
<1>2. AllHasCharacter(g)
  BY DEF HeadInv, CharactersKeptUntilStart
<1>3. Chosen(game[g])
  BY <1>2 DEF AllHasCharacter, Chosen, Positions
<1>4. TableInv /\ PartyEffect(g)
  BY DEF LobbyInv
<1> SUFFICES game'[g].status = "freed" \/ Chosen(game'[g])
  OBVIOUS
<1> HIDE DEF g
<1>5. ASSUME NEW x \in Users, NEW st \in {Accepted, BackOff, Left}, SetUserState(g, x, st)
      PROVE  Chosen(game'[g])
  BY <1>1, <1>3, <1>4, <1>5, PartyKeeps
<1>6. ASSUME NEW w \in Users, NEW x \in Users, pc[w] = "inviting", target[w] = g,
             AddPreGameUser(g, x)
      PROVE  FALSE
  BY <1>1, <1>2, <1>6, HeadedNotChosen DEF HeadInv, CreatorFirst
<1>7. ASSUME NEW x \in Users, DeletePreGameUserWithCharIdResassignment(g, x)
      PROVE  Chosen(game'[g])
  BY <1>1, <1>3, <1>4, <1>7, RemovalKeeps
<1>8. ASSUME NEW w \in Users, NEW c \in Characters, PreGameAssignChar(g, w, c)
      PROVE  Chosen(game'[g])
  BY <1>1, <1>3, <1>4, <1>8, PartyKeeps
<1> QED
  BY <1>1, <1>3, <1>4, <1>5, <1>6, <1>7, <1>8 DEF PartyEffect

\* How a thread gets to the two sections in question.
Arrives(v) ==
    /\ pc'[v] = "starting" =>
          \/ pc[v] = "starting" /\ target'[v] = target[v]
          \/ RequestStart(v)
    /\ pc'[v] = "removing" =>
          \/ pc[v] = "removing" /\ target'[v] = target[v] /\ pos'[v] = pos[v]
          \/ FindPosition(v)

LEMMA ServesArrives ==
    ASSUME LobbyInv, NEW u \in Users, Serves(u), NEW v \in Users
    PROVE  Arrives(v)
<1>0. /\ pc \in [Users -> Labels] /\ target \in [Users -> Games \cup {NULL}]
      /\ pos \in [Users -> Index \cup {-1}]
  BY DEF LobbyInv, LobbyTypeOK
<1>1. CASE Announce(u) \/ CreatedAlone(u) \/ NotInGame(u) \/ Report(u) \/ RejectDelete(u)
           \/ CloseInvitations(u) \/ CancelDelete(u)
  BY <1>0, <1>1 DEF Arrives, Announce, CreatedAlone, NotInGame, Report, RejectDelete,
     CloseInvitations, CancelDelete, Goto, Finish
<1>2. CASE InviteNext(u) \/ AcceptMark(u) \/ RejectRemove(u) \/ RejectCheck(u)
           \/ TellCreator(u) \/ Start(u) \/ RequestLeave(u) \/ Dangling(u)
  BY <1>0, <1>2 DEF Arrives, InviteNext, AcceptMark, RejectRemove, RejectCheck, TellCreator,
     Start, RequestLeave, Dangling, Fault, sessionVars, Goto
<1>3. CASE FindPosition(u)
  <2>1. CASE v = u
    BY <1>0, <1>3, <2>1 DEF Arrives, FindPosition, Goto
  <2>2. CASE v # u
    BY <1>0, <1>3, <2>2 DEF Arrives, FindPosition, Goto
  <2> QED
    BY <2>1, <2>2
<1>4. CASE RequestStart(u)
  <2>1. CASE v = u
    BY <1>0, <1>4, <2>1 DEF Arrives, RequestStart, Goto
  <2>2. CASE v # u
    BY <1>0, <1>4, <2>2 DEF Arrives, RequestStart, Goto
  <2> QED
    BY <2>1, <2>2
<1>5. CASE RequestCancel(u)
  BY <1>0, <1>5 DEF Arrives, RequestCancel, Goto
<1>6. ASSUME NEW c \in Characters, RequestCharacter(u, c) PROVE Arrives(v)
  BY <1>0, <1>6 DEF Arrives, RequestCharacter, Goto
<1>7. ASSUME NEW name \in Names, NEW g \in Games, RequestAccept(u, name, g) PROVE Arrives(v)
  BY <1>0, <1>7 DEF Arrives, RequestAccept, Goto
<1>8. ASSUME NEW name \in Names, NEW g \in Games, RequestReject(u, name, g) PROVE Arrives(v)
  BY <1>0, <1>8 DEF Arrives, RequestReject, Goto
<1>9. ASSUME NEW name \in Names, LookupForever(u, name) PROVE Arrives(v)
  BY <1>0, <1>9 DEF Arrives, LookupForever, Goto
<1> QED
  BY <1>1, <1>2, <1>3, <1>4, <1>5, <1>6, <1>7, <1>8, <1>9 DEF Serves

\* A request's game that is live after a step was live before.
LEMMA StillLive ==
    ASSUME LobbyInv, HandsInv, [Next]_tableVars, NEW v \in Users,
           pc[v] # "adding", target'[v] = target[v], Live(target[v])'
    PROVE  /\ target[v] \in Games /\ Live(target[v])
           /\ game'[target[v]].status # "freed"
<1>1. target[v] \in Games \cup {NULL}
  BY DEF LobbyInv, LobbyTypeOK
<1>2. target[v] # NULL /\ game'[target[v]].status = "listed"
  BY DEF Live, Listed
<1>3. game[target[v]].status \in {"listed", "freed"}
  BY <1>2 DEF HandsInv, TargetsListedOnce
<1>4. game[target[v]].status # "freed"
  BY <1>1, <1>2, ListedStays DEF LobbyInv
<1> QED
  BY <1>1, <1>2, <1>3, <1>4 DEF Live, Listed

LEMMA HeadServing ==
    ASSUME LobbyInv, HandsInv, HeadInv, [Next]_tableVars, Serving,
           \A g \in Games : PartyEffect(g),
           \A v \in Users : Arrives(v)
    PROVE  HeadInv'
<1>1. CreatorFirst'
  <2> SUFFICES ASSUME NEW v \in Users, pc'[v] = "adding" \/ (pc'[v] = "inviting" /\ Live(target[v])')
               PROVE  HeadedBy(game'[target'[v]], v)
    BY DEF CreatorFirst, HeadedBy
  <2>1. CASE pc'[v] = "adding"
    <3>1. pc[v] = "adding" /\ target'[v] = target[v]
      BY <2>1 DEF Serving
    <3>2. game'[target[v]] = game[target[v]]
      BY <3>1 DEF Serving, HandsInv, PrivateToCreator, LobbyInv, CreatorsHaveGames
    <3> QED
      BY <3>1, <3>2 DEF HeadInv, CreatorFirst
  <2>2. CASE pc'[v] = "inviting" /\ Live(target[v])'
    <3>1. pc[v] = "inviting" /\ target'[v] = target[v]
      BY <2>2 DEF Serving
    <3>2. /\ target[v] \in Games /\ Live(target[v])
          /\ game'[target[v]].status # "freed"
      BY <2>2, <3>1, StillLive
    <3> QED
      BY <3>1, <3>2, HeadStays
  <2> QED
    BY <2>1, <2>2
<1>2. HeadNotRejected'
  <2> SUFFICES ASSUME NEW v \in Users, NEW w \in Users,
                      pc'[v] = "inviting", Live(target[v])',
                      pc'[w] = "removing", target'[w] = target'[v]
               PROVE  pos'[w] # 0
    BY DEF HeadNotRejected
  <2>1. pc[v] = "inviting" /\ target'[v] = target[v]
    BY DEF Serving
  <2>2. target[v] \in Games /\ Live(target[v])
    BY <2>1, StillLive
  <2>3. CASE pc[w] = "removing" /\ target'[w] = target[w] /\ pos'[w] = pos[w]
    BY <2>1, <2>2, <2>3 DEF HeadInv, HeadNotRejected
  <2>4. CASE FindPosition(w)
    <3>1. PICK i \in Index \cup {-1} : IsPosition(target[w], w, i) /\ pos' = [pos EXCEPT ![w] = i]
      BY <2>4 DEF FindPosition
    <3>2. target[w] = target[v] /\ v # w
      BY <2>1, <2>4 DEF FindPosition, Goto
    <3>3. HeadedBy(game[target[v]], v)
      BY <2>1, <2>2 DEF HeadInv, CreatorFirst
    <3>4. i # 0
      BY <3>1, <3>2, <3>3 DEF IsPosition, HeadedBy, Positions
    <3>5. pos \in [Users -> Index \cup {-1}]
      BY DEF LobbyInv, LobbyTypeOK
    <3> QED
      BY <3>1, <3>4, <3>5
  <2> QED
    BY <2>3, <2>4 DEF Arrives
<1>3. CharactersKeptUntilStart'
  <2> SUFFICES ASSUME NEW v \in Users, pc'[v] = "starting", Live(target[v])'
               PROVE  AllHasCharacter(target[v])'
    BY DEF CharactersKeptUntilStart
  <2>1. CASE pc[v] = "starting" /\ target'[v] = target[v]
    <3>1. /\ target[v] \in Games /\ Live(target[v])
          /\ game'[target[v]].status # "freed"
      BY <2>1, StillLive
    <3>2. Chosen(game'[target[v]])
      BY <2>1, <3>1, ChosenStays
    <3> QED
      BY <2>1, <3>2 DEF Chosen, AllHasCharacter, Positions
  <2>2. CASE RequestStart(v)
    <3>1. AllHasCharacter(preGame[v]) /\ UNCHANGED game
      BY <2>2 DEF RequestStart, tableVars
    <3>2. target'[v] = preGame[v]
      BY <2>2 DEF RequestStart, LobbyInv, LobbyTypeOK
    <3> QED
      BY <3>1, <3>2 DEF AllHasCharacter, Positions
  <2> QED
    BY <2>1, <2>2 DEF Arrives
<1> QED
  BY <1>1, <1>2, <1>3 DEF HeadInv

LEMMA HeadCreate ==
    ASSUME LobbyInv, HandsInv, HeadInv, NEW u \in Users, NEW g \in Games, NEW name \in Names,
           NEW list \in InviteLists, RequestCreate(u, g, name, list)
    PROVE  HeadInv'
<1> DEFINE r == [NoObject("private") EXCEPT !.gameName = name, !.creator = u]
<1>0. /\ pc \in [Users -> Labels] /\ target \in [Users -> Games \cup {NULL}]
      /\ game \in [Games -> PreGameState]
  BY DEF LobbyInv, LobbyTypeOK, TableInv, TypeOK
<1>1. /\ game[g].status = "unallocated"
      /\ pc' = [pc EXCEPT ![u] = "adding"]
      /\ target' = [target EXCEPT ![u] = g]
      /\ pos' = pos
      /\ game' = [game EXCEPT ![g] = WithUser(r, u, Accepted)]
  BY DEF RequestCreate, CreateGame, Goto
<1>2. /\ r \in PreGameState /\ r.userCount = 0
      /\ r.users = [i \in Index |-> NULL]
  BY NoObjectType, TableAssumption DEF PreGameState, Status, NoObject
<1> HIDE DEF r
<1>3. game'[g] = WithUser(r, u, Accepted) /\ \A h \in Games : h # g => game'[h] = game[h]
  BY <1>0, <1>1
<1>4. /\ game'[g].userCount = 1
      /\ game'[g].users[0] = u
      /\ \A i \in Index : i # 0 => game'[g].users[i] = NULL
  BY <1>2, <1>3, WithUserType, TableAssumption
<1>5. game'[g].user[u].charname = NoCharacter
  BY <1>2, <1>3 DEF WithUser, NewPreGameUser, PreGameState
<1>6. HeadedBy(game'[g], u)
  BY <1>4, <1>5, TableAssumption DEF HeadedBy, Index
<1>7. \A v \in Users : target[v] # g
  BY <1>1, NobodyElse
<1>8. /\ pc'[u] = "adding" /\ target'[u] = g
      /\ \A v \in Users : v # u => pc'[v] = pc[v] /\ target'[v] = target[v]
  BY <1>0, <1>1
<1>9. CreatorFirst'
  <2> SUFFICES ASSUME NEW v \in Users,
                      pc'[v] = "adding" \/ (pc'[v] = "inviting" /\ Live(target[v])')
               PROVE  HeadedBy(game'[target'[v]], v)
    BY DEF CreatorFirst, HeadedBy
  <2>1. CASE v = u
    BY <1>6, <1>8, <2>1
  <2>2. CASE v # u
    <3>1. pc'[v] = pc[v] /\ target'[v] = target[v]
      BY <1>8, <2>2
    <3>2. target[v] \in Games /\ game'[target[v]] = game[target[v]]
      BY <1>3, <1>7, <3>1 DEF LobbyInv, CreatorsHaveGames
    <3> QED
      BY <3>1, <3>2 DEF HeadInv, CreatorFirst, Live, Listed
  <2> QED
    BY <2>1, <2>2
<1>10. \A v \in Users : pc'[v] # "adding" /\ Live(target[v])' =>
          /\ pc[v] = pc'[v] /\ target'[v] = target[v]
          /\ Live(target[v]) /\ game'[target[v]] = game[target[v]]
  BY <1>0, <1>3, <1>7, <1>8 DEF Live, Listed
<1>11. HeadNotRejected'
  BY <1>1, <1>8, <1>10 DEF HeadNotRejected, HeadInv
<1>12. CharactersKeptUntilStart'
  BY <1>8, <1>10 DEF CharactersKeptUntilStart, HeadInv, AllHasCharacter, Positions
<1> QED
  BY <1>9, <1>11, <1>12 DEF HeadInv

LEMMA HeadAdd ==
    ASSUME LobbyInv, HandsInv, HeadInv, [Next]_tableVars, NEW u \in Users,
           AddRefused(u) \/ AddDone(u)
    PROVE  HeadInv'
<1> DEFINE g == target[u]
<1>0. /\ pc \in [Users -> Labels] /\ target \in [Users -> Games \cup {NULL}]
      /\ game \in [Games -> PreGameState] /\ pos \in [Users -> Index \cup {-1}]
  BY DEF LobbyInv, LobbyTypeOK, TableInv, TypeOK
<1>1. pc[u] = "adding" /\ g \in Games /\ HeadedBy(game[g], u)
  BY DEF AddRefused, AddDone, Goto, LobbyInv, CreatorsHaveGames, HeadInv, CreatorFirst
<1>2. \A h \in Games : h # g => game'[h] = game[h]
  BY <1>0, <1>1 DEF AddRefused, AddDone, RefuseGame, AddGameToGameTable
<1>3. \A v \in Users : v # u =>
         /\ pc'[v] = pc[v] /\ target'[v] = target[v] /\ pos'[v] = pos[v]
         /\ target[v] # g
  BY <1>0, <1>1, NobodyElse DEF AddRefused, AddDone, Goto, Finish
<1>4. \/ pc'[u] = "idle"
      \/ pc'[u] = "inviting" /\ target'[u] = g /\ HeadedBy(game'[g], u)
  <2>1. CASE AddRefused(u)
    BY <1>0, <2>1 DEF AddRefused, Goto
  <2>2. CASE AddDone(u)
    <3>1. PICK s \in Slots : game' = [game EXCEPT ![g].gameId = s, ![g].status = "listed"]
      BY <2>2 DEF AddDone, AddGameToGameTable
    <3>2. game[g] \in PreGameState
      BY <1>0, <1>1
    <3>3. game'[g] = [game[g] EXCEPT !.gameId = s, !.status = "listed"]
      BY <1>0, <1>1, <3>1
    <3>4. /\ game'[g].userCount = game[g].userCount
          /\ game'[g].users = game[g].users
          /\ game'[g].user = game[g].user
      BY <3>2, <3>3 DEF PreGameState
    <3>5. pc'[u] = "inviting" /\ target'[u] = g
      BY <1>0, <2>2 DEF AddDone, Goto
    <3> QED
      BY <1>1, <3>4, <3>5 DEF HeadedBy
  <2> QED
    BY <2>1, <2>2
<1> HIDE DEF g
<1>5. \A v \in Users : v # u /\ target[v] # NULL => game'[target[v]] = game[target[v]]
  BY <1>0, <1>2, <1>3
<1>6. CreatorFirst'
  <2> SUFFICES ASSUME NEW v \in Users,
                      pc'[v] = "adding" \/ (pc'[v] = "inviting" /\ Live(target[v])')
               PROVE  HeadedBy(game'[target'[v]], v)
    BY DEF CreatorFirst, HeadedBy
  <2>1. CASE v = u
    BY <1>4, <2>1
  <2>2. CASE v # u
    <3>1. pc'[v] = pc[v] /\ target'[v] = target[v]
      BY <1>3, <2>2
    <3>2. target[v] # NULL
      BY <3>1, TableAssumption DEF LobbyInv, CreatorsHaveGames
    <3> QED
      BY <1>5, <2>2, <3>1, <3>2 DEF HeadInv, CreatorFirst, Live, Listed
  <2> QED
    BY <2>1, <2>2
<1>7. HeadNotRejected'
  <2> SUFFICES ASSUME NEW v \in Users, NEW w \in Users,
                      pc'[v] = "inviting", Live(target[v])',
                      pc'[w] = "removing", target'[w] = target'[v]
               PROVE  pos'[w] # 0
    BY DEF HeadNotRejected
  <2>1. w # u
    BY <1>4
  <2>2. v # u
    BY <1>3, <1>4, <2>1
  <2>3. Live(target[v])
    BY <1>3, <1>5, <2>2 DEF Live, Listed
  <2> QED
    BY <1>3, <2>1, <2>2, <2>3 DEF HeadInv, HeadNotRejected
<1>8. CharactersKeptUntilStart'
  <2> SUFFICES ASSUME NEW v \in Users, pc'[v] = "starting", Live(target[v])'
               PROVE  AllHasCharacter(target[v])'
    BY DEF CharactersKeptUntilStart
  <2>1. v # u
    BY <1>4
  <2>2. /\ pc[v] = "starting" /\ target'[v] = target[v] /\ target[v] # NULL
        /\ game'[target[v]] = game[target[v]]
    BY <1>3, <1>5, <2>1 DEF Live
  <2>3. Live(target[v])
    BY <2>2 DEF Live, Listed
  <2> QED
    BY <2>2, <2>3 DEF HeadInv, CharactersKeptUntilStart, AllHasCharacter, Positions
<1> QED
  BY <1>6, <1>7, <1>8 DEF HeadInv

LEMMA HeadStep ==
    ASSUME LobbyInv, HandsInv, HeadInv, [LobbyNext]_lobbyVars
    PROVE  HeadInv'
<1>1. [Next]_tableVars
  BY LobbyTable
<1>2. ASSUME NEW u \in Users, Serves(u) PROVE HeadInv'
  BY <1>1, <1>2, ServesServing, ServesEffect, ServesArrives, HeadServing
<1>3. ASSUME NEW s \in Slots, GameOver(s) PROVE HeadInv'
  <2>1. \A v \in Users : Arrives(v)
    BY <1>3 DEF GameOver, sessionVars, Arrives
  <2> QED
    BY <1>1, <1>3, <2>1, GameOverServing, GameOverEffect, HeadServing
<1>4. CASE Rests
  <2>1. UNCHANGED <<game, pc, target, pos>>
    BY <1>4 DEF Rests, tableVars, sessionVars
  <2> QED
    BY <2>1 DEF HeadInv, CreatorFirst, HeadNotRejected, CharactersKeptUntilStart, HeadedBy,
                AllHasCharacter, Positions, Live, Listed
<1> QED
  BY <1>1, <1>2, <1>3, <1>4, StepKinds, HeadCreate, HeadAdd

-----------------------------------------------------------------------------
(***************************************************************************)
(* Theorems.                                                               *)
(***************************************************************************)

\* The inductive invariant holds in every reachable state of the lobby.
THEOREM LobbyInvariant == LobbySpec => []LobbyInv
<1> QED
  BY LobbyInit_Inv, LobbyNext_Inv, PTL DEF LobbySpec

\* Type correctness; in particular START never writes a gameId or a number of
\* players that the processor's arrays have no room for.
THEOREM LobbyTypeCorrect == LobbySpec => []LobbyTypeOK
<1>1. LobbyInv => LobbyTypeOK
  BY DEF LobbyInv
<1> QED
  BY <1>1, LobbyInvariant, PTL

\* The sections of the sessions, with whatever stale pointers and positions
\* they use, amount to operations of the table: the lobby implements GameTable.
THEOREM LobbyImplementsTable == LobbySpec => TableSpec
<1>1. LobbyInit => Init
  BY DEF LobbyInit
<1>2. LobbyInv /\ [LobbyNext]_lobbyVars => [UNCHANGED tableVars \/ Next]_tableVars
  BY LobbyTable
<1> QED
  BY <1>1, <1>2, LobbyInvariant, PTL DEF LobbySpec, TableSpec

\* No client can send a name that the lookup answers with NULL: the branch of
\* REJECT that would lock a mutex through that pointer is dead.
THEOREM LookupsNotNull == LobbySpec => []LookupNeverNull
<1>1. LobbyInit => NamesKnown
  BY DEF LobbyInit, NamesKnown
<1>2. LobbyInv /\ NamesKnown => LookupNeverNull
  <2> SUFFICES ASSUME LobbyInv, NamesKnown, NEW u \in Users, NEW name \in Names,
                      MayReject(u, name)
               PROVE  ~LookupFails(name)
    BY DEF LookupNeverNull
  <2>1. Known(name)
    BY DEF NamesKnown, MayReject, MayAccept
  <2> QED
    BY <2>1, KnownFound DEF LobbyInv
<1>3. LobbyInv /\ HandsInv /\ NamesKnown /\ [LobbyNext]_lobbyVars => HandsInv' /\ NamesKnown'
  BY HandsStep, NamesStep
<1> QED
  BY <1>1, <1>2, <1>3, HandsInit, LobbyInvariant, PTL DEF LobbySpec

\* When START counts the players and starts the game, every player of the
\* party still has the character that START's check found.
THEOREM CharactersKept == LobbySpec => []CharactersKeptUntilStart
<1>1. LobbyInv /\ HandsInv /\ HeadInv /\ [LobbyNext]_lobbyVars => HandsInv' /\ HeadInv'
  BY HandsStep, HeadStep
<1>2. HeadInv => CharactersKeptUntilStart
  BY DEF HeadInv
<1> QED
  BY <1>1, <1>2, HandsInit, HeadInit, LobbyInvariant, PTL DEF LobbySpec
=============================================================================
