------------------------------ MODULE Database ------------------------------
(***************************************************************************)
(* src/server/source/BBDD_Handler.c: the queries of the sessions and of    *)
(* the game processors.  The functions are called by many threads and keep *)
(* the connection, the result and the row in global variables, so that the *)
(* calls of libmysqlclient are the steps: mysql_query, mysql_store_result, *)
(* mysql_fetch_row and the use of the row.  Each of them is atomic here,   *)
(* and a row that another thread sets to NULL between its test and its use *)
(* (a crash) is left out.                                                  *)
(*                                                                         *)
(* A row is a key and whether its first column is a number, for atoi makes *)
(* 0 of a name.  NULL and a row, and no result and a result, are a list    *)
(* without or with one element.  Dates and the order of a ranking are left *)
(* out; of texts only what makes a statement fail is kept.  All games last *)
(* equally long, which is the unit of time.                                *)
(*                                                                         *)
(* Two things end in undefined behaviour.  A row past the end of an array  *)
(* of rows is the last step of the model ("overrun").  A connection that   *)
(* could not be made, with which the next query crashes, is left out.      *)
(***************************************************************************)
EXTENDS Integers, Sequences, FiniteSets, FiniteSetsExt, SequencesExt, Selections

CONSTANTS Threads,
          Names,
          Calls,      \* the calls the threads make
          Users,      \* the rows of jugadors at the start, from crearBBDD.sql
          RankingLimit,   \* 10: the rows of a ranking
          MaxRows,        \* 100: the rows of an array
          Day,            \* 24 hours, in lengths of a game
          Broken,     \* the names that, like their password, hold a quote
          Long,       \* those for which a column of jugadors is too short
          MaxCalls,   \* bound: calls made in all
          NULL

\* There are users at the start, for MAX of no rows is a row that atoi cannot read
\* (the branches "no users yet" are never taken).
ASSUME DatabaseAssumption ==
    /\ MaxCalls \in Nat /\ RankingLimit \in Nat /\ MaxRows \in Nat /\ Day \in Nat \ {0}
    /\ Broken \subseteq Names /\ Long \subseteq Names
    /\ Users \subseteq [id : Nat, nom : Names, actiu : BOOLEAN]
    /\ IsFiniteSet(Users) /\ Users # {} /\ \A u, v \in Users : u.id = v.id => u = v
    /\ \A c \in Calls :
          \/ c.op \in {"login", "deregister"} /\ c.nom \in Names /\ c.right \in BOOLEAN
          \/ c.op \in {"signup", "results", "time"} /\ c.nom \in Names
          \/ c.op \in {"opponents", "interval"} /\ c.id \in Nat
          \/ c.op = "ranking"
          \/ c.op = "characters" /\ c.game \in Nat
          \/ /\ c.op = "scores" /\ c.nom \in Names
             /\ c.players \in Seq(Nat) /\ c.winner \in Int

VARIABLES
    \* The globals.
    ready,          \* whether conn is connected
    pending,        \* the rows of conn that were not stored yet, if any
    result,         \* rows not fetched yet; a NULL result has none
    row,            \* a row, if any
    \* The tables.
    jugadors, partides, participants,
    \* The threads.
    call, stage, step,
    number,         \* of the call, from 1
    local,          \* the id the call works with
    got,            \* the rows it has copied
    returned,
    \* Bookkeeping: the calls begun, and whether no other call ran with this one.
    begun, alone

connVars  == <<ready, pending, result, row>>
tableVars == <<jugadors, partides, participants>>
localVars == <<local, got>>
callVars  == <<call, number, begun, alone>>
vars == <<connVars, tableVars, localVars, callVars, stage, step, returned>>

Rows       == [key : Nat, number : BOOLEAN]
IdRow(k)   == [key |-> k, number |-> TRUE]
NameRow(k) == [key |-> k, number |-> FALSE]
atoi(r)    == IF r.number THEN r.key ELSE 0

DatabaseTypeOK ==
    /\ ready \in BOOLEAN
    /\ pending \in Seq(Seq(Rows)) /\ Len(pending) <= 1
    /\ result \in Seq(Rows)
    /\ row \in Seq(Rows) /\ Len(row) <= 1
    /\ jugadors \subseteq [id : Nat, nom : Names, actiu : BOOLEAN]
    /\ \A u, v \in jugadors : u.id = v.id => u = v
    /\ partides \subseteq [id : Nat, winner : Int, by : Nat]
    /\ \A g, h \in partides : g.id = h.id => g = h
    /\ participants \subseteq [player : Nat, game : Nat, by : Nat]
    /\ call \in [Threads -> Calls \cup {NULL}]
    /\ stage \in [Threads -> Nat]
    /\ number \in [Threads -> 0 .. MaxCalls]
    /\ step \in [Threads -> {"idle", "query", "store", "fetch", "use", "returned", "overrun"}]
    /\ local \in [Threads -> Nat]
    /\ got \in [Threads -> Seq(Nat)]
    /\ returned \in [Threads -> Int]
    /\ begun \in 0 .. MaxCalls
    /\ alone \in [Threads -> BOOLEAN]

DatabaseInit ==
    /\ ready = TRUE
    /\ pending = <<>>
    /\ result = <<>>
    /\ row = <<>>
    /\ jugadors = Users
    /\ partides = {[id |-> 1, winner |-> 1, by |-> 0]}
    /\ participants = {[player |-> u.id, game |-> 1, by |-> 0] : u \in Users}
    /\ call = [t \in Threads |-> NULL]
    /\ stage = [t \in Threads |-> 0]
    /\ number = [t \in Threads |-> 0]
    /\ step = [t \in Threads |-> "idle"]
    /\ local = [t \in Threads |-> 0]
    /\ got = [t \in Threads |-> <<>>]
    /\ returned = [t \in Threads |-> 0]
    /\ begun = 0
    /\ alone = [t \in Threads |-> FALSE]

-----------------------------------------------------------------------------
(***************************************************************************)
(* The statements of each call, by its stage.                              *)
(***************************************************************************)

IdRows(S)   == [i \in 1 .. Cardinality(S) |-> IdRow(Ascending(S)[i])]
NameRows(S) == [i \in 1 .. Cardinality(S) |-> NameRow(Ascending(S)[i])]

Ids == {u.id : u \in jugadors}

\* The ids of the users with the name and the password of a call.
Named(c)    == {u.id : u \in {v \in jugadors : v.nom = c.nom}}
Matching(c) == IF c.right THEN Named(c) ELSE {}

\* BBDD_check_login looks for active users only.
CanLogIn(c) == {i \in Matching(c) : [id |-> i, nom |-> c.nom, actiu |-> TRUE] \in jugadors}

\* The participations of some users, and the games and the players of some rows.
Played(ids)      == {p \in participants : p.player \in ids}
GamesOf(ids)     == {p.game : p \in Played(ids)}
PlayersOf(games) == {p.player : p \in {q \in participants : q.game \in games}}

Opponents(c) == PlayersOf(GamesOf({c.id})) \ {c.id}

\* The winners that are found in the table of users: a draw stores whatever the processor's
\* variable holds (main.c:268).
Winners(games) == {g.winner : g \in {h \in partides : h.id \in games}} \cap Ids

\* The first of a ranking, where the lower id goes first among as many games won (the
\* server promises no order there).
Wins(i)     == Cardinality({g \in partides : g.winner = i})
Ahead(i, j) == Wins(i) > Wins(j) \/ (Wins(i) = Wins(j) /\ i < j)
Ranked == LET all == Winners({g.id : g \in partides})
          IN {j \in all : Cardinality({i \in all : Ahead(i, j)}) < RankingLimit}

\* The rows a SELECT finds.
Selected(t) ==
    LET c == call[t] IN
    CASE c.op = "login"                      -> IdRows(CanLogIn(c))
      [] c.op = "signup" /\ stage[t] = 1     -> IdRows(Named(c))
      [] c.op = "signup" /\ stage[t] # 1     -> <<IdRow(Max(Ids))>>
      [] c.op = "deregister"                 -> IdRows(Matching(c))
      [] c.op = "scores"                     -> <<IdRow(Max({g.id : g \in partides}))>>
      [] c.op = "ranking"                    -> NameRows(Ranked)
      [] c.op = "characters"                 -> NameRows(PlayersOf({c.game}))
      [] c.op = "opponents"                  -> NameRows(Opponents(c))
      [] c.op = "interval"                   -> NameRows(GamesOf({c.id}))
      [] c.op = "time"                       -> <<IdRow(Cardinality(Played(Named(c))))>>
      [] c.op = "results" /\ stage[t] = 1    -> NameRows(GamesOf(Named(c)))
      [] OTHER                               -> NameRows(Winners({got[t][stage[t] - 1]}))

\* Whether the stage writes to a table rather than selects.
Writes(t) == LET op == call[t].op IN
    \/ op = "signup" /\ stage[t] = 3
    \/ op = "deregister" /\ stage[t] = 2
    \/ op = "scores" /\ stage[t] >= 2

\* The player of a stage of BBDD_add_game_scores.
PlayerOf(t) == call[t].players[stage[t] - 2]

\* Whether the statement of the stage holds the name of its call: of a user, or the one
\* that the creator gave to a game.
HoldsName(t) ==
    \/ call[t].op \in {"login", "results", "deregister"} /\ stage[t] = 1
    \/ call[t].op = "signup" /\ stage[t] # 2
    \/ call[t].op = "scores" /\ stage[t] = 2
    \/ call[t].op = "time"

\* What the server refuses to store: a key that exists, one that does not, or a name that
\* is too long.
Violates(t) ==
    LET op == call[t].op IN
    \/ op = "signup" /\ (call[t].nom \in Long \/ \E u \in jugadors : u.id = local[t])
    \/ op = "scores" /\ stage[t] = 2 /\ \E g \in partides : g.id = local[t]
    \/ op = "scores" /\ stage[t] > 2 /\ ~ /\ \E u \in jugadors : u.id = PlayerOf(t)
                                          /\ \E g \in partides : g.id = local[t]

Write(t) ==
    LET c == call[t] IN
    /\ jugadors' = CASE c.op = "signup" ->
                            jugadors \cup {[id |-> local[t], nom |-> c.nom, actiu |-> TRUE]}
                     [] c.op = "deregister" ->
                            {IF u.id = local[t] THEN [u EXCEPT !.actiu = FALSE] ELSE u
                                : u \in jugadors}
                     [] OTHER -> jugadors
    /\ partides' = IF c.op = "scores" /\ stage[t] = 2
                   THEN partides \cup {[id |-> local[t], winner |-> c.winner, by |-> number[t]]}
                   ELSE partides
    /\ participants' = IF c.op = "scores" /\ stage[t] > 2
                       THEN participants \cup {[player |-> PlayerOf(t), game |-> local[t],
                                                by |-> number[t]]}
                       ELSE participants

-----------------------------------------------------------------------------
(***************************************************************************)
(* The calls of the library.                                               *)
(***************************************************************************)

To(t, s)      == step' = [step EXCEPT ![t] = s] /\ UNCHANGED <<stage, returned>>
ToStage(t, k) == /\ stage' = [stage EXCEPT ![t] = k]
                 /\ step' = [step EXCEPT ![t] = "query"]
                 /\ UNCHANGED returned
Return(t, v)  == /\ returned' = [returned EXCEPT ![t] = v]
                 /\ step' = [step EXCEPT ![t] = "returned"]
                 /\ UNCHANGED stage

Running == {t \in Threads : step[t] \notin {"idle", "returned"}}

Begin(t) ==
    /\ step[t] = "idle" /\ begun < MaxCalls
    /\ \E c \in Calls : call' = [call EXCEPT ![t] = c]
    /\ begun' = begun + 1
    /\ number' = [number EXCEPT ![t] = begun + 1]
    /\ stage' = [stage EXCEPT ![t] = 1]
    /\ step' = [step EXCEPT ![t] = "query"]
    /\ local' = [local EXCEPT ![t] = 0]
    /\ got' = [got EXCEPT ![t] = <<>>]
    /\ alone' = [u \in Threads |-> u = t /\ Running = {}]
    /\ UNCHANGED <<connVars, tableVars, returned>>

\* BBDD_connect for a new session replaces the connection of everybody.
Connect ==
    /\ begun < MaxCalls
    /\ ready' = TRUE
    /\ pending' = <<>>
    /\ alone' = [t \in Threads |-> FALSE]
    /\ UNCHANGED <<result, row, tableVars, localVars, call, number, begun, stage, step, returned>>

\* The database server closes the connection.
ConnectionLost ==
    /\ begun < MaxCalls /\ ready
    /\ ready' = FALSE
    /\ pending' = <<>>
    /\ UNCHANGED <<result, row, tableVars, localVars, callVars, stage, step, returned>>

\* A query fails on a connection that was lost or whose last result was not stored yet,
\* when a quote ends its text, and when the server refuses to store the row.
Fails(t) == \/ ~ready \/ pending # <<>>
            \/ HoldsName(t) /\ call[t].nom \in Broken
            \/ Writes(t) /\ Violates(t)

\* Faulty variant: BBDD_add_game_scores goes on to the next player after an error.
QueryFailedIgnored(t) ==
    /\ step[t] = "query" /\ Fails(t)
    /\ IF call[t].op = "scores" /\ stage[t] > 1 THEN To(t, "store") ELSE To(t, "fetch")
    /\ UNCHANGED <<connVars, tableVars, localVars, callVars>>

\* After an error only the scores give up; a SELECT goes on with the rows that are left
\* in the global result, a sign-up returns the id it could not insert.
QueryFailed(t) ==
    /\ step[t] = "query" /\ Fails(t)
    /\ CASE call[t].op = "scores"                      -> Return(t, -1)
         [] call[t].op = "signup" /\ Writes(t)         -> Return(t, local[t])
         [] call[t].op = "deregister" /\ Writes(t)     -> Return(t, 0)
         [] OTHER                                      -> To(t, "fetch")
    /\ UNCHANGED <<connVars, tableVars, localVars, callVars>>

Query(t) ==
    /\ step[t] = "query" /\ ~Fails(t)
    /\ IF Writes(t)
       THEN /\ Write(t)
            /\ UNCHANGED pending
            /\ IF call[t].op = "signup" THEN Return(t, local[t]) ELSE To(t, "store")
       ELSE /\ pending' = <<Selected(t)>>
            /\ To(t, "store")
            /\ UNCHANGED tableVars
    /\ UNCHANGED <<ready, result, row, localVars, callVars>>

\* Faulty variant: the loop over the players ends one too early.
StoreLastSkipped(t) ==
    /\ step[t] = "store"
    /\ result' = IF pending = <<>> THEN <<>> ELSE pending[1]
    /\ pending' = <<>>
    /\ CASE call[t].op = "deregister" /\ Writes(t) -> Return(t, 0)
         [] call[t].op = "scores" /\ Writes(t) ->
                IF stage[t] = Len(call[t].players) + 1 THEN Return(t, 0)
                                                      ELSE ToStage(t, stage[t] + 1)
         [] OTHER -> To(t, "fetch")
    /\ UNCHANGED <<ready, row, tableVars, localVars, callVars>>

\* The result of whichever query was last on the connection.
Store(t) ==
    /\ step[t] = "store"
    /\ result' = IF pending = <<>> THEN <<>> ELSE pending[1]
    /\ pending' = <<>>
    /\ CASE call[t].op = "deregister" /\ Writes(t) -> Return(t, 0)
         [] call[t].op = "scores" /\ Writes(t) ->
                IF stage[t] = Len(call[t].players) + 2 THEN Return(t, 0)
                                                      ELSE ToStage(t, stage[t] + 1)
         [] OTHER -> To(t, "fetch")
    /\ UNCHANGED <<ready, row, tableVars, localVars, callVars>>

Fetch(t) ==
    /\ step[t] = "fetch"
    /\ row' = IF result = <<>> THEN <<>> ELSE <<Head(result)>>
    /\ result' = IF result = <<>> THEN <<>> ELSE Tail(result)
    /\ To(t, "use")
    /\ UNCHANGED <<ready, pending, tableVars, localVars, callVars>>

-----------------------------------------------------------------------------
(***************************************************************************)
(* The use of a row, one action per function.                              *)
(***************************************************************************)

Uses(t, op, k) == step[t] = "use" /\ call[t].op = op /\ stage[t] = k
Keeps == UNCHANGED <<connVars, tableVars, callVars>>
SetLocal(t, v) == local' = [local EXCEPT ![t] = v] /\ UNCHANGED got

BBDD_check_login(t) ==
    /\ Uses(t, "login", 1) /\ Keeps /\ UNCHANGED localVars
    /\ Return(t, IF row = <<>> THEN -1 ELSE atoi(row[1]))

\* Faulty variant: the highest id itself is given to the new user.
SameId(t) ==
    \/ /\ Uses(t, "signup", 1) /\ Keeps /\ UNCHANGED localVars
       /\ IF row = <<>> THEN ToStage(t, 2) ELSE Return(t, -1)
    \/ /\ Uses(t, "signup", 2) /\ Keeps
       /\ SetLocal(t, IF row = <<>> THEN 1 ELSE atoi(row[1]))
       /\ ToStage(t, 3)

BBDD_add_user(t) ==
    \/ /\ Uses(t, "signup", 1) /\ Keeps /\ UNCHANGED localVars
       /\ IF row = <<>> THEN ToStage(t, 2) ELSE Return(t, -1)
    \/ /\ Uses(t, "signup", 2) /\ Keeps
       /\ SetLocal(t, IF row = <<>> THEN 1 ELSE atoi(row[1]) + 1)
       /\ ToStage(t, 3)

BBDD_deregister_user(t) ==
    /\ Uses(t, "deregister", 1) /\ Keeps
    /\ IF row = <<>> THEN Return(t, -1) /\ UNCHANGED localVars
                     ELSE ToStage(t, 2) /\ SetLocal(t, atoi(row[1]))

BBDD_add_game_scores(t) ==
    /\ Uses(t, "scores", 1) /\ Keeps
    /\ SetLocal(t, IF row = <<>> THEN 0 ELSE atoi(row[1]) + 1)
    /\ ToStage(t, 2)

\* A row is copied into the array of rows, in which nothing checks whether there is room.
CopyRow(t) ==
    /\ row # <<>> /\ UNCHANGED local
    /\ IF Len(got[t]) < MaxRows
       THEN To(t, "fetch") /\ got' = [got EXCEPT ![t] = Append(@, row[1].key)]
       ELSE To(t, "overrun") /\ UNCHANGED got

\* The loop over the rows of a query that only reads.
CopyRows(t, op) ==
    /\ Uses(t, op, 1) /\ Keeps
    /\ \/ CopyRow(t)
       \/ row = <<>> /\ Return(t, 0) /\ UNCHANGED localVars

BBDD_ranking(t)            == CopyRows(t, "ranking")
BBDD_find_characters(t)    == CopyRows(t, "characters")
BBDD_opponentGameList(t)   == CopyRows(t, "opponents")
BBDD_gameInTimeInterval(t) == CopyRows(t, "interval")

\* A sum has one row, and of its hours whole days are dropped.
BBDD_time_played(t) ==
    /\ Uses(t, "time", 1) /\ Keeps /\ UNCHANGED localVars
    /\ Return(t, IF row = <<>> THEN 0 ELSE atoi(row[1]) % Day)

\* The games, then for each of them a query for its winner's name, which takes the
\* game's place in got (0: "none").
BBDD_gameResultsWithOtherPlayers(t) ==
    LET k == stage[t]
        Next == IF k > Len(got[t]) THEN Return(t, 0) ELSE ToStage(t, k + 1)
    IN
    /\ Uses(t, "results", k) /\ Keeps
    /\ CASE row # <<>> /\ k = 1 -> CopyRow(t)
         [] row # <<>> /\ k # 1 -> /\ To(t, "fetch") /\ local' = [local EXCEPT ![t] = 1]
                                  /\ got' = [got EXCEPT ![t][k - 1] = row[1].key]
         [] OTHER -> /\ Next
                     /\ local' = [local EXCEPT ![t] = 0]
                     /\ got' = IF k > 1 /\ local[t] = 0 THEN [got EXCEPT ![t][k - 1] = 0]
                               ELSE got

Finish(t) ==
    /\ step[t] = "returned"
    /\ step' = [step EXCEPT ![t] = "idle"]
    /\ call' = [call EXCEPT ![t] = NULL]
    /\ number' = [number EXCEPT ![t] = 0]
    /\ stage' = [stage EXCEPT ![t] = 0]
    /\ local' = [local EXCEPT ![t] = 0]
    /\ got' = [got EXCEPT ![t] = <<>>]
    /\ returned' = [returned EXCEPT ![t] = 0]
    /\ alone' = [alone EXCEPT ![t] = FALSE]
    /\ UNCHANGED <<connVars, tableVars, begun>>

Steps(t) == \/ Begin(t) \/ QueryFailed(t) \/ Query(t) \/ Store(t) \/ Fetch(t)
            \/ BBDD_check_login(t) \/ BBDD_add_user(t) \/ BBDD_deregister_user(t)
            \/ BBDD_add_game_scores(t) \/ BBDD_ranking(t) \/ BBDD_find_characters(t)
            \/ BBDD_opponentGameList(t) \/ BBDD_gameInTimeInterval(t) \/ BBDD_time_played(t)
            \/ BBDD_gameResultsWithOtherPlayers(t) \/ Finish(t)

\* After an overrun anything may happen, of which nothing is said.
DatabaseNext == /\ \A t \in Threads : step[t] # "overrun"
                /\ Connect \/ ConnectionLost \/ \E t \in Threads : Steps(t)

DatabaseSpec == DatabaseInit /\ [][DatabaseNext]_vars

-----------------------------------------------------------------------------
(***************************************************************************)
(* Properties.                                                             *)
(***************************************************************************)

\* The players of a game in the table were inserted by the call that inserted the game:
\* the early returns and the key of partides keep the scores of two games apart, however
\* their calls interleave and fail.
ScoresNotMixed ==
    \A p \in participants : \A g \in partides : g.id = p.game => g.by = p.by

\* A game whose scores were reported stored has all its players.
StoredIsComplete ==
    \A t \in Threads : step[t] = "returned" /\ call[t].op = "scores" /\ returned[t] = 0 =>
       \E g \in partides : /\ g.by = number[t]
                           /\ {p.player : p \in {q \in participants : q.game = g.id}}
                                 = Range(call[t].players)

\* What each call should answer with the tables as they are when it returns: of a list of
\* games, the winners, or 0 where there is none.
Right(t) ==
    LET c == call[t]
        v == returned[t]
        games == Ascending(GamesOf(Named(c)))
    IN
    CASE c.op = "login"      -> IF CanLogIn(c) = {} THEN v = -1 ELSE v \in CanLogIn(c)
      [] c.op = "signup"     -> IF v = -1 THEN Named(c) # {}
                                ELSE [id |-> v, nom |-> c.nom, actiu |-> TRUE] \in jugadors
      [] c.op = "deregister" -> IF Matching(c) = {} THEN v = -1
                                ELSE v = 0 /\ \E u \in jugadors : u.nom = c.nom /\ ~u.actiu
      [] c.op = "ranking"    -> got[t] = Ascending(Ranked)
      [] c.op = "characters" -> got[t] = Ascending(PlayersOf({c.game}))
      [] c.op = "opponents"  -> got[t] = Ascending(Opponents(c))
      [] c.op = "interval"   -> got[t] = Ascending(GamesOf({c.id}))
      [] c.op = "time"       -> v = Cardinality(Played(Named(c))) % Day
      [] c.op = "results"    -> /\ Len(got[t]) = Len(games)
                                /\ \A k \in 1 .. Len(games) : \E g \in partides :
                                      /\ g.id = games[k]
                                      /\ got[t][k] = IF g.winner \in Ids THEN g.winner ELSE 0
      [] OTHER               -> (v = 0) <=> (Range(c.players) \subseteq Ids)

\* The calls whose statements hold no quote, and no name that is too long for the table.
Accepted(c) ==
    /\ c.op \in {"login", "signup", "deregister", "results", "time", "scores"} =>
          c.nom \notin Broken
    /\ c.op = "signup" => c.nom \notin Long

\* A call that is accepted, on a connection that was there from its beginning to its end
\* and that it shared with no other call, answers what the tables hold (of a time the part
\* under a day, of a ranking the first RankingLimit) if its rows fit the array: whatever
\* calls, lost connections, refused statements and left-over rows came before.
AloneIsRight ==
    \A t \in Threads :
       step[t] = "returned" /\ alone[t] /\ ready /\ Accepted(call[t]) => Right(t)

\* "sign up OK" (main.c:850): the user who is told so is in the table.  It fails: the
\* result of the INSERT is not tested (BBDD_Handler.c:186), and two sign-ups at once
\* choose the same id.
SignedUpIsStored ==
    \A t \in Threads : step[t] = "returned" /\ call[t].op = "signup" /\ returned[t] # -1 =>
       \E u \in jugadors : u.id = returned[t] /\ u.nom = call[t].nom

\* "retorna la id de l'usuari si el longin es correcte, o -1 si el login no es correcte"
\* (BBDD_Handler.c:191): of two logins at the same time each gets its own id.  It fails:
\* result and row are shared, and one call reads the answer to the other's query.
LoginAnswersOwnId ==
    \A t \in Threads : step[t] = "returned" /\ call[t].op = "login" /\ returned[t] # -1
                        => returned[t] \in Matching(call[t])

=============================================================================
