--------------------------- MODULE DatabaseProofs ---------------------------
(***************************************************************************)
(* Proofs about the database handler, for any number of threads, calls and *)
(* players: the scores of two games are never mixed, a game that was       *)
(* reported stored has all its players, and a call that the server accepts *)
(* answers what the tables hold when no other one runs during it.          *)
(***************************************************************************)
EXTENDS Database, SelectionsProofs, TLAPS

\* A call of BBDD_add_game_scores, and how many players it has inserted: -1 when it
\* has inserted no game yet, less before it knows the id.
Scoring(t)  == step[t] # "idle" /\ call[t].op = "scores"
Stored(t)   == step[t] = "store" \/ (step[t] = "returned" /\ returned[t] = 0)
Inserted(t) == IF Stored(t) THEN stage[t] - 2 ELSE stage[t] - 3

GamesBy(n)    == {g \in partides : g.by = n}
InsertedBy(n) == {p.player : p \in {q \in participants : q.by = n}}
PlayersUpTo(t, k) == {call[t].players[j] : j \in 1 .. k}

\* What is known of the variables of the calls.
CallsInv ==
    /\ step \in [Threads -> {"idle", "query", "store", "fetch", "use", "returned", "overrun"}]
    /\ stage \in [Threads -> Nat] /\ number \in [Threads -> Nat] /\ begun \in Nat
    /\ DOMAIN call = Threads /\ DOMAIN local = Threads /\ DOMAIN returned = Threads
    /\ \A t \in Threads : step[t] # "idle" => call[t] \in Calls /\ number[t] \in 1 .. begun
    /\ \A t, u \in Threads : step[t] # "idle" /\ step[u] # "idle" /\ number[t] = number[u] => t = u

\* Each game has an id of its own, and each participant the game of its call.
TablesInv ==
    /\ \A g \in partides : g.by \in 0 .. begun
    /\ \A g, h \in partides : g.id = h.id => g = h
    /\ \A p \in participants : \E g \in partides : g.id = p.game /\ g.by = p.by

\* Where a call of BBDD_add_game_scores is, and what it has inserted so far.
StageInv(t) ==
    /\ stage[t] \in 1 .. Len(call[t].players) + 2
    /\ step[t] \in {"fetch", "use"} => stage[t] = 1
    /\ step[t] = "returned" /\ returned[t] = 0 => stage[t] = Len(call[t].players) + 2

GameInv(t) ==
    /\ Inserted(t) < 0 => GamesBy(number[t]) = {}
    /\ Inserted(t) >= 0 => /\ GamesBy(number[t]) # {}
                           /\ \A g \in GamesBy(number[t]) : g.id = local[t]

ScoresInv(t) == /\ StageInv(t) /\ GameInv(t)
                /\ InsertedBy(number[t]) = PlayersUpTo(t, Inserted(t))

\* The inductive invariant.
HandlerInv == CallsInv /\ TablesInv /\ \A t \in Threads : Scoring(t) => ScoresInv(t)

-----------------------------------------------------------------------------
(***************************************************************************)
(* A call changes its own variables only, and two of its statements insert *)
(* scores.                                                                 *)
(***************************************************************************)

\* The steps that use a row, by the function of the handler.
Readers(t) == \/ BBDD_check_login(t) \/ BBDD_add_user(t) \/ BBDD_deregister_user(t)
              \/ BBDD_ranking(t) \/ BBDD_find_characters(t) \/ BBDD_opponentGameList(t)
              \/ BBDD_gameInTimeInterval(t) \/ BBDD_time_played(t)
              \/ BBDD_gameResultsWithOtherPlayers(t)

\* What every statement of call t keeps to.
Touches(t) ==
    /\ \E s \in {"query", "store", "fetch", "use", "returned", "overrun"} :
          step' = [step EXCEPT ![t] = s]
    /\ UNCHANGED stage \/ \E k \in Nat : stage' = [stage EXCEPT ![t] = k]
    /\ UNCHANGED local \/ \E v : local' = [local EXCEPT ![t] = v]
    /\ UNCHANGED returned \/ \E v : returned' = [returned EXCEPT ![t] = v]

\* What is known of the calls.
LEMMA CallFields ==
    ASSUME NEW c \in Calls
    PROVE  /\ c.op \in {"login", "deregister", "signup", "results", "time"} => c.nom \in Names
           /\ c.op \in {"login", "deregister"} => c.right \in BOOLEAN
           /\ c.op \in {"opponents", "interval"} => c.id \in Nat
           /\ c.op = "characters" => c.game \in Nat
           /\ c.op = "scores" => c.players \in Seq(Nat) /\ c.winner \in Int
           /\ c.op \in {"login", "deregister", "signup", "results", "time", "opponents",
                        "interval", "ranking", "characters", "scores"}
  BY DatabaseAssumption

\* The answers and the next statements are written through these.
LEMMA Moves ==
    ASSUME CallsInv, NEW t \in Threads
    PROVE  /\ \A s \in {"store", "fetch", "use", "overrun"} : To(t, s) =>
                 /\ step' = [step EXCEPT ![t] = s] /\ UNCHANGED <<stage, returned>>
           /\ \A k \in Nat : ToStage(t, k) =>
                 /\ step' = [step EXCEPT ![t] = "query"] /\ UNCHANGED returned
                 /\ stage' = [stage EXCEPT ![t] = k]
           /\ \A v : Return(t, v) =>
                 /\ step' = [step EXCEPT ![t] = "returned"] /\ UNCHANGED stage
                 /\ returned' = [returned EXCEPT ![t] = v]
  BY DEF To, ToStage, Return

\* The use of a row leaves the tables and the calls alone, and only one of its functions
\* is about scores.
LEMMA ReadersStep ==
    ASSUME CallsInv, NEW t \in Threads, Readers(t)
    PROVE  /\ UNCHANGED <<partides, participants, call, number, begun>>
           /\ call[t].op # "scores" /\ step[t] = "use" /\ Touches(t)
<1> USE DEF CallsInv
<1>1. stage[t] \in Nat /\ stage[t] + 1 \in Nat
  OBVIOUS
<1>2. CASE BBDD_check_login(t) \/ BBDD_time_played(t)
  BY <1>1, <1>2, Moves DEF BBDD_check_login, BBDD_time_played, Uses, Keeps, tableVars, callVars,
                        localVars, Touches
<1>3. CASE BBDD_add_user(t) \/ BBDD_deregister_user(t)
  BY <1>1, <1>3, Moves DEF BBDD_add_user, BBDD_deregister_user, SetLocal, Uses, Keeps, tableVars,
                        callVars, localVars, Touches
<1>4. ASSUME NEW op, op # "scores", CopyRows(t, op)
      PROVE  /\ UNCHANGED <<partides, participants, call, number, begun>>
             /\ call[t].op # "scores" /\ step[t] = "use" /\ Touches(t)
  BY <1>1, <1>4, Moves DEF CopyRows, CopyRow, Uses, Keeps, tableVars, callVars, localVars, Touches
<1>5. CASE BBDD_ranking(t) \/ BBDD_find_characters(t) \/ BBDD_opponentGameList(t)
           \/ BBDD_gameInTimeInterval(t)
  <2>1. \E op : op # "scores" /\ CopyRows(t, op)
    BY <1>5 DEF BBDD_ranking, BBDD_find_characters, BBDD_opponentGameList,
                BBDD_gameInTimeInterval
  <2> QED
    BY <1>4, <2>1
<1>6. CASE BBDD_gameResultsWithOtherPlayers(t)
  BY <1>1, <1>6, Moves DEF BBDD_gameResultsWithOtherPlayers, CopyRow, Uses, Keeps, tableVars,
                        callVars, localVars, Touches
<1> QED
  BY <1>2, <1>3, <1>5, <1>6 DEF Readers

\* A statement of a call.
Statement(t) == \/ QueryFailed(t) \/ Query(t) \/ Store(t) \/ Fetch(t)
                \/ BBDD_add_game_scores(t) \/ Readers(t)

\* It belongs to a running call, which it ends at most with an answer.
LEMMA StatementStep ==
    ASSUME CallsInv, NEW t \in Threads, Statement(t)
    PROVE  /\ Touches(t) /\ UNCHANGED <<call, number, begun>>
           /\ step[t] # "idle" /\ step'[t] # "idle"
<1> USE DEF CallsInv
<1>1. stage[t] \in Nat /\ stage[t] + 1 \in Nat
  OBVIOUS
<1>2. CASE QueryFailed(t)
  BY <1>2, Moves DEF QueryFailed, localVars, callVars, Touches
<1>3. CASE Query(t)
  BY <1>3, Moves DEF Query, localVars, callVars, Touches
<1>4. CASE Store(t)
  BY <1>1, <1>4, Moves DEF Store, localVars, callVars, Touches
<1>5. CASE Fetch(t)
  BY <1>5, Moves DEF Fetch, localVars, callVars, Touches
<1>6. CASE BBDD_add_game_scores(t)
  <2>1. /\ step[t] = "use" /\ UNCHANGED <<call, number, begun>> /\ ToStage(t, 2)
        /\ \E v : local' = [local EXCEPT ![t] = v]
    BY <1>6 DEF BBDD_add_game_scores, Uses, Keeps, SetLocal, callVars
  <2>2. 2 \in Nat
    OBVIOUS
  <2>3. step' = [step EXCEPT ![t] = "query"] /\ stage' = [stage EXCEPT ![t] = 2]
        /\ UNCHANGED returned
    BY <2>1, <2>2, Moves
  <2> QED
    BY <2>1, <2>3 DEF Touches
<1>7. CASE Readers(t)
  <2>1. Touches(t) /\ step[t] = "use" /\ UNCHANGED <<call, number, begun>>
    BY <1>7, ReadersStep
  <2>2. step'[t] # "idle"
    BY <2>1 DEF Touches
  <2> QED
    BY <2>1, <2>2
<1> QED
  BY <1>2, <1>3, <1>4, <1>5, <1>6, <1>7 DEF Statement

\* Every step is a new or a lost connection, the beginning or the end of a call, or a statement.
LEMMA Kinds ==
    DatabaseNext => \/ Connect \/ ConnectionLost
                    \/ \E t \in Threads : Begin(t) \/ Finish(t) \/ Statement(t)
  BY DEF DatabaseNext, Steps, Statement, Readers

\* A call keeps away from the variables of the others.
LEMMA OthersKept ==
    ASSUME CallsInv, NEW t \in Threads, Begin(t) \/ Finish(t) \/ Statement(t),
           NEW u \in Threads \ {t}
    PROVE  /\ call'[u] = call[u] /\ stage'[u] = stage[u] /\ step'[u] = step[u]
           /\ number'[u] = number[u] /\ local'[u] = local[u] /\ returned'[u] = returned[u]
<1> USE DEF CallsInv
<1>1. CASE Begin(t)
  BY <1>1 DEF Begin
<1>2. CASE Finish(t)
  BY <1>2 DEF Finish
<1>3. CASE Statement(t)
  BY <1>3, StatementStep DEF Touches
<1> QED
  BY <1>1, <1>2, <1>3

\* Calls have numbers of their own.
LEMMA CallsStep ==
    ASSUME CallsInv, [DatabaseNext]_vars PROVE CallsInv'
<1>1. CASE Connect \/ ConnectionLost
  BY <1>1 DEF Connect, ConnectionLost, localVars, callVars, CallsInv
<1>2. ASSUME NEW t \in Threads, Begin(t) PROVE CallsInv'
  <2> USE DEF CallsInv
  <2>1. begun' = begun + 1 /\ begun \in Nat /\ number'[t] = begun + 1 /\ call'[t] \in Calls
    BY <1>2 DEF Begin
  <2>2. /\ step' \in [Threads -> {"idle", "query", "store", "fetch", "use", "returned", "overrun"}]
        /\ stage' \in [Threads -> Nat] /\ number' \in [Threads -> Nat]
        /\ DOMAIN call' = Threads /\ DOMAIN local' = Threads /\ DOMAIN returned' = Threads
    BY <1>2, <2>1 DEF Begin
  <2>3. \A u \in Threads : step'[u] # "idle" => u = t \/ number'[u] \in 1 .. begun
    BY <1>2, OthersKept
  <2>4. \A u \in Threads : step'[u] # "idle" => call'[u] \in Calls
    BY <1>2, <2>1, OthersKept
  <2>5. \A u, v \in Threads :
           step'[u] # "idle" /\ step'[v] # "idle" /\ number'[u] = number'[v] => u = v
    BY <1>2, <2>1, <2>3, OthersKept
  <2> QED
    BY <2>1, <2>2, <2>3, <2>4, <2>5
<1>3. ASSUME NEW t \in Threads, Finish(t) PROVE CallsInv'
  <2> USE DEF CallsInv
  <2>1. /\ step' \in [Threads -> {"idle", "query", "store", "fetch", "use", "returned", "overrun"}]
        /\ stage' \in [Threads -> Nat] /\ number' \in [Threads -> Nat] /\ begun' = begun
        /\ DOMAIN call' = Threads /\ DOMAIN local' = Threads /\ DOMAIN returned' = Threads
        /\ step'[t] = "idle"
    BY <1>3 DEF Finish
  <2> QED
    BY <1>3, <2>1, OthersKept
<1>4. ASSUME NEW t \in Threads, Statement(t) PROVE CallsInv'
  <2>1. /\ Touches(t) /\ UNCHANGED <<call, number, begun>>
        /\ step[t] # "idle"
    BY <1>4, StatementStep
  <2> QED
    BY <2>1 DEF Touches, CallsInv
<1>5. CASE UNCHANGED vars
  BY <1>5 DEF vars, localVars, callVars, CallsInv
<1> QED
  BY <1>1, <1>2, <1>3, <1>4, <1>5, Kinds

-----------------------------------------------------------------------------
(***************************************************************************)
(* The tables.                                                             *)
(***************************************************************************)

\* The two statements that insert scores.
Inserts(t) == /\ call[t].op = "scores" /\ step[t] = "query" /\ step'[t] = "store"
              /\ UNCHANGED <<stage, local>>

AddsGame(t) ==
    /\ Inserts(t) /\ stage[t] = 2 /\ UNCHANGED participants
    /\ \A g \in partides : g.id # local[t]
    /\ \E w : partides' = partides \cup {[id |-> local[t], winner |-> w, by |-> number[t]]}

AddsPlayer(t) ==
    /\ Inserts(t) /\ stage[t] > 2 /\ UNCHANGED partides
    /\ \E g \in partides : g.id = local[t]
    /\ participants' = participants \cup {[player |-> PlayerOf(t), game |-> local[t],
                                           by |-> number[t]]}

\* A statement that inserts scores inserts the game or the next player.
LEMMA ScoresWritten ==
    ASSUME CallsInv, NEW t \in Threads, Query(t), Writes(t), call[t].op = "scores"
    PROVE  AddsGame(t) \/ AddsPlayer(t)
<1>1. Write(t) /\ To(t, "store") /\ ~Violates(t) /\ step[t] = "query" /\ UNCHANGED local
  BY DEF Query, Fails, localVars
<1>2. Inserts(t) /\ stage[t] \in Nat /\ stage[t] >= 2
  BY <1>1, Moves DEF CallsInv, Inserts, Writes
<1>3. CASE stage[t] = 2
  BY <1>1, <1>2, <1>3 DEF Write, Violates, AddsGame
<1>4. CASE stage[t] # 2
  BY <1>1, <1>2, <1>4 DEF Write, Violates, AddsPlayer
<1> QED
  BY <1>3, <1>4

\* No other statement changes games or participants.
LEMMA TablesChange ==
    ASSUME CallsInv, NEW t \in Threads, Statement(t)
    PROVE  AddsGame(t) \/ AddsPlayer(t) \/ UNCHANGED <<partides, participants>>
<1>1. CASE QueryFailed(t) \/ Store(t) \/ Fetch(t) \/ BBDD_add_game_scores(t)
  BY <1>1 DEF QueryFailed, Store, Fetch, BBDD_add_game_scores, Keeps, tableVars
<1>2. CASE Readers(t)
  BY <1>2, ReadersStep
<1>3. CASE Query(t)
  <2>1. CASE ~Writes(t)
    BY <1>3, <2>1 DEF Query, tableVars
  <2>2. CASE Writes(t) /\ call[t].op # "scores"
    BY <1>3, <2>2 DEF Query, Write
  <2>3. CASE Writes(t) /\ call[t].op = "scores"
    BY <1>3, <2>3, ScoresWritten
  <2> QED
    BY <2>1, <2>2, <2>3
<1> QED
  BY <1>1, <1>2, <1>3 DEF Statement

\* A call adds to its own rows.
LEMMA RowsOfOthers ==
    ASSUME CallsInv, NEW t \in Threads, Statement(t), NEW n, n # number[t]
    PROVE  GamesBy(n)' = GamesBy(n) /\ InsertedBy(n)' = InsertedBy(n)
<1>1. CASE AddsGame(t)
  BY <1>1 DEF AddsGame, GamesBy, InsertedBy
<1>2. CASE AddsPlayer(t)
  <2> DEFINE r == [player |-> PlayerOf(t), game |-> local[t], by |-> number[t]]
  <2>1. participants' = participants \cup {r} /\ r.by # n
    BY <1>2 DEF AddsPlayer
  <2> HIDE DEF r
  <2>2. {q \in participants' : q.by = n} = {q \in participants : q.by = n}
    BY <2>1
  <2> QED
    BY <1>2, <2>2 DEF AddsPlayer, GamesBy, InsertedBy
<1>3. CASE UNCHANGED <<partides, participants>>
  BY <1>3 DEF GamesBy, InsertedBy
<1> QED
  BY <1>1, <1>2, <1>3, TablesChange

\* Keys of games stay unique, and a participant is inserted into the game of its call.
LEMMA TablesStep ==
    ASSUME HandlerInv, [DatabaseNext]_vars PROVE TablesInv'
<1> USE DEF HandlerInv
<1>1. ASSUME UNCHANGED <<partides, participants>>, begun' = begun \/ begun' = begun + 1
      PROVE  TablesInv'
  <2>1. begun \in Nat
    BY DEF CallsInv
  <2> QED
    BY <1>1, <2>1 DEF TablesInv
<1>2. CASE Connect \/ ConnectionLost
  BY <1>1, <1>2 DEF Connect, ConnectionLost, tableVars, callVars
<1>3. ASSUME NEW t \in Threads, Begin(t) \/ Finish(t) PROVE TablesInv'
  BY <1>1, <1>3 DEF Begin, Finish, tableVars
<1>4. ASSUME NEW t \in Threads, Statement(t) PROVE TablesInv'
  <2>1. begun' = begun /\ begun \in Nat /\ number[t] \in 1 .. begun /\ step[t] # "idle"
    BY <1>4, StatementStep DEF CallsInv
  <2>2. CASE AddsGame(t)
    BY <2>1, <2>2 DEF AddsGame, TablesInv
  <2>3. CASE AddsPlayer(t)
    <3> DEFINE r == [player |-> PlayerOf(t), game |-> local[t], by |-> number[t]]
    <3>1. participants' = participants \cup {r} /\ r.game = local[t] /\ r.by = number[t]
      BY <2>3 DEF AddsPlayer
    <3> HIDE DEF r
    <3>2. Scoring(t) /\ Inserted(t) >= 0
      BY <2>1, <2>3 DEF AddsPlayer, Inserts, Scoring, Inserted, Stored, CallsInv
    <3>3. \E g \in partides : g.id = local[t] /\ g.by = number[t]
      BY <3>2 DEF ScoresInv, GameInv, GamesBy
    <3> QED
      BY <2>1, <2>3, <3>1, <3>3 DEF AddsPlayer, TablesInv
  <2> QED
    BY <1>1, <1>4, <2>1, <2>2, <2>3, TablesChange
<1>5. CASE UNCHANGED vars
  BY <1>1, <1>5 DEF vars, tableVars, callVars
<1> QED
  BY <1>2, <1>3, <1>4, <1>5, Kinds

-----------------------------------------------------------------------------
(***************************************************************************)
(* One call of BBDD_add_game_scores.                                       *)
(***************************************************************************)

\* Whatever happens elsewhere, a call that does nothing keeps what it has inserted.
LEMMA ScoresKept ==
    ASSUME NEW t, ScoresInv(t),
           call'[t] = call[t], stage'[t] = stage[t], step'[t] = step[t],
           number'[t] = number[t], local'[t] = local[t], returned'[t] = returned[t],
           GamesBy(number[t])' = GamesBy(number[t]),
           InsertedBy(number[t])' = InsertedBy(number[t])
    PROVE  ScoresInv(t)'
<1>1. Inserted(t)' = Inserted(t) /\ PlayersUpTo(t, Inserted(t))' = PlayersUpTo(t, Inserted(t))
  BY DEF Inserted, Stored, PlayersUpTo
<1> QED
  BY <1>1 DEF ScoresInv, StageInv, GameInv

\* How a statement moves the call on: what it has inserted grows by one exactly when it
\* inserts.
LEMMA ScoresMove ==
    ASSUME CallsInv, NEW t \in Threads, Statement(t), Scoring(t), StageInv(t)
    PROVE  /\ StageInv(t)'
           /\ AddsGame(t) \/ AddsPlayer(t) => Inserted(t)' = Inserted(t) + 1
           /\ ~(AddsGame(t) \/ AddsPlayer(t)) =>
                 \/ Inserted(t)' = Inserted(t) /\ local'[t] = local[t]
                 \/ Inserted(t)' < 0 /\ Inserted(t) < 0
<1> USE DEF CallsInv, Scoring, StageInv
<1>1. stage[t] \in Nat /\ UNCHANGED call
  BY StatementStep
<1>2. CASE QueryFailed(t)
  <2>1. /\ step' = [step EXCEPT ![t] = "returned"] /\ UNCHANGED <<stage, local>>
        /\ returned' = [returned EXCEPT ![t] = -1] /\ step[t] = "query"
    BY <1>2, Moves DEF QueryFailed, localVars
  <2> QED
    BY <1>1, <2>1 DEF Inserted, Stored, AddsGame, AddsPlayer, Inserts
<1>3. CASE Query(t)
  <2>1. /\ step' = [step EXCEPT ![t] = "store"] /\ UNCHANGED <<stage, local, returned>>
        /\ step[t] = "query"
    BY <1>3, Moves DEF Query, localVars
  <2>2. ~Writes(t) => stage[t] = 1
    BY <1>1 DEF Writes
  <2>3. Scoring(t) /\ call[t].op = "scores" /\ call'[t].op = "scores"
    BY <1>1
  <2>4. CASE ~Writes(t)
    <3>1. Inserted(t) = 1 - 3 /\ Inserted(t)' = 1 - 2
      BY <2>1, <2>2, <2>4 DEF Inserted, Stored
    <3> QED
      BY <1>1, <2>1, <2>2, <2>4, <3>1 DEF AddsGame, AddsPlayer
  <2>5. CASE Writes(t)
    <3>1. Inserted(t)' = Inserted(t) + 1
      BY <1>1, <2>1 DEF Inserted, Stored
    <3>2. AddsGame(t) \/ AddsPlayer(t)
      BY <1>3, <2>3, <2>5, ScoresWritten
    <3>3. StageInv(t)'
      BY <1>1, <2>1
    <3> QED
      BY <3>1, <3>2, <3>3
  <2> QED
    BY <2>4, <2>5
<1>4. CASE Store(t)
  <2>1. step[t] = "store" /\ call[t].op = "scores" /\ UNCHANGED local
    BY <1>4 DEF Store, localVars
  <2>2. ~(AddsGame(t) \/ AddsPlayer(t)) /\ Inserted(t) = stage[t] - 2
    BY <2>1 DEF AddsGame, AddsPlayer, Inserts, Inserted, Stored
  <2>3. CASE ~Writes(t)
    <3>1. stage[t] = 1 /\ step' = [step EXCEPT ![t] = "fetch"] /\ UNCHANGED stage
      BY <1>1, <1>4, <2>1, <2>3, Moves DEF Store, Writes
    <3> QED
      BY <1>1, <2>2, <3>1 DEF Inserted, Stored
  <2>4. CASE Writes(t) /\ stage[t] = Len(call[t].players) + 2
    <3>1. Return(t, 0)
      BY <1>4, <2>1, <2>4 DEF Store
    <3>2. /\ step' = [step EXCEPT ![t] = "returned"] /\ UNCHANGED stage
          /\ returned' = [returned EXCEPT ![t] = 0]
      BY <3>1 DEF Return
    <3> QED
      BY <1>1, <2>1, <2>2, <2>4, <3>2 DEF Inserted, Stored
  <2>5. CASE Writes(t) /\ stage[t] # Len(call[t].players) + 2
    <3>1. ToStage(t, stage[t] + 1)
      BY <1>4, <2>1, <2>5 DEF Store
    <3>2. step' = [step EXCEPT ![t] = "query"] /\ stage' = [stage EXCEPT ![t] = stage[t] + 1]
      BY <3>1 DEF ToStage
    <3>3. Inserted(t)' = stage[t] + 1 - 3
      BY <1>1, <3>2 DEF Inserted, Stored
    <3>4. step'[t] = "query" /\ stage'[t] = stage[t] + 1
      BY <3>2
    <3>5. Len(call[t].players) \in Nat /\ stage[t] \in 1 .. Len(call[t].players) + 1
      <4>1. call[t].players \in Seq(Nat)
        BY <2>1, CallFields
      <4> QED
        BY <2>5, <4>1
    <3>6. StageInv(t)'
      BY <1>1, <3>4, <3>5
    <3> QED
      BY <1>1, <2>1, <2>2, <3>3, <3>6
  <2> QED
    BY <2>3, <2>4, <2>5
<1>5. CASE Fetch(t)
  <2>1. step' = [step EXCEPT ![t] = "use"] /\ UNCHANGED <<stage, local>> /\ step[t] = "fetch"
    BY <1>5, Moves DEF Fetch, localVars
  <2> QED
    BY <1>1, <2>1 DEF Inserted, Stored, AddsGame, AddsPlayer, Inserts
<1>6. CASE BBDD_add_game_scores(t)
  <2>1. /\ step' = [step EXCEPT ![t] = "query"] /\ stage' = [stage EXCEPT ![t] = 2]
        /\ step[t] = "use"
    BY <1>6, Moves DEF BBDD_add_game_scores, Uses
  <2>2. Len(call[t].players) \in Nat
    BY DatabaseAssumption
  <2> QED
    BY <1>1, <2>1, <2>2 DEF Inserted, Stored, AddsGame, AddsPlayer, Inserts
<1> QED
  BY <1>2, <1>3, <1>4, <1>5, <1>6, ReadersStep DEF Statement

\* Before the first player there is none.
LEMMA NoPlayers == ASSUME NEW t, NEW k \in Int, k < 1 PROVE PlayersUpTo(t, k) = {}
  BY DEF PlayersUpTo

\* A new call has a number without rows.
LEMMA ScoresBegin ==
    ASSUME HandlerInv, NEW t \in Threads, Begin(t), Scoring(t)'
    PROVE  ScoresInv(t)'
<1>1. /\ begun \in Nat /\ number'[t] = begun + 1 /\ stage'[t] = 1 /\ step'[t] = "query"
      /\ UNCHANGED <<partides, participants>> /\ call'[t] \in Calls
  BY DEF HandlerInv, CallsInv, Begin, tableVars
<1>2. \A g \in partides' : g.by # number'[t]
  BY <1>1 DEF HandlerInv, TablesInv
<1>3. \A p \in participants' : p.by # number'[t]
  BY <1>1, <1>2 DEF HandlerInv, TablesInv
<1>4. (GamesBy(number[t]) = {})' /\ (InsertedBy(number[t]) = {})'
  BY <1>2, <1>3 DEF GamesBy, InsertedBy
<1>5. Inserted(t)' = 1 - 3
  BY <1>1 DEF Inserted, Stored
<1>6. Len(call'[t].players) \in Nat
  BY <1>1, DatabaseAssumption DEF Scoring
<1>7. PlayersUpTo(t, Inserted(t))' = {}
  BY <1>5 DEF PlayersUpTo
<1>8. StageInv(t)'
  BY <1>1, <1>6 DEF StageInv
<1>9. GameInv(t)'
  BY <1>4, <1>5 DEF GameInv
<1> QED
  BY <1>4, <1>7, <1>8, <1>9 DEF ScoresInv

\* A statement inserts the game, the next player, or nothing.
LEMMA ScoresOwn ==
    ASSUME HandlerInv, NEW t \in Threads, Statement(t), Scoring(t)
    PROVE  ScoresInv(t)'
<1> DEFINE k == Inserted(t)
<1>1. ScoresInv(t) /\ CallsInv /\ TablesInv
  BY DEF HandlerInv
<1>2. /\ UNCHANGED <<call, number>> /\ StageInv(t)'
      /\ AddsGame(t) \/ AddsPlayer(t) => Inserted(t)' = k + 1
      /\ ~(AddsGame(t) \/ AddsPlayer(t)) => \/ Inserted(t)' = k /\ local'[t] = local[t]
                                            \/ Inserted(t)' < 0 /\ k < 0
  BY <1>1, StatementStep, ScoresMove DEF ScoresInv
<1>3. k \in Int /\ Inserted(t)' \in Int
  BY <1>1, <1>2 DEF Inserted, StageInv, ScoresInv, CallsInv
<1>4. CASE AddsGame(t)
  <2>1. k = -1 /\ Inserted(t)' = 0 /\ local' = local /\ UNCHANGED participants
    BY <1>2, <1>4 DEF AddsGame, Inserts, Inserted, Stored
  <2>2. GamesBy(number[t]) = {} /\ InsertedBy(number[t]) = {}
    BY <1>1, <2>1, NoPlayers DEF ScoresInv, GameInv
  <2>3. (GamesBy(number[t]) # {})' /\ (\A g \in GamesBy(number[t]) : g.id = local[t])'
    <3>1. PICK w : partides' = partides \cup {[id |-> local[t], winner |-> w, by |-> number[t]]}
      BY <1>4 DEF AddsGame
    <3> DEFINE r == [id |-> local[t], winner |-> w, by |-> number[t]]
    <3>2. partides' = partides \cup {r} /\ r.by = number[t] /\ r.id = local[t]
      BY <3>1
    <3> HIDE DEF r
    <3>3. {g \in partides' : g.by = number'[t]} = {r}
      BY <1>2, <2>2, <3>2 DEF GamesBy
    <3> QED
      BY <2>1, <3>2, <3>3 DEF GamesBy
  <2>4. InsertedBy(number[t])' = InsertedBy(number[t]) /\ PlayersUpTo(t, Inserted(t))' = {}
    BY <1>2, <2>1 DEF InsertedBy, PlayersUpTo
  <2> QED
    BY <1>2, <2>1, <2>2, <2>3, <2>4 DEF ScoresInv, GameInv
<1>5. CASE AddsPlayer(t)
  <2>1. k = stage[t] - 3 /\ k >= 0 /\ local' = local /\ UNCHANGED partides
    BY <1>1, <1>5 DEF AddsPlayer, Inserts, Inserted, Stored, CallsInv
  <2>2. InsertedBy(number[t])' = InsertedBy(number[t]) \cup {PlayerOf(t)}
    <3> DEFINE r == [player |-> PlayerOf(t), game |-> local[t], by |-> number[t]]
    <3>1. participants' = participants \cup {r} /\ r.by = number[t] /\ r.player = PlayerOf(t)
      BY <1>5 DEF AddsPlayer
    <3> HIDE DEF r
    <3>2. {q \in participants' : q.by = number'[t]}
             = {q \in participants : q.by = number[t]} \cup {r}
      BY <1>2, <3>1
    <3> QED
      BY <3>1, <3>2 DEF InsertedBy
  <2>3. PlayersUpTo(t, Inserted(t))' = PlayersUpTo(t, k) \cup {PlayerOf(t)}
    <3> HIDE DEF k
    <3>1. stage[t] - 2 = k + 1
      BY <1>1, <2>1 DEF CallsInv
    <3>2. 1 .. k + 1 = 1 .. k \cup {k + 1}
      BY <1>3, <2>1
    <3> QED
      BY <1>2, <1>5, <3>1, <3>2 DEF PlayersUpTo, PlayerOf
  <2>4. GameInv(t)'
    BY <1>1, <1>2, <1>3, <1>5, <2>1 DEF ScoresInv, GameInv, GamesBy
  <2> QED
    BY <1>1, <1>2, <2>2, <2>3, <2>4 DEF ScoresInv
<1>6. CASE ~(AddsGame(t) \/ AddsPlayer(t))
  <2>1. /\ GamesBy(number[t])' = GamesBy(number[t])
        /\ InsertedBy(number[t])' = InsertedBy(number[t])
    BY <1>1, <1>2, <1>6, TablesChange DEF GamesBy, InsertedBy
  <2>2. CASE Inserted(t)' = k /\ local'[t] = local[t]
    BY <1>1, <1>2, <2>1, <2>2 DEF ScoresInv, GameInv, PlayersUpTo
  <2>3. CASE Inserted(t)' < 0 /\ k < 0
    <3>1. GamesBy(number[t]) = {} /\ InsertedBy(number[t]) = {}
      BY <1>1, <1>3, <2>3, NoPlayers DEF ScoresInv, GameInv
    <3>2. PlayersUpTo(t, Inserted(t))' = {}
      BY <1>3, <2>3 DEF PlayersUpTo
    <3>3. ~(Inserted(t)' >= 0)
      BY <1>3, <2>3
    <3> QED
      BY <1>2, <2>1, <2>3, <3>1, <3>2, <3>3 DEF ScoresInv, GameInv
  <2> QED
    BY <1>2, <1>6, <2>2, <2>3
<1> QED
  BY <1>4, <1>5, <1>6

\* No step disturbs a call that inserts scores.
LEMMA ScoresStep ==
    ASSUME HandlerInv, [DatabaseNext]_vars, NEW u \in Threads, Scoring(u)'
    PROVE  ScoresInv(u)'
<1>1. CASE Connect \/ ConnectionLost \/ UNCHANGED vars
  <2>1. UNCHANGED <<call, stage, step, number, local, returned, partides, participants>>
    BY <1>1 DEF Connect, ConnectionLost, vars, tableVars, localVars, callVars
  <2>2. ScoresInv(u)
    BY <2>1 DEF HandlerInv, Scoring
  <2> QED
    BY <2>1, <2>2, ScoresKept DEF GamesBy, InsertedBy
<1>2. ASSUME NEW t \in Threads, t # u, Begin(t) \/ Finish(t) \/ Statement(t)
      PROVE  ScoresInv(u)'
  <2>1. /\ call'[u] = call[u] /\ stage'[u] = stage[u] /\ step'[u] = step[u]
        /\ number'[u] = number[u] /\ local'[u] = local[u] /\ returned'[u] = returned[u]
    BY <1>2, OthersKept DEF HandlerInv
  <2>2. ScoresInv(u) /\ step[u] # "idle"
    BY <2>1 DEF HandlerInv, Scoring
  <2>3. CASE Begin(t) \/ Finish(t)
    BY <2>1, <2>2, <2>3, ScoresKept DEF Begin, Finish, tableVars, GamesBy, InsertedBy
  <2>4. CASE Statement(t)
    <3>1. number[u] # number[t]
      BY <1>2, <2>2, <2>4, StatementStep DEF HandlerInv, CallsInv
    <3>2. /\ {g \in partides' : g.by = number[u]} = {g \in partides : g.by = number[u]}
          /\ {p.player : p \in {q \in participants' : q.by = number[u]}}
               = {p.player : p \in {q \in participants : q.by = number[u]}}
      BY <2>4, <3>1, RowsOfOthers DEF GamesBy, InsertedBy, HandlerInv
    <3>3. /\ GamesBy(number[u])' = GamesBy(number[u])
          /\ InsertedBy(number[u])' = InsertedBy(number[u])
      BY <2>1, <3>2 DEF GamesBy, InsertedBy
    <3> QED
      BY <2>1, <2>2, <3>3, ScoresKept
  <2> QED
    BY <1>2, <2>3, <2>4
<1>3. CASE Begin(u)
  BY <1>3, ScoresBegin
<1>4. CASE Finish(u)
  BY <1>4 DEF Finish, Scoring, HandlerInv, CallsInv
<1>5. CASE Statement(u)
  BY <1>5, ScoresOwn, StatementStep DEF Scoring, HandlerInv
<1> QED
  BY <1>1, <1>2, <1>3, <1>4, <1>5, Kinds

-----------------------------------------------------------------------------
(***************************************************************************)
(* The theorems.                                                           *)
(***************************************************************************)

\* No call runs at the start, and the game of crearBBDD.sql was inserted by none.
LEMMA HandlerInit == DatabaseInit => HandlerInv
<1> SUFFICES ASSUME DatabaseInit PROVE HandlerInv
  OBVIOUS
<1>1. CallsInv /\ \A t \in Threads : ~Scoring(t)
  BY DEF DatabaseInit, CallsInv, Scoring
<1>2. TablesInv
  BY DEF DatabaseInit, TablesInv
<1> QED
  BY <1>1, <1>2 DEF HandlerInv

\* The invariant holds.
LEMMA HandlerSafe == DatabaseSpec => []HandlerInv
<1>1. HandlerInv /\ [DatabaseNext]_vars => HandlerInv'
  BY CallsStep, TablesStep, ScoresStep DEF HandlerInv
<1> QED
  BY <1>1, HandlerInit, PTL DEF DatabaseSpec

\* However many calls interleave, read each other's rows and fail, the participants of a
\* game were inserted by the call that inserted the game.
THEOREM ScoresApart == DatabaseSpec => []ScoresNotMixed
<1>1. HandlerInv => ScoresNotMixed
  BY DEF HandlerInv, TablesInv, ScoresNotMixed
<1> QED
  BY <1>1, HandlerSafe, PTL

\* A call that answers 0 has inserted its game and all of its players, and nobody else
\* has added to that game.
THEOREM ScoresComplete == DatabaseSpec => []StoredIsComplete
<1>1. ASSUME HandlerInv PROVE StoredIsComplete
  <2> SUFFICES ASSUME NEW t \in Threads,
                      step[t] = "returned", call[t].op = "scores", returned[t] = 0
               PROVE  \E g \in partides :
                         /\ g.by = number[t]
                         /\ {p.player : p \in {q \in participants : q.game = g.id}}
                              = Range(call[t].players)
    BY DEF StoredIsComplete
  <2>1. /\ ScoresInv(t) /\ Scoring(t) /\ TablesInv /\ call[t] \in Calls
        /\ Len(call[t].players) \in Nat /\ DOMAIN call[t].players = 1 .. Len(call[t].players)
    BY <1>1, DatabaseAssumption DEF HandlerInv, CallsInv, Scoring
  <2>2. Inserted(t) = Len(call[t].players) /\ Inserted(t) >= 0
    BY <2>1 DEF ScoresInv, StageInv, Inserted, Stored
  <2>3. PICK g \in partides : g.by = number[t]
    BY <2>1, <2>2 DEF ScoresInv, GameInv, GamesBy
  <2>4. {q \in participants : q.game = g.id} = {q \in participants : q.by = number[t]}
    <3>1. \A q \in participants : q.game = g.id => q.by = number[t]
      BY <2>1, <2>3 DEF TablesInv
    <3>2. \A q \in participants : q.by = number[t] => q.game = g.id
      <4>1. \A h \in partides : h.by = number[t] => h.id = local[t]
        BY <2>1, <2>2 DEF ScoresInv, GameInv, GamesBy
      <4> QED
        BY <2>1, <2>3, <4>1 DEF TablesInv
    <3> QED
      BY <3>1, <3>2
  <2>5. InsertedBy(number[t]) = Range(call[t].players)
    BY <2>1, <2>2 DEF ScoresInv, PlayersUpTo, Range
  <2> QED
    BY <2>3, <2>4, <2>5 DEF InsertedBy
<1> QED
  BY <1>1, HandlerSafe, PTL


-----------------------------------------------------------------------------
(***************************************************************************)
(* The types.                                                              *)
(***************************************************************************)

\* The tables are finite, there are always users and games, and participants are users.
UserRows   == [id : Nat, nom : Names, actiu : BOOLEAN]
GameRows   == [id : Nat, winner : Int, by : Nat]
PlayerRows == [player : Nat, game : Nat, by : Nat]
StoredInv ==
    /\ jugadors \subseteq UserRows /\ IsFiniteSet(jugadors) /\ jugadors # {}
    /\ \A u, v \in jugadors : u.id = v.id => u = v
    /\ partides \subseteq GameRows /\ IsFiniteSet(partides) /\ partides # {}
    /\ participants \subseteq PlayerRows /\ IsFiniteSet(participants)
    /\ \A p \in participants : p.player \in Ids

ConnType ==
    /\ ready \in BOOLEAN
    /\ pending \in Seq(Seq(Rows)) /\ Len(pending) <= 1
    /\ result \in Seq(Rows) /\ row \in Seq(Rows) /\ Len(row) <= 1

AnswersType ==
    /\ call \in [Threads -> Calls \cup {NULL}] /\ number \in [Threads -> 0 .. MaxCalls]
    /\ local \in [Threads -> Nat] /\ got \in [Threads -> Seq(Nat)]
    /\ returned \in [Threads -> Int] /\ begun \in 0 .. MaxCalls
    /\ alone \in [Threads -> BOOLEAN]

TypesInv == HandlerInv /\ StoredInv /\ ConnType /\ AnswersType

\* The values of a function with a finite domain are finitely many.
LEMMA ValuesFinite ==
    ASSUME NEW f, IsFiniteSet(DOMAIN f), f = [x \in DOMAIN f |-> f[x]]
    PROVE  IsFiniteSet({f[x] : x \in DOMAIN f})
<1> DEFINE S == DOMAIN f
           T == {f[x] : x \in S}
<1>1. f \in Surjection(S, T)
  <2>1. f \in [S -> T]
    OBVIOUS
  <2>2. \A y \in T : \E x \in S : f[x] = y
    OBVIOUS
  <2> QED
    BY <2>1, <2>2 DEF Surjection
<1> HIDE DEF S, T
<1>2. IsFiniteSet(S)
  BY DEF S
<1> QED
  BY <1>1, <1>2, FS_Surjection DEF S, T

\* What the statements select are finite sets of numbers.
LEMMA IdsFinite ==
    ASSUME StoredInv
    PROVE  /\ FiniteNumbers(Ids) /\ Ids # {}
           /\ FiniteNumbers({g.id : g \in partides}) /\ {g.id : g \in partides} # {}
<1> USE DEF StoredInv
<1>1. IsFiniteSet(Ids)
  <2> DEFINE f == [u \in jugadors |-> u.id]
  <2>1. DOMAIN f = jugadors /\ Ids = {f[u] : u \in DOMAIN f} /\ f = [x \in DOMAIN f |-> f[x]]
    BY DEF Ids
  <2> HIDE DEF f
  <2> QED
    BY <2>1, ValuesFinite
<1>2. IsFiniteSet({g.id : g \in partides})
  <2> DEFINE f == [g \in partides |-> g.id]
  <2>1. /\ DOMAIN f = partides /\ f = [x \in DOMAIN f |-> f[x]]
        /\ {g.id : g \in partides} = {f[x] : x \in DOMAIN f}
    OBVIOUS
  <2> HIDE DEF f
  <2> QED
    BY <2>1, ValuesFinite
<1>3. Ids \subseteq Nat /\ Ids # {}
  BY DEF Ids, UserRows
<1>4. {g.id : g \in partides} \subseteq Nat /\ {g.id : g \in partides} # {}
  BY DEF GameRows
<1> QED
  BY <1>1, <1>2, <1>3, <1>4 DEF FiniteNumbers

\* The users with a name, and those with the password too.
LEMMA UsersFinite ==
    ASSUME StoredInv, NEW c
    PROVE  /\ FiniteNumbers(Named(c)) /\ FiniteNumbers(Matching(c)) /\ FiniteNumbers(CanLogIn(c))
           /\ Named(c) \subseteq Ids
<1>1. FiniteNumbers(Ids)
  BY IdsFinite
<1>2. Named(c) \in SUBSET Ids /\ Matching(c) \in SUBSET Ids /\ CanLogIn(c) \in SUBSET Ids
  BY DEF Named, Ids, Matching, CanLogIn
<1>3. \A S \in SUBSET Ids : IsFiniteSet(S)
  BY <1>1, FS_Subset DEF FiniteNumbers
<1> QED
  BY <1>1, <1>2, <1>3 DEF FiniteNumbers

\* The games of some users, and how often they took part.
LEMMA GamesFinite ==
    ASSUME StoredInv, NEW ids
    PROVE  /\ IsFiniteSet(Played(ids)) /\ Cardinality(Played(ids)) \in Nat
           /\ FiniteNumbers(GamesOf(ids))
<1> USE DEF StoredInv
<1>1. Played(ids) \in SUBSET participants
  BY DEF Played
<1>2. IsFiniteSet(Played(ids)) /\ Cardinality(Played(ids)) \in Nat
  BY <1>1, FS_Subset, FS_CardinalityType
<1>3. GamesOf(ids) \subseteq Nat
  BY DEF GamesOf, Played, PlayerRows
<1>4. IsFiniteSet(GamesOf(ids))
  <2> DEFINE f == [p \in Played(ids) |-> p.game]
  <2>1. /\ DOMAIN f = Played(ids) /\ f = [x \in DOMAIN f |-> f[x]]
        /\ GamesOf(ids) = {f[p] : p \in DOMAIN f}
    BY DEF GamesOf
  <2> HIDE DEF f
  <2> QED
    BY <1>2, <2>1, ValuesFinite
<1> QED
  BY <1>2, <1>3, <1>4 DEF FiniteNumbers

\* The players and the winners of some games are users.
LEMMA PlayersFinite ==
    ASSUME StoredInv, NEW games
    PROVE  /\ FiniteNumbers(PlayersOf(games)) /\ FiniteNumbers(Winners(games))
           /\ FiniteNumbers(Ranked)
<1>1. FiniteNumbers(Ids)
  BY IdsFinite
<1>2. PlayersOf(games) \in SUBSET Ids /\ Winners(games) \in SUBSET Ids /\ Ranked \in SUBSET Ids
  BY DEF PlayersOf, Winners, Ranked, StoredInv
<1>3. \A S \in SUBSET Ids : IsFiniteSet(S)
  BY <1>1, FS_Subset DEF FiniteNumbers
<1> QED
  BY <1>1, <1>2, <1>3 DEF FiniteNumbers

\* The opponents of a user.
LEMMA OpponentsFinite ==
    ASSUME StoredInv, NEW c PROVE FiniteNumbers(Opponents(c))
<1> DEFINE P == PlayersOf(GamesOf({c.id}))
<1>1. FiniteNumbers(P)
  BY PlayersFinite
<1>2. Opponents(c) \in SUBSET P
  BY DEF Opponents
<1> HIDE DEF P
<1> QED
  BY <1>1, <1>2, FS_Subset DEF FiniteNumbers

\* The greatest number of a set.
LEMMA MaxIs ==
    ASSUME NEW S, FiniteNumbers(S), S # {}
    PROVE  Max(S) \in S /\ \A i \in S : i <= Max(S)
<1>1. \E m \in S : \A i \in S : m >= i
  <2>1. PICK m \in S : \A i \in S : i <= m
    BY Greatest
  <2> QED
    BY <2>1 DEF FiniteNumbers
<1>2. Max(S) \in S /\ \A i \in S : Max(S) >= i
  BY <1>1 DEF Max
<1> QED
  BY <1>2 DEF FiniteNumbers

\* The rows of a set of numbers.
LEMMA RowsOf ==
    ASSUME NEW S, FiniteNumbers(S)
    PROVE  /\ IdRows(S) \in Seq(Rows) /\ NameRows(S) \in Seq(Rows) /\ Cardinality(S) \in Nat
           /\ Len(IdRows(S)) = Cardinality(S) /\ Len(NameRows(S)) = Cardinality(S)
           /\ \A k \in 1 .. Cardinality(S) : /\ Ascending(S)[k] \in S
                                             /\ IdRows(S)[k] = IdRow(Ascending(S)[k])
                                             /\ NameRows(S)[k] = NameRow(Ascending(S)[k])
<1>1. Cardinality(S) \in Nat
  BY FS_CardinalityType DEF FiniteNumbers
<1>2. \A k \in 1 .. Cardinality(S) : Ascending(S)[k] \in S
  BY AscendingType
<1>3. \A n \in S : IdRow(n) \in Rows /\ NameRow(n) \in Rows
  BY DEF FiniteNumbers, IdRow, NameRow, Rows
<1> QED
  BY <1>1, <1>2, <1>3 DEF IdRows, NameRows

\* A row with one number.
LEMMA RowHere ==
    ASSUME NEW n \in Nat
    PROVE  <<IdRow(n)>> \in Seq(Rows) /\ atoi(IdRow(n)) = n /\ NameRow(n).key = n
  BY DEF IdRow, NameRow, Rows, atoi

\* What a SELECT finds has the type of rows.
LEMMA SelectedType ==
    ASSUME StoredInv, NEW t PROVE Selected(t) \in Seq(Rows)
<1> DEFINE c == call[t]
           games == {g.id : g \in partides}
<1>1. /\ IdRows(CanLogIn(c)) \in Seq(Rows) /\ IdRows(Named(c)) \in Seq(Rows)
      /\ IdRows(Matching(c)) \in Seq(Rows)
  BY UsersFinite, RowsOf
<1>2. <<IdRow(Max(Ids))>> \in Seq(Rows) /\ <<IdRow(Max(games))>> \in Seq(Rows)
  <2>1. Max(Ids) \in Nat /\ Max(games) \in Nat
    <3> HIDE DEF games
    <3>1. FiniteNumbers(Ids) /\ Ids # {} /\ FiniteNumbers(games) /\ games # {}
      BY IdsFinite DEF games
    <3>2. Max(Ids) \in Ids /\ Max(games) \in games
      BY <3>1, MaxIs
    <3> QED
      BY <3>1, <3>2 DEF FiniteNumbers
  <2> QED
    BY <2>1, RowHere
<1>3. <<IdRow(Cardinality(Played(Named(c))))>> \in Seq(Rows)
  BY GamesFinite, RowHere
<1>4. NameRows(Opponents(c)) \in Seq(Rows)
  BY OpponentsFinite, RowsOf
<1>5. \A ids : NameRows(GamesOf(ids)) \in Seq(Rows)
  BY GamesFinite, RowsOf
<1>6. /\ \A ids : NameRows(PlayersOf(ids)) \in Seq(Rows) /\ NameRows(Winners(ids)) \in Seq(Rows)
      /\ NameRows(Ranked) \in Seq(Rows)
  BY PlayersFinite, RowsOf
<1> QED
  BY <1>1, <1>2, <1>3, <1>4, <1>5, <1>6 DEF Selected

\* The three statements that write.
LEMMA WriteKeeps ==
    ASSUME TypesInv, NEW t \in Threads, Query(t), Writes(t)
    PROVE  StoredInv'
<1> DEFINE c == call[t]
<1>0. StoredInv /\ CallsInv /\ HandlerInv /\ AnswersType
  BY DEF TypesInv, HandlerInv
<1>1. Write(t) /\ ~Violates(t) /\ step[t] = "query"
  BY DEF Query, Fails
<1>2. c \in Calls /\ local[t] \in Nat /\ number[t] \in Nat /\ stage[t] \in Nat
  BY <1>0, <1>1 DEF CallsInv, AnswersType
<1>3. CASE c.op = "signup"
  <2> DEFINE r == [id |-> local[t], nom |-> c.nom, actiu |-> TRUE]
  <2>1. /\ jugadors' = jugadors \cup {r} /\ UNCHANGED <<partides, participants>>
        /\ \A u \in jugadors : u.id # local[t]
    BY <1>1, <1>3 DEF Write, Violates
  <2>2. r \in UserRows /\ r.id = local[t]
    BY <1>2, <1>3, CallFields DEF UserRows
  <2> HIDE DEF r
  <2>3. IsFiniteSet(jugadors') /\ jugadors' \subseteq UserRows /\ jugadors' # {}
    BY <1>0, <2>1, <2>2, FS_AddElement DEF StoredInv
  <2>4. Ids \subseteq Ids'
    BY <2>1 DEF Ids
  <2> QED
    BY <1>0, <2>1, <2>2, <2>3, <2>4 DEF StoredInv
<1>4. CASE c.op = "deregister"
  <2> DEFINE f == [u \in jugadors |-> IF u.id = local[t] THEN [u EXCEPT !.actiu = FALSE] ELSE u]
  <2>1. jugadors' = {f[u] : u \in DOMAIN f} /\ DOMAIN f = jugadors
        /\ f = [u \in DOMAIN f |-> f[u]] /\ UNCHANGED <<partides, participants>>
    BY <1>1, <1>4 DEF Write
  <2>2. \A u \in jugadors : f[u] \in UserRows /\ f[u].id = u.id
    BY <1>0 DEF StoredInv, UserRows
  <2> HIDE DEF f
  <2>3. IsFiniteSet(jugadors')
    BY <1>0, <2>1, ValuesFinite DEF StoredInv
  <2>4. Ids' = Ids
    BY <2>1, <2>2 DEF Ids
  <2>5. jugadors' \subseteq UserRows /\ jugadors' # {}
        /\ \A u, v \in jugadors' : u.id = v.id => u = v
    BY <1>0, <2>1, <2>2 DEF StoredInv
  <2> QED
    BY <1>0, <2>1, <2>3, <2>4, <2>5 DEF StoredInv
<1>5. CASE c.op = "scores" /\ stage[t] = 2
  <2> DEFINE r == [id |-> local[t], winner |-> c.winner, by |-> number[t]]
  <2>1. partides' = partides \cup {r} /\ UNCHANGED <<jugadors, participants>>
    BY <1>1, <1>5 DEF Write
  <2>2. r \in GameRows
    BY <1>2, <1>5, CallFields DEF GameRows
  <2> HIDE DEF r
  <2>3. IsFiniteSet(partides')
    BY <1>0, <2>1, FS_AddElement DEF StoredInv
  <2>4. Ids' = Ids
    BY <2>1 DEF Ids
  <2> QED
    BY <1>0, <2>1, <2>2, <2>3, <2>4 DEF StoredInv
<1>6. CASE c.op = "scores" /\ stage[t] > 2
  <2> DEFINE r == [player |-> PlayerOf(t), game |-> local[t], by |-> number[t]]
  <2>1. /\ participants' = participants \cup {r} /\ UNCHANGED <<jugadors, partides>>
        /\ \E u \in jugadors : u.id = PlayerOf(t)
    BY <1>1, <1>6 DEF Write, Violates
  <2>2. r \in PlayerRows /\ r.player \in Ids
    BY <1>0, <1>2, <2>1 DEF PlayerRows, StoredInv, UserRows, Ids
  <2> HIDE DEF r
  <2>3. IsFiniteSet(participants')
    BY <1>0, <2>1, FS_AddElement DEF StoredInv
  <2>4. Ids' = Ids
    BY <2>1 DEF Ids
  <2> QED
    BY <1>0, <2>1, <2>2, <2>3, <2>4 DEF StoredInv
<1> QED
  BY <1>2, <1>3, <1>4, <1>5, <1>6 DEF Writes

\* Only queries write.
LEMMA TablesWritten ==
    ASSUME DatabaseNext
    PROVE  (\E t \in Threads : Query(t) /\ Writes(t)) \/ UNCHANGED tableVars
<1>1. CASE Connect \/ ConnectionLost
  BY <1>1 DEF Connect, ConnectionLost
<1>2. ASSUME NEW t \in Threads, Query(t)
      PROVE  (\E u \in Threads : Query(u) /\ Writes(u)) \/ UNCHANGED tableVars
  BY <1>2 DEF Query
<1>3. ASSUME NEW t \in Threads, Begin(t) \/ Finish(t) \/ QueryFailed(t) \/ Store(t) \/ Fetch(t)
      PROVE  UNCHANGED tableVars
  BY <1>3 DEF Begin, Finish, QueryFailed, Store, Fetch
<1>4. ASSUME NEW t \in Threads, BBDD_add_game_scores(t) \/ Readers(t) PROVE UNCHANGED tableVars
  BY <1>4 DEF BBDD_add_game_scores, Readers, BBDD_check_login, BBDD_add_user, BBDD_ranking,
              BBDD_deregister_user, BBDD_find_characters, BBDD_opponentGameList, CopyRows, Keeps,
              BBDD_gameInTimeInterval, BBDD_time_played, BBDD_gameResultsWithOtherPlayers
<1> QED
  BY <1>1, <1>2, <1>3, <1>4, Kinds DEF Statement

\* The tables stay finite, with users, games and participants who are users.
LEMMA StoredStep ==
    ASSUME TypesInv, [DatabaseNext]_vars PROVE StoredInv'
<1>1. CASE UNCHANGED tableVars
  BY <1>1 DEF TypesInv, StoredInv, tableVars, Ids
<1> QED
  BY <1>1, TablesWritten, WriteKeeps DEF vars

\* The connection, its result and the row.
LEMMA ConnStep ==
    ASSUME TypesInv, [DatabaseNext]_vars PROVE ConnType'
<1>0. StoredInv /\ ConnType
  BY DEF TypesInv
<1>1. CASE UNCHANGED connVars
  BY <1>0, <1>1 DEF ConnType, connVars
<1>2. CASE Connect \/ ConnectionLost
  <2>1. ready' \in BOOLEAN /\ pending' = <<>> /\ UNCHANGED <<result, row>>
    BY <1>2 DEF Connect, ConnectionLost
  <2> QED
    BY <1>0, <2>1 DEF ConnType
<1>3. ASSUME NEW t \in Threads, Begin(t) \/ Finish(t) \/ QueryFailed(t) PROVE UNCHANGED connVars
  BY <1>3 DEF Begin, Finish, QueryFailed
<1>4. ASSUME NEW t \in Threads, Query(t) PROVE ConnType'
  <2>1. Selected(t) \in Seq(Rows)
    BY <1>0, SelectedType
  <2>2. pending' = pending \/ pending' = <<Selected(t)>>
    BY <1>4 DEF Query
  <2>3. \A rows \in Seq(Rows) : <<rows>> \in Seq(Seq(Rows)) /\ Len(<<rows>>) <= 1
    OBVIOUS
  <2>4. pending' \in Seq(Seq(Rows)) /\ Len(pending') <= 1
    BY <1>0, <2>1, <2>2, <2>3 DEF ConnType
  <2> QED
    BY <1>0, <1>4, <2>4 DEF ConnType, Query
<1>5. ASSUME NEW t \in Threads, Store(t) PROVE ConnType'
  BY <1>0, <1>5 DEF ConnType, Store
<1>6. ASSUME NEW t \in Threads, Fetch(t) PROVE ConnType'
  BY <1>0, <1>6 DEF ConnType, Fetch
<1>7. ASSUME NEW t \in Threads, BBDD_add_game_scores(t) \/ Readers(t) PROVE UNCHANGED connVars
  BY <1>7 DEF BBDD_add_game_scores, Readers, BBDD_check_login, BBDD_add_user, BBDD_ranking,
              BBDD_deregister_user, BBDD_find_characters, BBDD_opponentGameList, CopyRows, Keeps,
              BBDD_gameInTimeInterval, BBDD_time_played, BBDD_gameResultsWithOtherPlayers
<1> QED
  BY <1>1, <1>2, <1>3, <1>4, <1>5, <1>6, <1>7, Kinds DEF Statement, vars

\* The row in hand is a row.
LEMMA RowFields ==
    ASSUME ConnType, row # <<>>
    PROVE  row[1] \in Rows /\ row[1].key \in Nat /\ atoi(row[1]) \in Nat
<1>1. row[1] \in Rows
  BY DEF ConnType
<1> QED
  BY <1>1 DEF Rows, atoi

\* What a statement copies and answers are numbers.
Answers(t) ==
    /\ UNCHANGED local \/ \E v \in Nat : local' = [local EXCEPT ![t] = v]
    /\ got' \in [Threads -> Seq(Nat)]
    /\ UNCHANGED returned \/ \E v \in Int : returned' = [returned EXCEPT ![t] = v]

\* A statement leaves its call and its number alone.
LEMMA AnswersGiven ==
    ASSUME TypesInv, NEW t \in Threads, Statement(t)
    PROVE  Answers(t) /\ UNCHANGED callVars
<1>0. ConnType /\ AnswersType /\ CallsInv /\ stage[t] \in Nat
  BY DEF TypesInv, HandlerInv, CallsInv
<1>1. local[t] \in Nat /\ got \in [Threads -> Seq(Nat)] /\ 0 \in Nat /\ 0 \in Int /\ -1 \in Int
  BY <1>0 DEF AnswersType
<1>2. row # <<>> => row[1].key \in Nat /\ atoi(row[1]) \in Nat
  BY <1>0, RowFields
<1>3. CASE QueryFailed(t)
  <2>1. UNCHANGED <<local, got, callVars>>
    BY <1>3 DEF QueryFailed, localVars
  <2>2. \/ UNCHANGED returned
        \/ \E v \in {-1, 0, local[t]} : returned' = [returned EXCEPT ![t] = v]
    BY <1>3 DEF QueryFailed, To, Return
  <2>3. {-1, 0, local[t]} \subseteq Int
    BY <1>1
  <2> QED
    BY <1>1, <2>1, <2>2, <2>3 DEF Answers
<1>4. CASE Query(t)
  BY <1>1, <1>4 DEF Query, To, Return, localVars, Answers
<1>5. CASE Store(t) \/ Fetch(t)
  BY <1>1, <1>5 DEF Store, Fetch, To, ToStage, Return, localVars, Answers
<1>6. CASE BBDD_add_game_scores(t)
  <2>1. (IF row = <<>> THEN 0 ELSE atoi(row[1]) + 1) \in Nat
    BY <1>2
  <2> QED
    BY <1>1, <1>6, <2>1 DEF BBDD_add_game_scores, SetLocal, ToStage, Keeps, Answers
<1>7. CASE BBDD_check_login(t) \/ BBDD_time_played(t)
  <2>1. /\ (IF row = <<>> THEN -1 ELSE atoi(row[1])) \in Int
        /\ (IF row = <<>> THEN 0 ELSE atoi(row[1]) % Day) \in Int
    BY <1>2, DatabaseAssumption
  <2> QED
    BY <1>1, <1>7, <2>1 DEF BBDD_check_login, BBDD_time_played, Return, Keeps, localVars, Answers
<1>8. CASE BBDD_add_user(t)
  <2>1. (IF row = <<>> THEN 1 ELSE atoi(row[1]) + 1) \in Nat
    BY <1>2
  <2> QED
    BY <1>1, <1>8, <2>1 DEF BBDD_add_user, SetLocal, Return, ToStage, Keeps, localVars, Answers
<1>9. CASE BBDD_deregister_user(t)
  BY <1>1, <1>2, <1>9 DEF BBDD_deregister_user, SetLocal, Return, ToStage, Keeps, localVars,
                          Answers
<1>10. ASSUME NEW op, CopyRows(t, op) PROVE Answers(t) /\ UNCHANGED callVars
  <2>1. CASE ~CopyRow(t)
    BY <1>1, <1>10, <2>1 DEF CopyRows, Return, Keeps, localVars, Answers
  <2>2. CASE CopyRow(t)
    <3>1. row # <<>> /\ Append(got[t], row[1].key) \in Seq(Nat)
      BY <1>1, <1>2, <2>2 DEF CopyRow
    <3>2. UNCHANGED got \/ got' = [got EXCEPT ![t] = Append(got[t], row[1].key)]
      BY <2>2 DEF CopyRow
    <3>3. UNCHANGED <<returned, local>>
      BY <2>2 DEF CopyRow, To
    <3> QED
      BY <1>1, <1>10, <3>1, <3>2, <3>3 DEF CopyRows, Keeps, Answers
  <2> QED
    BY <2>1, <2>2
<1>11. CASE BBDD_gameResultsWithOtherPlayers(t)
  <2> DEFINE k == stage[t]
  <2>1. UNCHANGED callVars /\ (UNCHANGED local \/ \E v \in Nat : local' = [local EXCEPT ![t] = v])
    BY <1>11 DEF BBDD_gameResultsWithOtherPlayers, CopyRow, Keeps
  <2>2. UNCHANGED returned \/ \E v \in Int : returned' = [returned EXCEPT ![t] = v]
    BY <1>1, <1>11 DEF BBDD_gameResultsWithOtherPlayers, CopyRow, To, Return, ToStage
  <2>3. \/ UNCHANGED got
        \/ row # <<>> /\ got' = [got EXCEPT ![t] = Append(@, row[1].key)]
        \/ row # <<>> /\ got' = [got EXCEPT ![t][k - 1] = row[1].key]
        \/ got' = [got EXCEPT ![t][k - 1] = 0]
    BY <1>11 DEF BBDD_gameResultsWithOtherPlayers, CopyRow
  <2>4. \A n, v \in Nat : [got[t] EXCEPT ![n - 1] = v] \in Seq(Nat)
    <3>1. got[t] \in Seq(Nat)
      BY <1>1
    <3>2. ASSUME NEW s \in Seq(Nat), NEW i \in Int, NEW v \in Nat
          PROVE  [s EXCEPT ![i] = v] \in Seq(Nat)
      <4>1. CASE i \in DOMAIN s
        BY <4>1
      <4>2. CASE i \notin DOMAIN s
        <5>1. [s EXCEPT ![i] = v] = s
          BY <4>2
        <5> QED
          BY <5>1
      <4> QED
        BY <4>1, <4>2
    <3>3. \A n \in Nat : n - 1 \in Int
      OBVIOUS
    <3> QED
      BY <3>1, <3>2, <3>3
  <2>5. row # <<>> => Append(got[t], row[1].key) \in Seq(Nat)
    BY <1>1, <1>2
  <2> HIDE DEF k
  <2>6. k \in Nat
    BY <1>0 DEF k
  <2>7. got' \in [Threads -> Seq(Nat)]
    BY <1>1, <1>2, <2>3, <2>4, <2>5, <2>6
  <2> QED
    BY <2>1, <2>2, <2>7 DEF Answers
<1> QED
  BY <1>3, <1>4, <1>5, <1>6, <1>7, <1>8, <1>9, <1>10, <1>11
     DEF Statement, Readers, BBDD_ranking, BBDD_find_characters, BBDD_opponentGameList,
         BBDD_gameInTimeInterval

\* The ids, the copied rows and the answers of the calls stay numbers.
LEMMA AnswersStep ==
    ASSUME TypesInv, [DatabaseNext]_vars PROVE AnswersType'
<1>0. AnswersType
  BY DEF TypesInv
<1>1. CASE UNCHANGED vars
  BY <1>0, <1>1 DEF AnswersType, vars, localVars, callVars
<1>2. CASE Connect \/ ConnectionLost
  BY <1>0, <1>2 DEF AnswersType, Connect, ConnectionLost, localVars, callVars
<1>3. ASSUME NEW t \in Threads, Begin(t) PROVE AnswersType'
  <2>1. begun + 1 \in 0 .. MaxCalls
    BY <1>0, <1>3, DatabaseAssumption DEF Begin, AnswersType
  <2>2. <<>> \in Seq(Nat)
    OBVIOUS
  <2>3. alone' \in [Threads -> BOOLEAN]
    BY <1>3 DEF Begin
  <2> QED
    BY <1>0, <1>3, <2>1, <2>2, <2>3 DEF AnswersType, Begin
<1>4. ASSUME NEW t \in Threads, Finish(t) PROVE AnswersType'
  <2>1. <<>> \in Seq(Nat) /\ 0 \in 0 .. MaxCalls
    BY DatabaseAssumption
  <2> QED
    BY <1>0, <1>4, <2>1 DEF AnswersType, Finish
<1>5. ASSUME NEW t \in Threads, Statement(t) PROVE AnswersType'
  BY <1>0, <1>5, AnswersGiven DEF AnswersType, Answers, callVars
<1> QED
  BY <1>1, <1>2, <1>3, <1>4, <1>5, Kinds

\* The types hold at the start, of the rows of crearBBDD.sql.
LEMMA TypesInit == DatabaseInit => TypesInv
<1> SUFFICES ASSUME DatabaseInit PROVE TypesInv
  OBVIOUS
<1>1. HandlerInv
  BY HandlerInit
<1>2. StoredInv
  <2> DEFINE r == [id |-> 1, winner |-> 1, by |-> 0]
             f == [u \in Users |-> [player |-> u.id, game |-> 1, by |-> 0]]
  <2>1. /\ jugadors = Users /\ partides = {r} /\ r \in GameRows
        /\ participants = {f[u] : u \in DOMAIN f} /\ DOMAIN f = Users
        /\ f = [u \in DOMAIN f |-> f[u]]
    BY DEF DatabaseInit, GameRows
  <2>2. \A u \in Users : f[u] \in PlayerRows /\ f[u].player = u.id
    BY DatabaseAssumption DEF PlayerRows
  <2> HIDE DEF r, f
  <2>3. IsFiniteSet(partides) /\ IsFiniteSet(participants) /\ IsFiniteSet(jugadors)
    BY <2>1, ValuesFinite, FS_Singleton, DatabaseAssumption
  <2> QED
    BY <2>1, <2>2, <2>3, DatabaseAssumption DEF StoredInv, UserRows, Ids
<1>3. ConnType
  BY DEF DatabaseInit, ConnType
<1>4. AnswersType
  <2>1. <<>> \in Seq(Nat) /\ 0 \in 0 .. MaxCalls
    BY DatabaseAssumption
  <2> QED
    BY <2>1 DEF DatabaseInit, AnswersType
<1> QED
  BY <1>1, <1>2, <1>3, <1>4 DEF TypesInv

\* The inductive invariant of the types holds always.
LEMMA TypesSafe == DatabaseSpec => []TypesInv
<1>1. TypesInv /\ [DatabaseNext]_vars => TypesInv'
  BY CallsStep, TablesStep, ScoresStep, StoredStep, ConnStep, AnswersStep DEF TypesInv, HandlerInv
<1> QED
  BY <1>1, TypesInit, PTL DEF DatabaseSpec

\* The globals of the handler, the tables and the calls have their types: no statement reads
\* or copies anything but numbers, and no two users or games share an id.
THEOREM DatabaseTypes == DatabaseSpec => []DatabaseTypeOK
<1>1. ASSUME TypesInv PROVE DatabaseTypeOK
  BY <1>1 DEF TypesInv, HandlerInv, CallsInv, TablesInv, StoredInv, ConnType, AnswersType,
              UserRows, GameRows, PlayerRows, DatabaseTypeOK
<1> QED
  BY <1>1, TypesSafe, PTL
-----------------------------------------------------------------------------
(***************************************************************************)
(* A call that runs alone.                                                 *)
(***************************************************************************)

\* The rows of S that are left when n were copied, and the winner of a game, if any.
Rest(S, n)     == [k \in 1 .. Cardinality(S) - n |-> NameRow(Ascending(S)[n + k])]
IsWinner(v, i) == \E g \in partides : g.id = i /\ v = IF g.winner \in Ids THEN g.winner ELSE 0

\* The statements whose rows are copied, and what they list.
Copies(t) == \/ call[t].op \in {"ranking", "characters", "opponents", "interval"}
             \/ call[t].op = "results" /\ stage[t] = 1
Lists(c) ==
    CASE c.op = "ranking"    -> Ranked
      [] c.op = "characters" -> PlayersOf({c.game})
      [] c.op = "opponents"  -> Opponents(c)
      [] c.op = "interval"   -> GamesOf({c.id})
      [] OTHER               -> GamesOf(Named(c))
Listed(t) == Lists(call[t])

\* The rows a call has still to use: of one with a single row, what its statement selects.
ToUse(t) == IF Copies(t) THEN Rest(Listed(t), Len(got[t]))
            ELSE IF call[t].op = "results" /\ local[t] # 0 THEN <<>> ELSE Selected(t)

\* Where they are.
Holds(t, rows) ==
    /\ step[t] = "store" => pending = <<rows>>
    /\ step[t] = "fetch" => result = rows
    /\ step[t] = "use" => IF rows = <<>> THEN row = <<>> /\ result = <<>>
                          ELSE row = <<Head(rows)>> /\ result = Tail(rows)

\* What a call has found out: that a name is free and a number too, which user is to be
\* deregistered, and that the number of a new game is free.
SignupKnows(t) ==
    /\ stage[t] \in 1 .. 3
    /\ stage[t] > 1 => Named(call[t]) = {}
    /\ stage[t] = 3 => step[t] = "query" /\ local[t] \notin Ids

DeregisterKnows(t) ==
    /\ stage[t] \in 1 .. 2
    /\ stage[t] = 2 => /\ step[t] \in {"query", "store"}
                       /\ local[t] \in Matching(call[t])
                       /\ step[t] = "store" => \E u \in jugadors : u.nom = call[t].nom /\ ~u.actiu

ScoresKnows(t) == stage[t] = 2 /\ step[t] = "query" => \A g \in partides : g.id # local[t]

\* How far it has copied its rows, and of how many games it knows the winner.
CopyKnows(t) ==
    /\ Len(got[t]) <= Cardinality(Listed(t))
    /\ \A k \in 1 .. Len(got[t]) : got[t][k] = Ascending(Listed(t))[k]
    /\ step[t] = "query" => got[t] = <<>>

ResultsKnow(t) ==
    /\ step[t] = "query" => local[t] = 0
    /\ stage[t] \in 1 .. Cardinality(Listed(t)) + 1
    /\ stage[t] > 1 =>
          /\ Len(got[t]) = Cardinality(Listed(t))
          /\ \A k \in 1 .. Len(got[t]) :
                IF k < stage[t] - 1 \/ (k = stage[t] - 1 /\ local[t] # 0)
                THEN IsWinner(got[t][k], Ascending(Listed(t))[k])
                ELSE got[t][k] = Ascending(Listed(t))[k]

Knows(t) ==
    /\ call[t].op = "signup" => SignupKnows(t)
    /\ call[t].op = "deregister" => DeregisterKnows(t)
    /\ call[t].op = "scores" => ScoresKnows(t)
    /\ Copies(t) => CopyKnows(t)
    /\ call[t].op = "results" => ResultsKnow(t)

Progress(t) == /\ step[t] = "returned" => Right(t)
               /\ step[t] \notin {"returned", "overrun"} =>
                     Knows(t) /\ (~Writes(t) => Holds(t, ToUse(t)))

\* No other call has the connection, it is there, and the server accepts the call.  A result
\* on the connection is some call's to store.
Alone(t)   == \A u \in Threads \ {t} : step[u] \in {"idle", "returned"}
Served(t)  == ready /\ Accepted(call[t])
Quiet(t)   == Alone(t) /\ Served(t)
PendingInv == pending # <<>> => \E u \in Threads : step[u] = "store"
AloneInv   == \A t \in Threads :
                 alone[t] => step[t] # "idle" /\ Alone(t) /\ (Served(t) => Progress(t))

\* The lists that were left when n rows were copied.
LEMMA RestOf ==
    ASSUME NEW S, FiniteNumbers(S), NEW n \in 0 .. Cardinality(S)
    PROVE  /\ Rest(S, 0) = NameRows(S)
           /\ Rest(S, n) = <<>> <=> n = Cardinality(S)
           /\ n < Cardinality(S) => /\ Head(Rest(S, n)) = NameRow(Ascending(S)[n + 1])
                                    /\ Tail(Rest(S, n)) = Rest(S, n + 1)
<1> DEFINE C == Cardinality(S)
           rest(k) == NameRow(Ascending(S)[n + k])
<1>1. C \in Nat
  BY FS_CardinalityType DEF FiniteNumbers
<1>2. \A k \in 1 .. C : NameRow(Ascending(S)[k]) \in Rows
  BY AscendingType DEF FiniteNumbers, NameRow, Rows
<1>3. Rest(S, n) \in Seq(Rows) /\ Len(Rest(S, n)) = C - n
      /\ \A k \in 1 .. C - n : Rest(S, n)[k] = NameRow(Ascending(S)[n + k])
  BY <1>1, <1>2 DEF Rest
<1>4. Rest(S, 0) = NameRows(S)
  BY <1>1 DEF Rest, NameRows
<1>5. ASSUME n < C PROVE Tail(Rest(S, n)) = Rest(S, n + 1)
  <2> DEFINE r == Tail(Rest(S, n))
             q == Rest(S, n + 1)
  <2>1. /\ r \in Seq(Rows) /\ Len(r) = C - (n + 1)
        /\ \A k \in 1 .. C - (n + 1) : r[k] = NameRow(Ascending(S)[n + (k + 1)])
    BY <1>1, <1>3, <1>5
  <2>2. /\ q \in Seq(Rows) /\ Len(q) = C - (n + 1)
        /\ \A k \in 1 .. C - (n + 1) : q[k] = NameRow(Ascending(S)[(n + 1) + k])
    BY <1>1, <1>2, <1>5 DEF Rest
  <2> HIDE DEF r, q
  <2>3. \A k \in 1 .. C - (n + 1) : n + (k + 1) = (n + 1) + k
    BY <1>1
  <2>4. r \in Seq(Rows) /\ q \in Seq(Rows) /\ Len(r) = Len(q) /\ \A k \in 1 .. Len(r) : r[k] = q[k]
    BY <2>1, <2>2, <2>3
  <2>5. r = q
    BY <2>4
  <2> QED
    BY <2>5 DEF r, q
<1> QED
  BY <1>1, <1>3, <1>4, <1>5

\* What a call lists are finitely many numbers.
LEMMA ListsFinite ==
    ASSUME StoredInv, NEW c
    PROVE  FiniteNumbers(Lists(c)) /\ Cardinality(Lists(c)) \in Nat
<1>1. FiniteNumbers(Lists(c))
  BY GamesFinite, PlayersFinite, OpponentsFinite DEF Lists
<1> QED
  BY <1>1, FS_CardinalityType DEF FiniteNumbers

\* The same of the call of a thread.
LEMMA ListedFinite ==
    ASSUME StoredInv, NEW t
    PROVE  FiniteNumbers(Listed(t)) /\ Cardinality(Listed(t)) \in Nat
  BY ListsFinite DEF Listed

\* A step that leaves the tables and the call alone leaves what the call lists.
LEMMA ListedKept ==
    ASSUME UNCHANGED tableVars, NEW t, call'[t] = call[t]
    PROVE  /\ Ids' = Ids /\ Listed(t)' = Listed(t)
           /\ Named(call[t])' = Named(call[t]) /\ Matching(call[t])' = Matching(call[t])
           /\ \A v, i : IsWinner(v, i)' <=> IsWinner(v, i)
<1> USE DEF tableVars, Ids, Named, Matching, Played, GamesOf, PlayersOf, Opponents, Winners,
            Ranked, Wins, Ahead
<1>1. Ids' = Ids
  OBVIOUS
<1>2. Named(call[t])' = Named(call[t]) /\ Matching(call[t])' = Matching(call[t])
  OBVIOUS
<1>3. Listed(t)' = Listed(t)
  BY <1>1 DEF Listed, Lists
<1>4. \A v, i : IsWinner(v, i)' <=> IsWinner(v, i)
  BY <1>1 DEF IsWinner
<1> QED
  BY <1>1, <1>2, <1>3, <1>4

\* Nor does it change the rows the call has still to use.
LEMMA ToUseKept ==
    ASSUME UNCHANGED tableVars, NEW t, call'[t] = call[t], stage'[t] = stage[t],
           local'[t] = local[t], got'[t] = got[t]
    PROVE  /\ ToUse(t)' = ToUse(t) /\ (Writes(t)' <=> Writes(t)) /\ (Copies(t)' <=> Copies(t))
<1>1. Copies(t)' <=> Copies(t)
  BY DEF Copies
<1>2. Writes(t)' <=> Writes(t)
  BY DEF Writes
<1>3. Selected(t)' = Selected(t)
  BY DEF tableVars, Ids, Named, Matching, CanLogIn, Played, GamesOf, PlayersOf, Opponents, Winners,
         Ranked, Wins, Ahead, Selected
<1> QED
  BY <1>1, <1>2, <1>3, ListedKept DEF ToUse

\* Nothing is on the connection of a call alone that is about to query.
LEMMA NothingPending ==
    ASSUME PendingInv, NEW t, Quiet(t), step[t] # "store"
    PROVE  pending = <<>>
  BY DEF PendingInv, Quiet, Alone

\* What a call knows does not depend on a step that only fetches rows.
LEMMA KnowsKept ==
    ASSUME UNCHANGED tableVars, NEW t, call'[t] = call[t], stage'[t] = stage[t],
           local'[t] = local[t], got'[t] = got[t], step'[t] # "query", ~Writes(t), Knows(t)
    PROVE  Knows(t)'
<1> DEFINE op == call[t].op
<1>1. op = "signup" => SignupKnows(t)'
  BY ListedKept DEF Knows, SignupKnows, Writes
<1>2. op = "deregister" => DeregisterKnows(t)'
  BY DEF Knows, DeregisterKnows, Writes
<1>3. op = "scores" => ScoresKnows(t)'
  BY DEF ScoresKnows
<1>4. Copies(t) => CopyKnows(t)'
  BY ListedKept DEF Knows, CopyKnows
<1>5. op = "results" => ResultsKnow(t)'
  BY ListedKept DEF Knows, ResultsKnow
<1> QED
  BY <1>1, <1>2, <1>3, <1>4, <1>5, ToUseKept DEF Knows

\* Before its query a call has all rows of its statement to use.
LEMMA AllToUse ==
    ASSUME StoredInv, NEW t, step[t] = "query", Knows(t)
    PROVE  ToUse(t) = Selected(t)
<1>1. CASE Copies(t)
  <2>1. got[t] = <<>> /\ Len(got[t]) = 0
    BY <1>1 DEF Knows, CopyKnows
  <2>2. FiniteNumbers(Listed(t)) /\ 0 \in 0 .. Cardinality(Listed(t))
    BY ListedFinite
  <2>3. Rest(Listed(t), 0) = NameRows(Listed(t))
    BY <2>2, RestOf
  <2>4. Selected(t) = NameRows(Listed(t))
    BY <1>1 DEF Copies, Selected, Listed, Lists
  <2> QED
    BY <1>1, <2>1, <2>3, <2>4 DEF ToUse
<1>2. CASE ~Copies(t)
  BY <1>2 DEF ToUse, Knows, ResultsKnow
<1> QED
  BY <1>1, <1>2

\* A call alone that reads gets the rows of its own query.
LEMMA ReadStep ==
    ASSUME TypesInv, PendingInv, NEW t \in Threads, Quiet(t), Progress(t), ~Writes(t),
           QueryFailed(t) \/ Query(t) \/ Store(t) \/ Fetch(t)
    PROVE  Progress(t)'
<1> DEFINE rows == ToUse(t)
<1>0. StoredInv /\ ConnType /\ AnswersType /\ CallsInv
  BY DEF TypesInv, HandlerInv
<1>1. step[t] \in {"query", "store", "fetch"}
  BY DEF QueryFailed, Query, Store, Fetch
<1>2. Knows(t) /\ Holds(t, rows)
  BY <1>1 DEF Progress
<1>3. ~QueryFailed(t)
  <2>1. SUFFICES ASSUME QueryFailed(t) PROVE FALSE
    OBVIOUS
  <2>2. step[t] = "query" /\ (~ready \/ pending # <<>>)
    BY <2>1 DEF QueryFailed, Fails, HoldsName, Quiet, Served, Accepted
  <2> QED
    BY <2>2, NothingPending DEF Quiet, Served
<1>4. /\ UNCHANGED <<tableVars, stage, local, got, call, returned>>
      /\ \E s \in {"store", "fetch", "use"} : step' = [step EXCEPT ![t] = s]
  BY <1>3 DEF Query, Store, Fetch, Writes, To, localVars, callVars
<1>5. step'[t] \in {"store", "fetch", "use"}
  BY <1>0, <1>4 DEF CallsInv
<1>6. Knows(t)' /\ (Writes(t)' <=> Writes(t)) /\ rows' = rows
  BY <1>2, <1>4, <1>5, KnowsKept, ToUseKept
<1>7. Holds(t, rows)'
  <2>1. CASE Query(t)
    <3>1. rows = Selected(t)
      BY <1>0, <1>2, <2>1, AllToUse DEF Query
    <3>2. pending' = <<Selected(t)>> /\ step'[t] = "store"
      BY <1>0, <2>1 DEF Query, To, CallsInv
    <3> QED
      BY <1>6, <3>1, <3>2 DEF Holds
  <2>2. CASE Store(t)
    <3>1. pending = <<rows>> /\ step'[t] = "fetch"
      BY <1>0, <1>2, <2>2 DEF Store, Holds, To, CallsInv, Writes
    <3>2. result' = rows
      BY <2>2, <3>1 DEF Store
    <3> QED
      BY <1>6, <3>1, <3>2 DEF Holds
  <2>3. CASE Fetch(t)
    <3>1. result = rows /\ step'[t] = "use"
      BY <1>0, <1>2, <2>3 DEF Fetch, Holds, To, CallsInv
    <3> HIDE DEF rows
    <3> QED
      BY <1>6, <2>3, <3>1 DEF Fetch, Holds
  <2> QED
    BY <1>3, <2>1, <2>2, <2>3
<1> QED
  BY <1>5, <1>6, <1>7 DEF Progress

\* The row in hand is the first of those to use.
LEMMA RowInHand ==
    ASSUME NEW t, step[t] = "use", Progress(t), ~Writes(t)
    PROVE  /\ Knows(t)
           /\ row = <<>> <=> ToUse(t) = <<>>
           /\ row # <<>> => row[1] = Head(ToUse(t)) /\ result = Tail(ToUse(t))
           /\ row = <<>> => result = <<>>
<1>1. Knows(t) /\ Holds(t, ToUse(t))
  BY DEF Progress
<1>2. CASE ToUse(t) = <<>>
  BY <1>1, <1>2 DEF Holds
<1>3. CASE ToUse(t) # <<>>
  <2>1. row = <<Head(ToUse(t))>> /\ result = Tail(ToUse(t))
    BY <1>1, <1>3 DEF Holds
  <2>2. \A r : <<r>> # <<>> /\ <<r>>[1] = r
    OBVIOUS
  <2> QED
    BY <1>1, <1>3, <2>1, <2>2
<1> QED
  BY <1>2, <1>3

\* The first row of a set of numbers, and the row of one number.
LEMMA FirstOf ==
    ASSUME NEW S, FiniteNumbers(S)
    PROVE  /\ IdRows(S) = <<>> <=> S = {}
           /\ NameRows(S) = <<>> <=> S = {}
           /\ S # {} => atoi(Head(IdRows(S))) \in S /\ Head(NameRows(S)).key \in S
<1>1. Cardinality(S) \in Nat /\ (Cardinality(S) = 0 <=> S = {})
  BY FS_CardinalityType, FS_EmptySet DEF FiniteNumbers
<1>2. /\ IdRows(S) \in Seq(Rows) /\ Len(IdRows(S)) = Cardinality(S)
      /\ NameRows(S) \in Seq(Rows) /\ Len(NameRows(S)) = Cardinality(S)
  BY RowsOf
<1>3. ASSUME S # {} PROVE atoi(Head(IdRows(S))) \in S /\ Head(NameRows(S)).key \in S
  <2>1. 1 \in 1 .. Cardinality(S)
    BY <1>1, <1>3
  <2>2. /\ IdRows(S)[1] = IdRow(Ascending(S)[1]) /\ NameRows(S)[1] = NameRow(Ascending(S)[1])
        /\ Ascending(S)[1] \in S
    BY <2>1, RowsOf
  <2>3. Head(IdRows(S)) = IdRows(S)[1] /\ Head(NameRows(S)) = NameRows(S)[1]
    BY <1>2, <2>1
  <2> QED
    BY <2>2, <2>3, RowHere DEF FiniteNumbers
<1> QED
  BY <1>1, <1>2, <1>3

\* The list of one row.
LEMMA OnlyOne ==
    ASSUME NEW n \in Nat
    PROVE  <<IdRow(n)>> # <<>> /\ atoi(Head(<<IdRow(n)>>)) = n
<1>1. Head(<<IdRow(n)>>) = IdRow(n) /\ <<IdRow(n)>> # <<>>
  OBVIOUS
<1> QED
  BY <1>1, RowHere

\* A login alone answers the id of an active user with its name and password.
LEMMA LoginStep ==
    ASSUME TypesInv, NEW t \in Threads, Quiet(t), Progress(t), BBDD_check_login(t)
    PROVE  Progress(t)'
<1> DEFINE c == call[t]
           S == CanLogIn(c)
<1>1. /\ Uses(t, "login", 1) /\ UNCHANGED <<tableVars, call>> /\ step'[t] = "returned"
      /\ returned'[t] = IF row = <<>> THEN -1 ELSE atoi(row[1])
  BY DEF TypesInv, HandlerInv, CallsInv, BBDD_check_login, Keeps, callVars, Return
<1>2. ToUse(t) = IdRows(S) /\ ~Writes(t)
  BY <1>1 DEF Uses, ToUse, Copies, Selected, Writes
<1>3. FiniteNumbers(S)
  BY UsersFinite DEF TypesInv
<1>4. S' = S
  BY <1>1 DEF CanLogIn, Matching, Named, tableVars
<1>5. IF S = {} THEN returned'[t] = -1 ELSE returned'[t] \in S
  <2>1. /\ row = <<>> <=> IdRows(S) = <<>>
        /\ row # <<>> => row[1] = Head(IdRows(S))
    BY <1>1, <1>2, RowInHand DEF Uses
  <2> HIDE DEF S
  <2>2. IdRows(S) = <<>> <=> S = {}
    BY <1>3, FirstOf
  <2>3. S # {} => atoi(Head(IdRows(S))) \in S
    BY <1>3, FirstOf
  <2> QED
    BY <1>1, <2>1, <2>2, <2>3
<1> QED
  BY <1>1, <1>4, <1>5 DEF Progress, Right, Uses

\* The sum of the durations.
LEMMA TimeStep ==
    ASSUME TypesInv, NEW t \in Threads, Quiet(t), Progress(t), BBDD_time_played(t)
    PROVE  Progress(t)'
<1> DEFINE n == Cardinality(Played(Named(call[t])))
           v == n % Day
<1>1. /\ Uses(t, "time", 1) /\ UNCHANGED <<tableVars, call>> /\ step'[t] = "returned"
      /\ returned'[t] = IF row = <<>> THEN 0 ELSE atoi(row[1]) % Day
  BY DEF TypesInv, HandlerInv, CallsInv, BBDD_time_played, Keeps, callVars, Return
<1>2. ToUse(t) = <<IdRow(n)>> /\ ~Writes(t)
  BY <1>1 DEF Uses, ToUse, Copies, Selected, Writes
<1>3. n \in Nat
  BY GamesFinite DEF TypesInv
<1>4. n' = n
  BY <1>1 DEF Played, Named, tableVars
<1>5. returned'[t] = v
  BY <1>1, <1>2, <1>3, OnlyOne, RowInHand DEF Uses
<1> QED
  BY <1>1, <1>4, <1>5 DEF Progress, Right, Uses

\* A sign-up alone goes on when the name is free, with a number above all others.
LEMMA SignupStep ==
    ASSUME TypesInv, NEW t \in Threads, Quiet(t), Progress(t), BBDD_add_user(t)
    PROVE  Progress(t)'
<1> DEFINE S == Named(call[t])
<1>0. StoredInv /\ CallsInv /\ AnswersType
  BY DEF TypesInv, HandlerInv
<1>1. UNCHANGED <<tableVars, call>> /\ step[t] = "use" /\ call[t].op = "signup"
      /\ stage[t] \in {1, 2}
  BY DEF BBDD_add_user, Keeps, callVars, Uses
<1>2. ~Writes(t)
  BY <1>1 DEF Writes
<1>3. SignupKnows(t)
  BY <1>1, <1>2, RowInHand DEF Knows
<1>4. S' = S /\ Ids' = Ids
  BY <1>1, ListedKept
<1>5. CASE stage[t] = 1
  <2>1. ToUse(t) = IdRows(S)
    BY <1>1, <1>5 DEF ToUse, Copies, Selected
  <2>2. row = <<>> <=> S = {}
    BY <1>0, <1>1, <1>2, <2>1, UsersFinite, FirstOf, RowInHand
  <2>3. CASE row = <<>>
    <3>1. step'[t] = "query" /\ stage'[t] = 2
      BY <1>0, <1>5, <2>3 DEF BBDD_add_user, Uses, ToStage, CallsInv
    <3> QED
      BY <1>1, <1>4, <2>2, <2>3, <3>1 DEF Progress, Knows, SignupKnows, ScoresKnows, Copies, Holds
  <2>4. CASE row # <<>>
    <3>1. step'[t] = "returned" /\ returned'[t] = -1
      BY <1>0, <1>5, <2>4 DEF BBDD_add_user, Uses, Return, CallsInv
    <3> QED
      BY <1>1, <1>4, <2>2, <2>4, <3>1 DEF Progress, Right
  <2> QED
    BY <2>3, <2>4
<1>6. CASE stage[t] = 2
  <2>1. ToUse(t) = <<IdRow(Max(Ids))>>
    BY <1>1, <1>6 DEF ToUse, Copies, Selected
  <2>2. FiniteNumbers(Ids) /\ Ids # {}
    BY <1>0, IdsFinite
  <2>3. Max(Ids) \in Nat /\ \A i \in Ids : i < Max(Ids) + 1
    <3>1. Max(Ids) \in Ids /\ \A i \in Ids : i <= Max(Ids)
      BY <2>2, MaxIs
    <3>2. Ids \subseteq Nat
      BY <2>2 DEF FiniteNumbers
    <3>3. Max(Ids) \in Nat
      BY <3>1, <3>2
    <3>4. \A i \in Ids : i < Max(Ids) + 1
      BY <3>1, <3>2, <3>3
    <3> QED
      BY <3>3, <3>4
  <2>4. row # <<>> /\ atoi(row[1]) = Max(Ids)
    BY <1>1, <1>2, <2>1, <2>3, OnlyOne, RowInHand
  <2>5. step'[t] = "query" /\ stage'[t] = 3 /\ local'[t] = Max(Ids) + 1
    BY <1>0, <1>6, <2>4 DEF BBDD_add_user, Uses, ToStage, SetLocal, CallsInv, AnswersType
  <2>6. local'[t] \notin Ids
    BY <2>3, <2>5, <2>2 DEF FiniteNumbers
  <2> QED
    BY <1>1, <1>3, <1>4, <1>6, <2>5, <2>6
       DEF Progress, Knows, SignupKnows, ScoresKnows, Copies, Holds, Writes
<1> QED
  BY <1>1, <1>5, <1>6

\* A deregistration alone goes on with the user it has found.
LEMMA DeregisterStep ==
    ASSUME TypesInv, NEW t \in Threads, Quiet(t), Progress(t), BBDD_deregister_user(t)
    PROVE  Progress(t)'
<1> DEFINE S == Matching(call[t])
<1>0. StoredInv /\ CallsInv /\ AnswersType
  BY DEF TypesInv, HandlerInv
<1>1. UNCHANGED <<tableVars, call>> /\ Uses(t, "deregister", 1)
  BY DEF BBDD_deregister_user, Keeps, callVars
<1>2. ToUse(t) = IdRows(S) /\ ~Writes(t)
  BY <1>1 DEF Uses, ToUse, Copies, Selected, Writes
<1>3. S' = S
  BY <1>1, ListedKept
<1>4. /\ row = <<>> <=> IdRows(S) = <<>>
      /\ row # <<>> => row[1] = Head(IdRows(S))
  BY <1>1, <1>2, RowInHand DEF Uses
<1>5. FiniteNumbers(S)
  BY <1>0, UsersFinite
<1> HIDE DEF S
<1>6. /\ IdRows(S) = <<>> <=> S = {}
      /\ S # {} => atoi(Head(IdRows(S))) \in S
  BY <1>5, FirstOf
<1>7. CASE row = <<>>
  <2>1. step'[t] = "returned" /\ returned'[t] = -1
    BY <1>0, <1>7 DEF BBDD_deregister_user, Return, CallsInv
  <2>2. Matching(call[t])' = {}
    BY <1>3, <1>4, <1>6, <1>7 DEF S
  <2> QED
    BY <1>1, <2>1, <2>2 DEF Progress, Right, Uses
<1>8. CASE row # <<>>
  <2>1. step'[t] = "query" /\ stage'[t] = 2 /\ local'[t] = atoi(row[1])
    BY <1>0, <1>8 DEF BBDD_deregister_user, ToStage, SetLocal, CallsInv, AnswersType
  <2>2. local'[t] \in Matching(call[t])'
    BY <1>3, <1>4, <1>6, <1>8, <2>1 DEF S
  <2> QED
    BY <1>1, <2>1, <2>2 DEF Progress, Knows, DeregisterKnows, Copies, Writes, Uses
<1> QED
  BY <1>7, <1>8

\* Scores alone go on with a number no game has.
LEMMA ScoresUseStep ==
    ASSUME TypesInv, NEW t \in Threads, Quiet(t), Progress(t), BBDD_add_game_scores(t)
    PROVE  Progress(t)'
<1> DEFINE games == {g.id : g \in partides}
<1>0. StoredInv /\ CallsInv /\ AnswersType
  BY DEF TypesInv, HandlerInv
<1>1. UNCHANGED <<tableVars, call>> /\ Uses(t, "scores", 1)
  BY DEF BBDD_add_game_scores, Keeps, callVars
<1>2. ToUse(t) = <<IdRow(Max(games))>> /\ ~Writes(t)
  BY <1>1 DEF Uses, ToUse, Copies, Selected, Writes
<1>3. FiniteNumbers(games) /\ games # {}
  BY <1>0, IdsFinite
<1> HIDE DEF games
<1>4. Max(games) \in games /\ \A i \in games : i <= Max(games)
  BY <1>3, MaxIs
<1>5. games \subseteq Nat /\ Max(games) \in Nat
  BY <1>3, <1>4 DEF FiniteNumbers
<1>6. row # <<>> /\ atoi(row[1]) = Max(games)
  BY <1>1, <1>2, <1>5, OnlyOne, RowInHand DEF Uses
<1>7. step'[t] = "query" /\ stage'[t] = 2 /\ local'[t] = Max(games) + 1
  BY <1>0, <1>6 DEF BBDD_add_game_scores, ToStage, SetLocal, CallsInv, AnswersType
<1>8. \A i \in games : i # Max(games) + 1
  BY <1>4, <1>5
<1>9. \A g \in partides' : g.id # local'[t]
  BY <1>1, <1>7, <1>8 DEF games, tableVars
<1> QED
  BY <1>1, <1>7, <1>9 DEF Progress, Knows, ScoresKnows, Copies, Writes, Uses

\* A sign-up alone inserts its user with the number it chose.
LEMMA SignupWrites ==
    ASSUME TypesInv, PendingInv, NEW t \in Threads, Quiet(t), Progress(t),
           step[t] \notin {"returned", "overrun"}, call[t].op = "signup", Writes(t),
           QueryFailed(t) \/ Query(t) \/ Store(t) \/ Fetch(t)
    PROVE  Progress(t)'
<1>0. StoredInv /\ CallsInv /\ AnswersType
  BY DEF TypesInv, HandlerInv
<1>1. stage[t] = 3 /\ step[t] = "query" /\ local[t] \notin Ids
  BY DEF Progress, Knows, SignupKnows, Writes
<1>2. ~Fails(t)
  <2>1. pending = <<>> /\ ready
    BY <1>1, NothingPending DEF Quiet, Served
  <2>2. call[t].nom \notin Broken \cup Long
    BY DEF Quiet, Served, Accepted
  <2>3. ~Violates(t)
    BY <1>1, <2>2 DEF Violates, Ids
  <2> QED
    BY <2>1, <2>2, <2>3 DEF Fails
<1>3. Query(t)
  BY <1>1, <1>2 DEF QueryFailed, Store, Fetch
<1>4. /\ [id |-> local[t], nom |-> call[t].nom, actiu |-> TRUE] \in jugadors'
      /\ step'[t] = "returned" /\ returned'[t] = local[t] /\ call' = call
  BY <1>0, <1>3 DEF Query, Write, Return, callVars, CallsInv
<1>5. local[t] # -1
  BY <1>0 DEF AnswersType
<1> QED
  BY <1>4, <1>5 DEF Progress, Right

\* A deregistration alone finds the user it has found in the table, and not active.
LEMMA DeregisterWrites ==
    ASSUME TypesInv, PendingInv, NEW t \in Threads, Quiet(t), Progress(t),
           step[t] \notin {"returned", "overrun"}, call[t].op = "deregister", Writes(t),
           QueryFailed(t) \/ Query(t) \/ Store(t) \/ Fetch(t)
    PROVE  Progress(t)'
<1> DEFINE c == call[t]
<1>0. StoredInv /\ CallsInv /\ AnswersType
  BY DEF TypesInv, HandlerInv
<1>1. /\ stage[t] = 2 /\ step[t] \in {"query", "store"} /\ local[t] \in Matching(c)
      /\ step[t] = "store" => \E u \in jugadors : u.nom = c.nom /\ ~u.actiu
  BY DEF Progress, Knows, DeregisterKnows, Writes
<1>2. CASE step[t] = "query"
  <2>1. ~Fails(t)
    <3>1. pending = <<>> /\ ready
      BY <1>2, NothingPending DEF Quiet, Served
    <3> QED
      BY <3>1, <1>1 DEF Fails, HoldsName, Violates
  <2>2. Query(t)
    BY <1>2, <2>1 DEF QueryFailed, Store, Fetch
  <2> DEFINE f(u) == IF u.id = local[t] THEN [u EXCEPT !.actiu = FALSE] ELSE u
  <2>3. /\ jugadors' = {f(u) : u \in jugadors} /\ step'[t] = "store"
        /\ UNCHANGED <<stage, local, call>>
    BY <1>0, <2>2 DEF Query, Write, To, localVars, callVars, CallsInv
  <2>4. \A u \in jugadors : f(u).id = u.id /\ f(u).nom = u.nom
    BY <1>0 DEF StoredInv, UserRows
  <2>5. PICK v \in jugadors : v.id = local[t] /\ v.nom = c.nom
    BY <1>1 DEF Matching, Named
  <2>6. ~f(v).actiu
    BY <1>0, <2>5 DEF StoredInv, UserRows
  <2>7. f(v) \in jugadors' /\ f(v).nom = c.nom /\ f(v).id = local[t]
    BY <2>3, <2>4, <2>5
  <2> HIDE DEF f
  <2>8. local[t] \in Matching(c)'
    BY <1>1, <2>7, <2>3 DEF Matching, Named
  <2> QED
    BY <1>1, <2>3, <2>6, <2>7, <2>8 DEF Progress, Knows, DeregisterKnows, Writes, Copies
<1>3. CASE step[t] = "store"
  <2>1. Store(t) /\ UNCHANGED <<tableVars, call>>
    BY <1>3 DEF QueryFailed, Query, Store, Fetch, callVars
  <2>2. step'[t] = "returned" /\ returned'[t] = 0
    BY <1>0, <2>1 DEF Store, Return, CallsInv
  <2>3. Matching(c)' # {} /\ \E u \in jugadors' : u.nom = c.nom /\ ~u.actiu
    BY <1>1, <1>3, <2>1, ListedKept DEF tableVars
  <2> QED
    BY <2>1, <2>2, <2>3 DEF Progress, Right
<1> QED
  BY <1>1, <1>2, <1>3

\* Scores alone fail only for a player who is not in the table, and are stored only when
\* all of them are.
LEMMA ScoresWrites ==
    ASSUME TypesInv, PendingInv, NEW t \in Threads, Quiet(t), Progress(t),
           step[t] \notin {"idle", "returned", "overrun"}, call[t].op = "scores", Writes(t),
           QueryFailed(t) \/ Query(t) \/ Store(t) \/ Fetch(t)
    PROVE  Progress(t)'
<1> DEFINE players == call[t].players
<1>0. StoredInv /\ CallsInv /\ AnswersType /\ TablesInv /\ ScoresInv(t)
  BY DEF TypesInv, HandlerInv, Scoring
<1>1. stage[t] \in 2 .. Len(players) + 2 /\ players \in Seq(Nat) /\ step[t] \in {"query", "store"}
  <2>1. call[t] \in Calls
    BY <1>0 DEF CallsInv
  <2>2. stage[t] \in 1 .. Len(players) + 2 /\ (step[t] \in {"fetch", "use"} => stage[t] = 1)
    BY <1>0 DEF ScoresInv, StageInv
  <2>3. stage[t] >= 2 /\ players \in Seq(Nat) /\ Len(players) \in Nat
    BY <2>1, CallFields DEF Writes
  <2> QED
    BY <1>0, <2>2, <2>3 DEF CallsInv
<1>2. CASE QueryFailed(t)
  <2>1. /\ UNCHANGED tableVars /\ call' = call /\ step[t] = "query" /\ Fails(t)
        /\ step'[t] = "returned" /\ returned'[t] = -1
    BY <1>0, <1>2 DEF QueryFailed, Return, callVars, CallsInv
  <2>2. Violates(t)
    BY <2>1, NothingPending DEF Fails, Quiet, Served, Accepted
  <2>3. stage[t] > 2
    BY <1>1, <2>1, <2>2 DEF Progress, Knows, ScoresKnows, Violates
  <2>4. \E g \in partides : g.id = local[t]
    <3>1. Inserted(t) >= 0
      BY <1>1, <2>1, <2>3 DEF Inserted, Stored
    <3> QED
      BY <1>0, <3>1 DEF ScoresInv, GameInv, GamesBy
  <2>5. PlayerOf(t) \notin Ids
    BY <2>2, <2>3, <2>4 DEF Violates, Ids
  <2>6. PlayerOf(t) \in Range(players)
    BY <1>1, <2>3 DEF PlayerOf, Range
  <2>7. ~(Range(players) \subseteq Ids')
    BY <2>1, <2>5, <2>6 DEF Ids, tableVars
  <2> QED
    BY <2>1, <2>7 DEF Progress, Right
<1>3. CASE Query(t)
  <2>1. step'[t] = "store" /\ UNCHANGED <<stage, call>>
    BY <1>0, <1>3 DEF Query, To, callVars, CallsInv
  <2> QED
    BY <2>1 DEF Progress, Knows, ScoresKnows, Copies, Writes
<1>4. CASE Store(t) /\ stage[t] = Len(players) + 2
  <2>1. /\ UNCHANGED tableVars /\ call' = call /\ step[t] = "store"
        /\ step'[t] = "returned" /\ returned'[t] = 0
    BY <1>0, <1>4 DEF Store, Return, callVars, CallsInv
  <2>2. Inserted(t) = Len(players)
    BY <1>1, <1>4, <2>1 DEF Inserted, Stored
  <2>3. InsertedBy(number[t]) = PlayersUpTo(t, Len(players))
    BY <1>0, <2>2 DEF ScoresInv
  <2>4. Range(players) = PlayersUpTo(t, Len(players))
    <3>1. DOMAIN players = 1 .. Len(players)
      BY <1>1
    <3> QED
      BY <3>1 DEF Range, PlayersUpTo
  <2>5. InsertedBy(number[t]) \subseteq Ids
    BY <1>0 DEF InsertedBy, StoredInv
  <2>6. Range(players) \subseteq Ids'
    BY <2>1, <2>3, <2>4, <2>5 DEF Ids, tableVars
  <2> QED
    BY <2>1, <2>6 DEF Progress, Right
<1>5. CASE Store(t) /\ stage[t] # Len(players) + 2
  <2>1. step'[t] = "query" /\ stage'[t] = stage[t] + 1 /\ call' = call
    BY <1>0, <1>5 DEF Store, ToStage, callVars, CallsInv
  <2> QED
    BY <1>1, <2>1 DEF Progress, Knows, ScoresKnows, Copies, Writes
<1> QED
  BY <1>1, <1>2, <1>3, <1>4, <1>5 DEF Fetch

\* One more row is copied, or all are.
LEMMA CopyStep ==
    ASSUME TypesInv, NEW t \in Threads, step[t] = "use", Copies(t), Progress(t),
           UNCHANGED <<tableVars, connVars, call>>
    PROVE  /\ row = <<>> => got[t] = Ascending(Listed(t))
           /\ /\ row # <<>> /\ got' = [got EXCEPT ![t] = Append(@, row[1].key)]
              /\ step'[t] = "fetch" /\ UNCHANGED stage
              => CopyKnows(t)' /\ Holds(t, ToUse(t))'
<1> DEFINE L == Listed(t)
           n == Len(got[t])
<1>0. AnswersType /\ StoredInv /\ got[t] \in Seq(Nat) /\ n \in Nat
  BY DEF TypesInv, AnswersType
<1>1. ~Writes(t) /\ ToUse(t) = Rest(L, n)
  BY DEF Copies, Writes, ToUse
<1>2. n <= Cardinality(L) /\ \A k \in 1 .. n : got[t][k] = Ascending(L)[k]
  BY <1>1, RowInHand DEF Knows, CopyKnows
<1>3. FiniteNumbers(L) /\ Cardinality(L) \in Nat
  BY <1>0, ListedFinite
<1>4. /\ row = <<>> <=> Rest(L, n) = <<>>
      /\ row # <<>> => row[1] = Head(Rest(L, n)) /\ result = Tail(Rest(L, n))
  BY <1>1, RowInHand
<1>5. Listed(t)' = L
  BY ListedKept
<1>6. UNCHANGED stage => Copies(t)'
  BY DEF Copies
<1> HIDE DEF L, n
<1>7. n \in 0 .. Cardinality(L)
  BY <1>0, <1>2, <1>3
<1>8. /\ Rest(L, n) = <<>> <=> n = Cardinality(L)
      /\ n < Cardinality(L) => /\ Head(Rest(L, n)) = NameRow(Ascending(L)[n + 1])
                               /\ Tail(Rest(L, n)) = Rest(L, n + 1)
  BY <1>3, <1>7, RestOf
<1>9. Ascending(L) \in Seq(Nat) /\ Len(Ascending(L)) = Cardinality(L)
  <2>1. \A k \in 1 .. Cardinality(L) : Nth(L, k) \in Nat
    BY <1>3, AscendingType DEF FiniteNumbers
  <2> QED
    BY <1>3, <2>1 DEF Ascending
<1>10. ASSUME row = <<>> PROVE got[t] = Ascending(L)
  <2>1. n = Cardinality(L)
    BY <1>4, <1>8, <1>10
  <2>2. Len(got[t]) = Len(Ascending(L))
        /\ \A k \in 1 .. Len(got[t]) : got[t][k] = Ascending(L)[k]
    BY <1>2, <1>9, <2>1 DEF n
  <2> QED
    BY <1>0, <1>9, <2>2
<1>11. ASSUME row # <<>>, got' = [got EXCEPT ![t] = Append(@, row[1].key)], step'[t] = "fetch",
              UNCHANGED stage
       PROVE  CopyKnows(t)' /\ Holds(t, ToUse(t))'
  <2>1. n < Cardinality(L)
    BY <1>3, <1>4, <1>7, <1>8, <1>11
  <2>2. n + 1 \in 1 .. Cardinality(L)
    BY <1>0, <1>3, <2>1
  <2>3. row[1].key = Ascending(L)[n + 1] /\ row[1].key \in Nat
    <3>1. Ascending(L)[n + 1] \in Nat
      BY <1>9, <2>2
    <3> QED
      BY <1>4, <1>8, <1>11, <2>1, <3>1, RowHere
  <2>4. got'[t] = Append(got[t], row[1].key)
    BY <1>0, <1>11 DEF AnswersType
  <2>5. Len(got'[t]) = n + 1 /\ \A k \in 1 .. n + 1 : got'[t][k] = Ascending(L)[k]
    BY <1>0, <1>2, <2>3, <2>4 DEF n
  <2>6. CopyKnows(t)'
    BY <1>5, <1>11, <2>2, <2>5 DEF CopyKnows
  <2>7. ToUse(t)' = Rest(L, n + 1)
    BY <1>5, <1>6, <1>11, <2>5 DEF ToUse
  <2>8. result' = Rest(L, n + 1)
    BY <1>4, <1>8, <1>11, <2>1 DEF connVars
  <2> QED
    BY <1>11, <2>6, <2>7, <2>8 DEF Holds
<1> QED
  BY <1>10, <1>11 DEF L

\* The queries that copy the rows of one statement.
LEMMA CopyRowsStep ==
    ASSUME TypesInv, NEW t \in Threads, Quiet(t), Progress(t),
           NEW op \in {"ranking", "characters", "opponents", "interval"}, CopyRows(t, op)
    PROVE  Progress(t)'
<1>0. AnswersType /\ CallsInv /\ Uses(t, op, 1) /\ UNCHANGED <<tableVars, connVars, call, local>>
  BY DEF TypesInv, HandlerInv, CopyRows, CopyRow, Keeps, callVars, localVars
<1>1. Copies(t) /\ step[t] = "use" /\ call[t].op = op
  BY <1>0 DEF Copies, Uses
<1>2. UNCHANGED stage
  BY DEF CopyRows, CopyRow, Return, To
<1>3. CASE row = <<>>
  <2>1. got[t] = Ascending(Listed(t)) /\ got' = got /\ step'[t] = "returned"
    BY <1>0, <1>1, <1>2, <1>3, CopyStep DEF CopyRows, CopyRow, Return, CallsInv, localVars
  <2>2. got'[t] = Ascending(Listed(t)')
    BY <1>0, <2>1, ListedKept
  <2> QED
    BY <1>0, <1>1, <2>1, <2>2 DEF Progress, Right, Listed, Lists
<1>4. CASE row # <<>> /\ Len(got[t]) < MaxRows
  <2>1. got' = [got EXCEPT ![t] = Append(@, row[1].key)] /\ step'[t] = "fetch"
    BY <1>0, <1>4 DEF CopyRows, CopyRow, To, CallsInv
  <2>2. CopyKnows(t)' /\ Holds(t, ToUse(t))'
    BY <1>0, <1>1, <1>2, <1>4, <2>1, CopyStep
  <2> QED
    BY <1>0, <1>1, <2>1, <2>2 DEF Progress, Knows, Copies
<1>5. CASE row # <<>> /\ ~(Len(got[t]) < MaxRows)
  BY <1>0, <1>5 DEF CopyRows, CopyRow, To, CallsInv, Progress
<1> QED
  BY <1>3, <1>4, <1>5

\* A game has at most one winner.
LEMMA OneWinner ==
    ASSUME TypesInv, NEW i
    PROVE  /\ Winners({i}) # {} => /\ Tail(NameRows(Winners({i}))) = <<>>
                                   /\ IsWinner(Head(NameRows(Winners({i}))).key, i)
           /\ NameRows(Winners({i})) = <<>> <=> Winners({i}) = {}
           /\ Winners({i}) = {} /\ (\E g \in partides : g.id = i) => IsWinner(0, i)
<1> DEFINE W == Winners({i})
<1>0. StoredInv /\ TablesInv
  BY DEF TypesInv, HandlerInv
<1>1. FiniteNumbers(W)
  BY <1>0, PlayersFinite
<1>2. \A v \in W : IsWinner(v, i)
  BY DEF Winners, IsWinner
<1>3. W = {} /\ (\E g \in partides : g.id = i) => IsWinner(0, i)
  BY DEF Winners, IsWinner
<1>4. \A v, w \in W : v = w
  BY <1>0 DEF Winners, TablesInv
<1> HIDE DEF W
<1>5. /\ NameRows(W) = <<>> <=> W = {}
      /\ W # {} => Head(NameRows(W)).key \in W
  BY <1>1, FirstOf
<1>6. ASSUME W # {} PROVE Tail(NameRows(W)) = <<>>
  <2>1. PICK w : W = {w}
    BY <1>4, <1>6
  <2>2. Cardinality(W) = 1
    BY <2>1, FS_Singleton
  <2>3. NameRows(W) \in Seq(Rows) /\ Len(NameRows(W)) = 1
    BY <1>1, <2>2, RowsOf
  <2>4. Tail(NameRows(W)) \in Seq(Rows) /\ Len(Tail(NameRows(W))) = 0
    BY <2>3
  <2>5. \A rows \in Seq(Rows) : Len(rows) = 0 => rows = <<>>
    OBVIOUS
  <2> QED
    BY <2>4, <2>5
<1> QED
  BY <1>2, <1>3, <1>5, <1>6 DEF W

\* What is known when the rows of a query are used up: the winners of the games asked so far.
Asked(t, k) ==
    /\ Len(got[t]) = Cardinality(Listed(t))
    /\ \A j \in 1 .. Len(got[t]) : IF j < k THEN IsWinner(got[t][j], Ascending(Listed(t))[j])
                                            ELSE got[t][j] = Ascending(Listed(t))[j]

\* After its last row of a query, the call answers or asks for the next game.
LEMMA ResultsNext ==
    ASSUME TypesInv, NEW t \in Threads, NEW k \in 1 .. Cardinality(Listed(t)) + 1,
           call[t].op = "results", UNCHANGED <<tableVars, call>>, local'[t] = 0, stage[t] = k,
           Asked(t, k)', Len(got'[t]) = Len(got[t]),
           IF k > Len(got[t]) THEN Return(t, 0) ELSE ToStage(t, k + 1)
    PROVE  Progress(t)'
<1> DEFINE L == Listed(t)
<1>0. CallsInv /\ StoredInv /\ AnswersType
  BY DEF TypesInv, HandlerInv
<1>1. Listed(t)' = L /\ \A v, i : IsWinner(v, i)' <=> IsWinner(v, i)
  BY ListedKept
<1>2. FiniteNumbers(L) /\ Cardinality(L) \in Nat /\ k \in Nat
  BY <1>0, ListedFinite DEF CallsInv
<1>3. stage'[t] \in {k, k + 1}
  BY <1>0, <1>2 DEF Return, ToStage, CallsInv
<1>4. CASE k > Len(got[t])
  <2>1. step'[t] = "returned" /\ returned'[t] = 0 /\ stage'[t] = k
    BY <1>0, <1>4 DEF Return, CallsInv
  <2>2. Len(got'[t]) = Cardinality(L) /\ Len(got'[t]) < k
    BY <1>1, <1>4 DEF Asked
  <2>3. \A j \in 1 .. Len(got'[t]) : IsWinner(got[t][j], Ascending(Listed(t))[j])'
    BY <1>2, <2>2 DEF Asked
  <2>4. \A j \in 1 .. Cardinality(L) : \E g \in partides' :
           /\ g.id = Ascending(L)[j]
           /\ got'[t][j] = IF g.winner \in Ids' THEN g.winner ELSE 0
    BY <1>1, <2>2, <2>3 DEF IsWinner
  <2>5. /\ L = GamesOf(Named(call[t])) /\ call' = call /\ Len(Ascending(L)) = Cardinality(L)
        /\ Listed(t)' = GamesOf(Named(call[t]))'
    BY <1>2, AscendingType DEF Listed, Lists
  <2> QED
    BY <1>1, <2>1, <2>2, <2>4, <2>5 DEF Progress, Right
<1>5. CASE ~(k > Len(got[t]))
  <2>1. step'[t] = "query" /\ stage'[t] = k + 1
    BY <1>0, <1>2, <1>5 DEF ToStage, CallsInv
  <2>2. ResultsKnow(t)'
    BY <1>1, <1>2, <1>5, <2>1 DEF Asked, ResultsKnow
  <2> QED
    BY <1>2, <2>1, <2>2 DEF Progress, Knows, Copies, Writes, Holds
<1> QED
  BY <1>4, <1>5

\* Each row brings a game or the winner of one.
LEMMA ResultsStep ==
    ASSUME TypesInv, NEW t \in Threads, Quiet(t), Progress(t), BBDD_gameResultsWithOtherPlayers(t)
    PROVE  Progress(t)'
<1> DEFINE L == Listed(t)
<1>0. CallsInv /\ StoredInv /\ AnswersType /\ TablesInv
  BY DEF TypesInv, HandlerInv
<1>1. PICK k \in Nat : k = stage[t]
  BY <1>0 DEF CallsInv
<1> USE <1>1
<1> DEFINE i == Ascending(L)[k - 1]
           W == Winners({i})
<1>2. /\ step[t] = "use" /\ call[t].op = "results" /\ UNCHANGED <<tableVars, connVars, call>>
      /\ got[t] \in Seq(Nat)
  BY <1>0 DEF BBDD_gameResultsWithOtherPlayers, CopyRow, Uses, Keeps, callVars, AnswersType,
              CallsInv
<1>3. ~Writes(t) /\ ResultsKnow(t) /\ k \in 1 .. Cardinality(L) + 1
  <2>1. ~Writes(t)
    BY <1>2 DEF Writes
  <2>2. Knows(t)
    BY <1>2, <2>1, RowInHand
  <2> QED
    BY <1>2, <2>1, <2>2 DEF Knows, ResultsKnow
<1>4. FiniteNumbers(L) /\ Cardinality(L) \in Nat
  BY <1>0, ListedFinite
<1>5. Listed(t)' = L /\ \A v, n : IsWinner(v, n)' <=> IsWinner(v, n)
  BY <1>2, ListedKept
<1>6. CASE row # <<>> /\ k = 1 /\ Len(got[t]) < MaxRows
  <2>1. Copies(t)
    BY <1>2, <1>6 DEF Copies
  <2>2. /\ got' = [got EXCEPT ![t] = Append(@, row[1].key)] /\ step'[t] = "fetch"
        /\ UNCHANGED stage
    BY <1>0, <1>6 DEF BBDD_gameResultsWithOtherPlayers, CopyRow, To, CallsInv
  <2>3. CopyKnows(t)' /\ Holds(t, ToUse(t))'
    BY <1>2, <1>6, <2>1, <2>2, CopyStep
  <2>4. ResultsKnow(t)'
    <3>1. stage'[t] = 1 /\ stage'[t] \in 1 .. Cardinality(Listed(t)') + 1 /\ step'[t] # "query"
      BY <1>3, <1>5, <1>6, <2>2
    <3> QED
      BY <3>1 DEF ResultsKnow
  <2> QED
    BY <1>2, <2>2, <2>3, <2>4 DEF Progress, Knows
<1>7. CASE row = <<>> /\ k = 1
  <2>1. Copies(t) /\ ~(k > 1)
    BY <1>2, <1>7 DEF Copies
  <2>2. /\ IF k > Len(got[t]) THEN Return(t, 0) ELSE ToStage(t, k + 1)
        /\ local'[t] = 0 /\ got' = got
    BY <1>0, <1>7, <2>1 DEF BBDD_gameResultsWithOtherPlayers, AnswersType
  <2>3. got[t] = Ascending(L)
    BY <1>2, <1>7, <2>1, CopyStep
  <2>4. Len(got[t]) = Cardinality(L)
    BY <1>4, <2>3, AscendingType
  <2>5. Asked(t, k)'
    BY <1>4, <1>5, <1>7, <2>2, <2>3, <2>4 DEF Asked
  <2> HIDE DEF L
  <2>6. k \in 1 .. Cardinality(Listed(t)) + 1
    BY <1>3 DEF L
  <2> QED
    BY <1>2, <2>2, <2>5, <2>6, ResultsNext
<1>8. CASE k > 1
  <2>1. ToUse(t) = IF local[t] # 0 THEN <<>> ELSE NameRows(Winners({got[t][k - 1]}))
    BY <1>2, <1>8 DEF ToUse, Copies, Selected
  <2>2. /\ Len(got[t]) = Cardinality(L) /\ k - 1 \in 1 .. Len(got[t])
        /\ \A j \in 1 .. Len(got[t]) :
              IF j < k - 1 \/ (j = k - 1 /\ local[t] # 0)
              THEN IsWinner(got[t][j], Ascending(L)[j]) ELSE got[t][j] = Ascending(L)[j]
    BY <1>2, <1>3, <1>4, <1>8 DEF ResultsKnow
  <2>3. local[t] = 0 => got[t][k - 1] = i
    BY <2>2
  <2>4. /\ W # {} => Tail(NameRows(W)) = <<>> /\ IsWinner(Head(NameRows(W)).key, i)
        /\ NameRows(W) = <<>> <=> W = {}
        /\ W = {} /\ (\E g \in partides : g.id = i) => IsWinner(0, i)
    BY OneWinner
  <2>5. /\ row = <<>> <=> ToUse(t) = <<>>
        /\ row # <<>> => row[1] = Head(ToUse(t)) /\ result = Tail(ToUse(t))
    BY <1>2, <1>3, RowInHand
  <2>6. CASE row # <<>>
    <3>1. local[t] = 0 /\ ToUse(t) = NameRows(W) /\ NameRows(W) # <<>>
      BY <2>1, <2>3, <2>5, <2>6
    <3>2. result = <<>> /\ IsWinner(row[1].key, i)
      BY <2>4, <2>5, <2>6, <3>1
    <3>3. /\ UNCHANGED stage /\ step'[t] = "fetch" /\ local'[t] = 1
          /\ got'[t] = [got[t] EXCEPT ![k - 1] = row[1].key]
      BY <1>0, <1>8, <2>6 DEF BBDD_gameResultsWithOtherPlayers, To, CallsInv, AnswersType
    <3>4. Len(got'[t]) = Len(got[t]) /\ got'[t][k - 1] = row[1].key
          /\ \A j \in 1 .. Len(got[t]) : j # k - 1 => got'[t][j] = got[t][j]
      BY <1>2, <2>2, <3>3
    <3>5. ResultsKnow(t)'
      BY <1>3, <1>5, <2>2, <3>1, <3>2, <3>3, <3>4 DEF ResultsKnow
    <3>6. ToUse(t)' = <<>> /\ ~Copies(t)'
      BY <1>2, <1>8, <3>3 DEF ToUse, Copies
    <3>7. Holds(t, ToUse(t))'
      BY <1>2, <3>2, <3>3, <3>6 DEF Holds, connVars
    <3> QED
      BY <1>2, <3>3, <3>5, <3>6, <3>7 DEF Progress, Knows
  <2>7. CASE row = <<>>
    <3>1. /\ IF k > Len(got[t]) THEN Return(t, 0) ELSE ToStage(t, k + 1)
          /\ local'[t] = 0
          /\ got'[t] = IF local[t] = 0 THEN [got[t] EXCEPT ![k - 1] = 0] ELSE got[t]
      BY <1>0, <1>8, <2>7 DEF BBDD_gameResultsWithOtherPlayers, AnswersType
    <3>2. \E g \in partides : g.id = i
      <4>1. i \in L
        BY <1>4, <2>2, AscendingType
      <4>2. L = GamesOf(Named(call[t]))
        BY <1>2 DEF Listed, Lists
      <4> QED
        BY <1>0, <4>1, <4>2 DEF GamesOf, Played, TablesInv
    <3>3. IF local[t] = 0 THEN IsWinner(0, i) ELSE IsWinner(got[t][k - 1], i)
      BY <2>1, <2>2, <2>3, <2>4, <2>5, <2>7, <3>2
    <3>4. /\ Len(got'[t]) = Len(got[t]) /\ IsWinner(got'[t][k - 1], i)
          /\ \A j \in 1 .. Len(got[t]) : j # k - 1 => got'[t][j] = got[t][j]
      BY <1>2, <2>2, <3>1, <3>3
    <3>5. Asked(t, k)'
      BY <1>2, <1>5, <2>2, <3>4 DEF Asked
    <3> HIDE DEF L
    <3>6. k \in 1 .. Cardinality(Listed(t)) + 1
      BY <1>3 DEF L
    <3> QED
      BY <1>2, <3>1, <3>4, <3>5, <3>6, ResultsNext
  <2> QED
    BY <2>6, <2>7
<1>9. CASE row # <<>> /\ k = 1 /\ ~(Len(got[t]) < MaxRows)
  BY <1>0, <1>9 DEF BBDD_gameResultsWithOtherPlayers, CopyRow, To, CallsInv, Progress
<1> QED
  BY <1>3, <1>6, <1>7, <1>8, <1>9


\* A statement is one of a call that runs, and leaves the connection open.
LEMMA StatementRuns ==
    ASSUME CallsInv, NEW t \in Threads, Statement(t)
    PROVE  step[t] \notin {"idle", "returned", "overrun"} /\ UNCHANGED <<alone, ready>>
<1>1. CASE QueryFailed(t) \/ Query(t) \/ Store(t) \/ Fetch(t)
  BY <1>1 DEF QueryFailed, Query, Store, Fetch, callVars, connVars
<1>2. CASE BBDD_add_game_scores(t) \/ Readers(t)
  BY <1>2 DEF BBDD_add_game_scores, Readers, BBDD_check_login, BBDD_add_user, BBDD_ranking,
              BBDD_deregister_user, BBDD_find_characters, BBDD_opponentGameList, CopyRows, Keeps,
              BBDD_gameInTimeInterval, BBDD_time_played, BBDD_gameResultsWithOtherPlayers, Uses,
              callVars, connVars
<1> QED
  BY <1>1, <1>2 DEF Statement

\* A statement of a call alone.
LEMMA ProgressStep ==
    ASSUME TypesInv, PendingInv, NEW t \in Threads, Quiet(t), Progress(t), Statement(t)
    PROVE  Progress(t)'
<1>1. step[t] \notin {"idle", "returned", "overrun"}
  BY StatementRuns DEF TypesInv, HandlerInv
<1>2. CASE QueryFailed(t) \/ Query(t) \/ Store(t) \/ Fetch(t)
  <2>1. CASE ~Writes(t)
    BY <1>2, <2>1, ReadStep
  <2>2. CASE Writes(t)
    <3>1. call[t].op \in {"signup", "deregister", "scores"}
      BY <2>2 DEF Writes
    <3> QED
      BY <1>1, <1>2, <2>2, <3>1, SignupWrites, DeregisterWrites, ScoresWrites
  <2> QED
    BY <2>1, <2>2
<1>3. CASE BBDD_add_game_scores(t)
  BY <1>3, ScoresUseStep
<1>4. CASE BBDD_check_login(t) \/ BBDD_time_played(t)
  BY <1>4, LoginStep, TimeStep
<1>5. CASE BBDD_add_user(t) \/ BBDD_deregister_user(t)
  BY <1>5, SignupStep, DeregisterStep
<1>6. CASE BBDD_ranking(t) \/ BBDD_find_characters(t) \/ BBDD_opponentGameList(t)
           \/ BBDD_gameInTimeInterval(t)
  <2>1. PICK op \in {"ranking", "characters", "opponents", "interval"} : CopyRows(t, op)
    BY <1>6 DEF BBDD_ranking, BBDD_find_characters, BBDD_opponentGameList,
                BBDD_gameInTimeInterval
  <2> QED
    BY <2>1, CopyRowsStep
<1>7. CASE BBDD_gameResultsWithOtherPlayers(t)
  BY <1>7, ResultsStep
<1> QED
  BY <1>2, <1>3, <1>4, <1>5, <1>6, <1>7 DEF Statement, Readers

\* A result on the connection is some call's to store.
LEMMA PendingStep ==
    ASSUME TypesInv, PendingInv, [DatabaseNext]_vars PROVE PendingInv'
<1>0. CallsInv
  BY DEF TypesInv, HandlerInv
<1>1. CASE UNCHANGED vars
  BY <1>1 DEF PendingInv, vars, connVars
<1>2. CASE Connect \/ ConnectionLost
  BY <1>2 DEF PendingInv, Connect, ConnectionLost
<1>3. ASSUME NEW t \in Threads, Store(t) PROVE PendingInv'
  BY <1>3 DEF PendingInv, Store
<1>4. ASSUME NEW t \in Threads, step[t] # "store", UNCHANGED pending,
             Begin(t) \/ Finish(t) \/ Statement(t)
      PROVE  PendingInv'
  <2>1. \A u \in Threads : step[u] = "store" => step'[u] = "store"
    BY <1>0, <1>4, OthersKept
  <2> QED
    BY <1>4, <2>1 DEF PendingInv
<1>5. ASSUME NEW t \in Threads, Query(t) PROVE PendingInv'
  <2>1. CASE UNCHANGED pending
    BY <1>4, <1>5, <2>1 DEF Query, Statement
  <2>2. CASE ~UNCHANGED pending
    <3>1. step'[t] = "store"
      BY <1>0, <1>5, <2>2 DEF Query, To, CallsInv
    <3> QED
      BY <3>1 DEF PendingInv
  <2> QED
    BY <2>1, <2>2
<1>6. ASSUME NEW t \in Threads, Begin(t) \/ Finish(t) \/ QueryFailed(t) \/ Fetch(t)
      PROVE  step[t] # "store" /\ UNCHANGED pending
  BY <1>6 DEF Begin, Finish, QueryFailed, Fetch, connVars
<1>7. ASSUME NEW t \in Threads, BBDD_add_game_scores(t) \/ Readers(t)
      PROVE  step[t] # "store" /\ UNCHANGED pending
  BY <1>7 DEF BBDD_add_game_scores, Readers, BBDD_check_login, BBDD_add_user, BBDD_ranking,
              BBDD_deregister_user, BBDD_find_characters, BBDD_opponentGameList, CopyRows, Keeps,
              BBDD_gameInTimeInterval, BBDD_time_played, BBDD_gameResultsWithOtherPlayers, Uses,
              connVars
<1> QED
  BY <1>1, <1>2, <1>3, <1>4, <1>5, <1>6, <1>7, Kinds DEF Statement

\* A step of nobody else: the variables of the call, the tables and the connection stay.
LEMMA ProgressKept ==
    ASSUME NEW t, UNCHANGED <<tableVars, connVars>>, call'[t] = call[t], stage'[t] = stage[t],
           step'[t] = step[t], local'[t] = local[t], got'[t] = got[t], returned'[t] = returned[t],
           Progress(t)
    PROVE  Progress(t)'
<1>1. /\ Ids' = Ids /\ Listed(t)' = Listed(t)
      /\ Named(call[t])' = Named(call[t]) /\ Matching(call[t])' = Matching(call[t])
      /\ \A v, i : IsWinner(v, i)' <=> IsWinner(v, i)
  BY ListedKept
<1>2. ToUse(t)' = ToUse(t) /\ (Writes(t)' <=> Writes(t)) /\ (Copies(t)' <=> Copies(t))
  BY ToUseKept
<1>3. CASE step[t] = "returned"
  <2>1. Right(t)
    BY <1>3 DEF Progress
  <2> DEFINE c == call[t]
  <2>2. /\ CanLogIn(c)' = CanLogIn(c) /\ Opponents(c)' = Opponents(c)
        /\ Played(Named(c))' = Played(Named(c)) /\ PlayersOf({c.game})' = PlayersOf({c.game})
        /\ GamesOf(Named(c))' = GamesOf(Named(c)) /\ GamesOf({c.id})' = GamesOf({c.id})
        /\ Ranked' = Ranked
    BY DEF tableVars, Ids, Named, Matching, CanLogIn, Played, GamesOf, PlayersOf, Opponents,
           Winners, Ranked, Wins, Ahead
  <2>3. Right(t)'
    BY <1>1, <2>1, <2>2 DEF Right, tableVars
  <2> QED
    BY <1>3, <2>3 DEF Progress
<1>4. CASE step[t] \notin {"returned", "overrun"}
  <2>1. Knows(t) /\ (~Writes(t) => Holds(t, ToUse(t)))
    BY <1>4 DEF Progress
  <2>2. Holds(t, ToUse(t)) => Holds(t, ToUse(t))'
    BY <1>2 DEF Holds, connVars
  <2>3. /\ SignupKnows(t) => SignupKnows(t)'
        /\ DeregisterKnows(t) => DeregisterKnows(t)'
        /\ ScoresKnows(t) => ScoresKnows(t)'
    BY <1>1 DEF SignupKnows, DeregisterKnows, ScoresKnows, tableVars
  <2>4. CopyKnows(t) => CopyKnows(t)'
    BY <1>1 DEF CopyKnows
  <2>5. ResultsKnow(t) => ResultsKnow(t)'
    BY <1>1 DEF ResultsKnow
  <2>6. Knows(t)'
    <3>1. /\ call'[t].op = "signup" => SignupKnows(t)'
          /\ call'[t].op = "deregister" => DeregisterKnows(t)'
          /\ call'[t].op = "scores" => ScoresKnows(t)'
      BY <2>1, <2>3 DEF Knows
    <3>2. Copies(t)' => CopyKnows(t)'
      BY <1>2, <2>1, <2>4 DEF Knows
    <3>3. call'[t].op = "results" => ResultsKnow(t)'
      BY <2>1, <2>5 DEF Knows
    <3> QED
      BY <3>1, <3>2, <3>3 DEF Knows
  <2> QED
    BY <1>2, <1>4, <2>1, <2>2, <2>6 DEF Progress
<1>5. CASE step[t] = "overrun"
  BY <1>5 DEF Progress
<1> QED
  BY <1>3, <1>4, <1>5

\* A new call that runs alone has found out nothing yet.
LEMMA ProgressBegins ==
    ASSUME TypesInv, NEW t \in Threads, Begin(t), alone'[t]
    PROVE  Alone(t)' /\ Progress(t)'
<1>0. CallsInv /\ AnswersType /\ StoredInv
  BY DEF TypesInv, HandlerInv
<1>1. /\ stage'[t] = 1 /\ step'[t] = "query" /\ local'[t] = 0 /\ got'[t] = <<>>
      /\ Running = {}
  BY <1>0 DEF Begin, CallsInv, AnswersType
<1>2. Alone(t)'
  BY <1>0, <1>1, OthersKept DEF Alone, Running
<1>3. Cardinality(Listed(t)') \in Nat
  <2>1. PICK c \in Calls : call'[t] = c
    BY <1>0 DEF Begin, CallsInv
  <2>2. Lists(c)' = Lists(c)
    BY DEF Begin, tableVars, Lists, Ids, Named, Played, GamesOf, PlayersOf, Opponents, Winners,
           Ranked, Wins, Ahead
  <2> QED
    BY <1>0, <2>1, <2>2, ListsFinite DEF Listed
<1>4. Copies(t)' => CopyKnows(t)'
  BY <1>1, <1>3 DEF CopyKnows
<1>5. ResultsKnow(t)'
  BY <1>1, <1>3 DEF ResultsKnow
<1> QED
  BY <1>1, <1>2, <1>4, <1>5 DEF Progress, Knows, SignupKnows, DeregisterKnows, ScoresKnows, Holds

\* Nobody else takes a step while a call is alone.
LEMMA AloneStep ==
    ASSUME TypesInv, PendingInv, AloneInv, [DatabaseNext]_vars PROVE AloneInv'
<1>0. CallsInv /\ AnswersType
  BY DEF TypesInv, HandlerInv
<1>1. ASSUME NEW t \in Threads, UNCHANGED <<tableVars, connVars, alone>>, call'[t] = call[t],
             stage'[t] = stage[t], step'[t] = step[t], local'[t] = local[t], got'[t] = got[t],
             returned'[t] = returned[t], alone[t]
      PROVE  step'[t] # "idle" /\ (Served(t)' => Progress(t)')
  <2>1. step[t] # "idle" /\ (Served(t) => Progress(t))
    BY <1>1 DEF AloneInv
  <2>2. Served(t)' => Served(t)
    BY <1>1 DEF Served, connVars
  <2>3. Progress(t) => Progress(t)'
    BY <1>1, ProgressKept
  <2> QED
    BY <1>1, <2>1, <2>2, <2>3
<1>2. CASE UNCHANGED vars
  <2>1. ASSUME NEW t \in Threads, alone'[t]
        PROVE  step'[t] # "idle" /\ Alone(t)' /\ (Served(t)' => Progress(t)')
    BY <1>1, <1>2, <2>1 DEF AloneInv, Alone, vars, localVars, callVars
  <2> QED
    BY <2>1 DEF AloneInv
<1>3. CASE Connect
  BY <1>3 DEF Connect, AloneInv
<1>4. CASE ConnectionLost
  BY <1>4 DEF ConnectionLost, AloneInv, Alone, Served, callVars
<1>5. ASSUME NEW t \in Threads, Begin(t) PROVE AloneInv'
  <2>1. \A u \in Threads : alone'[u] => u = t
    BY <1>5 DEF Begin
  <2>2. step'[t] # "idle"
    BY <1>0, <1>5 DEF Begin, CallsInv
  <2>3. alone'[t] => Alone(t)' /\ Progress(t)'
    BY <1>5, ProgressBegins
  <2> QED
    BY <2>1, <2>2, <2>3 DEF AloneInv
<1>6. ASSUME NEW t \in Threads, Finish(t) PROVE AloneInv'
  <2>1. ASSUME NEW u \in Threads, alone'[u]
        PROVE  step'[u] # "idle" /\ Alone(u)' /\ (Served(u)' => Progress(u)')
    <3>1. u # t /\ alone[u] /\ got'[u] = got[u] /\ UNCHANGED <<tableVars, connVars>>
      BY <1>0, <1>6, <2>1 DEF Finish, AnswersType
    <3>2. step[u] # "idle" /\ Alone(u) /\ (Served(u) => Progress(u))
      BY <3>1 DEF AloneInv
    <3>3. /\ call'[u] = call[u] /\ stage'[u] = stage[u] /\ step'[u] = step[u]
          /\ local'[u] = local[u] /\ returned'[u] = returned[u]
      BY <1>0, <1>6, <3>1, OthersKept
    <3>4. Progress(u) => Progress(u)'
      BY <3>1, <3>3, ProgressKept
    <3>5. Served(u)' => Served(u)
      BY <3>1, <3>3 DEF Served, connVars
    <3>6. Alone(u)'
      BY <1>0, <1>6, <3>2 DEF Alone, Finish, CallsInv
    <3> QED
      BY <3>2, <3>3, <3>4, <3>5, <3>6
  <2> QED
    BY <2>1 DEF AloneInv
<1>7. ASSUME NEW t \in Threads, Statement(t) PROVE AloneInv'
  <2>1. step[t] \notin {"idle", "returned"} /\ UNCHANGED <<alone, ready>>
    BY <1>0, <1>7, StatementRuns
  <2>2. \A u \in Threads : alone[u] => u = t
    BY <2>1 DEF AloneInv, Alone
  <2>3. ASSUME alone[t] PROVE step'[t] # "idle" /\ Alone(t)' /\ (Served(t)' => Progress(t)')
    <3>1. Alone(t) /\ (Served(t) => Progress(t))
      BY <2>3 DEF AloneInv
    <3>2. \A u \in Threads \ {t} : step'[u] = step[u]
      BY <1>0, <1>7, OthersKept
    <3>3. Alone(t)'
      BY <3>1, <3>2 DEF Alone
    <3>4. step'[t] # "idle" /\ call' = call
      BY <1>0, <1>7, StatementStep
    <3>5. Served(t)' => Served(t)
      BY <2>1, <3>4 DEF Served
    <3>6. Served(t) => Progress(t)'
      BY <1>7, <3>1, ProgressStep DEF Quiet
    <3> QED
      BY <3>3, <3>4, <3>5, <3>6
  <2> QED
    BY <2>1, <2>2, <2>3 DEF AloneInv
<1> QED
  BY <1>2, <1>3, <1>4, <1>5, <1>6, <1>7, Kinds

\* A call that is accepted, on a connection that was there from its beginning to its end
\* and that it shared with no other call, answers what the tables hold if its rows fit the
\* array: whatever calls, lost connections, refused statements and left-over rows came
\* before.
THEOREM CallsAloneAreRight == DatabaseSpec => []AloneIsRight
<1>1. DatabaseInit => PendingInv /\ AloneInv
  BY DEF DatabaseInit, PendingInv, AloneInv
<1>2. TypesInv /\ PendingInv /\ AloneInv /\ [DatabaseNext]_vars => PendingInv' /\ AloneInv'
  BY PendingStep, AloneStep
<1>3. AloneInv => AloneIsRight
  BY DEF AloneInv, AloneIsRight, Served, Progress
<1> QED
  BY <1>1, <1>2, <1>3, TypesSafe, PTL DEF DatabaseSpec
=============================================================================
