------------------------- MODULE GameThreadsProofs --------------------------
(***************************************************************************)
(* Proofs about the two threads of a running game, which share none of the *)
(* variables of these modules.  Part 1: what holds of a game sender for    *)
(* every number of callers, of places in the party and of ticks of the     *)
(* back-off.  Part 2: what the unprotected flags and mailboxes of a game   *)
(* processor assure for every number of players, updates and rounds.       *)
(***************************************************************************)
EXTENDS GameSender, GameProcessor, FiniteSetTheorems, TLAPS

-----------------------------------------------------------------------------
(***************************************************************************)
(* Part 1: the game sender (GameSender).                                   *)
(***************************************************************************)

\* The mutex of the cell tells who is inside: a caller between storing the
\* group and the text, or the sender outside its wait.
MutexHeld ==
    /\ \A c \in Callers : callerPc[c] = "storing" <=> mutex = c
    /\ senderPc \in {"clearing", "taking", "writing"} <=> mutex = "sender"

\* A notification that is in the cell, in either half of its storage.
InCell(m) ==
    \/ \E c \in Callers : callerPc[c] = "storing" /\ m = callerMessage[c]
    \/ newData = 1 /\ mutex = NULL /\ m = gameResponse
    \/ senderPc = "taking" /\ m = gameResponse

\* Every notification to be settled is in the cell or being written, and the
\* group stored beside it is its own.
CellMatches ==
    /\ \A c \in Callers : callerPc[c] = "storing" =>
          newData = 1 /\ callerMessage[c] \in Messages
    /\ (newData = 1 /\ mutex = NULL) \/ senderPc = "taking" => gameResponse \in Messages
    /\ \A m \in Messages : InCell(m) => group[m] = userStateArg
    /\ \A m \in Messages : group[m] # NULL =>
          InCell(m) \/ (senderPc = "writing" /\ m = thisMessage)

\* How long a player has been backed off, against what is left on its timer.
TimersCount ==
    \A p \in Places : IF backOffRequested[p] = 0 THEN skipped[p] = 0
                      ELSE skipped[p] + backOffTimers[p] <= Ticks + 1

CellInv == MutexHeld /\ CellMatches /\ TextMatchesGroup

-----------------------------------------------------------------------------
\* Every variable keeps its type.
LEMMA TypeInit == SenderInit => SenderTypeOK
  BY SenderAssumption DEF SenderInit, SenderTypeOK, NewParty, States, Groups,
     Invited, Accepted, BackOff, Left

LEMMA TypeStep == SenderTypeOK /\ [SenderNext]_vars => SenderTypeOK'
<1> SUFFICES ASSUME SenderTypeOK, [SenderNext]_vars PROVE SenderTypeOK'
  OBVIOUS
<1> USE SenderAssumption
    DEF SenderTypeOK, States, Groups, Invited, Accepted, BackOff, Left, cellVars, timerVars,
        senderVars, callerVars, partyVars
<1>1. ASSUME NEW c \in Callers, Call(c) PROVE SenderTypeOK'
  BY <1>1 DEF Call
<1>2. ASSUME NEW c \in Callers, NEW g \in Groups, StoreGroup(c, g) PROVE SenderTypeOK'
  <2>1. PICK m \in Messages : callerMessage' = [callerMessage EXCEPT ![c] = m] /\
            group' = [k \in Messages |-> IF k = m THEN g
                                         ELSE IF newData = 1 /\ k = gameResponse THEN NULL
                                         ELSE group[k]]
    BY <1>2 DEF StoreGroup, Storing, Hand
  <2>2. group' \in [Messages -> Groups \cup {NULL}]
    BY <2>1
  <2>3. callerMessage' \in [Callers -> Messages \cup {0}]
    BY <2>1
  <2> QED
    BY <1>2, <2>2, <2>3 DEF StoreGroup, Storing, SignalSender
<1>3. ASSUME NEW c \in Callers, StoreResponse(c) PROVE SenderTypeOK'
  BY <1>3 DEF StoreResponse
<1>4. CASE ClearAndWait
  BY <1>4 DEF ClearAndWait
<1>5. CASE Wake
  BY <1>5 DEF Wake
<1>6. CASE TakeMessage
  BY <1>6 DEF TakeMessage, BackOffTick, Expires, Begins, Elapses
<1>7. ASSUME NEW p \in Places, Write(p) PROVE SenderTypeOK'
  BY <1>7 DEF Write
<1>8. CASE Written
  BY <1>8 DEF Written
<1>9. CASE PartyStep
  BY <1>9 DEF PartyStep, AcceptInvitation, RequestBackOff, RequestResume, LeaveGame, SetState,
              NextGame, NewParty
<1>10. CASE UNCHANGED vars
  BY <1>10 DEF vars
<1> QED
  BY <1>1, <1>2, <1>3, <1>4, <1>5, <1>6, <1>7, <1>8, <1>9, <1>10
     DEF SenderNext, SenderStep, CallerStep

\* Every variable keeps its type; no timer goes below zero (main.c:550).
THEOREM SenderTypeCorrect == SenderSpec => []SenderTypeOK
  BY TypeInit, TypeStep, PTL DEF SenderSpec

-----------------------------------------------------------------------------
\* Only one thread is at work on the cell.
LEMMA OneInside ==
    ASSUME SenderTypeOK, MutexHeld
    PROVE  /\ \A c, d \in Callers : callerPc[c] = "storing" /\ callerPc[d] = "storing" => c = d
           /\ \A c \in Callers : callerPc[c] = "storing" =>
                 mutex # NULL /\ senderPc \in {"waiting", "woken"}
           /\ senderPc \in {"clearing", "taking", "writing"} =>
                 mutex # NULL /\ \A c \in Callers : callerPc[c] # "storing"
  BY SenderAssumption DEF SenderTypeOK, MutexHeld

LEMMA CellInit == SenderInit => CellInv
  BY SenderAssumption DEF SenderInit, CellInv, MutexHeld, CellMatches, InCell, TextMatchesGroup

LEMMA MutexStep == SenderTypeOK /\ MutexHeld /\ [SenderNext]_vars => MutexHeld'
<1> SUFFICES ASSUME SenderTypeOK, MutexHeld, [SenderNext]_vars PROVE MutexHeld'
  OBVIOUS
<1> USE SenderAssumption
    DEF SenderTypeOK, MutexHeld, cellVars, timerVars, senderVars, callerVars, partyVars
<1>1. ASSUME NEW c \in Callers, Call(c) PROVE MutexHeld'
  BY <1>1 DEF Call
<1>2. ASSUME NEW c \in Callers, NEW g \in Groups, StoreGroup(c, g) PROVE MutexHeld'
  BY <1>2 DEF StoreGroup, Storing, SignalSender, CanLock
<1>3. ASSUME NEW c \in Callers, StoreResponse(c) PROVE MutexHeld'
  BY <1>3 DEF StoreResponse
<1>4. CASE ClearAndWait
  BY <1>4 DEF ClearAndWait
<1>5. CASE Wake
  BY <1>5 DEF Wake
<1>6. CASE TakeMessage
  BY <1>6 DEF TakeMessage
<1>7. ASSUME NEW p \in Places, Write(p) PROVE MutexHeld'
  BY <1>7 DEF Write
<1>8. CASE Written
  BY <1>8 DEF Written
<1>9. CASE PartyStep
  BY <1>9 DEF PartyStep, AcceptInvitation, RequestBackOff, RequestResume, LeaveGame, SetState,
              NextGame
<1>10. CASE UNCHANGED vars
  BY <1>10 DEF vars
<1> QED
  BY <1>1, <1>2, <1>3, <1>4, <1>5, <1>6, <1>7, <1>8, <1>9, <1>10
     DEF SenderNext, SenderStep, CallerStep

\* With the mutex free the cell holds at most what gameResponse names, so the
\* notification that is stored is the only one afterwards.
LEMMA StoreGroupStep ==
    ASSUME SenderTypeOK, CellInv, NEW c \in Callers, NEW g \in Groups, StoreGroup(c, g)
    PROVE  CellMatches' /\ TextMatchesGroup'
<1> USE SenderAssumption DEF SenderTypeOK
<1>1. mutex = NULL /\ mutex' = c /\ newData' = 1 /\ userStateArg' = g
  BY DEF StoreGroup, Storing, CanLock
<1>2. /\ \A d \in Callers : callerPc[d] # "storing"
      /\ senderPc \in {"waiting", "woken"} /\ senderPc' = "woken"
  <2>1. senderPc \in {"waiting", "woken"}
    BY <1>1 DEF CellInv, MutexHeld
  <2> QED
    BY <1>1, <2>1 DEF CellInv, MutexHeld, StoreGroup, SignalSender
<1>3. PICK m \in Messages :
         /\ group[m] = NULL
         /\ group' = [k \in Messages |-> IF k = m THEN g
                                         ELSE IF newData = 1 /\ k = gameResponse THEN NULL
                                         ELSE group[k]]
         /\ callerMessage' = [callerMessage EXCEPT ![c] = m]
  BY DEF StoreGroup, Storing, Hand
<1>4. ASSUME NEW k \in Messages, group[k] # NULL PROVE newData = 1 /\ k = gameResponse
  BY <1>1, <1>2, <1>4 DEF CellInv, CellMatches, InCell
<1>5. group'[m] = g /\ \A k \in Messages : k # m => group'[k] = NULL
  BY <1>3, <1>4
<1>6. callerPc' = [callerPc EXCEPT ![c] = "storing"]
  BY DEF StoreGroup, Storing
<1>7. \A d \in Callers : callerPc'[d] = "storing" <=> d = c
  BY <1>2, <1>6
<1>8. callerMessage'[c] = m
  BY <1>3
<1>9. \A k \in Messages : InCell(k)' <=> k = m
  BY <1>1, <1>2, <1>7, <1>8 DEF InCell
<1>10. CellMatches'
  BY <1>1, <1>2, <1>5, <1>7, <1>8, <1>9 DEF CellMatches
<1>11. TextMatchesGroup'
  BY <1>2 DEF TextMatchesGroup
<1> QED
  BY <1>10, <1>11

LEMMA StoreResponseStep ==
    ASSUME SenderTypeOK, CellInv, NEW c \in Callers, StoreResponse(c)
    PROVE  CellMatches' /\ TextMatchesGroup'
<1> USE SenderAssumption DEF SenderTypeOK
<1>1. mutex = c /\ mutex' = NULL /\ newData = 1 /\ newData' = 1
  BY DEF StoreResponse, cellVars, CellInv, MutexHeld, CellMatches
<1>2. /\ \A d \in Callers : callerPc[d] = "storing" <=> d = c
      /\ senderPc \in {"waiting", "woken"} /\ senderPc' = senderPc
  BY <1>1 DEF CellInv, MutexHeld, StoreResponse, senderVars
<1>3. \A d \in Callers : callerPc'[d] # "storing"
  BY <1>2 DEF StoreResponse
<1>4. gameResponse' = callerMessage[c] /\ callerMessage[c] \in Messages
  BY <1>2 DEF StoreResponse, CellInv, CellMatches
<1>5. \A k \in Messages : InCell(k) <=> k = callerMessage[c]
  BY <1>1, <1>2 DEF InCell
<1>6. \A k \in Messages : InCell(k)' <=> k = callerMessage[c]
  BY <1>1, <1>2, <1>3, <1>4 DEF InCell
<1>7. UNCHANGED <<group, userStateArg>>
  BY DEF StoreResponse
<1>8. CellMatches'
  BY <1>1, <1>2, <1>3, <1>4, <1>5, <1>6, <1>7 DEF CellInv, CellMatches
<1> QED
  BY <1>2, <1>8 DEF TextMatchesGroup

LEMMA CellStep == SenderTypeOK /\ CellInv /\ [SenderNext]_vars => CellInv'
<1> SUFFICES ASSUME SenderTypeOK, CellInv, [SenderNext]_vars PROVE CellMatches' /\ TextMatchesGroup'
  BY MutexStep DEF CellInv
<1> USE SenderAssumption
    DEF SenderTypeOK, cellVars, timerVars, senderVars, callerVars, partyVars
<1>1. ASSUME NEW c \in Callers, Call(c) PROVE CellMatches' /\ TextMatchesGroup'
  <2>1. callerPc[c] # "storing" /\ \A d \in Callers :
            callerPc'[d] = "storing" <=> callerPc[d] = "storing"
    BY <1>1 DEF Call
  <2> QED
    BY <1>1, <2>1 DEF Call, CellInv, CellMatches, InCell, TextMatchesGroup
<1>2. ASSUME NEW c \in Callers, NEW g \in Groups, StoreGroup(c, g)
      PROVE CellMatches' /\ TextMatchesGroup'
  BY <1>2, StoreGroupStep
<1>3. ASSUME NEW c \in Callers, StoreResponse(c) PROVE CellMatches' /\ TextMatchesGroup'
  BY <1>3, StoreResponseStep
<1>4. CASE ClearAndWait
  <2>1. \A m \in Messages : group[m] = NULL
    BY <1>4, OneInside DEF ClearAndWait, CellInv, CellMatches, InCell
  <2> QED
    BY <1>4, <2>1, OneInside DEF ClearAndWait, CellInv, CellMatches, InCell, TextMatchesGroup
<1>5. CASE Wake
  BY <1>5, OneInside DEF Wake, CellInv, CellMatches, InCell, TextMatchesGroup
<1>6. CASE TakeMessage
  <2>1. gameResponse \in Messages /\ group[gameResponse] = userStateArg
    BY <1>6 DEF TakeMessage, CellInv, CellMatches, InCell
  <2>2. \A m \in Messages : group[m] # NULL => m = gameResponse
    BY <1>6, OneInside DEF TakeMessage, CellInv, CellMatches, InCell
  <2> QED
    BY <1>6, <2>1, <2>2, OneInside
       DEF TakeMessage, CellInv, CellMatches, InCell, TextMatchesGroup
<1>7. ASSUME NEW p \in Places, Write(p) PROVE CellMatches' /\ TextMatchesGroup'
  BY <1>7 DEF Write, CellInv, CellMatches, InCell, TextMatchesGroup
<1>8. CASE Written
  <2>1. \A m \in Messages : group[m] # NULL => m = thisMessage
    BY <1>8, OneInside DEF Written, CellInv, CellMatches, InCell
  <2>2. \A m \in Messages : group'[m] = NULL
    BY <1>8, <2>1 DEF Written
  <2>3. \A m \in Messages : ~InCell(m)'
    BY <1>8, OneInside DEF Written, InCell, CellInv
  <2> QED
    BY <1>8, <2>2, <2>3, OneInside DEF Written, CellInv, CellMatches, TextMatchesGroup
<1>9. CASE PartyStep
  BY <1>9 DEF PartyStep, AcceptInvitation, RequestBackOff, RequestResume, LeaveGame, SetState,
              NextGame, CellInv, CellMatches, InCell, TextMatchesGroup
<1>10. CASE UNCHANGED vars
  BY <1>10 DEF vars, CellInv, CellMatches, InCell, TextMatchesGroup
<1> QED
  BY <1>1, <1>2, <1>3, <1>4, <1>5, <1>6, <1>7, <1>8, <1>9, <1>10
     DEF SenderNext, SenderStep, CallerStep

\* The invariant of the cell (sendToGame and gameSender of main.c).
THEOREM CellInvariant == SenderSpec => []CellInv
  BY CellInit, CellStep, SenderTypeCorrect, PTL DEF SenderSpec

\* A notification goes to the group it was meant for (main.c:176-179).
THEOREM RightGroup == SenderSpec => []TextMatchesGroup
<1>1. CellInv => TextMatchesGroup
  BY DEF CellInv
<1> QED
  BY <1>1, CellInvariant, PTL

\* Clearing newData at the top of the loop forgets nothing (main.c:510).
THEOREM NothingForgotten == SenderSpec => []NoneForgotten
<1>1. SenderTypeOK /\ CellInv => NoneForgotten
  BY OneInside DEF CellInv, CellMatches, InCell, NoneForgotten
<1> QED
  BY <1>1, CellInvariant, SenderTypeCorrect, PTL

-----------------------------------------------------------------------------
\* A notification that finds a player backed off uses up a tick of its timer.
LEMMA TimersStep == SenderTypeOK /\ TimersCount /\ [SenderNext]_vars => TimersCount'
<1> SUFFICES ASSUME SenderTypeOK, TimersCount, [SenderNext]_vars PROVE TimersCount'
  OBVIOUS
<1>1. CASE TakeMessage
  <2> SUFFICES ASSUME NEW p \in Places
               PROVE IF backOffRequested'[p] = 0 THEN skipped'[p] = 0
                     ELSE skipped'[p] + backOffTimers'[p] <= Ticks + 1
    BY DEF TimersCount
  <2> USE SenderAssumption DEF SenderTypeOK, States, Invited, Accepted, BackOff, Left
  <2>1. /\ skipped'[p] = IF userState'[p] = BackOff THEN skipped[p] + 1 ELSE 0
        /\ userState'[p] = IF Expires(p) THEN Accepted ELSE userState[p]
        /\ backOffRequested'[p] = IF Expires(p) THEN 0 ELSE IF Begins(p) THEN 1
                                  ELSE backOffRequested[p]
        /\ backOffTimers'[p] = IF Begins(p) THEN Ticks ELSE IF Elapses(p)
                               THEN backOffTimers[p] - 1 ELSE backOffTimers[p]
    BY <1>1 DEF TakeMessage, BackOffTick
  <2>2. CASE Expires(p)
    BY <2>1, <2>2 DEF TimersCount
  <2>3. CASE Begins(p)
    BY <2>1, <2>3 DEF TimersCount, Begins
  <2>4. CASE ~Expires(p) /\ ~Begins(p)
    BY <2>1, <2>4 DEF TimersCount, Expires, Begins, Elapses
  <2> QED
    BY <2>2, <2>3, <2>4 DEF Begins
<1>2. CASE UNCHANGED timerVars
  BY <1>2 DEF timerVars, TimersCount
<1> QED
  BY <1>1, <1>2 DEF SenderNext, SenderStep, PartyStep, CallerStep, Call, StoreGroup, Storing,
     StoreResponse, ClearAndWait, Wake, Write, Written, AcceptInvitation, RequestBackOff,
     RequestResume, LeaveGame, SetState, NextGame, vars

\* Whatever is asked for, and however the parties follow one another, no
\* player is backed off for more than Ticks + 1 notifications in a row.
THEOREM BackOffEnds == SenderSpec => []BackOffBounded
<1>1. SenderInit => TimersCount
  BY DEF SenderInit, TimersCount
<1>2. SenderTypeOK /\ TimersCount => BackOffBounded
  BY SenderAssumption DEF SenderTypeOK, TimersCount, BackOffBounded
<1> QED
  BY <1>1, <1>2, TimersStep, SenderTypeCorrect, PTL DEF SenderSpec

-----------------------------------------------------------------------------
(***************************************************************************)
(* Part 2: the game processor (GameProcessor).                             *)
(***************************************************************************)

\* The players who have said HELLO, whether or not it was counted, and those who left.
Ready == {c \in Chars : sessPc[c] \notin {"invited", "hello", "setting"}}
Gone  == {c \in Chars : sessPc[c] = "gone"}

\* The processor has seen the flag of a departure and is about to clear it.
ClearingLabels == {"clearing leaver", "clearing counted"}

\* A departure that is marked and not yet counted.
Marked == IF deInitEnabled = 1 /\ procPc \notin ClearingLabels THEN 1 ELSE 0

\* What was counted, and the flag, never exceed the players that are ready: two of them
\* may share a flag, but nobody is counted twice.
HelloInv ==
    /\ procPc \in WaitingLabels \ {"resetting"} =>
          nClientsInit + initEnabled <= Cardinality(Ready)
    /\ procPc = "greeting" => initEnabled = 1
    /\ procPc \notin WaitingLabels \ {"resetting"} => Ready = Chars

\* Likewise for departures, until everybody has gone.
LeaveInv ==
    /\ NPlayers - inGamePlayers + Marked <= Cardinality(Gone)
    /\ procPc \in {"resetting", "deleting"} => inGamePlayers = 0
    /\ ~listed => Gone = Chars

\* A processor that has been through its game waits for ever, and one that has not has
\* all its rounds before it; the rounds end the game.
RoundsInv ==
    /\ procPc \in WaitingLabels => \/ inGamePlayers = 0 /\ (procPc = "resetting" \/ initEnabled = 0)
                                   \/ inGamePlayers > 0 /\ endCount = EndCount
    /\ procPc \in RealtimeLabels /\ endCount = 0 => procPc = "looping" /\ processEnabled = 0
    /\ procPc \in {"copying", "copied"} => next < NPlayers

\* A mailbox is written only while its flag is clear and read only while it is set, so
\* what is in it, and what was copied, is of one update.  LeftLabels: after the death of
\* the character was reported.
LeftLabels == {"departing", "marking", "gone"}

Whole(state) == state.position = state.projectiles

MailOf(c) ==
    /\ sessPc[c] \in {"writing", "posting"} =>
          newDataFromClient[c] = 0 /\ update[c].number > 0
    /\ sessPc[c] = "writing" => mailbox[c].position = update[c].number
    /\ newDataFromClient[c] = 1 /\ update[c].number = 0 => sessPc[c] \in LeftLabels
    /\ update[c].number > 0 /\ sessPc[c] # "writing" => Whole(mailbox[c])
    /\ procPc \in {"copying", "copied"} /\ next = c =>
          /\ newDataFromClient[c] = 1
          /\ characters[c].position = mailbox[c].position
    /\ \/ procPc = "copying" /\ next = c
       \/ update[c].number = 0 /\ sessPc[c] \in LeftLabels
       \/ Whole(characters[c])

MailInv == \A c \in Chars : MailOf(c)

\* The loop ends because the last judgement found one character or none, or because
\* everybody has left.
Outcome == ActiveChars = IF winner = Draw THEN {} ELSE {winner}

OutcomeInv ==
    /\ procPc \in EndLabels => processEnabled = 0
    /\ procPc \in RealtimeLabels \ {"looping"} /\ processEnabled = 0 => inGamePlayers = 0
    /\ procPc \in EndLabels \cup {"looping"} /\ processEnabled = 0 /\ inGamePlayers > 0 => Outcome

\* The inductive invariant.
ProcInv == ProcTypeOK /\ HelloInv /\ LeaveInv /\ RoundsInv /\ MailInv /\ OutcomeInv

-----------------------------------------------------------------------------
(***************************************************************************)
(* Counting players.                                                       *)
(***************************************************************************)

\* A set of players has at most NPlayers members, and all of them if it has so many.
LEMMA CountChars ==
    ASSUME NEW S \in SUBSET Chars
    PROVE  /\ IsFiniteSet(S) /\ Cardinality(S) \in 0 .. NPlayers
           /\ Cardinality(S) = NPlayers => S = Chars
<1>1. IsFiniteSet(Chars) /\ Cardinality(Chars) = NPlayers /\ NPlayers \in Nat
  BY ProcessorAssumption, FS_Interval DEF Chars
<1>2. /\ IsFiniteSet(S) /\ Cardinality(S) <= NPlayers
      /\ Cardinality(S) = NPlayers => S = Chars
  BY <1>1, FS_Subset
<1>3. Cardinality(S) \in Nat
  BY <1>2, FS_CardinalityType
<1> QED
  BY <1>1, <1>2, <1>3

\* One player more counts for one.
LEMMA CountAdded ==
    ASSUME NEW S \in SUBSET Chars, NEW c \in Chars, c \notin S
    PROVE  Cardinality(S \cup {c}) = Cardinality(S) + 1
  BY CountChars, FS_AddElement

\* A player who is ready stays ready, and one who has gone stays gone.
LEMMA ReadySet == Ready \in SUBSET Chars /\ Gone \in SUBSET Chars
  BY DEF Ready, Gone

\* The fields of a character's state.
LEMMA StateFields ==
    ASSUME NEW state \in CharacterState
    PROVE  /\ state.position \in {Unset} \cup 0 .. Updates
           /\ state.projectiles \in 0 .. Updates
           /\ state.alive \in BOOLEAN
  BY DEF CharacterState

\* Writing its projectiles or its death leaves the position of a character.
LEMMA StateWritten ==
    ASSUME NEW state \in CharacterState, NEW q \in 0 .. Updates
    PROVE  /\ [state EXCEPT !.projectiles = q] \in CharacterState
           /\ [state EXCEPT !.projectiles = q].projectiles = q
           /\ [state EXCEPT !.projectiles = q].position = state.position
           /\ [state EXCEPT !.alive = FALSE] \in CharacterState
           /\ [state EXCEPT !.alive = FALSE].projectiles = state.projectiles
           /\ [state EXCEPT !.alive = FALSE].position = state.position
  BY DEF CharacterState

\* A new game has counted nobody and written nothing.
LEMMA ProcInvInit == ProcInit => ProcInv
<1> SUFFICES ASSUME ProcInit PROVE ProcInv
  OBVIOUS
<1> USE ProcessorAssumption DEF ProcInit
<1>1. Fresh \in CharacterState /\ NewMailbox \in CharacterState
  <2>1. [position |-> 0, projectiles |-> 0, alive |-> TRUE] \in CharacterState
    BY DEF CharacterState
  <2>2. [position |-> Unset, projectiles |-> 0, alive |-> TRUE] \in CharacterState
    BY DEF CharacterState
  <2> QED
    BY <2>1, <2>2 DEF Fresh, NewMailbox
<1>2. ProcTypeOK
  BY <1>1 DEF ProcTypeOK, WaitingLabels, SessionLabels, Nobody
<1>3. HelloInv
  BY ReadySet, CountChars DEF HelloInv, WaitingLabels
<1>4. LeaveInv
  BY ReadySet, CountChars DEF LeaveInv, Marked
<1>5. RoundsInv
  BY DEF RoundsInv, WaitingLabels, RealtimeLabels
<1>6. MailInv
  BY DEF MailInv, MailOf, Whole, Fresh
<1>7. OutcomeInv
  BY DEF OutcomeInv, RealtimeLabels, EndLabels
<1> QED
  BY <1>2, <1>3, <1>4, <1>5, <1>6, <1>7 DEF ProcInv

-----------------------------------------------------------------------------
(***************************************************************************)
(* Types.                                                                  *)
(***************************************************************************)

\* Whoever is counted as a leaver was still counted as playing.
LEMMA LeaverCounted ==
    ASSUME ProcInv, deInitEnabled = 1, procPc \notin ClearingLabels
    PROVE  inGamePlayers > 0
<1>1. NPlayers - inGamePlayers + 1 <= Cardinality(Gone)
  BY DEF ProcInv, LeaveInv, Marked
<1>2. Cardinality(Gone) \in 0 .. NPlayers /\ inGamePlayers \in 0 .. NPlayers
  BY ReadySet, CountChars DEF ProcInv, ProcTypeOK
<1> QED
  BY <1>1, <1>2, ProcessorAssumption

\* The counters and the index of the processor stay in their ranges.
LEMMA CountersInRange ==
    ASSUME ProcInv
    PROVE  /\ Greet => nClientsInit' \in 0 .. NPlayers
           /\ Loop \/ CountLeaver => inGamePlayers' \in 0 .. NPlayers
           /\ NextMailbox => next' \in 0 .. NPlayers
<1>1. /\ NPlayers \in Nat /\ inGamePlayers \in 0 .. NPlayers /\ next \in 0 .. NPlayers
      /\ nClientsInit \in 0 .. NPlayers
  BY ProcessorAssumption DEF ProcInv, ProcTypeOK
<1>2. ASSUME Greet PROVE nClientsInit' \in 0 .. NPlayers
  <2>1. /\ nClientsInit + initEnabled <= Cardinality(Ready) /\ initEnabled = 1
        /\ nClientsInit' = nClientsInit + 1
    BY <1>2 DEF Greet, ProcGoto, ProcInv, HelloInv, WaitingLabels
  <2>2. Cardinality(Ready) \in 0 .. NPlayers
    BY ReadySet, CountChars
  <2> QED
    BY <1>1, <2>1, <2>2
<1>3. ASSUME Loop PROVE inGamePlayers' \in 0 .. NPlayers
  <2>1. \/ inGamePlayers' = inGamePlayers
        \/ /\ inGamePlayers' = inGamePlayers - 1
           /\ deInitEnabled = 1 /\ procPc \notin ClearingLabels
    BY <1>3 DEF Loop, ProcGoto, ClearingLabels
  <2> QED
    BY <1>1, <2>1, LeaverCounted
<1>4. ASSUME CountLeaver PROVE inGamePlayers' \in 0 .. NPlayers
  <2>1. \/ inGamePlayers' = inGamePlayers
        \/ inGamePlayers' = inGamePlayers - 1 /\ inGamePlayers > 0
    BY <1>4 DEF CountLeaver
  <2> QED
    BY <1>1, <2>1
<1>5. ASSUME NextMailbox PROVE next' \in 0 .. NPlayers
  <2> QED
    BY <1>1, <1>5 DEF NextMailbox
<1> QED
  BY <1>2, <1>3, <1>4, <1>5

\* No player is a draw, nor nobody.
LEMMA PlayersAreNat == ASSUME NEW c \in Chars PROVE c \in Nat /\ c # Draw /\ c # Nobody
  BY ProcessorAssumption DEF Chars, Draw, Nobody

\* The loop over the mailboxes starts within the range of its index.
LEMMA FirstIndex == 0 \in 0 .. NPlayers
<1>1. NPlayers \in Nat
  BY ProcessorAssumption
<1> QED
  BY <1>1

\* The index is that of a player while a mailbox is read.
LEMMA IndexIsPlayer ==
    ASSUME ProcInv, next < NPlayers
    PROVE  next \in Chars
  BY ProcessorAssumption DEF ProcInv, ProcTypeOK, Chars

\* The processor keeps the types of the flags, the counters and the index.
LEMMA ProcStepTypes == ASSUME ProcInv, ProcStep PROVE ProcTypeOK'
<1> USE ProcessorAssumption
        DEF ProcInv, ProcTypeOK, ProcGoto, flagVars, mailVars, sessionVars, WaitingLabels,
            RealtimeLabels, EndLabels
<1>1. CASE Reset
  BY <1>1 DEF Reset
<1>2. CASE TestInit \/ FallAsleep
  BY <1>2 DEF TestInit, FallAsleep
<1>3. CASE Greet
  <2>1. nClientsInit' \in 0 .. NPlayers
    BY <1>3, CountersInRange
  <2>2. initEnabled' \in {0, 1} /\ processEnabled' \in {0, 1} /\ procPc' \in {"looping", "testing"}
    BY <1>3 DEF Greet
  <2> QED
    BY <1>3, <2>1, <2>2 DEF Greet
<1>4. CASE Loop
  <2>1. inGamePlayers' \in 0 .. NPlayers
    BY <1>4, CountersInRange
  <2>2. processEnabled' \in {0, 1} /\ procPc' \in {"ending", "mailbox", "clearing leaver"}
    BY <1>4 DEF Loop
  <2>3. /\ next' = 0
        /\ UNCHANGED <<initEnabled, deInitEnabled, mailVars, nClientsInit, endCount, characters,
                       winner, listed, sessionVars>>
    BY <1>4 DEF Loop
  <2>4. 0 \in 0 .. NPlayers
    BY FirstIndex
  <2> QED
    BY <2>1, <2>2, <2>3, <2>4
<1>5. CASE ClearLeaver \/ ClearCounted
  BY <1>5 DEF ClearLeaver, ClearCounted
<1>6. CASE NextMailbox
  <2>1. /\ next' \in 0 .. NPlayers
        /\ procPc' \in {"judging", "mailbox", "copying"}
    BY <1>6, CountersInRange DEF NextMailbox
  <2>2. characters' \in [Chars -> CharacterState]
    <3>1. CASE UNCHANGED characters
      BY <3>1
    <3>2. CASE /\ next < NPlayers
               /\ characters' = [characters EXCEPT ![next] =
                                   [mailbox[next] EXCEPT
                                       !.projectiles = characters[next].projectiles]]
      <4>1. next \in Chars
        BY <3>2, IndexIsPlayer
      <4>2. [mailbox[next] EXCEPT !.projectiles = characters[next].projectiles]
                \in CharacterState
        BY <4>1, StateFields, StateWritten
      <4> QED
        BY <3>2, <4>1, <4>2
    <3> QED
      BY <1>6, <3>1, <3>2 DEF NextMailbox
  <2> QED
    BY <1>6, <2>1, <2>2 DEF NextMailbox
<1>7. CASE CopyProjectiles
  <2>1. next \in Chars
    BY <1>7, IndexIsPlayer DEF CopyProjectiles, RoundsInv
  <2>2. [characters[next] EXCEPT !.projectiles = mailbox[next].projectiles] \in CharacterState
    BY <2>1, StateFields, StateWritten
  <2>3. characters' \in [Chars -> CharacterState]
    BY <1>7, <2>1, <2>2 DEF CopyProjectiles
  <2> QED
    BY <1>7, <2>3 DEF CopyProjectiles
<1>8. CASE ClearMailbox
  <2>1. next + 1 \in 0 .. NPlayers
    BY <1>8 DEF ClearMailbox, RoundsInv
  <2> QED
    BY <1>8, <2>1 DEF ClearMailbox
<1>9. CASE Judge
  <2>1. endCount' \in 0 .. EndCount
    BY <1>9 DEF Judge, RoundsInv
  <2>2. winner' \in Chars \cup {Nobody, Draw} /\ processEnabled' \in {0, 1}
    BY <1>9 DEF Judge, ActiveChars
  <2> QED
    BY <1>9, <2>1, <2>2 DEF Judge
<1>10. CASE End \/ DeleteGame
  BY <1>10 DEF End, DeleteGame
<1>11. CASE CountLeaver
  <2>1. inGamePlayers' \in 0 .. NPlayers
    BY <1>11, CountersInRange
  <2> QED
    BY <1>11, <2>1 DEF CountLeaver
<1> QED
  BY <1>1, <1>2, <1>3, <1>4, <1>5, <1>6, <1>7, <1>8, <1>9, <1>10, <1>11 DEF ProcStep

\* So do the sessions, and those of the mailboxes.
LEMMA SessionTypes ==
    ASSUME ProcInv, NEW c \in Chars, SessStep(c) \/ RequestStep(c)
    PROVE  ProcTypeOK'
<1> USE ProcessorAssumption
        DEF ProcInv, ProcTypeOK, SessGoto, flagVars, mailVars, procVars, SessionLabels
<1>1. CASE Hello(c) \/ SeeInitFree(c) \/ SetInit(c)
  BY <1>1 DEF Hello, SeeInitFree, SetInit
<1>2. CASE SignalInit(c)
  BY <1>2 DEF SignalInit, WaitingLabels
<1>3. ASSUME NEW alive \in BOOLEAN, ReceiveUpdate(c, alive) PROVE ProcTypeOK'
  <2>1. update[c].number + 1 \in 0 .. Updates
    BY <1>3 DEF ReceiveUpdate
  <2>2. update' \in [Chars -> [number : 0 .. Updates, alive : BOOLEAN]]
    BY <1>3, <2>1 DEF ReceiveUpdate
  <2>3. SentState(c, alive) \in CharacterState
    BY <2>1, StateFields DEF SentState, CharacterState
  <2>4. mailbox' \in [Chars -> CharacterState]
    BY <1>3, <2>3 DEF ReceiveUpdate
  <2>5. sessPc' \in [Chars -> SessionLabels]
    BY <1>3 DEF ReceiveUpdate
  <2> QED
    BY <1>3, <2>2, <2>4, <2>5 DEF ReceiveUpdate
<1>4. CASE WriteProjectiles(c)
  <2>1. [mailbox[c] EXCEPT !.projectiles = update[c].number] \in CharacterState
    BY StateFields, StateWritten
  <2> QED
    BY <1>4, <2>1 DEF WriteProjectiles
<1>5. CASE PostUpdate(c) \/ ReportDeath(c)
  BY <1>5 DEF PostUpdate, ReportDeath
<1>6. CASE Weaken(c)
  <2>1. [mailbox[c] EXCEPT !.alive = FALSE] \in CharacterState
    <3>1. 0 \in 0 .. Updates /\ mailbox[c] \in CharacterState
      OBVIOUS
    <3> QED
      BY <3>1, StateWritten
  <2> QED
    BY <1>6, <2>1 DEF Weaken
<1>7. CASE Leave(c) \/ SeeDeInitFree(c) \/ SetDeInit(c)
  BY <1>7 DEF Leave, SeeDeInitFree, SetDeInit
<1> QED
  BY <1>1, <1>2, <1>3, <1>4, <1>5, <1>6, <1>7 DEF SessStep, RequestStep

-----------------------------------------------------------------------------
(***************************************************************************)
(* HELLO.                                                                  *)
(***************************************************************************)

\* What the sessions do to the flags of HELLO and LEAVE, and to the processor.
SameProcessor == /\ procPc' = procPc \/ (procPc = "asleep" /\ procPc' = "testing")
                 /\ UNCHANGED <<processEnabled, nClientsInit, inGamePlayers, endCount, next,
                                characters, winner, listed>>

SameOrReady(c) == \/ Ready' = Ready /\ initEnabled' = initEnabled
                  \/ /\ Ready' = Ready \cup {c} /\ c \notin Ready /\ initEnabled' = 1
                     /\ sessPc[c] = "setting"

SameOrGone(c) == \/ Gone' = Gone /\ deInitEnabled' = deInitEnabled
                 \/ Gone' = Gone \cup {c} /\ c \notin Gone /\ deInitEnabled' = 1

\* It is no more than that.
LEMMA SessionFlags ==
    ASSUME ProcInv, NEW c \in Chars, SessStep(c) \/ RequestStep(c)
    PROVE  SameProcessor /\ SameOrReady(c) /\ SameOrGone(c)
<1> DEFINE Early == {"invited", "hello", "setting"}
<1>1. sessPc \in [Chars -> SessionLabels]
  BY DEF ProcInv, ProcTypeOK
<1>2. ASSUME \A d \in Chars \ {c} : sessPc'[d] = sessPc[d]
      PROVE  /\ (sessPc[c] \in Early <=> sessPc'[c] \in Early) => Ready' = Ready
             /\ sessPc[c] \in Early /\ sessPc'[c] \notin Early =>
                   Ready' = Ready \cup {c} /\ c \notin Ready
             /\ sessPc[c] # "gone" /\ sessPc'[c] # "gone" => Gone' = Gone
             /\ sessPc[c] # "gone" /\ sessPc'[c] = "gone" =>
                   Gone' = Gone \cup {c} /\ c \notin Gone
  BY <1>2 DEF Ready, Gone
<1>3. ASSUME NEW from, NEW to, SessGoto(c, from, to)
      PROVE  /\ sessPc[c] = from /\ sessPc'[c] = to
             /\ \A d \in Chars \ {c} : sessPc'[d] = sessPc[d]
  BY <1>1, <1>3 DEF SessGoto
<1>4. ASSUME Hello(c) \/ SeeInitFree(c) \/ SeeDeInitFree(c) \/ Leave(c)
      PROVE  Ready' = Ready /\ Gone' = Gone /\ UNCHANGED <<flagVars, procVars>>
  BY <1>2, <1>3, <1>4 DEF Hello, SeeInitFree, SeeDeInitFree, Leave
<1>5. ASSUME SetInit(c)
      PROVE  /\ Ready' = Ready \cup {c} /\ c \notin Ready /\ initEnabled' = 1
             /\ sessPc[c] = "setting" /\ Gone' = Gone
             /\ UNCHANGED <<deInitEnabled, processEnabled, procVars>>
  BY <1>2, <1>3, <1>5 DEF SetInit
<1>6. ASSUME SignalInit(c)
      PROVE  /\ procPc' = procPc \/ (procPc = "asleep" /\ procPc' = "testing")
             /\ Ready' = Ready /\ Gone' = Gone
             /\ UNCHANGED <<flagVars, nClientsInit, inGamePlayers, endCount, next, characters,
                            winner, listed>>
  <2>1. procPc' = procPc \/ (procPc = "asleep" /\ procPc' = "testing")
    BY <1>6 DEF SignalInit
  <2>2. Ready' = Ready /\ Gone' = Gone
    BY <1>2, <1>3, <1>6 DEF SignalInit
  <2> QED
    BY <1>6, <2>1, <2>2 DEF SignalInit
<1>7. ASSUME NEW alive \in BOOLEAN, ReceiveUpdate(c, alive)
      PROVE  Ready' = Ready /\ Gone' = Gone /\ UNCHANGED <<flagVars, procVars>>
  <2>1. CASE SessGoto(c, "playing", "writing")
    BY <1>2, <1>3, <1>7, <2>1 DEF ReceiveUpdate
  <2>2. CASE UNCHANGED sessPc
    BY <1>7, <2>2 DEF ReceiveUpdate, Ready, Gone
  <2> QED
    BY <1>7, <2>1, <2>2 DEF ReceiveUpdate
<1>8. ASSUME WriteProjectiles(c) \/ PostUpdate(c) \/ Weaken(c) \/ ReportDeath(c)
      PROVE  Ready' = Ready /\ Gone' = Gone /\ UNCHANGED <<flagVars, procVars>>
  BY <1>2, <1>3, <1>8 DEF WriteProjectiles, PostUpdate, Weaken, ReportDeath
<1>9. ASSUME SetDeInit(c)
      PROVE  /\ Gone' = Gone \cup {c} /\ c \notin Gone /\ deInitEnabled' = 1
             /\ Ready' = Ready
             /\ UNCHANGED <<initEnabled, processEnabled, procVars>>
  BY <1>2, <1>3, <1>9 DEF SetDeInit
<1>10. ASSUME Ready' = Ready /\ Gone' = Gone /\ UNCHANGED <<flagVars, procVars>>
       PROVE  SameProcessor /\ SameOrReady(c) /\ SameOrGone(c)
  BY <1>10 DEF SameProcessor, SameOrReady, SameOrGone, flagVars, procVars
<1>11. CASE SetInit(c)
  BY <1>5, <1>11 DEF SameProcessor, SameOrReady, SameOrGone, procVars
<1>12. CASE SignalInit(c)
  BY <1>6, <1>12 DEF SameProcessor, SameOrReady, SameOrGone, flagVars
<1>13. CASE SetDeInit(c)
  BY <1>9, <1>13 DEF SameProcessor, SameOrReady, SameOrGone, procVars
<1> QED
  BY <1>4, <1>7, <1>8, <1>10, <1>11, <1>12, <1>13 DEF SessStep, RequestStep

\* The processor leaves the sessions alone, and what they have put in the mailboxes.
LEMMA ProcessorLeaves == ProcStep => UNCHANGED sessionVars /\ UNCHANGED mailbox
  BY DEF mailVars, ProcStep, Reset, TestInit, FallAsleep, Greet, Loop, ClearLeaver, NextMailbox,
         CopyProjectiles, ClearMailbox, Judge, End, CountLeaver, ClearCounted, DeleteGame

\* No HELLO is counted twice.
LEMMA HelloStep == ASSUME ProcInv, ProcNext PROVE HelloInv'
<1> USE DEF WaitingLabels
<1>1. /\ NPlayers \in Nat /\ nClientsInit \in 0 .. NPlayers /\ initEnabled \in {0, 1}
      /\ Cardinality(Ready) \in 0 .. NPlayers /\ Ready \in SUBSET Chars
      /\ Cardinality(Ready) = NPlayers => Ready = Chars
  BY ProcessorAssumption, ReadySet, CountChars DEF ProcInv, ProcTypeOK
<1>2. HelloInv
  BY DEF ProcInv
<1>3. ASSUME ProcStep PROVE HelloInv'
  <2>1. Ready' = Ready
    BY <1>3, ProcessorLeaves DEF Ready, sessionVars
  <2>2. CASE Reset
    BY <1>1, <1>2, <2>1, <2>2 DEF Reset, ProcGoto, HelloInv
  <2>3. CASE TestInit \/ FallAsleep
    BY <1>1, <1>2, <2>1, <2>3 DEF TestInit, FallAsleep, ProcGoto, HelloInv, flagVars
  <2>4. CASE Greet
    <3>1. nClientsInit + 1 <= Cardinality(Ready)
      BY <1>2, <2>4 DEF Greet, ProcGoto, HelloInv
    <3>4. /\ nClientsInit' = nClientsInit + 1
          /\ \/ procPc' = "looping" /\ nClientsInit' >= NPlayers
             \/ procPc' = "testing" /\ initEnabled' = 0
      BY <2>4 DEF Greet, ProcGoto
    <3>2. CASE procPc' = "looping" /\ nClientsInit' >= NPlayers
      <4>1. Cardinality(Ready) = NPlayers
        BY <1>1, <3>1, <3>2, <3>4
      <4> QED
        BY <1>1, <2>1, <3>2, <4>1 DEF HelloInv
    <3>3. CASE procPc' = "testing" /\ initEnabled' = 0
      BY <1>1, <2>1, <3>1, <3>3, <3>4 DEF HelloInv
    <3> QED
      BY <3>2, <3>3, <3>4
  <2>5. ASSUME procPc \notin WaitingLabels, procPc' \notin WaitingLabels \ {"resetting"}
        PROVE  HelloInv'
    BY <1>2, <2>1, <2>5 DEF HelloInv
  <2>6. CASE Loop \/ ClearLeaver \/ NextMailbox \/ CopyProjectiles \/ ClearMailbox \/ Judge
    BY <2>5, <2>6 DEF Loop, ClearLeaver, NextMailbox, CopyProjectiles, ClearMailbox, Judge, ProcGoto
  <2>7. CASE End \/ CountLeaver \/ ClearCounted \/ DeleteGame
    BY <2>5, <2>7 DEF End, CountLeaver, ClearCounted, DeleteGame, ProcGoto
  <2> QED
    BY <1>3, <2>2, <2>3, <2>4, <2>6, <2>7 DEF ProcStep
<1>4. ASSUME NEW c \in Chars, SessStep(c) \/ RequestStep(c) PROVE HelloInv'
  <2>1. UNCHANGED nClientsInit
        /\ (procPc' = procPc \/ (procPc = "asleep" /\ procPc' = "testing"))
    BY <1>4, SessionFlags DEF SameProcessor
  <2>2. CASE Ready' = Ready /\ initEnabled' = initEnabled
    BY <1>2, <2>1, <2>2 DEF HelloInv
  <2>3. CASE Ready' = Ready \cup {c} /\ c \notin Ready /\ initEnabled' = 1
    <3>1. Cardinality(Ready') = Cardinality(Ready) + 1
      BY <1>1, <2>3, CountAdded
    <3>2. Cardinality(Ready') \in Nat /\ Ready' \in SUBSET Chars /\ nClientsInit + 1 \in Nat
      BY <1>1, <2>3, <3>1
    <3>3. procPc' \in WaitingLabels \ {"resetting"} =>
             nClientsInit' + initEnabled' <= Cardinality(Ready')
      <4>1. procPc' \in WaitingLabels \ {"resetting"} =>
               nClientsInit + initEnabled <= Cardinality(Ready)
        BY <1>2, <2>1 DEF HelloInv
      <4>2. nClientsInit + initEnabled <= Cardinality(Ready) =>
               nClientsInit + 1 <= Cardinality(Ready) + 1
        BY <1>1
      <4>3. nClientsInit' = nClientsInit /\ initEnabled' = 1
        BY <2>1, <2>3
      <4> QED
        BY <3>1, <4>1, <4>2, <4>3
    <3>4. procPc' = "greeting" => initEnabled' = 1
      BY <2>3
    <3>5. procPc' \notin WaitingLabels \ {"resetting"} => Ready' = Chars
      BY <1>2, <2>1, <2>3, <3>2 DEF HelloInv
    <3> QED
      BY <3>3, <3>4, <3>5 DEF HelloInv
  <2> QED
    BY <1>4, <2>2, <2>3, SessionFlags DEF SameOrReady
<1> QED
  BY <1>3, <1>4 DEF ProcNext

-----------------------------------------------------------------------------
(***************************************************************************)
(* LEAVE.                                                                  *)
(***************************************************************************)

\* No departure is counted twice.
LEMMA LeaveStep == ASSUME ProcInv, ProcNext PROVE LeaveInv'
<1> USE DEF ClearingLabels
<1>1. /\ NPlayers \in Nat /\ inGamePlayers \in 0 .. NPlayers /\ deInitEnabled \in {0, 1}
      /\ Cardinality(Gone) \in 0 .. NPlayers /\ Gone \in SUBSET Chars
      /\ Cardinality(Gone) = NPlayers => Gone = Chars
  BY ProcessorAssumption, ReadySet, CountChars DEF ProcInv, ProcTypeOK
<1>2. LeaveInv
  BY DEF ProcInv
<1>3. ASSUME ProcStep PROVE LeaveInv'
  <2>1. Gone' = Gone
    BY <1>3, ProcessorLeaves DEF Gone, sessionVars
  <2>2. CASE Reset
    BY <1>1, <1>2, <2>1, <2>2 DEF Reset, ProcGoto, LeaveInv, Marked
  <2>3. ASSUME UNCHANGED <<deInitEnabled, inGamePlayers, listed>>,
               procPc \notin ClearingLabels, procPc' \notin ClearingLabels \cup {"resetting", "deleting"}
        PROVE  LeaveInv'
    BY <1>2, <2>1, <2>3 DEF LeaveInv, Marked
  <2>4. CASE TestInit \/ FallAsleep \/ Greet
    BY <2>3, <2>4 DEF TestInit, FallAsleep, Greet, ProcGoto, flagVars
  <2>5. CASE Loop
    <3>1. LeaveInv' \/ procPc' = "clearing leaver"
      BY <2>3, <2>5 DEF Loop, ProcGoto
    <3>2. CASE procPc' = "clearing leaver"
      <4>1. /\ inGamePlayers' = inGamePlayers - 1 /\ UNCHANGED <<deInitEnabled, listed>>
            /\ deInitEnabled = 1 /\ procPc = "looping"
        BY <2>5, <3>2 DEF Loop, ProcGoto
      <4>2. Marked = 1 /\ Marked' = 0
        BY <3>2, <4>1 DEF Marked
      <4>3. NPlayers - inGamePlayers + 1 <= Cardinality(Gone)
        BY <1>2, <4>2 DEF LeaveInv
      <4>4. NPlayers - inGamePlayers' + Marked' <= Cardinality(Gone)
        BY <1>1, <4>1, <4>2, <4>3
      <4> QED
        BY <1>2, <2>1, <3>2, <4>1, <4>4 DEF LeaveInv
    <3> QED
      BY <3>1, <3>2
  <2>6. CASE ClearLeaver \/ ClearCounted
    BY <1>1, <1>2, <2>1, <2>6 DEF ClearLeaver, ClearCounted, ProcGoto, LeaveInv, Marked
  <2>7. CASE NextMailbox \/ CopyProjectiles \/ ClearMailbox \/ Judge
    BY <2>3, <2>7 DEF NextMailbox, CopyProjectiles, ClearMailbox, Judge, ProcGoto, flagVars
  <2>8. CASE End \/ CountLeaver
    <3>1. CASE \/ procPc = "ending" /\ UNCHANGED inGamePlayers
               \/ procPc = "counting" /\ UNCHANGED inGamePlayers /\ procPc' = "deleting"
      <4>1. /\ UNCHANGED <<deInitEnabled, inGamePlayers, listed>>
            /\ procPc \notin ClearingLabels /\ procPc' \notin ClearingLabels
        BY <2>8, <3>1 DEF End, CountLeaver, ProcGoto, flagVars
      <4>2. procPc' \in {"resetting", "deleting"} => inGamePlayers <= 0
        BY <2>8, <3>1 DEF End, CountLeaver, ProcGoto
      <4>3. inGamePlayers <= 0 => inGamePlayers = 0
        BY <1>1
      <4> QED
        BY <1>2, <2>1, <4>1, <4>2, <4>3 DEF LeaveInv, Marked
    <3>2. CASE procPc = "counting" /\ procPc' = "clearing counted"
      <4>1. /\ inGamePlayers' = inGamePlayers - 1 /\ UNCHANGED <<deInitEnabled, listed>>
            /\ deInitEnabled = 1
        BY <2>8, <3>2 DEF End, CountLeaver, ProcGoto, flagVars
      <4>2. Marked = 1 /\ Marked' = 0
        BY <3>2, <4>1 DEF Marked
      <4>3. NPlayers - inGamePlayers + 1 <= Cardinality(Gone)
        BY <1>2, <4>2 DEF LeaveInv
      <4>4. NPlayers - inGamePlayers' + Marked' <= Cardinality(Gone)
        BY <1>1, <4>1, <4>2, <4>3
      <4> QED
        BY <1>2, <2>1, <3>2, <4>1, <4>4 DEF LeaveInv
    <3> QED
      BY <2>8, <3>1, <3>2 DEF End, CountLeaver, ProcGoto
  <2>9. CASE DeleteGame
    BY <1>1, <1>2, <2>1, <2>9 DEF DeleteGame, ProcGoto, LeaveInv, Marked, flagVars
  <2> QED
    BY <1>3, <2>2, <2>4, <2>5, <2>6, <2>7, <2>8, <2>9 DEF ProcStep
<1>4. ASSUME NEW c \in Chars, SessStep(c) \/ RequestStep(c) PROVE LeaveInv'
  <2>1. UNCHANGED <<inGamePlayers, listed>>
        /\ (procPc' = procPc \/ (procPc = "asleep" /\ procPc' = "testing"))
    BY <1>4, SessionFlags DEF SameProcessor
  <2>2. CASE Gone' = Gone /\ deInitEnabled' = deInitEnabled
    BY <1>2, <2>1, <2>2 DEF LeaveInv, Marked
  <2>3. CASE Gone' = Gone \cup {c} /\ c \notin Gone /\ deInitEnabled' = 1
    <3>1. Cardinality(Gone') = Cardinality(Gone) + 1
      BY <1>1, <2>3, CountAdded
    <3> QED
      <4>1. NPlayers - inGamePlayers + Marked <= Cardinality(Gone)
        BY <1>2 DEF LeaveInv
      <4>2. Marked \in {0, 1} /\ Marked' \in {0, 1}
        BY DEF Marked
      <4>3. NPlayers - inGamePlayers' + Marked' <= Cardinality(Gone')
        BY <1>1, <2>1, <3>1, <4>1, <4>2
      <4>4. listed
        BY <1>2, <2>3 DEF LeaveInv
      <4> QED
        BY <1>2, <2>1, <4>3, <4>4 DEF LeaveInv
  <2> QED
    BY <1>4, <2>2, <2>3, SessionFlags DEF SameOrGone
<1> QED
  BY <1>3, <1>4 DEF ProcNext

-----------------------------------------------------------------------------
(***************************************************************************)
(* Rounds.                                                                 *)
(***************************************************************************)

\* When nobody is counted as playing, everybody has gone.
LEMMA NobodyPlays == ASSUME ProcInv, inGamePlayers = 0 PROVE Gone = Chars
<1>1. NPlayers - inGamePlayers + Marked <= Cardinality(Gone)
  BY DEF ProcInv, LeaveInv
<1>2. /\ Cardinality(Gone) \in 0 .. NPlayers /\ NPlayers \in Nat
      /\ Cardinality(Gone) = NPlayers => Gone = Chars
  BY ReadySet, CountChars, ProcessorAssumption
<1>3. Marked \in {0, 1}
  BY DEF Marked
<1>4. Cardinality(Gone) = NPlayers
  BY <1>1, <1>2, <1>3
<1> QED
  BY <1>2, <1>4

\* The game has its rounds before it until it starts, and none once it is over.
LEMMA RoundsStep == ASSUME ProcInv, ProcNext PROVE RoundsInv'
<1>1. /\ NPlayers \in Nat /\ EndCount \in Nat /\ EndCount > 0
      /\ inGamePlayers \in 0 .. NPlayers /\ endCount \in 0 .. EndCount
  BY ProcessorAssumption DEF ProcInv, ProcTypeOK
<1>2. RoundsInv
  BY DEF ProcInv
<1>3. CASE Reset \/ TestInit \/ FallAsleep
  BY <1>2, <1>3
  DEF Reset, TestInit, FallAsleep, ProcGoto, RoundsInv, LeaveInv, ProcInv, flagVars,
      WaitingLabels, RealtimeLabels
<1>4. CASE Greet
  <2>1. initEnabled = 1
    BY <1>4 DEF Greet, ProcGoto, ProcInv, HelloInv
  <2>2. procPc = "greeting" /\ UNCHANGED <<inGamePlayers, endCount>>
    BY <1>4 DEF Greet, ProcGoto
  <2>3. procPc' = "looping" \/ procPc' = "testing"
    BY <1>4 DEF Greet, ProcGoto
  <2>4. inGamePlayers > 0 /\ endCount = EndCount
    BY <1>2, <2>1, <2>2 DEF RoundsInv, WaitingLabels
  <2>5. endCount' # 0 /\ inGamePlayers' > 0 /\ endCount' = EndCount
    BY <1>1, <2>2, <2>4
  <2> QED
    BY <2>3, <2>5 DEF RoundsInv
<1>5. CASE Loop
  <2>1. procPc = "looping" /\ endCount' = endCount
    BY <1>5 DEF Loop, ProcGoto
  <2>2. CASE procPc' = "ending"
    BY <2>2 DEF RoundsInv, WaitingLabels, RealtimeLabels
  <2>3. CASE procPc' \in {"mailbox", "clearing leaver"} /\ processEnabled # 0
    <3>1. endCount # 0
      BY <1>2, <2>1, <2>3 DEF RoundsInv, RealtimeLabels
    <3> QED
      BY <2>1, <2>3, <3>1 DEF RoundsInv, WaitingLabels, RealtimeLabels
  <2>4. procPc' = "ending" \/ (procPc' \in {"mailbox", "clearing leaver"} /\ processEnabled = 1)
    BY <1>5 DEF Loop, ProcGoto
  <2>5. processEnabled = 1 => processEnabled # 0
    OBVIOUS
  <2> QED
    BY <2>2, <2>3, <2>4, <2>5
<1>6. CASE ClearLeaver \/ NextMailbox \/ CopyProjectiles \/ ClearMailbox
  <2>1. /\ procPc \in RealtimeLabels \ {"looping"} /\ procPc' \in RealtimeLabels \ {"looping"}
        /\ UNCHANGED endCount
    BY <1>6
    DEF ClearLeaver, NextMailbox, CopyProjectiles, ClearMailbox, ProcGoto, RealtimeLabels
  <2>2. procPc' \in {"copying", "copied"} => next' < NPlayers
    BY <1>2, <1>6
    DEF ClearLeaver, NextMailbox, CopyProjectiles, ClearMailbox, ProcGoto, RoundsInv
  <2> QED
    BY <1>2, <2>1, <2>2 DEF RoundsInv, WaitingLabels, RealtimeLabels
<1>7. CASE Judge
  <2>1. procPc = "judging" /\ procPc' = "looping"
    BY <1>7 DEF Judge, ProcGoto
  <2>2. endCount # 0
    BY <1>2, <2>1 DEF RoundsInv, RealtimeLabels
  <2>3. endCount' = endCount \/ (endCount' <= 0 => processEnabled' = 0)
    BY <1>7 DEF Judge
  <2>4. endCount' = 0 => processEnabled' = 0
    BY <2>2, <2>3
  <2> QED
    BY <2>1, <2>4 DEF RoundsInv, WaitingLabels, RealtimeLabels
<1>8. CASE End
  <2>1. \/ inGamePlayers <= 0 /\ procPc' = "resetting"
        \/ procPc' = "counting"
    BY <1>8 DEF End, ProcGoto
  <2>2. inGamePlayers' = inGamePlayers
    BY <1>8 DEF End
  <2>3. inGamePlayers <= 0 => inGamePlayers = 0
    BY <1>1
  <2> QED
    BY <2>1, <2>2, <2>3 DEF RoundsInv, WaitingLabels, RealtimeLabels
<1>9. CASE CountLeaver \/ ClearCounted
  BY <1>9 DEF CountLeaver, ClearCounted, ProcGoto, RoundsInv, WaitingLabels, RealtimeLabels
<1>10. CASE DeleteGame
  BY <1>10 DEF DeleteGame, ProcGoto, RoundsInv, ProcInv, LeaveInv, WaitingLabels, RealtimeLabels
<1>11. ASSUME NEW c \in Chars, SessStep(c) \/ RequestStep(c) PROVE RoundsInv'
  <2>1. SameProcessor /\ SameOrReady(c)
    BY <1>11, SessionFlags
  <2>2. CASE initEnabled' = initEnabled
    BY <1>2, <2>1, <2>2 DEF SameProcessor, RoundsInv, WaitingLabels, RealtimeLabels
  <2>3. CASE sessPc[c] = "setting"
    <3>1. inGamePlayers # 0
      BY <2>3, NobodyPlays DEF Gone
    <3> QED
      BY <1>1, <1>2, <2>1, <3>1 DEF SameProcessor, RoundsInv, WaitingLabels, RealtimeLabels
  <2> QED
    BY <2>1, <2>2, <2>3 DEF SameOrReady
<1> QED
  BY <1>3, <1>4, <1>5, <1>6, <1>7, <1>8, <1>9, <1>10, <1>11 DEF ProcNext, ProcStep

-----------------------------------------------------------------------------
(***************************************************************************)
(* The outcome.                                                            *)
(***************************************************************************)

\* What ends the loop is a judgement of the state that goes out, or the last departure.
LEMMA OutcomeStep == ASSUME ProcInv, ProcNext PROVE OutcomeInv'
<1>1. NPlayers \in Nat /\ inGamePlayers \in 0 .. NPlayers /\ processEnabled \in {0, 1}
  BY ProcessorAssumption DEF ProcInv, ProcTypeOK
<1>2. OutcomeInv
  BY DEF ProcInv
<1>3. CASE Reset \/ TestInit \/ FallAsleep
  BY <1>3 
  DEF Reset, TestInit, FallAsleep, ProcGoto, OutcomeInv, RealtimeLabels, EndLabels
<1>4. CASE Greet
  <2>1. CASE procPc' = "looping" /\ processEnabled' # 0
    BY <2>1 DEF OutcomeInv, RealtimeLabels, EndLabels
  <2>2. CASE procPc' = "testing"
    BY <2>2 DEF OutcomeInv, RealtimeLabels, EndLabels
  <2> QED
    BY <1>4, <2>1, <2>2 DEF Greet, ProcGoto
<1>5. CASE Loop
  <2>1. Outcome' = Outcome
    BY <1>5 DEF Loop, Outcome, ActiveChars
  <2>2. CASE procPc' = "ending"
    BY <1>2, <1>5, <2>1, <2>2 DEF Loop, ProcGoto, OutcomeInv, RealtimeLabels, EndLabels
  <2>3. CASE procPc' = "mailbox"
    BY <1>5, <2>3 DEF Loop, ProcGoto, OutcomeInv, RealtimeLabels, EndLabels
  <2>4. CASE procPc' = "clearing leaver"
    <3>1. inGamePlayers' \in 0 .. NPlayers
      BY <1>5, CountersInRange
    <3>2. processEnabled' = IF inGamePlayers' <= 0 THEN 0 ELSE processEnabled
      BY <1>5, <2>4 DEF Loop, ProcGoto
    <3>3. processEnabled = 1
      BY <1>5, <2>4 DEF Loop, ProcGoto
    <3>4. processEnabled' = 0 => inGamePlayers' <= 0
      BY <3>2, <3>3
    <3>5. inGamePlayers' <= 0 => inGamePlayers' = 0
      BY <1>1, <3>1
    <3> QED
      BY <2>4, <3>4, <3>5 DEF OutcomeInv, RealtimeLabels, EndLabels
  <2> QED
    BY <1>5, <2>2, <2>3, <2>4 DEF Loop, ProcGoto
<1>6. CASE ClearLeaver \/ NextMailbox \/ CopyProjectiles \/ ClearMailbox
  <2>1. /\ procPc \in RealtimeLabels \ {"looping"} /\ procPc' \in RealtimeLabels \ {"looping"}
        /\ UNCHANGED <<processEnabled, inGamePlayers>>
    BY <1>6
    DEF ClearLeaver, NextMailbox, CopyProjectiles, ClearMailbox, ProcGoto, flagVars,
          RealtimeLabels
  <2> QED
    BY <1>2, <2>1 DEF OutcomeInv, RealtimeLabels, EndLabels
<1>7. CASE Judge
  <2>1. /\ procPc = "judging" /\ procPc' = "looping"
        /\ UNCHANGED <<inGamePlayers, characters>>
    BY <1>7 DEF Judge, ProcGoto
  <2>2. CASE processEnabled = 0
    BY <1>2, <2>1, <2>2 DEF OutcomeInv, RealtimeLabels, EndLabels
  <2>3. CASE processEnabled = 1
    <3>1. ActiveChars' = ActiveChars /\ ActiveChars \in SUBSET Chars
      BY <2>1 DEF ActiveChars
    <3>2. CASE processEnabled' = processEnabled
      BY <2>1, <2>3, <3>2 DEF OutcomeInv, RealtimeLabels, EndLabels
    <3>3. CASE ActiveChars = {} /\ winner' = Draw
      BY <2>1, <3>1, <3>3 DEF OutcomeInv, Outcome, RealtimeLabels, EndLabels
    <3>4. CASE Cardinality(ActiveChars) = 1 /\ \E c \in ActiveChars : winner' = c
      <4>1. PICK c \in ActiveChars : winner' = c
        BY <3>4
      <4>2. ActiveChars = {c}
        BY <3>1, <3>4, <4>1, CountChars, FS_Singleton
      <4>3. c # Draw
        BY <3>1, <4>1, PlayersAreNat
      <4> QED
        BY <2>1, <3>1, <4>1, <4>2, <4>3 DEF OutcomeInv, Outcome, Draw, RealtimeLabels, EndLabels
    <3> QED
      BY <1>7, <3>2, <3>3, <3>4 DEF Judge
  <2> QED
    BY <1>1, <2>2, <2>3
<1>8. CASE End \/ CountLeaver \/ ClearCounted \/ DeleteGame
  <2>1. /\ procPc \in EndLabels /\ procPc' \in EndLabels \cup {"resetting"}
        /\ UNCHANGED <<processEnabled, characters, winner>>
    BY <1>8 DEF End, CountLeaver, ClearCounted, DeleteGame, ProcGoto, flagVars, EndLabels
  <2>2. inGamePlayers' > 0 => inGamePlayers > 0
    BY <1>1, <1>8 DEF End, CountLeaver, ClearCounted, DeleteGame
  <2>3. Outcome' = Outcome
    BY <2>1 DEF Outcome, ActiveChars
  <2> QED
    BY <1>2, <2>1, <2>2, <2>3 DEF OutcomeInv, RealtimeLabels, EndLabels
<1>9. ASSUME NEW c \in Chars, SessStep(c) \/ RequestStep(c) PROVE OutcomeInv'
  <2>1. SameProcessor
    BY <1>9, SessionFlags
  <2>2. Outcome' = Outcome
    BY <2>1 DEF SameProcessor, Outcome, ActiveChars
  <2> QED
    BY <1>2, <2>1, <2>2 DEF SameProcessor, OutcomeInv, RealtimeLabels, EndLabels
<1> QED
  BY <1>3, <1>4, <1>5, <1>6, <1>7, <1>8, <1>9 DEF ProcNext, ProcStep

-----------------------------------------------------------------------------
(***************************************************************************)
(* Mailboxes.                                                              *)
(***************************************************************************)

\* A character's mailbox, state and session are left alone.
SameMail(d) == /\ update'[d] = update[d] /\ sessPc'[d] = sessPc[d]
               /\ newDataFromClient'[d] = newDataFromClient[d] /\ mailbox'[d] = mailbox[d]
               /\ characters'[d] = characters[d]

\* No mailbox is being copied, before or after.
NoCopy == procPc \notin {"copying", "copied"} /\ procPc' \notin {"copying", "copied"}

\* What is not touched stays whole.
LEMMA MailFrame ==
    ASSUME NEW d \in Chars, MailOf(d), SameMail(d),
           NoCopy \/ (procPc' = procPc /\ next' = next)
    PROVE  MailOf(d)'
<1>1. CASE NoCopy
  BY <1>1 DEF MailOf, SameMail, NoCopy, Whole
<1>2. CASE procPc' = procPc /\ next' = next
  BY <1>2 DEF MailOf, SameMail, Whole
<1> QED
  BY <1>1, <1>2

\* The processor copies a mailbox that nobody writes.
LEMMA ProcessorMail == ASSUME ProcInv, ProcStep PROVE MailInv'
<1> SUFFICES ASSUME NEW d \in Chars PROVE MailOf(d)'
  BY DEF MailInv
<1>1. MailOf(d)
  BY DEF ProcInv, MailInv
<1>2. UNCHANGED <<mailbox, sessPc, update>>
  BY ProcessorLeaves DEF sessionVars
<1>3. ASSUME NoCopy, UNCHANGED <<newDataFromClient, characters>> PROVE MailOf(d)'
  BY <1>1, <1>2, <1>3, MailFrame DEF SameMail
<1>4. CASE Reset \/ TestInit \/ FallAsleep \/ Greet
  BY <1>3, <1>4 DEF Reset, TestInit, FallAsleep, Greet, ProcGoto, NoCopy, mailVars
<1>5. CASE Loop \/ ClearLeaver \/ Judge
  BY <1>3, <1>5 DEF Loop, ClearLeaver, Judge, ProcGoto, NoCopy, mailVars
<1>6. CASE NextMailbox
  <2>1. CASE procPc = "mailbox" /\ procPc' \in {"mailbox", "judging"} /\ UNCHANGED characters
    BY <1>3, <1>6, <2>1 DEF NextMailbox, NoCopy, mailVars
  <2>2. CASE /\ next < NPlayers /\ newDataFromClient[next] = 1
             /\ procPc = "mailbox" /\ procPc' = "copying"
             /\ characters' = [characters EXCEPT ![next] =
                                 [mailbox[next] EXCEPT !.projectiles = characters[next].projectiles]]
             /\ UNCHANGED next
    <3>1. next \in Chars
      BY <2>2, IndexIsPlayer
    <3>2. UNCHANGED newDataFromClient
      BY <1>6 DEF NextMailbox, mailVars
    <3>3. CASE d = next
      <4>1. characters'[d].position = mailbox[d].position
        <5>1. mailbox[d] \in CharacterState /\ characters[d].projectiles \in 0 .. Updates
          BY StateFields DEF ProcInv, ProcTypeOK
        <5>2. characters'[d] = [mailbox[d] EXCEPT !.projectiles = characters[d].projectiles]
          BY <2>2, <3>1, <3>3 DEF ProcInv, ProcTypeOK
        <5> QED
          BY <5>1, <5>2, StateWritten
      <4> QED
        BY <1>1, <1>2, <2>2, <3>2, <3>3, <4>1 DEF MailOf
    <3>4. CASE d # next
      <4>1. characters'[d] = characters[d]
        BY <2>2, <3>1, <3>4 DEF ProcInv, ProcTypeOK
      <4> QED
        BY <1>1, <1>2, <2>2, <3>2, <3>4, <4>1 DEF MailOf
    <3> QED
      BY <3>3, <3>4
  <2> QED
    BY <1>6, <2>1, <2>2 DEF NextMailbox, ProcGoto
<1>7. CASE CopyProjectiles
  <2>1. /\ procPc = "copying" /\ procPc' = "copied" /\ UNCHANGED <<next, newDataFromClient>>
        /\ characters' = [characters EXCEPT ![next] =
                            [characters[next] EXCEPT !.projectiles = mailbox[next].projectiles]]
    BY <1>7 DEF CopyProjectiles, ProcGoto, mailVars
  <2>2. next \in Chars
    BY <2>1, IndexIsPlayer DEF ProcInv, RoundsInv
  <2>3. CASE d = next
    <3>1. characters[d] \in CharacterState /\ mailbox[d].projectiles \in 0 .. Updates
      BY StateFields DEF ProcInv, ProcTypeOK
    <3>2. characters'[d] = [characters[d] EXCEPT !.projectiles = mailbox[d].projectiles]
      BY <2>1, <2>2, <2>3 DEF ProcInv, ProcTypeOK
    <3>3. /\ characters'[d].projectiles = mailbox[d].projectiles
          /\ characters'[d].position = characters[d].position
      BY <3>1, <3>2, StateWritten
    <3>4. newDataFromClient[d] = 1 /\ characters[d].position = mailbox[d].position
      BY <1>1, <2>1, <2>3 DEF MailOf
    <3>5. CASE update[d].number = 0
      BY <1>1, <1>2, <2>1, <2>3, <3>3, <3>4, <3>5 DEF MailOf
    <3>6. CASE update[d].number # 0
      <4>1. update[d].number \in Nat
        BY DEF ProcInv, ProcTypeOK
      <4>2. update[d].number > 0
        BY <3>6, <4>1
      <4>3. sessPc[d] # "writing"
        BY <1>1, <3>4 DEF MailOf
      <4>4. Whole(mailbox[d])
        BY <1>1, <4>2, <4>3 DEF MailOf
      <4>5. Whole(characters'[d])
        BY <3>3, <3>4, <4>4 DEF Whole
      <4>6. Whole(characters[d])'
        BY <4>5 DEF Whole
      <4>7. newDataFromClient'[d] = 1 /\ characters'[d].position = mailbox'[d].position
        BY <1>2, <2>1, <3>3, <3>4
      <4> QED
        BY <1>1, <1>2, <2>1, <4>6, <4>7 DEF MailOf
    <3> QED
      BY <3>5, <3>6
  <2>4. CASE d # next
    <3>1. characters'[d] = characters[d]
      BY <2>1, <2>2, <2>4 DEF ProcInv, ProcTypeOK
    <3> QED
      BY <1>1, <1>2, <2>1, <2>4, <3>1 DEF MailOf
  <2> QED
    BY <2>3, <2>4
<1>8. CASE ClearMailbox
  <2>1. /\ procPc = "copied" /\ procPc' = "mailbox" /\ UNCHANGED characters
        /\ newDataFromClient' = [newDataFromClient EXCEPT ![next] = 0]
    BY <1>8 DEF ClearMailbox, ProcGoto
  <2>2. newDataFromClient'[d] = newDataFromClient[d] \/ newDataFromClient'[d] = 0
    BY <2>1 DEF ProcInv, ProcTypeOK
  <2>3. newDataFromClient'[d] # 1 \/ newDataFromClient'[d] = newDataFromClient[d]
    BY <2>2
  <2> QED
    BY <1>1, <1>2, <2>1, <2>2, <2>3 DEF MailOf
<1>9. CASE End \/ CountLeaver \/ ClearCounted \/ DeleteGame
  BY <1>3, <1>9 DEF End, CountLeaver, ClearCounted, DeleteGame, ProcGoto, NoCopy, mailVars
<1> QED
  BY <1>4, <1>5, <1>6, <1>7, <1>8, <1>9 DEF ProcStep

\* A session fills its mailbox only while the processor is not looking at it.
LEMMA SessionMail ==
    ASSUME ProcInv, NEW c \in Chars, SessStep(c) \/ RequestStep(c)
    PROVE  MailInv'
<1> SUFFICES ASSUME NEW d \in Chars PROVE MailOf(d)'
  BY DEF MailInv
<1>1. MailOf(d) /\ MailOf(c)
  BY DEF ProcInv, MailInv
<1>2. /\ UNCHANGED <<next, characters>>
      /\ NoCopy \/ procPc' = procPc
  BY SessionFlags DEF SameProcessor, NoCopy
<1>3. /\ update \in [Chars -> [number : 0 .. Updates, alive : BOOLEAN]]
      /\ sessPc \in [Chars -> SessionLabels] /\ newDataFromClient \in [Chars -> {0, 1}]
      /\ mailbox \in [Chars -> CharacterState] /\ update[c].number \in Nat
  BY DEF ProcInv, ProcTypeOK
<1>4. ASSUME d # c PROVE MailOf(d)'
  <2>1. SameMail(d)
    <3>1. sessPc'[d] = sessPc[d] /\ update'[d] = update[d]
      BY <1>3, <1>4
      DEF SessStep, RequestStep, Hello, SeeInitFree, SetInit, SignalInit, ReceiveUpdate,
          WriteProjectiles, PostUpdate, Leave, Weaken, ReportDeath, SeeDeInitFree, SetDeInit,
          SessGoto
    <3>2. newDataFromClient'[d] = newDataFromClient[d] /\ mailbox'[d] = mailbox[d]
      BY <1>3, <1>4
      DEF SessStep, RequestStep, Hello, SeeInitFree, SetInit, SignalInit, ReceiveUpdate,
          WriteProjectiles, PostUpdate, Leave, Weaken, ReportDeath, SeeDeInitFree, SetDeInit,
          mailVars
    <3> QED
      BY <1>2, <3>1, <3>2 DEF SameMail
  <2> QED
    BY <1>1, <1>2, <2>1, MailFrame
<1>5. ASSUME d = c PROVE MailOf(c)'
  <2>1. ASSUME UNCHANGED <<update, newDataFromClient, mailbox>>,
               sessPc[c] \notin {"writing", "posting"}, sessPc'[c] \notin {"writing", "posting"},
               sessPc[c] \in LeftLabels => sessPc'[c] \in LeftLabels
        PROVE  MailOf(c)'
    BY <1>1, <1>2, <2>1 DEF MailOf, NoCopy, Whole
  <2>2. ASSUME NEW from, NEW to, SessGoto(c, from, to)
        PROVE  sessPc[c] = from /\ sessPc'[c] = to
    BY <1>3, <2>2 DEF SessGoto
  <2>3. CASE Hello(c) \/ SeeInitFree(c) \/ SetInit(c) \/ SignalInit(c)
    BY <2>1, <2>2, <2>3 DEF Hello, SeeInitFree, SetInit, SignalInit, LeftLabels, mailVars
  <2>4. CASE Leave(c) \/ SeeDeInitFree(c) \/ SetDeInit(c)
    BY <2>1, <2>2, <2>4 DEF Leave, SeeDeInitFree, SetDeInit, LeftLabels, mailVars
  <2>5. ASSUME NEW alive \in BOOLEAN, ReceiveUpdate(c, alive) PROVE MailOf(c)'
    <3>1. sessPc[c] = "playing" /\ UNCHANGED newDataFromClient
      BY <2>5 DEF ReceiveUpdate
    <3>2. update'[c].number = update[c].number + 1 /\ update'[c].number > 0
      BY <1>3, <2>5 DEF ReceiveUpdate
    <3>3. CASE newDataFromClient[c] = 0
      <4>1. sessPc'[c] = "writing"
        BY <2>2, <2>5, <3>3 DEF ReceiveUpdate
      <4>2. mailbox'[c].position = update'[c].number
        BY <1>3, <2>5, <3>2, <3>3 DEF ReceiveUpdate, SentState
      <4>3. newDataFromClient'[c] # 1
        BY <3>1, <3>3
      <4> QED
        BY <1>1, <1>2, <3>1, <3>2, <3>3, <4>1, <4>2, <4>3 DEF MailOf, NoCopy, LeftLabels, Whole
    <3>4. CASE newDataFromClient[c] = 1
      <4>1. UNCHANGED <<sessPc, mailbox>>
        BY <2>5, <3>4 DEF ReceiveUpdate
      <4>2. update[c].number > 0
        BY <1>1, <1>3, <3>1, <3>4 DEF MailOf, LeftLabels
      <4> QED
        BY <1>1, <1>2, <3>1, <3>2, <3>4, <4>1, <4>2 DEF MailOf, NoCopy, LeftLabels, Whole
    <3> QED
      BY <1>3, <3>3, <3>4
  <2>6. CASE WriteProjectiles(c)
    <3>1. /\ sessPc[c] = "writing" /\ sessPc'[c] = "posting"
          /\ UNCHANGED <<update, newDataFromClient>>
      BY <2>2, <2>6 DEF WriteProjectiles
    <3>2. mailbox'[c] = [mailbox[c] EXCEPT !.projectiles = update[c].number]
      BY <1>3, <2>6 DEF WriteProjectiles
    <3>3. mailbox[c] \in CharacterState /\ update[c].number \in 0 .. Updates
      BY <1>3
    <3>4. /\ mailbox'[c].projectiles = update[c].number
          /\ mailbox'[c].position = mailbox[c].position
      BY <3>2, <3>3, StateWritten
    <3> QED
      BY <1>1, <1>2, <3>1, <3>4 DEF MailOf, NoCopy, LeftLabels, Whole
  <2>7. CASE PostUpdate(c)
    <3>1. /\ sessPc[c] = "posting" /\ sessPc'[c] = "playing" /\ UNCHANGED <<update, mailbox>>
      BY <2>2, <2>7 DEF PostUpdate
    <3>2. newDataFromClient[c] # 1 /\ update[c].number # 0 /\ Whole(mailbox[c])
      BY <1>1, <1>3, <3>1 DEF MailOf
    <3> QED
      BY <1>1, <1>2, <3>1, <3>2 DEF MailOf, NoCopy, LeftLabels, Whole
  <2>8. CASE Weaken(c)
    <3>1. /\ sessPc[c] = "weakening" /\ sessPc'[c] = "reporting"
          /\ UNCHANGED <<update, newDataFromClient>>
      BY <2>2, <2>8 DEF Weaken
    <3>2. mailbox'[c] = [mailbox[c] EXCEPT !.alive = FALSE]
      BY <1>3, <2>8 DEF Weaken
    <3>3. mailbox[c] \in CharacterState /\ update[c].number \in 0 .. Updates
      BY <1>3
    <3>4. /\ mailbox'[c].projectiles = mailbox[c].projectiles
          /\ mailbox'[c].position = mailbox[c].position
      BY <3>2, <3>3, StateWritten
    <3> QED
      BY <1>1, <1>2, <3>1, <3>4 DEF MailOf, NoCopy, LeftLabels, Whole
  <2>9. CASE ReportDeath(c)
    <3>1. /\ sessPc[c] = "reporting" /\ sessPc'[c] = "departing" /\ UNCHANGED <<update, mailbox>>
      BY <2>2, <2>9 DEF ReportDeath
    <3>2. newDataFromClient'[c] = 1
      BY <1>3, <2>9 DEF ReportDeath
    <3> QED
      BY <1>1, <1>2, <3>1, <3>2 DEF MailOf, NoCopy, LeftLabels, Whole
  <2> QED
    BY <2>3, <2>4, <2>5, <2>6, <2>7, <2>8, <2>9 DEF SessStep, RequestStep
<1> QED
  BY <1>4, <1>5

-----------------------------------------------------------------------------
(***************************************************************************)
(* The invariant, and what follows.                                        *)
(***************************************************************************)

\* A step keeps the invariant.
LEMMA ProcInvStep == ASSUME ProcInv, [ProcNext]_gameVars PROVE ProcInv'
<1>1. CASE ProcNext
  <2>1. ProcTypeOK'
    BY <1>1, ProcStepTypes, SessionTypes DEF ProcNext
  <2>2. MailInv'
    BY <1>1, ProcessorMail, SessionMail DEF ProcNext
  <2> QED
    BY <1>1, <2>1, <2>2, HelloStep, LeaveStep, RoundsStep, OutcomeStep DEF ProcInv
<1>2. CASE UNCHANGED gameVars
  BY <1>2 DEF gameVars, flagVars, mailVars, procVars, sessionVars, ProcInv, ProcTypeOK, HelloInv,
              LeaveInv, RoundsInv, MailInv, MailOf, Whole, OutcomeInv, Outcome, ActiveChars,
              Ready, Gone, Marked
<1> QED
  BY <1>1, <1>2

\* The invariant holds.
LEMMA ProcInvSafe == ProcSpec => []ProcInv
  BY ProcInvInit, ProcInvStep, PTL DEF ProcSpec

\* Every variable keeps its type; in particular neither counter of players, both of
\* which are changed by unprotected reads of flags, leaves its range.
THEOREM ProcTypesSafe == ProcSpec => []ProcTypeOK
<1>1. ProcInv => ProcTypeOK
  BY DEF ProcInv
<1> QED
  BY <1>1, ProcInvSafe, PTL

\* gameProcessor starts a game of any number of players only when all of them have said
\* HELLO.
THEOREM StartSafe == ProcSpec => []StartsWhenAllReady
<1>1. ProcInv => StartsWhenAllReady
  BY DEF ProcInv, HelloInv, StartsWhenAllReady, Ready, WaitingLabels, RealtimeLabels, EndLabels
<1> QED
  BY <1>1, ProcInvSafe, PTL

\* It deletes the game only when all of them have left.
THEOREM DeletionSafe == ProcSpec => []DeletedWhenAllLeft
<1>1. ProcInv => DeletedWhenAllLeft
  BY DEF ProcInv, LeaveInv, DeletedWhenAllLeft, Gone
<1> QED
  BY <1>1, ProcInvSafe, PTL

\* The states that go out hold no torn update, however the mailboxes are filled and
\* read.
THEOREM UpdatesSafe == ProcSpec => []NoTornUpdate
<1>1. ProcInv => NoTornUpdate
  <2> SUFFICES ASSUME ProcInv, procPc = "judging", NEW c \in Chars, update[c].number > 0
               PROVE  Whole(characters[c])
    BY DEF NoTornUpdate, Whole
  <2>1. MailOf(c)
    BY DEF ProcInv, MailInv
  <2>2. update[c].number # 0
    BY DEF ProcInv, ProcTypeOK
  <2> QED
    BY <2>1, <2>2 DEF MailOf
<1> QED
  BY <1>1, ProcInvSafe, PTL

\* The outcome of a game that ends while somebody plays is that of its last state.
THEOREM OutcomeSafe == ProcSpec => []OutcomeMatchesState
<1>1. ProcInv => OutcomeMatchesState
  BY DEF ProcInv, OutcomeInv, Outcome, OutcomeMatchesState
<1> QED
  BY <1>1, ProcInvSafe, PTL
=============================================================================
