------------------------------ MODULE GameSender ------------------------------
(***************************************************************************)
(* The thread that writes the notifications of one game (gameSender) and   *)
(* the function the other threads hand them to it with (sendToGame), in    *)
(* src/server/main.c.  The hand-over is a single cell, newData being its   *)
(* full/empty flag; the sender keeps the mutex of the cell while it writes *)
(* to the sockets.  The thread also runs the timed back-off of each        *)
(* player, one tick per notification, in arrays indexed by the player's    *)
(* place in the party.  The thread and its arrays outlive the games: the   *)
(* party of the next game in the same slot finds them as they were left.   *)
(*                                                                         *)
(* A notification is a number, free again once it was sent or replaced, so *)
(* that any number of notifications follow one another.                    *)
(***************************************************************************)
EXTENDS Integers, FiniteSets

CONSTANTS Callers,      \* threads that call sendToGame: sessions, the processor
          Places,       \* places in the party; the first is the creator's
          Creator,
          Ticks,        \* BACKOFF_TICKS of globals.h
          Messages,     \* numbers of notifications, one more than can be pending
          MaxGames,     \* bound: games served one after the other
          NULL

ASSUME SenderAssumption == /\ Creator \in Places
                           /\ Ticks \in Nat \ {0}
                           /\ Messages \subseteq Nat \ {0}
                           /\ MaxGames \in Nat \ {0}
                           /\ NULL \notin Callers \cup {"sender"} /\ NULL \notin Int
                           /\ "sender" \notin Callers

\* userState, with the values of main.c.
Invited  == 0
Accepted == 1
BackOff  == 3
Left     == -1
States   == {Invited, Accepted, BackOff, Left}
Groups   == {Invited, Accepted}  \* the groups that notifications are sent to

VARIABLES
    \* The shared cell, GameSenderArgs.
    mutex,            \* holder of gameSender_mutex, or NULL
    newData,
    userStateArg,     \* args->userState
    gameResponse,     \* args->gameResponse
    \* The sender.
    senderPc,
    thisMessage,      \* its copy of the notification
    thisGroup,
    toWrite,          \* places still to be written to
    backOffRequested,
    backOffTimers,
    \* The callers.
    callerPc,
    callerMessage,
    \* The party.
    userState,
    games,            \* how many games this thread has served
    \* History: the group each notification still to be sent is meant for (NULL
    \* for a number that is free), and for how many notifications in a row each
    \* player has been backed off.
    group,
    skipped

cellVars   == <<mutex, newData, userStateArg, gameResponse>>
timerVars  == <<backOffRequested, backOffTimers, skipped>>
senderVars == <<senderPc, thisMessage, thisGroup, toWrite>>
callerVars == <<callerPc, callerMessage>>
partyVars  == <<userState, games>>
vars == <<cellVars, timerVars, senderVars, callerVars, partyVars, group>>

SenderTypeOK ==
    /\ mutex \in Callers \cup {"sender", NULL}
    /\ newData \in {0, 1}
    /\ userStateArg \in Groups
    /\ gameResponse \in Messages \cup {0}
    /\ senderPc \in {"clearing", "waiting", "woken", "taking", "writing"}
    /\ thisMessage \in Messages \cup {0}
    /\ thisGroup \in Groups
    /\ toWrite \subseteq Places
    /\ backOffRequested \in [Places -> {0, 1}]
    /\ backOffTimers \in [Places -> 0 .. Ticks]
    /\ callerPc \in [Callers -> {"idle", "locking", "storing"}]
    /\ callerMessage \in [Callers -> Messages \cup {0}]
    /\ userState \in [Places -> States]
    /\ games \in 1 .. MaxGames
    /\ group \in [Messages -> Groups \cup {NULL}]
    /\ skipped \in [Places -> Nat]

NewParty == [p \in Places |-> IF p = Creator THEN Accepted ELSE Invited]

SenderInit ==
    /\ mutex = "sender"
    /\ newData = 0
    /\ userStateArg = Invited
    /\ gameResponse = 0
    /\ senderPc = "clearing"
    /\ thisMessage = 0
    /\ thisGroup = Invited
    /\ toWrite = {}
    /\ backOffRequested = [p \in Places |-> 0]
    /\ backOffTimers = [p \in Places |-> 0]
    /\ callerPc = [c \in Callers |-> "idle"]
    /\ callerMessage = [c \in Callers |-> 0]
    /\ userState = NewParty
    /\ games = 1
    /\ group = [m \in Messages |-> NULL]
    /\ skipped = [p \in Places |-> 0]

-----------------------------------------------------------------------------
(***************************************************************************)
(* sendToGame.                                                             *)
(***************************************************************************)

\* Faulty variant: the sender gives the mutex back before it writes, as the
\* unlock that is commented out in gameSender would.
CanLockWhileWriting == mutex = NULL \/ (mutex = "sender" /\ senderPc = "writing")

CanLock == mutex = NULL

\* The call: a full cell makes the caller sleep once for a millisecond, which
\* promises nothing about the cell afterwards.
Call(c) ==
    /\ callerPc[c] = "idle"
    /\ callerPc' = [callerPc EXCEPT ![c] = "locking"]
    /\ UNCHANGED <<cellVars, timerVars, senderVars, callerMessage, partyVars, group>>

\* The least free number is given to the notification; the one still in the
\* cell, if there is one, is replaced.
Hand(c, g) ==
    \E m \in Messages :
       /\ group[m] = NULL
       /\ \A k \in Messages : k < m => group[k] # NULL
       /\ group' = [k \in Messages |-> IF k = m THEN g
                                       ELSE IF newData = 1 /\ k = gameResponse THEN NULL
                                       ELSE group[k]]
       /\ callerMessage' = [callerMessage EXCEPT ![c] = m]

\* What the caller stores before the text.
Storing(c, g) ==
    /\ callerPc[c] = "locking"
    /\ CanLock
    /\ Hand(c, g)
    /\ callerPc' = [callerPc EXCEPT ![c] = "storing"]
    /\ newData' = 1
    /\ userStateArg' = g
    /\ UNCHANGED <<gameResponse, timerVars, thisMessage, thisGroup, toWrite, partyVars>>

SignalSender == senderPc' = IF senderPc = "waiting" THEN "woken" ELSE senderPc

\* Faulty variants: the mutex does not cover the text; nobody is signalled.
StoreGroupUnlocked(c, g)    == Storing(c, g) /\ SignalSender /\ UNCHANGED mutex
StoreGroupUnsignalled(c, g) == Storing(c, g) /\ mutex' = c /\ UNCHANGED senderPc

\* With the mutex: the flag and the group first, and the sender is signalled.
StoreGroup(c, g) == Storing(c, g) /\ SignalSender /\ mutex' = c

\* The text, after the signal; then the mutex is released.
StoreResponse(c) ==
    /\ callerPc[c] = "storing"
    /\ gameResponse' = callerMessage[c]
    /\ mutex' = NULL
    /\ callerPc' = [callerPc EXCEPT ![c] = "idle"]
    /\ callerMessage' = [callerMessage EXCEPT ![c] = 0]
    /\ UNCHANGED <<newData, userStateArg, timerVars, senderVars, partyVars, group>>

-----------------------------------------------------------------------------
(***************************************************************************)
(* gameSender.                                                             *)
(***************************************************************************)

\* Top of the loop: the cell is empty, and the wait releases the mutex.
ClearAndWait ==
    /\ senderPc = "clearing"
    /\ newData' = 0
    /\ senderPc' = "waiting"
    /\ mutex' = NULL
    /\ UNCHANGED <<userStateArg, gameResponse, timerVars, thisMessage, thisGroup, toWrite,
                   callerVars, partyVars, group>>

\* After a signal the wait returns with the mutex, and there is a notification.
\* A spurious return finds newData = 0 and waits again: no step.
Wake ==
    /\ senderPc = "woken" /\ newData = 1
    /\ mutex = NULL
    /\ senderPc' = "taking"
    /\ mutex' = "sender"
    /\ UNCHANGED <<newData, userStateArg, gameResponse, timerVars, thisMessage, thisGroup,
                   toWrite, callerVars, partyVars, group>>

\* The back-off of the player at place p, at one notification.
Expires(p) == backOffRequested[p] = 1 /\ backOffTimers[p] = 0
Begins(p)  == ~Expires(p) /\ userState[p] = BackOff /\ backOffRequested[p] = 0
Elapses(p) == backOffRequested[p] = 1 /\ backOffTimers[p] > 0

\* Faulty variant: every notification restarts the timer of a backed-off player.
BackOffRestarted ==
    /\ userState' = [p \in Places |-> IF Expires(p) THEN Accepted ELSE userState[p]]
    /\ backOffRequested' = [p \in Places |-> IF Expires(p) THEN 0
                               ELSE IF userState[p] = BackOff THEN 1 ELSE backOffRequested[p]]
    /\ backOffTimers' = [p \in Places |-> IF userState[p] = BackOff THEN Ticks
                            ELSE IF Elapses(p) THEN backOffTimers[p] - 1
                            ELSE backOffTimers[p]]

\* The first of the three cases that applies: a back-off whose timer ran out
\* ends, and the player counts as accepted; one that was asked for begins; one
\* that is under way loses a tick.
BackOffTick ==
    /\ userState' = [p \in Places |-> IF Expires(p) THEN Accepted ELSE userState[p]]
    /\ backOffRequested' = [p \in Places |-> IF Expires(p) THEN 0
                               ELSE IF Begins(p) THEN 1 ELSE backOffRequested[p]]
    /\ backOffTimers' = [p \in Places |-> IF Begins(p) THEN Ticks
                            ELSE IF Elapses(p) THEN backOffTimers[p] - 1
                            ELSE backOffTimers[p]]

\* Under both mutexes the notification is copied, the back-off advances and
\* the states of the players are read.
TakeMessage ==
    /\ senderPc = "taking"
    /\ thisMessage' = gameResponse
    /\ thisGroup' = userStateArg
    /\ BackOffTick
    /\ toWrite' = {p \in Places : userState'[p] = userStateArg}
    /\ skipped' = [p \in Places |-> IF userState'[p] = BackOff THEN skipped[p] + 1 ELSE 0]
    /\ senderPc' = "writing"
    /\ UNCHANGED <<cellVars, callerVars, games, group>>

\* write() to one of the sockets.
Write(p) ==
    /\ senderPc = "writing"
    /\ p \in toWrite
    /\ toWrite' = toWrite \ {p}
    /\ UNCHANGED <<cellVars, timerVars, senderPc, thisMessage, thisGroup, callerVars,
                   partyVars, group>>

Written ==
    /\ senderPc = "writing"
    /\ toWrite = {}
    /\ senderPc' = "clearing"
    /\ group' = [group EXCEPT ![thisMessage] = NULL]
    /\ thisMessage' = 0
    /\ UNCHANGED <<cellVars, timerVars, thisGroup, toWrite, callerVars, partyVars>>

SenderStep == ClearAndWait \/ Wake \/ TakeMessage \/ Written \/ \E p \in Places : Write(p)

-----------------------------------------------------------------------------
(***************************************************************************)
(* What the sessions do to the players' states meanwhile.                  *)
(***************************************************************************)

SetState(p, s) ==
    /\ userState' = [userState EXCEPT ![p] = s]
    /\ UNCHANGED <<cellVars, timerVars, senderVars, callerVars, games, group>>

AcceptInvitation(p) == userState[p] = Invited /\ SetState(p, Accepted)
RequestBackOff(p)   == userState[p] = Accepted /\ SetState(p, BackOff)
RequestResume(p)    == userState[p] = BackOff /\ SetState(p, Accepted)
LeaveGame(p)        == userState[p] \in {Accepted, BackOff} /\ SetState(p, Left)

\* Everybody has left and the next game takes the slot.
NextGame ==
    /\ games < MaxGames
    /\ \A p \in Places : userState[p] = Left
    /\ userState' = NewParty
    /\ games' = games + 1
    /\ UNCHANGED <<cellVars, timerVars, senderVars, callerVars, group>>

PartyStep == \/ \E p \in Places : \/ AcceptInvitation(p)
                                  \/ RequestBackOff(p)
                                  \/ RequestResume(p)
                                  \/ LeaveGame(p)
             \/ NextGame

CallerStep(c) == Call(c) \/ StoreResponse(c) \/ \E g \in Groups : StoreGroup(c, g)

SenderNext == SenderStep \/ PartyStep \/ \E c \in Callers : CallerStep(c)

SenderSpec == SenderInit /\ [][SenderNext]_vars

\* The sender thread runs, and a caller inside the function gets out of it.
SenderFairSpec ==
    /\ SenderSpec
    /\ WF_vars(SenderStep)
    /\ \A c \in Callers : WF_vars(StoreResponse(c))

-----------------------------------------------------------------------------
(***************************************************************************)
(* Properties.                                                             *)
(***************************************************************************)

\* When the sender waits with the cell empty, every notification handed over
\* was sent, or replaced by a later one: clearing the flag at the top of the
\* loop never wipes out a notification that arrived while it was writing.
NoneForgotten ==
    senderPc = "waiting" /\ newData = 0 => \A m \in Messages : group[m] = NULL

\* The group a notification is written to is the one it was meant for, though
\* text and group are stored apart, with the signal in between.
TextMatchesGroup ==
    senderPc = "writing" => thisMessage \in Messages /\ group[thisMessage] = thisGroup

\* A back-off is timed: a player misses at most Ticks + 1 notifications in a
\* row, whatever back-offs and resumptions were asked for, now or in the games
\* the thread served before.
BackOffBounded == \A p \in Places : skipped[p] <= Ticks + 1

\* A notification that was handed over is eventually sent or replaced.
HandedIsSettled ==
    \A m \in Messages : group[m] # NULL ~> group[m] = NULL

-----------------------------------------------------------------------------
\* The timer cancels back-offs and touches nobody else: a player who left the
\* game, or has not yet answered the invitation to the next one, stays so.  It
\* fails: a timer that runs out makes whoever is at its place an accepted player.
ResumesOnlyBackOff ==
    [][SenderStep => \A p \in Places : userState'[p] # userState[p] => userState[p] = BackOff]_vars
=============================================================================
