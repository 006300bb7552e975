---------------------------- MODULE GameProcessor ----------------------------
(***************************************************************************)
(* One running game: the thread that computes its state (gameProcessor)    *)
(* and the threads that serve its players, from 12/START to 101/LEAVE      *)
(* (src/server/main.c).  They share three flags, initEnabled,              *)
(* processEnabled and deInitEnabled, and one mailbox per player with a     *)
(* flag of its own, newDataFromClient.  Only the processor's waits and     *)
(* START use the mutex of the flags; the other accesses are unprotected,   *)
(* and every one of them is a step of its own here.                        *)
(*                                                                         *)
(* A character's state is kept as its position and its projectiles, which  *)
(* carry the number of the update they came in, and whether it is alive.   *)
(* Updates bounds those numbers.                                           *)
(***************************************************************************)
EXTENDS Integers, FiniteSets

CONSTANTS NPlayers,   \* accepted players at START; their charIds are the places
          EndCount,   \* 100 in the code
          Updates     \* bound: updates each client sends

ASSUME ProcessorAssumption == /\ NPlayers \in Nat \ {0}
                              /\ EndCount \in Nat \ {0}
                              /\ Updates \in Nat

Chars == 0 .. NPlayers - 1

VARIABLES
    \* GameProcessorArgs.
    initEnabled, processEnabled, deInitEnabled,
    newDataFromClient,  \* per mailbox
    mailbox,            \* per mailbox: charState
    \* The processor.
    procPc,
    nClientsInit,
    inGamePlayers,
    endCount,
    next,               \* index of the loop over the mailboxes
    characters,         \* gameState->characterStatesList
    winner,             \* a charId, Nobody before the end, or Draw
    listed,             \* the game is still in the table
    \* The session of each player, and what its client has sent.
    sessPc,
    update              \* the last update of the client

flagVars    == <<initEnabled, processEnabled, deInitEnabled>>
mailVars    == <<newDataFromClient, mailbox>>
procVars    == <<procPc, nClientsInit, inGamePlayers, endCount, next, characters, winner, listed>>
sessionVars == <<sessPc, update>>
gameVars == <<flagVars, mailVars, procVars, sessionVars>>

\* The values of winner that are not a charId.
Nobody == -1
Draw   == -2

\* A position nobody has written: START allocates the mailboxes and sets only
\* their projectiles, so it is whatever malloc returned.
Unset == -1

CharacterState == [position    : {Unset} \cup 0 .. Updates,
                   projectiles : 0 .. Updates,
                   alive       : BOOLEAN]
Fresh      == [position |-> 0, projectiles |-> 0, alive |-> TRUE]
NewMailbox == [position |-> Unset, projectiles |-> 0, alive |-> TRUE]

\* Where the processor is: waiting for the clients, in the realtime loop, after it.
WaitingLabels  == {"resetting", "testing", "falling asleep", "asleep", "greeting"}
RealtimeLabels == {"looping", "clearing leaver", "mailbox", "copying", "copied", "judging"}
EndLabels      == {"ending", "counting", "clearing counted", "deleting"}

SessionLabels == {"invited", "hello", "setting", "signalling", "playing", "writing",
                  "posting", "weakening", "reporting", "departing", "marking", "gone"}

ProcTypeOK ==
    /\ initEnabled \in {0, 1} /\ processEnabled \in {0, 1} /\ deInitEnabled \in {0, 1}
    /\ newDataFromClient \in [Chars -> {0, 1}]
    /\ mailbox \in [Chars -> CharacterState]
    /\ procPc \in WaitingLabels \cup RealtimeLabels \cup EndLabels
    /\ nClientsInit \in 0 .. NPlayers
    /\ inGamePlayers \in 0 .. NPlayers
    /\ endCount \in 0 .. EndCount
    /\ next \in 0 .. NPlayers
    /\ characters \in [Chars -> CharacterState]
    /\ winner \in Chars \cup {Nobody, Draw}
    /\ listed \in BOOLEAN
    /\ sessPc \in [Chars -> SessionLabels]
    /\ update \in [Chars -> [number : 0 .. Updates, alive : BOOLEAN]]

\* The processor has been through its reset before the players are told to
\* start: it did so when the slot's previous game ended.
ProcInit ==
    /\ initEnabled = 0 /\ processEnabled = 0 /\ deInitEnabled = 0
    /\ newDataFromClient = [c \in Chars |-> 0]
    /\ mailbox = [c \in Chars |-> NewMailbox]
    /\ procPc = "testing"
    /\ nClientsInit = 0
    /\ inGamePlayers = NPlayers
    /\ endCount = EndCount
    /\ next = 0
    /\ characters = [c \in Chars |-> Fresh]
    /\ winner = Nobody
    /\ listed = TRUE
    /\ sessPc = [c \in Chars |-> "invited"]
    /\ update = [c \in Chars |-> [number |-> 0, alive |-> TRUE]]

ProcGoto(from, to) == procPc = from /\ procPc' = to
SessGoto(c, from, to) == sessPc[c] = from /\ sessPc' = [sessPc EXCEPT ![c] = to]

-----------------------------------------------------------------------------
(***************************************************************************)
(* gameProcessor: waiting for the clients.  It holds the mutex until the   *)
(* last client is counted, except while it is asleep.                      *)
(***************************************************************************)

Reset ==
    /\ ProcGoto("resetting", "testing")
    /\ initEnabled' = 0 /\ processEnabled' = 0 /\ deInitEnabled' = 0
    /\ nClientsInit' = 0
    /\ UNCHANGED <<mailVars, inGamePlayers, endCount, next, characters, winner, listed,
                   sessionVars>>

\* while (!initEnabled), and the wait: asleep is two steps after the test.
TestInit ==
    /\ \/ initEnabled = 1 /\ ProcGoto("testing", "greeting")
       \/ initEnabled = 0 /\ ProcGoto("testing", "falling asleep")
    /\ UNCHANGED <<flagVars, mailVars, nClientsInit, inGamePlayers, endCount, next,
                   characters, winner, listed, sessionVars>>

FallAsleep ==
    /\ ProcGoto("falling asleep", "asleep")
    /\ UNCHANGED <<flagVars, mailVars, nClientsInit, inGamePlayers, endCount, next,
                   characters, winner, listed, sessionVars>>

\* Faulty variant: the flag of the HELLO that was counted stays set.
GreetUncleared ==
    /\ nClientsInit' = nClientsInit + 1
    /\ IF nClientsInit' >= NPlayers
       THEN ProcGoto("greeting", "looping") /\ processEnabled' = 1
       ELSE ProcGoto("greeting", "testing") /\ UNCHANGED processEnabled
    /\ UNCHANGED <<initEnabled, deInitEnabled, mailVars, inGamePlayers, endCount, next,
                   characters, winner, listed, sessionVars>>

\* The first state goes out to the clients, and one more of them is counted.
\* With the last one the game begins (102/START); initEnabled stays set.
Greet ==
    /\ nClientsInit' = nClientsInit + 1
    /\ IF nClientsInit' >= NPlayers
       THEN /\ ProcGoto("greeting", "looping")
            /\ processEnabled' = 1
            /\ UNCHANGED initEnabled
       ELSE /\ ProcGoto("greeting", "testing")
            /\ initEnabled' = 0
            /\ UNCHANGED processEnabled
    /\ UNCHANGED <<deInitEnabled, mailVars, inGamePlayers, endCount, next, characters,
                   winner, listed, sessionVars>>

-----------------------------------------------------------------------------
(***************************************************************************)
(* gameProcessor: the realtime loop.                                       *)
(***************************************************************************)

\* Top of the loop: is the game over, has a player left?
Loop ==
    /\ \/ /\ processEnabled = 0
          /\ ProcGoto("looping", "ending")
          /\ UNCHANGED <<processEnabled, inGamePlayers>>
       \/ /\ processEnabled = 1 /\ deInitEnabled = 0
          /\ ProcGoto("looping", "mailbox")
          /\ UNCHANGED <<processEnabled, inGamePlayers>>
       \/ /\ processEnabled = 1 /\ deInitEnabled = 1
          /\ ProcGoto("looping", "clearing leaver")
          /\ inGamePlayers' = inGamePlayers - 1
          /\ processEnabled' = IF inGamePlayers' <= 0 THEN 0 ELSE processEnabled
    /\ next' = 0
    /\ UNCHANGED <<initEnabled, deInitEnabled, mailVars, nClientsInit, endCount, characters,
                   winner, listed, sessionVars>>

ClearLeaver ==
    /\ ProcGoto("clearing leaver", "mailbox")
    /\ deInitEnabled' = 0
    /\ UNCHANGED <<initEnabled, processEnabled, mailVars, nClientsInit, inGamePlayers, endCount,
                   next, characters, winner, listed, sessionVars>>

\* The mailboxes in turn: an empty one is passed, a full one is copied field
\* by field and its flag is cleared last.
NextMailbox ==
    /\ \/ next = NPlayers /\ ProcGoto("mailbox", "judging") /\ UNCHANGED <<next, characters>>
       \/ /\ next < NPlayers /\ newDataFromClient[next] = 0
          /\ procPc = "mailbox"
          /\ next' = next + 1
          /\ UNCHANGED <<procPc, characters>>
       \/ /\ next < NPlayers /\ newDataFromClient[next] = 1
          /\ ProcGoto("mailbox", "copying")
          /\ characters' = [characters EXCEPT ![next] =
                              [mailbox[next] EXCEPT !.projectiles = characters[next].projectiles]]
          /\ UNCHANGED next
    /\ UNCHANGED <<flagVars, mailVars, nClientsInit, inGamePlayers, endCount, winner, listed,
                   sessionVars>>

CopyProjectiles ==
    /\ ProcGoto("copying", "copied")
    /\ characters' = [characters EXCEPT ![next] =
                        [@ EXCEPT !.projectiles = mailbox[next].projectiles]]
    /\ UNCHANGED <<flagVars, mailVars, nClientsInit, inGamePlayers, endCount, next, winner,
                   listed, sessionVars>>

ClearMailbox ==
    /\ ProcGoto("copied", "mailbox")
    /\ newDataFromClient' = [newDataFromClient EXCEPT ![next] = 0]
    /\ next' = next + 1
    /\ UNCHANGED <<flagVars, mailbox, nClientsInit, inGamePlayers, endCount, characters, winner,
                   listed, sessionVars>>

ActiveChars == {c \in Chars : characters[c].alive}

\* Faulty variant: the survivor wins in the round in which the others die, and
\* the loop goes on.
JudgeOnce ==
    /\ ProcGoto("judging", "looping")
    /\ IF Cardinality(ActiveChars) = 1 /\ winner = Nobody
       THEN \E c \in ActiveChars : winner' = c
       ELSE UNCHANGED winner
    /\ endCount' = IF winner' # Nobody /\ endCount > 0 THEN endCount - 1 ELSE endCount
    /\ processEnabled' = IF endCount' = 0 \/ ActiveChars = {} THEN 0 ELSE processEnabled
    /\ UNCHANGED <<initEnabled, deInitEnabled, mailVars, nClientsInit, inGamePlayers, next,
                   characters, listed, sessionVars>>

\* The state goes out (103), and the survivors are counted: with one left the
\* game lasts EndCount more rounds, with none it is a draw at once.
Judge ==
    /\ ProcGoto("judging", "looping")
    /\ \/ /\ Cardinality(ActiveChars) > 1
          /\ UNCHANGED <<endCount, processEnabled, winner>>
       \/ /\ Cardinality(ActiveChars) = 1
          /\ endCount' = endCount - 1
          /\ IF endCount' <= 0
             THEN processEnabled' = 0 /\ \E c \in ActiveChars : winner' = c
             ELSE UNCHANGED <<processEnabled, winner>>
       \/ /\ ActiveChars = {}
          /\ processEnabled' = 0
          /\ winner' = Draw
          /\ UNCHANGED endCount
    /\ UNCHANGED <<initEnabled, deInitEnabled, mailVars, nClientsInit, inGamePlayers, next,
                   characters, listed, sessionVars>>

-----------------------------------------------------------------------------
(***************************************************************************)
(* gameProcessor: after the loop.                                          *)
(***************************************************************************)

\* If everybody left, the thread starts over and the game is never deleted.
\* Otherwise 102/END goes out and the players are counted as they leave.
End ==
    /\ \/ inGamePlayers <= 0 /\ ProcGoto("ending", "resetting")
       \/ inGamePlayers > 0 /\ ProcGoto("ending", "counting")
    /\ UNCHANGED <<flagVars, mailVars, nClientsInit, inGamePlayers, endCount, next,
                   characters, winner, listed, sessionVars>>

CountLeaver ==
    /\ \/ /\ inGamePlayers > 0 /\ deInitEnabled = 1
          /\ ProcGoto("counting", "clearing counted")
          /\ inGamePlayers' = inGamePlayers - 1
       \/ /\ inGamePlayers <= 0
          /\ ProcGoto("counting", "deleting")
          /\ UNCHANGED inGamePlayers
    /\ UNCHANGED <<flagVars, mailVars, nClientsInit, endCount, next, characters, winner,
                   listed, sessionVars>>

\* Faulty variant: the departure stays set and is counted again.
ClearCountedNot ==
    /\ ProcGoto("clearing counted", "counting")
    /\ UNCHANGED <<flagVars, mailVars, nClientsInit, inGamePlayers, endCount,
                   next, characters, winner, listed, sessionVars>>

ClearCounted ==
    /\ ProcGoto("clearing counted", "counting")
    /\ deInitEnabled' = 0
    /\ UNCHANGED <<initEnabled, processEnabled, mailVars, nClientsInit, inGamePlayers, endCount,
                   next, characters, winner, listed, sessionVars>>

\* The scores are stored and the game is deleted from the table.
DeleteGame ==
    /\ ProcGoto("deleting", "resetting")
    /\ listed' = FALSE
    /\ UNCHANGED <<flagVars, mailVars, nClientsInit, inGamePlayers, endCount, next,
                   characters, winner, sessionVars>>

ProcStep == \/ Reset \/ TestInit \/ FallAsleep \/ Greet
            \/ Loop \/ ClearLeaver \/ NextMailbox \/ CopyProjectiles \/ ClearMailbox \/ Judge
            \/ End \/ CountLeaver \/ ClearCounted \/ DeleteGame

-----------------------------------------------------------------------------
(***************************************************************************)
(* 101/HELLO.                                                              *)
(***************************************************************************)

\* The player is sent the initial state.
Hello(c) ==
    /\ SessGoto(c, "invited", "hello")
    /\ UNCHANGED <<flagVars, mailVars, procVars, update>>

\* Until initEnabled is seen to be 0; it is set, and the processor signalled,
\* without the mutex.
SeeInitFree(c) ==
    /\ initEnabled = 0
    /\ SessGoto(c, "hello", "setting")
    /\ UNCHANGED <<flagVars, mailVars, procVars, update>>

SetInit(c) ==
    /\ SessGoto(c, "setting", "signalling")
    /\ initEnabled' = 1
    /\ UNCHANGED <<processEnabled, deInitEnabled, mailVars, procVars, update>>

\* The signal is lost on a processor that is not asleep yet.
SignalInit(c) ==
    /\ SessGoto(c, "signalling", "playing")
    /\ procPc' = IF procPc = "asleep" THEN "testing" ELSE procPc
    /\ UNCHANGED <<flagVars, mailVars, nClientsInit, inGamePlayers, endCount, next,
                   characters, winner, listed, update>>

-----------------------------------------------------------------------------
(***************************************************************************)
(* 104, an update of the client's own character.                           *)
(***************************************************************************)

\* The mailbox once the fields before the projectiles are those of the update.
SentState(c, alive) == [position    |-> update[c].number + 1,
                        projectiles |-> mailbox[c].projectiles,
                        alive       |-> alive]

\* Faulty variant: the mailbox is filled whether or not it was emptied.
ReceiveUpdateOver(c, alive) ==
    /\ procPc \notin WaitingLabels
    /\ update[c].number < Updates
    /\ update[c].alive \/ ~alive
    /\ update' = [update EXCEPT ![c] = [number |-> update[c].number + 1, alive |-> alive]]
    /\ SessGoto(c, "playing", "writing")
    /\ mailbox' = [mailbox EXCEPT ![c] = SentState(c, alive)]
    /\ UNCHANGED <<flagVars, newDataFromClient, procVars>>

\* The client sends updates once the game has begun; it dies once.  A full
\* mailbox drops the update, an empty one is filled field by field and its
\* flag is set last.
ReceiveUpdate(c, alive) ==
    /\ procPc \notin WaitingLabels
    /\ sessPc[c] = "playing"
    /\ update[c].number < Updates
    /\ update[c].alive \/ ~alive
    /\ update' = [update EXCEPT ![c] = [number |-> update[c].number + 1, alive |-> alive]]
    /\ IF newDataFromClient[c] = 0
       THEN /\ SessGoto(c, "playing", "writing")
            /\ mailbox' = [mailbox EXCEPT ![c] = SentState(c, alive)]
       ELSE UNCHANGED <<sessPc, mailbox>>
    /\ UNCHANGED <<flagVars, newDataFromClient, procVars>>

WriteProjectiles(c) ==
    /\ SessGoto(c, "writing", "posting")
    /\ mailbox' = [mailbox EXCEPT ![c] = [@ EXCEPT !.projectiles = update[c].number]]
    /\ UNCHANGED <<flagVars, newDataFromClient, procVars, update>>

PostUpdate(c) ==
    /\ SessGoto(c, "posting", "playing")
    /\ newDataFromClient' = [newDataFromClient EXCEPT ![c] = 1]
    /\ UNCHANGED <<flagVars, mailbox, procVars, update>>

-----------------------------------------------------------------------------
(***************************************************************************)
(* 101/LEAVE.                                                              *)
(***************************************************************************)

\* GOODBYE is sent and userState set to -1.  A full mailbox makes the thread
\* sleep once, which promises nothing about the mailbox afterwards.
Leave(c) ==
    /\ SessGoto(c, "playing", "weakening")
    /\ UNCHANGED <<flagVars, mailVars, procVars, update>>

Weaken(c) ==
    /\ SessGoto(c, "weakening", "reporting")
    /\ mailbox' = [mailbox EXCEPT ![c] = [@ EXCEPT !.alive = FALSE]]
    /\ UNCHANGED <<flagVars, newDataFromClient, procVars, update>>

ReportDeath(c) ==
    /\ SessGoto(c, "reporting", "departing")
    /\ newDataFromClient' = [newDataFromClient EXCEPT ![c] = 1]
    /\ UNCHANGED <<flagVars, mailbox, procVars, update>>

\* Faulty variant: the loop was copied from HELLO and looks at its flag.
SeeInitClear(c) ==
    /\ initEnabled = 0
    /\ SessGoto(c, "departing", "marking")
    /\ UNCHANGED <<flagVars, mailVars, procVars, update>>

\* Until deInitEnabled is seen to be 0; then it is set.
SeeDeInitFree(c) ==
    /\ deInitEnabled = 0
    /\ SessGoto(c, "departing", "marking")
    /\ UNCHANGED <<flagVars, mailVars, procVars, update>>

SetDeInit(c) ==
    /\ SessGoto(c, "marking", "gone")
    /\ deInitEnabled' = 1
    /\ UNCHANGED <<initEnabled, processEnabled, mailVars, procVars, update>>

\* What the thread of the session does on its own, and on a client's request.
SessStep(c) == \/ SeeInitFree(c) \/ SetInit(c) \/ SignalInit(c)
               \/ WriteProjectiles(c) \/ PostUpdate(c)
               \/ Weaken(c) \/ ReportDeath(c) \/ SeeDeInitFree(c) \/ SetDeInit(c)

RequestStep(c) == Hello(c) \/ Leave(c) \/ \E alive \in BOOLEAN : ReceiveUpdate(c, alive)

ProcNext == ProcStep \/ \E c \in Chars : SessStep(c) \/ RequestStep(c)

ProcSpec == ProcInit /\ [][ProcNext]_gameVars

\* Every thread runs; nothing is assumed of the clients.
ProcFairSpec == ProcSpec /\ WF_gameVars(ProcStep) /\ \A c \in Chars : WF_gameVars(SessStep(c))

-----------------------------------------------------------------------------
(***************************************************************************)
(* Properties.                                                             *)
(***************************************************************************)

\* The game starts only when all its players have said HELLO: no HELLO is
\* counted twice, although its flag stays set while the processor wakes up.
StartsWhenAllReady ==
    procPc \in RealtimeLabels \cup EndLabels =>
        \A c \in Chars : sessPc[c] \notin {"invited", "hello", "setting"}

\* The state that goes out holds for each character the fields of one update,
\* although mailboxes are written and read without a lock.  Excepted is a
\* player who leaves before any update: its position was never written.
NoTornUpdate ==
    procPc = "judging" =>
        \A c \in Chars : update[c].number > 0 =>
            characters[c].position = characters[c].projectiles

\* The game is deleted only when every player has left it: no departure is
\* counted twice, so no session still holds a pointer to the game.
DeletedWhenAllLeft == ~listed => \A c \in Chars : sessPc[c] = "gone"

\* The outcome that goes out with END does not depend on when the players
\* left: the winner is alive in the last state, and everybody else is not.
OutcomeMatchesState ==
    procPc \in EndLabels /\ inGamePlayers > 0 =>
        ActiveChars = IF winner = Draw THEN {} ELSE {winner}

\* A player who leaves a game that has begun gets away: the session does not
\* wait for the flag of another departure for ever.
LeaveCompletes ==
    \A c \in Chars :
        sessPc[c] = "departing" /\ procPc \notin WaitingLabels ~> sessPc[c] = "gone"

-----------------------------------------------------------------------------
\* Once every player has said HELLO the game starts ("un cop hem inicialitzat
\* tots els clients entrarem en l'estat d'actualitzacions en temps real").
AllReadyStarts ==
    (\A c \in Chars : sessPc[c] = "playing") ~> procPc \notin WaitingLabels

\* Once every player has left after END the game is deleted ("comptem tots els
\* clients que es van desconnectant fins que ja no en quedi cap").  It fails: two
\* departures that both see the flag clear are counted once.
AllLeaversCounted ==
    procPc = "counting" /\ (\A c \in Chars : sessPc[c] = "gone") ~> ~listed
=============================================================================
