--------------------------- MODULE ClientRealtime ---------------------------
(***************************************************************************)
(* One client during a game.  Three parts interact: the receiver thread    *)
(* (StartRealtimeMode in ServerHandler.cs), which cuts what the socket     *)
(* gives it into messages, leaves them in static fields and raises a flag; *)
(* the game loop (Update in Game1.cs), which handles them and lowers the   *)
(* flag; and the server, whose session reads requests that TCP may have    *)
(* run together.  The player may leave at any time: the game loop stops    *)
(* the receiver and repeats its request until it reads the farewell        *)
(* (SwitchToNotificationMode).                                             *)
(*                                                                         *)
(* A state message is the number of the state it carries; OTHER stands for *)
(* the lists, chats and notifications that the server keeps sending to a   *)
(* player.  The amount of data waiting in the socket is the number of      *)
(* messages in it.                                                         *)
(***************************************************************************)
EXTENDS Naturals, Sequences, FiniteSets, SequencesExt, Selections

CONSTANTS MaxStates,    \* bound: game states the server sends
          MaxOthers,    \* bound: other messages it sends
          MaxRequests,  \* bound: requests waiting to be read by the session
          MaxWaiting,   \* bound: messages in the socket, which blocks writes when full
          High          \* messages that fill the 16384 bytes of the back-off

ASSUME RealtimeAssumption == /\ MaxStates \in Nat \ {0}
                             /\ MaxOthers \in Nat
                             /\ MaxRequests \in Nat \ {0, 1, 2}
                             /\ High \in Nat \ {0} /\ MaxWaiting > 2 * High

VARIABLES
    \* The receiver.
    rpc,
    batch,                  \* the messages of the last Receive
    incompleteLastMessage,
    backOffRequested,
    lastAvailable,
    \* ReceiverArgs.
    newDataFromServer,
    responseFifo,
    realtimeResponse,       \* number of the state, 0 before the first
    \* The game loop.
    gpc, i,
    Initialized, playable, GameEnded, shown,
    ghost,                  \* the aborted receiver is still inside Receive
    \* The connection.
    net, toServer,
    \* The server: its session, the player's place in the party, the game.
    session, userState, phase, states, others,
    newest                  \* history: newest state completely received

receiverVars == <<rpc, batch, incompleteLastMessage, backOffRequested, lastAvailable>>
argsVars     == <<newDataFromServer, responseFifo, realtimeResponse>>
gameVars     == <<Initialized, playable, GameEnded, shown>>
loopVars     == <<gpc, i>>
serverVars   == <<session, userState, phase, states, others>>
realtimeVars == <<receiverVars, argsVars, loopVars, gameVars, ghost, net, toServer,
                  serverVars, newest>>

Controls == {"INIT", "START", "END", "OTHER", "GOODBYE"}
States   == 1 .. MaxStates
Update(n) == [type |-> "STATE", number |-> n]
Control(type) == [type |-> type, number |-> 0]
Messages == {Update(n) : n \in States} \cup {Control(c) : c \in Controls}
Requests == {"HELLO", "UPDATE", "BACK-OFF", "RESUME", "LEAVE"}
Bye == Control("GOODBYE")

RealtimeTypeOK ==
    /\ rpc \in {"receive", "store", "flag", "wait", "stopped"}
    /\ batch \in Seq(Messages)
    /\ incompleteLastMessage \in BOOLEAN /\ backOffRequested \in BOOLEAN
    /\ lastAvailable \in Nat
    /\ newDataFromServer \in {0, 1, 103, 1103}
    /\ responseFifo \in Seq({Control(c) : c \in Controls})
    /\ realtimeResponse \in States \cup {0}
    /\ gpc \in {"update", "handle", "leave", "leaveRead", "notification"}
    /\ i \in Nat
    /\ Initialized \in BOOLEAN /\ playable \in BOOLEAN /\ GameEnded \in BOOLEAN
    /\ shown \in States \cup {0}
    /\ ghost \in BOOLEAN
    /\ net \in Seq(Messages)
    /\ toServer \in Seq(Requests)
    /\ session \in {"reading", "hello", "leaving", "waiting"}
    /\ userState \in {"in", "backed off", "left"}
    /\ phase \in {"waiting", "starting", "playing", "ended"}
    /\ states \in 0 .. MaxStates /\ others \in 0 .. MaxOthers
    /\ newest \in States \cup {0}

\* StartGamePopup has started the receiver and Initialize has sent the HELLO.
RealtimeInit ==
    /\ rpc = "receive" /\ batch = <<>>
    /\ incompleteLastMessage = FALSE /\ backOffRequested = FALSE /\ lastAvailable = 0
    /\ newDataFromServer = 0 /\ responseFifo = <<>> /\ realtimeResponse = 0
    /\ gpc = "update" /\ i = 0
    /\ Initialized = FALSE /\ playable = FALSE /\ GameEnded = FALSE /\ shown = 0
    /\ ghost = FALSE
    /\ net = <<>> /\ toServer = <<"HELLO">>
    /\ session = "reading" /\ userState = "in" /\ phase = "waiting"
    /\ states = 0 /\ others = 0 /\ newest = 0

Send(requests) == toServer' = toServer \o requests
CanSend(n) == Len(toServer) + n <= MaxRequests
CanWrite == Len(net) < MaxWaiting
-----------------------------------------------------------------------------
(***************************************************************************)
(* The receiver.                                                           *)
(***************************************************************************)

\* What Receive takes of the socket's data: n messages and, when cut is TRUE,
\* the first bytes of the next one, whose rest stays at the head.  (More than
\* one cut in a message makes no difference.)
Takes(n, cut) == /\ cut => n < Len(net)
                 /\ n = 0 => cut /\ ~incompleteLastMessage

\* Receive, and the RESUME that follows a back-off.  The rest of a message that
\* an earlier call had cut is skipped (messageSkipper).
Receive(n, cut) ==
    /\ rpc = "receive" /\ newDataFromServer = 0
    /\ Takes(n, cut)
    /\ backOffRequested => CanSend(1)
    /\ net' = SubSeq(net, n + 1, Len(net))
    /\ batch' = SubSeq(net, IF incompleteLastMessage THEN 2 ELSE 1, n)
    /\ incompleteLastMessage' = cut
    /\ backOffRequested' = FALSE
    /\ IF backOffRequested THEN Send(<<"RESUME">>) ELSE UNCHANGED toServer
    /\ lastAvailable' = 0    \* not read before the next back-off sets it
    /\ rpc' = "store"
    /\ UNCHANGED <<argsVars, loopVars, gameVars, ghost, serverVars, newest>>

IsState(m) == m.type = "STATE"
Numbers == {batch[k].number : k \in {j \in DOMAIN batch : IsState(batch[j])}}

\* Faulty variant: the messages are searched from the first one on.
OldestState == CHOOSE n \in Numbers : \A m \in Numbers : n <= m

\* The search from the last message on keeps the newest state.
NewestState == CHOOSE n \in Numbers : \A m \in Numbers : m <= n

\* Faulty variant: the states are queued too.
AllMessages == batch

Others == Pick(batch, {k \in DOMAIN batch : ~IsState(batch[k])})

\* The flag that tells the game loop what there is.
DataFlag == IF Numbers # {} /\ Others # <<>> THEN 1103
            ELSE IF Numbers # {} THEN 103
            ELSE IF Others # <<>> THEN 1
            ELSE 0

\* Faulty variant: the flag is raised instead of storing the messages first.
StoreFlagFirst ==
    /\ rpc = "store"
    /\ newDataFromServer' = DataFlag
    /\ rpc' = "flag"
    /\ UNCHANGED <<batch, incompleteLastMessage, backOffRequested, lastAvailable,
                   responseFifo, realtimeResponse, loopVars, gameVars, ghost, net,
                   toServer, serverVars, newest>>

\* The newest state is kept and the other messages are queued, the last first.
Store ==
    /\ rpc = "store"
    /\ realtimeResponse' = IF Numbers = {} THEN realtimeResponse ELSE NewestState
    /\ responseFifo' = responseFifo \o Reverse(Others)
    /\ newest' = IF Numbers = {} THEN newest ELSE CHOOSE n \in Numbers : \A m \in Numbers : m <= n
    /\ rpc' = "flag"
    /\ UNCHANGED <<batch, incompleteLastMessage, backOffRequested, lastAvailable,
                   newDataFromServer, loopVars, gameVars, ghost, net, toServer, serverVars>>

RaiseFlag ==
    /\ rpc = "flag"
    /\ newDataFromServer' = DataFlag
    /\ batch' = <<>>
    /\ rpc' = IF DataFlag = 0 THEN "receive" ELSE "wait"
    /\ UNCHANGED <<incompleteLastMessage, backOffRequested, lastAvailable, responseFifo,
                   realtimeResponse, loopVars, gameVars, ghost, net, toServer, serverVars,
                   newest>>

\* Faulty variant: the back-off is asked for before there is any data.
MustBackOffAlways(data) == ~backOffRequested \/ data > lastAvailable

MustBackOff(data) == \/ data > High /\ (~backOffRequested \/ data > lastAvailable)
                     \/ data > 2 * High

\* While the game loop has not lowered the flag, the receiver watches how much
\* data the socket holds.
Watch ==
    /\ rpc = "wait"
    /\ IF newDataFromServer = 0
       THEN /\ rpc' = "receive"
            /\ UNCHANGED <<backOffRequested, lastAvailable, toServer>>
       ELSE /\ IF MustBackOff(Len(net))
               THEN CanSend(1) /\ Send(<<"BACK-OFF">>) /\ backOffRequested' = TRUE
               ELSE UNCHANGED <<toServer, backOffRequested>>
            /\ lastAvailable' = IF backOffRequested' THEN Len(net) ELSE 0
            /\ UNCHANGED rpc
    /\ UNCHANGED <<batch, incompleteLastMessage, argsVars, loopVars, gameVars, ghost, net,
                   serverVars, newest>>

Receiver == \/ \E n \in 0 .. Len(net), cut \in BOOLEAN : Receive(n, cut)
            \/ Store \/ RaiseFlag \/ Watch
-----------------------------------------------------------------------------
(***************************************************************************)
(* The game loop.  Its thread is the one that leaves the game.             *)
(***************************************************************************)

LookForData ==
    /\ gpc = "update" /\ newDataFromServer # 0
    /\ gpc' = "handle" /\ i' = 0
    /\ UNCHANGED <<receiverVars, argsVars, gameVars, ghost, net, toServer, serverVars, newest>>

\* UpdateInit, the START and the END of the game; other types are ignored.
Handle(m) ==
    /\ Initialized' = (Initialized \/ m = Control("INIT"))
    /\ GameEnded' = (GameEnded \/ m = Control("END"))
    /\ playable' = CASE m = Control("START") -> TRUE
                     [] m = Control("END") -> FALSE
                     [] OTHER -> playable
    /\ UNCHANGED shown

\* The loop compares its counter with what the queue still holds.
QueueGoesOn == newDataFromServer \in {1, 1103} /\ i < Len(responseFifo)

Dequeue ==
    /\ gpc = "handle" /\ QueueGoesOn
    /\ Handle(Head(responseFifo))
    /\ responseFifo' = Tail(responseFifo)
    /\ i' = i + 1
    /\ UNCHANGED <<receiverVars, newDataFromServer, realtimeResponse, gpc, ghost, net,
                   toServer, serverVars, newest>>

ShowsState == newDataFromServer \in {103, 1103} /\ Initialized /\ ~GameEnded

\* PeriodicalUpdate; every state sent after the START says that the game is
\* playable.
PeriodicalUpdate ==
    /\ shown' = realtimeResponse
    /\ playable' = (playable \/ realtimeResponse > 1)
    /\ UNCHANGED <<Initialized, GameEnded>>

\* The rest of the data of this frame: the state, then the flag.
FinishUpdate ==
    /\ gpc = "handle" /\ ~QueueGoesOn
    /\ IF ShowsState THEN PeriodicalUpdate ELSE UNCHANGED gameVars
    /\ newDataFromServer' = 0
    /\ gpc' = "update" /\ i' = 0
    /\ UNCHANGED <<receiverVars, responseFifo, realtimeResponse, ghost, net, toServer,
                   serverVars, newest>>

\* The player's own update, sent every 10 ms.
SendUpdate ==
    /\ gpc = "update"
    /\ Initialized /\ playable /\ ~GameEnded
    /\ CanSend(1) /\ Send(<<"UPDATE">>)
    /\ UNCHANGED <<receiverVars, argsVars, loopVars, gameVars, ghost, net, serverVars, newest>>

\* OnExiting.  An abort does not interrupt a Receive: a thread that is inside
\* it ends after it, with the data it was given.  The state of the game and the
\* static fields are not read again before another game renews them.
StartLeaving ==
    /\ gpc = "update"
    /\ rpc' = "stopped"
    /\ ghost' = (rpc = "receive" /\ newDataFromServer = 0)
    /\ batch' = <<>> /\ backOffRequested' = FALSE /\ lastAvailable' = 0
    /\ newDataFromServer' = 0 /\ responseFifo' = <<>> /\ realtimeResponse' = 0
    /\ Initialized' = FALSE /\ playable' = FALSE /\ GameEnded' = FALSE /\ shown' = 0
    /\ newest' = 0
    /\ gpc' = "leave"
    /\ Send(<<"BACK-OFF", "BACK-OFF", "BACK-OFF", "LEAVE">>)
    /\ UNCHANGED <<incompleteLastMessage, i, net, serverVars>>

GhostReceive ==
    /\ ghost /\ net # <<>>
    /\ \E n \in 0 .. Len(net), cut \in BOOLEAN :
          /\ Takes(n, cut)
          /\ net' = SubSeq(net, n + 1, Len(net))
          /\ incompleteLastMessage' = cut
    /\ ghost' = FALSE
    /\ UNCHANGED <<rpc, batch, backOffRequested, lastAvailable, argsVars, loopVars, gameVars,
                   toServer, serverVars, newest>>

\* Faulty variant: any answer is taken for the farewell.
IsGoodbyeAny(n, cut) == n > 0

\* The first message of what was read, unless it is the rest of another one.
IsGoodbye(n, cut) == n > 0 /\ ~incompleteLastMessage /\ Head(net) = Bye

\* Another back-off and LEAVE; when the bound is reached, those that wait,
\* the last of which is a LEAVE, stand for them.
LeaveAgain == IF CanSend(2) THEN Send(<<"BACK-OFF", "LEAVE">>) ELSE UNCHANGED toServer

\* There is data to read, unless the aborted receiver takes it first.
LeaveSees ==
    /\ gpc = "leave" /\ net # <<>>
    /\ gpc' = "leaveRead"
    /\ UNCHANGED <<receiverVars, argsVars, i, gameVars, ghost, net, toServer, serverVars,
                   newest>>

\* ReceiveReponse, which waits for data without a limit.  A read that does not begin with
\* the farewell is followed by another request.
LeaveRead(n, cut) ==
    /\ gpc = "leaveRead" /\ net # <<>>
    /\ Takes(n, cut)
    /\ net' = SubSeq(net, n + 1, Len(net))
    /\ incompleteLastMessage' = cut
    /\ IF IsGoodbye(n, cut)
       THEN gpc' = "notification" /\ UNCHANGED toServer
       ELSE gpc' = "leave" /\ LeaveAgain
    /\ UNCHANGED <<rpc, batch, backOffRequested, lastAvailable, argsVars, i, gameVars, ghost,
                   serverVars, newest>>

\* Half a second without an answer.
LeaveTimeout ==
    /\ gpc = "leave" /\ net = <<>>
    /\ LeaveAgain
    /\ UNCHANGED <<receiverVars, argsVars, loopVars, gameVars, ghost, net, serverVars, newest>>

ReadsAll == LeaveRead(Len(net), FALSE)
Leaving  == \/ LeaveTimeout \/ LeaveSees
            \/ \E n \in 0 .. Len(net), cut \in BOOLEAN : LeaveRead(n, cut)
GameLoop == LookForData \/ Dequeue \/ FinishUpdate \/ SendUpdate \/ StartLeaving
-----------------------------------------------------------------------------
(***************************************************************************)
(* The server.                                                             *)
(***************************************************************************)

\* The session takes what the socket holds for one request.  A request that
\* ends in a separator is understood although others follow it; of the others,
\* which do not, the name runs into the next request and is not recognised.
Understood(requests) ==
    IF Len(requests) = 1 \/ Head(requests) \in {"HELLO", "UPDATE"} THEN Head(requests)
                                                                  ELSE "none"

\* Faulty variant: a player who has left gets no answer.
AnswersLeaveOnce == userState # "left"

AnswersLeave == TRUE

\* attendClient, requests 101, 103 and 104.  A back-off or resume that comes
\* after the LEAVE finds no place in the party.
Serve(n) ==
    LET request == Understood(SubSeq(toServer, 1, n)) IN
    /\ session = "reading"
    /\ request \in {"HELLO", "LEAVE"} => CanWrite
    /\ toServer' = SubSeq(toServer, n + 1, Len(toServer))
    /\ net' = CASE request = "HELLO" -> Append(net, Control("INIT"))
                [] request = "LEAVE" /\ AnswersLeave -> Append(net, Bye)
                [] OTHER -> net
    /\ session' = CASE request = "HELLO" -> "hello"
                    [] request = "LEAVE" /\ userState # "left" -> "leaving"
                    [] OTHER -> "reading"
    /\ userState' = IF userState # "left" /\ request \in {"BACK-OFF", "RESUME"}
                    THEN IF request = "BACK-OFF" THEN "backed off" ELSE "in"
                    ELSE userState
    /\ UNCHANGED <<receiverVars, argsVars, loopVars, gameVars, ghost, phase, states, others,
                   newest>>

ServeOne     == toServer # <<>> /\ Serve(1)
ServeSeveral == \E n \in 2 .. Len(toServer) : Serve(n)

\* After the farewell the player is taken out of the game's messages.
TakeOut ==
    /\ session = "leaving"
    /\ session' = "waiting"
    /\ userState' = "left"
    /\ UNCHANGED <<receiverVars, argsVars, loopVars, gameVars, ghost, net, toServer, phase,
                   states, others, newest>>

\* The end of the loops of HELLO, after which the game may begin, and of LEAVE.  They wait
\* for the processor of the game, which may never wake up.
SessionGoesOn ==
    /\ session \in {"hello", "waiting"}
    /\ session' = "reading"
    /\ phase' = IF session = "hello" THEN "starting" ELSE phase
    /\ UNCHANGED <<receiverVars, argsVars, loopVars, gameVars, ghost, net, toServer, userState,
                   states, others, newest>>

\* sendToGame: only a player who is in gets the game's messages.
ToPlayer(m) == IF userState = "in" THEN CanWrite /\ net' = Append(net, m) ELSE UNCHANGED net

GameState ==
    /\ phase \in {"starting", "playing"} /\ states < MaxStates
    /\ phase = "playing" <=> states > 0
    /\ states' = states + 1 /\ ToPlayer(Update(states'))
    /\ UNCHANGED <<receiverVars, argsVars, loopVars, gameVars, ghost, toServer, session,
                   userState, phase, others, newest>>

GameStart ==
    /\ phase = "starting" /\ states = 1
    /\ phase' = "playing" /\ ToPlayer(Control("START"))
    /\ UNCHANGED <<receiverVars, argsVars, loopVars, gameVars, ghost, toServer, session,
                   userState, states, others, newest>>

GameEnd ==
    /\ phase = "playing"
    /\ phase' = "ended" /\ ToPlayer(Control("END"))
    /\ UNCHANGED <<receiverVars, argsVars, loopVars, gameVars, ghost, toServer, session,
                   userState, states, others, newest>>

\* The timer of the back-off.
BackOffEnds ==
    /\ userState = "backed off"
    /\ userState' = "in"
    /\ UNCHANGED <<receiverVars, argsVars, loopVars, gameVars, ghost, net, toServer, session,
                   phase, states, others, newest>>

OtherMessage ==
    /\ CanWrite /\ others < MaxOthers /\ others' = others + 1
    /\ net' = Append(net, Control("OTHER"))
    /\ UNCHANGED <<receiverVars, argsVars, loopVars, gameVars, ghost, toServer, session,
                   userState, phase, states, newest>>

ServerGame == GameState \/ GameStart \/ GameEnd \/ BackOffEnds \/ OtherMessage

RealtimeNext == \/ Receiver \/ GameLoop \/ GhostReceive \/ Leaving
                \/ ServeOne \/ ServeSeveral \/ TakeOut \/ SessionGoesOn \/ ServerGame

RealtimeSpec == RealtimeInit /\ [][RealtimeNext]_realtimeVars

\* The leaving thread runs, and the session outside the loops that wait for the processor
\* (main.c:1395, 1434), of which nothing is assumed.  TCP does not always cut answers of a
\* dozen bytes, nor does it always run together requests that are sent at least
\* 50 ms apart.
RealtimeFairSpec ==
    /\ RealtimeSpec
    /\ WF_realtimeVars(Leaving)
    /\ SF_realtimeVars(ReadsAll)
    /\ SF_realtimeVars(ReadsAll /\ ~incompleteLastMessage)
    /\ WF_realtimeVars(TakeOut)
    /\ SF_realtimeVars(ServeOne)
    /\ SF_realtimeVars(ServeOne /\ Head(toServer) = "LEAVE")
-----------------------------------------------------------------------------
(***************************************************************************)
(* Properties.                                                             *)
(***************************************************************************)

\* The game loop reads the queue and the state only while the receiver waits
\* for it: there is no lock, the flag alone keeps the two threads apart.
OneSideAtATime == gpc = "handle" => rpc = "wait"

\* The RESUME is sent after the next Receive, which blocks on an empty socket:
\* a receiver that owes one always finds data to read.
BackedOffHasData == rpc = "receive" /\ backOffRequested => net # <<>>

\* When the client is back in notification mode, the server has begun to take
\* the player out of the game, whatever requests and answers were lost.
LeftOnBothSides == gpc = "notification" => userState = "left" \/ session = "leaving"

\* A frame shows the newest state that has arrived, and never an older one
\* than before: states may be skipped, not reordered.
ShownIsNewest ==
    [][gpc = "handle" /\ shown' # shown => shown' = newest /\ shown' > shown]_realtimeVars

\* Two ways in which the client is left waiting: its session never gets past the
\* processor, or the data it saw was taken by the aborted receiver and no more comes.
SessionStuck  == session \in {"hello", "waiting"}
ReceiverStuck == gpc = "leaveRead" /\ net = <<>>

\* A player who leaves gets out, although requests run together, answers are cut or
\* swallowed and arrive behind other messages: the repeated request ends in a farewell
\* that is recognised, unless the session or the read itself is stuck for ever.
LeavingEnds == gpc = "leave" ~> gpc = "notification" \/ []SessionStuck \/ []ReceiverStuck

\* Without these exceptions it fails.
LeavingAlwaysEnds == gpc = "leave" ~> gpc = "notification"

\* What the receiver waits for: that the game loop has emptied the queue.  It fails with
\* two messages in the queue, of which the loop takes one.
QueueEmptied == rpc = "receive" /\ newDataFromServer = 0 => responseFifo = <<>>
=============================================================================
