------------------------ MODULE ClientRealtimeProofs ------------------------
(***************************************************************************)
(* Proofs about a client during a game, for any number of states, messages *)
(* and requests and any threshold of the back-off: what keeps the receiver *)
(* and the game loop apart, and what the farewell means.                   *)
(***************************************************************************)
EXTENDS ClientRealtime, SelectionsProofs

\* The flag is down while the receiver works and up while the game loop does; the
\* receiver is stopped before the game loop leaves.
ControlInv ==
    /\ rpc \in {"receive", "store", "flag", "wait", "stopped"}
    /\ gpc \in {"update", "handle", "leave", "leaveRead", "notification"}
    /\ rpc \in {"receive", "store", "flag"} => newDataFromServer = 0
    /\ gpc = "handle" => rpc = "wait" /\ newDataFromServer # 0
    /\ rpc = "stopped" <=> gpc \in {"leave", "leaveRead", "notification"}
    /\ ghost => rpc = "stopped"

\* A back-off was asked for because there was data, and only the receiver takes it.
BackOffInv == backOffRequested => net # <<>> /\ rpc \in {"receive", "wait"}

\* The farewell is on its way, or was read, only if the server has seen a LEAVE.
FarewellSent == \E k \in 1 .. Len(net) : net[k] = Bye
Leaves == userState = "left" \/ session = "leaving"

FarewellInv == /\ net \in Seq(Messages) /\ states \in 0 .. MaxStates
               /\ FarewellSent => Leaves
               /\ gpc = "notification" => Leaves

\* The inductive invariant.
RealtimeInv == ControlInv /\ BackOffInv /\ FarewellInv

-----------------------------------------------------------------------------
(***************************************************************************)
(* What is in the socket.                                                  *)
(***************************************************************************)

\* Reading takes messages away and adds none.
LEMMA Shrunk ==
    ASSUME net \in Seq(Messages), NEW n \in 0 .. Len(net), net' = SubSeq(net, n + 1, Len(net))
    PROVE  net' \in Seq(Messages) /\ (FarewellSent' => FarewellSent)
<1>1. Len(net) \in Nat /\ n \in Nat /\ \A k \in n + 1 .. Len(net) : net[k] \in Messages
  OBVIOUS
<1>2. /\ net' \in Seq(Messages)
      /\ Len(net') = IF n + 1 <= Len(net) THEN Len(net) - (n + 1) + 1 ELSE 0
      /\ \A k \in 1 .. Len(net) - (n + 1) + 1 : net'[k] = net[n + 1 + k - 1]
  BY <1>1, SubSeqProperties
<1>3. ASSUME NEW k \in 1 .. Len(net'), net'[k] = Bye PROVE FarewellSent
  <2>1. k \in 1 .. Len(net) - (n + 1) + 1 /\ n + 1 + k - 1 \in 1 .. Len(net)
    BY <1>1, <1>2
  <2>2. net[n + 1 + k - 1] = Bye
    BY <1>2, <1>3, <2>1
  <2> QED
    BY <2>1, <2>2 DEF FarewellSent
<1> QED
  BY <1>2, <1>3 DEF FarewellSent

\* Writing adds one message.
LEMMA Grown ==
    ASSUME net \in Seq(Messages), NEW m \in Messages, net' = Append(net, m)
    PROVE  /\ net' \in Seq(Messages) /\ net' # <<>>
           /\ FarewellSent' => FarewellSent \/ m = Bye
<1>1. /\ net' \in Seq(Messages) /\ net' # <<>> /\ Len(net') = Len(net) + 1
      /\ \A k \in 1 .. Len(net) : net'[k] = net[k]
      /\ net'[Len(net) + 1] = m
  BY AppendProperties
<1>2. Len(net) \in Nat
  OBVIOUS
<1>3. ASSUME NEW k \in 1 .. Len(net'), net'[k] = Bye PROVE FarewellSent \/ m = Bye
  <2>1. k \in 1 .. Len(net) \/ k = Len(net) + 1
    BY <1>1, <1>2
  <2> QED
    BY <1>1, <1>3, <2>1 DEF FarewellSent
<1> QED
  BY <1>1, <1>3 DEF FarewellSent

\* No other message is taken for the farewell.
LEMMA MessageKinds ==
    /\ \A type \in Controls : Control(type) \in Messages
    /\ \A type \in Controls \ {"GOODBYE"} : Control(type) # Bye
    /\ \A n \in States : Update(n) \in Messages /\ Update(n) # Bye
<1>1. \A type \in Controls : Control(type) \in Messages
  BY DEF Messages
<1>2. \A n \in States : Update(n) \in Messages
  BY DEF Messages
<1>3. \A type \in Controls \ {"GOODBYE"} : Control(type).type # Bye.type
  BY DEF Control, Bye, Controls
<1>4. \A n \in States : Update(n).type # Bye.type
  BY DEF Update, Control, Bye
<1> QED
  BY <1>1, <1>2, <1>3, <1>4

\* The first message is in the socket.
LEMMA HeadIsThere ==
    ASSUME net \in Seq(Messages), net # <<>>, Head(net) = Bye
    PROVE  FarewellSent
<1>1. Len(net) \in Nat /\ Len(net) > 0 /\ Head(net) = net[1]
  OBVIOUS
<1> QED
  BY <1>1 DEF FarewellSent

-----------------------------------------------------------------------------
(***************************************************************************)
(* The two threads of the client.                                          *)
(***************************************************************************)

\* The steps of the client, sorted by what they do to the socket.
Quiet == Store \/ RaiseFlag \/ Watch \/ GameLoop \/ LeaveTimeout \/ LeaveSees

Reads(n, cut) == Receive(n, cut) \/ LeaveRead(n, cut)

Server == ServeOne \/ ServeSeveral \/ TakeOut \/ SessionGoesOn \/ ServerGame

\* Every step is one of these.
LEMMA Steps ==
    RealtimeNext => \/ Quiet \/ Server \/ GhostReceive
                    \/ \E n \in 0 .. Len(net), cut \in BOOLEAN : Reads(n, cut)
  BY DEF RealtimeNext, Receiver, Leaving, Quiet, Reads, Server

\* The server touches neither thread.
LEMMA ServerLeaves ==
    Server => UNCHANGED <<rpc, gpc, newDataFromServer, ghost, backOffRequested>>
<1>1. ServeOne \/ ServeSeveral => UNCHANGED <<receiverVars, argsVars, loopVars, ghost>>
  BY DEF ServeOne, ServeSeveral, Serve
<1>2. TakeOut \/ SessionGoesOn \/ ServerGame =>
         UNCHANGED <<receiverVars, argsVars, loopVars, ghost>>
  BY DEF TakeOut, SessionGoesOn, ServerGame, GameState, GameStart, GameEnd, BackOffEnds,
         OtherMessage
<1> QED
  BY <1>1, <1>2 DEF Server, receiverVars, argsVars, loopVars

\* Quiet steps leave socket and server alone.
LEMMA QuietLeaves == Quiet => UNCHANGED <<net, userState, session, states>>
  BY DEF Quiet, Store, RaiseFlag, Watch, GameLoop, LookForData, Dequeue, FinishUpdate,
         SendUpdate, StartLeaving, LeaveTimeout, LeaveSees, serverVars

\* So does what takes data away with the server.
LEMMA ReadsLeave ==
    ASSUME NEW n, NEW cut, Reads(n, cut)
    PROVE  UNCHANGED <<userState, session, states>> /\ net' = SubSeq(net, n + 1, Len(net))
  BY DEF Reads, Receive, LeaveRead, serverVars

\* The threads keep apart.
LEMMA ControlStep == ASSUME ControlInv, [RealtimeNext]_realtimeVars PROVE ControlInv'
<1> USE DEF ControlInv
<1>1. CASE Store \/ RaiseFlag \/ Watch
  BY <1>1 DEF Store, RaiseFlag, Watch, DataFlag, argsVars, loopVars
<1>2. CASE LookForData
  BY <1>2 DEF LookForData, receiverVars, argsVars
<1>3. CASE Dequeue
  BY <1>3 DEF Dequeue, receiverVars
<1>4. CASE FinishUpdate
  BY <1>4 DEF FinishUpdate, receiverVars
<1>5. CASE SendUpdate
  BY <1>5 DEF SendUpdate, receiverVars, argsVars, loopVars
<1>6. CASE StartLeaving
  BY <1>6 DEF StartLeaving
<1>7. CASE LeaveTimeout \/ LeaveSees
  BY <1>7 DEF LeaveTimeout, LeaveSees, receiverVars, argsVars, loopVars
<1>8. CASE GhostReceive
  BY <1>8 DEF GhostReceive, argsVars, loopVars
<1>9. ASSUME NEW n, NEW cut, Receive(n, cut) PROVE ControlInv'
  BY <1>9 DEF Receive, argsVars, loopVars
<1>10. ASSUME NEW n, NEW cut, LeaveRead(n, cut) PROVE ControlInv'
  BY <1>10 DEF LeaveRead, argsVars
<1>11. CASE Server
  BY <1>11, ServerLeaves
<1>12. CASE UNCHANGED realtimeVars
  BY <1>12 DEF realtimeVars, receiverVars, argsVars, loopVars
<1> QED
  BY <1>1, <1>2, <1>3, <1>4, <1>5, <1>6, <1>7, <1>8, <1>9, <1>10, <1>11, <1>12, Steps
  DEF Quiet, GameLoop, Reads

-----------------------------------------------------------------------------
(***************************************************************************)
(* The back-off.                                                           *)
(***************************************************************************)

\* The messages the server writes.
LEMMA ServerWrites ==
    ASSUME FarewellInv, Server
    PROVE  /\ net' \in Seq(Messages)
           /\ net # <<>> => net' # <<>>
           /\ FarewellSent' => FarewellSent \/ Leaves'
           /\ Leaves => Leaves'
<1>1. net \in Seq(Messages)
  BY DEF FarewellInv
<1>2. ASSUME NEW type \in Controls, net' = Append(net, Control(type)),
             type # "GOODBYE" \/ Leaves', Leaves => Leaves'
      PROVE  /\ net' \in Seq(Messages) /\ net' # <<>>
             /\ FarewellSent' => FarewellSent \/ Leaves'
  <2>1. Control(type) \in Messages /\ (Control(type) = Bye => type = "GOODBYE")
    BY MessageKinds
  <2>2. /\ net' \in Seq(Messages) /\ net' # <<>>
        /\ FarewellSent' => FarewellSent \/ Control(type) = Bye
    BY <1>1, <1>2, <2>1, Grown
  <2> QED
    BY <1>2, <2>1, <2>2
<1>3. ASSUME UNCHANGED net, Leaves => Leaves'
      PROVE  /\ net' \in Seq(Messages) /\ (net # <<>> => net' # <<>>)
             /\ FarewellSent' => FarewellSent \/ Leaves'
  BY <1>1, <1>3 DEF FarewellSent
<1>4. ASSUME NEW n, Serve(n)
      PROVE  /\ Leaves => Leaves'
             /\ \/ UNCHANGED net
                \/ net' = Append(net, Control("INIT"))
                \/ net' = Append(net, Control("GOODBYE")) /\ Leaves'
  <2>1. PICK request : /\ net' = CASE request = "HELLO" -> Append(net, Control("INIT"))
                                   [] request = "LEAVE" /\ AnswersLeave -> Append(net, Bye)
                                   [] OTHER -> net
                       /\ session' = CASE request = "HELLO" -> "hello"
                                       [] request = "LEAVE" /\ userState # "left" -> "leaving"
                                       [] OTHER -> "reading"
                       /\ userState = "left" => userState' = "left"
    BY <1>4 DEF Serve
  <2>2. Leaves => userState = "left"
    <3>1. session = "reading"
      BY <1>4 DEF Serve
    <3> QED
      BY <3>1 DEF Leaves
  <2>3. userState = "left" => userState' = "left"
    BY <2>1
  <2>4. request = "LEAVE" => userState' = "left" \/ session' = "leaving"
    BY <2>1
  <2>5. \/ UNCHANGED net
        \/ net' = Append(net, Control("INIT"))
        \/ net' = Append(net, Bye) /\ request = "LEAVE"
    BY <2>1
  <2> QED
    BY <2>2, <2>3, <2>4, <2>5 DEF Leaves, Bye
<1>5. CASE ServeOne \/ ServeSeveral
  <2>1. PICK n : Serve(n)
    BY <1>5 DEF ServeOne, ServeSeveral
  <2>2. "INIT" \in Controls /\ "GOODBYE" \in Controls /\ "INIT" # "GOODBYE"
    BY DEF Controls
  <2>3. Leaves => Leaves'
    BY <1>4, <2>1
  <2>4. CASE net' = Append(net, Control("INIT"))
    BY <1>2, <2>2, <2>3, <2>4
  <2>5. CASE net' = Append(net, Control("GOODBYE")) /\ Leaves'
    BY <1>2, <2>2, <2>3, <2>5
  <2> QED
    BY <1>3, <1>4, <2>1, <2>3, <2>4, <2>5
<1>6. CASE TakeOut \/ SessionGoesOn
  BY <1>3, <1>6 DEF TakeOut, SessionGoesOn, Leaves
<1>7. CASE ServerGame
  <2>1. Leaves => Leaves'
    BY <1>7 DEF ServerGame, GameState, GameStart, GameEnd, BackOffEnds, OtherMessage, Leaves
  <2>2. ASSUME NEW m, ToPlayer(m) PROVE UNCHANGED net \/ net' = Append(net, m)
    BY <2>2 DEF ToPlayer
  <2>3. CASE GameStart \/ GameEnd \/ BackOffEnds \/ OtherMessage
    <3>1. \/ UNCHANGED net
          \/ \E type \in {"START", "END", "OTHER"} : net' = Append(net, Control(type))
      BY <2>2, <2>3 DEF GameStart, GameEnd, BackOffEnds, OtherMessage
    <3>2. {"START", "END", "OTHER"} \subseteq Controls \ {"GOODBYE"}
      BY DEF Controls
    <3> QED
      BY <1>2, <1>3, <2>1, <3>1, <3>2
  <2>4. CASE GameState
    <3>1. UNCHANGED net \/ net' = Append(net, Update(states'))
      BY <2>2, <2>4 DEF GameState
    <3>2. states' \in States
      <4>1. states' = states + 1 /\ states < MaxStates /\ states \in 0 .. MaxStates
        BY <2>4 DEF GameState, FarewellInv
      <4>2. MaxStates \in Nat
        BY RealtimeAssumption
      <4> QED
        BY <4>1, <4>2 DEF States
    <3>3. CASE net' = Append(net, Update(states'))
      <4> DEFINE m == Update(states')
      <4>1. m \in Messages /\ m # Bye
        BY <3>2, MessageKinds
      <4>2. net' = Append(net, m)
        BY <3>3
      <4> HIDE DEF m
      <4> QED
        BY <1>1, <2>1, <4>1, <4>2, Grown
    <3> QED
      BY <1>3, <2>1, <3>1, <3>3
  <2> QED
    BY <1>7, <2>3, <2>4 DEF ServerGame
<1> QED
  BY <1>5, <1>6, <1>7 DEF Server

\* Only the receiver empties the socket while it owes a RESUME.
LEMMA BackOffStep ==
    ASSUME RealtimeInv, [RealtimeNext]_realtimeVars
    PROVE  BackOffInv'
<1> USE DEF RealtimeInv, BackOffInv
<1>1. CASE Watch
  <2>1. CASE UNCHANGED backOffRequested
    BY <1>1, <2>1 DEF Watch
  <2>2. CASE rpc' = "wait" /\ MustBackOff(Len(net)) /\ UNCHANGED net
    <3>1. High \in Nat \ {0} /\ Len(net) \in Nat
      BY RealtimeAssumption DEF FarewellInv
    <3>2. Len(net) > 0
      BY <2>2, <3>1 DEF MustBackOff
    <3>3. net # <<>>
      BY <3>2
    <3> QED
      BY <2>2, <3>3
  <2> QED
    BY <1>1, <2>1, <2>2 DEF Watch
<1>2. CASE Store \/ RaiseFlag
  BY <1>2 DEF Store, RaiseFlag
<1>3. CASE GameLoop
  BY <1>3 DEF GameLoop, LookForData, Dequeue, FinishUpdate, SendUpdate, StartLeaving,
              receiverVars
<1>4. CASE LeaveTimeout \/ LeaveSees
  BY <1>4 DEF LeaveTimeout, LeaveSees, receiverVars
<1>5. CASE GhostReceive
  BY <1>5 DEF GhostReceive, ControlInv
<1>6. ASSUME NEW n, NEW cut, Receive(n, cut) PROVE BackOffInv'
  BY <1>6 DEF Receive
<1>7. ASSUME NEW n, NEW cut, LeaveRead(n, cut) PROVE BackOffInv'
  BY <1>7 DEF LeaveRead, ControlInv
<1>8. CASE Server
  BY <1>8, ServerLeaves, ServerWrites
<1>9. CASE UNCHANGED realtimeVars
  BY <1>9 DEF realtimeVars, receiverVars
<1> QED
  BY <1>1, <1>2, <1>3, <1>4, <1>5, <1>6, <1>7, <1>8, <1>9, Steps DEF Quiet, Reads

-----------------------------------------------------------------------------
(***************************************************************************)
(* The farewell.                                                           *)
(***************************************************************************)

\* The farewell means that the server has seen a LEAVE.
LEMMA FarewellStep ==
    ASSUME RealtimeInv, [RealtimeNext]_realtimeVars
    PROVE  FarewellInv'
<1> USE DEF RealtimeInv
<1>1. /\ net \in Seq(Messages) /\ states \in 0 .. MaxStates
      /\ FarewellSent \/ gpc = "notification" => Leaves
  BY DEF FarewellInv
<1>2. ASSUME UNCHANGED <<userState, session, states>>,
             net' \in Seq(Messages), FarewellSent' => FarewellSent,
             gpc' = "notification" => gpc = "notification" \/ FarewellSent
      PROVE  FarewellInv'
  BY <1>1, <1>2 DEF FarewellInv, Leaves
<1>3. CASE Quiet
  <2>1. UNCHANGED <<net, userState, session, states>>
    BY <1>3, QuietLeaves
  <2>2. gpc' = "notification" => gpc = "notification"
    BY <1>3 DEF Quiet, Store, RaiseFlag, Watch, GameLoop, LookForData, Dequeue, FinishUpdate,
                SendUpdate, StartLeaving, LeaveTimeout, LeaveSees, loopVars
  <2> QED
    BY <1>1, <1>2, <2>1, <2>2 DEF FarewellSent
<1>4. ASSUME NEW n \in 0 .. Len(net), NEW cut \in BOOLEAN, Reads(n, cut) PROVE FarewellInv'
  <2>1. /\ UNCHANGED <<userState, session, states>>
        /\ net' \in Seq(Messages) /\ (FarewellSent' => FarewellSent)
    BY <1>1, <1>4, ReadsLeave, Shrunk
  <2>2. gpc' = "notification" => \/ gpc = "notification"
                                 \/ net # <<>> /\ Head(net) = Bye
    BY <1>4 DEF Reads, Receive, LeaveRead, IsGoodbye, loopVars
  <2> QED
    BY <1>1, <1>2, <2>1, <2>2, HeadIsThere
<1>5. CASE GhostReceive
  <2>1. PICK n \in 0 .. Len(net) : net' = SubSeq(net, n + 1, Len(net))
    BY <1>5 DEF GhostReceive
  <2>2. UNCHANGED <<userState, session, states, gpc>>
    BY <1>5 DEF GhostReceive, serverVars, loopVars
  <2> QED
    BY <1>1, <1>2, <2>1, <2>2, Shrunk
<1>6. CASE Server
  <2>1. /\ net' \in Seq(Messages) /\ (FarewellSent' => FarewellSent \/ Leaves')
        /\ Leaves => Leaves'
    BY <1>6, ServerWrites
  <2>2. gpc' = gpc
    BY <1>6, ServerLeaves
  <2>3. states' \in 0 .. MaxStates
    <3>1. UNCHANGED states \/ (states < MaxStates /\ states' = states + 1)
      BY <1>6 DEF Server, ServeOne, ServeSeveral, Serve, TakeOut, SessionGoesOn,
                  ServerGame, GameState, GameStart, GameEnd, BackOffEnds, OtherMessage
    <3> QED
      BY <1>1, <3>1, RealtimeAssumption
  <2> QED
    BY <1>1, <2>1, <2>2, <2>3 DEF FarewellInv
<1>7. CASE UNCHANGED realtimeVars
  BY <1>1, <1>2, <1>7 DEF realtimeVars, loopVars, serverVars, FarewellSent
<1> QED
  BY <1>3, <1>4, <1>5, <1>6, <1>7, Steps

-----------------------------------------------------------------------------
(***************************************************************************)
(* The types.                                                              *)
(***************************************************************************)

Queued == {Control(c) : c \in Controls}

\* The parts of the type invariant.
ReceiverType == /\ rpc \in {"receive", "store", "flag", "wait", "stopped"}
                /\ batch \in Seq(Messages)
                /\ incompleteLastMessage \in BOOLEAN /\ backOffRequested \in BOOLEAN
                /\ lastAvailable \in Nat
ArgsType == /\ newDataFromServer \in {0, 1, 103, 1103}
            /\ responseFifo \in Seq(Queued)
            /\ realtimeResponse \in States \cup {0}
LoopType == /\ gpc \in {"update", "handle", "leave", "leaveRead", "notification"} /\ i \in Nat
            /\ Initialized \in BOOLEAN /\ playable \in BOOLEAN /\ GameEnded \in BOOLEAN
            /\ shown \in States \cup {0} /\ ghost \in BOOLEAN
            /\ newest \in States \cup {0}
ServerType == /\ net \in Seq(Messages) /\ toServer \in Seq(Requests)
              /\ session \in {"reading", "hello", "leaving", "waiting"}
              /\ userState \in {"in", "backed off", "left"}
              /\ phase \in {"waiting", "starting", "playing", "ended"}
              /\ states \in 0 .. MaxStates /\ others \in 0 .. MaxOthers

\* Together they are the type invariant.
LEMMA TypeParts == RealtimeTypeOK <=> ReceiverType /\ ArgsType /\ LoopType /\ ServerType
<1>1. ASSUME RealtimeTypeOK PROVE ReceiverType /\ ArgsType
  BY <1>1 DEF RealtimeTypeOK, ReceiverType, ArgsType, Queued
<1>2. ASSUME RealtimeTypeOK PROVE LoopType /\ ServerType
  BY <1>2 DEF RealtimeTypeOK, LoopType, ServerType
<1>3. ASSUME ReceiverType, ArgsType, LoopType, ServerType PROVE RealtimeTypeOK
  BY <1>3 DEF RealtimeTypeOK, ReceiverType, ArgsType, LoopType, ServerType, Queued
<1> QED
  BY <1>1, <1>2, <1>3

\* A message either carries the number of a state or is queued.
LEMMA Kinds ==
    ASSUME NEW m \in Messages
    PROVE  /\ IsState(m) => m.number \in States
           /\ ~IsState(m) => m \in Queued
<1>1. "STATE" \notin Controls
  BY DEF Controls
<1> QED
  BY <1>1 DEF Messages, IsState, Update, Control, Queued

\* The states of a batch, with the newest of them, and the other messages.
LEMMA BatchSorted ==
    ASSUME batch \in Seq(Messages)
    PROVE  /\ Others \in Seq(Queued) /\ Reverse(Others) \in Seq(Queued)
           /\ Numbers \subseteq States
           /\ Numbers # {} => NewestState \in Numbers /\ \A n \in Numbers : n <= NewestState
<1> DEFINE K == {k \in DOMAIN batch : ~IsState(batch[k])}
<1>1. K \in SUBSET DOMAIN batch
  OBVIOUS
<1>2. Others = Pick(batch, K)
  BY DEF Others
<1>3. \A k \in K : batch[k] \in Queued
  BY Kinds
<1> HIDE DEF K
<1>4. /\ Others \in Seq(Messages) /\ DOMAIN Others = 1 .. Len(Others)
      /\ \A k \in 1 .. Len(Others) : Nth(K, k) \in K /\ Others[k] = batch[Nth(K, k)]
  BY <1>1, <1>2, PickType
<1>5. \A k \in 1 .. Len(Others) : Others[k] \in Queued
  BY <1>3, <1>4
<1>6. Others \in Seq(Queued)
  BY <1>4, <1>5
<1>7. Reverse(Others) \in Seq(Queued)
  <2>1. Len(Others) \in Nat
    BY <1>6
  <2>2. \A k \in 1 .. Len(Others) : Len(Others) - k + 1 \in 1 .. Len(Others)
    BY <2>1
  <2> QED
    BY <1>5, <2>1, <2>2 DEF Reverse
<1>8. Numbers \subseteq States
  <2>1. \A k \in DOMAIN batch : IsState(batch[k]) => batch[k].number \in States
    BY Kinds
  <2> QED
    BY <2>1 DEF Numbers
<1>9. ASSUME Numbers # {} PROVE NewestState \in Numbers /\ \A n \in Numbers : n <= NewestState
  <2>1. States \subseteq Nat /\ IsFiniteSet(States)
    <3>1. 1 \in Int /\ MaxStates \in Int
      BY RealtimeAssumption
    <3> QED
      BY <3>1, FS_Interval DEF States
  <2>2. FiniteNumbers(Numbers)
    BY <1>8, <2>1, FS_Subset DEF FiniteNumbers
  <2>3. \E n \in Numbers : \A m \in Numbers : m <= n
    BY <1>9, <2>2, Greatest
  <2> QED
    BY <2>3 DEF NewestState
<1> QED
  BY <1>6, <1>7, <1>8, <1>9

\* What was read is a list of messages of the socket.
LEMMA ReadBatch ==
    ASSUME net \in Seq(Messages), NEW n \in 0 .. Len(net), NEW first \in {1, 2}
    PROVE  /\ SubSeq(net, first, n) \in Seq(Messages)
           /\ \A k \in 1 .. Len(SubSeq(net, first, n)) :
                 first + k - 1 \in 1 .. n /\ SubSeq(net, first, n)[k] = net[first + k - 1]
<1>1. Len(net) \in Nat /\ n \in Nat /\ n <= Len(net) /\ first \in Nat /\ first >= 1
  OBVIOUS
<1>2. \A k \in first .. n : net[k] \in Messages
  BY <1>1
<1>3. /\ SubSeq(net, first, n) \in Seq(Messages)
      /\ Len(SubSeq(net, first, n)) = IF first <= n THEN n - first + 1 ELSE 0
      /\ \A k \in 1 .. n - first + 1 : SubSeq(net, first, n)[k] = net[first + k - 1]
  BY <1>1, <1>2, SubSeqProperties
<1>4. ASSUME NEW k \in 1 .. Len(SubSeq(net, first, n))
      PROVE  k \in 1 .. n - first + 1 /\ first + k - 1 \in 1 .. n
  BY <1>1, <1>3, <1>4
<1> QED
  BY <1>3, <1>4

\* What the receiver holds.
LEMMA ReceiverTypes ==
    ASSUME RealtimeTypeOK, [RealtimeNext]_realtimeVars PROVE ReceiverType'
<1>1. ReceiverType /\ ArgsType /\ net \in Seq(Messages)
  BY TypeParts DEF ServerType
<1>2. <<>> \in Seq(Messages) /\ Len(net) \in Nat
  BY <1>1
<1> USE DEF ReceiverType
<1>3. CASE Store
  BY <1>1, <1>3 DEF Store
<1>4. CASE RaiseFlag
  BY <1>1, <1>2, <1>4 DEF RaiseFlag
<1>5. CASE Watch
  <2>1. /\ rpc' \in {"receive", "wait"} /\ backOffRequested' \in BOOLEAN
        /\ lastAvailable' \in {0, Len(net), lastAvailable}
        /\ UNCHANGED <<batch, incompleteLastMessage>>
    BY <1>1, <1>5 DEF Watch
  <2> QED
    BY <1>1, <1>2, <2>1
<1>6. CASE GameLoop
  <2>1. CASE StartLeaving
    BY <1>1, <1>2, <2>1 DEF StartLeaving
  <2>2. CASE UNCHANGED receiverVars
    BY <1>1, <2>2 DEF receiverVars
  <2> QED
    BY <1>6, <2>1, <2>2 DEF GameLoop, LookForData, Dequeue, FinishUpdate, SendUpdate
<1>7. CASE GhostReceive
  BY <1>1, <1>7 DEF GhostReceive
<1>8. ASSUME NEW n \in 0 .. Len(net), NEW cut \in BOOLEAN, Receive(n, cut) PROVE ReceiverType'
  <2>1. SubSeq(net, 1, n) \in Seq(Messages) /\ SubSeq(net, 2, n) \in Seq(Messages)
    BY <1>1, ReadBatch
  <2> QED
    BY <1>1, <1>8, <2>1 DEF Receive
<1>9. ASSUME NEW n \in 0 .. Len(net), NEW cut \in BOOLEAN, LeaveRead(n, cut)
      PROVE  ReceiverType'
  BY <1>1, <1>9 DEF LeaveRead
<1>10. CASE LeaveTimeout \/ LeaveSees \/ Server \/ UNCHANGED realtimeVars
  <2>1. UNCHANGED receiverVars
    BY <1>10 DEF LeaveTimeout, LeaveSees, Server, ServeOne, ServeSeveral, Serve, TakeOut,
       SessionGoesOn, ServerGame, GameState, GameStart, GameEnd, BackOffEnds, OtherMessage,
       realtimeVars
  <2> QED
    BY <1>1, <2>1 DEF receiverVars
<1> QED
  BY <1>3, <1>4, <1>5, <1>6, <1>7, <1>8, <1>9, <1>10, Steps DEF Quiet, Reads

\* What lies between the threads.
LEMMA ArgsTypes ==
    ASSUME RealtimeTypeOK, [RealtimeNext]_realtimeVars PROVE ArgsType'
<1>1. ReceiverType /\ ArgsType
  BY TypeParts
<1>2. <<>> \in Seq(Queued)
  OBVIOUS
<1> USE DEF ArgsType
<1>3. CASE Store
  <2>1. /\ Reverse(Others) \in Seq(Queued)
        /\ Numbers # {} => NewestState \in States
    BY <1>1, BatchSorted DEF ReceiverType
  <2>2. responseFifo \o Reverse(Others) \in Seq(Queued)
    BY <1>1, <2>1, ConcatProperties
  <2>3. realtimeResponse' \in States \cup {0}
    BY <1>1, <1>3, <2>1 DEF Store
  <2> QED
    BY <1>1, <1>3, <2>2, <2>3 DEF Store
<1>4. CASE RaiseFlag
  <2>1. DataFlag \in {0, 1, 103, 1103}
    BY DEF DataFlag
  <2> QED
    BY <1>1, <1>4, <2>1 DEF RaiseFlag
<1>5. CASE GameLoop
  <2>1. CASE Dequeue
    <3>1. responseFifo # <<>>
      BY <1>1, <2>1, TypeParts DEF Dequeue, QueueGoesOn, LoopType
    <3>2. Tail(responseFifo) \in Seq(Queued)
      BY <1>1, <3>1
    <3> QED
      BY <1>1, <2>1, <3>2 DEF Dequeue
  <2>2. CASE LookForData \/ FinishUpdate \/ SendUpdate
    BY <1>1, <2>2 DEF LookForData, FinishUpdate, SendUpdate, argsVars
  <2>3. CASE StartLeaving
    BY <1>2, <2>3 DEF StartLeaving
  <2> QED
    BY <1>5, <2>1, <2>2, <2>3 DEF GameLoop
<1>6. ASSUME NEW n, NEW cut, Reads(n, cut) PROVE UNCHANGED argsVars
  BY <1>6 DEF Reads, Receive, LeaveRead
<1>7. Watch \/ LeaveTimeout \/ LeaveSees \/ GhostReceive => UNCHANGED argsVars
  BY DEF Watch, LeaveTimeout, LeaveSees, GhostReceive
<1>8. Server \/ UNCHANGED realtimeVars => UNCHANGED argsVars
  BY DEF Server, ServeOne, ServeSeveral, Serve, TakeOut, SessionGoesOn, ServerGame,
         GameState, GameStart, GameEnd, BackOffEnds, OtherMessage, realtimeVars
<1>9. CASE UNCHANGED argsVars
  BY <1>1, <1>9 DEF argsVars
<1> QED
  BY <1>3, <1>4, <1>5, <1>6, <1>7, <1>8, <1>9, Steps DEF Quiet

\* What the game loop knows of the game.
LEMMA LoopTypes ==
    ASSUME RealtimeTypeOK, [RealtimeNext]_realtimeVars PROVE LoopType'
<1>1. LoopType /\ ReceiverType /\ realtimeResponse \in States \cup {0}
  BY TypeParts DEF ArgsType, ReceiverType
<1> USE DEF LoopType
<1>2. CASE Store
  <2>1. newest' = (IF Numbers = {} THEN newest ELSE NewestState)
    BY <1>2 DEF Store, NewestState
  <2>2. Numbers # {} => NewestState \in States
    BY <1>1, BatchSorted DEF ReceiverType
  <2>3. newest' \in States \cup {0}
    BY <1>1, <2>1, <2>2
  <2> QED
    BY <1>1, <1>2, <2>3 DEF Store, loopVars, gameVars
<1>3. CASE LookForData
  BY <1>1, <1>3 DEF LookForData, gameVars
<1>4. CASE Dequeue
  <2>1. /\ Initialized' \in BOOLEAN /\ GameEnded' \in BOOLEAN /\ playable' \in BOOLEAN
        /\ UNCHANGED shown
    BY <1>1, <1>4 DEF Dequeue, Handle
  <2>2. i' \in Nat /\ UNCHANGED <<gpc, ghost, newest>>
    BY <1>1, <1>4 DEF Dequeue
  <2> QED
    BY <1>1, <2>1, <2>2
<1>5. CASE FinishUpdate
  <2>1. /\ playable' \in BOOLEAN /\ shown' \in {shown, realtimeResponse}
        /\ UNCHANGED <<Initialized, GameEnded>>
    BY <1>1, <1>5 DEF FinishUpdate, PeriodicalUpdate, gameVars
  <2> QED
    BY <1>1, <1>5, <2>1 DEF FinishUpdate
<1>6. CASE StartLeaving
  BY <1>1, <1>6 DEF StartLeaving
<1>7. CASE GhostReceive
  BY <1>1, <1>7 DEF GhostReceive, loopVars, gameVars
<1>8. ASSUME NEW n, NEW cut, LeaveRead(n, cut) PROVE LoopType'
  <2>1. gpc' \in {"leave", "notification"} /\ UNCHANGED <<i, gameVars, ghost, newest>>
    BY <1>8 DEF LeaveRead
  <2> QED
    BY <1>1, <2>1 DEF gameVars
<1>9. ASSUME NEW n, NEW cut, Receive(n, cut) PROVE UNCHANGED <<loopVars, gameVars, ghost, newest>>
  BY <1>9 DEF Receive
<1>10. RaiseFlag \/ Watch \/ SendUpdate \/ LeaveTimeout \/ Server \/ UNCHANGED realtimeVars =>
          UNCHANGED <<loopVars, gameVars, ghost, newest>>
  BY DEF RaiseFlag, Watch, SendUpdate, LeaveTimeout, Server, ServeOne, ServeSeveral, Serve,
         TakeOut, SessionGoesOn, ServerGame, GameState, GameStart, GameEnd, BackOffEnds,
         OtherMessage,
         realtimeVars
<1>11. CASE UNCHANGED <<loopVars, gameVars, ghost, newest>>
  BY <1>1, <1>11 DEF loopVars, gameVars
<1>12. CASE LeaveSees
  BY <1>1, <1>12 DEF LeaveSees, gameVars
<1> QED
  BY <1>2, <1>3, <1>4, <1>5, <1>6, <1>7, <1>8, <1>9, <1>10, <1>11, <1>12, Steps
  DEF Quiet, GameLoop, Reads

\* The requests on their way.
LEMMA RequestTypes ==
    ASSUME RealtimeTypeOK, [RealtimeNext]_realtimeVars PROVE toServer' \in Seq(Requests)
<1>1. toServer \in Seq(Requests)
  BY DEF RealtimeTypeOK
<1>2. ASSUME NEW requests \in Seq(Requests), Send(requests) PROVE toServer' \in Seq(Requests)
  BY <1>1, <1>2, ConcatProperties DEF Send
<1>3. /\ <<"RESUME">> \in Seq(Requests) /\ <<"BACK-OFF">> \in Seq(Requests)
      /\ <<"UPDATE">> \in Seq(Requests) /\ <<"BACK-OFF", "LEAVE">> \in Seq(Requests)
      /\ <<"BACK-OFF", "BACK-OFF", "BACK-OFF", "LEAVE">> \in Seq(Requests)
  BY DEF Requests
<1>4. ASSUME NEW n, Serve(n), n \in 1 .. Len(toServer) PROVE toServer' \in Seq(Requests)
  <2>1. toServer' = SubSeq(toServer, n + 1, Len(toServer))
    BY <1>4 DEF Serve
  <2>2. Len(toServer) \in Nat /\ \A k \in n + 1 .. Len(toServer) : toServer[k] \in Requests
    BY <1>1, <1>4
  <2> QED
    BY <1>1, <1>4, <2>1, <2>2, SubSeqProperties
<1>5. CASE ServeOne \/ ServeSeveral
  <2>1. toServer # <<>> => 1 \in 1 .. Len(toServer)
    BY <1>1
  <2>2. \A n \in 2 .. Len(toServer) : n \in 1 .. Len(toServer)
    BY <1>1
  <2> QED
    BY <1>4, <1>5, <2>1, <2>2 DEF ServeOne, ServeSeveral
<1>6. CASE Watch \/ GameLoop
  BY <1>1, <1>2, <1>3, <1>6 DEF Watch, GameLoop, LookForData, Dequeue, FinishUpdate, SendUpdate,
     StartLeaving
<1>7. CASE LeaveTimeout \/ LeaveSees
  BY <1>1, <1>2, <1>3, <1>7 DEF LeaveTimeout, LeaveSees, LeaveAgain
<1>8. ASSUME NEW n, NEW cut, Reads(n, cut) PROVE toServer' \in Seq(Requests)
  BY <1>1, <1>2, <1>3, <1>8 DEF Reads, Receive, LeaveRead, LeaveAgain
<1>9. (Store \/ RaiseFlag \/ GhostReceive \/ TakeOut \/ SessionGoesOn \/ ServerGame
         \/ UNCHANGED realtimeVars) => UNCHANGED toServer
  BY DEF Store, RaiseFlag, GhostReceive, TakeOut, SessionGoesOn, ServerGame, GameState,
         GameStart, GameEnd, BackOffEnds, OtherMessage, realtimeVars
<1> QED
  BY <1>1, <1>5, <1>6, <1>7, <1>8, <1>9, Steps DEF Quiet, Server

\* What the server knows.
LEMMA ServerTypes ==
    ASSUME RealtimeTypeOK, RealtimeInv, [RealtimeNext]_realtimeVars PROVE ServerType'
<1>1. ServerType
  BY TypeParts
<1>2. toServer' \in Seq(Requests) /\ net' \in Seq(Messages) /\ states' \in 0 .. MaxStates
  BY RequestTypes, FarewellStep DEF FarewellInv
<1>3. UNCHANGED <<session, userState, phase, others>> => ServerType'
  BY <1>1, <1>2 DEF ServerType
<1>4. CASE ServeOne \/ ServeSeveral
  <2>1. PICK n : Serve(n)
    BY <1>4 DEF ServeOne, ServeSeveral
  <2>2. /\ session' \in {"hello", "leaving", "reading"}
        /\ userState' \in {"in", "backed off", userState}
        /\ UNCHANGED <<phase, others>>
    BY <2>1 DEF Serve
  <2> QED
    BY <1>1, <1>2, <2>2 DEF ServerType
<1>5. CASE TakeOut \/ SessionGoesOn
  BY <1>1, <1>2, <1>5 DEF TakeOut, SessionGoesOn, ServerType
<1>6. CASE ServerGame
  <2>1. /\ phase' \in {phase, "playing", "ended"} /\ userState' \in {userState, "in"}
        /\ others' = others \/ (others < MaxOthers /\ others' = others + 1)
        /\ UNCHANGED session
    BY <1>6 DEF ServerGame, GameState, GameStart, GameEnd, BackOffEnds, OtherMessage
  <2>2. others' \in 0 .. MaxOthers
    <3>1. others \in 0 .. MaxOthers /\ MaxOthers \in Nat
      BY <1>1, RealtimeAssumption DEF ServerType
    <3> QED
      BY <2>1, <3>1
  <2> QED
    BY <1>1, <1>2, <2>1, <2>2 DEF ServerType
<1>7. ASSUME NEW n, NEW cut, Reads(n, cut) PROVE UNCHANGED <<session, userState, phase, others>>
  BY <1>7 DEF Reads, Receive, LeaveRead, serverVars
<1>8. Quiet \/ GhostReceive \/ UNCHANGED realtimeVars =>
         UNCHANGED <<session, userState, phase, others>>
  BY DEF Quiet, Store, RaiseFlag, Watch, GameLoop, LookForData, Dequeue, FinishUpdate,
         SendUpdate, StartLeaving, LeaveTimeout, LeaveSees, GhostReceive, serverVars, realtimeVars
<1> QED
  BY <1>3, <1>4, <1>5, <1>6, <1>7, <1>8, Steps DEF Server

-----------------------------------------------------------------------------
(***************************************************************************)
(* The order of the states.                                                *)
(***************************************************************************)

\* The k-th message of list carries a state after state n.
After(list, n) == \A k \in 1 .. Len(list) : IsState(list[k]) => n < list[k].number

\* The states in the socket are in order, after the newest one that was read, and so are
\* those of a batch that is not stored yet.
NetInv == /\ \A j, k \in 1 .. Len(net) :
                IsState(net[j]) /\ IsState(net[k]) /\ j < k => net[j].number < net[k].number
          /\ \A k \in 1 .. Len(net) : IsState(net[k]) => net[k].number <= states
          /\ After(net, newest)
BatchInv == rpc = "store" =>
                /\ After(batch, newest)
                /\ \A k \in 1 .. Len(batch) : IsState(batch[k]) =>
                      batch[k].number <= states /\ After(net, batch[k].number)
NewestInv == NetInv /\ BatchInv /\ realtimeResponse = newest /\ shown <= newest /\ newest <= states

\* The types that the order needs.
LEMMA Ordered ==
    ASSUME RealtimeTypeOK
    PROVE  /\ net \in Seq(Messages) /\ Len(net) \in Nat
           /\ \A k \in 1 .. Len(net) : IsState(net[k]) => net[k].number \in Nat
           /\ \A k \in 1 .. Len(batch) : IsState(batch[k]) => batch[k].number \in Nat
           /\ newest \in Nat /\ shown \in Nat /\ states \in Nat
<1>1. /\ net \in Seq(Messages) /\ batch \in Seq(Messages)
      /\ newest \in States \cup {0} /\ shown \in States \cup {0} /\ states \in 0 .. MaxStates
  BY DEF RealtimeTypeOK
<1>2. MaxStates \in Nat /\ States \subseteq Nat
  BY RealtimeAssumption DEF States
<1>3. /\ Len(net) \in Nat /\ \A k \in 1 .. Len(net) : net[k] \in Messages
      /\ \A k \in 1 .. Len(batch) : batch[k] \in Messages
  BY <1>1
<1>4. \A m \in Messages : IsState(m) => m.number \in Nat
  BY <1>2, Kinds
<1>5. newest \in Nat /\ shown \in Nat /\ states \in Nat
  BY <1>1, <1>2
<1>6. /\ \A k \in 1 .. Len(net) : IsState(net[k]) => net[k].number \in Nat
      /\ \A k \in 1 .. Len(batch) : IsState(batch[k]) => batch[k].number \in Nat
  BY <1>3, <1>4
<1> QED
  BY <1>1, <1>3, <1>5, <1>6

\* Taking messages from the socket keeps the order of the rest.
LEMMA TakenInOrder ==
    ASSUME RealtimeTypeOK, NetInv, NEW n \in 0 .. Len(net), net' = SubSeq(net, n + 1, Len(net)),
           UNCHANGED <<newest, states>>
    PROVE  /\ NetInv'
           /\ \A k \in 1 .. Len(net') : n + k \in n + 1 .. Len(net) /\ net'[k] = net[n + k]
<1>1. /\ net \in Seq(Messages) /\ Len(net) \in Nat /\ n \in Nat /\ n <= Len(net)
  BY Ordered
<1>2. \A k \in n + 1 .. Len(net) : net[k] \in Messages
  BY <1>1
<1>3. /\ net' \in Seq(Messages)
      /\ Len(net') = IF n + 1 <= Len(net) THEN Len(net) - (n + 1) + 1 ELSE 0
      /\ \A k \in 1 .. Len(net) - (n + 1) + 1 : net'[k] = net[n + 1 + k - 1]
  BY <1>1, <1>2, SubSeqProperties
<1>4. Len(net') = Len(net) - n
  BY <1>1, <1>3
<1>5. ASSUME NEW k \in 1 .. Len(net') PROVE n + k \in n + 1 .. Len(net) /\ net'[k] = net[n + k]
  <2>1. k \in 1 .. Len(net) - (n + 1) + 1 /\ n + 1 + k - 1 = n + k /\ n + k \in n + 1 .. Len(net)
    BY <1>1, <1>4
  <2> QED
    BY <1>3, <2>1
<1>6. \A k \in 1 .. Len(net') : n + k \in 1 .. Len(net)
  BY <1>1, <1>4
<1>7. \A j, k \in 1 .. Len(net') : j < k => n + j < n + k
  BY <1>1
<1>8. \A j, k \in 1 .. Len(net') :
         IsState(net'[j]) /\ IsState(net'[k]) /\ j < k => net'[j].number < net'[k].number
  BY <1>5, <1>6, <1>7 DEF NetInv
<1>9. \A k \in 1 .. Len(net') : IsState(net'[k]) =>
         net'[k].number <= states' /\ newest' < net'[k].number
  BY <1>5, <1>6 DEF NetInv, After
<1> QED
  BY <1>5, <1>8, <1>9 DEF NetInv, After, IsState

\* A message that is added is no state, or it is the next one.
LEMMA AddedInOrder ==
    ASSUME RealtimeTypeOK, NetInv, newest <= states, NEW m \in Messages, net' = Append(net, m),
           \/ ~IsState(m) /\ UNCHANGED states
           \/ IsState(m) /\ states' = states + 1 /\ m.number = states',
           UNCHANGED newest
    PROVE  /\ NetInv'
           /\ \A n \in 0 .. states : After(net, n) => After(net', n)
<1>1. /\ net \in Seq(Messages) /\ Len(net) \in Nat /\ states \in Nat /\ newest \in Nat
      /\ \A k \in 1 .. Len(net) : IsState(net[k]) => net[k].number \in Nat
  BY Ordered
<1>2. /\ Len(net') = Len(net) + 1 /\ net'[Len(net) + 1] = m
      /\ \A k \in 1 .. Len(net) : net'[k] = net[k]
  BY <1>1, AppendProperties
<1>3. \A k \in 1 .. Len(net') : k \in 1 .. Len(net) \/ k = Len(net) + 1
  BY <1>1, <1>2
<1>4. /\ states <= states'
      /\ IsState(m) => states < m.number /\ m.number <= states' /\ m.number \in Nat
  BY <1>1
<1>5. \A k \in 1 .. Len(net) : IsState(net[k]) => net[k].number <= states
  BY DEF NetInv
<1>6. \A k \in 1 .. Len(net') : IsState(net'[k]) => net'[k].number <= states'
  <2>1. states' \in Nat
    BY <1>1
  <2> QED
    BY <1>1, <1>2, <1>3, <1>4, <1>5, <2>1
<1>7. ASSUME NEW j \in 1 .. Len(net'), NEW k \in 1 .. Len(net'), j < k,
             IsState(net'[j]), IsState(net'[k])
      PROVE  net'[j].number < net'[k].number
  <2>1. j \in 1 .. Len(net)
    BY <1>1, <1>3, <1>7
  <2>2. CASE k \in 1 .. Len(net)
    BY <1>2, <1>7, <2>1, <2>2 DEF NetInv
  <2>3. CASE k = Len(net) + 1
    <3>1. net[j].number \in Nat /\ net[j].number <= states /\ states < m.number /\ m.number \in Nat
      BY <1>1, <1>2, <1>4, <1>5, <1>7, <2>1, <2>3
    <3> QED
      BY <1>1, <1>2, <2>1, <2>3, <3>1
  <2> QED
    BY <1>3, <2>2, <2>3
<1>8. ASSUME NEW n \in 0 .. states, After(net, n) PROVE After(net', n)
  <2>1. IsState(m) => n < m.number
    BY <1>1, <1>4
  <2> QED
    BY <1>2, <1>3, <1>8, <2>1 DEF After
<1>9. newest \in 0 .. states
  BY <1>1
<1> QED
  BY <1>6, <1>7, <1>8, <1>9 DEF NetInv, IsState

\* The server sends its states in order.
LEMMA ServerInOrder ==
    ASSUME RealtimeTypeOK, NewestInv, Server PROVE NewestInv'
<1> USE DEF NewestInv
<1>1. /\ newest \in Nat /\ states \in Nat /\ shown \in Nat
      /\ \A k \in 1 .. Len(batch) : IsState(batch[k]) => batch[k].number \in Nat
  BY Ordered
<1>2. UNCHANGED <<rpc, batch, newest, realtimeResponse, shown>>
  BY DEF Server, ServeOne, ServeSeveral, Serve, TakeOut, SessionGoesOn, ServerGame,
         GameState, GameStart, GameEnd, BackOffEnds, OtherMessage, receiverVars, argsVars, gameVars
<1>3. ASSUME NetInv', states' \in {states, states + 1},
             \A n \in 0 .. states : After(net, n) => After(net', n)
      PROVE  NewestInv'
  <2>1. newest' <= states'
    BY <1>1, <1>2, <1>3
  <2>2. ASSUME rpc = "store" PROVE BatchInv'
    <3>1. After(batch', newest')
      BY <1>2, <2>2 DEF BatchInv, After
    <3>2. ASSUME NEW k \in 1 .. Len(batch), IsState(batch[k])
          PROVE  batch[k].number <= states' /\ After(net', batch[k].number)
      BY <1>1, <1>3, <2>2, <3>2 DEF BatchInv
    <3> QED
      BY <1>2, <3>1, <3>2 DEF BatchInv, IsState
  <2> QED
    BY <1>1, <1>2, <1>3, <2>1, <2>2 DEF BatchInv
<1>4. ASSUME UNCHANGED <<net, states>> PROVE NewestInv'
  BY <1>2, <1>3, <1>4 DEF NetInv, After, IsState
<1>5. ASSUME NEW type \in Controls, net' = Append(net, Control(type)), UNCHANGED states
      PROVE  NewestInv'
  <2>1. Control(type) \in Messages /\ ~IsState(Control(type))
    BY MessageKinds DEF Control, IsState, Controls
  <2> QED
    BY <1>2, <1>3, <1>5, <2>1, AddedInOrder
<1>6. CASE ServeOne \/ ServeSeveral
  <2>1. UNCHANGED states /\ \E n : Serve(n)
    BY <1>6 DEF ServeOne, ServeSeveral, Serve
  <2>2. \/ UNCHANGED net
        \/ \E type \in {"INIT", "GOODBYE"} : net' = Append(net, Control(type))
    BY <2>1 DEF Serve, Bye
  <2>3. {"INIT", "GOODBYE"} \subseteq Controls
    BY DEF Controls
  <2> QED
    BY <1>4, <1>5, <2>1, <2>2, <2>3
<1>7. CASE TakeOut \/ SessionGoesOn
  BY <1>4, <1>7 DEF TakeOut, SessionGoesOn
<1>8. ASSUME NEW m, ToPlayer(m) PROVE UNCHANGED net \/ net' = Append(net, m)
  BY <1>8 DEF ToPlayer
<1>9. CASE GameStart \/ GameEnd \/ BackOffEnds \/ OtherMessage
  <2>1. /\ UNCHANGED states
        /\ \/ UNCHANGED net
           \/ \E type \in {"START", "END", "OTHER"} : net' = Append(net, Control(type))
    BY <1>8, <1>9 DEF GameStart, GameEnd, BackOffEnds, OtherMessage
  <2>2. {"START", "END", "OTHER"} \subseteq Controls
    BY DEF Controls
  <2> QED
    BY <1>4, <1>5, <2>1, <2>2
<1>10. CASE GameState
  <2>1. states' = states + 1 /\ states' \in States
    <3>1. states' = states + 1 /\ states < MaxStates /\ MaxStates \in Nat
      BY <1>10, RealtimeAssumption DEF GameState
    <3> QED
      BY <1>1, <3>1 DEF States
  <2> DEFINE m == Update(states')
  <2>2. m \in Messages /\ IsState(m) /\ m.number = states'
    BY <2>1, MessageKinds DEF Update, IsState
  <2>3. UNCHANGED net \/ net' = Append(net, m)
    BY <1>8, <1>10 DEF GameState
  <2> HIDE DEF m
  <2>4. CASE net' = Append(net, m)
    BY <1>2, <1>3, <2>1, <2>2, <2>4, AddedInOrder
  <2>5. CASE UNCHANGED net
    <3>1. NetInv'
      <4>1. \A k \in 1 .. Len(net) : IsState(net[k]) => net[k].number <= states'
        BY <1>1, <2>1, Ordered DEF NetInv
      <4> QED
        BY <1>2, <2>5, <4>1 DEF NetInv, After, IsState
    <3>2. \A n \in 0 .. states : After(net, n) => After(net', n)
      BY <2>5
    <3> QED
      BY <1>3, <2>1, <3>1, <3>2
  <2> QED
    BY <2>3, <2>4, <2>5
<1> QED
  BY <1>6, <1>7, <1>9, <1>10 DEF Server, ServerGame

\* So does the client: it stores the newest state it reads.
LEMMA ClientInOrder ==
    ASSUME RealtimeTypeOK, ControlInv, NewestInv, Quiet PROVE NewestInv'
<1> USE DEF NewestInv
<1>1. /\ newest \in Nat /\ shown \in Nat /\ states \in Nat
      /\ \A k \in 1 .. Len(net) : IsState(net[k]) => net[k].number \in Nat
      /\ batch \in Seq(Messages)
  BY Ordered DEF RealtimeTypeOK
<1>2. CASE Store
  <2>1. /\ rpc = "store" /\ rpc' = "flag" /\ UNCHANGED <<net, states, shown>>
        /\ newest' = (IF Numbers = {} THEN newest ELSE NewestState)
        /\ realtimeResponse' = (IF Numbers = {} THEN realtimeResponse ELSE NewestState)
    BY <1>2 DEF Store, serverVars, gameVars, NewestState
  <2>2. CASE Numbers = {}
    BY <2>1, <2>2 DEF NetInv, BatchInv, After, IsState
  <2>3. CASE Numbers # {}
    <3>1. NewestState \in Numbers
      BY <1>1, <2>3, BatchSorted
    <3>2. DOMAIN batch = 1 .. Len(batch)
      BY <1>1
    <3>3. PICK k \in 1 .. Len(batch) : IsState(batch[k]) /\ batch[k].number = NewestState
      BY <3>1, <3>2 DEF Numbers
    <3>4. /\ newest < NewestState /\ NewestState <= states /\ After(net, NewestState)
          /\ NewestState \in Nat
      BY <2>1, <3>3, Ordered DEF BatchInv, After
    <3>5. newest' = NewestState /\ realtimeResponse' = NewestState
      BY <2>1, <2>3
    <3>6. NetInv'
      BY <2>1, <3>4, <3>5 DEF NetInv, After, IsState
    <3>7. shown' <= newest' /\ newest' <= states' /\ BatchInv'
      BY <1>1, <2>1, <3>4, <3>5 DEF BatchInv
    <3> QED
      BY <3>5, <3>6, <3>7
  <2> QED
    BY <2>2, <2>3
<1>3. ASSUME UNCHANGED <<net, states, newest, realtimeResponse>>, shown' \in {shown, newest},
             rpc' = "store" => UNCHANGED <<rpc, batch>>
      PROVE  NewestInv'
  <2>1. NetInv'
    BY <1>3 DEF NetInv, After, IsState
  <2>2. BatchInv'
    BY <1>3 DEF BatchInv, After, IsState
  <2> QED
    BY <1>1, <1>3, <2>1, <2>2
<1>4. CASE RaiseFlag \/ Watch \/ LookForData \/ Dequeue \/ SendUpdate \/ LeaveTimeout \/ LeaveSees
  <2>1. UNCHANGED <<net, states, newest, realtimeResponse, shown>>
    BY <1>4 DEF RaiseFlag, Watch, LookForData, Dequeue, Handle, SendUpdate, LeaveTimeout, LeaveSees,
       argsVars, gameVars, serverVars
  <2>2. rpc' = "store" => UNCHANGED <<rpc, batch>>
    BY <1>4 DEF RaiseFlag, Watch, LookForData, Dequeue, SendUpdate, LeaveTimeout, LeaveSees,
                receiverVars
  <2> QED
    BY <1>3, <2>1, <2>2
<1>5. CASE FinishUpdate
  <2>1. /\ shown' \in {shown, realtimeResponse}
        /\ UNCHANGED <<net, states, newest, realtimeResponse, rpc, batch>>
    BY <1>5 DEF FinishUpdate, PeriodicalUpdate, gameVars, serverVars, receiverVars
  <2> QED
    BY <1>3, <2>1
<1>6. CASE StartLeaving
  <2>1. /\ newest' = 0 /\ shown' = 0 /\ realtimeResponse' = 0 /\ rpc' = "stopped"
        /\ UNCHANGED <<net, states>>
    BY <1>6 DEF StartLeaving, serverVars
  <2>2. \A k \in 1 .. Len(net) : IsState(net[k]) => 0 < net[k].number
    BY <1>1 DEF NetInv, After
  <2>3. NetInv'
    BY <2>1, <2>2 DEF NetInv, After, IsState
  <2> QED
    BY <1>1, <2>1, <2>3 DEF BatchInv
<1> QED
  BY <1>2, <1>4, <1>5, <1>6 DEF Quiet, GameLoop

\* What is read from the socket comes before what stays in it.
LEMMA ReadInOrder ==
    ASSUME RealtimeTypeOK, ControlInv, NewestInv,
           NEW n \in 0 .. Len(net), NEW cut \in BOOLEAN, Reads(n, cut)
    PROVE  NewestInv'
<1> USE DEF NewestInv
<1>1. net' = SubSeq(net, n + 1, Len(net)) /\ UNCHANGED <<newest, states, realtimeResponse, shown>>
  BY DEF Reads, Receive, LeaveRead, argsVars, gameVars, serverVars
<1>2. /\ NetInv'
      /\ \A k \in 1 .. Len(net') : n + k \in n + 1 .. Len(net) /\ net'[k] = net[n + k]
  BY <1>1, TakenInOrder
<1>3. BatchInv'
  <2>1. CASE LeaveRead(n, cut)
    BY <2>1 DEF LeaveRead, ControlInv, BatchInv
  <2>2. CASE Receive(n, cut)
    <3> DEFINE first == IF incompleteLastMessage THEN 2 ELSE 1
    <3>1. batch' = SubSeq(net, first, n) /\ first \in {1, 2} /\ net \in Seq(Messages)
      <4>1. batch' = SubSeq(net, first, n)
        BY <2>2 DEF Receive
      <4>2. net \in Seq(Messages)
        BY DEF RealtimeTypeOK
      <4> QED
        BY <4>1, <4>2
    <3>2. \A k \in 1 .. Len(batch') :
             first + k - 1 \in 1 .. n /\ batch'[k] = net[first + k - 1]
      BY <3>1, ReadBatch
    <3> HIDE DEF first
    <3>3. Len(net) \in Nat /\ n \in Nat /\ n <= Len(net)
      BY <3>1
    <3>4. ASSUME NEW k \in 1 .. Len(batch'), IsState(batch'[k])
          PROVE  /\ newest < batch'[k].number /\ batch'[k].number <= states
                 /\ After(net', batch'[k].number)
      <4> DEFINE j == first + k - 1
      <4>1. j \in 1 .. n /\ j \in 1 .. Len(net) /\ j <= n /\ batch'[k] = net[j] /\ j \in Nat
        BY <3>2, <3>3
      <4> HIDE DEF j
      <4>2. newest < net[j].number /\ net[j].number <= states
        BY <3>4, <4>1 DEF NetInv, After
      <4>3. ASSUME NEW m \in 1 .. Len(net'), IsState(net'[m]) PROVE net[j].number < net'[m].number
        <5>1. n + m \in n + 1 .. Len(net) /\ net'[m] = net[n + m]
          BY <1>2
        <5>2. n + m \in 1 .. Len(net) /\ j < n + m
          BY <3>3, <4>1, <5>1
        <5> QED
          BY <3>4, <4>1, <4>3, <5>1, <5>2 DEF NetInv
      <4> QED
        BY <4>1, <4>2, <4>3 DEF After
    <3> QED
      BY <1>1, <3>4 DEF BatchInv, After, IsState
  <2> QED
    BY <2>1, <2>2 DEF Reads
<1> QED
  BY <1>1, <1>2, <1>3

\* Every step keeps the order.
LEMMA OrderStep ==
    ASSUME RealtimeTypeOK, RealtimeInv, NewestInv, [RealtimeNext]_realtimeVars
    PROVE  NewestInv'
<1>1. ControlInv
  BY DEF RealtimeInv
<1>2. CASE GhostReceive
  <2>1. PICK n \in 0 .. Len(net) : net' = SubSeq(net, n + 1, Len(net))
    BY <1>2 DEF GhostReceive
  <2>2. UNCHANGED <<newest, states, realtimeResponse, shown, rpc>> /\ rpc = "stopped"
    BY <1>1, <1>2 DEF GhostReceive, ControlInv, argsVars, gameVars, serverVars
  <2>3. NetInv'
    BY <2>1, <2>2, TakenInOrder DEF NewestInv
  <2> QED
    BY <2>2, <2>3 DEF NewestInv, BatchInv
<1>3. CASE UNCHANGED realtimeVars
  <2>1. UNCHANGED <<newest, states, realtimeResponse, shown, rpc, net, batch>>
    BY <1>3 DEF realtimeVars, receiverVars, argsVars, gameVars, serverVars
  <2> QED
    BY <2>1 DEF NewestInv, NetInv, BatchInv, After, IsState
<1> QED
  BY <1>1, <1>2, <1>3, Steps, ClientInOrder, ReadInOrder, ServerInOrder

-----------------------------------------------------------------------------
(***************************************************************************)
(* The theorems.                                                           *)
(***************************************************************************)

\* A game begins with both threads at their beginning and an empty socket.
LEMMA RealtimeInvInit == RealtimeInit => RealtimeInv
<1> SUFFICES ASSUME RealtimeInit PROVE RealtimeInv
  OBVIOUS
<1>1. ControlInv /\ BackOffInv
  BY DEF RealtimeInit, ControlInv, BackOffInv
<1>2. FarewellInv
  BY RealtimeAssumption DEF RealtimeInit, FarewellInv, FarewellSent
<1> QED
  BY <1>1, <1>2 DEF RealtimeInv

\* The invariant holds.
LEMMA RealtimeInvSafe == RealtimeSpec => []RealtimeInv
<1>1. RealtimeInv /\ [RealtimeNext]_realtimeVars => RealtimeInv'
  BY ControlStep, BackOffStep, FarewellStep DEF RealtimeInv
<1> QED
  BY <1>1, RealtimeInvInit, PTL DEF RealtimeSpec

\* One flag, tested and set without a lock, keeps the receiver away from the queue and
\* the state while the game loop handles them.
THEOREM ThreadsApart == RealtimeSpec => []OneSideAtATime
<1>1. RealtimeInv => OneSideAtATime
  BY DEF RealtimeInv, ControlInv, OneSideAtATime
<1> QED
  BY <1>1, RealtimeInvSafe, PTL

\* The receiver never waits for the server while the server waits for its RESUME,
\* wherever the threshold of the back-off is.
THEOREM ResumeFollows == RealtimeSpec => []BackedOffHasData
<1>1. RealtimeInv => BackedOffHasData
  BY DEF RealtimeInv, BackOffInv, BackedOffHasData
<1> QED
  BY <1>1, RealtimeInvSafe, PTL

\* Whoever has read the farewell has left on the server too, however many requests were
\* run together and answers swallowed before.
THEOREM LeftTogether == RealtimeSpec => []LeftOnBothSides
<1>1. RealtimeInv => LeftOnBothSides
  BY DEF RealtimeInv, FarewellInv, Leaves, LeftOnBothSides
<1> QED
  BY <1>1, RealtimeInvSafe, PTL

\* The types hold at the start and are kept.
LEMMA TypesInit == RealtimeInit => RealtimeTypeOK /\ NewestInv
<1> SUFFICES ASSUME RealtimeInit PROVE RealtimeTypeOK /\ NewestInv
  OBVIOUS
<1>1. <<>> \in Seq(Messages) /\ <<>> \in Seq(Queued) /\ <<"HELLO">> \in Seq(Requests)
  BY DEF Requests
<1>2. ReceiverType /\ ArgsType
  BY <1>1 DEF RealtimeInit, ReceiverType, ArgsType
<1>3. LoopType
  BY DEF RealtimeInit, LoopType
<1>4. ServerType
  BY <1>1, RealtimeAssumption DEF RealtimeInit, ServerType
<1>5. NewestInv
  BY DEF RealtimeInit, NewestInv, NetInv, BatchInv, After
<1> QED
  BY <1>2, <1>3, <1>4, <1>5, TypeParts

\* Both are invariants.
LEMMA OrderSafe == RealtimeSpec => [](RealtimeTypeOK /\ NewestInv)
<1> DEFINE Parts == ReceiverType /\ ArgsType /\ LoopType /\ ServerType
<1>1. RealtimeInv /\ RealtimeTypeOK /\ NewestInv /\ [RealtimeNext]_realtimeVars =>
         Parts' /\ NewestInv'
  BY ReceiverTypes, ArgsTypes, LoopTypes, ServerTypes, OrderStep
<1>2. RealtimeTypeOK <=> Parts
  BY TypeParts
<1> HIDE DEF Parts
<1> QED
  BY <1>1, <1>2, TypesInit, RealtimeInvSafe, PTL DEF RealtimeSpec

\* Both threads, the socket, the session and the game stay within their types.
THEOREM RealtimeTypes == RealtimeSpec => []RealtimeTypeOK
  BY OrderSafe, PTL

\* A frame shows the newest state received and never goes back to an older one, however the
\* reads cut the messages and however many states one frame skips.
THEOREM NeverOlder == RealtimeSpec => ShownIsNewest
<1> DEFINE Shows == gpc = "handle" /\ shown' # shown => shown' = newest /\ shown' > shown
<1>1. RealtimeTypeOK /\ RealtimeInv /\ NewestInv /\ [RealtimeNext]_realtimeVars =>
         [Shows]_realtimeVars
  <2> SUFFICES ASSUME RealtimeTypeOK, RealtimeInv, NewestInv, [RealtimeNext]_realtimeVars,
                      gpc = "handle", shown' # shown
               PROVE  shown' = newest /\ shown' > shown
    OBVIOUS
  <2>1. newest \in Nat /\ shown \in Nat /\ realtimeResponse = newest /\ shown <= newest
    BY Ordered DEF NewestInv
  <2>2. shown' = realtimeResponse
    <3>1. CASE GameLoop
      BY <3>1 DEF GameLoop, LookForData, Dequeue, Handle, FinishUpdate, PeriodicalUpdate,
         SendUpdate, StartLeaving, gameVars
    <3>2. CASE ~GameLoop
      <4>1. ASSUME NEW n, NEW cut, Reads(n, cut) PROVE UNCHANGED shown
        BY <4>1 DEF Reads, Receive, LeaveRead, gameVars
      <4>2. (Store \/ RaiseFlag \/ Watch \/ LeaveTimeout \/ LeaveSees \/ GhostReceive
               \/ UNCHANGED realtimeVars) => UNCHANGED shown
        BY DEF Store, RaiseFlag, Watch, LeaveTimeout, LeaveSees, GhostReceive, realtimeVars,
               gameVars
      <4>3. Server => UNCHANGED shown
        BY DEF Server, ServeOne, ServeSeveral, Serve, TakeOut, SessionGoesOn, ServerGame, GameState,
               GameStart, GameEnd, BackOffEnds, OtherMessage, gameVars
      <4> QED
        BY <3>2, <4>1, <4>2, <4>3, Steps DEF Quiet
    <3> QED
      BY <3>1, <3>2
  <2> QED
    BY <2>1, <2>2
<1> QED
  BY <1>1, OrderSafe, RealtimeInvSafe, PTL DEF RealtimeSpec, ShownIsNewest
=============================================================================
