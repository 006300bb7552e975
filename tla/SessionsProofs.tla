-------------------------- MODULE SessionsProofs ---------------------------
(***************************************************************************)
(* Proofs about connections, for every number of sessions, slots, names,   *)
(* addresses and descriptors.                                              *)
(***************************************************************************)
EXTENDS Sessions, FiniteSetTheorems, TLAPS

\* The variables the slots depend on have their types.
SlotTypes == /\ accepting \in Sessions \cup {NULL}
             /\ freeSlot \in Slots
             /\ threadArgs \in [Slots -> Objects \cup {NULL}]
             /\ pc \in [Sessions -> Steps]
             /\ slot \in [Sessions -> Slots]

\* The slot the accept loop has found stays free until it starts the thread: no other
\* thread takes slots, and those that end only give them back.
FoundSlotIsFree == accepting # NULL => /\ pc[accepting] = "accepted"
                                       /\ threadArgs[freeSlot] = NULL

\* The inductive invariant for the slots.
SlotInv == SlotTypes /\ SlotsMatchThreads /\ FoundSlotIsFree

-----------------------------------------------------------------------------
\* NULL is neither a session nor an address.
LEMMA NullIsNothing == NULL \notin Sessions /\ NULL \notin Objects /\ NULL \notin Sockets
  BY SessionsAssumption

\* At the start no slot is taken and no thread runs.
LEMMA SlotInit == SessionsInit => SlotInv
<1> SUFFICES ASSUME SessionsInit PROVE SlotInv
  OBVIOUS
<1>1. SlotTypes
  BY SessionsAssumption DEF SessionsInit, SlotTypes, Slots, Steps
<1>2. Threads = {} /\ Busy = {}
  BY DEF SessionsInit, Threads, Busy
<1> QED
  BY <1>1, <1>2 DEF SlotInv, SlotsMatchThreads, FoundSlotIsFree, SessionsInit

\* A step of a session that neither starts nor gives back its slot leaves the slots as
\* they are.
LEMMA SlotKept ==
    ASSUME SlotInv, NEW s \in Sessions, NEW step \in Steps,
           UNCHANGED <<mainVars, threadArgs, slot>>, Goes(s, step),
           s \in Threads <=> step \notin {"none", "refused", "accepted", "lastListing",
                                          "lastNotifying", "done"},
           pc[s] # "accepted"
    PROVE  SlotInv'
<1> USE DEF SlotInv, Goes, mainVars
<1>1. SlotTypes'
  BY DEF SlotTypes
<1>2. Threads' = Threads /\ Busy' = Busy
  BY DEF Threads, Busy, SlotTypes
<1>3. SlotsMatchThreads'
  BY <1>2 DEF SlotsMatchThreads
<1>4. FoundSlotIsFree'
  BY DEF FoundSlotIsFree, SlotTypes
<1> QED
  BY <1>1, <1>3, <1>4

\* The new thread gets the slot that was found, which nobody has.
LEMMA SlotStart == ASSUME SlotInv, StartThread PROVE SlotInv'
<1> USE DEF SlotInv, SlotTypes, StartThread
<1>1. PICK o \in Objects : threadArgs' = [threadArgs EXCEPT ![freeSlot] = o]
  BY DEF Available
<1>2. accepting \in Sessions /\ accepting # NULL
  OBVIOUS
<1>3. SlotTypes'
  BY <1>1, <1>2, SessionsAssumption DEF Steps, Slots
<1>4. Threads' = Threads \cup {accepting} /\ accepting \notin Threads
  BY <1>2 DEF Threads, FoundSlotIsFree
<1>5. Busy' = Busy \cup {freeSlot} /\ freeSlot \notin Busy
  BY <1>1, NullIsNothing, <1>2 DEF Busy, FoundSlotIsFree
<1>6. \A s \in Threads : slot'[s] = slot[s] /\ slot[s] \in Busy
  BY <1>4 DEF Busy, SlotsMatchThreads, Threads
<1>7. slot'[accepting] = freeSlot
  BY <1>2
<1>8. SlotsMatchThreads'
  BY <1>4, <1>5, <1>6, <1>7 DEF SlotsMatchThreads, Busy
<1>9. FoundSlotIsFree'
  BY DEF FoundSlotIsFree
<1> QED
  BY <1>3, <1>8, <1>9

\* A thread that ends gives back the slot it has.
LEMMA SlotFreed == ASSUME SlotInv, NEW s \in Sessions, FreeSlot(s) PROVE SlotInv'
<1> USE DEF SlotInv, SlotTypes, FreeSlot, Goes, mainVars
<1>1. SlotTypes'
  BY SessionsAssumption DEF Steps, Slots
<1>2. s \in Threads /\ Threads' = Threads \ {s}
  BY DEF Threads
<1>3. Busy' = Busy \ {slot[s]}
  BY DEF Busy
<1>4. \A t \in Threads' : slot'[t] = slot[t] /\ slot[t] # slot[s] /\ slot[t] \in Busy'
  BY <1>2, <1>3 DEF SlotsMatchThreads, Busy, Threads
<1>5. SlotsMatchThreads'
  BY <1>2, <1>3, <1>4 DEF SlotsMatchThreads, Busy
<1>6. FoundSlotIsFree'
  BY DEF FoundSlotIsFree
<1> QED
  BY <1>1, <1>5, <1>6

\* The accept loop finds a slot that is free.
LEMMA SlotFound == ASSUME SlotInv, NEW s \in Sessions, Accept(s) PROVE SlotInv'
<1> USE DEF SlotInv, SlotTypes, Accept, Arrives
<1>1. SlotTypes' /\ threadArgs[freeSlot'] = NULL
  BY DEF Steps, Busy
<1>2. Threads' = Threads /\ Busy' = Busy
  BY DEF Threads, Busy
<1>3. SlotsMatchThreads'
  BY <1>2 DEF SlotsMatchThreads
<1>4. FoundSlotIsFree'
  BY <1>1 DEF FoundSlotIsFree
<1> QED
  BY <1>1, <1>3, <1>4

\* A refused connection has no slot.
LEMMA SlotRefused == ASSUME SlotInv, NEW s \in Sessions, Refuse(s) PROVE SlotInv'
<1> USE DEF SlotInv, SlotTypes, Refuse, Arrives, mainVars, memoryVars
<1>1. SlotTypes'
  BY DEF Steps
<1>2. Threads' = Threads /\ Busy' = Busy
  BY DEF Threads, Busy
<1>3. SlotsMatchThreads'
  BY <1>2 DEF SlotsMatchThreads
<1>4. FoundSlotIsFree'
  BY DEF FoundSlotIsFree
<1> QED
  BY <1>1, <1>3, <1>4

\* The steps of a session that keep its slot.
LEMMA SlotServed ==
    ASSUME SlotInv, NEW s \in Sessions,
           \/ Identifies(s) \/ Disconnect(s) \/ StartSession(s) \/ Add(s) \/ TakeList(s)
           \/ Answer(s) \/ SendToAll(s) \/ CloseSocket(s) \/ Delete(s)
    PROVE  SlotInv'
<1>1. UNCHANGED <<mainVars, threadArgs, slot>>
  BY DEF Identifies, LoginAccepted, SignUpAccepted, Identified, LoginRefused, Disconnect,
         StartSession, Add, TakeList, Answer, SendToAll, CloseSocket, Delete, memoryVars
<1>2. \E step \in Steps :
         /\ Goes(s, step)
         /\ s \in Threads <=> step \notin {"none", "refused", "accepted", "lastListing",
                                           "lastNotifying", "done"}
         /\ pc[s] # "accepted"
  BY DEF Identifies, LoginAccepted, SignUpAccepted, Identified, LoginRefused, Disconnect,
         StartSession, Add, TakeList, Answer, SendToAll, CloseSocket, Delete, CanIdentify,
         Threads, Steps
<1> QED
  BY <1>1, <1>2, SlotKept

\* Every step keeps the slots right.
LEMMA SlotStep == SlotInv /\ [SessionsNext]_vars => SlotInv'
<1> SUFFICES ASSUME SlotInv, [SessionsNext]_vars PROVE SlotInv'
  OBVIOUS
<1>1. CASE StartThread
  BY <1>1, SlotStart
<1>2. ASSUME UNCHANGED <<mainVars, memoryVars, sessionVars>> PROVE SlotInv'
  BY <1>2 DEF SlotInv, SlotTypes, SlotsMatchThreads, FoundSlotIsFree, Threads, Busy,
              mainVars, memoryVars, sessionVars
<1>3. CASE Sender
  BY <1>2, <1>3 DEF Sender, SenderWait, SenderSnapshot, SenderWrite, SenderDone
<1>4. ASSUME NEW s \in Sessions, Refuse(s) \/ Accept(s) \/ FreeSlot(s) PROVE SlotInv'
  BY <1>4, SlotRefused, SlotFound, SlotFreed
<1>5. ASSUME NEW s \in Sessions,
             Identifies(s) \/ Disconnect(s) \/ (Serves(s) /\ ~FreeSlot(s))
      PROVE  SlotInv'
  BY <1>5, SlotServed DEF Serves
<1>6. CASE UNCHANGED vars
  BY <1>2, <1>6 DEF vars
<1> QED
  BY <1>1, <1>3, <1>4, <1>5, <1>6 DEF SessionsNext, Serves

\* No thread is ever started on the arguments of another, however many connections come
\* and go and whatever the threads that are ending still have to do.
THEOREM SlotsSafe == SessionsSpec => []SlotsMatchThreads
<1>1. SlotInv => SlotsMatchThreads
  BY DEF SlotInv
<1> QED
  BY <1>1, SlotInit, SlotStep, PTL DEF SessionsSpec

-----------------------------------------------------------------------------
(***************************************************************************)
(* Whose the objects are, and what is in the list.  Nothing here supposes  *)
(* that names are logged in once.                                          *)
(***************************************************************************)

\* The object a session was given.
Given(s) == threadArgs[slot[s]]

\* The sessions whose user has not been added to the list yet.
Young(s) == \/ pc[s] \in {"starting", "adding"}
            \/ pc[s] = "reading" /\ answer[s] # "OK"

\* No two objects are made for one session, none before its thread starts, and a thread
\* uses no other than the one in its slot.
ObjectsMade ==
    /\ \A o, p \in Objects : madeFor[o] = madeFor[p] => o = p \/ madeFor[o] = NULL
    /\ \A o \in Objects : madeFor[o] # NULL =>
                             pc[madeFor[o]] \notin {"none", "refused", "accepted"}
    /\ \A s \in Threads : \A o \in Objects : madeFor[o] = s => o = Given(s)
    /\ \A s \in Threads : pc[s] # "starting" => object[s] = Given(s)

\* Before it is added, the object of a session is its own, alive and unlisted; when it is
\* about to be added it has a name.
YoungAreOwn ==
    \A s \in Sessions : Young(s) =>
        /\ Given(s) \in allocated \ Listed
        /\ madeFor[Given(s)] = s
        /\ pc[s] = "adding" => heap[Given(s)].name \in Names

\* The objects in use have a session and a socket, those in the list also a name.
ObjectsFilled ==
    /\ accepting # NULL => newSocket \in Sockets
    /\ \A o \in allocated : heap[o].socket \in Sockets /\ madeFor[o] \in Sessions
    /\ \A o \in Listed : heap[o].name \in Names

\* A session that has something to tell after an answer was answered OK.
AnswersGiven == \A s \in Sessions : pc[s] \in {"notifying", "querying"} => answer[s] = "OK"

\* The parts of the invariant about the list.
ListParts == ObjectsMade /\ YoungAreOwn /\ EntriesAlive /\ ObjectsFilled /\ AnswersGiven

\* The inductive invariant for the list.
ListInv == SessionsTypeOK /\ SlotInv /\ ListParts

\* What memory is about the objects.
objectVars == <<threadArgs, heap, allocated, madeFor, connected, slot>>

-----------------------------------------------------------------------------
\* Removing an entry of a list of objects leaves a list of objects, one shorter.
LEMMA ShiftedType ==
    ASSUME connected \in Seq(Objects), NEW i \in DOMAIN connected
    PROVE  /\ Shifted(i) \in Seq(Objects)
           /\ Len(Shifted(i)) = Len(connected) - 1
           /\ \A j \in 1 .. Len(connected) - 1 :
                 Shifted(i)[j] = IF j < i THEN connected[j] ELSE connected[j + 1]
<1>1. /\ i \in 1 .. Len(connected) /\ Len(connected) \in Nat
      /\ \A j \in 1 .. Len(connected) : connected[j] \in Objects
  OBVIOUS
<1>2. \A j \in 1 .. Len(connected) - 1 :
         (IF j < i THEN connected[j] ELSE connected[j + 1]) \in Objects
  BY <1>1
<1> QED
  BY <1>1, <1>2 DEF Shifted

\* Removing an entry of a list without doubles removes that object and no other.
LEMMA ShiftedSet ==
    ASSUME connected \in Seq(Objects), NEW i \in DOMAIN connected,
           \A j, k \in DOMAIN connected : connected[j] = connected[k] => j = k,
           connected' = Shifted(i)
    PROVE  /\ Listed' = Listed \ {connected[i]}
           /\ \A j, k \in DOMAIN connected' : connected'[j] = connected'[k] => j = k
<1> DEFINE Before == 1 .. Len(connected)
           After  == 1 .. Len(connected) - 1
           From(j) == IF j < i THEN j ELSE j + 1
<1>1. Len(connected) \in Nat /\ i \in Before /\ DOMAIN connected = Before
  OBVIOUS
<1>2. DOMAIN connected' = After /\ \A j \in After : connected'[j] = connected[From(j)]
  BY <1>1, ShiftedType DEF Shifted
<1>3. /\ \A j \in After : From(j) \in Before \ {i}
      /\ \A j, k \in After : From(j) = From(k) => j = k
  BY <1>1
<1>4. \A k \in Before \ {i} : \E j \in After : From(j) = k
  <2>1. ASSUME NEW k \in Before, k < i PROVE \E j \in After : From(j) = k
    BY <1>1, <2>1
  <2>2. ASSUME NEW k \in Before, k > i PROVE \E j \in After : From(j) = k
    <3>1. k - 1 \in After /\ From(k - 1) = k
      BY <1>1, <2>2
    <3> QED
      BY <3>1
  <2> QED
    BY <1>1, <2>1, <2>2
<1> HIDE DEF Before, After, From
<1>5. \A j, k \in After : connected'[j] = connected'[k] => j = k
  BY <1>1, <1>2, <1>3
<1>6. Listed' = {connected'[j] : j \in After} /\ Listed = {connected[k] : k \in Before}
  BY <1>1, <1>2 DEF Listed
<1>7. {connected'[j] : j \in After} = {connected[k] : k \in Before} \ {connected[i]}
  BY <1>1, <1>2, <1>3, <1>4
<1> QED
  BY <1>2, <1>5, <1>6, <1>7

\* At the start there is nobody.
LEMMA ListInit == SessionsInit => ListInv
<1> SUFFICES ASSUME SessionsInit PROVE ListInv
  OBVIOUS
<1>1. SessionsTypeOK
  <2>1. heap \in [Objects -> [name : Names \cup {NoName}, socket : Sockets \cup {NULL}]]
    BY DEF SessionsInit
  <2>2. connected \in Seq(Objects) /\ Len(connected) <= Capacity /\ targets \in Seq(Sockets)
    BY SessionsAssumption DEF SessionsInit
  <2>3. /\ freeSlot \in Slots /\ slot \in [Sessions -> Slots]
        /\ threadArgs \in [Slots -> Objects \cup {NULL}]
        /\ pc \in [Sessions -> Steps]
    BY SlotInit DEF SlotInv, SlotTypes, SessionsInit
  <2>4. /\ object \in [Sessions -> Objects \cup {NULL}]
        /\ socket \in [Sessions -> Sockets \cup {NULL}]
        /\ owner \in [Sockets -> Sessions \cup {NULL}]
        /\ allocated \subseteq Objects
        /\ madeFor \in [Objects -> Sessions \cup {NULL}]
    BY DEF SessionsInit
  <2>5. /\ request \in [Sessions -> {"none", "login", "signup"}]
        /\ answer \in [Sessions -> {"none", "OK", "FAIL", "FULL"}]
    BY DEF SessionsInit
  <2>6. /\ list \in [Sessions -> SUBSET (Names \cup {NoName})]
        /\ shown \in [Sessions -> {NULL} \cup SUBSET (Names \cup {NoName})]
        /\ globalResponse \in SUBSET (Names \cup {NoName})
    BY DEF SessionsInit
  <2> QED
    BY <2>1, <2>2, <2>3, <2>4, <2>5, <2>6 DEF SessionsInit, SessionsTypeOK
<1>2. Threads = {} /\ Listed = {} /\ DOMAIN connected = {}
  BY DEF SessionsInit, Threads, Listed
<1>3. ObjectsMade /\ YoungAreOwn /\ AnswersGiven
  BY <1>2 DEF SessionsInit, ObjectsMade, YoungAreOwn, Young, AnswersGiven
<1>4. EntriesAlive /\ ObjectsFilled
  BY <1>2 DEF SessionsInit, EntriesAlive, ObjectsFilled
<1> QED
  BY <1>1, <1>3, <1>4, SlotInit DEF ListInv, ListParts

\* A running thread has its slot, and an object in it.
LEMMA ThreadFacts ==
    ASSUME ListInv, NEW s \in Threads
    PROVE  s \in Sessions /\ slot[s] \in Slots /\ Given(s) \in Objects
<1>1. s \in Sessions /\ slot[s] \in Slots /\ threadArgs[slot[s]] # NULL
  BY DEF ListInv, SlotInv, SlotTypes, SlotsMatchThreads, Threads
<1> QED
  BY <1>1 DEF ListInv, SlotInv, SlotTypes, Given

\* The session of a user not added yet has a thread.
LEMMA YoungFacts ==
    ASSUME ListInv, NEW s \in Sessions, Young(s)
    PROVE  /\ s \in Threads /\ Given(s) \in Objects /\ Given(s) \in allocated \ Listed
           /\ madeFor[Given(s)] = s
           /\ pc[s] # "starting" => object[s] = Given(s)
<1>1. s \in Threads
  BY DEF Young, Threads
<1> QED
  BY <1>1, ThreadFacts DEF ListInv, ListParts, YoungAreOwn, ObjectsMade

\* The list is a sequence of objects in use, each with a name, a socket and a session.
LEMMA EntryFacts ==
    ASSUME ListInv
    PROVE  /\ Len(connected) \in Nat /\ DOMAIN connected = 1 .. Len(connected)
           /\ \A i \in DOMAIN connected : connected[i] \in Listed /\ connected[i] \in Objects
           /\ Listed \subseteq allocated /\ allocated \subseteq Objects
<1>1. /\ Len(connected) \in Nat /\ DOMAIN connected = 1 .. Len(connected)
      /\ \A i \in DOMAIN connected : connected[i] \in Objects
  BY DEF ListInv, SessionsTypeOK
<1> QED
  BY <1>1 DEF Listed, ListInv, ListParts, EntriesAlive, SessionsTypeOK

\* The list is kept by a step that leaves the objects alone and moves one session on.
LEMMA ListKept ==
    ASSUME ListInv, UNCHANGED objectVars, accepting' # NULL => newSocket' \in Sockets,
           NEW s \in Sessions,
           \A t \in Sessions \ {s} : /\ pc'[t] = pc[t] /\ answer'[t] = answer[t]
                                     /\ object'[t] = object[t],
           pc'[s] \in {"none", "refused", "accepted"}
              => pc[s] \in {"none", "refused", "accepted"},
           s \in Threads' => /\ s \in Threads
                             /\ pc'[s] # "starting" => object'[s] = Given(s),
           Young(s)' => Young(s) /\ (pc'[s] = "adding" => pc[s] = "adding"),
           pc'[s] \in {"notifying", "querying"} => answer'[s] = "OK"
    PROVE  ListParts'
<1> USE DEF ListInv, ListParts, objectVars
<1>1. \A t \in Sessions : Given(t)' = Given(t)
  BY DEF Given
<1>2. Listed' = Listed
  BY DEF Listed
<1>3. \A t \in Threads' : t \in Threads
  BY DEF Threads
<1>4. \A t \in Sessions : Young(t)' => Young(t) /\ (pc'[t] = "adding" => pc[t] = "adding")
  BY DEF Young
<1>5. ObjectsMade'
  <2>1. \A o \in Objects : madeFor[o] # NULL => madeFor[o] \in Sessions
    BY DEF SessionsTypeOK
  <2>2. \A t \in Threads' : t \in Sessions
    BY DEF Threads
  <2> QED
    BY <1>1, <1>3, <2>1, <2>2 DEF ObjectsMade
<1>6. YoungAreOwn'
  BY <1>1, <1>2, <1>4 DEF YoungAreOwn
<1>7. EntriesAlive' /\ ObjectsFilled'
  BY <1>2 DEF EntriesAlive, ObjectsFilled
<1>8. AnswersGiven'
  BY DEF AnswersGiven
<1> QED
  BY <1>5, <1>6, <1>7, <1>8

-----------------------------------------------------------------------------
(***************************************************************************)
(* The types.                                                              *)
(***************************************************************************)

\* The types of the variables the slots depend on are kept with the slots.
LEMMA SlotTypesKept ==
    ASSUME SlotInv, [SessionsNext]_vars
    PROVE  /\ accepting' \in Sessions \cup {NULL} /\ freeSlot' \in Slots
           /\ threadArgs' \in [Slots -> Objects \cup {NULL}]
           /\ pc' \in [Sessions -> Steps] /\ slot' \in [Sessions -> Slots]
  BY SlotStep DEF SlotInv, SlotTypes

\* What a step writes into an object leaves it an object.
LEMMA Rewritten ==
    ASSUME NEW e \in [name : Names \cup {NoName}, socket : Sockets \cup {NULL}],
           NEW n \in Names \cup {NoName}, NEW k \in Sockets \cup {NULL}
    PROVE  /\ [e EXCEPT !.name = n] \in [name : Names \cup {NoName}, socket : Sockets \cup {NULL}]
           /\ [e EXCEPT !.socket = k] \in [name : Names \cup {NoName}, socket : Sockets \cup {NULL}]
           /\ [e EXCEPT !.name = n].name = n /\ [e EXCEPT !.name = n].socket = e.socket
           /\ [e EXCEPT !.socket = k].socket = k /\ [e EXCEPT !.socket = k].name = e.name
  OBVIOUS

\* The accept loop keeps the types.
LEMMA AcceptLoopTypes ==
    ASSUME ListInv, [SessionsNext]_vars,
           StartThread \/ \E s \in Sessions : Refuse(s) \/ Accept(s)
    PROVE  SessionsTypeOK'
<1> USE SlotTypesKept DEF ListInv, SessionsTypeOK
<1>1. CASE StartThread
  <2>1. PICK o \in Objects :
           /\ allocated' = allocated \cup {o}
           /\ madeFor' = [madeFor EXCEPT ![o] = accepting]
           /\ heap' = [heap EXCEPT ![o] = [@ EXCEPT !.socket = newSocket]]
    BY <1>1 DEF StartThread, Available
  <2>2. [heap[o] EXCEPT !.socket = newSocket] \in
           [name : Names \cup {NoName}, socket : Sockets \cup {NULL}]
    BY Rewritten
  <2>3. heap' \in [Objects -> [name : Names \cup {NoName}, socket : Sockets \cup {NULL}]]
    BY <2>1, <2>2
  <2>4. madeFor' \in [Objects -> Sessions \cup {NULL}]
    BY <2>1
  <2> QED
    BY <1>1, <2>1, <2>3, <2>4 DEF StartThread, senderVars, clientVars
<1>2. ASSUME NEW s \in Sessions, Refuse(s) PROVE SessionsTypeOK'
  BY <1>2 DEF Refuse, mainVars, memoryVars, senderVars
<1>3. ASSUME NEW s \in Sessions, Accept(s) PROVE SessionsTypeOK'
  BY <1>3 DEF Accept, senderVars, clientVars
<1> QED
  BY <1>1, <1>2, <1>3

\* The sender keeps the types: it copies no socket of a freed object.
LEMMA SenderTypes == ASSUME ListInv, [SessionsNext]_vars, Sender PROVE SessionsTypeOK'
<1> USE DEF ListInv, SessionsTypeOK, mainVars, memoryVars, sessionVars, clientVars
<1>1. CASE SenderWait
  BY <1>1 DEF SenderWait
<1>2. CASE SenderSnapshot
  <2>1. \A i \in DOMAIN connected : heap[connected[i]].socket \in Sockets
    BY EntryFacts DEF ListParts, ObjectsFilled
  <2>2. targets' \in Seq(Sockets)
    BY <1>2, <2>1, EntryFacts DEF SenderSnapshot
  <2> QED
    BY <1>2, <2>2 DEF SenderSnapshot
<1>3. CASE SenderWrite
  <2>1. targets' \in Seq(Sockets)
    BY <1>3 DEF SenderWrite
  <2>2. shown' \in [Sessions -> {NULL} \cup SUBSET (Names \cup {NoName})]
    BY <1>3 DEF SenderWrite
  <2> QED
    BY <1>3, <2>1, <2>2 DEF SenderWrite
<1>4. CASE SenderDone
  BY <1>4 DEF SenderDone
<1> QED
  BY <1>1, <1>2, <1>3, <1>4 DEF Sender

\* The names of the listed users are names.
LEMMA TextType == ListInv => Text \subseteq Names \cup {NoName}
<1> SUFFICES ASSUME ListInv PROVE Text \subseteq Names \cup {NoName}
  OBVIOUS
<1>1. \A o \in Listed : heap[o].name \in Names \cup {NoName}
  BY EntryFacts DEF ListInv, SessionsTypeOK
<1> QED
  BY <1>1 DEF Text, ListedNames

\* Delete removes and frees an entry with the name in the session's object, or there is
\* none.
LEMMA DeleteCases ==
    ASSUME NEW s, Delete(s)
    PROVE  \/ /\ UNCHANGED <<connected, allocated, heap>>
              /\ \A i \in DOMAIN connected : heap[connected[i]].name # heap[object[s]].name
           \/ \E i \in DOMAIN connected :
                 /\ heap[connected[i]].name = heap[object[s]].name
                 /\ connected' = Shifted(i)
                 /\ allocated' = allocated \ {connected[i]}
                 /\ \E n \in {heap[connected[i]].name, NoName} :
                       heap' = [heap EXCEPT ![connected[i]] = [name |-> n, socket |-> NULL]]
<1>1. DelConnectedByName(heap[object[s]].name)
  BY DEF Delete
<1> QED
  BY <1>1 DEF DelConnectedByName, FirstNamed, Free

\* A session keeps the types.
LEMMA SessionTypes ==
    ASSUME ListInv, [SessionsNext]_vars, NEW s \in Sessions,
           Identifies(s) \/ Serves(s) \/ Disconnect(s)
    PROVE  SessionsTypeOK'
<1> USE SlotTypesKept
        DEF ListInv, SessionsTypeOK, Goes, mainVars, memoryVars, senderVars, clientVars
<1>1. ASSUME NEW n \in Names, NEW r \in {"login", "signup"}, Identified(s, n, r)
      PROVE SessionsTypeOK'
  <2>1. object[s] \in Objects
    BY <1>1, YoungFacts DEF Identified, CanIdentify, Young
  <2>2. [heap[object[s]] EXCEPT !.name = n] \in
           [name : Names \cup {NoName}, socket : Sockets \cup {NULL}]
    BY <2>1, Rewritten
  <2>3. heap' \in [Objects -> [name : Names \cup {NoName}, socket : Sockets \cup {NULL}]]
    BY <1>1, <2>1, <2>2 DEF Identified
  <2> QED
    BY <1>1, <2>3 DEF Identified
<1>2. CASE LoginRefused(s)
  BY <1>2 DEF LoginRefused
<1>3. CASE StartSession(s)
  <2>1. Given(s) \in Objects
    BY <1>3, YoungFacts DEF StartSession, Young
  <2>2. heap[Given(s)].socket \in Sockets \cup {NULL}
    BY <2>1
  <2> QED
    BY <1>3, <2>1, <2>2 DEF StartSession, Given
<1>4. CASE Add(s)
  <2>1. object[s] \in Objects
    <3>1. pc[s] = "adding"
      BY <1>4 DEF Add
    <3>2. Given(s) \in Objects /\ object[s] = Given(s)
      BY <3>1, YoungFacts DEF Young
    <3> QED
      BY <3>2
  <2>2. connected' \in Seq(Objects) /\ Len(connected') <= Capacity
    <3>1. Append(connected, object[s]) \in Seq(Objects)
      BY <2>1
    <3>2. Len(Append(connected, object[s])) = Len(connected) + 1 /\ Len(connected) \in Nat
      BY <2>1
    <3>3. HasRoom => Len(connected) + 1 <= Capacity
      BY <3>2, SessionsAssumption DEF HasRoom
    <3> QED
      BY <1>4, <3>1, <3>2, <3>3 DEF Add
  <2>3. answer' \in [Sessions -> {"none", "OK", "FAIL", "FULL"}]
    BY <1>4 DEF Add
  <2> QED
    BY <1>4, <2>2, <2>3 DEF Add
<1>5. CASE TakeList(s)
  BY <1>5, TextType DEF TakeList
<1>6. CASE Answer(s)
  <2>1. /\ answer' \in [Sessions -> {"none", "OK", "FAIL", "FULL"}]
        /\ list' \in [Sessions -> SUBSET (Names \cup {NoName})]
    BY <1>6 DEF Answer
  <2>2. shown' \in [Sessions -> {NULL} \cup SUBSET (Names \cup {NoName})]
    BY <1>6 DEF Answer
  <2> QED
    BY <1>6, <2>1, <2>2 DEF Answer
<1>7. CASE SendToAll(s)
  BY <1>7 DEF SendToAll
<1>8. CASE Disconnect(s)
  BY <1>8 DEF Disconnect
<1>9. CASE CloseSocket(s)
  BY <1>9 DEF CloseSocket
<1>10. CASE Delete(s)
  <2>1. CASE UNCHANGED <<connected, allocated, heap>>
    BY <1>10, <2>1 DEF Delete
  <2>2. ASSUME NEW i \in DOMAIN connected, NEW n \in {heap[connected[i]].name, NoName},
               /\ connected' = Shifted(i)
               /\ allocated' = allocated \ {connected[i]}
               /\ heap' = [heap EXCEPT ![connected[i]] = [name |-> n, socket |-> NULL]]
        PROVE  SessionsTypeOK'
    <3>1. connected[i] \in Objects
      BY EntryFacts
    <3>2. n \in Names \cup {NoName}
      BY <3>1
    <3>3. heap' \in [Objects -> [name : Names \cup {NoName}, socket : Sockets \cup {NULL}]]
      BY <2>2, <3>2
    <3>4. connected' \in Seq(Objects) /\ Len(connected') <= Capacity
      BY <2>2, ShiftedType, SessionsAssumption
    <3> QED
      BY <1>10, <2>2, <3>3, <3>4 DEF Delete
  <2> QED
    BY <1>10, <2>1, <2>2, DeleteCases
<1>11. CASE FreeSlot(s)
  BY <1>11 DEF FreeSlot
<1> QED
  BY <1>1, <1>2, <1>3, <1>4, <1>5, <1>6, <1>7, <1>8, <1>9, <1>10, <1>11
  DEF Identifies, LoginAccepted, SignUpAccepted, Serves

-----------------------------------------------------------------------------
(***************************************************************************)
(* The list.                                                               *)
(***************************************************************************)

\* The object of a new thread is new, so it is nobody else's and not in the list.
LEMMA ListStart == ASSUME ListInv, StartThread PROVE ListParts'
<1> USE DEF ListInv, ListParts, SessionsTypeOK
<1>1. PICK o \in Objects \ allocated :
         /\ allocated' = allocated \cup {o}
         /\ madeFor' = [madeFor EXCEPT ![o] = accepting]
         /\ heap' = [heap EXCEPT ![o] = [@ EXCEPT !.socket = newSocket]]
         /\ threadArgs' = [threadArgs EXCEPT ![freeSlot] = o]
  BY DEF StartThread, Available
<1>2. PICK s \in Sessions :
         s = accepting /\ s # NULL /\ pc[s] = "accepted" /\ threadArgs[freeSlot] = NULL
  BY DEF StartThread, SlotInv, SlotTypes, FoundSlotIsFree
<1>3. /\ pc' = [pc EXCEPT ![s] = "starting"] /\ slot' = [slot EXCEPT ![s] = freeSlot]
      /\ accepting' = NULL /\ UNCHANGED <<connected, object, answer>>
  BY <1>2 DEF StartThread, clientVars
<1>4. Threads' = Threads \cup {s} /\ s \notin Threads
  BY <1>2, <1>3 DEF Threads
<1>5. Given(s)' = o
  BY <1>1, <1>2, <1>3 DEF Given
<1>6. ASSUME NEW t \in Threads
      PROVE  Given(t)' = Given(t) /\ pc'[t] = pc[t] /\ t # s /\ t \in Sessions
  <2>1. t \in Sessions /\ slot[t] \in Slots /\ threadArgs[slot[t]] # NULL /\ t # s
    BY <1>4, ThreadFacts, NullIsNothing DEF Given
  <2>2. slot[t] # freeSlot /\ slot'[t] = slot[t]
    BY <1>2, <1>3, <2>1
  <2>3. threadArgs'[slot[t]] = threadArgs[slot[t]]
    BY <1>1, <2>1, <2>2
  <2> QED
    BY <1>3, <2>1, <2>2, <2>3 DEF Given
<1>7. \A p \in Objects : madeFor[p] # s
  BY <1>2 DEF ObjectsMade
<1>8. madeFor'[o] = s /\ \A p \in Objects \ {o} : madeFor'[p] = madeFor[p]
  BY <1>1, <1>2
<1>9. ObjectsMade'
  <2>1. \A p, q \in Objects : madeFor'[p] = madeFor'[q] => p = q \/ madeFor'[p] = NULL
    BY <1>7, <1>8 DEF ObjectsMade
  <2>2. \A p \in Objects : madeFor'[p] # NULL =>
                              pc'[madeFor'[p]] \notin {"none", "refused", "accepted"}
    BY <1>2, <1>3, <1>8 DEF ObjectsMade
  <2>3. \A t \in Threads' : \A p \in Objects : madeFor'[p] = t => p = Given(t)'
    BY <1>4, <1>5, <1>6, <1>7, <1>8 DEF ObjectsMade
  <2>4. \A t \in Threads' : pc'[t] # "starting" => object'[t] = Given(t)'
    BY <1>2, <1>3, <1>4, <1>6 DEF ObjectsMade
  <2> QED
    BY <2>1, <2>2, <2>3, <2>4 DEF ObjectsMade
<1>10. Listed' = Listed /\ o \notin Listed
  BY <1>1, <1>3, EntryFacts DEF Listed
<1>11. \A p \in Objects \ {o} : heap'[p] = heap[p]
  BY <1>1
<1>12. YoungAreOwn'
  <2>1. ASSUME NEW t \in Sessions, Young(t)', t # s
        PROVE  /\ Given(t)' \in allocated' \ Listed' /\ madeFor'[Given(t)'] = t
               /\ pc'[t] = "adding" => heap'[Given(t)'].name \in Names
    <3>1. Young(t) /\ pc'[t] = pc[t]
      BY <1>3, <2>1 DEF Young
    <3>2. t \in Threads /\ Given(t) \in Objects /\ Given(t) \in allocated \ Listed
          /\ madeFor[Given(t)] = t /\ Given(t) # o
      BY <1>1, <3>1, YoungFacts
    <3>3. Given(t)' = Given(t)
      BY <3>2, <1>6
    <3> QED
      BY <1>1, <1>8, <1>10, <1>11, <3>1, <3>2, <3>3 DEF YoungAreOwn
  <2>2. Given(s)' \in allocated' \ Listed' /\ madeFor'[Given(s)'] = s /\ pc'[s] # "adding"
    BY <1>1, <1>2, <1>3, <1>5, <1>8, <1>10
  <2> QED
    BY <2>1, <2>2 DEF YoungAreOwn
<1>13. EntriesAlive'
  BY <1>1, <1>3, <1>10 DEF EntriesAlive
<1>14. ObjectsFilled'
  <2>1. heap'[o] = [heap[o] EXCEPT !.socket = newSocket] /\ newSocket \in Sockets
    BY <1>1, <1>2 DEF ObjectsFilled
  <2>2. heap'[o].socket \in Sockets
    BY <2>1, Rewritten
  <2>3. \A p \in allocated' : heap'[p].socket \in Sockets /\ madeFor'[p] \in Sessions
    BY <1>1, <1>8, <1>11, <2>2 DEF ObjectsFilled
  <2>4. \A p \in Listed : heap'[p].name \in Names
    BY <1>10, <1>11, EntryFacts DEF ObjectsFilled
  <2> QED
    BY <1>3, <1>10, <2>3, <2>4 DEF ObjectsFilled
<1>15. AnswersGiven'
  BY <1>3 DEF AnswersGiven
<1> QED
  BY <1>9, <1>12, <1>13, <1>14, <1>15

\* The sender leaves sessions and list alone.
LEMMA ListSender ==
    ASSUME ListInv, Sender \/ UNCHANGED vars
    PROVE  ListParts'
<1>1. UNCHANGED <<mainVars, memoryVars, sessionVars, answer>>
  BY DEF Sender, SenderWait, SenderSnapshot, SenderWrite, SenderDone, clientVars, vars
<1> QED
  BY <1>1 DEF ListInv, ListParts, ObjectsMade, YoungAreOwn, Young, EntriesAlive, ObjectsFilled,
         AnswersGiven, Threads, Given, Listed, mainVars, memoryVars, sessionVars

\* Connections that are refused or accepted have no thread yet.
LEMMA ListArrival ==
    ASSUME ListInv, NEW s \in Sessions, Refuse(s) \/ Accept(s)
    PROVE  ListParts'
<1> USE DEF ListInv, SessionsTypeOK
<1>1. UNCHANGED objectVars
  BY DEF Refuse, Accept, objectVars, memoryVars
<1>2. accepting' # NULL => newSocket' \in Sockets
  BY DEF Refuse, Accept, Arrives, mainVars, ListParts, ObjectsFilled
<1>3. /\ pc[s] = "none" /\ pc'[s] \in {"refused", "accepted"}
      /\ \A t \in Sessions \ {s} : pc'[t] = pc[t] /\ answer'[t] = answer[t]
      /\ object' = object
  BY DEF Refuse, Accept, Arrives, clientVars
<1> HIDE DEF ListInv, SessionsTypeOK
<1>4. ~Young(s)' /\ s \notin Threads'
  BY <1>3 DEF Young, Threads
<1> QED
  BY <1>1, <1>2, <1>3, <1>4, ListKept

\* The steps of a session that change neither its object nor the list.
LEMMA ListServed ==
    ASSUME ListInv, NEW s \in Sessions,
           \/ LoginRefused(s) \/ StartSession(s) \/ TakeList(s) \/ Answer(s) \/ SendToAll(s)
           \/ Disconnect(s) \/ CloseSocket(s)
    PROVE  ListParts'
<1> USE DEF ListInv, SessionsTypeOK, Goes, LoginRefused, StartSession, TakeList, Answer,
            SendToAll, Disconnect, CloseSocket, CanIdentify, mainVars, memoryVars, clientVars
<1>1. UNCHANGED objectVars
  BY DEF objectVars
<1>2. accepting' # NULL => newSocket' \in Sockets
  BY DEF ListParts, ObjectsFilled
<1>3. \A t \in Sessions \ {s} : /\ pc'[t] = pc[t] /\ answer'[t] = answer[t]
                                /\ object'[t] = object[t]
  OBVIOUS
<1>4. pc[s] \notin {"none", "refused", "accepted"}
      /\ pc'[s] \notin {"none", "refused", "accepted"}
  OBVIOUS
<1>5. s \in Threads' => s \in Threads /\ (pc'[s] # "starting" => object'[s] = Given(s))
  BY DEF Threads, Given, ListParts, ObjectsMade
<1>6. Young(s)' => Young(s) /\ pc'[s] # "adding"
  BY DEF Young, ListParts, AnswersGiven
<1>7. pc'[s] \in {"notifying", "querying"} => answer'[s] = "OK"
  OBVIOUS
<1> HIDE DEF ListInv, SessionsTypeOK, Goes, LoginRefused, StartSession, TakeList, Answer,
             SendToAll, Disconnect, CloseSocket, CanIdentify, mainVars, memoryVars, clientVars
<1> QED
  BY <1>1, <1>2, <1>3, <1>4, <1>5, <1>6, <1>7, ListKept

\* A user who logs in or signs up, under whatever name, writes it into an object that
\* nobody else has.
LEMMA ListIdentified ==
    ASSUME ListInv, NEW s \in Sessions, NEW n \in Names, NEW r \in {"login", "signup"},
           Identified(s, n, r)
    PROVE  /\ ListParts' /\ Listed' = Listed
           /\ \A o \in Listed : heap'[o] = heap[o]
<1> USE DEF ListInv, ListParts, SessionsTypeOK
<1>1. /\ pc[s] = "reading" /\ answer[s] # "OK"
      /\ pc' = [pc EXCEPT ![s] = "adding"]
      /\ heap' = [heap EXCEPT ![object[s]] = [@ EXCEPT !.name = n]]
      /\ UNCHANGED <<threadArgs, allocated, madeFor, connected, slot, object, answer, accepting,
                     newSocket>>
  BY DEF Identified, CanIdentify, Goes, mainVars, clientVars
<1>2. Young(s)
  BY <1>1 DEF Young
<1>3. /\ s \in Threads /\ object[s] = Given(s) /\ Given(s) \in Objects
      /\ Given(s) \in allocated \ Listed /\ madeFor[Given(s)] = s
  BY <1>1, <1>2, YoungFacts
<1>4. Threads' = Threads /\ Listed' = Listed /\ \A t \in Sessions : Given(t)' = Given(t)
  BY <1>1 DEF Threads, Listed, Given
<1>5. heap'[Given(s)].name = n /\ heap'[Given(s)].socket = heap[Given(s)].socket
  <2>1. heap[Given(s)] \in [name : Names \cup {NoName}, socket : Sockets \cup {NULL}]
    BY <1>3
  <2>2. heap'[Given(s)] = [heap[Given(s)] EXCEPT !.name = n]
    BY <1>1, <1>3
  <2> QED
    BY <2>1, <2>2
<1>6. \A o \in Objects \ {Given(s)} : heap'[o] = heap[o]
  BY <1>1, <1>3
<1>7. \A o \in Listed : heap'[o] = heap[o]
  BY <1>3, <1>6, EntryFacts
<1>8. ObjectsMade'
  <2>1. \A o \in Objects : madeFor[o] # NULL => madeFor[o] \in Sessions
    OBVIOUS
  <2>2. \A t \in Threads : t \in Sessions
    BY DEF Threads
  <2> QED
    BY <1>1, <1>4, <2>1, <2>2 DEF ObjectsMade
<1>9. YoungAreOwn'
  <2>1. ASSUME NEW t \in Sessions \ {s}, Young(t)
        PROVE  heap'[Given(t)] = heap[Given(t)]
    BY <1>3, <1>6, <2>1, YoungFacts
  <2>2. \A t \in Sessions \ {s} : Young(t)' => Young(t) /\ pc'[t] = pc[t]
    BY <1>1 DEF Young
  <2> QED
    BY <1>1, <1>3, <1>4, <1>5, <2>1, <2>2 DEF YoungAreOwn
<1>10. EntriesAlive'
  BY <1>1, <1>4 DEF EntriesAlive
<1>11. ObjectsFilled'
  BY <1>1, <1>4, <1>5, <1>6, <1>7 DEF ObjectsFilled
<1>12. AnswersGiven'
  BY <1>1 DEF AnswersGiven
<1> QED
  BY <1>4, <1>7, <1>8, <1>9, <1>10, <1>11, <1>12

\* The entry that Add appends, if it finds room, is new.
LEMMA ListAdd ==
    ASSUME ListInv, NEW s \in Sessions, Add(s)
    PROVE  /\ ListParts' /\ Given(s) \in Objects \ Listed /\ madeFor[Given(s)] = s
           /\ heap[Given(s)].name \in Names
           /\ IF HasRoom THEN Listed' = Listed \cup {Given(s)} ELSE Listed' = Listed
<1> USE DEF ListInv, ListParts, SessionsTypeOK
<1>1. /\ pc[s] = "adding"
      /\ pc' = [pc EXCEPT ![s] = pc'[s]] /\ pc'[s] \in {"listing", "reading"}
      /\ pc'[s] = "reading" => ~HasRoom
      /\ \A t \in Sessions \ {s} : answer'[t] = answer[t]
      /\ connected' = IF HasRoom THEN Append(connected, object[s]) ELSE connected
      /\ UNCHANGED <<threadArgs, heap, allocated, madeFor, slot, object, accepting, newSocket>>
  BY DEF Add, Goes, mainVars
<1>2. /\ s \in Threads /\ object[s] = Given(s) /\ Given(s) \in Objects
      /\ Given(s) \in allocated \ Listed /\ madeFor[Given(s)] = s
      /\ heap[Given(s)].name \in Names
  BY <1>1, YoungFacts DEF Young, YoungAreOwn
<1>3. /\ \A t \in Sessions : Given(t)' = Given(t)
      /\ Threads' = Threads
  BY <1>1, <1>2 DEF Threads, Given
<1> DEFINE N == Len(connected)
<1>4. Listed' = IF HasRoom THEN Listed \cup {Given(s)} ELSE Listed
  <2>1. CASE HasRoom
    <3>1. /\ N \in Nat /\ Len(connected') = N + 1 /\ connected'[N + 1] = Given(s)
          /\ \A i \in 1 .. N : connected'[i] = connected[i]
          /\ DOMAIN connected = 1 .. N /\ DOMAIN connected' = 1 .. N + 1
      BY <1>1, <1>2, <2>1
    <3> HIDE DEF N
    <3>2. Listed' = {connected'[i] : i \in 1 .. N + 1} /\ Listed = {connected[i] : i \in 1 .. N}
      BY <3>1 DEF Listed
    <3>3. \A i \in 1 .. N + 1 : i \in 1 .. N \/ i = N + 1
      BY <3>1
    <3>4. \A i \in 1 .. N : i \in 1 .. N + 1
      BY <3>1
    <3>5. N + 1 \in 1 .. N + 1
      BY <3>1
    <3> QED
      BY <2>1, <3>1, <3>2, <3>3, <3>4, <3>5
  <2>2. CASE ~HasRoom
    BY <1>1, <2>2 DEF Listed
  <2> QED
    BY <2>1, <2>2
<1>5. ObjectsMade'
  <2>1. \A o \in Objects : madeFor[o] # NULL => madeFor[o] \in Sessions
    OBVIOUS
  <2>2. \A t \in Threads : t \in Sessions
    BY DEF Threads
  <2> QED
    BY <1>1, <1>3, <2>1, <2>2 DEF ObjectsMade
<1>6. YoungAreOwn'
  <2>1. ASSUME NEW t \in Sessions \ {s}, Young(t)'
        PROVE  Young(t) /\ pc'[t] = pc[t] /\ Given(t) # Given(s)
    <3>1. Young(t) /\ pc'[t] = pc[t]
      BY <1>1, <2>1 DEF Young
    <3> QED
      BY <1>2, <3>1, YoungFacts
  <2>2. Young(s)' => Given(s) \in allocated' \ Listed' /\ pc'[s] # "adding"
    BY <1>1, <1>2, <1>4 DEF Young
  <2> QED
    BY <1>1, <1>2, <1>3, <1>4, <2>1, <2>2 DEF YoungAreOwn
<1>7. EntriesAlive'
  <2>1. CASE HasRoom
    <3>1. /\ N \in Nat /\ connected'[N + 1] = Given(s)
          /\ \A i \in 1 .. N : connected'[i] = connected[i] /\ connected[i] # Given(s)
          /\ DOMAIN connected = 1 .. N /\ DOMAIN connected' = 1 .. N + 1
      BY <1>1, <1>2, <2>1 DEF Listed
    <3>2. \A i, j \in DOMAIN connected' : connected'[i] = connected'[j] => i = j
      BY <3>1 DEF EntriesAlive
    <3> QED
      BY <1>1, <1>2, <1>4, <2>1, <3>2 DEF EntriesAlive
  <2>2. CASE ~HasRoom
    BY <1>1, <1>4, <2>2 DEF EntriesAlive
  <2> QED
    BY <2>1, <2>2
<1>8. ObjectsFilled'
  BY <1>1, <1>2, <1>4 DEF ObjectsFilled
<1>9. AnswersGiven'
  BY <1>1 DEF AnswersGiven
<1> QED
  BY <1>2, <1>4, <1>5, <1>6, <1>7, <1>8, <1>9

\* Delete takes out of the list what it frees, whoever's it is.
LEMMA ListDelete ==
    ASSUME ListInv, NEW s \in Sessions, Delete(s)
    PROVE  /\ ListParts'
           /\ \/ /\ Listed' = Listed /\ heap' = heap
                 /\ \A o \in Listed : heap[o].name # heap[object[s]].name
              \/ \E o \in Listed : /\ heap[o].name = heap[object[s]].name
                                   /\ Listed' = Listed \ {o}
                                   /\ \A p \in Objects \ {o} : heap'[p] = heap[p]
<1> USE DEF ListInv, SessionsTypeOK
<1>1. /\ pc[s] = "deleting" /\ pc' = [pc EXCEPT ![s] = "freeing"]
      /\ UNCHANGED <<answer, madeFor, threadArgs, slot, object, accepting, newSocket>>
  BY DEF Delete, Goes, mainVars, clientVars
<1>2. Threads' = Threads /\ \A t \in Sessions : Given(t)' = Given(t)
  BY <1>1 DEF Threads, Given
<1>3. \A t \in Sessions : Young(t)' => Young(t) /\ pc'[t] = pc[t]
  BY <1>1 DEF Young
<1>4. ObjectsMade' /\ AnswersGiven'
  <2>1. \A o \in Objects : madeFor[o] # NULL => madeFor[o] \in Sessions
    OBVIOUS
  <2>2. \A t \in Threads : t \in Sessions
    BY DEF Threads
  <2> QED
    BY <1>1, <1>2, <2>1, <2>2 DEF ObjectsMade, AnswersGiven, ListParts
<1>5. CASE /\ UNCHANGED <<connected, allocated, heap>>
           /\ \A i \in DOMAIN connected : heap[connected[i]].name # heap[object[s]].name
  <2>1. Listed' = Listed /\ \A o \in Listed : heap[o].name # heap[object[s]].name
    BY <1>5 DEF Listed
  <2>2. YoungAreOwn' /\ EntriesAlive' /\ ObjectsFilled'
    BY <1>1, <1>2, <1>3, <1>5, <2>1 DEF YoungAreOwn, EntriesAlive, ObjectsFilled, ListParts
  <2> QED
    BY <1>4, <1>5, <2>1, <2>2 DEF ListParts
<1>6. ASSUME NEW i \in DOMAIN connected, NEW n,
             /\ heap[connected[i]].name = heap[object[s]].name
             /\ connected' = Shifted(i)
             /\ allocated' = allocated \ {connected[i]}
             /\ heap' = [heap EXCEPT ![connected[i]] = [name |-> n, socket |-> NULL]]
      PROVE  /\ ListParts'
             /\ Listed' = Listed \ {connected[i]} /\ connected[i] \in Listed
             /\ \A p \in Objects \ {connected[i]} : heap'[p] = heap[p]
  <2>1. connected[i] \in Listed /\ connected[i] \in Objects
    BY EntryFacts
  <2>2. \A j, k \in DOMAIN connected : connected[j] = connected[k] => j = k
    BY DEF ListParts, EntriesAlive
  <2>3. /\ Listed' = Listed \ {connected[i]}
        /\ \A j, k \in DOMAIN connected' : connected'[j] = connected'[k] => j = k
    BY <1>6, <2>2, ShiftedSet
  <2>4. \A p \in Objects \ {connected[i]} : heap'[p] = heap[p]
    BY <1>6
  <2>5. YoungAreOwn'
    <3>1. ASSUME NEW t \in Sessions, Young(t)
          PROVE  Given(t) # connected[i] /\ Given(t) \in Objects
      BY <2>1, <3>1, YoungFacts
    <3>2. ASSUME NEW t \in Sessions, Young(t)
          PROVE  heap'[Given(t)] = heap[Given(t)] /\ Given(t) \in allocated' \ Listed'
      BY <1>6, <2>3, <2>4, <3>1, <3>2, YoungFacts
    <3> QED
      BY <1>1, <1>2, <1>3, <3>2 DEF YoungAreOwn, ListParts
  <2>6. EntriesAlive'
    BY <1>6, <2>3 DEF EntriesAlive, ListParts
  <2>7. ObjectsFilled'
    <3>1. \A o \in allocated' : o \in Objects \ {connected[i]} /\ o \in allocated
      BY <1>6
    <3>2. \A o \in Listed' : o \in Objects \ {connected[i]} /\ o \in Listed
      BY <2>3, EntryFacts
    <3> QED
      BY <1>1, <2>4, <3>1, <3>2 DEF ObjectsFilled, ListParts
  <2> QED
    BY <1>4, <2>1, <2>3, <2>4, <2>5, <2>6, <2>7 DEF ListParts
<1> HIDE DEF ListInv, SessionsTypeOK
<1>7. CASE ~UNCHANGED <<connected, allocated, heap>>
  <2>1. PICK i \in DOMAIN connected :
           /\ heap[connected[i]].name = heap[object[s]].name
           /\ connected' = Shifted(i)
           /\ allocated' = allocated \ {connected[i]}
           /\ \E n \in {heap[connected[i]].name, NoName} :
                 heap' = [heap EXCEPT ![connected[i]] = [name |-> n, socket |-> NULL]]
    BY <1>7, DeleteCases
  <2>2. PICK n : heap' = [heap EXCEPT ![connected[i]] = [name |-> n, socket |-> NULL]]
    BY <2>1
  <2>3. /\ ListParts'
        /\ Listed' = Listed \ {connected[i]} /\ connected[i] \in Listed
        /\ \A p \in Objects \ {connected[i]} : heap'[p] = heap[p]
    BY <1>6, <2>1, <2>2
  <2> QED
    BY <2>1, <2>3
<1>8. CASE \A i \in DOMAIN connected : heap[connected[i]].name # heap[object[s]].name
  <2>1. UNCHANGED <<connected, allocated, heap>>
    BY <1>8, DeleteCases
  <2> QED
    BY <1>5, <1>8, <2>1
<1>9. CASE \E i \in DOMAIN connected : /\ heap[connected[i]].name = heap[object[s]].name
                                       /\ UNCHANGED <<connected, allocated, heap>>
  <2>1. PICK i \in DOMAIN connected :
           /\ heap[connected[i]].name = heap[object[s]].name
           /\ connected' = Shifted(i)
    BY <1>9, DeleteCases
  <2>2. Len(connected') = Len(connected) - 1 /\ Len(connected) \in Nat
    BY <2>1, ShiftedType, EntryFacts DEF ListInv, SessionsTypeOK
  <2> QED
    BY <1>9, <2>2
<1> QED
  BY <1>7, <1>8, <1>9

\* A slot that is given back is nobody else's.
LEMMA ListFreed ==
    ASSUME ListInv, NEW s \in Sessions, FreeSlot(s)
    PROVE  ListParts' /\ Listed' = Listed
<1> USE DEF ListInv, ListParts, SessionsTypeOK
<1>1. /\ pc[s] = "freeing" /\ pc' = [pc EXCEPT ![s] = "lastListing"]
      /\ threadArgs' = [threadArgs EXCEPT ![slot[s]] = NULL]
      /\ slot' = [slot EXCEPT ![s] = 0] /\ object' = [object EXCEPT ![s] = NULL]
      /\ UNCHANGED <<heap, allocated, madeFor, connected, answer, accepting, newSocket>>
  BY DEF FreeSlot, Goes, mainVars, clientVars
<1>2. s \in Threads /\ Threads' = Threads \ {s} /\ Listed' = Listed
  BY <1>1 DEF Threads, Listed
<1>3. ASSUME NEW t \in Threads, t # s
      PROVE  /\ Given(t)' = Given(t) /\ pc'[t] = pc[t] /\ object'[t] = object[t]
             /\ t \in Sessions
  <2>1. t \in Sessions /\ slot[t] # slot[s] /\ slot[t] \in Slots
    BY <1>2, <1>3, ThreadFacts DEF SlotInv, SlotsMatchThreads
  <2> QED
    BY <1>1, <1>3, <2>1 DEF Given
<1>4. ObjectsMade'
  <2>1. \A o \in Objects : madeFor[o] # NULL => madeFor[o] \in Sessions
    OBVIOUS
  <2> QED
    BY <1>1, <1>2, <1>3, <2>1 DEF ObjectsMade
<1>5. YoungAreOwn'
  <2>1. \A t \in Sessions : Young(t)' => Young(t) /\ t # s /\ pc'[t] = pc[t]
    BY <1>1 DEF Young
  <2>2. \A t \in Sessions : Young(t) => t \in Threads
    BY DEF Young, Threads
  <2> QED
    BY <1>1, <1>2, <1>3, <2>1, <2>2 DEF YoungAreOwn
<1>6. EntriesAlive' /\ ObjectsFilled' /\ AnswersGiven'
  BY <1>1, <1>2 DEF EntriesAlive, ObjectsFilled, AnswersGiven
<1> QED
  BY <1>2, <1>4, <1>5, <1>6

\* Every step keeps the invariant.
LEMMA ListStep == ListInv /\ [SessionsNext]_vars => ListInv'
<1> SUFFICES ASSUME ListInv, [SessionsNext]_vars PROVE ListInv'
  OBVIOUS
<1>1. SlotInv'
  BY SlotStep DEF ListInv
<1>2. SessionsTypeOK'
  <2>1. CASE UNCHANGED vars
    BY <2>1 DEF ListInv, SessionsTypeOK, vars, mainVars, memoryVars, sessionVars, senderVars,
                clientVars
  <2> QED
    BY <2>1, AcceptLoopTypes, SenderTypes, SessionTypes DEF SessionsNext
<1>3. ListParts'
  BY ListStart, ListArrival, ListSender, ListServed, ListIdentified, ListAdd, ListDelete,
     ListFreed
  DEF SessionsNext, Identifies, LoginAccepted, SignUpAccepted, Serves
<1> QED
  BY <1>1, <1>2, <1>3 DEF ListInv

-----------------------------------------------------------------------------
(***************************************************************************)
(* What follows.                                                           *)
(***************************************************************************)

\* The invariant says what the properties say.
LEMMA ListInvImplies ==
    ListInv => SessionsTypeOK /\ EntriesAlive /\ LoginWritesOwn
<1> SUFFICES ASSUME ListInv PROVE SessionsTypeOK /\ EntriesAlive /\ LoginWritesOwn
  OBVIOUS
<1>1. SessionsTypeOK /\ EntriesAlive
  BY DEF ListInv, ListParts
<1>2. ASSUME NEW s \in Sessions, CanIdentify(s)
      PROVE  object[s] \in allocated \ Listed /\ madeFor[object[s]] = s
  <2>1. Young(s) /\ pc[s] # "starting"
    BY <1>2 DEF CanIdentify, Young
  <2> QED
    BY <2>1, YoungFacts
<1> QED
  BY <1>1, <1>2 DEF LoginWritesOwn

\* The invariant holds of every state.
LEMMA ListAlways == SessionsSpec => []ListInv
  BY ListInit, ListStep, PTL DEF SessionsSpec

\* The list and every array and buffer of the connections keep their types and bounds; the
\* sender writes to no socket read in a freed object.
THEOREM SessionsTypesSafe == SessionsSpec => []SessionsTypeOK
  BY ListAlways, ListInvImplies, PTL

\* The list never holds a freed object or an object twice, whatever the order in which
\* connections come, identify and go, and whoever logs in with whose name.
THEOREM EntriesSafe == SessionsSpec => []EntriesAlive
  BY ListAlways, ListInvImplies, PTL

\* A login writes the name into an object that no other session uses and that is not in
\* the list, whatever the disconnections of others have freed.
THEOREM LoginSafe == SessionsSpec => []LoginWritesOwn
  BY ListAlways, ListInvImplies, PTL

-----------------------------------------------------------------------------
(***************************************************************************)
(* The list implements Presence.                                           *)
(***************************************************************************)

\* What Presence sees.
presenceVars == <<Entries, ClosedSessions, DeletedSessions>>

\* The entry of an object in the list.
EntryOf(o) == [user |-> madeFor[o], name |-> heap[o].name]

\* A user is present when an object made for the session is listed.
LEMMA PresentIsListed ==
    ASSUME NEW s
    PROVE  Connected!Present(s) <=> \E o \in Listed : madeFor[o] = s
<1>1. \A o \in Listed : EntryOf(o) \in Entries /\ EntryOf(o).user = madeFor[o]
  BY DEF Entries, EntryOf
<1>2. \A e \in Entries : \E o \in Listed : e = EntryOf(o)
  BY DEF Entries, EntryOf
<1> QED
  BY <1>1, <1>2 DEF Connected!Present

\* Objects in the list are made for different sessions.
LEMMA ListedUsers ==
    ASSUME ListInv, NEW o \in Listed, NEW p \in Objects, madeFor[o] = madeFor[p]
    PROVE  o = p /\ o \in Objects /\ madeFor[o] \in Sessions
<1>1. o \in Objects /\ o \in allocated
  BY EntryFacts
<1>2. madeFor[o] \in Sessions
  BY <1>1 DEF ListInv, ListParts, ObjectsFilled
<1>3. madeFor[o] # NULL
  BY <1>2, NullIsNothing
<1> QED
  BY <1>1, <1>2, <1>3 DEF ListInv, ListParts, ObjectsMade

\* There are no more entries than places taken in the list.
LEMMA EntriesBounded ==
    ListInv => IsFiniteSet(Entries) /\ Cardinality(Entries) <= Len(connected)
<1> SUFFICES ASSUME ListInv
             PROVE  IsFiniteSet(Entries) /\ Cardinality(Entries) <= Len(connected)
  OBVIOUS
<1> DEFINE N == Len(connected)
           f == [i \in 1 .. N |-> EntryOf(connected[i])]
<1>1. N \in Nat /\ DOMAIN connected = 1 .. N
  BY EntryFacts
<1>2. Entries = {EntryOf(connected[i]) : i \in 1 .. N}
  BY <1>1 DEF Entries, EntryOf, Listed
<1>3. f \in Surjection(1 .. N, Entries)
  <2>1. f \in [1 .. N -> Entries]
    BY <1>2
  <2>2. \A e \in Entries : \E i \in 1 .. N : f[i] = e
    BY <1>2
  <2> QED
    BY <2>1, <2>2 DEF Surjection
<1> HIDE DEF N, f
<1>4. IsFiniteSet(1 .. N) /\ Cardinality(1 .. N) = IF 1 > N THEN 0 ELSE N - 1 + 1
  BY <1>1, FS_Interval
<1>5. IsFiniteSet(Entries) /\ Cardinality(Entries) <= Cardinality(1 .. N)
  BY <1>3, <1>4, FS_Surjection
<1>6. Cardinality(1 .. N) = N
  BY <1>1, <1>4
<1> QED
  BY <1>5, <1>6 DEF N

\* Nobody is present or gone at the start.
LEMMA PresenceInit == SessionsInit => Connected!Init
<1> SUFFICES ASSUME SessionsInit PROVE Connected!Init
  OBVIOUS
<1>1. Listed = {}
  BY DEF SessionsInit, Listed
<1>2. Entries = {}
  BY <1>1 DEF Entries
<1>3. ClosedSessions = {} /\ DeletedSessions = {}
  BY DEF SessionsInit, ClosedSessions, DeletedSessions
<1> QED
  BY <1>2, <1>3 DEF Connected!Init

\* A step that keeps the entries, and moves no session across the ends of its being closed
\* or deleted, is no step of Presence.
LEMMA PresenceKept ==
    ASSUME Entries' = Entries,
           \A s \in Sessions : /\ s \in ClosedSessions' <=> s \in ClosedSessions
                               /\ s \in DeletedSessions' <=> s \in DeletedSessions
    PROVE  UNCHANGED presenceVars
  BY DEF presenceVars, ClosedSessions, DeletedSessions

\* The entries stay when the objects in the list do.
LEMMA EntriesKept ==
    ASSUME Listed' = Listed,
           \A o \in Listed : madeFor'[o] = madeFor[o] /\ heap'[o] = heap[o]
    PROVE  Entries' = Entries
  BY DEF Entries

\* Threads that start and the sender change nobody's presence.
LEMMA PresenceOthers ==
    ASSUME ListInv, StartThread \/ Sender \/ UNCHANGED vars
    PROVE  UNCHANGED presenceVars
<1>1. CASE StartThread
  <2>1. PICK t \in Sessions : t = accepting /\ pc[t] = "accepted"
    BY <1>1 DEF StartThread, ListInv, SlotInv, SlotTypes, FoundSlotIsFree
  <2>2. PICK o \in Objects \ allocated :
           /\ madeFor' = [madeFor EXCEPT ![o] = t]
           /\ heap' = [heap EXCEPT ![o] = [@ EXCEPT !.socket = newSocket]]
    BY <1>1, <2>1 DEF StartThread, Available
  <2>3. pc' = [pc EXCEPT ![t] = "starting"] /\ Listed' = Listed
    BY <1>1, <2>1 DEF StartThread, Listed
  <2>4. \A p \in Listed : madeFor'[p] = madeFor[p] /\ heap'[p] = heap[p]
    BY <2>2, EntryFacts DEF ListInv, SessionsTypeOK
  <2>5. \A u \in Sessions : /\ u \in ClosedSessions' <=> u \in ClosedSessions
                            /\ u \in DeletedSessions' <=> u \in DeletedSessions
    BY <2>1, <2>3 DEF ListInv, SessionsTypeOK, ClosedSessions, DeletedSessions
  <2> QED
    BY <2>3, <2>4, <2>5, EntriesKept, PresenceKept
<1>2. CASE Sender \/ UNCHANGED vars
  <2>1. UNCHANGED <<memoryVars, sessionVars>>
    BY <1>2 DEF Sender, SenderWait, SenderSnapshot, SenderWrite, SenderDone, vars
  <2> QED
    BY <2>1 DEF presenceVars, Entries, ClosedSessions, DeletedSessions, Listed, memoryVars,
                sessionVars
<1> QED
  BY <1>1, <1>2

\* Arrivals, answers and what follows the removal change nobody's presence, and a login
\* only names an object that is not in the list.
LEMMA PresenceServed ==
    ASSUME ListInv, NEW s \in Sessions,
           \/ Refuse(s) \/ Accept(s) \/ Identifies(s) \/ StartSession(s) \/ TakeList(s)
           \/ Answer(s) \/ SendToAll(s) \/ Disconnect(s) \/ FreeSlot(s)
    PROVE  UNCHANGED presenceVars
<1> DEFINE Before == {"none", "refused", "accepted", "starting", "reading", "adding",
                      "listing", "answering", "notifying", "querying", "closing"}
           Ended == {"freeing", "lastListing", "lastNotifying", "done"}
<1>1. \E step \in Steps : /\ pc' = [pc EXCEPT ![s] = step]
                          /\ \/ pc[s] \in Before /\ step \in Before
                             \/ pc[s] \in Ended /\ step \in Ended
  BY DEF Refuse, Accept, Arrives, Identifies, LoginAccepted, SignUpAccepted, Identified,
         CanIdentify, LoginRefused, StartSession, TakeList, Answer, SendToAll, Disconnect,
         FreeSlot, Goes, Steps
<1>2. \A u \in Sessions : /\ u \in ClosedSessions' <=> u \in ClosedSessions
                          /\ u \in DeletedSessions' <=> u \in DeletedSessions
  BY <1>1 DEF ListInv, SessionsTypeOK, ClosedSessions, DeletedSessions
<1>3. CASE Identifies(s) /\ ~LoginRefused(s)
  <2>1. PICK n \in Names, r \in {"login", "signup"} : Identified(s, n, r)
    BY <1>3 DEF Identifies, LoginAccepted, SignUpAccepted
  <2>2. Listed' = Listed /\ \A o \in Listed : heap'[o] = heap[o]
    BY <2>1, ListIdentified
  <2>3. madeFor' = madeFor
    BY <2>1 DEF Identified
  <2> QED
    BY <1>2, <2>2, <2>3, EntriesKept, PresenceKept
<1>4. CASE UNCHANGED <<heap, madeFor, connected>>
  BY <1>2, <1>4, PresenceKept DEF Entries, Listed
<1> QED
  BY <1>3, <1>4 DEF Refuse, Accept, LoginRefused, StartSession, TakeList, Answer, SendToAll,
                    Disconnect, FreeSlot, Identifies, memoryVars

\* Add is Join, if there is room.
LEMMA PresenceAdd ==
    ASSUME ListInv, NEW s \in Sessions, Add(s)
    PROVE  (\E n \in Names : Connected!Join(s, n)) \/ UNCHANGED presenceVars
<1>1. /\ Given(s) \in Objects \ Listed /\ madeFor[Given(s)] = s
      /\ heap[Given(s)].name \in Names
      /\ IF HasRoom THEN Listed' = Listed \cup {Given(s)} ELSE Listed' = Listed
  BY ListAdd
<1>2. /\ pc[s] = "adding"
      /\ pc' = [pc EXCEPT ![s] = pc'[s]] /\ pc'[s] \in {"listing", "reading"}
      /\ UNCHANGED <<madeFor, heap>>
  BY DEF Add, Goes, ListInv, SessionsTypeOK
<1>3. \A u \in Sessions : /\ u \in ClosedSessions' <=> u \in ClosedSessions
                          /\ u \in DeletedSessions' <=> u \in DeletedSessions
  BY <1>2 DEF ListInv, SessionsTypeOK, ClosedSessions, DeletedSessions
<1>4. ClosedSessions' = ClosedSessions /\ DeletedSessions' = DeletedSessions
  BY <1>3 DEF ClosedSessions, DeletedSessions
<1>5. CASE ~HasRoom
  <2>1. Entries' = Entries
    BY <1>1, <1>2, <1>5 DEF Entries
  <2> QED
    BY <1>4, <2>1 DEF presenceVars
<1>6. CASE HasRoom
  <2>1. \A o \in Listed : madeFor[o] # s
    BY <1>1, ListedUsers
  <2>2. ~Connected!Present(s)
    BY <2>1, PresentIsListed
  <2>3. s \notin ClosedSessions
    BY <1>2 DEF ClosedSessions
  <2>4. Cardinality(Entries) < Capacity
    <3>1. Cardinality(Entries) <= Len(connected) /\ Len(connected) \in Nat
      BY EntriesBounded, EntryFacts
    <3>2. Cardinality(Entries) \in Nat
      BY EntriesBounded, FS_CardinalityType
    <3> QED
      BY <1>6, <3>1, <3>2, SessionsAssumption DEF HasRoom
  <2>5. Entries' = Entries \cup {[user |-> s, name |-> heap[Given(s)].name]}
    BY <1>1, <1>2, <1>6 DEF Entries
  <2>6. Connected!Join(s, heap[Given(s)].name)
    BY <1>4, <2>2, <2>3, <2>4, <2>5 DEF Connected!Join, Connected!Cardinality, Cardinality
  <2> QED
    BY <1>1, <2>6
<1> QED
  BY <1>5, <1>6

\* Closing the socket is Close.
LEMMA PresenceClose ==
    ASSUME ListInv, NEW s \in Sessions, CloseSocket(s)
    PROVE  Connected!Close(s)
<1>1. /\ pc[s] = "closing" /\ pc' = [pc EXCEPT ![s] = "deleting"]
      /\ UNCHANGED <<heap, madeFor, connected>>
  BY DEF CloseSocket, Goes
<1>2. ClosedSessions' = ClosedSessions \cup {s} /\ DeletedSessions' = DeletedSessions
  BY <1>1 DEF ListInv, SessionsTypeOK, ClosedSessions, DeletedSessions
<1>3. Entries' = Entries
  BY <1>1 DEF Entries, Listed
<1>4. s \notin ClosedSessions
  BY <1>1 DEF ClosedSessions
<1> QED
  BY <1>2, <1>3, <1>4 DEF Connected!Close

\* Delete is Leave: while the session's user is listed the entry it removes has its name.
LEMMA PresenceDelete ==
    ASSUME ListInv, NEW s \in Sessions, Delete(s)
    PROVE  Connected!Leave(s)
<1>1. pc[s] = "deleting" /\ pc' = [pc EXCEPT ![s] = "freeing"] /\ UNCHANGED madeFor
  BY DEF Delete, Goes
<1>2. /\ ClosedSessions' = ClosedSessions /\ DeletedSessions' = DeletedSessions \cup {s}
      /\ s \in ClosedSessions \ DeletedSessions
  BY <1>1 DEF ListInv, SessionsTypeOK, ClosedSessions, DeletedSessions
<1>3. \A o \in Listed : madeFor[o] = s => o = object[s]
  <2>1. s \in Threads
    BY <1>1 DEF Threads
  <2>2. object[s] = Given(s) /\ \A o \in Objects : madeFor[o] = s => o = Given(s)
    BY <1>1, <2>1 DEF ListInv, ListParts, ObjectsMade
  <2> QED
    BY <2>2, EntryFacts
<1>4. CASE /\ Listed' = Listed /\ heap' = heap
           /\ \A o \in Listed : heap[o].name # heap[object[s]].name
  <2>1. Entries' = Entries
    BY <1>1, <1>4 DEF Entries
  <2>2. \A o \in Listed : madeFor[o] # s
    BY <1>3, <1>4
  <2>3. ~Connected!Present(s)
    BY <2>2, PresentIsListed
  <2> QED
    BY <1>2, <2>1, <2>3 DEF Connected!Leave
<1>5. ASSUME NEW o \in Listed,
             /\ heap[o].name = heap[object[s]].name
             /\ Listed' = Listed \ {o}
             /\ \A p \in Objects \ {o} : heap'[p] = heap[p]
      PROVE  Connected!Leave(s)
  <2>1. EntryOf(o) \in Entries /\ EntryOf(o).name = heap[o].name
    BY DEF Entries, EntryOf
  <2>2. Entries' = Entries \ {EntryOf(o)}
    <3>1. \A p \in Listed \ {o} : EntryOf(p)' = EntryOf(p) /\ EntryOf(p) # EntryOf(o)
      <4>1. \A p \in Listed \ {o} : madeFor[p] # madeFor[o] /\ p \in Objects \ {o}
        BY ListedUsers, EntryFacts
      <4> QED
        BY <1>1, <1>5, <4>1 DEF EntryOf
    <3>2. Entries = {EntryOf(p) : p \in Listed} /\ Entries' = {EntryOf(p)' : p \in Listed'}
      BY DEF Entries, EntryOf
    <3> QED
      BY <1>5, <3>1, <3>2
  <2>3. Connected!Present(s) => [user |-> s, name |-> EntryOf(o).name] \in Entries
    <3>1. SUFFICES ASSUME Connected!Present(s)
                   PROVE  [user |-> s, name |-> heap[o].name] \in Entries
      BY <2>1
    <3>2. PICK p \in Listed : madeFor[p] = s
      BY <3>1, PresentIsListed
    <3>3. p = object[s]
      BY <1>3, <3>2
    <3> QED
      BY <1>5, <3>2, <3>3 DEF Entries
  <2> QED
    BY <1>2, <2>1, <2>2, <2>3 DEF Connected!Leave
<1> QED
  BY <1>4, <1>5, ListDelete

\* Every step of the sessions is a step of Presence or leaves it alone.
LEMMA PresenceStep ==
    ASSUME ListInv, [SessionsNext]_vars
    PROVE  [Connected!Next]_(Connected!vars)
<1>1. CASE UNCHANGED presenceVars
  BY <1>1 DEF presenceVars, Connected!vars
<1>2. ASSUME NEW s \in Sessions,
             Identifies(s) \/ Serves(s) \/ Disconnect(s) \/ Refuse(s) \/ Accept(s)
      PROVE  \/ (\E n \in Names : Connected!Join(s, n)) \/ Connected!Close(s)
             \/ Connected!Leave(s) \/ UNCHANGED presenceVars
  BY <1>2, PresenceServed, PresenceAdd, PresenceClose, PresenceDelete DEF Serves
<1>3. CASE StartThread \/ Sender \/ UNCHANGED vars
  BY <1>1, <1>3, PresenceOthers
<1> QED
  BY <1>1, <1>2, <1>3 DEF SessionsNext, Connected!Next

\* The connections keep what Presence promises, whoever logs in with whose name: users
\* come while there is room, and each connection that closes takes one user off the list
\* at most, of its own name while its own user is there.
THEOREM SessionsImplementPresence == SessionsSpec => PresenceSpec
<1>1. ListInv /\ [SessionsNext]_vars => [Connected!Next]_(Connected!vars)
  BY PresenceStep
<1> QED
  BY <1>1, ListAlways, PresenceInit, PTL DEF SessionsSpec, PresenceSpec, Connected!Spec
=============================================================================
