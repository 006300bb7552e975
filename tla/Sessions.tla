------------------------------ MODULE Sessions ------------------------------
(***************************************************************************)
(* The life of a connection in src/server: the accept loop of main with    *)
(* its array threadArgs, the login, sign-up and end of a session in        *)
(* attendClient, the list of connected users (connected_list.c) and the    *)
(* thread that broadcasts the list (globalSender, sendToAll).              *)
(*                                                                         *)
(* A session is one connection and the thread that serves it.  A step is   *)
(* what happens between two points where another thread can come in: the   *)
(* mutexes of the list and of threadArgs are taken and released inside one *)
(* step; the mutex of the sender is held across steps and so has a state.  *)
(* Memory and file descriptors that were freed are given out again, memory *)
(* with what it held before or with what the allocator wrote there.        *)
(* Nothing keeps a name from being logged in twice, and a disconnection    *)
(* removes by name: it may free the object of another user's session.      *)
(***************************************************************************)
EXTENDS Integers, Sequences, FiniteSets

CONSTANTS Sessions,
          Capacity,     \* CNCTD_LST_LENGTH: of threadArgs and of the list
          Names,        \* user names
          Objects,      \* addresses of ConnectedUser objects
          Sockets,      \* file descriptors
          Watched,      \* bound: the sessions whose received lists are recorded
          NoName,       \* any text in memory that is nobody's name
          NULL

ASSUME SessionsAssumption == /\ Capacity \in Nat \ {0}
                             /\ IsFiniteSet(Sessions) /\ Sessions \subseteq Nat
                             /\ Watched \subseteq Sessions
                             /\ Sockets \subseteq Nat /\ Objects \subseteq Nat
                             /\ NoName \notin Names
                             /\ NULL \notin Nat

Slots == 0 .. Capacity - 1

VARIABLES
    \* The accept loop: the connection it is about to give a thread, or NULL.
    accepting,     \* the session
    freeSlot,      \* its index in threadArgs
    newSocket,     \* its socket
    \* Shared memory.
    threadArgs,    \* per slot, connectedUser
    heap,          \* per address, the name and the socket of the object
    allocated,     \* the addresses in use
    madeFor,       \* history: per address, the session its last object was made for
    connected,     \* ConnectedList.connected, with number as its length
    owner,         \* per open socket, the session at its other end
    \* The sessions.
    pc,
    slot,          \* the element of threadArgs given to the thread
    object,        \* the local connectedUser
    socket,        \* the local sock_conn
    request,       \* the request being served
    list,          \* the names in the local listJson
    \* The global sender.
    senderPc,
    globalResponse,
    targets,       \* the part of activeSocketList still to be written to
    \* The clients: the last answer and the last list each has received.
    answer,
    shown

mainVars    == <<accepting, freeSlot, newSocket>>
memoryVars  == <<threadArgs, heap, allocated, madeFor, connected, owner>>
sessionVars == <<pc, slot, object, socket, request, list>>
senderVars  == <<senderPc, globalResponse, targets>>
clientVars  == <<answer, shown>>
vars == <<mainVars, memoryVars, sessionVars, senderVars, clientVars>>

\* The steps of a session, from its thread's first to its last.
Steps == {"none", "refused", "accepted", "starting", "reading", "adding", "listing",
          "answering", "notifying", "querying", "closing", "deleting", "freeing",
          "lastListing", "lastNotifying", "done"}

SessionsTypeOK ==
    /\ accepting \in Sessions \cup {NULL}
    /\ freeSlot \in Slots
    /\ newSocket \in Sockets \cup {NULL}
    /\ threadArgs \in [Slots -> Objects \cup {NULL}]
    /\ heap \in [Objects -> [name : Names \cup {NoName}, socket : Sockets \cup {NULL}]]
    /\ allocated \subseteq Objects
    /\ madeFor \in [Objects -> Sessions \cup {NULL}]
    /\ connected \in Seq(Objects) /\ Len(connected) <= Capacity
    /\ owner \in [Sockets -> Sessions \cup {NULL}]
    /\ pc \in [Sessions -> Steps]
    /\ slot \in [Sessions -> Slots]
    /\ object \in [Sessions -> Objects \cup {NULL}]
    /\ socket \in [Sessions -> Sockets \cup {NULL}]
    /\ request \in [Sessions -> {"none", "login", "signup"}]
    /\ list \in [Sessions -> SUBSET (Names \cup {NoName})]
    /\ senderPc \in {"looping", "waiting", "woken", "writing"}
    /\ globalResponse \in SUBSET (Names \cup {NoName})
    /\ targets \in Seq(Sockets)
    /\ answer \in [Sessions -> {"none", "OK", "FAIL", "FULL"}]
    /\ shown \in [Sessions -> {NULL} \cup SUBSET (Names \cup {NoName})]

SessionsInit ==
    /\ accepting = NULL
    /\ freeSlot = 0
    /\ newSocket = NULL
    /\ threadArgs = [i \in Slots |-> NULL]
    /\ heap = [o \in Objects |-> [name |-> NoName, socket |-> NULL]]
    /\ allocated = {}
    /\ madeFor = [o \in Objects |-> NULL]
    /\ connected = <<>>
    /\ owner = [k \in Sockets |-> NULL]
    /\ pc = [s \in Sessions |-> "none"]
    /\ slot = [s \in Sessions |-> 0]
    /\ object = [s \in Sessions |-> NULL]
    /\ socket = [s \in Sessions |-> NULL]
    /\ request = [s \in Sessions |-> "none"]
    /\ list = [s \in Sessions |-> {}]
    /\ senderPc = "looping"
    /\ globalResponse = {}
    /\ targets = <<>>
    /\ answer = [s \in Sessions |-> "none"]
    /\ shown = [s \in Sessions |-> NULL]

-----------------------------------------------------------------------------
(***************************************************************************)
(* connected_list.c.  Each function is one critical section.               *)
(***************************************************************************)

Listed == {connected[i] : i \in DOMAIN connected}

\* The names connectedListToJson writes, if a client's lists are recorded.
ListedNames == {heap[o].name : o \in Listed}
Text == IF Watched = {} THEN {} ELSE ListedNames

\* AddConnected fails on a full list.
HasRoom == Len(connected) < Capacity

\* Faulty variant: the search stops at the last entry, whatever its name.
LastEntry(n, i) == i = Len(connected) /\ i # 0

\* The first entry with this name, which is the one DelConnectedByName frees.
FirstNamed(n, i) == /\ i \in DOMAIN connected
                    /\ heap[connected[i]].name = n
                    /\ \A j \in 1 .. i - 1 : heap[connected[j]].name # n

\* Faulty variant: the entries are shifted from the next place on.
ShiftedTooFar(i) == [j \in 1 .. Len(connected) - 1 |->
                        IF j <= i THEN connected[j] ELSE connected[j + 1]]

Shifted(i) == [j \in 1 .. Len(connected) - 1 |->
                  IF j < i THEN connected[j] ELSE connected[j + 1]]

\* free gives the address back; the name stays or is overwritten.  The socket, which NULL
\* marks as not to be read, is written before it is read again.
Free(o) == /\ allocated' = allocated \ {o}
           /\ \E n \in {heap[o].name, NoName} :
                 heap' = [heap EXCEPT ![o] = [name |-> n, socket |-> NULL]]

\* Faulty variant: the object is freed and the entry stays.
FreedOnly(n) ==
    \/ \E i \in DOMAIN connected : /\ FirstNamed(n, i)
                                  /\ UNCHANGED connected
                                  /\ Free(connected[i])
    \/ /\ \A i \in DOMAIN connected : heap[connected[i]].name # n
       /\ UNCHANGED <<connected, allocated, heap>>

DelConnectedByName(n) ==
    \/ \E i \in DOMAIN connected :
          /\ FirstNamed(n, i)
          /\ connected' = Shifted(i)
          /\ Free(connected[i])
    \/ /\ \A i \in DOMAIN connected : heap[connected[i]].name # n
       /\ UNCHANGED <<connected, allocated, heap>>

-----------------------------------------------------------------------------
(***************************************************************************)
(* The accept loop.                                                        *)
(***************************************************************************)

\* Connections are numbered in the order they are accepted.
Arrives(s) == /\ accepting = NULL /\ pc[s] = "none"
              /\ \A t \in Sessions : pc[t] = "none" => s <= t

\* Faulty variant: the slot of a user who has not logged in yet counts as free.
BusyListed == {i \in Slots : threadArgs[i] \in Listed}

Busy == {i \in Slots : threadArgs[i] # NULL}

\* The loop refuses by the number of users in the list, then for want of a slot.
Refuse(s) ==
    /\ Arrives(s)
    /\ ~HasRoom \/ Busy = Slots
    /\ pc' = [pc EXCEPT ![s] = "refused"]
    /\ answer' = [answer EXCEPT ![s] = "FULL"]
    /\ UNCHANGED <<mainVars, memoryVars, slot, object, socket, request, list,
                   senderVars, shown>>

\* A slot is found and OK is written, the mutex being released in between.
Accept(s) ==
    /\ Arrives(s)
    /\ HasRoom /\ Busy # Slots
    /\ \E k \in Sockets : /\ owner[k] = NULL
                          /\ \A j \in Sockets : j < k => owner[j] # NULL
                          /\ newSocket' = k
                          /\ owner' = [owner EXCEPT ![k] = s]
    /\ accepting' = s
    /\ \E i \in Slots \ Busy : /\ \A j \in Slots \ Busy : i <= j
                             /\ freeSlot' = i
    /\ pc' = [pc EXCEPT ![s] = "accepted"]
    /\ UNCHANGED <<threadArgs, heap, allocated, madeFor, connected, slot, object, socket,
                   request, list, senderVars, clientVars>>

\* What malloc may return: an address that was freed or, standing for all that were never
\* used and are alike, the first of these.
Available == {o \in Objects \ allocated :
                 madeFor[o] = NULL => \A p \in Objects : madeFor[p] = NULL => o <= p}

\* The object of the connection is created, its name left as the memory is, and its
\* thread started.
StartThread ==
    \E o \in Available :
       /\ accepting # NULL
       /\ allocated' = allocated \cup {o}
       /\ madeFor' = [madeFor EXCEPT ![o] = accepting]
       /\ heap' = [heap EXCEPT ![o] = [@ EXCEPT !.socket = newSocket]]
       /\ threadArgs' = [threadArgs EXCEPT ![freeSlot] = o]
       /\ slot' = [slot EXCEPT ![accepting] = freeSlot]
       /\ pc' = [pc EXCEPT ![accepting] = "starting"]
       /\ accepting' = NULL
       /\ newSocket' = NULL
       /\ freeSlot' = 0
       /\ UNCHANGED <<connected, owner, object, socket, request, list, senderVars,
                      clientVars>>

-----------------------------------------------------------------------------
(***************************************************************************)
(* A session.                                                              *)
(***************************************************************************)

Goes(s, step) == pc' = [pc EXCEPT ![s] = step]

StartSession(s) ==
    /\ pc[s] = "starting"
    /\ object' = [object EXCEPT ![s] = threadArgs[slot[s]]]
    /\ socket' = [socket EXCEPT ![s] = heap[threadArgs[slot[s]]].socket]
    /\ Goes(s, "reading")
    /\ UNCHANGED <<mainVars, memoryVars, slot, request, list, senderVars, clientVars>>

\* The client logs in once: the menu that sends the request closes on success.
CanIdentify(s) == pc[s] = "reading" /\ answer[s] # "OK"

\* The database accepts a login, of whoever else uses the name, or makes a new user; the
\* object gets the name.
Identified(s, n, r) ==
    /\ CanIdentify(s)
    /\ heap' = [heap EXCEPT ![object[s]] = [@ EXCEPT !.name = n]]
    /\ request' = [request EXCEPT ![s] = r]
    /\ Goes(s, "adding")
    /\ UNCHANGED <<mainVars, threadArgs, allocated, madeFor, connected, owner, slot, object,
                   socket, list, senderVars, clientVars>>

LoginAccepted(s, n)  == Identified(s, n, "login")
SignUpAccepted(s, n) == Identified(s, n, "signup")

\* A wrong password ends the session; a sign-up with a name that exists does not, and
\* leaves everything as it was.
LoginRefused(s) ==
    /\ CanIdentify(s)
    /\ answer' = [answer EXCEPT ![s] = "FAIL"]
    /\ Goes(s, "closing")
    /\ UNCHANGED <<mainVars, memoryVars, slot, object, socket, request, list, senderVars, shown>>

\* AddConnected; a sign-up does not look at its result.
Add(s) ==
    /\ pc[s] = "adding"
    /\ IF HasRoom
       THEN /\ connected' = Append(connected, object[s])
            /\ Goes(s, "listing")
            /\ UNCHANGED answer
       ELSE /\ UNCHANGED connected
            /\ IF request[s] = "signup"
               THEN Goes(s, "listing") /\ UNCHANGED answer
               ELSE Goes(s, "reading") /\ answer' = [answer EXCEPT ![s] = "FAIL"]
    /\ request' = [request EXCEPT ![s] = "none"]
    /\ UNCHANGED <<mainVars, threadArgs, heap, allocated, madeFor, owner, slot, object,
                   socket, list, senderVars, shown>>

\* connectedListToJson: after a login, for request 6, and after the end.
TakeList(s) ==
    /\ list' = [list EXCEPT ![s] = Text]
    /\ \/ pc[s] = "listing" /\ Goes(s, "answering")
       \/ pc[s] = "reading" /\ answer[s] = "OK" /\ s \in Watched /\ Goes(s, "querying")
       \/ pc[s] = "lastListing" /\ Goes(s, "lastNotifying")
    /\ UNCHANGED <<mainVars, memoryVars, slot, object, socket, request, senderVars, clientVars>>

\* The answer to the request, written to whoever is at the other end.
Answer(s) ==
    /\ \/ /\ pc[s] = "answering" /\ Goes(s, "notifying")
          /\ answer' = [answer EXCEPT ![s] = "OK"]
          /\ UNCHANGED shown
       \/ /\ pc[s] = "querying" /\ Goes(s, "reading")
          /\ shown' = [shown EXCEPT ![s] = list[s]]
          /\ UNCHANGED answer
    /\ list' = IF pc[s] = "querying" THEN [list EXCEPT ![s] = {}] ELSE list
    /\ UNCHANGED <<mainVars, memoryVars, slot, object, socket, request, senderVars>>

\* sendToAll: the text of a broadcast not yet sent is replaced, and the signal is
\* lost on a sender that is not waiting.
SendToAll(s) ==
    /\ senderPc # "writing"
    /\ globalResponse' = list[s]
    /\ senderPc' = IF senderPc = "waiting" THEN "woken" ELSE senderPc
    /\ list' = [list EXCEPT ![s] = {}]
    /\ \/ pc[s] = "notifying" /\ Goes(s, "reading")
       \/ pc[s] = "lastNotifying" /\ Goes(s, "done")
    /\ UNCHANGED <<mainVars, memoryVars, slot, object, socket, request, targets, clientVars>>

\* Request 0, or the connection broke.
Disconnect(s) ==
    /\ pc[s] = "reading"
    /\ Goes(s, "closing")
    /\ UNCHANGED <<mainVars, memoryVars, slot, object, socket, request, list, senderVars,
                   clientVars>>

CloseSocket(s) ==
    /\ pc[s] = "closing"
    /\ owner' = [owner EXCEPT ![socket[s]] = NULL]
    /\ shown' = [shown EXCEPT ![s] = NULL]
    /\ answer' = [answer EXCEPT ![s] = "none"]
    /\ Goes(s, "deleting")
    /\ UNCHANGED <<mainVars, threadArgs, heap, allocated, madeFor, connected, slot, object,
                   socket, request, list, senderVars>>

\* The name is read in the object, freed or not, written or not.
Delete(s) ==
    /\ pc[s] = "deleting"
    /\ DelConnectedByName(heap[object[s]].name)
    /\ Goes(s, "freeing")
    /\ UNCHANGED <<mainVars, threadArgs, madeFor, owner, slot, object, socket, request, list,
                   senderVars, clientVars>>

\* The locals reset here are not read again.  Nobody frees the object of a user who
\* never got into the list.
FreeSlot(s) ==
    /\ pc[s] = "freeing"
    /\ threadArgs' = [threadArgs EXCEPT ![slot[s]] = NULL]
    /\ slot' = [slot EXCEPT ![s] = 0]
    /\ object' = [object EXCEPT ![s] = NULL]
    /\ socket' = [socket EXCEPT ![s] = NULL]
    /\ Goes(s, "lastListing")
    /\ UNCHANGED <<mainVars, heap, allocated, madeFor, connected, owner, request, list,
                   senderVars, clientVars>>

-----------------------------------------------------------------------------
(***************************************************************************)
(* The global sender.                                                      *)
(***************************************************************************)

\* The mutex is given back and taken again, then pthread_cond_wait gives it back.
SenderWait ==
    /\ senderPc = "looping"
    /\ senderPc' = "waiting"
    /\ UNCHANGED <<mainVars, memoryVars, sessionVars, globalResponse, targets, clientVars>>

\* The wait returns with the mutex; the sockets are copied from the list.
SenderSnapshot ==
    /\ senderPc = "woken"
    /\ senderPc' = "writing"
    /\ targets' = [i \in DOMAIN connected |-> heap[connected[i]].socket]
    /\ UNCHANGED <<mainVars, memoryVars, sessionVars, globalResponse, clientVars>>

\* A descriptor closed since is nobody's, or another client's.
SenderWrite ==
    /\ senderPc = "writing" /\ targets # <<>>
    /\ targets' = Tail(targets)
    /\ shown' = [s \in Sessions |-> IF s \in Watched /\ owner[Head(targets)] = s
                                    THEN globalResponse
                                    ELSE shown[s]]
    /\ UNCHANGED <<mainVars, memoryVars, sessionVars, senderPc, globalResponse, answer>>

\* Faulty variant: what was sent is sent again.
SendsAgain ==
    /\ senderPc = "writing" /\ targets = <<>>
    /\ senderPc' = "woken"
    /\ UNCHANGED <<mainVars, memoryVars, sessionVars, globalResponse, targets, clientVars>>

\* The text that was sent is not looked at again.
SenderDone ==
    /\ senderPc = "writing" /\ targets = <<>>
    /\ senderPc' = "looping"
    /\ globalResponse' = {}
    /\ UNCHANGED <<mainVars, memoryVars, sessionVars, targets, clientVars>>

-----------------------------------------------------------------------------
Serves(s) == \/ StartSession(s) \/ Add(s) \/ TakeList(s) \/ Answer(s) \/ SendToAll(s)
             \/ CloseSocket(s) \/ Delete(s) \/ FreeSlot(s)

Identifies(s) == \/ \E n \in Names : LoginAccepted(s, n) \/ SignUpAccepted(s, n)
                 \/ LoginRefused(s)

Sender == SenderWait \/ SenderSnapshot \/ SenderWrite \/ SenderDone

SessionsNext ==
    \/ StartThread
    \/ Sender
    \/ \E s \in Sessions : \/ Refuse(s) \/ Accept(s) \/ Identifies(s) \/ Serves(s)
                           \/ Disconnect(s)

SessionsSpec == SessionsInit /\ [][SessionsNext]_vars

\* While a thread of the server can go on, one of them does; what a client does is its own
\* affair.  Fairness to each thread, which the machine gives, is not needed: what others
\* ask for while one waits ends, as a client logs in once.
SessionsFairSpec ==
    /\ SessionsSpec
    /\ WF_vars(StartThread \/ Sender \/ \E s \in Sessions : pc[s] # "reading" /\ Serves(s))

-----------------------------------------------------------------------------
(***************************************************************************)
(* Properties.                                                             *)
(***************************************************************************)

\* The sessions whose thread uses its slot.
Threads == {s \in Sessions : pc[s] \notin {"none", "refused", "accepted", "lastListing",
                                           "lastNotifying", "done"}}

\* Every occupied slot of threadArgs belongs to one running thread and every running
\* thread has its own, although slots are freed before their threads have ended: the
\* accept loop never starts a thread on the arguments of another.
SlotsMatchThreads ==
    /\ \A s \in Threads : threadArgs[slot[s]] # NULL
    /\ \A s, t \in Threads : slot[s] = slot[t] => s = t
    /\ \A i \in Busy : \E s \in Threads : slot[s] = i

\* The list holds no freed object and none twice, although a disconnection may free the
\* object of another session (of the same name, or of any name once its own object was
\* freed under it) and addresses are used again: connectedListToJson and the sender never
\* follow a dangling pointer, and no object is freed twice.
EntriesAlive ==
    /\ \A i, j \in DOMAIN connected : connected[i] = connected[j] => i = j
    /\ Listed \subseteq allocated

\* The login writes the name without the mutex of the list ("user encara no en forma
\* part", main.c:800): until then the object of a connection is allocated, made for it and
\* not in the list, whatever the disconnections of others free.
LoginWritesOwn ==
    \A s \in Sessions : CanIdentify(s) =>
        /\ object[s] \in allocated \ Listed
        /\ madeFor[object[s]] = s

\* The list and its additions and removals are what Presence promises.  An entry is of
\* the session its object was made for.
Entries == {[user |-> madeFor[o], name |-> heap[o].name] : o \in Listed}
ClosedSessions == {s \in Sessions : pc[s] \in {"deleting", "freeing", "lastListing",
                                               "lastNotifying", "done"}}
DeletedSessions == {s \in ClosedSessions : pc[s] # "deleting"}
Connected == INSTANCE Presence
    WITH Users <- Sessions, shown <- Entries,
         closed <- ClosedSessions, left <- DeletedSessions
PresenceSpec == Connected!Spec

\* A session that ends gives back its slot and is over, and one that was identified is
\* answered: nothing in the sender's mutex or in the list can stop it for ever.
SessionsEnd == <>[](\A s \in Sessions : pc[s] \in {"none", "refused", "reading", "done"})

\* A disconnection takes its own user off the list.  It fails: of two sessions with one
\* name the first to leave removes and frees the object of whichever was listed first.
RemovesItsOwn ==
    [][\A s \in Sessions : Delete(s) => \A o \in Listed \ Listed' : madeFor[o] = s]_vars

\* "si modifiquem la llista, cal enviar la nova llista de forma global" (main.c:815,
\* 865, 1753): once nobody comes or goes, every connected user is shown the list.  It
\* fails: a signal that arrives while the sender writes is lost.
ListReachesAll ==
    []<>(\A s \in {e.user : e \in Entries} : answer[s] = "OK" => shown[s] = ListedNames)
        \/ []<><<\E s \in Sessions : Accept(s) \/ Identifies(s) \/ Disconnect(s)>>_vars

=============================================================================
