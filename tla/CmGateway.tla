----------------------------- MODULE CmGateway -----------------------------
(***************************************************************************)
(* The TCP gateway of a PlugNode: Services/PlugNode/CmGatewayLAN.cpp and   *)
(* CmGateway.cpp.                                                          *)
(*                                                                         *)
(* A listening thread accepts connections, senders open further ones, and  *)
(* each connection has a thread that waits for data.  All connections are  *)
(* on one list under one lock; who adds a connection first deletes those   *)
(* whose threads have finished.  The threads are those of CmParallelFTL,   *)
(* with the steps that matter to the list.  Peers connect, send and close  *)
(* as they like: what recv() and accept() return is any of it.             *)
(***************************************************************************)
EXTENDS Integers, FiniteSets, SequencesExt

CONSTANTS
    Sender,        \* threads that call sendInfoToGateway()
    PlugNode,      \* recipients of information; an info is what it names first
    FreshFlags,    \* what an uninitialised flag of a new object may hold
    MaxSockets,    \* bound on the sockets ever opened
    MaxInfos,      \* bound on the infos one recv() returns
    MaxTrials,     \* trials to connect
    None           \* INVALID_SOCKET, a NULL pointer, nobody

ASSUME GatewayAssumption ==
    /\ FreshFlags \subseteq BOOLEAN /\ FreshFlags # {}
    /\ {MaxSockets, MaxInfos, MaxTrials} \subseteq Nat
    /\ Sender \cap {"accept", "owner"} = {}
    /\ None \notin Sender \cup {"accept", "owner"}

VARIABLES
    lock,          \* who is inside GatewayConnectionLock
    list,          \* GatewayConnections
    conns,         \* the connections in the order of their creation
    isOpen,        \* for every socket in the order of their creation
    workers,       \* the threads that use the list
    clientSocket,  \* client_socket of the provider
    recipientUURI, \* RecipientUURI of the gateway
    isListening,   \* the listening socket is open
    isThreadShutdown            \* of the listening thread

list_vars   == <<lock, list, conns>>
gate_vars   == <<isListening, isThreadShutdown>>
vars == <<list_vars, isOpen, workers, clientSocket, gate_vars, recipientUURI>>

Worker == Sender \cup {"accept", "owner"}
Connection == DOMAIN conns

-----------------------------------------------------------------------------
(* State of the threads and of the sockets *)

At(w, place) == workers[w].at = place
GoTo(w, place) == workers' = [workers EXCEPT ![w].at = place]
ThreadAt(c, place) == conns[c].isAlive /\ conns[c].at = place
ThreadGoTo(c, place) == conns' = [conns EXCEPT ![c].at = place]
OnList == {list[i] : i \in DOMAIN list}

\* isRunningParallel() of a connection, as the others ask for it.
IsRunningParallel(c) ==
    /\ conns[c].hasHandle
    /\ conns[c].at # "exited"
    /\ ~conns[c].isFinished /\ ~conns[c].isPending

\* A thread without local variables: no function has been called, or all returned.
Idle == [at |-> "idle", conn |-> None, pos |-> 0, trials |-> 0, idle |-> {}, examined |-> None]
ReturnIdle(w) == workers' = [workers EXCEPT ![w] = Idle]

NextSocket == Len(isOpen) + 1
OpenNext == isOpen' = Append(isOpen, TRUE)
Close(s) == isOpen' = [i \in DOMAIN isOpen |-> isOpen[i] /\ i # s]

HasOpenSocket(c) == conns[c].socket # None /\ isOpen[conns[c].socket]

Init ==
    /\ lock = None /\ list = <<>> /\ conns = <<>> /\ isOpen = <<>>
    /\ workers = [w \in Worker |-> Idle]
    /\ clientSocket = None
    /\ recipientUURI = None
    /\ isListening = TRUE /\ isThreadShutdown = FALSE

-----------------------------------------------------------------------------
(* A new connection: constructor, startParallel(), addToGatewayConnectionList() *)

Fresh == [isAlive |-> TRUE, socket |-> None, at |-> "none", hasHandle |-> FALSE,
          isFinished |-> FALSE, isPending |-> FALSE, infos |-> <<>>]

\* Both flags are only asked together here: one value stands for either being set.
NewConnection(w, socket) ==
    /\ \E flag \in FreshFlags :
         conns' = Append(conns, [Fresh EXCEPT !.socket = socket, !.isFinished = flag, !.isPending = flag])
    /\ workers' = [workers EXCEPT ![w] = [Idle EXCEPT !.at = "create", !.conn = Len(conns) + 1]]

CreateThread(w) ==
    /\ At(w, "create")
    /\ ThreadGoTo(workers[w].conn, "begin")
    /\ GoTo(w, "store")
    /\ UNCHANGED <<lock, list, isOpen, clientSocket, gate_vars, recipientUURI>>

StoreHandle(w) ==
    /\ At(w, "store")
    /\ conns' = [conns EXCEPT ![workers[w].conn].hasHandle = TRUE]
    /\ GoTo(w, "enter")
    /\ UNCHANGED <<lock, list, isOpen, clientSocket, gate_vars, recipientUURI>>

\* cleanupGatewayConnections(): the list is walked under the lock.  History:
\* where the thread of a connection was when it was found not to be running.
EnterCleanup(w) ==
    /\ At(w, "enter")
    /\ lock = None
    /\ lock' = w
    /\ workers' = [workers EXCEPT ![w].at = "cleanup", ![w].pos = 1,
                                  ![w].idle = {c \in OnList : conns[c].at = "exited"}]
    /\ UNCHANGED <<list, conns, isOpen, clientSocket, gate_vars, recipientUURI>>

ExamineConnection(w) ==
    /\ At(w, "cleanup")
    /\ workers[w].pos <= Len(list)
    /\ LET c == list[workers[w].pos]
       IN  IF IsRunningParallel(c)
           THEN workers' = [workers EXCEPT ![w].pos = @ + 1]
           ELSE workers' = [workers EXCEPT ![w].at = "delete", ![w].examined = conns[c].at]
    /\ UNCHANGED <<list_vars, isOpen, clientSocket, gate_vars, recipientUURI>>

\* ~CmGatewayConnectionLAN(): the thread is not running, so that stopParallel()
\* closes its handle; should it have begun since it was examined, stopParallel()
\* waits first, and gives up.
Delete(c) ==
    /\ conns' = [conns EXCEPT ![c] = [Fresh EXCEPT !.isAlive = FALSE]]
    /\ Close(conns[c].socket)

\* Fault: the walk goes on behind the one that has followed the deleted one.
DeleteAndSkip(w) ==
    /\ At(w, "delete")
    /\ Delete(list[workers[w].pos])
    /\ list' = RemoveAt(list, workers[w].pos)
    /\ workers' = [workers EXCEPT ![w].at = "cleanup", ![w].pos = @ + 1, ![w].examined = None]
    /\ UNCHANGED <<lock, clientSocket, gate_vars, recipientUURI>>

\* Fault: the deleted connection stays on the list.
DeleteLinked(w) ==
    /\ At(w, "delete")
    /\ Delete(list[workers[w].pos])
    /\ workers' = [workers EXCEPT ![w].at = "cleanup", ![w].pos = @ + 1, ![w].examined = None]
    /\ UNCHANGED <<lock, list, clientSocket, gate_vars, recipientUURI>>

DeleteConnection(w) ==
    /\ At(w, "delete")
    /\ Delete(list[workers[w].pos])
    /\ list' = RemoveAt(list, workers[w].pos)
    /\ workers' = [workers EXCEPT ![w].at = "cleanup", ![w].examined = None]
    /\ UNCHANGED <<lock, clientSocket, gate_vars, recipientUURI>>

\* Fault: the lock is kept.
LeaveCleanupLocked(w) ==
    /\ At(w, "cleanup")
    /\ workers[w].pos > Len(list)
    /\ GoTo(w, IF w = "owner" THEN "gone" ELSE "add")
    /\ UNCHANGED <<list_vars, isOpen, clientSocket, gate_vars, recipientUURI>>

LeaveCleanup(w) ==
    /\ At(w, "cleanup")
    /\ workers[w].pos > Len(list)
    /\ lock' = None
    /\ GoTo(w, IF w = "owner" THEN "gone" ELSE "add")
    /\ UNCHANGED <<list, conns, isOpen, clientSocket, gate_vars, recipientUURI>>

\* The rest of addToGatewayConnectionList(), one step for nobody looks at the
\* list without the lock.  A sender then invalidates client_socket, which the
\* connection maintains from now on.
AddToList(w) ==
    /\ At(w, "add")
    /\ lock = None
    /\ list' = <<workers[w].conn>> \o list
    /\ clientSocket' = IF w \in Sender THEN None ELSE clientSocket
    /\ workers' = [workers EXCEPT ![w] = IF w \in Sender
                                         THEN [Idle EXCEPT !.at = "send", !.conn = workers[w].conn]
                                         ELSE Idle]
    /\ UNCHANGED <<lock, conns, isOpen, gate_vars, recipientUURI>>

KeepList(w) ==
    \/ CreateThread(w) \/ StoreHandle(w)
    \/ EnterCleanup(w) \/ ExamineConnection(w) \/ DeleteConnection(w) \/ LeaveCleanup(w)
    \/ AddToList(w)

-----------------------------------------------------------------------------
(* sendInfoToGateway() of the provider *)

StartSend(w) ==
    /\ At(w, "idle")
    /\ GoTo(w, "search")
    /\ UNCHANGED <<list_vars, isOpen, clientSocket, gate_vars, recipientUURI>>

EnterSearch(w) ==
    /\ At(w, "search")
    /\ lock = None
    /\ lock' = w
    /\ workers' = [workers EXCEPT ![w].at = "searching", ![w].pos = 1, ![w].trials = 0]
    /\ UNCHANGED <<list, conns, isOpen, clientSocket, gate_vars, recipientUURI>>

\* Nothing sets the RemoteAddr that isMatchingGatewayConnection() reads: it may
\* equal any address.
SearchStep(w) ==
    /\ At(w, "searching")
    /\ workers[w].pos <= Len(list)
    /\ \/ IsRunningParallel(list[workers[w].pos]) /\ GoTo(w, "sendLocked")
       \/ workers' = [workers EXCEPT ![w].pos = @ + 1]
    /\ UNCHANGED <<list_vars, isOpen, clientSocket, gate_vars, recipientUURI>>

NothingFound(w) ==
    /\ At(w, "searching")
    /\ workers[w].pos > Len(list)
    /\ lock' = None
    /\ GoTo(w, "open")
    /\ UNCHANGED <<list, conns, isOpen, clientSocket, gate_vars, recipientUURI>>

\* send() blocks while the peer does not read; it fails on a closed socket, and
\* a new connection is tried then.
SendLocked(w) ==
    /\ At(w, "sendLocked")
    /\ lock' = None
    /\ \/ GoTo(w, "open")
       \/ HasOpenSocket(list[workers[w].pos]) /\ ReturnIdle(w)
    /\ UNCHANGED <<list, conns, isOpen, clientSocket, gate_vars, recipientUURI>>

\* The socket is a member of the provider that all senders share.
OpenSocket(w) ==
    /\ At(w, "open")
    /\ Len(isOpen) < MaxSockets
    /\ OpenNext
    /\ clientSocket' = NextSocket
    /\ GoTo(w, "connect")
    /\ UNCHANGED <<list_vars, gate_vars, recipientUURI>>

OpenNone(w) ==
    /\ At(w, "open")
    /\ clientSocket' = None
    /\ ReturnIdle(w)
    /\ UNCHANGED <<list_vars, isOpen, gate_vars, recipientUURI>>

\* select() returns something else than 0: the socket is connected, or there
\* was an error, which is taken for the same.
Connect(w) ==
    /\ At(w, "connect")
    /\ NewConnection(w, clientSocket)
    /\ UNCHANGED <<lock, list, isOpen, clientSocket, gate_vars, recipientUURI>>

ConnectTimeout(w) ==
    /\ At(w, "connect")
    /\ Close(clientSocket)
    /\ clientSocket' = None
    /\ IF workers[w].trials > MaxTrials
       THEN ReturnIdle(w)
       ELSE workers' = [workers EXCEPT ![w].at = "open", ![w].trials = @ + 1]
    /\ UNCHANGED <<list_vars, gate_vars, recipientUURI>>

\* The info goes out over the new connection, which is on the list now, and
\* without the lock.
SendUnlocked(w) ==
    /\ At(w, "send")
    /\ ReturnIdle(w)
    /\ UNCHANGED <<list_vars, isOpen, clientSocket, gate_vars, recipientUURI>>

SendInfoToGateway(w) ==
    \/ EnterSearch(w) \/ SearchStep(w) \/ NothingFound(w)
    \/ OpenSocket(w) \/ OpenNone(w) \/ Connect(w) \/ ConnectTimeout(w)
    \/ SendUnlocked(w)

-----------------------------------------------------------------------------
(* The listening thread, and the destructor of the provider *)

Listen ==
    /\ At("accept", "idle")
    /\ GoTo("accept", IF isThreadShutdown THEN "exited" ELSE "accepting")
    /\ UNCHANGED <<list_vars, isOpen, clientSocket, gate_vars, recipientUURI>>

\* isShutdownGateway is still FALSE: the destructor of the base class sets it.
Accept ==
    /\ At("accept", "accepting")
    /\ isListening
    /\ Len(isOpen) < MaxSockets
    /\ OpenNext
    /\ NewConnection("accept", NextSocket)
    /\ UNCHANGED <<lock, list, clientSocket, gate_vars, recipientUURI>>

AcceptFails ==
    /\ At("accept", "accepting")
    /\ ~isListening
    /\ GoTo("accept", "exited")
    /\ UNCHANGED <<list_vars, isOpen, clientSocket, gate_vars, recipientUURI>>

Shutdown ==
    /\ At("owner", "idle")
    /\ isThreadShutdown' = TRUE
    /\ GoTo("owner", "stop")
    /\ UNCHANGED <<list_vars, isOpen, clientSocket, isListening, recipientUURI>>

\* stopParallel() has returned, because the thread has exited or by timeout:
\* accept() does not return before its socket is closed.
CloseSockets ==
    /\ At("owner", "stop")
    /\ Close(clientSocket)
    /\ isListening' = FALSE
    /\ GoTo("owner", "enter")
    /\ UNCHANGED <<list_vars, clientSocket, isThreadShutdown, recipientUURI>>

-----------------------------------------------------------------------------
(* The thread of a connection: StaticThreadStart() and receiveData() *)

Begin(c) ==
    /\ ThreadAt(c, "begin")
    /\ conns' = [conns EXCEPT ![c].at = "loop", ![c].isFinished = FALSE, ![c].isPending = FALSE]
    /\ UNCHANGED <<lock, list, isOpen, workers, clientSocket, gate_vars, recipientUURI>>

\* Fault: the thread takes "pending" for "waits in a call".
LoopPending(c) ==
    /\ ThreadAt(c, "loop")
    /\ conns' = IF conns[c].hasHandle
                THEN [conns EXCEPT ![c].at = "recv", ![c].isPending = TRUE]
                ELSE [conns EXCEPT ![c].at = "return", ![c].isFinished = TRUE]
    /\ UNCHANGED <<lock, list, isOpen, workers, clientSocket, gate_vars, recipientUURI>>

\* A thread whose handle is not stored yet takes itself for stopped.
Loop(c) ==
    /\ ThreadAt(c, "loop")
    /\ conns' = IF conns[c].hasHandle
                THEN [conns EXCEPT ![c].at = "recv"]
                ELSE [conns EXCEPT ![c].at = "return", ![c].isFinished = TRUE]
    /\ UNCHANGED <<lock, list, isOpen, workers, clientSocket, gate_vars, recipientUURI>>

\* recv() returns what has arrived so far, which may come from several sends.
Recv(c) ==
    /\ ThreadAt(c, "recv")
    /\ HasOpenSocket(c)
    /\ \E infos \in BoundedSeq(PlugNode, MaxInfos) \ {<<>>} :
         conns' = [conns EXCEPT ![c].at = "identify", ![c].infos = infos]
    /\ UNCHANGED <<lock, list, isOpen, workers, clientSocket, gate_vars, recipientUURI>>

\* The peer has finished, or the socket is closed or reset.
Fail(c) ==
    /\ ThreadAt(c, "recv")
    /\ conns' = [conns EXCEPT ![c].at = "return", ![c].isPending = TRUE]
    /\ UNCHANGED <<lock, list, isOpen, workers, clientSocket, gate_vars, recipientUURI>>

\* processInformation() of the gateway that all connections share.
GetIdentifier(c) ==
    /\ ThreadAt(c, "identify")
    /\ recipientUURI' = conns[c].infos[1]
    /\ ThreadGoTo(c, "forward")
    /\ UNCHANGED <<lock, list, isOpen, workers, clientSocket, gate_vars>>

\* To the PlugNode that RecipientUURI names now.
Forward(c) ==
    /\ ThreadAt(c, "forward")
    /\ conns' = [conns EXCEPT ![c].at = "loop", ![c].infos = <<>>]
    /\ UNCHANGED <<lock, list, isOpen, workers, clientSocket, gate_vars, recipientUURI>>

Return(c) ==
    /\ ThreadAt(c, "return")
    /\ ThreadGoTo(c, "exited")
    /\ UNCHANGED <<lock, list, isOpen, workers, clientSocket, gate_vars, recipientUURI>>

RunParallel(c) ==
    \/ Begin(c) \/ Loop(c) \/ Recv(c) \/ Fail(c)
    \/ GetIdentifier(c) \/ Forward(c) \/ Return(c)

Next ==
    \/ \E w \in Worker : KeepList(w)
    \/ \E w \in Sender : StartSend(w) \/ SendInfoToGateway(w) \/ SendLocked(w)
    \/ Listen \/ Accept \/ AcceptFails \/ Shutdown \/ CloseSockets
    \/ \E c \in Connection : RunParallel(c)

\* A thread that can go on does, unless it waits for a peer in send().
GoOn(w) == KeepList(w) \/ (w \in Sender /\ SendInfoToGateway(w))

Spec == Init /\ [][Next]_vars /\ \A w \in Worker : WF_vars(GoOn(w))

-----------------------------------------------------------------------------
(* Properties *)

ThreadPlace == {"none", "begin", "loop", "recv", "identify", "forward", "return", "exited"}

ConnectionType ==
    [isAlive : BOOLEAN, socket : DOMAIN isOpen \cup {None}, at : ThreadPlace, hasHandle : BOOLEAN,
     isFinished : BOOLEAN, isPending : BOOLEAN, infos : Seq(PlugNode)]

WorkerPlace ==
    {"idle", "search", "searching", "sendLocked", "open", "connect", "send",
     "create", "store", "enter", "cleanup", "delete", "add",
     "accepting", "exited", "stop", "gone"}

WorkerType ==
    [at : WorkerPlace, conn : Connection \cup {None}, pos : Nat, trials : 0 .. MaxTrials + 1,
     idle : SUBSET Connection, examined : ThreadPlace \cup {None}]

TypeOK ==
    /\ lock \in Worker \cup {None}
    /\ list \in Seq(Connection)
    /\ conns \in Seq(ConnectionType)
    /\ workers \in [Worker -> WorkerType]
    /\ isOpen \in Seq(BOOLEAN)
    /\ clientSocket \in DOMAIN isOpen \cup {None}
    /\ recipientUURI \in PlugNode \cup {None}
    /\ isListening \in BOOLEAN /\ isThreadShutdown \in BOOLEAN

\* Whatever the threads do meanwhile, the list holds living connections only,
\* each once, and whoever walks it stays on it: the walk of
\* cleanupGatewayConnections() deletes what it stands on (CmGateway.cpp:242-254).
ListAlive ==
    /\ \A i \in DOMAIN list : conns[list[i]].isAlive
    /\ \A i, j \in DOMAIN list : list[i] = list[j] => i = j
    /\ \A w \in Worker : workers[w].at \in {"delete", "sendLocked"} =>
         lock = w /\ workers[w].pos \in DOMAIN list

\* "Gateway connections will be removed if they have finished."
\* (CmGateway.h:165): no connection is given up whose thread is at work.  It may
\* be given up before its thread has begun: until then the flags hold what was
\* in the memory.
RemovedOnlyIfFinished ==
    \A w \in Worker : workers[w].examined \in {None, "begin", "return", "exited"}

\* The other direction: what had finished when the cleanup began is not on the
\* list any more when the new connection is added, or the gateway is gone.
IdleRemoved == \A w \in Worker : At(w, "add") \/ At(w, "gone") => workers[w].idle \cap OnList = {}

\* Who walks the list holds the lock and stands on an element or behind the
\* last one.
Inside(w) == workers[w].at \in {"cleanup", "delete", "searching", "sendLocked"}

WalkersLocked ==
    \A w \in Worker : Inside(w) =>
        /\ lock = w
        /\ workers[w].pos \in 1 .. Len(list) + 1
        /\ workers[w].at \in {"delete", "sendLocked"} => workers[w].pos <= Len(list)

\* From its constructor until it is on the list, a connection belongs to the
\* thread that has created it.  The destructor of the provider creates none.
Owns(w) == w # "owner" /\ workers[w].at \in {"create", "store", "enter", "cleanup", "delete", "add"}

OwnedOnce ==
    \A w \in Worker : Owns(w) =>
        LET c == workers[w].conn
        IN  /\ c \in Connection /\ conns[c].isAlive
            /\ \A i \in 1 .. Len(list) : list[i] # c
            /\ \A v \in Worker : Owns(v) /\ v # w => workers[v].conn # c
            /\ \A v \in Worker : c \notin workers[v].idle
            /\ workers[w].at # "create" => conns[c].at # "none"
            /\ workers[w].at \notin {"create", "store"} => conns[c].hasHandle

OwnerCreatesNone == workers["owner"].at \in {"idle", "stop", "enter", "cleanup", "delete", "gone"}

\* A connection on the list is alive, on it once, and its thread was created.
Listed ==
    /\ \A i \in 1 .. Len(list) :
         conns[list[i]].isAlive /\ conns[list[i]].hasHandle /\ conns[list[i]].at # "none"
    /\ \A i, j \in 1 .. Len(list) : list[i] = list[j] => i = j

\* A thread at work has reset its flags, and one about to identify has infos.
FlagsReset ==
    \A c \in Connection :
        /\ conns[c].at \in {"loop", "recv", "identify", "forward"} =>
             ~conns[c].isFinished /\ ~conns[c].isPending
        /\ conns[c].at = "identify" => conns[c].infos # <<>>

\* What had finished when the walk began is still finished, and not behind it.
IdleAhead ==
    \A w \in Worker :
        /\ workers[w].at \in {"cleanup", "delete"} =>
             \A i \in 1 .. Len(list) : list[i] \in workers[w].idle =>
                 i >= workers[w].pos /\ conns[list[i]].at = "exited"
        /\ workers[w].at \in {"add", "gone"} =>
             \A i \in 1 .. Len(list) : list[i] \notin workers[w].idle

\* The inductive invariant, for any number of senders and connections.
GatewayInv ==
    /\ TypeOK /\ WalkersLocked /\ OwnedOnce /\ OwnerCreatesNone
    /\ Listed /\ FlagsReset /\ IdleAhead /\ RemovedOnlyIfFinished

\* The lock of the list is given back, unless its owner waits for a peer.
LockFreed == lock # None ~> lock = None \/ \E w \in Sender : At(w, "sendLocked")

\* "An information item will be analyzed and forwarded to the respective
\* recipient." (CmGateway.h:113): here an info that recv() returned alone.
ForwardedToAddressee ==
    [][\A c \in Connection :
         ThreadAt(c, "forward") /\ Len(conns[c].infos) = 1 /\ conns'[c].at = "loop"
             => recipientUURI = conns[c].infos[1]]_vars
=============================================================================
