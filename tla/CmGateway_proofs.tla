-------------------------- MODULE CmGateway_proofs --------------------------
(***************************************************************************)
(* The list of connections of the gateway, for every number of senders,    *)
(* sockets and infos: it holds living connections only, each once, and the *)
(* cleanup removes those that have finished and no other.                  *)
(***************************************************************************)
EXTENDS CmGateway, SequenceTheorems, TLAPS

USE GatewayAssumption

-----------------------------------------------------------------------------
(* Sequences *)

\* RemoveAt() closes the gap: what was in front stays, the rest moves up.
LEMMA RemoveAtProperties ==
    ASSUME NEW S, NEW s \in Seq(S), NEW k \in 1 .. Len(s)
    PROVE  /\ RemoveAt(s, k) \in Seq(S)
           /\ Len(RemoveAt(s, k)) = Len(s) - 1
           /\ \A i \in 1 .. Len(s) - 1 : RemoveAt(s, k)[i] = IF i < k THEN s[i] ELSE s[i + 1]
<1> DEFINE front == SubSeq(s, 1, k - 1)
           rest  == SubSeq(s, k + 1, Len(s))
<1>1. Len(s) \in Nat /\ k \in Nat /\ 1 <= k /\ k <= Len(s)
  BY LenProperties
<1>2. /\ front \in Seq(S) /\ Len(front) = k - 1
      /\ \A i \in 1 .. k - 1 : front[i] = s[i]
  <2>1. \A i \in 1 .. k - 1 : s[i] \in S
    BY <1>1
  <2>2. /\ front \in Seq(S)
        /\ Len(front) = IF 1 <= k - 1 THEN k - 1 - 1 + 1 ELSE 0
        /\ \A i \in 1 .. k - 1 - 1 + 1 : front[i] = s[1 + i - 1]
    BY <1>1, <2>1, SubSeqProperties
  <2> HIDE DEF front
  <2> QED  BY <1>1, <2>2
<1>3. /\ rest \in Seq(S) /\ Len(rest) = Len(s) - k
      /\ \A i \in 1 .. Len(s) - k : rest[i] = s[k + i]
  <2>1. \A i \in k + 1 .. Len(s) : s[i] \in S
    BY <1>1
  <2>2. /\ rest \in Seq(S)
        /\ Len(rest) = IF k + 1 <= Len(s) THEN Len(s) - (k + 1) + 1 ELSE 0
        /\ \A i \in 1 .. Len(s) - (k + 1) + 1 : rest[i] = s[(k + 1) + i - 1]
    BY <1>1, <2>1, SubSeqProperties
  <2> HIDE DEF rest
  <2> QED  BY <1>1, <2>2
<1>4. RemoveAt(s, k) = front \o rest
  BY DEF RemoveAt
<1> HIDE DEF front, rest
<1>5. /\ front \o rest \in Seq(S) /\ Len(front \o rest) = Len(front) + Len(rest)
      /\ \A i \in 1 .. Len(front) + Len(rest) :
           (front \o rest)[i] = IF i <= Len(front) THEN front[i] ELSE rest[i - Len(front)]
  <2>1. front \in Seq(S) /\ rest \in Seq(S)
    BY <1>2, <1>3
  <2> QED  BY <2>1, ConcatProperties
<1>6. ASSUME NEW i \in 1 .. Len(s) - 1
      PROVE  (front \o rest)[i] = IF i < k THEN s[i] ELSE s[i + 1]
  <2>1. (front \o rest)[i] = IF i <= Len(front) THEN front[i] ELSE rest[i - Len(front)]
    BY <1>1, <1>2, <1>3, <1>5
  <2>2. CASE i < k
    <3>1. i \in 1 .. k - 1 /\ i <= Len(front)
      BY <1>1, <1>2, <2>2
    <3> QED  BY <1>2, <2>1, <2>2, <3>1
  <2>3. CASE ~(i < k)
    <3>1. i - Len(front) \in 1 .. Len(s) - k /\ ~(i <= Len(front)) /\ k + (i - Len(front)) = i + 1
      BY <1>1, <1>2, <2>3
    <3> QED  BY <1>3, <2>1, <2>3, <3>1
  <2> QED  BY <2>2, <2>3
<1> QED  BY <1>1, <1>2, <1>3, <1>4, <1>5, <1>6

-----------------------------------------------------------------------------
(* Types *)

\* All threads but w stay where they are.
OnlyMoves(w) == \A v \in Worker : v # w => workers'[v] = workers[v]

LEMMA IdleIsTyped ==
    Idle \in WorkerType /\ Idle.at = "idle" /\ Idle.idle = {} /\ Idle.examined = None
BY DEF Idle, WorkerType, WorkerPlace

\* The fields of a thread have their types.
LEMMA WorkerFields ==
    ASSUME TypeOK, NEW w \in Worker
    PROVE  /\ workers[w] \in WorkerType
           /\ workers[w].at \in WorkerPlace /\ workers[w].conn \in Connection \cup {None}
           /\ workers[w].pos \in Nat /\ workers[w].trials \in 0 .. MaxTrials + 1
           /\ workers[w].idle \subseteq Connection
           /\ workers[w].examined \in ThreadPlace \cup {None}
BY DEF TypeOK, WorkerType

\* What a thread keeps when one of its fields changes.
WithAt(r, x) == [r EXCEPT !.at = x]
WithPos(r, x) == [r EXCEPT !.pos = x]
WithTrials(r, x) == [r EXCEPT !.trials = x]
WithIdleSet(r, x) == [r EXCEPT !.idle = x]
WithExamined(r, x) == [r EXCEPT !.examined = x]

LEMMA WithAtTyped ==
    ASSUME NEW r \in WorkerType, NEW x \in WorkerPlace
    PROVE  /\ WithAt(r, x) \in WorkerType /\ WithAt(r, x).at = x
           /\ WithAt(r, x).conn = r.conn /\ WithAt(r, x).pos = r.pos
           /\ WithAt(r, x).trials = r.trials /\ WithAt(r, x).idle = r.idle
           /\ WithAt(r, x).examined = r.examined
BY DEF WorkerType, WithAt

LEMMA WithPosTyped ==
    ASSUME NEW r \in WorkerType, NEW x \in Nat
    PROVE  /\ WithPos(r, x) \in WorkerType /\ WithPos(r, x).pos = x
           /\ WithPos(r, x).at = r.at /\ WithPos(r, x).conn = r.conn
           /\ WithPos(r, x).trials = r.trials /\ WithPos(r, x).idle = r.idle
           /\ WithPos(r, x).examined = r.examined
BY DEF WorkerType, WithPos

LEMMA WithTrialsTyped ==
    ASSUME NEW r \in WorkerType, NEW x \in 0 .. MaxTrials + 1
    PROVE  /\ WithTrials(r, x) \in WorkerType /\ WithTrials(r, x).trials = x
           /\ WithTrials(r, x).at = r.at /\ WithTrials(r, x).conn = r.conn
           /\ WithTrials(r, x).pos = r.pos /\ WithTrials(r, x).idle = r.idle
           /\ WithTrials(r, x).examined = r.examined
BY DEF WorkerType, WithTrials

LEMMA WithIdleSetTyped ==
    ASSUME NEW r \in WorkerType, NEW x \in SUBSET Connection
    PROVE  /\ WithIdleSet(r, x) \in WorkerType /\ WithIdleSet(r, x).idle = x
           /\ WithIdleSet(r, x).at = r.at /\ WithIdleSet(r, x).conn = r.conn
           /\ WithIdleSet(r, x).pos = r.pos /\ WithIdleSet(r, x).trials = r.trials
           /\ WithIdleSet(r, x).examined = r.examined
BY DEF WorkerType, WithIdleSet

LEMMA WithExaminedTyped ==
    ASSUME NEW r \in WorkerType, NEW x \in ThreadPlace \cup {None}
    PROVE  /\ WithExamined(r, x) \in WorkerType /\ WithExamined(r, x).examined = x
           /\ WithExamined(r, x).at = r.at /\ WithExamined(r, x).conn = r.conn
           /\ WithExamined(r, x).pos = r.pos /\ WithExamined(r, x).trials = r.trials
           /\ WithExamined(r, x).idle = r.idle
BY DEF WorkerType, WithExamined

LEMMA WorkerBecomes ==
    ASSUME TypeOK, NEW w \in Worker, NEW rec \in WorkerType,
           workers' = [workers EXCEPT ![w] = rec]
    PROVE  workers' \in [Worker -> WorkerType] /\ workers'[w] = rec /\ OnlyMoves(w)
BY DEF TypeOK, OnlyMoves

LEMMA WorkerGoesTo ==
    ASSUME TypeOK, NEW w \in Worker, NEW place \in WorkerPlace, GoTo(w, place)
    PROVE  /\ workers' \in [Worker -> WorkerType] /\ OnlyMoves(w)
           /\ workers'[w].at = place
           /\ workers'[w].conn = workers[w].conn /\ workers'[w].pos = workers[w].pos
           /\ workers'[w].idle = workers[w].idle /\ workers'[w].examined = workers[w].examined
<1>1. workers[w] \in WorkerType
  BY WorkerFields
<1>2. workers' = [workers EXCEPT ![w] = WithAt(workers[w], place)]
  BY DEF GoTo, WithAt
<1> QED  BY <1>1, <1>2, WithAtTyped, WorkerBecomes, ZenonT(60)

\* The same for connections.
LEMMA ConnectionFields ==
    ASSUME TypeOK, NEW c \in Connection
    PROVE  /\ conns[c] \in ConnectionType
           /\ conns[c].at \in ThreadPlace /\ conns[c].hasHandle \in BOOLEAN
           /\ conns[c].isFinished \in BOOLEAN /\ conns[c].isPending \in BOOLEAN
           /\ conns[c].socket \in DOMAIN isOpen \cup {None} /\ conns[c].infos \in Seq(PlugNode)
<1>1. conns \in Seq(ConnectionType) /\ c \in DOMAIN conns
  BY DEF TypeOK, Connection
<1>2. conns[c] \in ConnectionType
  <2> HIDE DEF ConnectionType
  <2> QED  BY <1>1, LenProperties
<1> QED  BY <1>2 DEF ConnectionType

ThreadWithAt(r, x) == [r EXCEPT !.at = x]
ThreadWithFlags(r, x, y) == [r EXCEPT !.isFinished = x, !.isPending = y]
ThreadWithInfos(r, x) == [r EXCEPT !.infos = x]

LEMMA ThreadWithAtTyped ==
    ASSUME NEW r \in ConnectionType, NEW x \in ThreadPlace
    PROVE  /\ ThreadWithAt(r, x) \in ConnectionType /\ ThreadWithAt(r, x).at = x
           /\ ThreadWithAt(r, x).isAlive = r.isAlive /\ ThreadWithAt(r, x).hasHandle = r.hasHandle
           /\ ThreadWithAt(r, x).isFinished = r.isFinished
           /\ ThreadWithAt(r, x).isPending = r.isPending
           /\ ThreadWithAt(r, x).infos = r.infos
BY DEF ConnectionType, ThreadWithAt

LEMMA ThreadWithFlagsTyped ==
    ASSUME NEW r \in ConnectionType, NEW x \in BOOLEAN, NEW y \in BOOLEAN
    PROVE  /\ ThreadWithFlags(r, x, y) \in ConnectionType
           /\ ThreadWithFlags(r, x, y).isFinished = x /\ ThreadWithFlags(r, x, y).isPending = y
           /\ ThreadWithFlags(r, x, y).at = r.at /\ ThreadWithFlags(r, x, y).isAlive = r.isAlive
           /\ ThreadWithFlags(r, x, y).hasHandle = r.hasHandle
           /\ ThreadWithFlags(r, x, y).infos = r.infos
BY DEF ConnectionType, ThreadWithFlags

LEMMA ThreadWithInfosTyped ==
    ASSUME NEW r \in ConnectionType, NEW x \in Seq(PlugNode)
    PROVE  /\ ThreadWithInfos(r, x) \in ConnectionType /\ ThreadWithInfos(r, x).infos = x
           /\ ThreadWithInfos(r, x).at = r.at /\ ThreadWithInfos(r, x).isAlive = r.isAlive
           /\ ThreadWithInfos(r, x).hasHandle = r.hasHandle
           /\ ThreadWithInfos(r, x).isFinished = r.isFinished
           /\ ThreadWithInfos(r, x).isPending = r.isPending
BY DEF ConnectionType, ThreadWithInfos

LEMMA ConnectionBecomes ==
    ASSUME TypeOK, NEW c \in Connection, NEW rec \in ConnectionType,
           conns' = [conns EXCEPT ![c] = rec]
    PROVE  /\ conns' \in Seq(ConnectionType) /\ Connection' = Connection /\ conns'[c] = rec
           /\ \A d \in Connection : d # c => conns'[d] = conns[d]
<1>1. conns \in Seq(ConnectionType) /\ Connection = DOMAIN conns
  BY DEF TypeOK, Connection
<1>2. DOMAIN conns = 1 .. Len(conns)
  BY <1>1, LenProperties
<1> QED  BY <1>1, <1>2, ExceptSeq DEF Connection

\* Connections keep their types when sockets are opened or closed.
LEMMA SocketsChange ==
    ASSUME TypeOK, conns' = conns, isOpen' \in Seq(BOOLEAN), DOMAIN isOpen \subseteq DOMAIN isOpen'
    PROVE  conns' \in Seq(ConnectionType')
<1>1. ConnectionType \subseteq ConnectionType'
  BY DEF ConnectionType
<1> QED  BY <1>1, SeqMonotonic DEF TypeOK

LEMMA SocketOpened ==
    ASSUME TypeOK, OpenNext
    PROVE  /\ isOpen' \in Seq(BOOLEAN) /\ DOMAIN isOpen \subseteq DOMAIN isOpen'
           /\ NextSocket \in DOMAIN isOpen'
<1>1. isOpen \in Seq(BOOLEAN) /\ Len(isOpen) \in Nat /\ isOpen' = Append(isOpen, TRUE)
  BY LenProperties DEF TypeOK, OpenNext
<1>2. isOpen' \in Seq(BOOLEAN) /\ Len(isOpen') = Len(isOpen) + 1
  BY <1>1
<1>3. DOMAIN isOpen = 1 .. Len(isOpen) /\ DOMAIN isOpen' = 1 .. Len(isOpen')
  BY <1>1, <1>2, LenProperties
<1> QED  BY <1>1, <1>2, <1>3 DEF NextSocket

LEMMA SocketClosed ==
    ASSUME TypeOK, NEW s, Close(s)
    PROVE  isOpen' \in Seq(BOOLEAN) /\ DOMAIN isOpen' = DOMAIN isOpen
<1>1. isOpen \in Seq(BOOLEAN) /\ Len(isOpen) \in Nat /\ DOMAIN isOpen = 1 .. Len(isOpen)
  BY LenProperties DEF TypeOK
<1>2. isOpen' = [i \in 1 .. Len(isOpen) |-> isOpen[i] /\ i # s]
  BY <1>1 DEF Close
<1>3. isOpen' \in [1 .. Len(isOpen) -> BOOLEAN]
  <2>1. \A i \in 1 .. Len(isOpen) : (isOpen[i] /\ i # s) \in BOOLEAN
    OBVIOUS
  <2> QED  BY <1>2, <2>1
<1> QED  BY <1>1, <1>2, <1>3, SeqDef

-----------------------------------------------------------------------------
(* Steps that leave the list and the connections alone *)

\* Such a step keeps the invariant if it takes the lock only when it is free,
\* gives back no other lock than its own, and starts to own nothing.
LEMMA ListKept ==
    ASSUME GatewayInv, NEW w \in Worker,
           UNCHANGED <<list, conns>>, OnlyMoves(w), TypeOK',
           lock' # lock => lock \in {None, w},
           Inside(w)' => /\ lock' = w /\ workers'[w].pos \in 1 .. Len(list) + 1
                         /\ workers'[w].at \in {"delete", "sendLocked"} => workers'[w].pos <= Len(list),
           Owns(w)' => /\ Owns(w) /\ workers'[w].conn = workers[w].conn
                       /\ workers[w].at \notin {"create", "store"},
           \A c \in workers'[w].idle : c \in workers[w].idle \/ c \in OnList,
           workers'[w].at \in {"cleanup", "delete"} =>
               \A i \in 1 .. Len(list) : list[i] \in workers'[w].idle =>
                   i >= workers'[w].pos /\ conns[list[i]].at = "exited",
           workers'[w].at \in {"add", "gone"} =>
               \A i \in 1 .. Len(list) : list[i] \notin workers'[w].idle,
           w = "owner" => OwnerCreatesNone',
           workers'[w].examined \in {None, "begin", "return", "exited"}
    PROVE  GatewayInv'
<1>0. TypeOK /\ list' = list /\ conns' = conns /\ list \in Seq(Connection)
  BY DEF GatewayInv, TypeOK
<1>1. WalkersLocked'
  <2> SUFFICES ASSUME NEW v \in Worker, Inside(v)'
               PROVE  /\ lock' = v /\ workers'[v].pos \in 1 .. Len(list) + 1
                      /\ workers'[v].at \in {"delete", "sendLocked"} => workers'[v].pos <= Len(list)
    BY <1>0 DEF WalkersLocked
  <2>1. CASE v = w
    BY <2>1
  <2>2. CASE v # w
    <3>1. workers'[v] = workers[v]
      BY <2>2 DEF OnlyMoves
    <3>2. Inside(v) /\ lock = v
      BY <3>1 DEF Inside, GatewayInv, WalkersLocked
    <3>3. lock' = lock
      BY <2>2, <3>2 DEF Worker
    <3> QED  BY <3>1, <3>2, <3>3 DEF GatewayInv, WalkersLocked
  <2> QED  BY <2>1, <2>2
<1>2. OwnedOnce'
  <2>1. ASSUME NEW v \in Worker, Owns(v)'
        PROVE  /\ Owns(v) /\ workers'[v].conn = workers[v].conn
               /\ workers'[v].at # "create" => workers[v].at # "create"
               /\ workers'[v].at \notin {"create", "store"} => workers[v].at \notin {"create", "store"}
    BY <2>1 DEF OnlyMoves, Owns
  <2>2. ASSUME NEW v \in Worker, Owns(v)', NEW u \in Worker
        PROVE  workers[v].conn \notin workers'[u].idle
    <3>1. Owns(v)
      BY <2>1, <2>2
    <3>2. workers[v].conn \notin workers[u].idle /\ workers[v].conn \notin OnList
      BY <1>0, <3>1, LenProperties DEF GatewayInv, OwnedOnce, OnList
    <3> QED  BY <3>2 DEF OnlyMoves
  <2> SUFFICES ASSUME NEW v \in Worker, Owns(v)'
               PROVE  LET c == workers'[v].conn
                      IN  /\ c \in Connection /\ conns[c].isAlive
                          /\ \A i \in 1 .. Len(list) : list[i] # c
                          /\ \A u \in Worker : Owns(u)' /\ u # v => workers'[u].conn # c
                          /\ \A u \in Worker : c \notin workers'[u].idle
                          /\ workers'[v].at # "create" => conns[c].at # "none"
                          /\ workers'[v].at \notin {"create", "store"} => conns[c].hasHandle
    BY <1>0 DEF OwnedOnce, Connection
  <2>3. Owns(v) /\ workers'[v].conn = workers[v].conn
    BY <2>1
  <2>4. \A u \in Worker : Owns(u)' /\ u # v => workers'[u].conn # workers[v].conn
    BY <2>1, <2>3 DEF GatewayInv, OwnedOnce
  <2> QED  BY <2>1, <2>2, <2>3, <2>4 DEF GatewayInv, OwnedOnce
<1>3. OwnerCreatesNone'
  BY DEF GatewayInv, OwnerCreatesNone, OnlyMoves, Worker
<1>4. Listed' /\ FlagsReset'
  BY <1>0 DEF GatewayInv, Listed, FlagsReset, Connection
<1>5. IdleAhead'
  BY <1>0 DEF GatewayInv, IdleAhead, OnlyMoves
<1>6. RemovedOnlyIfFinished'
  BY DEF GatewayInv, RemovedOnlyIfFinished, OnlyMoves
<1> QED  BY <1>1, <1>2, <1>3, <1>4, <1>5, <1>6 DEF GatewayInv

LEMMA TypesKept ==
    ASSUME TypeOK, UNCHANGED <<list, conns, recipientUURI>>,
           workers' \in [Worker -> WorkerType], lock' \in Worker \cup {None},
           isOpen' \in Seq(BOOLEAN), DOMAIN isOpen \subseteq DOMAIN isOpen',
           clientSocket' \in DOMAIN isOpen' \cup {None},
           isListening' \in BOOLEAN, isThreadShutdown' \in BOOLEAN
    PROVE  TypeOK'
<1>1. conns' \in Seq(ConnectionType') /\ WorkerType' = WorkerType /\ Connection' = Connection
  BY SocketsChange DEF WorkerType, Connection
<1> QED  BY <1>1 DEF TypeOK

\* A step of a thread that is not at the list afterwards.
LEMMA OutsideKept ==
    ASSUME GatewayInv, NEW w \in Worker,
           UNCHANGED <<list, conns>>, OnlyMoves(w), TypeOK',
           lock' = lock \/ (lock = w /\ lock' = None),
           workers'[w].at \notin {"cleanup", "delete", "searching", "sendLocked", "create", "store",
                                 "add", "gone"},
           workers'[w].at = "enter" => w = "owner",
           workers'[w].idle \in {workers[w].idle, {}},
           workers'[w].examined \in {workers[w].examined, None},
           w = "owner" => workers'[w].at \in {"stop", "enter"}
    PROVE  GatewayInv'
<1>1. ~Inside(w)' /\ ~Owns(w)'
  BY DEF Inside, Owns
<1>2. workers'[w].examined \in {None, "begin", "return", "exited"}
  BY DEF GatewayInv, RemovedOnlyIfFinished
<1>3. w = "owner" => OwnerCreatesNone'
  BY DEF OwnerCreatesNone
<1> QED  BY <1>1, <1>2, <1>3, ListKept

\* The steps of sendInfoToGateway() that do not create a connection.
LEMMA SendKeepsInv ==
    ASSUME GatewayInv, NEW w \in Sender,
           \/ StartSend(w) \/ EnterSearch(w) \/ SearchStep(w) \/ NothingFound(w) \/ SendLocked(w)
           \/ OpenSocket(w) \/ OpenNone(w) \/ ConnectTimeout(w) \/ SendUnlocked(w)
    PROVE  GatewayInv'
<1>0. /\ TypeOK /\ w \in Worker /\ w # "owner" /\ w # None /\ workers[w] \in WorkerType
      /\ workers[w].trials \in 0 .. MaxTrials + 1 /\ MaxTrials \in Nat
      /\ lock \in Worker \cup {None} /\ isOpen \in Seq(BOOLEAN) /\ list \in Seq(Connection)
      /\ clientSocket \in DOMAIN isOpen \cup {None} /\ recipientUURI \in PlugNode \cup {None}
      /\ isListening \in BOOLEAN /\ isThreadShutdown \in BOOLEAN /\ Len(list) \in Nat
  <2>1. TypeOK /\ w \in Worker /\ w # "owner" /\ w # None
    BY DEF GatewayInv, Worker
  <2> QED  BY <2>1, WorkerFields, LenProperties DEF TypeOK
<1>1. CASE StartSend(w)
  <2>1. /\ workers' \in [Worker -> WorkerType] /\ OnlyMoves(w) /\ workers'[w].at = "search"
        /\ workers'[w].idle = workers[w].idle /\ workers'[w].examined = workers[w].examined
    BY <1>0, <1>1, WorkerGoesTo DEF StartSend, WorkerPlace
  <2>2. UNCHANGED <<list_vars, isOpen, clientSocket, gate_vars, recipientUURI>>
    BY <1>1 DEF StartSend
  <2>3. TypeOK'
    BY <1>0, <2>1, <2>2, TypesKept DEF list_vars, gate_vars
  <2> QED  BY <1>0, <2>1, <2>2, <2>3, OutsideKept DEF list_vars
<1>2. CASE EnterSearch(w)
  <2> DEFINE rec == WithTrials(WithPos(WithAt(workers[w], "searching"), 1), 0)
  <2>1. rec \in WorkerType /\ rec.at = "searching" /\ rec.pos = 1
        /\ rec.idle = workers[w].idle /\ rec.examined = workers[w].examined
    <3>1. "searching" \in WorkerPlace /\ 0 \in 0 .. MaxTrials + 1 /\ 1 \in Nat
      BY <1>0 DEF WorkerPlace
    <3> DEFINE atIt == WithAt(workers[w], "searching")
               first == WithPos(atIt, 1)
    <3>2. atIt \in WorkerType /\ atIt.at = "searching"
          /\ atIt.idle = workers[w].idle /\ atIt.examined = workers[w].examined
      BY <1>0, <3>1, WithAtTyped
    <3> HIDE DEF atIt
    <3>3. first \in WorkerType /\ first.at = "searching" /\ first.pos = 1
          /\ first.idle = workers[w].idle /\ first.examined = workers[w].examined
      BY <3>1, <3>2, WithPosTyped, ZenonT(40)
    <3>4. rec = WithTrials(first, 0)
      BY DEF atIt
    <3> HIDE DEF first, rec
    <3> QED  BY <3>1, <3>3, <3>4, WithTrialsTyped
  <2>2. workers' = [workers EXCEPT ![w] = rec] /\ lock = None /\ lock' = w
    BY <1>2 DEF EnterSearch, WithAt, WithPos, WithTrials
  <2> HIDE DEF rec
  <2>3. workers' \in [Worker -> WorkerType] /\ workers'[w] = rec /\ OnlyMoves(w)
    BY <1>0, <2>1, <2>2, WorkerBecomes
  <2>4. UNCHANGED <<list, conns, isOpen, clientSocket, gate_vars, recipientUURI>>
    BY <1>2 DEF EnterSearch
  <2>5. TypeOK'
    BY <1>0, <2>2, <2>3, <2>4, TypesKept DEF gate_vars
  <2>6. 1 \in 1 .. Len(list) + 1
    BY <1>0
  <2>7. ~Owns(w)' /\ rec.examined \in {None, "begin", "return", "exited"}
    BY <1>0, <2>1, <2>3 DEF Owns, GatewayInv, RemovedOnlyIfFinished
  <2> QED  BY <1>0, <2>1, <2>2, <2>3, <2>4, <2>5, <2>6, <2>7, ListKept
<1>3. CASE SearchStep(w)
  <2>1. /\ lock = w /\ workers[w].pos \in 1 .. Len(list)
        /\ UNCHANGED <<list_vars, isOpen, clientSocket, gate_vars, recipientUURI>>
    BY <1>0, <1>3 DEF SearchStep, At, GatewayInv, WalkersLocked, Inside
  <2>2. /\ workers' \in [Worker -> WorkerType] /\ OnlyMoves(w)
        /\ workers'[w].idle = workers[w].idle /\ workers'[w].examined = workers[w].examined
        /\ \/ workers'[w].at = "sendLocked" /\ workers'[w].pos = workers[w].pos
           \/ workers'[w].at = "searching" /\ workers'[w].pos = workers[w].pos + 1
    <3>1. CASE GoTo(w, "sendLocked")
      BY <1>0, <3>1, WorkerGoesTo DEF WorkerPlace
    <3>2. CASE workers' = [workers EXCEPT ![w].pos = @ + 1]
      <4> DEFINE rec == WithPos(workers[w], workers[w].pos + 1)
      <4>1. rec \in WorkerType /\ rec.at = "searching" /\ rec.pos = workers[w].pos + 1
            /\ rec.idle = workers[w].idle /\ rec.examined = workers[w].examined
        <5>1. workers[w] \in WorkerType /\ workers[w].pos \in Nat
          BY <1>0, WorkerFields
        <5>2. workers[w].pos + 1 \in Nat
          BY <5>1
        <5>3. workers[w].at = "searching"
          BY <1>3 DEF SearchStep, At
        <5> QED  BY <5>1, <5>2, <5>3, WithPosTyped
      <4>2. workers' = [workers EXCEPT ![w] = rec]
        BY <3>2 DEF WithPos
      <4> HIDE DEF rec
      <4> QED  BY <1>0, <4>1, <4>2, WorkerBecomes
    <3> QED  BY <1>3, <3>1, <3>2 DEF SearchStep
  <2>3. TypeOK'
    BY <1>0, <2>1, <2>2, TypesKept DEF list_vars, gate_vars
  <2>4. workers'[w].pos \in 1 .. Len(list) + 1
        /\ (workers'[w].at \in {"delete", "sendLocked"} => workers'[w].pos <= Len(list))
    BY <1>0, <2>1, <2>2
  <2>5. ~Owns(w)' /\ workers'[w].examined \in {None, "begin", "return", "exited"}
    BY <1>0, <2>2 DEF Owns, GatewayInv, RemovedOnlyIfFinished
  <2> QED  BY <1>0, <2>1, <2>2, <2>3, <2>4, <2>5, ListKept DEF list_vars
<1>4. CASE NothingFound(w)
  <2>1. lock = w /\ lock' = None /\ UNCHANGED <<list, conns, isOpen, clientSocket, gate_vars, recipientUURI>>
    BY <1>0, <1>4 DEF NothingFound, At, GatewayInv, WalkersLocked, Inside
  <2>2. /\ workers' \in [Worker -> WorkerType] /\ OnlyMoves(w) /\ workers'[w].at = "open"
        /\ workers'[w].idle = workers[w].idle /\ workers'[w].examined = workers[w].examined
    BY <1>0, <1>4, WorkerGoesTo DEF NothingFound, WorkerPlace
  <2>3. TypeOK'
    BY <1>0, <2>1, <2>2, TypesKept DEF gate_vars
  <2> QED  BY <1>0, <2>1, <2>2, <2>3, OutsideKept
<1>5. CASE SendLocked(w)
  <2>1. lock = w /\ lock' = None /\ UNCHANGED <<list, conns, isOpen, clientSocket, gate_vars, recipientUURI>>
    BY <1>0, <1>5 DEF SendLocked, At, GatewayInv, WalkersLocked, Inside
  <2>2. /\ workers' \in [Worker -> WorkerType] /\ OnlyMoves(w) /\ workers'[w].at \in {"open", "idle"}
        /\ workers'[w].idle \in {workers[w].idle, {}}
        /\ workers'[w].examined \in {workers[w].examined, None}
    <3>1. CASE GoTo(w, "open")
      BY <1>0, <3>1, WorkerGoesTo DEF WorkerPlace
    <3>2. CASE ReturnIdle(w)
      BY <1>0, <3>2, WorkerBecomes, IdleIsTyped DEF ReturnIdle
    <3> QED  BY <1>5, <3>1, <3>2 DEF SendLocked
  <2>3. TypeOK'
    BY <1>0, <2>1, <2>2, TypesKept DEF gate_vars
  <2> QED  BY <1>0, <2>1, <2>2, <2>3, OutsideKept
<1>6. CASE OpenSocket(w)
  <2>1. /\ workers' \in [Worker -> WorkerType] /\ OnlyMoves(w) /\ workers'[w].at = "connect"
        /\ workers'[w].idle = workers[w].idle /\ workers'[w].examined = workers[w].examined
    BY <1>0, <1>6, WorkerGoesTo DEF OpenSocket, WorkerPlace
  <2>2. UNCHANGED <<list_vars, gate_vars, recipientUURI>>
    BY <1>6 DEF OpenSocket
  <2>3. /\ isOpen' \in Seq(BOOLEAN) /\ DOMAIN isOpen \subseteq DOMAIN isOpen'
        /\ clientSocket' \in DOMAIN isOpen'
    BY <1>0, <1>6, SocketOpened DEF OpenSocket
  <2>4. TypeOK'
    BY <1>0, <2>1, <2>2, <2>3, TypesKept DEF list_vars, gate_vars
  <2> QED  BY <1>0, <2>1, <2>2, <2>4, OutsideKept DEF list_vars
<1>7. CASE OpenNone(w) \/ SendUnlocked(w)
  <2>1. /\ workers' \in [Worker -> WorkerType] /\ OnlyMoves(w) /\ workers'[w] = Idle
    BY <1>0, <1>7, WorkerBecomes, IdleIsTyped DEF OpenNone, SendUnlocked, ReturnIdle
  <2>2. UNCHANGED <<list_vars, isOpen, gate_vars, recipientUURI>> /\ clientSocket' \in {clientSocket, None}
    BY <1>7 DEF OpenNone, SendUnlocked
  <2>3. TypeOK'
    BY <1>0, <2>1, <2>2, TypesKept DEF list_vars, gate_vars
  <2> QED  BY <1>0, <2>1, <2>2, <2>3, IdleIsTyped, OutsideKept DEF list_vars
<1>8. CASE ConnectTimeout(w)
  <2>1. UNCHANGED <<list_vars, gate_vars, recipientUURI>> /\ clientSocket' = None
    BY <1>8 DEF ConnectTimeout
  <2>2. isOpen' \in Seq(BOOLEAN) /\ DOMAIN isOpen' = DOMAIN isOpen
    BY <1>0, <1>8, SocketClosed DEF ConnectTimeout
  <2>3. /\ workers' \in [Worker -> WorkerType] /\ OnlyMoves(w) /\ workers'[w].at \in {"open", "idle"}
        /\ workers'[w].idle \in {workers[w].idle, {}}
        /\ workers'[w].examined \in {workers[w].examined, None}
    <3>1. CASE workers[w].trials > MaxTrials
      BY <1>0, <1>8, <3>1, WorkerBecomes, IdleIsTyped DEF ConnectTimeout, ReturnIdle
    <3>2. CASE ~(workers[w].trials > MaxTrials)
      <4> DEFINE rec == WithTrials(WithAt(workers[w], "open"), workers[w].trials + 1)
      <4>1. /\ rec \in WorkerType /\ rec.at = "open"
            /\ rec.idle = workers[w].idle /\ rec.examined = workers[w].examined
        <5>1. "open" \in WorkerPlace /\ workers[w].trials + 1 \in 0 .. MaxTrials + 1
          BY <1>0, <3>2 DEF WorkerPlace
        <5> DEFINE again == WithAt(workers[w], "open")
        <5>2. again \in WorkerType /\ again.at = "open"
              /\ again.idle = workers[w].idle /\ again.examined = workers[w].examined
          BY <1>0, <5>1, WithAtTyped
        <5> HIDE DEF again
        <5>3. WithTrials(again, workers[w].trials + 1) \in WorkerType
              /\ WithTrials(again, workers[w].trials + 1).at = again.at
              /\ WithTrials(again, workers[w].trials + 1).idle = again.idle
              /\ WithTrials(again, workers[w].trials + 1).examined = again.examined
          BY <5>1, <5>2, WithTrialsTyped
        <5> QED  BY <5>2, <5>3 DEF again
      <4>2. workers' = [workers EXCEPT ![w] = rec]
        BY <1>8, <3>2 DEF ConnectTimeout, WithAt, WithTrials
      <4> HIDE DEF rec
      <4> QED  BY <1>0, <4>1, <4>2, WorkerBecomes
    <3> QED  BY <3>1, <3>2
  <2>4. TypeOK'
    BY <1>0, <2>1, <2>2, <2>3, TypesKept DEF list_vars, gate_vars
  <2> QED  BY <1>0, <2>1, <2>3, <2>4, OutsideKept DEF list_vars
<1> QED  BY <1>1, <1>2, <1>3, <1>4, <1>5, <1>6, <1>7, <1>8

\* The walk of cleanupGatewayConnections() but for the deletions.
LEMMA WalkKeepsInv ==
    ASSUME GatewayInv, NEW w \in Worker,
           EnterCleanup(w) \/ ExamineConnection(w) \/ LeaveCleanup(w)
    PROVE  GatewayInv'
<1>0. /\ TypeOK /\ w # None /\ workers[w] \in WorkerType /\ list \in Seq(Connection)
      /\ Len(list) \in Nat /\ workers[w].pos \in Nat
  <2>1. TypeOK /\ w # None
    BY DEF GatewayInv, Worker
  <2> QED  BY <2>1, WorkerFields, LenProperties DEF TypeOK
<1>1. /\ lock \in Worker \cup {None} /\ isOpen \in Seq(BOOLEAN)
      /\ clientSocket \in DOMAIN isOpen \cup {None} /\ recipientUURI \in PlugNode \cup {None}
      /\ isListening \in BOOLEAN /\ isThreadShutdown \in BOOLEAN
  BY <1>0 DEF TypeOK
<1>2. /\ UNCHANGED <<list, conns, isOpen, clientSocket, gate_vars, recipientUURI>>
      /\ lock' \in Worker \cup {None}
  BY <1>1 DEF EnterCleanup, ExamineConnection, LeaveCleanup, list_vars
<1>3. workers[w].at = "cleanup" => lock = w /\ workers[w].pos \in 1 .. Len(list) + 1
  BY DEF GatewayInv, WalkersLocked, Inside
<1>4. workers[w].examined \in {None, "begin", "return", "exited"}
  BY DEF GatewayInv, RemovedOnlyIfFinished
<1>5. \A i \in 1 .. Len(list) : list[i] \in Connection /\ list[i] \in OnList
  BY <1>0, LenProperties DEF OnList
<1>6. w = "owner" => OwnerCreatesNone
  BY DEF GatewayInv
<1>7. CASE EnterCleanup(w)
  <2> DEFINE found == {c \in OnList : conns[c].at = "exited"}
             atIt  == WithAt(workers[w], "cleanup")
             first == WithPos(atIt, 1)
             rec   == WithIdleSet(first, found)
  <2>1. found \in SUBSET Connection /\ found \subseteq OnList /\ \A c \in found : conns[c].at = "exited"
    BY <1>0, LenProperties DEF OnList
  <2>2. "cleanup" \in WorkerPlace /\ 1 \in Nat
    BY DEF WorkerPlace
  <2>3. workers' = [workers EXCEPT ![w] = rec] /\ lock = None /\ lock' = w /\ workers[w].at = "enter"
    BY <1>7 DEF EnterCleanup, WithAt, WithPos, WithIdleSet, At
  <2> HIDE DEF found
  <2>4. atIt \in WorkerType /\ atIt.at = "cleanup" /\ atIt.conn = workers[w].conn
        /\ atIt.examined = workers[w].examined
    BY <1>0, <2>2, WithAtTyped
  <2> HIDE DEF atIt
  <2>5. first \in WorkerType /\ first.at = "cleanup" /\ first.conn = workers[w].conn
        /\ first.examined = workers[w].examined /\ first.pos = 1
    BY <2>2, <2>4, WithPosTyped, ZenonT(40)
  <2> HIDE DEF first
  <2>6. rec \in WorkerType /\ rec.at = "cleanup" /\ rec.conn = workers[w].conn
        /\ rec.examined = workers[w].examined /\ rec.pos = 1 /\ rec.idle = found
    BY <2>1, <2>5, WithIdleSetTyped
  <2> HIDE DEF rec
  <2>7. workers' \in [Worker -> WorkerType] /\ workers'[w] = rec /\ OnlyMoves(w)
    BY <1>0, <2>3, <2>6, WorkerBecomes
  <2>8. TypeOK'
    BY <1>0, <1>1, <1>2, <2>7, TypesKept DEF gate_vars
  <2>9. 1 \in 1 .. Len(list) + 1 /\ \A i \in 1 .. Len(list) : i >= 1
    BY <1>0
  <2>10. Owns(w)' => Owns(w)
    BY <2>3 DEF Owns
  <2>11. w = "owner" => OwnerCreatesNone'
    BY <2>6, <2>7 DEF OwnerCreatesNone
  <2>12. /\ workers'[w].at = "cleanup" /\ workers'[w].pos = 1 /\ workers'[w].conn = workers[w].conn
         /\ workers'[w].examined = workers[w].examined /\ workers'[w].idle = found
    BY <2>6, <2>7
  <2> QED  BY <1>2, <1>4, <2>1, <2>3, <2>7, <2>8, <2>9, <2>10, <2>11, <2>12, ListKept
<1>8. CASE ExamineConnection(w) /\ IsRunningParallel(list[workers[w].pos])
  <2> DEFINE rec == WithPos(workers[w], workers[w].pos + 1)
  <2>1. /\ workers' = [workers EXCEPT ![w] = rec] /\ workers[w].at = "cleanup" /\ lock' = lock
        /\ workers[w].pos <= Len(list)
    BY <1>8 DEF ExamineConnection, At, WithPos, list_vars
  <2>2. workers[w].pos + 1 \in Nat
    BY <1>0
  <2>3. rec \in WorkerType /\ rec.at = "cleanup" /\ rec.conn = workers[w].conn
        /\ rec.examined = workers[w].examined /\ rec.idle = workers[w].idle
        /\ rec.pos = workers[w].pos + 1
    BY <1>0, <2>1, <2>2, WithPosTyped
  <2> HIDE DEF rec
  <2>4. workers' \in [Worker -> WorkerType] /\ workers'[w] = rec /\ OnlyMoves(w)
    BY <1>0, <2>1, <2>3, WorkerBecomes
  <2>5. TypeOK'
    BY <1>0, <1>1, <1>2, <2>4, TypesKept DEF gate_vars
  <2>6. ASSUME NEW i \in 1 .. Len(list), list[i] \in workers[w].idle
        PROVE  i >= workers[w].pos + 1 /\ conns[list[i]].at = "exited"
    <3>1. i >= workers[w].pos /\ conns[list[i]].at = "exited"
      BY <2>1, <2>6 DEF GatewayInv, IdleAhead
    <3>2. i # workers[w].pos
      BY <1>8, <3>1 DEF IsRunningParallel
    <3> QED  BY <1>0, <3>1, <3>2
  <2>7. workers[w].pos + 1 \in 1 .. Len(list) + 1
    BY <1>0, <1>3, <2>1
  <2>8. Owns(w)' => Owns(w)
    BY <2>1, <2>3, <2>4 DEF Owns
  <2>9. w = "owner" => OwnerCreatesNone'
    BY <2>3, <2>4 DEF OwnerCreatesNone
  <2>10. /\ workers'[w].at = "cleanup" /\ workers'[w].pos = workers[w].pos + 1
         /\ workers'[w].conn = workers[w].conn
         /\ workers'[w].examined = workers[w].examined /\ workers'[w].idle = workers[w].idle
    BY <2>3, <2>4
  <2> QED  BY <1>2, <1>3, <1>4, <2>1, <2>4, <2>5, <2>6, <2>7, <2>8, <2>9, <2>10, ListKept
<1>9. CASE ExamineConnection(w) /\ ~IsRunningParallel(list[workers[w].pos])
  <2> DEFINE c    == list[workers[w].pos]
             atIt == WithAt(workers[w], "delete")
             rec  == WithExamined(atIt, conns[c].at)
  <2>1. /\ workers' = [workers EXCEPT ![w] = rec] /\ workers[w].at = "cleanup" /\ lock' = lock
        /\ workers[w].pos <= Len(list)
    BY <1>9 DEF ExamineConnection, At, WithAt, WithExamined, list_vars
  <2>2. workers[w].pos \in 1 .. Len(list)
    BY <1>0, <1>3, <2>1
  <2>3. c \in Connection /\ conns[c].hasHandle /\ conns[c].at # "none" /\ conns[c].at \in ThreadPlace
    <3>1. c \in Connection
      BY <1>5, <2>2
    <3>2. conns[c].at \in ThreadPlace
      BY <1>0, <3>1, ConnectionFields
    <3> QED  BY <2>2, <3>1, <3>2 DEF GatewayInv, Listed
  <2>4. conns[c].at \in {"begin", "return", "exited"}
    <3>1. conns[c].at = "exited" \/ conns[c].isFinished \/ conns[c].isPending
      BY <1>9, <2>3 DEF IsRunningParallel
    <3>2. conns[c].at \in {"loop", "recv", "identify", "forward"} =>
            ~conns[c].isFinished /\ ~conns[c].isPending
      BY <2>3 DEF GatewayInv, FlagsReset
    <3> QED  BY <2>3, <3>1, <3>2 DEF ThreadPlace
  <2>5. "delete" \in WorkerPlace
    BY DEF WorkerPlace
  <2>6. atIt \in WorkerType /\ atIt.at = "delete" /\ atIt.conn = workers[w].conn
        /\ atIt.idle = workers[w].idle /\ atIt.pos = workers[w].pos
    BY <1>0, <2>5, WithAtTyped
  <2> HIDE DEF atIt, c
  <2>7. rec \in WorkerType /\ rec.at = "delete" /\ rec.conn = workers[w].conn
        /\ rec.idle = workers[w].idle /\ rec.pos = workers[w].pos /\ rec.examined = conns[c].at
    BY <2>3, <2>6, WithExaminedTyped
  <2> HIDE DEF rec
  <2>8. workers' \in [Worker -> WorkerType] /\ workers'[w] = rec /\ OnlyMoves(w)
    BY <1>0, <2>1, <2>7, WorkerBecomes
  <2>9. TypeOK'
    BY <1>0, <1>1, <1>2, <2>8, TypesKept DEF gate_vars
  <2>10. /\ workers'[w].at = "delete" /\ workers'[w].pos = workers[w].pos
         /\ workers'[w].conn = workers[w].conn
         /\ workers'[w].examined \in {"begin", "return", "exited"} /\ workers'[w].idle = workers[w].idle
    BY <2>4, <2>7, <2>8
  <2>11. Owns(w)' => Owns(w)
    BY <2>1, <2>10 DEF Owns
  <2>12. w = "owner" => OwnerCreatesNone'
    BY <2>10 DEF OwnerCreatesNone
  <2>13. \A i \in 1 .. Len(list) : list[i] \in workers[w].idle =>
            i >= workers[w].pos /\ conns[list[i]].at = "exited"
    BY <2>1 DEF GatewayInv, IdleAhead
  <2>14. workers[w].pos \in 1 .. Len(list) + 1
    BY <1>3, <2>1
  <2> QED  BY <1>2, <1>3, <2>1, <2>8, <2>9, <2>10, <2>11, <2>12, <2>13, <2>14, ListKept
<1>10. CASE LeaveCleanup(w)
  <2>1. /\ workers[w].at = "cleanup" /\ lock' = None /\ workers[w].pos > Len(list)
        /\ GoTo(w, IF w = "owner" THEN "gone" ELSE "add")
    BY <1>10 DEF LeaveCleanup, At
  <2>2. /\ workers' \in [Worker -> WorkerType] /\ OnlyMoves(w)
        /\ workers'[w].at = (IF w = "owner" THEN "gone" ELSE "add")
        /\ workers'[w].conn = workers[w].conn /\ workers'[w].idle = workers[w].idle
        /\ workers'[w].examined = workers[w].examined
    <3>1. (IF w = "owner" THEN "gone" ELSE "add") \in WorkerPlace
      BY DEF WorkerPlace
    <3> QED  BY <1>0, <2>1, <3>1, WorkerGoesTo
  <2>3. TypeOK'
    BY <1>0, <1>1, <1>2, <2>2, TypesKept DEF gate_vars
  <2>4. \A i \in 1 .. Len(list) : list[i] \notin workers[w].idle
    <3>1. \A i \in 1 .. Len(list) : list[i] \in workers[w].idle => i >= workers[w].pos
      BY <2>1 DEF GatewayInv, IdleAhead
    <3> QED  BY <1>0, <2>1, <3>1
  <2>5. ~Inside(w)' /\ (Owns(w)' => Owns(w)) /\ (w = "owner" => OwnerCreatesNone')
    BY <2>1, <2>2 DEF Inside, Owns, OwnerCreatesNone
  <2>6. workers'[w].at \notin {"cleanup", "delete"} /\ workers[w].at \notin {"create", "store"}
    BY <2>1, <2>2
  <2> QED  BY <1>2, <1>3, <1>4, <2>1, <2>2, <2>3, <2>4, <2>5, <2>6, ListKept
<1> QED  BY <1>7, <1>8, <1>9, <1>10

\* The listening thread when nobody connects, and the destructor of the provider.
LEMMA GateKeepsInv ==
    ASSUME GatewayInv, Listen \/ AcceptFails \/ Shutdown \/ CloseSockets
    PROVE  GatewayInv'
<1>0. /\ TypeOK /\ lock \in Worker \cup {None} /\ isOpen \in Seq(BOOLEAN)
      /\ clientSocket \in DOMAIN isOpen \cup {None} /\ recipientUURI \in PlugNode \cup {None}
      /\ isListening \in BOOLEAN /\ isThreadShutdown \in BOOLEAN
      /\ "accept" \in Worker /\ "owner" \in Worker
  BY DEF GatewayInv, TypeOK, Worker
<1>1. UNCHANGED <<list, conns, lock, clientSocket, recipientUURI>>
      /\ isListening' \in BOOLEAN /\ isThreadShutdown' \in BOOLEAN
  BY <1>0 DEF Listen, AcceptFails, Shutdown, CloseSockets, list_vars, gate_vars
<1>2. isOpen' \in Seq(BOOLEAN) /\ DOMAIN isOpen' = DOMAIN isOpen
  BY <1>0, SocketClosed DEF Listen, AcceptFails, Shutdown, CloseSockets
<1>3. CASE Listen \/ AcceptFails
  <2>1. \E place \in {"exited", "accepting"} : GoTo("accept", place)
    BY <1>3 DEF Listen, AcceptFails
  <2>2. /\ workers' \in [Worker -> WorkerType] /\ OnlyMoves("accept")
        /\ workers'["accept"].at \in {"exited", "accepting"}
        /\ workers'["accept"].idle = workers["accept"].idle
        /\ workers'["accept"].examined = workers["accept"].examined
    BY <1>0, <2>1, WorkerGoesTo DEF WorkerPlace
  <2>3. TypeOK'
    BY <1>0, <1>1, <1>2, <2>2, TypesKept
  <2> QED  BY <1>0, <1>1, <2>2, <2>3, OutsideKept
<1>4. CASE Shutdown \/ CloseSockets
  <2>1. \E place \in {"stop", "enter"} : GoTo("owner", place)
    BY <1>4 DEF Shutdown, CloseSockets
  <2>2. /\ workers' \in [Worker -> WorkerType] /\ OnlyMoves("owner")
        /\ workers'["owner"].at \in {"stop", "enter"}
        /\ workers'["owner"].idle = workers["owner"].idle
        /\ workers'["owner"].examined = workers["owner"].examined
    BY <1>0, <2>1, WorkerGoesTo DEF WorkerPlace
  <2>3. TypeOK'
    BY <1>0, <1>1, <1>2, <2>2, TypesKept
  <2> QED  BY <1>0, <1>1, <2>2, <2>3, OutsideKept
<1> QED  BY <1>3, <1>4

-----------------------------------------------------------------------------
(* Steps of the thread of a connection *)

\* Such a step keeps the invariant if the thread has been created, has not
\* exited, and keeps its connection alive and its handle.
LEMMA ThreadKept ==
    ASSUME GatewayInv, NEW c \in Connection, NEW rec \in ConnectionType,
           conns' = [conns EXCEPT ![c] = rec],
           UNCHANGED <<lock, list, isOpen, workers, clientSocket, gate_vars>>,
           recipientUURI' \in PlugNode \cup {None},
           conns[c].at # "exited",
           rec.isAlive = conns[c].isAlive, rec.hasHandle = conns[c].hasHandle, rec.at # "none",
           rec.at \in {"loop", "recv", "identify", "forward"} => ~rec.isFinished /\ ~rec.isPending,
           rec.at = "identify" => rec.infos # <<>>
    PROVE  GatewayInv'
<1>0. TypeOK /\ list' = list /\ list \in Seq(Connection) /\ workers' = workers /\ lock' = lock
  BY DEF GatewayInv, TypeOK
<1>1. /\ conns' \in Seq(ConnectionType) /\ Connection' = Connection /\ conns'[c] = rec
      /\ \A d \in Connection : d # c => conns'[d] = conns[d]
  BY <1>0, ConnectionBecomes
<1>2. \A d \in Connection :
         /\ conns'[d].isAlive = conns[d].isAlive /\ conns'[d].hasHandle = conns[d].hasHandle
         /\ conns[d].at # "none" => conns'[d].at # "none"
         /\ conns[d].at = "exited" => conns'[d].at = "exited"
  BY <1>1
<1>3. \A i \in 1 .. Len(list) : list[i] \in Connection
  BY <1>0, LenProperties
<1>4. TypeOK'
  <2>1. ConnectionType' = ConnectionType /\ WorkerType' = WorkerType
    BY <1>1 DEF ConnectionType, WorkerType
  <2> QED  BY <1>0, <1>1, <2>1 DEF TypeOK, gate_vars
<1>5. WalkersLocked' /\ OwnerCreatesNone' /\ RemovedOnlyIfFinished'
  BY <1>0 DEF GatewayInv, WalkersLocked, OwnerCreatesNone, RemovedOnlyIfFinished, Inside
<1>6. OwnedOnce'
  <2> SUFFICES ASSUME NEW w \in Worker, Owns(w)
               PROVE  LET d == workers[w].conn
                      IN  /\ d \in Connection /\ conns'[d].isAlive
                          /\ \A i \in 1 .. Len(list) : list[i] # d
                          /\ \A v \in Worker : Owns(v) /\ v # w => workers[v].conn # d
                          /\ \A v \in Worker : d \notin workers[v].idle
                          /\ workers[w].at # "create" => conns'[d].at # "none"
                          /\ workers[w].at \notin {"create", "store"} => conns'[d].hasHandle
    BY <1>0, <1>1 DEF OwnedOnce, Owns
  <2> QED  BY <1>2 DEF GatewayInv, OwnedOnce
<1>7. Listed'
  BY <1>0, <1>2, <1>3 DEF GatewayInv, Listed
<1>8. FlagsReset'
  BY <1>1 DEF GatewayInv, FlagsReset
<1>9. IdleAhead'
  BY <1>0, <1>2, <1>3 DEF GatewayInv, IdleAhead
<1> QED  BY <1>4, <1>5, <1>6, <1>7, <1>8, <1>9 DEF GatewayInv

LEMMA ThreadKeepsInv ==
    ASSUME GatewayInv, NEW c \in Connection, RunParallel(c)
    PROVE  GatewayInv'
<1>0. /\ TypeOK /\ conns[c] \in ConnectionType /\ conns[c].at \in ThreadPlace
      /\ conns[c].isFinished \in BOOLEAN /\ conns[c].isPending \in BOOLEAN
      /\ recipientUURI \in PlugNode \cup {None} /\ conns[c].infos \in Seq(PlugNode)
  <2>1. TypeOK
    BY DEF GatewayInv
  <2> QED  BY <2>1, ConnectionFields DEF TypeOK
<1>1. UNCHANGED <<lock, list, isOpen, workers, clientSocket, gate_vars>>
  BY DEF RunParallel, Begin, Loop, Recv, Fail, GetIdentifier, Forward, Return
<1>2. /\ conns[c].at \in {"loop", "recv", "identify", "forward"} =>
            ~conns[c].isFinished /\ ~conns[c].isPending
      /\ conns[c].at = "identify" => conns[c].infos # <<>>
  BY DEF GatewayInv, FlagsReset
<1>3. {"begin", "loop", "recv", "identify", "forward", "return", "exited"} \subseteq ThreadPlace
  BY DEF ThreadPlace
<1>4. CASE Begin(c)
  <2> DEFINE atIt == ThreadWithAt(conns[c], "loop")
             rec  == ThreadWithFlags(atIt, FALSE, FALSE)
  <2>1. atIt \in ConnectionType /\ atIt.at = "loop"
        /\ atIt.isAlive = conns[c].isAlive /\ atIt.hasHandle = conns[c].hasHandle
    BY <1>0, <1>3, ThreadWithAtTyped
  <2>2. conns' = [conns EXCEPT ![c] = rec] /\ conns[c].at = "begin" /\ recipientUURI' = recipientUURI
    BY <1>4 DEF Begin, ThreadAt, ThreadWithAt, ThreadWithFlags
  <2> HIDE DEF atIt
  <2>3. rec \in ConnectionType /\ rec.at = "loop" /\ ~rec.isFinished /\ ~rec.isPending
        /\ rec.isAlive = conns[c].isAlive /\ rec.hasHandle = conns[c].hasHandle
    BY <2>1, ThreadWithFlagsTyped
  <2> HIDE DEF rec
  <2> QED  BY <1>0, <1>1, <2>2, <2>3, ThreadKept
<1>5. CASE Loop(c) /\ conns[c].hasHandle
  <2> DEFINE rec == ThreadWithAt(conns[c], "recv")
  <2>1. conns' = [conns EXCEPT ![c] = rec] /\ conns[c].at = "loop" /\ recipientUURI' = recipientUURI
    BY <1>5 DEF Loop, ThreadAt, ThreadWithAt
  <2>2. /\ rec \in ConnectionType /\ rec.at = "recv"
        /\ rec.isAlive = conns[c].isAlive /\ rec.hasHandle = conns[c].hasHandle
        /\ rec.isFinished = conns[c].isFinished /\ rec.isPending = conns[c].isPending
    BY <1>0, <1>3, ThreadWithAtTyped
  <2> HIDE DEF rec
  <2>3. ~rec.isFinished /\ ~rec.isPending
    BY <1>2, <2>1, <2>2
  <2> QED  BY <1>0, <1>1, <2>1, <2>2, <2>3, ThreadKept
<1>6. CASE Loop(c) /\ ~conns[c].hasHandle
  <2> DEFINE atIt == ThreadWithAt(conns[c], "return")
             rec  == ThreadWithFlags(atIt, TRUE, atIt.isPending)
  <2>1. atIt \in ConnectionType /\ atIt.at = "return" /\ atIt.isPending = conns[c].isPending
        /\ atIt.isAlive = conns[c].isAlive /\ atIt.hasHandle = conns[c].hasHandle
    BY <1>0, <1>3, ThreadWithAtTyped
  <2>2. conns' = [conns EXCEPT ![c] = rec] /\ conns[c].at = "loop" /\ recipientUURI' = recipientUURI
    <3>1. conns' = [conns EXCEPT ![c] = [atIt EXCEPT !.isFinished = TRUE]]
          /\ conns[c].at = "loop" /\ recipientUURI' = recipientUURI
      BY <1>6 DEF Loop, ThreadAt, ThreadWithAt
    <3>2. [atIt EXCEPT !.isFinished = TRUE] = rec
      BY <2>1 DEF ThreadWithFlags, ConnectionType
    <3> QED  BY <3>1, <3>2
  <2> HIDE DEF atIt
  <2>3. atIt.isPending \in BOOLEAN /\ TRUE \in BOOLEAN
    BY <1>0, <2>1
  <2>4. rec \in ConnectionType /\ rec.at = "return"
        /\ rec.isAlive = conns[c].isAlive /\ rec.hasHandle = conns[c].hasHandle
    BY <2>1, <2>3, ThreadWithFlagsTyped
  <2> HIDE DEF rec
  <2> QED  BY <1>0, <1>1, <2>2, <2>4, ThreadKept
<1>7. CASE Recv(c)
  <2>1. PICK infos \in BoundedSeq(PlugNode, MaxInfos) \ {<<>>} :
          conns' = [conns EXCEPT ![c].at = "identify", ![c].infos = infos]
    BY <1>7 DEF Recv
  <2>2. infos \in Seq(PlugNode) /\ infos # <<>>
    BY <2>1, SeqDef DEF BoundedSeq, SeqOf
  <2> DEFINE atIt == ThreadWithAt(conns[c], "identify")
             rec  == ThreadWithInfos(atIt, infos)
  <2>3. atIt \in ConnectionType /\ atIt.at = "identify"
        /\ atIt.isAlive = conns[c].isAlive /\ atIt.hasHandle = conns[c].hasHandle
        /\ atIt.isFinished = conns[c].isFinished /\ atIt.isPending = conns[c].isPending
    BY <1>0, <1>3, ThreadWithAtTyped
  <2>4. conns' = [conns EXCEPT ![c] = rec]
    BY <2>1 DEF ThreadWithAt, ThreadWithInfos
  <2>5. conns[c].at = "recv" /\ recipientUURI' = recipientUURI
    BY <1>7 DEF Recv, ThreadAt
  <2> HIDE DEF atIt
  <2>6. rec \in ConnectionType /\ rec.at = "identify" /\ rec.infos = infos
        /\ rec.isAlive = conns[c].isAlive /\ rec.hasHandle = conns[c].hasHandle
        /\ rec.isFinished = conns[c].isFinished /\ rec.isPending = conns[c].isPending
    BY <2>2, <2>3, ThreadWithInfosTyped
  <2> HIDE DEF rec
  <2>7. ~rec.isFinished /\ ~rec.isPending
    BY <1>2, <2>5, <2>6
  <2> QED  BY <1>0, <1>1, <2>2, <2>4, <2>5, <2>6, <2>7, ThreadKept
<1>8. CASE Fail(c)
  <2> DEFINE atIt == ThreadWithAt(conns[c], "return")
             rec  == ThreadWithFlags(atIt, atIt.isFinished, TRUE)
  <2>1. atIt \in ConnectionType /\ atIt.at = "return" /\ atIt.isFinished = conns[c].isFinished
        /\ atIt.isAlive = conns[c].isAlive /\ atIt.hasHandle = conns[c].hasHandle
    BY <1>0, <1>3, ThreadWithAtTyped
  <2>2. conns' = [conns EXCEPT ![c] = rec] /\ conns[c].at = "recv" /\ recipientUURI' = recipientUURI
    <3>1. conns' = [conns EXCEPT ![c] = [atIt EXCEPT !.isPending = TRUE]]
          /\ conns[c].at = "recv" /\ recipientUURI' = recipientUURI
      BY <1>8 DEF Fail, ThreadAt, ThreadWithAt
    <3>2. [atIt EXCEPT !.isPending = TRUE] = rec
      BY <2>1 DEF ThreadWithFlags, ConnectionType
    <3> QED  BY <3>1, <3>2
  <2> HIDE DEF atIt
  <2>3. atIt.isFinished \in BOOLEAN /\ TRUE \in BOOLEAN
    BY <1>0, <2>1
  <2>4. rec \in ConnectionType /\ rec.at = "return"
        /\ rec.isAlive = conns[c].isAlive /\ rec.hasHandle = conns[c].hasHandle
    BY <2>1, <2>3, ThreadWithFlagsTyped
  <2> HIDE DEF rec
  <2> QED  BY <1>0, <1>1, <2>2, <2>4, ThreadKept
<1>9. CASE GetIdentifier(c)
  <2> DEFINE rec == ThreadWithAt(conns[c], "forward")
  <2>1. conns' = [conns EXCEPT ![c] = rec] /\ conns[c].at = "identify"
        /\ recipientUURI' = conns[c].infos[1]
    BY <1>9 DEF GetIdentifier, ThreadAt, ThreadGoTo, ThreadWithAt
  <2>2. /\ rec \in ConnectionType /\ rec.at = "forward"
        /\ rec.isAlive = conns[c].isAlive /\ rec.hasHandle = conns[c].hasHandle
        /\ rec.isFinished = conns[c].isFinished /\ rec.isPending = conns[c].isPending
    BY <1>0, <1>3, ThreadWithAtTyped
  <2> HIDE DEF rec
  <2>3. ~rec.isFinished /\ ~rec.isPending
    BY <1>2, <2>1, <2>2
  <2>4. conns[c].infos[1] \in PlugNode
    BY <1>0, <1>2, <2>1, EmptySeq, LenProperties
  <2> QED  BY <1>1, <2>1, <2>2, <2>3, <2>4, ThreadKept
<1>10. CASE Forward(c)
  <2> DEFINE atIt == ThreadWithAt(conns[c], "loop")
             rec  == ThreadWithInfos(atIt, <<>>)
  <2>1. atIt \in ConnectionType /\ atIt.at = "loop"
        /\ atIt.isAlive = conns[c].isAlive /\ atIt.hasHandle = conns[c].hasHandle
        /\ atIt.isFinished = conns[c].isFinished /\ atIt.isPending = conns[c].isPending
    BY <1>0, <1>3, ThreadWithAtTyped
  <2>2. conns' = [conns EXCEPT ![c] = rec] /\ conns[c].at = "forward" /\ recipientUURI' = recipientUURI
    BY <1>10 DEF Forward, ThreadAt, ThreadWithAt, ThreadWithInfos
  <2> HIDE DEF atIt
  <2>3. <<>> \in Seq(PlugNode)
    OBVIOUS
  <2>4. rec \in ConnectionType /\ rec.at = "loop"
        /\ rec.isAlive = conns[c].isAlive /\ rec.hasHandle = conns[c].hasHandle
        /\ rec.isFinished = conns[c].isFinished /\ rec.isPending = conns[c].isPending
    BY <2>1, <2>3, ThreadWithInfosTyped, ZenonT(40)
  <2> HIDE DEF rec
  <2>5. ~rec.isFinished /\ ~rec.isPending
    BY <1>2, <2>2, <2>4
  <2> QED  BY <1>0, <1>1, <2>2, <2>4, <2>5, ThreadKept
<1>11. CASE Return(c)
  <2> DEFINE rec == ThreadWithAt(conns[c], "exited")
  <2>1. conns' = [conns EXCEPT ![c] = rec] /\ conns[c].at = "return" /\ recipientUURI' = recipientUURI
    BY <1>11 DEF Return, ThreadAt, ThreadGoTo, ThreadWithAt
  <2>2. /\ rec \in ConnectionType /\ rec.at = "exited"
        /\ rec.isAlive = conns[c].isAlive /\ rec.hasHandle = conns[c].hasHandle
    BY <1>0, <1>3, ThreadWithAtTyped
  <2> HIDE DEF rec
  <2> QED  BY <1>0, <1>1, <2>1, <2>2, ThreadKept
<1> QED  BY <1>4, <1>5, <1>6, <1>7, <1>8, <1>9, <1>10, <1>11 DEF RunParallel

-----------------------------------------------------------------------------
(* From the constructor of a connection to its place on the list *)

\* Nobody but its owner knows a connection that is not on the list yet.
LEMMA OwnConnectionKept ==
    ASSUME GatewayInv, NEW w \in Worker, Owns(w), NEW rec \in ConnectionType,
           NEW c, c = workers[w].conn, conns' = [conns EXCEPT ![c] = rec],
           UNCHANGED <<lock, list, isOpen, clientSocket, gate_vars, recipientUURI>>,
           workers' \in [Worker -> WorkerType], OnlyMoves(w),
           workers'[w].conn = workers[w].conn, workers'[w].idle = workers[w].idle,
           workers'[w].examined = workers[w].examined,
           workers'[w].at \in {"store", "enter"},
           rec.isAlive, rec.at # "none", workers'[w].at = "enter" => rec.hasHandle,
           rec.at \in {"loop", "recv", "identify", "forward"} => ~rec.isFinished /\ ~rec.isPending,
           rec.at = "identify" => rec.infos # <<>>
    PROVE  GatewayInv'
<1>0. /\ TypeOK /\ list' = list /\ list \in Seq(Connection) /\ lock' = lock
      /\ w # "owner"
  BY DEF GatewayInv, TypeOK, Owns
<1>1. c \in Connection /\ c = workers[w].conn
  BY DEF GatewayInv, OwnedOnce
<1>2. \A i \in 1 .. Len(list) : list[i] \in Connection /\ list[i] # c
  BY <1>0, <1>1, LenProperties DEF GatewayInv, OwnedOnce
<1>3. \A v \in Worker : c \notin workers[v].idle /\ (Owns(v) /\ v # w => workers[v].conn # c)
  BY <1>1 DEF GatewayInv, OwnedOnce
<1>4. /\ conns' \in Seq(ConnectionType) /\ Connection' = Connection /\ conns'[c] = rec
      /\ \A d \in Connection : d # c => conns'[d] = conns[d]
  BY <1>0, <1>1, ConnectionBecomes
<1>5. ~Inside(w)' /\ Owns(w)' /\ \A v \in Worker : v # w => (Owns(v)' <=> Owns(v)) /\ (Inside(v)' <=> Inside(v))
  BY <1>0 DEF Inside, Owns, OnlyMoves
<1>6. TypeOK'
  <2>1. ConnectionType' = ConnectionType /\ WorkerType' = WorkerType
    BY <1>4 DEF ConnectionType, WorkerType
  <2> QED  BY <1>0, <1>4, <2>1 DEF TypeOK, gate_vars
<1>7. WalkersLocked'
  BY <1>0, <1>5 DEF GatewayInv, WalkersLocked, OnlyMoves
<1>8. OwnedOnce'
  <2> SUFFICES ASSUME NEW v \in Worker, Owns(v)'
               PROVE  LET d == workers'[v].conn
                      IN  /\ d \in Connection /\ conns'[d].isAlive
                          /\ \A i \in 1 .. Len(list) : list[i] # d
                          /\ \A u \in Worker : Owns(u)' /\ u # v => workers'[u].conn # d
                          /\ \A u \in Worker : d \notin workers'[u].idle
                          /\ workers'[v].at # "create" => conns'[d].at # "none"
                          /\ workers'[v].at \notin {"create", "store"} => conns'[d].hasHandle
    BY <1>0, <1>4 DEF OwnedOnce
  <2>1. \A u \in Worker : workers'[u].conn = workers[u].conn /\ workers'[u].idle = workers[u].idle
    BY DEF OnlyMoves
  <2>2. \A u \in Worker : Owns(u)' => Owns(u)
    BY <1>5
  <2>3. CASE v = w
    BY <1>0, <1>1, <1>2, <1>3, <1>4, <2>1, <2>2, <2>3
  <2>4. CASE v # w
    <3>1. workers'[v] = workers[v] /\ Owns(v) /\ workers[v].conn # c
      BY <1>3, <2>2, <2>4 DEF OnlyMoves
    <3>2. conns'[workers[v].conn] = conns[workers[v].conn]
      BY <1>4, <3>1 DEF GatewayInv, OwnedOnce
    <3>3. \A u \in Worker : Owns(u)' /\ u # v => workers'[u].conn # workers[v].conn
      BY <2>1, <2>2, <3>1 DEF GatewayInv, OwnedOnce
    <3> QED  BY <2>1, <3>1, <3>2, <3>3 DEF GatewayInv, OwnedOnce
  <2> QED  BY <2>3, <2>4
<1>9. OwnerCreatesNone' /\ RemovedOnlyIfFinished'
  BY <1>0 DEF GatewayInv, OwnerCreatesNone, RemovedOnlyIfFinished, OnlyMoves, Worker
<1>10. Listed'
  BY <1>0, <1>2, <1>4 DEF GatewayInv, Listed
<1>11. FlagsReset'
  BY <1>4 DEF GatewayInv, FlagsReset
<1>12. IdleAhead'
  <2>1. workers'[w].at \notin {"cleanup", "delete", "add", "gone"}
    OBVIOUS
  <2>2. \A i \in 1 .. Len(list) : conns'[list[i]] = conns[list[i]]
    BY <1>2, <1>4
  <2> QED  BY <1>0, <2>1, <2>2 DEF GatewayInv, IdleAhead, OnlyMoves
<1> QED  BY <1>6, <1>7, <1>8, <1>9, <1>10, <1>11, <1>12 DEF GatewayInv

LEMMA StartKeepsInv ==
    ASSUME GatewayInv, NEW w \in Worker, CreateThread(w) \/ StoreHandle(w)
    PROVE  GatewayInv'
<1> DEFINE c == workers[w].conn
<1>1. UNCHANGED <<lock, list, isOpen, clientSocket, gate_vars, recipientUURI>> /\ TypeOK
  BY DEF CreateThread, StoreHandle, GatewayInv
<1>2. Owns(w)
  BY DEF CreateThread, StoreHandle, At, Owns, GatewayInv, OwnerCreatesNone
<1>3. c \in Connection /\ conns[c].isAlive /\ (workers[w].at # "create" => conns[c].at # "none")
  BY <1>2 DEF GatewayInv, OwnedOnce
<1>4. conns[c] \in ConnectionType
  BY <1>1, <1>3, ConnectionFields
<1>5. CASE CreateThread(w)
  <2> DEFINE rec == ThreadWithAt(conns[c], "begin")
  <2>1. conns' = [conns EXCEPT ![workers[w].conn] = rec] /\ GoTo(w, "store")
    BY <1>5 DEF CreateThread, ThreadGoTo, ThreadWithAt
  <2>2. "begin" \in ThreadPlace /\ "store" \in WorkerPlace
    BY DEF ThreadPlace, WorkerPlace
  <2>3. rec \in ConnectionType /\ rec.at = "begin" /\ rec.isAlive
    BY <1>3, <1>4, <2>2, ThreadWithAtTyped
  <2> HIDE DEF rec
  <2>4. /\ workers' \in [Worker -> WorkerType] /\ OnlyMoves(w) /\ workers'[w].at = "store"
        /\ workers'[w].conn = workers[w].conn
        /\ workers'[w].idle = workers[w].idle /\ workers'[w].examined = workers[w].examined
    BY <1>1, <2>1, <2>2, WorkerGoesTo
  <2> QED  BY <1>1, <1>2, <2>1, <2>3, <2>4, OwnConnectionKept
<1>6. CASE StoreHandle(w)
  <2> DEFINE rec == [conns[c] EXCEPT !.hasHandle = TRUE]
  <2>1. conns' = [conns EXCEPT ![workers[w].conn] = rec] /\ GoTo(w, "enter") /\ workers[w].at = "store"
    BY <1>6 DEF StoreHandle, At
  <2>2. "enter" \in WorkerPlace
    BY DEF WorkerPlace
  <2>3. /\ rec \in ConnectionType /\ rec.at = conns[c].at /\ rec.isAlive = conns[c].isAlive
        /\ rec.hasHandle = TRUE /\ rec.isFinished = conns[c].isFinished
        /\ rec.isPending = conns[c].isPending /\ rec.infos = conns[c].infos
    BY <1>4 DEF ConnectionType
  <2> HIDE DEF rec
  <2>4. /\ rec.isAlive /\ rec.at # "none" /\ rec.hasHandle
        /\ rec.at \in {"loop", "recv", "identify", "forward"} => ~rec.isFinished /\ ~rec.isPending
        /\ rec.at = "identify" => rec.infos # <<>>
    BY <1>3, <2>1, <2>3 DEF GatewayInv, FlagsReset
  <2>5. /\ workers' \in [Worker -> WorkerType] /\ OnlyMoves(w) /\ workers'[w].at = "enter"
        /\ workers'[w].conn = workers[w].conn
        /\ workers'[w].idle = workers[w].idle /\ workers'[w].examined = workers[w].examined
    BY <1>1, <2>1, <2>2, WorkerGoesTo
  <2> QED  BY <1>1, <1>2, <2>1, <2>3, <2>4, <2>5, OwnConnectionKept
<1> QED  BY <1>5, <1>6

\* A new connection is in nobody's hands but its creator's.
LEMMA CreatedKept ==
    ASSUME GatewayInv, NEW w \in Worker, w # "owner", ~Inside(w), ~Owns(w),
           NEW socket \in DOMAIN isOpen' \cup {None}, NewConnection(w, socket),
           isOpen' \in Seq(BOOLEAN), DOMAIN isOpen \subseteq DOMAIN isOpen',
           UNCHANGED <<lock, list, clientSocket, gate_vars, recipientUURI>>
    PROVE  GatewayInv'
<1> DEFINE c == Len(conns) + 1
<1>0. /\ TypeOK /\ list' = list /\ list \in Seq(Connection) /\ lock' = lock
      /\ conns \in Seq(ConnectionType) /\ Len(conns) \in Nat /\ Connection = 1 .. Len(conns)
  <2>1. TypeOK /\ list' = list /\ list \in Seq(Connection) /\ lock' = lock
        /\ conns \in Seq(ConnectionType)
    BY DEF GatewayInv, TypeOK
  <2> QED  BY <2>1, LenProperties DEF Connection
<1>1. PICK flag \in FreshFlags :
        conns' = Append(conns, [Fresh EXCEPT !.socket = socket, !.isFinished = flag, !.isPending = flag])
  BY DEF NewConnection
<1> DEFINE new == [Fresh EXCEPT !.socket = socket, !.isFinished = flag, !.isPending = flag]
<1>2. new \in ConnectionType' /\ new.isAlive = TRUE /\ new.at = "none"
  <2>1. <<>> \in Seq(PlugNode) /\ flag \in BOOLEAN /\ socket \in DOMAIN isOpen' \cup {None}
    BY EmptySeq
  <2> DEFINE withSocket == [Fresh EXCEPT !.socket = socket]
             withFlag   == [withSocket EXCEPT !.isFinished = flag]
  <2>2. Fresh \in ConnectionType' /\ Fresh.isAlive = TRUE /\ Fresh.at = "none"
    BY <2>1 DEF Fresh, ConnectionType, ThreadPlace
  <2>3. withSocket \in ConnectionType' /\ withSocket.isAlive = TRUE /\ withSocket.at = "none"
    BY <2>1, <2>2 DEF ConnectionType
  <2>4. new = [withFlag EXCEPT !.isPending = flag]
    OBVIOUS
  <2> HIDE DEF withSocket, new
  <2>5. withFlag \in ConnectionType' /\ withFlag.isAlive = TRUE /\ withFlag.at = "none"
    BY <2>1, <2>3 DEF ConnectionType
  <2> HIDE DEF withFlag
  <2> QED  BY <2>1, <2>4, <2>5 DEF ConnectionType
<1>3. conns \in Seq(ConnectionType')
  <2>1. ConnectionType \subseteq ConnectionType'
    BY DEF ConnectionType
  <2> QED  BY <1>0, <2>1, SeqMonotonic
<1> HIDE DEF new
<1>4. /\ conns' \in Seq(ConnectionType') /\ Len(conns') = c /\ conns'[c] = new
      /\ \A d \in 1 .. Len(conns) : conns'[d] = conns[d]
  <2>1. conns' = Append(conns, new)
    BY <1>1 DEF new
  <2> QED  BY <1>2, <1>3, <2>1, AppendProperties
<1>5. /\ Connection' = 1 .. c /\ Connection \subseteq Connection' /\ c \in Connection' /\ c \notin Connection
      /\ Connection' = Connection \cup {c}
  <2>1. Connection' = 1 .. c
    BY <1>4, LenProperties DEF Connection
  <2> QED  BY <1>0, <2>1
<1> HIDE DEF c
<1>6. \A d \in Connection : conns'[d] = conns[d]
  BY <1>0, <1>4
<1>7. /\ workers'[w] \in WorkerType' /\ OnlyMoves(w)
      /\ workers'[w].at = "create" /\ workers'[w].conn = c
      /\ workers'[w].idle = {} /\ workers'[w].examined = None
  <2> DEFINE rec == [Idle EXCEPT !.at = "create", !.conn = c]
  <2> DEFINE atIt == [Idle EXCEPT !.at = "create"]
  <2>1. Idle \in WorkerType' /\ Idle.idle = {} /\ Idle.examined = None
    BY DEF Idle, WorkerType, WorkerPlace
  <2>2. workers' = [workers EXCEPT ![w] = rec]
    BY DEF NewConnection, c
  <2>3. rec = [atIt EXCEPT !.conn = c]
    OBVIOUS
  <2>4. /\ atIt \in WorkerType' /\ atIt.at = "create" /\ atIt.idle = {} /\ atIt.examined = None
    BY <2>1 DEF WorkerType, WorkerPlace
  <2> HIDE DEF atIt, rec
  <2>5. /\ rec \in WorkerType' /\ rec.at = "create" /\ rec.conn = c
        /\ rec.idle = {} /\ rec.examined = None
    BY <1>5, <2>3, <2>4 DEF WorkerType
  <2> QED  BY <1>0, <2>2, <2>5 DEF TypeOK, OnlyMoves
<1>8. workers' \in [Worker -> WorkerType']
  <2>1. WorkerType \subseteq WorkerType'
    BY <1>5 DEF WorkerType
  <2>2. \A v \in Worker : workers'[v] \in WorkerType'
    BY <1>0, <1>7, <2>1 DEF TypeOK, OnlyMoves
  <2>3. workers' = [workers EXCEPT ![w] = workers'[w]]
    BY <1>0 DEF NewConnection, TypeOK
  <2>4. DOMAIN workers' = Worker /\ workers' = [v \in Worker |-> workers'[v]]
    BY <1>0, <2>3 DEF TypeOK
  <2> QED  BY <2>2, <2>4
<1>9. \A i \in 1 .. Len(list) : list[i] \in Connection
  BY <1>0, LenProperties
<1>10. \A v \in Worker : v # w => (Owns(v)' <=> Owns(v)) /\ (Inside(v)' <=> Inside(v))
  BY DEF Inside, Owns, NewConnection, OnlyMoves
<1>11. ~Inside(w)' /\ Owns(w)'
  BY <1>7 DEF Inside, Owns
<1>12. TypeOK'
  <2>1. list' \in Seq(Connection')
    BY <1>0, <1>5, SeqMonotonic
  <2> QED  BY <1>0, <1>4, <1>8, <2>1 DEF TypeOK, gate_vars
<1>13. WalkersLocked'
  BY <1>0, <1>7, <1>10, <1>11 DEF GatewayInv, WalkersLocked, OnlyMoves
<1>14. OwnedOnce'
  <2> SUFFICES ASSUME NEW v \in Worker, Owns(v)'
               PROVE  LET d == workers'[v].conn
                      IN  /\ d \in Connection' /\ conns'[d].isAlive
                          /\ \A i \in 1 .. Len(list) : list[i] # d
                          /\ \A u \in Worker : Owns(u)' /\ u # v => workers'[u].conn # d
                          /\ \A u \in Worker : d \notin workers'[u].idle
                          /\ workers'[v].at # "create" => conns'[d].at # "none"
                          /\ workers'[v].at \notin {"create", "store"} => conns'[d].hasHandle
    BY <1>0 DEF OwnedOnce
  <2>1. \A u \in Worker : workers[u].idle \subseteq Connection
    BY <1>0, WorkerFields
  <2>2. \A u \in Worker : Owns(u)' /\ u # w => Owns(u) /\ workers'[u] = workers[u] /\ workers[u].conn \in Connection
    BY <1>7, <1>10 DEF GatewayInv, OwnedOnce, OnlyMoves
  <2>3. \A u \in Worker : c \notin workers'[u].idle
    BY <1>5, <1>7, <2>1 DEF OnlyMoves
  <2>4. CASE v = w
    BY <1>2, <1>4, <1>5, <1>7, <1>9, <2>2, <2>3, <2>4
  <2>5. CASE v # w
    <3>1. Owns(v) /\ workers'[v] = workers[v] /\ workers[v].conn \in Connection
      BY <2>2, <2>5
    <3>2. \A u \in Worker : Owns(u)' /\ u # v => workers'[u].conn # workers[v].conn
      BY <1>5, <1>7, <2>2, <3>1 DEF GatewayInv, OwnedOnce
    <3>3. \A u \in Worker : workers[v].conn \notin workers'[u].idle
      BY <1>7, <3>1 DEF GatewayInv, OwnedOnce, OnlyMoves
    <3> QED  BY <1>5, <1>6, <3>1, <3>2, <3>3 DEF GatewayInv, OwnedOnce
  <2> QED  BY <2>4, <2>5
<1>15. OwnerCreatesNone' /\ RemovedOnlyIfFinished'
  BY <1>7 DEF GatewayInv, OwnerCreatesNone, RemovedOnlyIfFinished, OnlyMoves, Worker
<1>16. Listed'
  BY <1>0, <1>6, <1>9 DEF GatewayInv, Listed
<1>17. FlagsReset'
  <2> SUFFICES ASSUME NEW d \in Connection'
               PROVE  /\ conns'[d].at \in {"loop", "recv", "identify", "forward"} =>
                           ~conns'[d].isFinished /\ ~conns'[d].isPending
                      /\ conns'[d].at = "identify" => conns'[d].infos # <<>>
    BY DEF FlagsReset
  <2>1. CASE d = c
    BY <1>2, <1>4, <2>1
  <2>2. CASE d \in Connection
    BY <1>6, <2>2 DEF GatewayInv, FlagsReset
  <2> QED  BY <1>5, <2>1, <2>2
<1>18. IdleAhead'
  <2>1. workers'[w].at \notin {"cleanup", "delete", "add", "gone"}
    BY <1>7
  <2>2. \A i \in 1 .. Len(list) : conns'[list[i]] = conns[list[i]]
    BY <1>6, <1>9
  <2>3. \A v \in Worker : v # w => workers'[v] = workers[v]
    BY <1>7 DEF OnlyMoves
  <2>4. list' = list /\ IdleAhead
    BY <1>0 DEF GatewayInv
  <2> QED  BY <2>1, <2>2, <2>3, <2>4, SMTT(30) DEF IdleAhead
<1> QED  BY <1>12, <1>13, <1>14, <1>15, <1>16, <1>17, <1>18 DEF GatewayInv

LEMMA CreationKeepsInv ==
    ASSUME GatewayInv, (\E w \in Sender : Connect(w)) \/ Accept
    PROVE  GatewayInv'
<1>0. TypeOK /\ isOpen \in Seq(BOOLEAN) /\ clientSocket \in DOMAIN isOpen \cup {None}
  BY DEF GatewayInv, TypeOK
<1>1. ASSUME NEW w \in Sender, Connect(w)
      PROVE  GatewayInv'
  <2>1. w \in Worker /\ w # "owner" /\ ~Inside(w) /\ ~Owns(w)
    BY <1>1 DEF Worker, Connect, At, Inside, Owns
  <2>2. /\ NewConnection(w, clientSocket) /\ isOpen' = isOpen
        /\ UNCHANGED <<lock, list, clientSocket, gate_vars, recipientUURI>>
    BY <1>1 DEF Connect
  <2> QED  BY <1>0, <2>1, <2>2, CreatedKept
<1>2. CASE Accept
  <2>1. "accept" \in Worker /\ "accept" # "owner" /\ ~Inside("accept") /\ ~Owns("accept")
    BY <1>2 DEF Worker, Accept, At, Inside, Owns
  <2>2. /\ NewConnection("accept", NextSocket) /\ OpenNext
        /\ UNCHANGED <<lock, list, clientSocket, gate_vars, recipientUURI>>
    BY <1>2 DEF Accept
  <2>3. /\ isOpen' \in Seq(BOOLEAN) /\ DOMAIN isOpen \subseteq DOMAIN isOpen'
        /\ NextSocket \in DOMAIN isOpen'
    BY <1>0, <2>2, SocketOpened
  <2> QED  BY <2>1, <2>2, <2>3, CreatedKept
<1> QED  BY <1>1, <1>2

\* addToGatewayConnectionList() has the list to itself.
LEMMA AddKeepsInv ==
    ASSUME GatewayInv, NEW w \in Worker, AddToList(w)
    PROVE  GatewayInv'
<1> DEFINE c == workers[w].conn
<1>0. /\ TypeOK /\ list \in Seq(Connection) /\ conns' = conns /\ Connection' = Connection
      /\ workers[w].at = "add" /\ lock = None /\ lock' = None /\ isOpen' = isOpen
      /\ list' = <<c>> \o list /\ Len(list) \in Nat
      /\ UNCHANGED <<gate_vars, recipientUURI>>
  <2>1. TypeOK /\ list \in Seq(Connection)
    BY DEF GatewayInv, TypeOK
  <2> QED  BY <2>1, LenProperties DEF AddToList, At, Connection
<1>1. w # "owner" /\ Owns(w)
  BY <1>0 DEF GatewayInv, OwnerCreatesNone, Owns
<1>2. /\ c \in Connection /\ conns[c].isAlive /\ conns[c].hasHandle /\ conns[c].at # "none"
      /\ \A i \in 1 .. Len(list) : list[i] # c
      /\ \A v \in Worker : c \notin workers[v].idle /\ (Owns(v) /\ v # w => workers[v].conn # c)
  BY <1>0, <1>1 DEF GatewayInv, OwnedOnce
<1>3. ASSUME NEW v \in Worker PROVE ~Inside(v)
  <2>1. v # None
    BY DEF Worker
  <2> QED  BY <1>0, <2>1 DEF GatewayInv, WalkersLocked
<1>4. /\ workers'[w] \in WorkerType /\ workers' \in [Worker -> WorkerType] /\ OnlyMoves(w)
      /\ workers'[w].at \in {"send", "idle"} /\ workers'[w].idle = {} /\ workers'[w].examined = None
  <2> DEFINE sends == [Idle EXCEPT !.at = "send"]
             rec   == [sends EXCEPT !.conn = c]
  <2>1. sends \in WorkerType /\ sends.at = "send" /\ sends.idle = {} /\ sends.examined = None
    BY IdleIsTyped DEF WorkerType, WorkerPlace
  <2>2. rec = [Idle EXCEPT !.at = "send", !.conn = workers[w].conn]
    OBVIOUS
  <2> HIDE DEF sends
  <2>3. rec \in WorkerType /\ rec.at = "send" /\ rec.idle = {} /\ rec.examined = None
    BY <1>2, <2>1 DEF WorkerType
  <2> HIDE DEF rec
  <2>4. workers' = [workers EXCEPT ![w] = IF w \in Sender THEN rec ELSE Idle]
    BY <2>2 DEF AddToList
  <2> QED  BY <1>0, <2>3, <2>4, IdleIsTyped, WorkerBecomes
<1> HIDE DEF c
<1>5. /\ list' \in Seq(Connection) /\ Len(list') = Len(list) + 1 /\ list'[1] = c
      /\ \A i \in 2 .. Len(list) + 1 : i - 1 \in 1 .. Len(list) /\ list'[i] = list[i - 1]
  <2>1. <<c>> \in Seq(Connection) /\ Len(<<c>>) = 1 /\ <<c>>[1] = c
    BY <1>2
  <2>2. /\ <<c>> \o list \in Seq(Connection) /\ Len(<<c>> \o list) = Len(<<c>>) + Len(list)
        /\ \A i \in 1 .. Len(<<c>>) + Len(list) : (<<c>> \o list)[i] =
              IF i <= Len(<<c>>) THEN <<c>>[i] ELSE list[i - Len(<<c>>)]
    BY <1>0, <2>1, ConcatProperties
  <2> HIDE DEF c
  <2> QED  BY <1>0, <2>1, <2>2
<1>6. \A i \in 1 .. Len(list') : list'[i] = c \/ \E j \in 1 .. Len(list) : i = j + 1 /\ list'[i] = list[j]
  <2> SUFFICES ASSUME NEW i \in 1 .. Len(list'), i # 1
               PROVE  \E j \in 1 .. Len(list) : i = j + 1 /\ list'[i] = list[j]
    BY <1>5
  <2>1. i \in 2 .. Len(list) + 1 /\ i = (i - 1) + 1
    BY <1>0, <1>5
  <2> QED  BY <1>5, <2>1
<1>7. \A i \in 1 .. Len(list') : list'[i] = c => i = 1
  <2> SUFFICES ASSUME NEW i \in 1 .. Len(list'), list'[i] = c, i # 1  PROVE FALSE
    OBVIOUS
  <2>1. i \in 2 .. Len(list) + 1
    BY <1>0, <1>5
  <2> QED  BY <1>2, <1>5, <2>1
<1>8. \A v \in Worker : v # w => workers'[v] = workers[v]
  BY <1>4 DEF OnlyMoves
<1>9. \A v \in Worker : ~Inside(v)' /\ (Owns(v)' => v # w /\ Owns(v))
  BY <1>3, <1>4, <1>8 DEF Inside, Owns
<1>10. TypeOK'
  <2>1. clientSocket' \in DOMAIN isOpen' \cup {None}
    BY <1>0 DEF AddToList, TypeOK
  <2>2. ConnectionType' = ConnectionType /\ WorkerType' = WorkerType
    BY <1>0 DEF ConnectionType, WorkerType
  <2> QED  BY <1>0, <1>4, <1>5, <2>1, <2>2 DEF TypeOK, gate_vars
<1>11. WalkersLocked'
  BY <1>9 DEF WalkersLocked
<1>12. OwnedOnce'
  <2> SUFFICES ASSUME NEW v \in Worker, Owns(v)'
               PROVE  LET d == workers'[v].conn
                      IN  /\ d \in Connection /\ conns[d].isAlive
                          /\ \A i \in 1 .. Len(list') : list'[i] # d
                          /\ \A u \in Worker : Owns(u)' /\ u # v => workers'[u].conn # d
                          /\ \A u \in Worker : d \notin workers'[u].idle
                          /\ workers'[v].at # "create" => conns[d].at # "none"
                          /\ workers'[v].at \notin {"create", "store"} => conns[d].hasHandle
    BY <1>0 DEF OwnedOnce
  <2>1. v # w /\ Owns(v) /\ workers'[v] = workers[v] /\ workers[v].conn # c
    BY <1>2, <1>8, <1>9
  <2>2. \A i \in 1 .. Len(list') : list'[i] # workers[v].conn
    BY <1>6, <2>1 DEF GatewayInv, OwnedOnce
  <2>3. \A u \in Worker : Owns(u)' /\ u # v => workers'[u].conn # workers[v].conn
    BY <1>8, <1>9, <2>1 DEF GatewayInv, OwnedOnce
  <2>4. \A u \in Worker : workers[v].conn \notin workers'[u].idle
    BY <1>4, <1>8, <2>1 DEF GatewayInv, OwnedOnce
  <2> QED  BY <2>1, <2>2, <2>3, <2>4 DEF GatewayInv, OwnedOnce
<1>13. OwnerCreatesNone' /\ RemovedOnlyIfFinished'
  BY <1>1, <1>4, <1>8 DEF GatewayInv, OwnerCreatesNone, RemovedOnlyIfFinished, Worker
<1>14. Listed'
  <2>1. ASSUME NEW i \in 1 .. Len(list')
        PROVE  conns[list'[i]].isAlive /\ conns[list'[i]].hasHandle /\ conns[list'[i]].at # "none"
    BY <1>2, <1>6 DEF GatewayInv, Listed
  <2>2. ASSUME NEW i \in 1 .. Len(list'), NEW j \in 1 .. Len(list'), list'[i] = list'[j]
        PROVE  i = j
    <3>1. CASE list'[i] = c
      BY <1>7, <2>2, <3>1
    <3>2. CASE list'[i] # c
      <4>1. PICK m \in 1 .. Len(list) : i = m + 1 /\ list'[i] = list[m]
        BY <1>6, <3>2
      <4>2. PICK n \in 1 .. Len(list) : j = n + 1 /\ list'[j] = list[n]
        BY <1>6, <2>2, <3>2
      <4>3. m = n
        BY <2>2, <4>1, <4>2 DEF GatewayInv, Listed
      <4> QED  BY <4>1, <4>2, <4>3
    <3> QED  BY <3>1, <3>2
  <2> QED  BY <1>0, <2>1, <2>2 DEF Listed
<1>15. FlagsReset'
  BY <1>0 DEF GatewayInv, FlagsReset
<1>16. IdleAhead'
  <2> SUFFICES ASSUME NEW v \in Worker
               PROVE  /\ workers'[v].at \notin {"cleanup", "delete"}
                      /\ workers'[v].at \in {"add", "gone"} =>
                           \A i \in 1 .. Len(list') : list'[i] \notin workers'[v].idle
    BY DEF IdleAhead
  <2>1. workers'[v].at \notin {"cleanup", "delete"}
    BY <1>9 DEF Inside
  <2>2. ASSUME workers'[v].at \in {"add", "gone"}, NEW i \in 1 .. Len(list')
        PROVE  list'[i] \notin workers'[v].idle
    <3>1. v # w /\ workers'[v] = workers[v]
      BY <1>4, <1>8, <2>2
    <3>2. \A j \in 1 .. Len(list) : list[j] \notin workers[v].idle
      BY <2>2, <3>1 DEF GatewayInv, IdleAhead
    <3> QED  BY <1>2, <1>6, <3>1, <3>2
  <2> QED  BY <2>1, <2>2
<1> QED  BY <1>10, <1>11, <1>12, <1>13, <1>14, <1>15, <1>16 DEF GatewayInv

\* The deletion: nobody else is on the list, nobody owns what is on it, and
\* what is left of it moves up under the walk.
LEMMA DeleteKeepsInv ==
    ASSUME GatewayInv, NEW w \in Worker, DeleteConnection(w)
    PROVE  GatewayInv'
<1> DEFINE k == workers[w].pos
           c == list[k]
           dead == [Fresh EXCEPT !.isAlive = FALSE]
<1>0. /\ TypeOK /\ list \in Seq(Connection) /\ workers[w].at = "delete"
      /\ conns' = [conns EXCEPT ![c] = dead] /\ Close(conns[c].socket)
      /\ list' = RemoveAt(list, k) /\ Len(list) \in Nat
      /\ UNCHANGED <<lock, clientSocket, gate_vars, recipientUURI>>
  <2>1. TypeOK /\ list \in Seq(Connection)
    BY DEF GatewayInv, TypeOK
  <2> QED  BY <2>1, LenProperties DEF DeleteConnection, Delete, At
<1>1. lock = w /\ k \in 1 .. Len(list)
  BY <1>0 DEF GatewayInv, WalkersLocked, Inside
<1>2. c \in Connection /\ \A i \in 1 .. Len(list) : list[i] \in Connection /\ (list[i] = c => i = k)
  <2>1. \A i \in 1 .. Len(list) : list[i] \in Connection
    BY <1>0, LenProperties
  <2> QED  BY <1>1, <2>1 DEF GatewayInv, Listed
<1>3. dead \in ConnectionType /\ dead.at = "none"
  <2>1. <<>> \in Seq(PlugNode)
    OBVIOUS
  <2>2. Fresh \in ConnectionType /\ Fresh.at = "none"
    BY <2>1 DEF Fresh, ConnectionType, ThreadPlace
  <2> QED  BY <2>2 DEF ConnectionType
<1>4. /\ RemoveAt(list, k) \in Seq(Connection) /\ Len(RemoveAt(list, k)) = Len(list) - 1
      /\ \A i \in 1 .. Len(list) - 1 : RemoveAt(list, k)[i] = IF i < k THEN list[i] ELSE list[i + 1]
  BY <1>0, <1>1, RemoveAtProperties
<1>5. /\ workers' \in [Worker -> WorkerType] /\ OnlyMoves(w)
      /\ workers'[w].at = "cleanup" /\ workers'[w].pos = workers[w].pos
      /\ workers'[w].conn = workers[w].conn
      /\ workers'[w].idle = workers[w].idle /\ workers'[w].examined = None
  <2> DEFINE atIt == WithAt(workers[w], "cleanup")
             rec  == WithExamined(atIt, None)
  <2>1. workers[w] \in WorkerType
    BY <1>0, WorkerFields
  <2>2. "cleanup" \in WorkerPlace /\ None \in ThreadPlace \cup {None}
    BY DEF WorkerPlace
  <2>3. workers' = [workers EXCEPT ![w] = rec]
    BY DEF DeleteConnection, WithAt, WithExamined
  <2>4. /\ atIt \in WorkerType /\ atIt.at = "cleanup" /\ atIt.pos = workers[w].pos
        /\ atIt.conn = workers[w].conn /\ atIt.idle = workers[w].idle
    BY <2>1, <2>2, WithAtTyped
  <2> HIDE DEF atIt
  <2>5. /\ rec \in WorkerType /\ rec.at = "cleanup" /\ rec.pos = workers[w].pos
        /\ rec.conn = workers[w].conn /\ rec.idle = workers[w].idle /\ rec.examined = None
    BY <2>2, <2>4, WithExaminedTyped
  <2> HIDE DEF rec
  <2> QED  BY <1>0, <2>3, <2>5, WorkerBecomes
<1>6. k \in Nat /\ workers[w].pos = k
  BY <1>0, WorkerFields
<1> HIDE DEF c, dead, k
<1>7. /\ conns' \in Seq(ConnectionType) /\ Connection' = Connection /\ conns'[c] = dead
      /\ \A d \in Connection : d # c => conns'[d] = conns[d]
  BY <1>0, <1>2, <1>3, ConnectionBecomes
<1>8. isOpen' \in Seq(BOOLEAN) /\ DOMAIN isOpen' = DOMAIN isOpen
  BY <1>0, SocketClosed
<1>9. /\ list' \in Seq(Connection) /\ Len(list') = Len(list) - 1
      /\ \A i \in 1 .. Len(list') : list'[i] = IF i < k THEN list[i] ELSE list[i + 1]
  BY <1>0, <1>4
\* Where an element of the list was before.
<1> DEFINE from(i) == IF i < k THEN i ELSE i + 1
<1>10. \A i \in 1 .. Len(list') : from(i) \in 1 .. Len(list) /\ list'[i] = list[from(i)] /\ from(i) # k
  <2> SUFFICES ASSUME NEW i \in 1 .. Len(list')
               PROVE  from(i) \in 1 .. Len(list) /\ list'[i] = list[from(i)] /\ from(i) # k
    OBVIOUS
  <2>1. from(i) \in 1 .. Len(list) /\ from(i) # k
    BY <1>0, <1>1, <1>6, <1>9
  <2> QED  BY <1>9, <2>1
<1>11. \A i \in 1 .. Len(list') : list'[i] \in Connection /\ list'[i] # c /\ conns'[list'[i]] = conns[list'[i]]
  BY <1>2, <1>7, <1>10
<1>12. \A v \in Worker : v # w => workers'[v] = workers[v] /\ ~Inside(v)
  BY <1>1, <1>5 DEF GatewayInv, WalkersLocked, OnlyMoves
<1>13. \A v \in Worker : Owns(v)' => Owns(v) /\ workers'[v].conn = workers[v].conn /\ workers[v].conn # c
  <2>1. \A v \in Worker : Owns(v)' => Owns(v) /\ workers'[v].conn = workers[v].conn
    BY <1>0, <1>5, <1>12 DEF Owns
  <2>2. \A v \in Worker : Owns(v) => workers[v].conn # c
    BY <1>1 DEF GatewayInv, OwnedOnce, c
  <2> QED  BY <2>1, <2>2
<1>14. \A v \in Worker : workers'[v].idle = workers[v].idle
  BY <1>5, <1>12
<1>15. TypeOK'
  <2>1. ConnectionType' = ConnectionType /\ WorkerType' = WorkerType
    BY <1>7, <1>8 DEF ConnectionType, WorkerType
  <2> QED  BY <1>0, <1>5, <1>7, <1>8, <1>9, <2>1 DEF TypeOK, gate_vars
<1>16. WalkersLocked'
  <2>1. k \in 1 .. Len(list') + 1 /\ lock' = w
    BY <1>0, <1>1, <1>9
  <2>2. \A v \in Worker : Inside(v)' => v = w
    BY <1>12 DEF Inside
  <2> QED  BY <1>5, <1>6, <2>1, <2>2 DEF WalkersLocked
<1>17. OwnedOnce'
  <2> SUFFICES ASSUME NEW v \in Worker, Owns(v)'
               PROVE  LET d == workers'[v].conn
                      IN  /\ d \in Connection /\ conns'[d].isAlive
                          /\ \A i \in 1 .. Len(list') : list'[i] # d
                          /\ \A u \in Worker : Owns(u)' /\ u # v => workers'[u].conn # d
                          /\ \A u \in Worker : d \notin workers'[u].idle
                          /\ workers'[v].at # "create" => conns'[d].at # "none"
                          /\ workers'[v].at \notin {"create", "store"} => conns'[d].hasHandle
    BY <1>7 DEF OwnedOnce
  <2>1. Owns(v) /\ workers'[v].conn = workers[v].conn /\ workers[v].conn # c
    BY <1>13
  <2>2. workers[v].conn \in Connection /\ conns'[workers[v].conn] = conns[workers[v].conn]
    BY <1>7, <2>1 DEF GatewayInv, OwnedOnce
  <2>3. \A i \in 1 .. Len(list') : list'[i] # workers[v].conn
    BY <1>10, <2>1 DEF GatewayInv, OwnedOnce
  <2>4. \A u \in Worker : Owns(u)' /\ u # v => workers'[u].conn # workers[v].conn
    BY <1>13, <2>1 DEF GatewayInv, OwnedOnce
  <2>5. \A u \in Worker : workers[v].conn \notin workers'[u].idle
    BY <1>14, <2>1 DEF GatewayInv, OwnedOnce
  <2>6. /\ workers'[v].at # "create" => workers[v].at # "create"
        /\ workers'[v].at \notin {"create", "store"} => workers[v].at \notin {"create", "store"}
    BY <1>0, <1>12
  <2> QED  BY <2>1, <2>2, <2>3, <2>4, <2>5, <2>6 DEF GatewayInv, OwnedOnce
<1>18. OwnerCreatesNone' /\ RemovedOnlyIfFinished'
  <2>1. "owner" \in Worker
    BY DEF Worker
  <2> QED  BY <1>5, <1>12, <2>1 DEF GatewayInv, OwnerCreatesNone, RemovedOnlyIfFinished
<1>19. Listed'
  <2>1. ASSUME NEW i \in 1 .. Len(list')
        PROVE  conns'[list'[i]].isAlive /\ conns'[list'[i]].hasHandle /\ conns'[list'[i]].at # "none"
    <3>1. conns'[list'[i]] = conns[list'[i]]
      BY <1>11
    <3>2. PICK j \in 1 .. Len(list) : list'[i] = list[j]
      <4> HIDE DEF from
      <4> QED  BY <1>10
    <3>3. conns[list[j]].isAlive /\ conns[list[j]].hasHandle /\ conns[list[j]].at # "none"
      BY DEF GatewayInv, Listed
    <3> QED  BY <3>1, <3>2, <3>3
  <2>2. ASSUME NEW i \in 1 .. Len(list'), NEW j \in 1 .. Len(list'), list'[i] = list'[j]
        PROVE  i = j
    <3>1. from(i) = from(j)
      <4> HIDE DEF from
      <4> QED  BY <1>10, <2>2, SMTT(30) DEF GatewayInv, Listed
    <3> QED  BY <1>0, <1>6, <1>9, <3>1
  <2> QED  BY <2>1, <2>2 DEF Listed
<1>20. FlagsReset'
  BY <1>3, <1>7 DEF GatewayInv, FlagsReset
<1>21. IdleAhead'
  <2>1. ASSUME NEW v \in Worker, workers'[v].at \in {"cleanup", "delete"},
               NEW i \in 1 .. Len(list'), list'[i] \in workers'[v].idle
        PROVE  i >= workers'[v].pos /\ conns'[list'[i]].at = "exited"
    <3>1. v = w
      BY <1>12, <2>1 DEF Inside
    <3>2. from(i) \in 1 .. Len(list) /\ list[from(i)] \in workers[w].idle /\ list'[i] = list[from(i)]
      BY <1>10, <1>14, <2>1, <3>1
    <3>3. from(i) >= k /\ conns[list[from(i)]].at = "exited"
      <4> HIDE DEF from
      <4> QED  BY <1>0, <1>6, <3>2 DEF GatewayInv, IdleAhead
    <3>4. i >= k
      BY <1>0, <1>6, <1>9, <3>3
    <3> QED  BY <1>5, <1>6, <1>11, <3>1, <3>2, <3>3, <3>4
  <2>2. ASSUME NEW v \in Worker, workers'[v].at \in {"add", "gone"}, NEW i \in 1 .. Len(list')
        PROVE  list'[i] \notin workers'[v].idle
    <3>1. workers'[v] = workers[v]
      BY <1>5, <1>12, <2>2
    <3> QED  BY <1>10, <2>2, <3>1 DEF GatewayInv, IdleAhead
  <2> QED  BY <2>1, <2>2 DEF IdleAhead
<1> QED  BY <1>15, <1>16, <1>17, <1>18, <1>19, <1>20, <1>21 DEF GatewayInv

-----------------------------------------------------------------------------
(* Every behaviour *)

LEMMA InitInv ==
    ASSUME Init
    PROVE  GatewayInv
<1>1. list = <<>> /\ Len(list) = 0 /\ DOMAIN isOpen = {} /\ Connection = {}
  BY DEF Init, Connection
<1>2. \A w \in Worker : workers[w].at = "idle" /\ workers[w].idle = {} /\ workers[w].examined = None
  BY IdleIsTyped DEF Init
<1>3. TypeOK
  <2>1. workers \in [Worker -> WorkerType]
    BY IdleIsTyped DEF Init
  <2>2. list \in Seq(Connection) /\ conns \in Seq(ConnectionType) /\ isOpen \in Seq(BOOLEAN)
    BY EmptySeq DEF Init
  <2> QED  BY <2>1, <2>2 DEF Init, TypeOK
<1>4. WalkersLocked /\ OwnedOnce
  BY <1>2 DEF WalkersLocked, OwnedOnce, Inside, Owns
<1>5. OwnerCreatesNone /\ RemovedOnlyIfFinished
  BY <1>2 DEF OwnerCreatesNone, RemovedOnlyIfFinished, Worker
<1>6. Listed /\ FlagsReset /\ IdleAhead
  BY <1>1, <1>2 DEF Listed, FlagsReset, IdleAhead
<1> QED  BY <1>3, <1>4, <1>5, <1>6 DEF GatewayInv

LEMMA NextKeepsInv ==
    ASSUME GatewayInv, [Next]_vars
    PROVE  GatewayInv'
<1>1. ASSUME NEW w \in Worker, KeepList(w)  PROVE GatewayInv'
  BY <1>1, StartKeepsInv, WalkKeepsInv, DeleteKeepsInv, AddKeepsInv DEF KeepList
<1>2. ASSUME NEW w \in Sender, StartSend(w) \/ SendInfoToGateway(w) \/ SendLocked(w)  PROVE GatewayInv'
  BY <1>2, SendKeepsInv, CreationKeepsInv DEF SendInfoToGateway
<1>3. CASE Listen \/ Accept \/ AcceptFails \/ Shutdown \/ CloseSockets
  BY <1>3, GateKeepsInv, CreationKeepsInv
<1>4. ASSUME NEW c \in Connection, RunParallel(c)  PROVE GatewayInv'
  BY <1>4, ThreadKeepsInv
<1>5. CASE UNCHANGED vars
  <2>1. UNCHANGED <<lock, list, conns, isOpen, workers, clientSocket, recipientUURI, isListening, isThreadShutdown>>
    BY <1>5 DEF vars, list_vars, gate_vars
  <2>2. TypeOK' /\ WalkersLocked' /\ OwnedOnce'
    BY <2>1 DEF GatewayInv, TypeOK, WalkersLocked, OwnedOnce, Inside, Owns, Connection,
                ConnectionType, WorkerType
  <2>3. OwnerCreatesNone' /\ Listed' /\ FlagsReset' /\ IdleAhead' /\ RemovedOnlyIfFinished'
    BY <2>1 DEF GatewayInv, OwnerCreatesNone, Listed, FlagsReset, IdleAhead,
                RemovedOnlyIfFinished, Connection
  <2> QED  BY <2>2, <2>3 DEF GatewayInv
<1> QED  BY <1>1, <1>2, <1>3, <1>4, <1>5 DEF Next

\* What the threads know of each other through the lock, the list and the
\* flags holds in every state of every behaviour.
THEOREM GatewayInvInductive == Spec => []GatewayInv
<1>1. Init => GatewayInv
  BY InitInv
<1>2. GatewayInv /\ [Next]_vars => GatewayInv'
  BY NextKeepsInv
<1> QED  BY <1>1, <1>2, PTL DEF Spec

\* Whatever senders, the listening thread, the destructor and the threads of
\* the connections do, the list holds living connections, each once, and whoever
\* deletes or uses an element of it has the lock and stands on it.
THEOREM ListAlwaysAlive == Spec => []ListAlive
<1>1. GatewayInv => ListAlive
  <2> SUFFICES ASSUME GatewayInv  PROVE ListAlive
    OBVIOUS
  <2>1. DOMAIN list = 1 .. Len(list)
    BY LenProperties DEF GatewayInv, TypeOK
  <2>2. \A w \in Worker : workers[w].at \in {"delete", "sendLocked"} =>
           lock = w /\ workers[w].pos \in DOMAIN list
    <3> SUFFICES ASSUME NEW w \in Worker, workers[w].at \in {"delete", "sendLocked"}
                 PROVE  lock = w /\ workers[w].pos \in 1 .. Len(list)
      BY <2>1
    <3>1. lock = w /\ workers[w].pos \in 1 .. Len(list) + 1 /\ workers[w].pos <= Len(list)
      BY DEF GatewayInv, WalkersLocked, Inside
    <3>2. Len(list) \in Nat
      BY LenProperties DEF GatewayInv, TypeOK
    <3> QED  BY <3>1, <3>2
  <2> QED  BY <2>1, <2>2 DEF GatewayInv, Listed, ListAlive
<1> QED  BY <1>1, GatewayInvInductive, PTL

\* No connection is given up whose thread has reset its flags and is at work.
THEOREM WorkingNotRemoved == Spec => []RemovedOnlyIfFinished
<1>1. GatewayInv => RemovedOnlyIfFinished
  BY DEF GatewayInv
<1> QED  BY <1>1, GatewayInvInductive, PTL

\* One walk removes every connection whose thread had exited when it began,
\* however the list was and whatever the threads do meanwhile.
THEOREM FinishedRemoved == Spec => []IdleRemoved
<1>1. GatewayInv => IdleRemoved
  <2> SUFFICES ASSUME GatewayInv, NEW w \in Worker, workers[w].at \in {"add", "gone"}
               PROVE  workers[w].idle \cap OnList = {}
    BY DEF IdleRemoved, At
  <2>1. DOMAIN list = 1 .. Len(list)
    BY LenProperties DEF GatewayInv, TypeOK
  <2>2. \A i \in 1 .. Len(list) : list[i] \notin workers[w].idle
    BY DEF GatewayInv, IdleAhead
  <2> QED  BY <2>1, <2>2 DEF OnList
<1> QED  BY <1>1, GatewayInvInductive, PTL
=============================================================================
