-------------------------- MODULE PlugNodeNetwork --------------------------
(***************************************************************************)
(* The local network of PlugNodes: Services/PlugNode/CmPlugNode.cpp,       *)
(* CmServiceAccess.cpp and CmServiceConnection.cpp.                        *)
(*                                                                         *)
(* A PlugNode has up to four service connections.  A new PlugNode asks the *)
(* contact PlugNode, the first one of the program, to join; the contact    *)
(* passes it on to a second peer (CONTACT), and a PlugNode whose four      *)
(* connections are taken hands the peer of the fourth over to the          *)
(* newcomer (SWITCH).  All of this is one thread: sending a command writes *)
(* a line to a stream, which calls the receiver, which sends commands in   *)
(* turn, before the first call returns.  todo is that call stack, written  *)
(* as the calls that remain, the innermost first.                          *)
(***************************************************************************)
EXTENDS Integers, Sequences, FiniteSets

CONSTANTS
    MaxNodes,      \* bound on the PlugNodes ever created when some are destroyed
    MaxGrown       \* bound on the PlugNodes ever created when none is

ASSUME NodesAssumption == MaxNodes \in Nat /\ MaxGrown \in Nat

VARIABLES
    nodes,         \* PlugNodes in the order of their creation
    conns,         \* service connections in the order of their creation
    contact,       \* ContactPlugNode
    localContactID,
    shutDown,      \* ShutDownConnections, a list linked through its members
    todo,          \* the calls that remain, innermost first
    crowded        \* more PlugNodes than Uncrowded allows have lived at once (history)

network == <<nodes, conns, contact, localContactID, shutDown, todo>>
vars == <<network, crowded>>

Null == 0          \* a NULL pointer; objects are numbered from 1
Slot == 1 .. 4     \* Connection1 .. Connection4

-----------------------------------------------------------------------------
(* Objects.  A stream is named by the connection that owns it (TxInfo).    *)

NewNode == [isAlive |-> TRUE, contactID |-> 0, connection |-> [i \in Slot |-> Null],
            connectionSwitch |-> Null, peers |-> 0]

NewConnection == [isAlive |-> TRUE, connectionID |-> Null, state |-> "IDLE", receiver |-> Null,
                  rxInfo |-> Null, peer |-> Null, registered |-> <<Null, Null>>, lines |-> <<>>]

Alive(n) == nodes[n].isAlive

NobodyLeft == \A n \in DOMAIN nodes : Alive(n)
Living == {n \in DOMAIN nodes : Alive(n)}

\* The connections of a PlugNode that exist.
Connections(n) == {nodes[n].connection[i] : i \in Slot} \ {Null}

\* The slot joinNetwork() and openConnection() take: the first one that is
\* empty or whose connection is idle, or Null.
FreeSlot(n) ==
    LET isFree(i) == nodes[n].connection[i] = Null \/ conns[nodes[n].connection[i]].state = "IDLE"
    IN  IF \E i \in Slot : isFree(i)
        THEN CHOOSE i \in Slot : isFree(i) /\ \A j \in 1 .. i - 1 : ~isFree(j)
        ELSE Null

\* Fault: the peer's address is not kept.
LinkedWithoutAddress(cs, k, p, peer) ==
    IF cs[k].rxInfo = Null
    THEN [cs EXCEPT ![k].rxInfo = p, ![p].rxInfo = k]
    ELSE cs

\* CmServiceConnection::openConnection(): connection k of a PlugNode is linked
\* with connection p of PlugNode peer, unless k is still linked.
Linked(cs, k, p, peer) ==
    IF cs[k].rxInfo = Null
    THEN [cs EXCEPT ![k].peer = peer, ![k].rxInfo = p, ![p].rxInfo = k]
    ELSE [cs EXCEPT ![k].peer = peer]

\* CmServiceConnection::registerCommunicationReceiver(): the PlugNode n listens
\* to the stream connection k receives from; a former listener is replaced.
MayRegister(cs, k, i) ==
    /\ cs[k].rxInfo # Null
    /\ cs[k].connectionID \in {Null, i}
    /\ cs[k].state = "IDLE"
Registered(cs, k, n, i) ==
    IF MayRegister(cs, k, i)
    THEN [cs EXCEPT ![k].connectionID = i, ![k].receiver = n,
                    ![cs[k].rxInfo].registered = <<n, k>>]
    ELSE cs

\* What switchToIdle() and disconnect() share: connection k leaves the stream
\* it listens to, if it is the one that listens there.
Unlinked(cs, k) ==
    LET rx == cs[k].rxInfo
        silent == IF rx # Null /\ cs[rx].registered = <<cs[k].receiver, k>>
                  THEN [cs EXCEPT ![rx].registered = <<Null, Null>>] ELSE cs
    IN  IF rx = Null THEN [cs EXCEPT ![k].state = "IDLE"]
        ELSE [silent EXCEPT ![k].state = "IDLE", ![k].rxInfo = Null, ![k].receiver = Null]

\* deleteIdleConnections() and deleteConnections().
IsIdle(k)  == conns[k].state = "IDLE"
Deleted(ks) == [k \in DOMAIN conns |->
                  IF k \in ks THEN [conns[k] EXCEPT !.isAlive = FALSE] ELSE conns[k]]
Members(list) == {list[i] : i \in DOMAIN list}

\* The members that are not out, in their order.
Kept(list, out) ==
    LET kept[i \in 0 .. Len(list)] ==
            IF i = 0 THEN <<>>
            ELSE IF list[i] \in out THEN kept[i - 1] ELSE Append(kept[i - 1], list[i])
    IN  kept[Len(list)]

\* What deleteIdleConnections() leaves in the list.
Remaining(list) == Kept(list, {k \in Members(list) : IsIdle(k)})

-----------------------------------------------------------------------------
(* Calls *)

Join(a, b, id)    == [call |-> "join", at |-> a, for |-> b, id |-> id]
SwitchAccess(a)   == [call |-> "switch", at |-> a]
Switched(a)       == [call |-> "switched", at |-> a]
Send(k, c, other) == [call |-> "send", conn |-> k, command |-> c, other |-> other]
SendContact(a, k) == [call |-> "contact", at |-> a, conn |-> k]
Payload(k, line)  == [call |-> "payload", conn |-> k, line |-> line]
LineEnd(k, line)  == [call |-> "line", conn |-> k, line |-> line]
Receive(k)        == [call |-> "receive", conn |-> k]
Unlink(k)         == [call |-> "unlink", conn |-> k]
DisconnectPeer(a, i) == [call |-> "disconnect", at |-> a, slot |-> i]
SetDisconnect(k)  == [call |-> "setState", conn |-> k]
DisconnectFromPeers(a) == [i \in Slot |-> DisconnectPeer(a, i)]
RemoveContact(a)  == [call |-> "removeContact", at |-> a]
Shutdown(a)       == [call |-> "shutdown", at |-> a]

Calls(name) == todo # <<>> /\ Head(todo).call = name
Call == Head(todo)

\* The call that runs returns, after the calls it makes as its last ones.
Then(calls) == todo' = calls \o Tail(todo)

-----------------------------------------------------------------------------
(* Joining *)

\* joinNetwork() of PlugNode a for PlugNode b up to the SWITCH it may cause,
\* with the openConnection() of b inside.
JoinNetwork ==
    /\ Calls("join")
    /\ LET a == Call.at
           b == Call.for
           i == FreeSlot(a)
           isSwitch == i = Null
           mySlot   == IF isSwitch THEN 4 ELSE i
           isNewA == isSwitch \/ nodes[a].connection[i] = Null
           k  == IF isNewA THEN Len(conns) + 1 ELSE nodes[a].connection[i]
           cs == IF isNewA THEN Append(conns, NewConnection) ELSE conns
           j  == FreeSlot(b)
           isNewB == nodes[b].connection[j] = Null
           p  == IF isNewB THEN Len(cs) + 1 ELSE nodes[b].connection[j]
           opened == Linked(IF isNewB THEN Append(cs, NewConnection) ELSE cs, p, k, a)
           nodesA == [nodes EXCEPT ![b].contactID = Call.id,
                                   ![a].connection[mySlot] = k,
                                   ![a].connectionSwitch =
                                       IF isSwitch THEN nodes[a].connection[4] ELSE @]
           nodesAB == [nodesA EXCEPT ![b].connection[j] = p]
       IN  IF \/ \E c \in Connections(a) : conns[c].peer = b
              \/ isSwitch /\ nodes[a].connectionSwitch # Null
           THEN \* a peer already, or a former switch is still pending
                /\ nodes' = [nodes EXCEPT ![b].contactID = Call.id]
                /\ UNCHANGED conns
                /\ Then(<<>>)
           ELSE IF j = Null
           THEN \* the PlugNode that asks has no connection left
                /\ nodes' = nodesA
                /\ conns' = cs
                /\ Then(<<>>)
           ELSE IF ~MayRegister(opened, p, j)
           THEN /\ nodes' = nodesAB
                /\ conns' = opened
                /\ Then(<<>>)
           ELSE /\ nodes' = nodesAB
                /\ conns' = [Registered(Registered(opened, p, b, j), k, a, mySlot)
                                 EXCEPT ![k].peer = b]
                /\ Then(<<SwitchAccess(a), Send(p, "CHECKIN", Null)>>)
    /\ UNCHANGED <<contact, localContactID, shutDown>>

\* switchServiceAccess(): the former fourth peer shall turn to the new one.
SwitchServiceAccess ==
    /\ Calls("switch")
    /\ LET n == nodes[Call.at]
       IN  IF n.connectionSwitch = Null \/ n.connection[4] = Null
           THEN Then(<<>>)
           ELSE Then(<<Send(n.connectionSwitch, "SWITCH", n.connection[4]), Switched(Call.at)>>)
    /\ UNCHANGED <<nodes, conns, contact, localContactID, shutDown>>

\* The rest of switchServiceAccess(), with deleteIdleConnections().  When a
\* nested call has been here before, the list is lost.
SwitchDone ==
    /\ Calls("switched")
    /\ LET old  == nodes[Call.at].connectionSwitch
           list == IF old = Null THEN <<>> ELSE <<old>> \o shutDown
       IN  /\ shutDown' = Remaining(list)
           /\ conns' = Deleted({k \in Members(list) : IsIdle(k)})
           /\ nodes' = [nodes EXCEPT ![Call.at].connectionSwitch = Null]
    /\ Then(<<>>)
    /\ UNCHANGED <<contact, localContactID>>

-----------------------------------------------------------------------------
(* Commands *)

\* sendCommand(): the state that belongs to the command is entered first.
StateSent(k, command) ==
    CASE command \in {"CHECKIN", "CONNECT", "CONFIRM"} -> [conns EXCEPT ![k].state = command]
      [] command = "SWITCH"     -> [conns EXCEPT ![k].state = "IDLE"]
      [] command = "DISCONNECT" -> [conns EXCEPT ![k].peer = Null]
      [] OTHER                  -> conns

SendCommand ==
    /\ Calls("send")
    /\ LET k    == Call.conn
           line == [command |-> Call.command,
                    address |-> IF Call.other = Null THEN Null ELSE conns[Call.other].peer]
       IN  /\ conns' = StateSent(k, Call.command)
           /\ Then(<<Payload(k, line), LineEnd(k, line)>>)
    /\ UNCHANGED <<nodes, contact, localContactID, shutDown>>

\* The second command of a CHECKIN: Connection2 is read after the first one.
SendContactCommand ==
    /\ Calls("contact")
    /\ Then(<<Send(Call.conn, "CONTACT", nodes[Call.at].connection[2])>>)
    /\ UNCHANGED <<nodes, conns, contact, localContactID, shutDown>>

HasReceiver(k) == conns[k].registered[1] # Null

\* writeLine(): the payload calls the receiver if an older line is waiting,
\* the delimiter if any is.
WritePayload ==
    /\ Calls("payload")
    /\ IF HasReceiver(Call.conn) /\ conns[Call.conn].lines # <<>>
       THEN Then(<<Receive(Call.conn)>>) ELSE Then(<<>>)
    /\ UNCHANGED <<nodes, conns, contact, localContactID, shutDown>>

WriteLine ==
    /\ Calls("line")
    /\ conns' = [conns EXCEPT ![Call.conn].lines = Append(@, Call.line)]
    /\ IF HasReceiver(Call.conn) THEN Then(<<Receive(Call.conn)>>) ELSE Then(<<>>)
    /\ UNCHANGED <<nodes, contact, localContactID, shutDown>>

\* processMessage() and maintainNetwork() of the PlugNode that listens to the
\* stream of the call; k is its own end of the connection.
Receiver  == conns[Call.conn].registered[1]
Own       == conns[Call.conn].registered[2]
Line      == Head(conns[Call.conn].lines)
Peers     == nodes[Receiver].peers
Read      == [conns EXCEPT ![Call.conn].lines = Tail(@)]
Receives(command) == Calls("receive") /\ Line.command = command

IncrementPeers == nodes' = [nodes EXCEPT ![Receiver].peers = IF @ = 4 THEN 4 ELSE @ + 1]
DecrementPeers == nodes' = [nodes EXCEPT ![Receiver].peers = IF @ = 0 THEN 0 ELSE @ - 1]

\* contactServiceAccess()
Contact(address) ==
    IF address \in {Null, Receiver} THEN <<>>
    ELSE <<Join(address, Receiver, nodes[Receiver].contactID)>>

ReceiveCheckin ==
    /\ Receives("CHECKIN")
    /\ conns' = Read
    /\ Then(<<Send(Own, "CONNECT", Null)>>
              \o IF Peers >= 2 THEN <<SendContact(Receiver, Own)>> ELSE <<>>)
    /\ UNCHANGED <<nodes, contact, localContactID, shutDown>>

ReceiveConnect ==
    /\ Receives("CONNECT")
    /\ conns' = Read
    /\ IncrementPeers
    /\ Then(<<Send(Own, "CONFIRM", Null)>>)
    /\ UNCHANGED <<contact, localContactID, shutDown>>

ReceiveConfirm ==
    /\ Receives("CONFIRM")
    /\ conns' = [Read EXCEPT ![Own].state = "CONFIRM"]
    /\ IncrementPeers
    /\ Then(<<>>)
    /\ UNCHANGED <<contact, localContactID, shutDown>>

\* Fault: the connection that switches is not set idle.
ReceiveSwitchKeepsLink ==
    /\ Receives("SWITCH")
    /\ conns' = Read
    /\ Then(IF Peers = 0 THEN <<>> ELSE Contact(Line.address))
    /\ DecrementPeers
    /\ UNCHANGED <<contact, localContactID, shutDown>>

\* switchToIdle() keeps the address of the former peer.
ReceiveSwitch ==
    /\ Receives("SWITCH")
    /\ IF Peers = 0
       THEN conns' = Read /\ Then(<<>>)
       ELSE /\ conns' = IF IsIdle(Own) THEN Read ELSE Unlinked(Read, Own)
            /\ Then(Contact(Line.address))
    /\ DecrementPeers
    /\ UNCHANGED <<contact, localContactID, shutDown>>

\* Fault: the newcomer does not contact the second peer.
ReceiveContactOnly ==
    /\ Receives("CONTACT")
    /\ conns' = Read
    /\ Then(<<>>)
    /\ UNCHANGED <<nodes, contact, localContactID, shutDown>>

ReceiveContact ==
    /\ Receives("CONTACT")
    /\ conns' = Read
    /\ Then(IF Peers = 4 THEN <<>> ELSE Contact(Line.address))
    /\ UNCHANGED <<nodes, contact, localContactID, shutDown>>

\* CmServiceConnection::disconnect(): a confirmed connection answers first.
Disconnected(cs, k) == [Unlinked(cs, k) EXCEPT ![k].peer = Null]

\* Fault: the answer to a DISCONNECT is answered.
ReceiveDisconnectAnswers ==
    /\ Receives("DISCONNECT")
    /\ DecrementPeers
    /\ conns' = Read
    /\ Then(<<Send(Own, "DISCONNECT", Null)>>)
    /\ UNCHANGED <<contact, localContactID, shutDown>>

\* Fault: the peer that leaves is still counted.
ReceiveDisconnectUncounted ==
    /\ Receives("DISCONNECT")
    /\ IF conns[Own].state = "CONFIRM"
       THEN conns' = Read /\ Then(<<Send(Own, "DISCONNECT", Null), Unlink(Own)>>)
       ELSE conns' = Disconnected(Read, Own) /\ Then(<<>>)
    /\ UNCHANGED <<nodes, contact, localContactID, shutDown>>

ReceiveDisconnect ==
    /\ Receives("DISCONNECT")
    /\ DecrementPeers
    /\ CASE conns[Own].state = "CONFIRM"    -> conns' = Read /\ Then(<<Send(Own, "DISCONNECT", Null), Unlink(Own)>>)
         [] conns[Own].state = "DISCONNECT" -> conns' = Disconnected(Read, Own) /\ Then(<<>>)
         [] OTHER                           -> conns' = Read /\ Then(<<>>)
    /\ UNCHANGED <<contact, localContactID, shutDown>>

UnlinkConnection ==
    /\ Calls("unlink")
    /\ conns' = Disconnected(conns, Call.conn)
    /\ Then(<<>>)
    /\ UNCHANGED <<nodes, contact, localContactID, shutDown>>

-----------------------------------------------------------------------------
(* Leaving *)

\* Fault: the peer is not told.
DisconnectSilently ==
    /\ Calls("disconnect")
    /\ LET k == nodes[Call.at].connection[Call.slot]
       IN  IF k = Null
           THEN UNCHANGED conns
           ELSE conns' = [conns EXCEPT ![k].state = "DISCONNECT"]
    /\ Then(<<>>)
    /\ UNCHANGED <<nodes, contact, localContactID, shutDown>>

\* Fault: the connection stops to listen before the peer has answered.
DisconnectDeaf ==
    /\ Calls("disconnect")
    /\ LET k == nodes[Call.at].connection[Call.slot]
       IN  IF k = Null \/ IsIdle(k)
           THEN UNCHANGED conns /\ Then(<<>>)
           ELSE /\ conns' = [Unlinked(conns, k) EXCEPT ![k].state = "DISCONNECT"]
                /\ IF conns[k].state = "CONFIRM"
                   THEN Then(<<Send(k, "DISCONNECT", Null), SetDisconnect(k)>>)
                   ELSE Then(<<>>)
    /\ UNCHANGED <<nodes, contact, localContactID, shutDown>>

\* CmServiceAccess::disconnect() of one connection.
Disconnect ==
    /\ Calls("disconnect")
    /\ LET k == nodes[Call.at].connection[Call.slot]
       IN  IF k = Null \/ IsIdle(k)
           THEN UNCHANGED conns /\ Then(<<>>)
           ELSE /\ conns' = [conns EXCEPT ![k].state = "DISCONNECT"]
                /\ IF conns[k].state = "CONFIRM"
                   THEN Then(<<Send(k, "DISCONNECT", Null), SetDisconnect(k)>>)
                   ELSE Then(<<>>)
    /\ UNCHANGED <<nodes, contact, localContactID, shutDown>>

\* The last line of it: the state is set again after the peer has answered.
DisconnectDone ==
    /\ Calls("setState")
    /\ conns' = [conns EXCEPT ![Call.conn].state = "DISCONNECT"]
    /\ Then(<<>>)
    /\ UNCHANGED <<nodes, contact, localContactID, shutDown>>

\* Fault: ContactPlugNode is not cleared.
LeaveContactKept ==
    /\ Calls("removeContact")
    /\ IF Call.at = contact
       THEN conns' = Deleted(Members(shutDown)) /\ shutDown' = <<>>
       ELSE UNCHANGED <<conns, shutDown>>
    /\ Then(<<>>)
    /\ UNCHANGED <<nodes, contact, localContactID>>

\* The rest of ~CmPlugNode() after it has disconnected from its peers.
LeaveContact ==
    /\ Calls("removeContact")
    /\ IF Call.at = contact
       THEN /\ conns' = Deleted(Members(shutDown))
            /\ shutDown' = <<>>
            /\ contact' = Null
            /\ localContactID' = 0
       ELSE UNCHANGED <<conns, shutDown, contact, localContactID>>
    /\ Then(<<>>)
    /\ UNCHANGED nodes

\* ~CmServiceAccess(): shutdownConnections() with deleteIdleConnections().
ShutdownConnections ==
    /\ Calls("shutdown")
    /\ LET n    == nodes[Call.at]
           mine == Kept(<<n.connectionSwitch, n.connection[4], n.connection[3],
                          n.connection[2], n.connection[1]>>, {Null})
           list == mine \o shutDown
       IN  /\ shutDown' = Remaining(list)
           /\ conns' = Deleted({k \in Members(list) : IsIdle(k)})
    /\ nodes' = [nodes EXCEPT ![Call.at].isAlive = FALSE]
    /\ Then(<<>>)
    /\ UNCHANGED <<contact, localContactID>>

-----------------------------------------------------------------------------
(* The program *)

Init ==
    /\ nodes = <<>>
    /\ conns = <<>>
    /\ contact = Null
    /\ localContactID = 0
    /\ shutDown = <<>>
    /\ todo = <<>>
    /\ crowded = FALSE

\* A CmPlugNode object is created: initPlugNode() and checkinToLocalNetwork().
CreatePlugNode ==
    /\ todo = <<>>
    /\ Len(nodes) < IF NobodyLeft THEN MaxGrown ELSE MaxNodes
    /\ LET n == Len(nodes) + 1
       IN  /\ nodes' = Append(nodes, NewNode)
           /\ IF contact = Null
              THEN contact' = n /\ UNCHANGED <<localContactID, todo>>
              ELSE /\ localContactID' = localContactID + 1
                   /\ todo' = <<Join(contact, n, localContactID')>>
                   /\ UNCHANGED contact
    /\ UNCHANGED <<conns, shutDown>>

\* A CmPlugNode object is deleted: ~CmPlugNode(), then ~CmServiceAccess().
DestroyPlugNode(n) ==
    /\ Len(nodes) <= MaxNodes
    /\ todo = <<>>
    /\ Alive(n)
    /\ todo' = DisconnectFromPeers(n) \o <<RemoveContact(n)>>
                 \o DisconnectFromPeers(n) \o <<Shutdown(n)>>
    /\ UNCHANGED <<nodes, conns, contact, localContactID, shutDown>>

Step ==
    \/ JoinNetwork \/ SwitchServiceAccess \/ SwitchDone
    \/ SendCommand \/ SendContactCommand \/ WritePayload \/ WriteLine
    \/ ReceiveCheckin \/ ReceiveConnect \/ ReceiveConfirm
    \/ ReceiveSwitch \/ ReceiveContact \/ ReceiveDisconnect \/ UnlinkConnection
    \/ Disconnect \/ DisconnectDone \/ LeaveContact \/ ShutdownConnections

\* Five PlugNodes are the contact and one peer for each of its connections:
\* until there are more at once, nobody has to switch.
RememberCrowd == crowded' = (crowded \/ Cardinality(Living') > 1 + Cardinality(Slot))

Next ==
    /\ Step \/ CreatePlugNode \/ \E n \in DOMAIN nodes : DestroyPlugNode(n)
    /\ RememberCrowd

\* The thread goes on until every call has returned.
Spec == Init /\ [][Next]_vars /\ WF_network(Step)

-----------------------------------------------------------------------------
(* Properties *)

Quiet == todo = <<>>
Confirmed(n) == {k \in Connections(n) : conns[k].state = "CONFIRM"}

Uncrowded == ~crowded

Command == {"CHECKIN", "CONNECT", "CONFIRM", "SWITCH", "CONTACT", "DISCONNECT"}
LineType == [command : Command, address : DOMAIN nodes \cup {Null}]
NodeType == [isAlive : BOOLEAN, contactID : Nat,
             connection : [Slot -> DOMAIN conns \cup {Null}],
             connectionSwitch : DOMAIN conns \cup {Null}, peers : 0 .. 4]
ConnectionType ==
    [isAlive : BOOLEAN, connectionID : Slot \cup {Null},
     state : {"IDLE", "CHECKIN", "CONNECT", "CONFIRM", "DISCONNECT"},
     receiver : DOMAIN nodes \cup {Null}, rxInfo : DOMAIN conns \cup {Null},
     peer : DOMAIN nodes \cup {Null},
     registered : (DOMAIN nodes \cup {Null}) \X (DOMAIN conns \cup {Null}),
     lines : Seq(LineType)]

\* Every variable has its type: CMPEERS and CMSTATE keep their enumerators, and
\* every pointer is NULL or that of an object that has been created.
TypeOK ==
    /\ \A n \in DOMAIN nodes : nodes[n] \in NodeType
    /\ \A k \in DOMAIN conns : conns[k] \in ConnectionType
    /\ contact \in DOMAIN nodes \cup {Null}
    /\ localContactID \in Nat
    /\ Members(shutDown) \subseteq DOMAIN conns

\* Peers says how many peers a PlugNode is connected to (CmServiceAccess.h:
\* 44-47): it is the number of its confirmed connections whenever all calls
\* have returned.
PeersCounted == Quiet => \A n \in Living : nodes[n].peers = Cardinality(Confirmed(n))

\* The same until the first PlugNode has to switch.
PeersCountedUncrowded == Uncrowded => PeersCounted

\* A confirmed connection has two ends (CmServiceConnection.h:207-208): each
\* names the other's PlugNode, receives from the other's stream, and is the one
\* registered for it.  Proved until the first switch and checked beyond it; with
\* fourteen PlugNodes over time it can fail (README, section 5).
LinksSymmetric ==
    Quiet => \A n \in Living : \A k \in Confirmed(n) :
        \E m \in Living \ {n} : \E j \in Confirmed(m) :
            /\ conns[k].peer = m /\ conns[j].peer = n
            /\ conns[k].rxInfo = j /\ conns[j].rxInfo = k
            /\ conns[j].registered = <<n, k>> /\ conns[k].registered = <<m, j>>

\* No call runs on, sends to or reads from an object that has been deleted:
\* the connections a nested call deletes are not those of the calls around it.
\* Proved until the first switch and checked beyond it; with twelve PlugNodes
\* over time it can fail (README, section 5).
OnlyLivingUsed ==
    ~Quiet =>
      LET isConn(k) == conns[k].isAlive
      IN  CASE Call.call = "join"    -> Alive(Call.at) /\ Alive(Call.for)
            [] Call.call = "send"    -> isConn(Call.conn) /\ (Call.other # Null => isConn(Call.other))
            [] Call.call = "contact" -> Alive(Call.at) /\ isConn(Call.conn)
            [] Call.call = "receive" -> isConn(Call.conn) /\ isConn(Own) /\ Alive(Receiver)
            [] Call.call \in {"payload", "line", "unlink", "setState"} -> isConn(Call.conn)
            [] OTHER                 -> Alive(Call.at)

\* The payload of a command never runs the receiver's callback, because no
\* older line waits in the stream: so nothing is written between a command
\* and its delimiter, however deep the calls nest.
CommandsStayWhole == Calls("payload") => conns[Call.conn].lines = <<>>

\* Until the first switch no PlugNode holds the address of a deleted one, which
\* findServiceUURI() would follow (CmServiceAccess.cpp:606-608).
AddressesValidUncrowded ==
    Quiet /\ Uncrowded =>
        \A n \in Living : \A k \in Connections(n) : conns[k].peer \in Living \cup {Null}

\* The PlugNodes findServiceUURI() of PlugNode n asks: whatever addresses its
\* connections hold, and those of the PlugNodes found.  ends gives the
\* connections to follow of every PlugNode.
Reached(n, ends) ==
    LET within[i \in 0 .. Len(nodes)] ==
            IF i = 0 THEN {n}
            ELSE within[i - 1] \cup
                 ({conns[k].peer : k \in UNION {ends[m] : m \in within[i - 1]}} \ {Null})
    IN  within[Len(nodes)]

\* The PlugNodes that joined through the contact there is now.
Network == {n \in Living : contact # Null /\ n >= contact}

\* Every query reaches every PlugNode of the network (CmServiceAccess.h:92-94).
AllFound ==
    Quiet => \A n \in Network :
        Network \subseteq Reached(n, [m \in DOMAIN nodes |-> Connections(m)])

\* The same until the first PlugNode has to switch.
AllFoundUncrowded == Uncrowded => AllFound

\* As long as nobody leaves, confirmed connections join all PlugNodes, although
\* every switch takes one of them away.
StaysConnected ==
    Quiet /\ NobodyLeft => \A n \in Living :
        Living \subseteq Reached(n, [m \in DOMAIN nodes |-> Confirmed(m)])

\* Every call returns: commands do not answer each other without end.
EveryCallReturns == []<>Quiet
=============================================================================
