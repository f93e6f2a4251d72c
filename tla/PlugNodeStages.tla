--------------------------- MODULE PlugNodeStages ---------------------------
(***************************************************************************)
(* What the calls of the local network are at, as long as nobody has had   *)
(* to switch: the inductive invariant of PlugNodeNetwork.                  *)
(*                                                                         *)
(* Commands are answered inside the calls that send them, so between two   *)
(* steps at most one link is in the making or being undone.  A stage says  *)
(* how far that link is, which calls come next, and that everything else   *)
(* is settled.  ns, cs, c and td stand for nodes, conns, contact and todo. *)
(*                                                                         *)
(* At the end, what holds after a switch too: the types (TypedInv), with a *)
(* receiver called only as the next thing and while a line waits for it.   *)
(***************************************************************************)
EXTENDS PlugNodeNetwork

-----------------------------------------------------------------------------
(* Types, whatever has been created so far.                                *)

State == {"IDLE", "CHECKIN", "CONNECT", "CONFIRM", "DISCONNECT"}
Message == [command : Command, address : Nat]
NodeRecord ==
    [isAlive : BOOLEAN, contactID : Nat, connection : [Slot -> Nat],
     connectionSwitch : Nat, peers : 0 .. 4]
ConnRecord ==
    [isAlive : BOOLEAN, connectionID : Nat, state : State, receiver : Nat,
     rxInfo : Nat, peer : Nat, registered : Nat \X Nat, lines : Seq(Message)]
CallRecord ==
    [call : {"join"}, at : Nat, for : Nat, id : Nat]
    \cup [call : {"switch", "switched", "removeContact", "shutdown"}, at : Nat]
    \cup [call : {"send"}, conn : Nat, command : Command, other : Nat]
    \cup [call : {"contact"}, at : Nat, conn : Nat]
    \cup [call : {"payload", "line"}, conn : Nat, line : Message]
    \cup [call : {"receive", "unlink", "setState"}, conn : Nat]
    \cup [call : {"disconnect"}, at : Nat, slot : Slot]

Typed ==
    /\ nodes \in Seq(NodeRecord) /\ conns \in Seq(ConnRecord)
    /\ contact \in Nat /\ localContactID \in Nat
    /\ shutDown \in Seq(Nat) /\ todo \in Seq(CallRecord)

-----------------------------------------------------------------------------
(* PlugNodes and their connections                                         *)

Lives(ns, n) == n \in DOMAIN ns /\ ns[n].isAlive

\* Not more than the contact and one peer for each of its connections.
FewLive(ns) == Cardinality({n \in DOMAIN ns : ns[n].isAlive}) <= 5

\* Connection k is in slot i of the living PlugNode n.
Has(ns, n, i, k) == Lives(ns, n) /\ i \in Slot /\ k # Null /\ ns[n].connection[i] = k
Owns(ns, n, k) == \E i \in Slot : Has(ns, n, i, k)

\* A connection is in one slot of one living PlugNode only.
Owned(ns, cs) ==
    \A n \in DOMAIN ns, i \in Slot : \A k \in {ns[n].connection[i]} : Has(ns, n, i, k) =>
        /\ k \in DOMAIN cs /\ cs[k].isAlive /\ cs[k].connectionID = i
        /\ \A m \in DOMAIN ns, h \in Slot : Has(ns, m, h, k) => m = n /\ h = i

\* Two connections of a PlugNode have different peers.
Distinct(ns, cs) ==
    \A n \in DOMAIN ns, i, h \in Slot :
        \A k \in {ns[n].connection[i]}, j \in {ns[n].connection[h]} :
            Has(ns, n, i, k) /\ Has(ns, n, h, j) /\ i # h /\ cs[k].peer = cs[j].peer
                => cs[k].peer = Null

NoSwitch(ns) == \A n \in DOMAIN ns : ns[n].connectionSwitch = Null

ContactLives(ns, c) == c # Null => Lives(ns, c)

\* The connections in the list for deletion are no living PlugNode's.
ShutApart(ns, cs, list) ==
    \A k \in Members(list) : k \in DOMAIN cs /\ \A n \in DOMAIN ns : ~Owns(ns, n, k)

Base(ns, cs, c, list) ==
    /\ Owned(ns, cs) /\ Distinct(ns, cs) /\ NoSwitch(ns)
    /\ ContactLives(ns, c) /\ ShutApart(ns, cs, list)

\* Connection k of n listens to the stream of connection j of m.
Listens(cs, n, k, m, j) ==
    cs[k].rxInfo = j /\ cs[k].receiver = n /\ cs[k].registered = <<m, j>>
End(cs, n, k, m, j) == cs[k].peer = m /\ Listens(cs, n, k, m, j)
Link(cs, n, k, m, j) ==
    /\ End(cs, n, k, m, j) /\ cs[k].state = "CONFIRM"
    /\ End(cs, m, j, n, k) /\ cs[j].state = "CONFIRM"

Clean(connection) == connection.state = "IDLE" /\ connection.peer = Null /\ connection.rxInfo = Null

\* Outside of busy, each connection is idle or has a confirmed peer; those of
\* the PlugNode that leaves may be disconnected.
Settled(ns, cs, busy, leaving) ==
    \A n \in DOMAIN ns, i \in Slot : \A k \in {ns[n].connection[i]} :
        Has(ns, n, i, k) /\ k \notin busy =>
            \/ Clean(cs[k])
            \/ n = leaving /\ cs[k].state = "DISCONNECT"
            \/ \E m \in DOMAIN ns \ {n}, j \in DOMAIN cs \ busy :
                  Link(cs, n, k, m, j) /\ Owns(ns, m, j)

\* Every PlugNode that came after the contact has it as a peer.
Star(ns, cs, c, except) ==
    c # Null => \A n \in DOMAIN ns \ except : ns[n].isAlive /\ n > c =>
        \E i \in Slot : \E k \in {ns[n].connection[i]} : Has(ns, n, i, k) /\ cs[k].peer = c

\* Peers counts the confirmed connections: with one more at the PlugNode that
\* has counted first, and one less at the one that has.
ConfirmedOf(ns, cs, n) ==
    {k \in {ns[n].connection[i] : i \in Slot} \ {Null} : cs[k].state = "CONFIRM"}
Counted(ns, cs, more, less) ==
    \A n \in DOMAIN ns : ns[n].isAlive =>
        ns[n].peers + (IF n = less THEN 1 ELSE 0)
            = Cardinality(ConfirmedOf(ns, cs, n)) + (IF n = more THEN 1 ELSE 0)

\* No line waits, except in the stream of connection k.
AllRead(cs, k) == \A q \in DOMAIN cs : q # k => cs[q].lines = <<>>

-----------------------------------------------------------------------------
(* The calls that remain                                                   *)

\* A line is written to the stream of k, up to the call of the receiver; Told
\* are the calls behind.
Telling(cs, td, k, line) ==
    /\ td # <<>>
    /\ \/ Head(td) = Payload(k, line) /\ cs[k].lines = <<>>
          /\ Tail(td) # <<>> /\ Head(Tail(td)) = LineEnd(k, line)
       \/ Head(td) = LineEnd(k, line) /\ cs[k].lines = <<>>
       \/ Head(td) = Receive(k) /\ cs[k].lines = <<line>>
    /\ AllRead(cs, k)
Told(td) == IF Head(td).call = "payload" THEN Tail(Tail(td)) ELSE Tail(td)

\* Before the line, the command is to be sent.
Sending(cs, td, k, command) ==
    td # <<>> /\ Head(td) = Send(k, command, Null) /\ AllRead(cs, Null)

Plain(command) == [command |-> command, address |-> Null]

\* PlugNodes that still have to send their CONTACT to b, over their links.
IsContactCall(ns, cs, busy, b, call) ==
    \E x \in DOMAIN ns \ {b}, k \in DOMAIN cs \ busy :
        /\ call = SendContact(x, k)
        /\ \E p \in DOMAIN cs \ busy : Link(cs, x, k, b, p) /\ Owns(ns, x, k) /\ Owns(ns, b, p)
Contacts(ns, cs, busy, b, td) == \A i \in DOMAIN td : IsContactCall(ns, cs, busy, b, td[i])

\* Behind the making of a link: the CONTACT of x too, if it has peers.
Behind(ns, cs, x, k, b, p, td) ==
    \/ Contacts(ns, cs, {k, p}, b, td)
    \/ td # <<>> /\ Head(td) = SendContact(x, k) /\ Contacts(ns, cs, {k, p}, b, Tail(td))

\* The calls that ~CmPlugNode() and ~CmServiceAccess() make.
LeaveCall(n, i) ==
    CASE i \in 1 .. 4 -> DisconnectPeer(n, i)
      [] i = 5        -> RemoveContact(n)
      [] i \in 6 .. 9 -> DisconnectPeer(n, i - 5)
      [] i = 10       -> Shutdown(n)
LeaveCalls(n, done) == [i \in 1 .. 10 - done |-> LeaveCall(n, done + i)]

-----------------------------------------------------------------------------
(* Stages of an arrival                                                    *)

\* Everything is settled.
Calm(ns, cs, c) ==
    Settled(ns, cs, {}, Null) /\ Star(ns, cs, c, {}) /\ Counted(ns, cs, Null, Null)

\* PlugNode b has to be told of others, or no call remains.
AtRest(ns, cs, c, td, b) ==
    /\ td # <<>> => Lives(ns, b)
    /\ Contacts(ns, cs, {}, b, td) /\ AllRead(cs, Null)
    /\ Calm(ns, cs, c)

\* b shall join at a.
AtJoin(ns, cs, c, td, a, b) ==
    /\ td # <<>> /\ Head(td).call = "join" /\ Head(td).at = a /\ Head(td).for = b
    /\ Lives(ns, a) /\ Lives(ns, b) /\ a # b
    /\ Contacts(ns, cs, {}, b, Tail(td)) /\ AllRead(cs, Null)
    /\ Settled(ns, cs, {}, Null) /\ Counted(ns, cs, Null, Null)
    /\ Star(ns, cs, c, IF a = c THEN {b} ELSE {})

\* The link of k of x and p of b in the making, with the state of each of them.
Making(ns, cs, c, x, k, b, p, sk, sp, more) ==
    /\ x # b /\ Owns(ns, x, k) /\ Owns(ns, b, p)
    /\ End(cs, x, k, b, p) /\ cs[k].state = sk
    /\ End(cs, b, p, x, k) /\ cs[p].state = sp
    /\ Settled(ns, cs, {k, p}, Null) /\ Star(ns, cs, c, {}) /\ Counted(ns, cs, more, Null)

Opened(ns, cs, c, td, x, k, b, p) ==
    /\ td # <<>> /\ Head(td) = SwitchAccess(x)
    /\ Sending(cs, Tail(td), p, "CHECKIN") /\ Contacts(ns, cs, {k, p}, b, Tail(Tail(td)))
    /\ Making(ns, cs, c, x, k, b, p, "IDLE", "IDLE", Null)
Checkin(ns, cs, c, td, x, k, b, p) ==
    /\ Sending(cs, td, p, "CHECKIN") /\ Contacts(ns, cs, {k, p}, b, Tail(td))
    /\ Making(ns, cs, c, x, k, b, p, "IDLE", "IDLE", Null)
CheckinTold(ns, cs, c, td, x, k, b, p) ==
    /\ Telling(cs, td, p, Plain("CHECKIN")) /\ Contacts(ns, cs, {k, p}, b, Told(td))
    /\ Making(ns, cs, c, x, k, b, p, "IDLE", "CHECKIN", Null)
Connect(ns, cs, c, td, x, k, b, p) ==
    /\ Sending(cs, td, k, "CONNECT") /\ Behind(ns, cs, x, k, b, p, Tail(td))
    /\ Making(ns, cs, c, x, k, b, p, "IDLE", "CHECKIN", Null)
ConnectTold(ns, cs, c, td, x, k, b, p) ==
    /\ Telling(cs, td, k, Plain("CONNECT")) /\ Behind(ns, cs, x, k, b, p, Told(td))
    /\ Making(ns, cs, c, x, k, b, p, "CONNECT", "CHECKIN", Null)
Confirm(ns, cs, c, td, x, k, b, p) ==
    /\ Sending(cs, td, p, "CONFIRM") /\ Behind(ns, cs, x, k, b, p, Tail(td))
    /\ Making(ns, cs, c, x, k, b, p, "CONNECT", "CHECKIN", b)
ConfirmTold(ns, cs, c, td, x, k, b, p) ==
    /\ Telling(cs, td, p, Plain("CONFIRM")) /\ Behind(ns, cs, x, k, b, p, Told(td))
    /\ Making(ns, cs, c, x, k, b, p, "CONNECT", "CONFIRM", Null)

\* x tells b of another PlugNode, over their link.
Linking(ns, cs, c, x, k, b, p) ==
    x # b /\ Link(cs, x, k, b, p) /\ Owns(ns, x, k) /\ Owns(ns, b, p) /\ Calm(ns, cs, c)
Contact1(ns, cs, c, td, x, k, b, p) ==
    /\ td # <<>> /\ Head(td).call = "send"
    /\ \E o \in {Null} \cup DOMAIN cs :
          Head(td) = Send(k, "CONTACT", o) /\ (o # Null => Owns(ns, x, o))
    /\ Contacts(ns, cs, {}, b, Tail(td)) /\ AllRead(cs, Null)
    /\ Linking(ns, cs, c, x, k, b, p)
ContactTold(ns, cs, c, td, x, k, b, p) ==
    /\ \E a \in {Null} \cup DOMAIN ns :
          /\ a # Null => ns[a].isAlive
          /\ Telling(cs, td, k, [command |-> "CONTACT", address |-> a])
    /\ Contacts(ns, cs, {}, b, Told(td))
    /\ Linking(ns, cs, c, x, k, b, p)

LinkStage(ns, cs, c, td, x, k, b, p) ==
    \/ Opened(ns, cs, c, td, x, k, b, p)   \/ Checkin(ns, cs, c, td, x, k, b, p)
    \/ CheckinTold(ns, cs, c, td, x, k, b, p)
    \/ Connect(ns, cs, c, td, x, k, b, p)  \/ ConnectTold(ns, cs, c, td, x, k, b, p)
    \/ Confirm(ns, cs, c, td, x, k, b, p)  \/ ConfirmTold(ns, cs, c, td, x, k, b, p)
    \/ Contact1(ns, cs, c, td, x, k, b, p) \/ ContactTold(ns, cs, c, td, x, k, b, p)

-----------------------------------------------------------------------------
(* Stages of a departure                                                   *)

\* n has left its first connections, as many as done says.
Parted(ns, cs, n, done) ==
    \A i \in Slot : \A k \in {ns[n].connection[i]} :
        i <= done /\ k # Null => cs[k].state \in {"IDLE", "DISCONNECT"}

\* Everything but the connections in busy, which n leaves, is settled.
Leaving(ns, cs, c, n, busy, done, more, less) ==
    /\ Lives(ns, n) /\ Parted(ns, cs, n, done)
    /\ Settled(ns, cs, busy, n) /\ (c # n => Star(ns, cs, c, {n})) /\ Counted(ns, cs, more, less)

AtLeave(ns, cs, c, td, n, done) ==
    /\ td = LeaveCalls(n, done) /\ AllRead(cs, Null)
    /\ done >= 5 => c # n
    /\ Leaving(ns, cs, c, n, {}, done, Null, Null)

\* n disconnects its connection j in slot i from k of m.
Unmaking(ns, cs, c, n, j, m, k, i, sj, sk, more, less) ==
    /\ m # n /\ Has(ns, n, i, j) /\ Owns(ns, m, k)
    /\ cs[j].state = sj /\ cs[k].state = sk /\ cs[k].peer \in {n, Null}
    /\ Leaving(ns, cs, c, n, {j, k}, i - 1, more, less)

\* Behind it: the state is set again, then the other calls.
After(td, n, j, i) == td # <<>> /\ Head(td) = SetDisconnect(j) /\ Tail(td) = LeaveCalls(n, i)
AfterUnlink(td, n, j, k, i) == td # <<>> /\ Head(td) = Unlink(k) /\ After(Tail(td), n, j, i)

Part(ns, cs, c, td, n, j, m, k, i) ==
    /\ Sending(cs, td, j, "DISCONNECT") /\ After(Tail(td), n, j, i)
    /\ Listens(cs, n, j, m, k) /\ End(cs, m, k, n, j)
    /\ Unmaking(ns, cs, c, n, j, m, k, i, "DISCONNECT", "CONFIRM", n, Null)
PartTold(ns, cs, c, td, n, j, m, k, i) ==
    /\ Telling(cs, td, j, Plain("DISCONNECT")) /\ After(Told(td), n, j, i)
    /\ Listens(cs, n, j, m, k) /\ End(cs, m, k, n, j)
    /\ Unmaking(ns, cs, c, n, j, m, k, i, "DISCONNECT", "CONFIRM", n, Null)
Answer(ns, cs, c, td, n, j, m, k, i) ==
    /\ Sending(cs, td, k, "DISCONNECT") /\ AfterUnlink(Tail(td), n, j, k, i)
    /\ Listens(cs, n, j, m, k) /\ End(cs, m, k, n, j)
    /\ Unmaking(ns, cs, c, n, j, m, k, i, "DISCONNECT", "CONFIRM", n, m)
AnswerTold(ns, cs, c, td, n, j, m, k, i) ==
    /\ Telling(cs, td, k, Plain("DISCONNECT")) /\ AfterUnlink(Told(td), n, j, k, i)
    /\ Listens(cs, n, j, m, k) /\ Listens(cs, m, k, n, j)
    /\ Unmaking(ns, cs, c, n, j, m, k, i, "DISCONNECT", "CONFIRM", n, m)
Answered(ns, cs, c, td, n, j, m, k, i) ==
    /\ AfterUnlink(td, n, j, k, i) /\ AllRead(cs, Null)
    /\ cs[k].rxInfo = j
    /\ Unmaking(ns, cs, c, n, j, m, k, i, "IDLE", "CONFIRM", Null, m)
Silent(ns, cs, c, td, n, j, m, k, i) ==
    /\ After(td, n, j, i) /\ AllRead(cs, Null)
    /\ Clean(cs[k])
    /\ Unmaking(ns, cs, c, n, j, m, k, i, "IDLE", "IDLE", Null, Null)

PartStage(ns, cs, c, td, n, j, m, k, i) ==
    \/ Part(ns, cs, c, td, n, j, m, k, i)     \/ PartTold(ns, cs, c, td, n, j, m, k, i)
    \/ Answer(ns, cs, c, td, n, j, m, k, i)   \/ AnswerTold(ns, cs, c, td, n, j, m, k, i)
    \/ Answered(ns, cs, c, td, n, j, m, k, i) \/ Silent(ns, cs, c, td, n, j, m, k, i)

-----------------------------------------------------------------------------

Stage(ns, cs, c, td) ==
    \/ \E b \in DOMAIN ns \cup {Null} : AtRest(ns, cs, c, td, b)
    \/ \E a, b \in DOMAIN ns : AtJoin(ns, cs, c, td, a, b)
    \/ \E x, b \in DOMAIN ns, k, p \in DOMAIN cs : LinkStage(ns, cs, c, td, x, k, b, p)
    \/ \E n \in DOMAIN ns, done \in 0 .. 9 : AtLeave(ns, cs, c, td, n, done)
    \/ \E n, m \in DOMAIN ns, j, k \in DOMAIN cs, i \in Slot : PartStage(ns, cs, c, td, n, j, m, k, i)

\* As long as never more than five PlugNodes have lived at once, the network is
\* at one of the stages.
NetworkInv ==
    Uncrowded =>
        /\ Typed /\ FewLive(nodes)
        /\ Base(nodes, conns, contact, shutDown)
        /\ Stage(nodes, conns, contact, todo)

-----------------------------------------------------------------------------
(* Types, however many PlugNodes live at once: an address is that of an    *)
(* object that was created, and a receiver that is called has a line.      *)

Object(n)  == 1 .. n
Pointer(n) == {Null} \cup Object(n)

Listener(N, C) == {<<Null, Null>>} \cup (Object(N) \X Object(C))
LineOf(N) == [command : Command, address : Pointer(N)]
NodeOf(C) ==
    [isAlive : BOOLEAN, contactID : Nat, connection : [Slot -> Pointer(C)],
     connectionSwitch : Pointer(C), peers : 0 .. 4]
ConnOf(N, C) ==
    [isAlive : BOOLEAN, connectionID : Slot \cup {Null}, state : State, receiver : Pointer(N),
     rxInfo : Pointer(C), peer : Pointer(N), registered : Listener(N, C), lines : Seq(LineOf(N))]
CallOf(N, C) ==
    [call : {"join"}, at : Object(N), for : Object(N), id : Nat]
    \cup [call : {"switch", "switched", "removeContact", "shutdown"}, at : Object(N)]
    \cup [call : {"send"}, conn : Object(C), command : Command, other : Pointer(C)]
    \cup [call : {"contact"}, at : Object(N), conn : Object(C)]
    \cup [call : {"payload", "line"}, conn : Object(C), line : LineOf(N)]
    \cup [call : {"unlink", "setState"}, conn : Object(C)]
    \cup [call : {"disconnect"}, at : Object(N), slot : Slot]

NodesOf(N, C) == [Object(N) -> NodeOf(C)]
ConnsOf(N, C) == [Object(C) -> ConnOf(N, C)]

\* A receiver is called as the next thing only, while a line waits for it.
HasLine(connection) == connection.lines # <<>> /\ connection.registered # <<Null, Null>>
CallsTyped(N, C, cs, td) ==
    \/ td \in Seq(CallOf(N, C))
    \/ /\ td # <<>> /\ Tail(td) \in Seq(CallOf(N, C))
       /\ \E k \in Object(C) : Head(td) = Receive(k) /\ HasLine(cs[k])

NetworkTyped(N, C) ==
    /\ nodes \in NodesOf(N, C) /\ conns \in ConnsOf(N, C)
    /\ contact \in Pointer(N) /\ localContactID \in Nat /\ shutDown \in Seq(Object(C))
    /\ CallsTyped(N, C, conns, todo)

\* Every member, pointer and call in progress has its type, however many PlugNodes
\* live; the calls need it because processMessage() reads and runs on what it finds.
TypedInv == NetworkTyped(Len(nodes), Len(conns))

\* No call follows a NULL pointer: what it runs on has been created, though it may
\* have been deleted since, and a receiver finds a line to read, its own connection and
\* its PlugNode (CmServiceAccess.cpp:237-281, processMessage(), maintainNetwork()).
NullNeverFollowed ==
    ~Quiet =>
      LET isNode(n) == n \in DOMAIN nodes
          isConn(k) == k \in DOMAIN conns
      IN  CASE Call.call = "join"    -> isNode(Call.at) /\ isNode(Call.for)
            [] Call.call = "send"    -> isConn(Call.conn) /\ (Call.other # Null => isConn(Call.other))
            [] Call.call = "contact" -> isNode(Call.at) /\ isConn(Call.conn)
            [] Call.call = "receive" ->
                  /\ isConn(Call.conn) /\ conns[Call.conn].lines # <<>>
                  /\ isConn(Own) /\ isNode(Receiver)
            [] Call.call \in {"payload", "line", "unlink", "setState"} -> isConn(Call.conn)
            [] OTHER                 -> isNode(Call.at)
=============================================================================
