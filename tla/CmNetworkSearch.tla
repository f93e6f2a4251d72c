-------------------------- MODULE CmNetworkSearch --------------------------
(***************************************************************************)
(* Services/PlugNode/CmServiceAccess.cpp:586-612, findServiceUURI(): the   *)
(* search of a service in the local network of PlugNodes.  Each access     *)
(* point passes the search on to its peers and remembers the token of the  *)
(* last search it has seen.  Several threads may search: the program's own *)
(* and those of the gateway's connections (CmGateway.cpp:165, 191).        *)
(* CmServiceAccess.cpp:41 has "ToDo: serialize network search/maintenance".*)
(*                                                                         *)
(* The links are those of a network at rest (PlugNodeNetwork), with two    *)
(* ends each.  Each step makes one access to a SearchToken.                *)
(***************************************************************************)
EXTENDS Integers, Sequences, FiniteSets

CONSTANTS
    Node,          \* service access points, numbered
    Searcher,      \* threads that search
    MaxSearches    \* bound on the searches

ASSUME SearchAssumption == Node \subseteq Nat \ {0} /\ IsFiniteSet(Node) /\ MaxSearches \in Nat

VARIABLES
    peers,         \* the contact addresses of each node's connections, in order
    searchToken,   \* SearchToken of each node
    clock,         \* getSysClockNanoSec(): later for every search
    start, goal,   \* of each thread's last search
    calls,         \* its nested calls of findServiceUURI(), innermost first
    found          \* what the outermost call has returned

vars == <<peers, searchToken, clock, start, goal, calls, found>>

Null == 0          \* also a goal that nobody serves

\* The nodes of a set, in ascending order.
Ordered(S) ==
    CHOOSE s \in [1 .. Cardinality(S) -> S] : \A i, j \in DOMAIN s : i < j => s[i] < s[j]

Links == {{n, m} : n, m \in Node} \ {{n} : n \in Node}
PeersOf(links) == [n \in Node |-> Ordered({m \in Node : {n, m} \in links})]

Init ==
    /\ peers \in {PeersOf(links) : links \in SUBSET Links}
    /\ searchToken = [n \in Node |-> 0]
    /\ clock = 0
    /\ start = [s \in Searcher |-> Null]
    /\ goal = [s \in Searcher |-> Null]
    /\ calls = [s \in Searcher |-> <<>>]
    /\ found = [s \in Searcher |-> Null]

-----------------------------------------------------------------------------
Call(n, token) == [at |-> n, token |-> token, step |-> "compare", peer |-> 1]
Top(s)         == Head(calls[s])
IsAt(s, step)  == calls[s] # <<>> /\ Top(s).step = step

\* The innermost call of thread s is replaced by the calls cs.
Becomes(s, cs) == calls' = [calls EXCEPT ![s] = cs \o Tail(@)]

\* Fault: the caller stays at the peer it has asked.
ReturnNullAgain(s) == calls' = [calls EXCEPT ![s] = Tail(@)] /\ UNCHANGED found

\* The innermost call returns NULL: the caller turns to its next peer.
ReturnNull(s) ==
    LET outer == Tail(calls[s])
    IN  /\ calls' = [calls EXCEPT ![s] =
                        IF outer = <<>> THEN <<>>
                        ELSE <<[Head(outer) EXCEPT !.peer = @ + 1]>> \o Tail(outer)]
        /\ UNCHANGED found

\* A node that is found is handed through all calls.
ReturnNode(s) ==
    /\ calls' = [calls EXCEPT ![s] = <<>>]
    /\ found' = [found EXCEPT ![s] = Top(s).at]

\* A search without a token takes the time for it.
Search(s, n, g) ==
    /\ calls[s] = <<>>
    /\ clock < MaxSearches
    /\ clock' = clock + 1
    /\ start' = [start EXCEPT ![s] = n]
    /\ goal' = [goal EXCEPT ![s] = g]
    /\ found' = [found EXCEPT ![s] = Null]
    /\ calls' = [calls EXCEPT ![s] = <<Call(n, clock')>>]
    /\ UNCHANGED <<peers, searchToken>>

Compare(s) ==
    /\ IsAt(s, "compare")
    /\ IF Top(s).token = searchToken[Top(s).at]
       THEN ReturnNull(s)
       ELSE Becomes(s, <<[Top(s) EXCEPT !.step = "store"]>>) /\ UNCHANGED found
    /\ UNCHANGED <<peers, searchToken, clock, start, goal>>

Store(s) ==
    /\ IsAt(s, "store")
    /\ searchToken' = [searchToken EXCEPT ![Top(s).at] = Top(s).token]
    /\ IF Top(s).at = goal[s]
       THEN ReturnNode(s)
       ELSE Becomes(s, <<[Top(s) EXCEPT !.step = "ask"]>>) /\ UNCHANGED found
    /\ UNCHANGED <<peers, clock, start, goal>>

\* Fault: only the first peer is asked.
AskFirst(s) ==
    /\ IsAt(s, "ask")
    /\ LET c == Top(s)
       IN  IF c.peer > Len(peers[c.at]) \/ c.peer > 1
           THEN ReturnNull(s)
           ELSE /\ Becomes(s, <<Call(peers[c.at][c.peer], searchToken[c.at]), c>>)
                /\ UNCHANGED found
    /\ UNCHANGED <<peers, searchToken, clock, start, goal>>

\* The token is read from the node again for every peer.
Ask(s) ==
    /\ IsAt(s, "ask")
    /\ LET c == Top(s)
       IN  IF c.peer > Len(peers[c.at])
           THEN ReturnNull(s)
           ELSE /\ Becomes(s, <<Call(peers[c.at][c.peer], searchToken[c.at]), c>>)
                /\ UNCHANGED found
    /\ UNCHANGED <<peers, searchToken, clock, start, goal>>

FindServiceUURI(s) == Compare(s) \/ Store(s) \/ Ask(s)

Next ==
    \E s \in Searcher :
        \/ \E n \in Node, g \in Node \cup {Null} : Search(s, n, g)
        \/ FindServiceUURI(s)

\* Every thread is scheduled.
Spec == Init /\ [][Next]_vars /\ \A s \in Searcher : WF_vars(FindServiceUURI(s))

-----------------------------------------------------------------------------
(* Properties *)

\* The nodes that the peers p connect with n.
PeersOfAll(p, M) == UNION {{p[m][j] : j \in DOMAIN p[m]} : m \in M}

Reached(p, n) ==
    LET within[i \in 0 .. Cardinality(Node)] ==
            IF i = 0 THEN {n} ELSE within[i - 1] \cup PeersOfAll(p, within[i - 1])
    IN  within[Cardinality(Node)]

Component(n) == Reached(peers, n)

\* A search finds the service if and only if links lead to it, from wherever it
\* starts and whatever tokens earlier searches have left behind: "every query
\* will be propagated very fast to all service access points throughout the
\* network" (CmServiceAccess.h:93-94).
FoundIfConnected ==
    \A s \in Searcher :
        calls[s] = <<>> /\ start[s] # Null =>
            found[s] = IF goal[s] \in Component(start[s]) THEN goal[s] ELSE Null

Frame == [at: Node, token: Nat, step: {"compare", "store", "ask"}, peer: Nat \ {0}]

TypeOK ==
    /\ peers \in [Node -> Seq(Node)]
    /\ clock \in Nat
    /\ searchToken \in [Node -> 0 .. clock]
    /\ start \in [Searcher -> Node \cup {Null}] /\ goal \in [Searcher -> Node \cup {Null}]
    /\ calls \in [Searcher -> Seq(Frame)]
    /\ found \in [Searcher -> Node \cup {Null}]

\* The nodes the last search has come to.
Seen == {n \in Node : searchToken[n] = clock}

\* A call of a search from n, over the peers p, that has the token k and has seen
\* the nodes S: it asks one peer after the other.
CallGoesOn(c, k, n, p, S) ==
    /\ c.token = k /\ c.at \in Reached(p, n)
    /\ IF c.step = "ask" THEN c.at \in S /\ \A j \in DOMAIN p[c.at] : j < c.peer => p[c.at][j] \in S
       ELSE c.peer = 1

Asks(c, p, m) == c.step = "ask" /\ c.peer \in DOMAIN p[c.at] /\ p[c.at][c.peer] = m

\* Each of the calls cs asks the node the next inner one is for; the outermost one
\* is for the start, which nobody has asked before.
CallsNest(cs, k, n, p, S) ==
    /\ \A i \in DOMAIN cs : CallGoesOn(cs[i], k, n, p, S) /\ (i > 1 => Asks(cs[i], p, cs[i - 1].at))
    /\ cs[Len(cs)].at = n /\ (cs[Len(cs)].step = "compare" => n \notin S)

\* What the search has seen is not the goal, and the peers of it have been seen
\* too or are still to be asked.
SeenExplored(cs, g, p, S) ==
    \A m \in S : /\ m # g
                 /\ \/ \A j \in DOMAIN p[m] : p[m][j] \in S
                    \/ \E i \in DOMAIN cs : cs[i].at = m /\ cs[i].step = "ask"

\* The inductive invariant behind FoundIfConnected, for a single searcher.
SearchInv ==
    /\ TypeOK /\ FoundIfConnected
    /\ \A s \in Searcher :
         calls[s] # <<>> => /\ CallsNest(calls[s], clock, start[s], peers, Seen)
                            /\ SeenExplored(calls[s], goal[s], peers, Seen)
                            /\ found[s] = Null

\* Every search comes to its end.
SearchReturns == \A s \in Searcher : calls[s] # <<>> ~> calls[s] = <<>>
=============================================================================
