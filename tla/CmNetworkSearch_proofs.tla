----------------------- MODULE CmNetworkSearch_proofs -----------------------
(***************************************************************************)
(* One thread that searches the network finds what is connected with its   *)
(* start, in networks of every size and shape: Reached() is the least set  *)
(* around a node that is closed under peers, and SearchInv is inductive.   *)
(* That several threads may search is what the theorem leaves out: their   *)
(* searches overwrite each other's tokens (CmServiceAccess.cpp:41).        *)
(***************************************************************************)
EXTENDS CmNetworkSearch, NumberInduction, FiniteSetTheorems, SequenceTheorems, TLAPS

LEMMA NodeFinite ==
    /\ IsFiniteSet(Node) /\ Cardinality(Node) \in Nat /\ Null \notin Node
    /\ \A M \in SUBSET Node : IsFiniteSet(M) /\ Cardinality(M) \in Nat /\ Cardinality(M) <= Cardinality(Node)
BY SearchAssumption, FS_CardinalityType, FS_Subset DEF Null

-----------------------------------------------------------------------------
(* What links lead to *)

\* The first k rounds of Reached().
IsWithin(f, p, n, k) ==
    f = [i \in 0 .. k |-> IF i = 0 THEN {n} ELSE f[i - 1] \cup PeersOfAll(p, f[i - 1])]

LEMMA WithinExists ==
    ASSUME NEW p, NEW n, NEW k \in Nat
    PROVE  \E f : IsWithin(f, p, n, k)
<1> DEFINE K == {j \in Nat : \E f : IsWithin(f, p, n, j)}
<1>1. 0 \in K
  <2> DEFINE f == [i \in 0 .. 0 |-> {n}]
  <2>1. f = [i \in 0 .. 0 |-> IF i = 0 THEN {n} ELSE f[i - 1] \cup PeersOfAll(p, f[i - 1])]
    OBVIOUS
  <2> HIDE DEF f
  <2>2. IsWithin(f, p, n, 0)
    BY <2>1 DEF IsWithin
  <2> QED
    BY <2>2
<1>2. ASSUME NEW j \in Nat, j \in K
      PROVE  j + 1 \in K
  <2>1. PICK f : IsWithin(f, p, n, j)
    BY <1>2
  <2>2. /\ f = [i \in 0 .. j |-> IF i = 0 THEN {n} ELSE f[i - 1] \cup PeersOfAll(p, f[i - 1])]
        /\ \A i \in 0 .. j : f[i] = IF i = 0 THEN {n} ELSE f[i - 1] \cup PeersOfAll(p, f[i - 1])
    BY <2>1 DEF IsWithin
  <2> DEFINE next == f[j] \cup PeersOfAll(p, f[j])
             g    == [i \in 0 .. j + 1 |-> IF i = j + 1 THEN next ELSE f[i]]
  <2>3. \A i \in 0 .. j : g[i] = f[i]
    OBVIOUS
  <2>4. g[j + 1] = g[j + 1 - 1] \cup PeersOfAll(p, g[j + 1 - 1])
    <3>1. j + 1 - 1 = j /\ g[j] = f[j] /\ g[j + 1] = next
      BY <2>3
    <3> QED
      BY <3>1
  <2>5. \A i \in 0 .. j + 1 : g[i] = IF i = 0 THEN {n} ELSE g[i - 1] \cup PeersOfAll(p, g[i - 1])
    <3> SUFFICES ASSUME NEW i \in 0 .. j + 1
                 PROVE  g[i] = IF i = 0 THEN {n} ELSE g[i - 1] \cup PeersOfAll(p, g[i - 1])
      OBVIOUS
    <3>1. CASE i = j + 1
      BY <2>4, <3>1
    <3>2. CASE i = 0
      BY <2>2, <2>3, <3>2
    <3>3. CASE i # j + 1 /\ i # 0
      <4>1. i \in 0 .. j /\ i - 1 \in 0 .. j
        BY <3>3
      <4>2. g[i] = f[i] /\ g[i - 1] = f[i - 1]
        BY <2>3, <4>1
      <4> HIDE DEF g
      <4> QED
        BY <2>2, <3>3, <4>1, <4>2
    <3> QED
      BY <3>1, <3>2, <3>3
  <2>6. DOMAIN g = 0 .. j + 1 /\ g = [i \in 0 .. j + 1 |-> g[i]]
    OBVIOUS
  <2> HIDE DEF g
  <2>7. IsWithin(g, p, n, j + 1)
    BY <2>5, <2>6 DEF IsWithin
  <2> QED
    BY <2>7
<1>3. K \in SUBSET Nat
  OBVIOUS
<1> HIDE DEF K
<1>4. K = Nat
  BY <1>1, <1>2, <1>3, AllNumbers
<1> QED
  BY <1>4 DEF K

\* Reached() by its rounds.
Rounds(f, p, n) ==
    /\ Reached(p, n) = f[Cardinality(Node)]
    /\ f[0] = {n}
    /\ \A i \in 0 .. Cardinality(Node) : i # 0 => f[i] = f[i - 1] \cup PeersOfAll(p, f[i - 1])

LEMMA ReachedRounds ==
    ASSUME NEW p, NEW n
    PROVE  \E f : Rounds(f, p, n)
<1> DEFINE N == Cardinality(Node)
           f == CHOOSE f : f = [i \in 0 .. N |-> IF i = 0 THEN {n} ELSE f[i - 1] \cup PeersOfAll(p, f[i - 1])]
<1>1. N \in Nat
  BY NodeFinite
<1>2. \E g : g = [i \in 0 .. N |-> IF i = 0 THEN {n} ELSE g[i - 1] \cup PeersOfAll(p, g[i - 1])]
  <2>1. PICK g : IsWithin(g, p, n, N)
    BY <1>1, WithinExists
  <2>2. g = [i \in 0 .. N |-> IF i = 0 THEN {n} ELSE g[i - 1] \cup PeersOfAll(p, g[i - 1])]
    BY <2>1 DEF IsWithin
  <2> QED
    BY <2>2
<1>3. f = [i \in 0 .. N |-> IF i = 0 THEN {n} ELSE f[i - 1] \cup PeersOfAll(p, f[i - 1])]
  BY <1>2
<1>4. Reached(p, n) = f[N]
  BY DEF Reached
<1> HIDE DEF f
<1>5. f[0] = {n} /\ \A i \in 0 .. N : i # 0 => f[i] = f[i - 1] \cup PeersOfAll(p, f[i - 1])
  <2>1. \A i \in 0 .. N : f[i] = IF i = 0 THEN {n} ELSE f[i - 1] \cup PeersOfAll(p, f[i - 1])
    BY <1>3
  <2>2. 0 \in 0 .. N
    BY <1>1
  <2> QED
    BY <2>1, <2>2
<1> QED
  BY <1>4, <1>5 DEF Rounds

Closed(p, M) == \A m \in M : \A j \in DOMAIN p[m] : p[m][j] \in M

LEMMA ClosedPeers ==
    ASSUME NEW p, NEW M
    PROVE  Closed(p, M) <=> PeersOfAll(p, M) \subseteq M
BY DEF Closed, PeersOfAll

\* A closed set that holds the start holds what is reached...
LEMMA ReachedLeast ==
    ASSUME NEW p, NEW n, NEW M, n \in M, Closed(p, M)
    PROVE  Reached(p, n) \subseteq M
<1> DEFINE N == Cardinality(Node)
<1>0. PICK f : Rounds(f, p, n)
  BY ReachedRounds
<1>1. /\ Reached(p, n) = f[N] /\ f[0] = {n}
      /\ \A i \in 0 .. N : i # 0 => f[i] = f[i - 1] \cup PeersOfAll(p, f[i - 1])
  BY <1>0 DEF Rounds
<1> DEFINE K == {k \in Nat : k <= N => f[k] \subseteq M}
<1>2. N \in Nat
  BY NodeFinite
<1> HIDE DEF N
<1>3. 0 \in K
  BY <1>1
<1>4. ASSUME NEW k \in Nat, k \in K
      PROVE  k + 1 \in K
  <2> SUFFICES ASSUME k + 1 <= N
               PROVE  f[k + 1] \subseteq M
    OBVIOUS
  <2>1. k + 1 \in 0 .. N /\ k + 1 # 0 /\ k + 1 - 1 = k /\ k <= N
    BY <1>2
  <2>2. f[k + 1] = f[k] \cup PeersOfAll(p, f[k])
    BY <1>1, <2>1
  <2>3. f[k] \subseteq M
    BY <1>4, <2>1
  <2> QED
    BY <2>2, <2>3 DEF PeersOfAll, Closed
<1>5. K \in SUBSET Nat
  OBVIOUS
<1> HIDE DEF K
<1>6. K = Nat
  BY <1>3, <1>4, <1>5, AllNumbers
<1>7. f[N] \subseteq M
  BY <1>2, <1>6 DEF K
<1> QED
  BY <1>1, <1>7 DEF N

\* After k rounds.
Grown(p, n, M, k) == n \in M /\ M \subseteq Node /\ (Closed(p, M) \/ Cardinality(M) >= k + 1)

\* ...and what is reached holds the start and is closed: each of the rounds, as
\* many as there are nodes, finds a new one or no round does any more.
LEMMA ReachedClosed ==
    ASSUME NEW p \in [Node -> Seq(Node)], NEW n \in Node
    PROVE  n \in Reached(p, n) /\ Reached(p, n) \subseteq Node /\ Closed(p, Reached(p, n))
<1> DEFINE N == Cardinality(Node)
<1>0. PICK f : Rounds(f, p, n)
  BY ReachedRounds
<1>1. /\ Reached(p, n) = f[N] /\ f[0] = {n}
      /\ \A i \in 0 .. N : i # 0 => f[i] = f[i - 1] \cup PeersOfAll(p, f[i - 1])
  BY <1>0 DEF Rounds
<1> DEFINE K == {k \in Nat : k <= N => Grown(p, n, f[k], k)}
<1>2. N \in Nat
  BY NodeFinite
<1> HIDE DEF N
<1>3. 0 \in K
  <2>1. Cardinality({n}) = 1
    BY FS_Singleton
  <2>2. Grown(p, n, f[0], 0)
    BY <1>1, <2>1 DEF Grown
  <2> QED
    BY <2>2
<1>4. ASSUME NEW k \in Nat, k \in K
      PROVE  k + 1 \in K
  <2> SUFFICES ASSUME k + 1 <= N
               PROVE  Grown(p, n, f[k + 1], k + 1)
    OBVIOUS
  <2>1. k + 1 \in 0 .. N /\ k + 1 # 0 /\ k + 1 - 1 = k /\ k <= N
    BY <1>2
  <2>2. f[k + 1] = f[k] \cup PeersOfAll(p, f[k])
    BY <1>1, <2>1
  <2>3. n \in f[k] /\ f[k] \subseteq Node /\ (Closed(p, f[k]) \/ Cardinality(f[k]) >= k + 1)
    BY <1>4, <2>1 DEF Grown
  <2>4. PeersOfAll(p, f[k]) \subseteq Node
    <3>1. \A m \in f[k] : \A j \in DOMAIN p[m] : p[m][j] \in Node
      BY <2>3
    <3> QED
      BY <3>1 DEF PeersOfAll
  <2>5. CASE Closed(p, f[k])
    <3>1. f[k + 1] = f[k]
      BY <2>2, <2>5, ClosedPeers
    <3> QED
      BY <2>3, <2>5, <3>1 DEF Grown
  <2>6. CASE ~Closed(p, f[k])
    <3>1. PICK m \in PeersOfAll(p, f[k]) : m \notin f[k]
      BY <2>6, ClosedPeers
    <3>2. f[k] \cup {m} \subseteq f[k + 1] /\ f[k + 1] \subseteq Node
      BY <2>2, <2>3, <2>4, <3>1
    <3>3. IsFiniteSet(f[k]) /\ IsFiniteSet(f[k + 1]) /\ Cardinality(f[k]) \in Nat /\ Cardinality(f[k + 1]) \in Nat
      BY <2>3, <3>2, NodeFinite
    <3>4. Cardinality(f[k] \cup {m}) = Cardinality(f[k]) + 1
      BY <3>1, <3>3, FS_AddElement
    <3>5. Cardinality(f[k] \cup {m}) <= Cardinality(f[k + 1])
      BY <3>2, <3>3, FS_Subset
    <3>6. Cardinality(f[k + 1]) >= k + 1 + 1
      BY <2>3, <2>6, <3>3, <3>4, <3>5
    <3> QED
      BY <2>2, <2>3, <3>2, <3>6 DEF Grown
  <2> QED
    BY <2>5, <2>6
<1>5. K \in SUBSET Nat
  OBVIOUS
<1> HIDE DEF K
<1>6. K = Nat
  BY <1>3, <1>4, <1>5, AllNumbers
<1>7. Grown(p, n, f[N], N)
  BY <1>2, <1>6 DEF K
<1>8. ~(Cardinality(f[N]) >= N + 1)
  BY <1>2, <1>7, NodeFinite DEF N, Grown
<1> QED
  BY <1>1, <1>7, <1>8 DEF N, Grown

-----------------------------------------------------------------------------
(* The peers of a node *)

LEMMA OrderedTyped ==
    ASSUME NEW S \in SUBSET Nat, IsFiniteSet(S)
    PROVE  Ordered(S) \in [1 .. Cardinality(S) -> S]
<1> DEFINE Ascends(s) == \A i, j \in DOMAIN s : i < j => s[i] < s[j]
           Has(T)     == \E s \in [1 .. Cardinality(T) -> T] : Ascends(s)
           K          == {k \in Nat : \A T \in SUBSET Nat : IsFiniteSet(T) /\ Cardinality(T) = k => Has(T)}
<1>1. 0 \in K
  <2> SUFFICES ASSUME NEW T \in SUBSET Nat, IsFiniteSet(T), Cardinality(T) = 0
               PROVE  Has(T)
    OBVIOUS
  <2> DEFINE s == [i \in 1 .. 0 |-> 0]
  <2>1. s \in [1 .. Cardinality(T) -> T] /\ Ascends(s)
    OBVIOUS
  <2> QED
    BY <2>1
<1>2. ASSUME NEW k \in Nat, k \in K
      PROVE  k + 1 \in K
  <2> SUFFICES ASSUME NEW T \in SUBSET Nat, IsFiniteSet(T), Cardinality(T) = k + 1
               PROVE  Has(T)
    OBVIOUS
  <2>1. T # {}
    BY FS_EmptySet
  <2>2. PICK m \in T : \A j \in T : m <= j
    BY <2>1, FirstOfNumbers
  <2> DEFINE R == T \ {m}
  <2>3. IsFiniteSet(R) /\ Cardinality(R) = k /\ R \in SUBSET Nat
    BY FS_RemoveElement
  <2>4. PICK r \in [1 .. k -> R] : Ascends(r)
    BY <1>2, <2>3
  <2> DEFINE s == [i \in 1 .. k + 1 |-> IF i = 1 THEN m ELSE r[i - 1]]
  <2>5. \A i \in 1 .. k + 1 : i # 1 => i - 1 \in 1 .. k
    OBVIOUS
  <2>6. s \in [1 .. k + 1 -> T]
    BY <2>5
  <2>7. Ascends(s)
    <3> SUFFICES ASSUME NEW i \in 1 .. k + 1, NEW j \in 1 .. k + 1, i < j
                 PROVE  s[i] < s[j]
      OBVIOUS
    <3>1. j # 1 /\ j - 1 \in 1 .. k /\ s[j] = r[j - 1] /\ r[j - 1] \in R
      BY <2>5
    <3>2. CASE i = 1
      <4>1. s[i] = m /\ m <= r[j - 1] /\ m # r[j - 1] /\ m \in Nat /\ r[j - 1] \in Nat
        BY <2>2, <2>3, <3>1, <3>2
      <4> QED
        BY <3>1, <4>1
    <3>3. CASE i # 1
      <4>1. i - 1 \in 1 .. k /\ s[i] = r[i - 1] /\ i - 1 < j - 1
        BY <2>5, <3>3
      <4> QED
        BY <2>4, <3>1, <4>1
    <3> QED
      BY <3>2, <3>3
  <2> QED
    BY <2>6, <2>7
<1>3. K \in SUBSET Nat
  OBVIOUS
<1> HIDE DEF K
<1>4. K = Nat
  BY <1>1, <1>2, <1>3, AllNumbers
<1>5. Has(S)
  BY <1>4, FS_CardinalityType DEF K
<1> QED
  BY <1>5 DEF Ordered

-----------------------------------------------------------------------------
(* The stack of calls *)

Advanced(c)      == [c EXCEPT !.peer = @ + 1]
Stepped(c, step) == [c EXCEPT !.step = step]

LEMMA FrameFields ==
    ASSUME NEW c \in Frame, NEW step \in {"compare", "store", "ask"}
    PROVE  /\ c.at \in Node /\ c.token \in Nat /\ c.peer \in Nat \ {0} /\ c.step \in {"compare", "store", "ask"}
           /\ Advanced(c) \in Frame
           /\ Advanced(c).at = c.at /\ Advanced(c).token = c.token /\ Advanced(c).step = c.step
           /\ Advanced(c).peer = c.peer + 1
           /\ Stepped(c, step) \in Frame
           /\ Stepped(c, step).at = c.at /\ Stepped(c, step).token = c.token /\ Stepped(c, step).peer = c.peer
           /\ Stepped(c, step).step = step
BY DEF Frame, Advanced, Stepped

LEMMA CallFields ==
    ASSUME NEW n \in Node, NEW token \in Nat
    PROVE  /\ Call(n, token) \in Frame
           /\ Call(n, token).at = n /\ Call(n, token).token = token
           /\ Call(n, token).step = "compare" /\ Call(n, token).peer = 1
BY DEF Call, Frame

LEMMA StackTop ==
    ASSUME NEW cs \in Seq(Frame), cs # <<>>
    PROVE  /\ Len(cs) \in Nat \ {0} /\ DOMAIN cs = 1 .. Len(cs) /\ Head(cs) = cs[1]
           /\ \A i \in 1 .. Len(cs) : cs[i] \in Frame
           /\ Tail(cs) \in Seq(Frame) /\ Len(Tail(cs)) = Len(cs) - 1
           /\ \A i \in 1 .. Len(cs) - 1 : Tail(cs)[i] = cs[i + 1]
BY EmptySeq, HeadTailProperties

\* The innermost call goes on...
LEMMA StackReplace ==
    ASSUME NEW cs \in Seq(Frame), cs # <<>>, NEW x \in Frame
    PROVE  LET r == <<x>> \o Tail(cs)
           IN  /\ r \in Seq(Frame) /\ Len(r) = Len(cs) /\ r[1] = x
               /\ \A i \in 1 .. Len(cs) : i # 1 => r[i] = cs[i]
<1> DEFINE tail == Tail(cs)
           r    == <<x>> \o tail
<1>1. /\ Len(cs) \in Nat \ {0} /\ tail \in Seq(Frame) /\ Len(tail) = Len(cs) - 1
      /\ \A i \in 1 .. Len(cs) - 1 : tail[i] = cs[i + 1]
  BY StackTop
<1> HIDE DEF tail
<1>2. <<x>> \in Seq(Frame) /\ Len(<<x>>) = 1 /\ <<x>>[1] = x
  OBVIOUS
<1>3. /\ r \in Seq(Frame) /\ Len(r) = 1 + Len(tail)
      /\ \A i \in 1 .. 1 + Len(tail) : r[i] = IF i <= 1 THEN <<x>>[i] ELSE tail[i - 1]
  BY <1>1, <1>2, ConcatProperties
<1> HIDE DEF r
<1>4. Len(r) = Len(cs) /\ r[1] = x
  BY <1>1, <1>2, <1>3
<1>5. ASSUME NEW i \in 1 .. Len(cs), i # 1
      PROVE  r[i] = cs[i]
  <2>1. i \in 1 .. 1 + Len(tail) /\ ~(i <= 1) /\ i - 1 \in 1 .. Len(cs) - 1 /\ i - 1 + 1 = i
    BY <1>1, <1>5
  <2> QED
    BY <1>1, <1>3, <2>1
<1> QED
  BY <1>3, <1>4, <1>5 DEF r, tail

\* ...calls another node...
LEMMA StackPush ==
    ASSUME NEW cs \in Seq(Frame), cs # <<>>, NEW x \in Frame
    PROVE  LET r == <<x, Head(cs)>> \o Tail(cs)
           IN  /\ r \in Seq(Frame) /\ Len(r) = Len(cs) + 1 /\ r[1] = x
               /\ \A i \in 1 .. Len(cs) : r[i + 1] = cs[i]
<1> DEFINE tail == Tail(cs)
           two  == <<x, Head(cs)>>
           r    == two \o tail
<1>1. /\ Len(cs) \in Nat \ {0} /\ tail \in Seq(Frame) /\ Len(tail) = Len(cs) - 1
      /\ Head(cs) = cs[1] /\ cs[1] \in Frame
      /\ \A i \in 1 .. Len(cs) - 1 : tail[i] = cs[i + 1]
  BY StackTop
<1> HIDE DEF tail
<1>2. two \in Seq(Frame) /\ Len(two) = 2 /\ two[1] = x /\ two[2] = cs[1]
  BY <1>1
<1> HIDE DEF two
<1>3. /\ r \in Seq(Frame) /\ Len(r) = 2 + Len(tail)
      /\ \A i \in 1 .. 2 + Len(tail) : r[i] = IF i <= 2 THEN two[i] ELSE tail[i - 2]
  <2>1. /\ r \in Seq(Frame) /\ Len(r) = Len(two) + Len(tail)
        /\ \A i \in 1 .. Len(two) + Len(tail) : r[i] = IF i <= Len(two) THEN two[i] ELSE tail[i - Len(two)]
    BY <1>1, <1>2, ConcatProperties
  <2> HIDE DEF r
  <2> QED
    BY <1>2, <2>1
<1> HIDE DEF r
<1>4. Len(r) = Len(cs) + 1 /\ r[1] = x
  BY <1>1, <1>2, <1>3
<1>5. ASSUME NEW i \in 1 .. Len(cs)
      PROVE  r[i + 1] = cs[i]
  <2>1. CASE i = 1
    BY <1>1, <1>2, <1>3, <2>1
  <2>2. CASE i # 1
    <3>1. i + 1 \in 1 .. 2 + Len(tail) /\ ~(i + 1 <= 2) /\ i + 1 - 2 = i - 1 /\ i - 1 \in 1 .. Len(cs) - 1 /\ i - 1 + 1 = i
      BY <1>1, <2>2
    <3> QED
      BY <1>1, <1>3, <3>1
  <2> QED
    BY <2>1, <2>2
<1> QED
  BY <1>3, <1>4, <1>5 DEF r, two, tail

\* ...or returns to the one that has called it.
LEMMA StackPop ==
    ASSUME NEW cs \in Seq(Frame), cs # <<>>, Tail(cs) # <<>>, NEW x \in Frame
    PROVE  LET r == <<x>> \o Tail(Tail(cs))
           IN  /\ r \in Seq(Frame) /\ Len(r) = Len(cs) - 1 /\ r[1] = x
               /\ Head(Tail(cs)) = cs[2] /\ Len(cs) > 1
               /\ \A i \in 1 .. Len(cs) - 1 : i # 1 => r[i] = cs[i + 1]
<1> DEFINE outer == Tail(cs)
           r     == <<x>> \o Tail(outer)
<1>1. /\ Len(cs) \in Nat \ {0} /\ outer \in Seq(Frame) /\ Len(outer) = Len(cs) - 1
      /\ \A i \in 1 .. Len(cs) - 1 : outer[i] = cs[i + 1]
  BY StackTop
<1>2. outer # <<>>
  OBVIOUS
<1> HIDE DEF outer
<1>3. Head(outer) = outer[1] /\ Len(outer) \in Nat \ {0}
  BY <1>1, <1>2, StackTop
<1>4. Head(outer) = cs[2] /\ Len(cs) > 1
  BY <1>1, <1>3
<1>5. /\ r \in Seq(Frame) /\ Len(r) = Len(outer) /\ r[1] = x
      /\ \A i \in 1 .. Len(outer) : i # 1 => r[i] = outer[i]
  BY <1>1, <1>2, StackReplace
<1> HIDE DEF r
<1> QED
  BY <1>1, <1>4, <1>5 DEF r, outer

-----------------------------------------------------------------------------
(* What becomes of a search *)

\* The calls cs of a search as the invariant has them.
GoodSearch(cs, k, n, g, p, S) ==
    /\ cs \in Seq(Frame) /\ cs # <<>> /\ S \subseteq Node
    /\ CallsNest(cs, k, n, p, S) /\ SeenExplored(cs, g, p, S)

\* The innermost call goes on to its next step; the node it is for has been seen
\* when it comes to ask.
LEMMA CallStepped ==
    ASSUME NEW cs, NEW k, NEW n, NEW g, NEW p \in [Node -> Seq(Node)], NEW S,
           GoodSearch(cs, k, n, g, p, S),
           NEW step, NEW T,
           \/ Head(cs).step = "compare" /\ step = "store" /\ T = S
           \/ Head(cs).step = "store" /\ step = "ask" /\ T = S \cup {Head(cs).at} /\ Head(cs).at # g
    PROVE  GoodSearch(<<Stepped(Head(cs), step)>> \o Tail(cs), k, n, g, p, T)
<1> DEFINE c == Stepped(Head(cs), step)
           r == <<c>> \o Tail(cs)
<1>1. /\ cs \in Seq(Frame) /\ cs # <<>> /\ S \subseteq Node
      /\ CallsNest(cs, k, n, p, S) /\ SeenExplored(cs, g, p, S)
  BY DEF GoodSearch
<1>2. /\ Len(cs) \in Nat \ {0} /\ DOMAIN cs = 1 .. Len(cs) /\ Head(cs) = cs[1] /\ cs[1] \in Frame
      /\ \A i \in 1 .. Len(cs) : cs[i] \in Frame
  BY <1>1, StackTop
<1>3. step \in {"store", "ask"} /\ step \in {"compare", "store", "ask"}
  OBVIOUS
<1>4. /\ c \in Frame /\ c.at = cs[1].at /\ c.token = cs[1].token /\ c.peer = cs[1].peer /\ c.step = step
      /\ cs[1].at \in Node
  BY <1>2, <1>3, FrameFields
<1> HIDE DEF c
<1>5. /\ r \in Seq(Frame) /\ Len(r) = Len(cs) /\ r[1] = c
      /\ \A i \in 1 .. Len(cs) : i # 1 => r[i] = cs[i]
  BY <1>1, <1>4, StackReplace
<1> HIDE DEF r
<1>6. DOMAIN r = 1 .. Len(cs) /\ r # <<>>
  BY <1>2, <1>5
<1>7. S \subseteq T /\ T \subseteq Node /\ (step = "ask" => T = S \cup {cs[1].at} /\ cs[1].at # g) /\ (step = "store" => T = S)
  BY <1>1, <1>2, <1>4
<1>8. /\ \A i \in 1 .. Len(cs) : CallGoesOn(cs[i], k, n, p, S) /\ (i > 1 => Asks(cs[i], p, cs[i - 1].at))
      /\ cs[Len(cs)].at = n /\ (cs[Len(cs)].step = "compare" => n \notin S)
  BY <1>1, <1>2 DEF CallsNest
<1>9. cs[1].step # "ask" /\ 1 \in 1 .. Len(cs)
  BY <1>2
<1>10. CallGoesOn(c, k, n, p, T)
  <2>1. cs[1].token = k /\ cs[1].at \in Reached(p, n) /\ cs[1].peer = 1
    BY <1>8, <1>9 DEF CallGoesOn
  <2>2. step = "ask" => c.at \in T
    BY <1>4, <1>7
  <2>3. \A j \in DOMAIN p[c.at] : ~(j < c.peer)
    BY <1>4, <2>1
  <2> QED
    BY <1>4, <2>1, <2>2, <2>3 DEF CallGoesOn
<1>11. ASSUME NEW i \in 1 .. Len(cs)
       PROVE  CallGoesOn(r[i], k, n, p, T) /\ (i > 1 => Asks(r[i], p, r[i - 1].at))
  <2>1. CASE i = 1
    BY <1>5, <1>10, <2>1
  <2>2. CASE i # 1
    <3>1. r[i] = cs[i] /\ i > 1 /\ i - 1 \in 1 .. Len(cs)
      BY <1>2, <1>5, <2>2
    <3>2. CallGoesOn(cs[i], k, n, p, S) /\ Asks(cs[i], p, cs[i - 1].at)
      BY <1>8, <3>1
    <3>3. CallGoesOn(cs[i], k, n, p, T)
      BY <1>7, <3>2 DEF CallGoesOn
    <3>4. r[i - 1].at = cs[i - 1].at
      BY <1>4, <1>5, <3>1
    <3> QED
      BY <3>1, <3>2, <3>3, <3>4
  <2> QED
    BY <2>1, <2>2
<1>12. r[Len(r)].at = n /\ r[Len(r)].step # "compare"
  <2>1. CASE Len(cs) = 1
    BY <1>3, <1>4, <1>5, <1>8, <2>1
  <2>2. CASE Len(cs) # 1
    <3>1. Len(cs) \in 1 .. Len(cs) /\ Len(cs) > 1
      BY <1>2, <2>2
    <3>2. r[Len(r)] = cs[Len(cs)] /\ cs[Len(cs)].step = "ask"
      BY <1>5, <1>8, <3>1 DEF Asks
    <3> QED
      BY <1>8, <3>2
  <2> QED
    BY <2>1, <2>2
<1>13. CallsNest(r, k, n, p, T)
  BY <1>6, <1>11, <1>12 DEF CallsNest
<1>14. SeenExplored(r, g, p, T)
  <2> SUFFICES ASSUME NEW m \in T
               PROVE  /\ m # g
                      /\ \/ \A j \in DOMAIN p[m] : p[m][j] \in T
                         \/ \E i \in DOMAIN r : r[i].at = m /\ r[i].step = "ask"
    BY DEF SeenExplored
  <2>1. CASE m \in S
    <3>1. /\ m # g
          /\ \/ \A j \in DOMAIN p[m] : p[m][j] \in S
             \/ \E i \in 1 .. Len(cs) : cs[i].at = m /\ cs[i].step = "ask"
      BY <1>1, <1>2, <2>1 DEF SeenExplored
    <3>2. CASE \A j \in DOMAIN p[m] : p[m][j] \in S
      BY <1>7, <3>1, <3>2
    <3>3. CASE \E i \in 1 .. Len(cs) : cs[i].at = m /\ cs[i].step = "ask"
      BY <1>5, <1>6, <1>9, <3>1, <3>3
    <3> QED
      BY <3>1, <3>2, <3>3
  <2>2. CASE m \notin S
    <3>1. step = "ask" /\ m = cs[1].at /\ m # g
      BY <1>3, <1>7, <2>2
    <3>2. 1 \in DOMAIN r /\ r[1].at = m /\ r[1].step = "ask"
      BY <1>4, <1>5, <1>6, <1>9, <3>1
    <3> QED
      BY <3>1, <3>2
  <2> QED
    BY <2>1, <2>2
<1> QED
  BY <1>5, <1>6, <1>7, <1>13, <1>14 DEF GoodSearch, r, c

\* The innermost call asks its next peer.
LEMMA PeerAsked ==
    ASSUME NEW cs, NEW k \in Nat, NEW n \in Node, NEW g, NEW p \in [Node -> Seq(Node)], NEW S,
           GoodSearch(cs, k, n, g, p, S), Head(cs).step = "ask", Head(cs).peer <= Len(p[Head(cs).at])
    PROVE  GoodSearch(<<Call(p[Head(cs).at][Head(cs).peer], k), Head(cs)>> \o Tail(cs), k, n, g, p, S)
<1> DEFINE m == p[Head(cs).at][Head(cs).peer]
           c == Call(m, k)
           r == <<c, Head(cs)>> \o Tail(cs)
<1>1. /\ cs \in Seq(Frame) /\ cs # <<>> /\ S \subseteq Node
      /\ CallsNest(cs, k, n, p, S) /\ SeenExplored(cs, g, p, S)
  BY DEF GoodSearch
<1>2. /\ Len(cs) \in Nat \ {0} /\ DOMAIN cs = 1 .. Len(cs) /\ Head(cs) = cs[1] /\ cs[1] \in Frame
      /\ \A i \in 1 .. Len(cs) : cs[i] \in Frame
  BY <1>1, StackTop
<1>3. cs[1].at \in Node /\ cs[1].peer \in Nat \ {0}
  BY <1>2, FrameFields
<1>4. p[cs[1].at] \in Seq(Node) /\ cs[1].peer \in DOMAIN p[cs[1].at] /\ m = p[cs[1].at][cs[1].peer]
  BY <1>2, <1>3
<1>5. m \in Node
  BY <1>4
<1> HIDE DEF m
<1>6. c \in Frame /\ c.at = m /\ c.token = k /\ c.step = "compare" /\ c.peer = 1
  BY <1>5, CallFields
<1> HIDE DEF c
<1>7. /\ r \in Seq(Frame) /\ Len(r) = Len(cs) + 1 /\ r[1] = c
      /\ \A i \in 1 .. Len(cs) : r[i + 1] = cs[i]
  BY <1>1, <1>6, StackPush
<1> HIDE DEF r
<1>8. DOMAIN r = 1 .. Len(cs) + 1 /\ r # <<>>
  BY <1>2, <1>7
<1>9. /\ \A i \in 1 .. Len(cs) : CallGoesOn(cs[i], k, n, p, S) /\ (i > 1 => Asks(cs[i], p, cs[i - 1].at))
      /\ cs[Len(cs)].at = n
  BY <1>1, <1>2 DEF CallsNest
<1>10. cs[1].step = "ask" /\ 1 \in 1 .. Len(cs)
  BY <1>2
<1>11. CallGoesOn(c, k, n, p, S)
  <2>1. cs[1].at \in Reached(p, n)
    BY <1>9, <1>10 DEF CallGoesOn
  <2>2. m \in Reached(p, n)
    BY <1>4, <2>1, ReachedClosed DEF Closed
  <2> QED
    BY <1>6, <2>2 DEF CallGoesOn
<1>12. ASSUME NEW i \in 1 .. Len(cs) + 1
       PROVE  CallGoesOn(r[i], k, n, p, S) /\ (i > 1 => Asks(r[i], p, r[i - 1].at))
  <2>1. CASE i = 1
    BY <1>7, <1>11, <2>1
  <2>2. CASE i = 2
    <3>1. r[2] = cs[1] /\ r[2 - 1] = c
      BY <1>7, <1>10
    <3> QED
      BY <1>4, <1>6, <1>9, <1>10, <2>2, <3>1 DEF Asks
  <2>3. CASE i # 1 /\ i # 2
    <3>1. i - 1 \in 1 .. Len(cs) /\ i - 1 - 1 \in 1 .. Len(cs) /\ i - 1 > 1 /\ i - 1 + 1 = i /\ i - 1 - 1 + 1 = i - 1
      BY <1>2, <2>3
    <3>2. r[i] = cs[i - 1] /\ r[i - 1] = cs[i - 1 - 1]
      BY <1>7, <3>1
    <3> QED
      BY <1>9, <3>1, <3>2
  <2> QED
    BY <2>1, <2>2, <2>3
<1>13. r[Len(r)].at = n /\ r[Len(r)].step # "compare"
  <2>1. Len(cs) \in 1 .. Len(cs) /\ r[Len(r)] = cs[Len(cs)]
    BY <1>2, <1>7
  <2>2. cs[Len(cs)].step = "ask"
    <3>1. CASE Len(cs) = 1
      BY <1>10, <3>1
    <3>2. CASE Len(cs) # 1
      BY <1>2, <1>9, <2>1, <3>2 DEF Asks
    <3> QED
      BY <3>1, <3>2
  <2> QED
    BY <1>9, <2>1, <2>2
<1>14. CallsNest(r, k, n, p, S)
  BY <1>8, <1>12, <1>13 DEF CallsNest
<1>15. SeenExplored(r, g, p, S)
  <2>1. \A i \in 1 .. Len(cs) : i + 1 \in 1 .. Len(cs) + 1 /\ r[i + 1] = cs[i]
    BY <1>2, <1>7
  <2> SUFFICES ASSUME NEW o \in S
               PROVE  /\ o # g
                      /\ \/ \A j \in DOMAIN p[o] : p[o][j] \in S
                         \/ \E i \in DOMAIN r : r[i].at = o /\ r[i].step = "ask"
    BY DEF SeenExplored
  <2>2. /\ o # g
        /\ \/ \A j \in DOMAIN p[o] : p[o][j] \in S
           \/ \E i \in 1 .. Len(cs) : cs[i].at = o /\ cs[i].step = "ask"
    BY <1>1, <1>2, ZenonT(40) DEF SeenExplored
  <2>3. ASSUME NEW i \in 1 .. Len(cs), cs[i].at = o, cs[i].step = "ask"
        PROVE  \E l \in DOMAIN r : r[l].at = o /\ r[l].step = "ask"
    <3>1. i + 1 \in DOMAIN r /\ r[i + 1] = cs[i]
      BY <1>8, <2>1
    <3> QED
      BY <2>3, <3>1
  <2> QED
    BY <2>2, <2>3
<1> QED
  BY <1>1, <1>7, <1>8, <1>14, <1>15 DEF GoodSearch, r, c, m

\* The innermost call may return NULL: another one has come to its node before,
\* or it has asked all peers.
MayReturnNull(c, p, S) ==
    c.at \in S /\ (c.step = "compare" \/ (c.step = "ask" /\ c.peer > Len(p[c.at])))

LEMMA AllAsked ==
    ASSUME NEW cs, NEW k, NEW n, NEW g, NEW p \in [Node -> Seq(Node)], NEW S,
           GoodSearch(cs, k, n, g, p, S), MayReturnNull(Head(cs), p, S), Head(cs).step = "ask"
    PROVE  \A j \in DOMAIN p[Head(cs).at] : p[Head(cs).at][j] \in S
<1>1. /\ cs \in Seq(Frame) /\ cs # <<>> /\ CallsNest(cs, k, n, p, S)
  BY DEF GoodSearch
<1>2. /\ Len(cs) \in Nat \ {0} /\ DOMAIN cs = 1 .. Len(cs) /\ Head(cs) = cs[1] /\ cs[1] \in Frame
  BY <1>1, StackTop
<1>3. cs[1].at \in Node /\ cs[1].peer \in Nat
  BY <1>2, FrameFields
<1>4. p[cs[1].at] \in Seq(Node) /\ cs[1].peer > Len(p[cs[1].at])
  BY <1>2, <1>3 DEF MayReturnNull
<1>5. \A j \in DOMAIN p[cs[1].at] : j < cs[1].peer
  BY <1>3, <1>4
<1>6. CallGoesOn(cs[1], k, n, p, S)
  BY <1>1, <1>2 DEF CallsNest
<1> QED
  BY <1>2, <1>5, <1>6 DEF CallGoesOn

\* It returns to the call that has asked its node.
LEMMA CallReturned ==
    ASSUME NEW cs, NEW k, NEW n, NEW g, NEW p \in [Node -> Seq(Node)], NEW S,
           GoodSearch(cs, k, n, g, p, S), MayReturnNull(Head(cs), p, S), Tail(cs) # <<>>
    PROVE  GoodSearch(<<Advanced(Head(Tail(cs)))>> \o Tail(Tail(cs)), k, n, g, p, S)
<1> DEFINE c == Advanced(cs[2])
           r == <<c>> \o Tail(Tail(cs))
<1>1. /\ cs \in Seq(Frame) /\ cs # <<>> /\ S \subseteq Node
      /\ CallsNest(cs, k, n, p, S) /\ SeenExplored(cs, g, p, S)
  BY DEF GoodSearch
<1>2. /\ Len(cs) \in Nat \ {0} /\ DOMAIN cs = 1 .. Len(cs) /\ Head(cs) = cs[1] /\ cs[1] \in Frame
      /\ \A i \in 1 .. Len(cs) : cs[i] \in Frame
  BY <1>1, StackTop
<1>3. Head(Tail(cs)) = cs[2] /\ Len(cs) > 1
  BY <1>1, <1>2, StackPop
<1>4. cs[2] \in Frame /\ 2 \in 1 .. Len(cs)
  BY <1>2, <1>3
<1>5. /\ c \in Frame /\ c.at = cs[2].at /\ c.token = cs[2].token /\ c.step = cs[2].step /\ c.peer = cs[2].peer + 1
      /\ cs[2].at \in Node /\ cs[2].peer \in Nat \ {0}
  BY <1>4, FrameFields
<1> HIDE DEF c
<1>6. /\ r \in Seq(Frame) /\ Len(r) = Len(cs) - 1 /\ r[1] = c
      /\ \A i \in 1 .. Len(cs) - 1 : i # 1 => r[i] = cs[i + 1]
  BY <1>1, <1>5, StackPop
<1> HIDE DEF r
<1>7. DOMAIN r = 1 .. Len(cs) - 1 /\ r # <<>>
  BY <1>2, <1>3, <1>6
<1>8. /\ \A i \in 1 .. Len(cs) : CallGoesOn(cs[i], k, n, p, S) /\ (i > 1 => Asks(cs[i], p, cs[i - 1].at))
      /\ cs[Len(cs)].at = n
  BY <1>1, <1>2 DEF CallsNest
<1>9. cs[2].step = "ask" /\ cs[2].peer \in DOMAIN p[cs[2].at] /\ p[cs[2].at][cs[2].peer] = cs[1].at
  <2>1. Asks(cs[2], p, cs[2 - 1].at) /\ 2 - 1 = 1
    BY <1>4, <1>8
  <2> QED
    BY <2>1 DEF Asks
<1>10. cs[1].at \in S
  BY <1>2 DEF MayReturnNull
<1>11. CallGoesOn(c, k, n, p, S)
  <2>1. /\ cs[2].token = k /\ cs[2].at \in Reached(p, n) /\ cs[2].at \in S
        /\ \A j \in DOMAIN p[cs[2].at] : j < cs[2].peer => p[cs[2].at][j] \in S
    BY <1>4, <1>8, <1>9 DEF CallGoesOn
  <2>2. ASSUME NEW j \in DOMAIN p[c.at], j < c.peer
        PROVE  p[c.at][j] \in S
    <3>1. j \in Nat
      BY <1>5
    <3>2. j < cs[2].peer \/ j = cs[2].peer
      BY <1>5, <2>2, <3>1
    <3> QED
      BY <1>5, <1>9, <1>10, <2>1, <3>2
  <2> QED
    BY <1>5, <1>9, <2>1, <2>2 DEF CallGoesOn
<1>12. ASSUME NEW i \in 1 .. Len(cs) - 1
       PROVE  CallGoesOn(r[i], k, n, p, S) /\ (i > 1 => Asks(r[i], p, r[i - 1].at))
  <2>1. CASE i = 1
    BY <1>6, <1>11, <2>1
  <2>2. CASE i = 2
    <3>1. i + 1 \in 1 .. Len(cs) /\ i + 1 > 1 /\ i + 1 - 1 = 2 /\ i - 1 = 1 /\ r[i] = cs[i + 1]
      BY <1>2, <1>6, <2>2
    <3>2. CallGoesOn(cs[i + 1], k, n, p, S) /\ Asks(cs[i + 1], p, cs[2].at)
      BY <1>8, <3>1
    <3> QED
      BY <1>5, <1>6, <3>1, <3>2
  <2>3. CASE i # 1 /\ i # 2
    <3>1. i + 1 \in 1 .. Len(cs) /\ i + 1 > 1 /\ i + 1 - 1 = i /\ i - 1 \in 1 .. Len(cs) - 1 /\ i - 1 # 1 /\ i - 1 + 1 = i
      BY <1>2, <2>3
    <3>2. r[i] = cs[i + 1] /\ r[i - 1] = cs[i]
      BY <1>6, <2>3, <3>1
    <3> QED
      BY <1>8, <3>1, <3>2
  <2> QED
    BY <2>1, <2>2, <2>3
<1>13. r[Len(r)].at = n /\ r[Len(r)].step # "compare"
  <2>1. CASE Len(cs) = 2
    BY <1>5, <1>6, <1>8, <1>9, <2>1
  <2>2. CASE Len(cs) # 2
    <3>1. Len(cs) - 1 \in 1 .. Len(cs) - 1 /\ Len(cs) - 1 # 1 /\ Len(cs) - 1 + 1 = Len(cs) /\ Len(cs) \in 1 .. Len(cs)
      BY <1>2, <1>3, <2>2
    <3>2. r[Len(r)] = cs[Len(cs)]
      BY <1>6, <3>1
    <3>3. cs[Len(cs)].step = "ask"
      BY <1>3, <1>8, <3>1 DEF Asks
    <3> QED
      BY <1>8, <3>2, <3>3
  <2> QED
    BY <2>1, <2>2
<1>14. CallsNest(r, k, n, p, S)
  BY <1>7, <1>12, <1>13 DEF CallsNest
<1>15. SeenExplored(r, g, p, S)
  <2> SUFFICES ASSUME NEW o \in S
               PROVE  /\ o # g
                      /\ \/ \A j \in DOMAIN p[o] : p[o][j] \in S
                         \/ \E i \in DOMAIN r : r[i].at = o /\ r[i].step = "ask"
    BY DEF SeenExplored
  <2>1. /\ o # g
        /\ \/ \A j \in DOMAIN p[o] : p[o][j] \in S
           \/ \E i \in 1 .. Len(cs) : cs[i].at = o /\ cs[i].step = "ask"
    BY <1>1, <1>2, ZenonT(40) DEF SeenExplored
  <2>2. ASSUME NEW i \in 1 .. Len(cs), cs[i].at = o, cs[i].step = "ask"
        PROVE  \/ \A j \in DOMAIN p[o] : p[o][j] \in S
               \/ \E l \in DOMAIN r : r[l].at = o /\ r[l].step = "ask"
    <3>1. CASE i = 1
      BY <1>2, <2>2, <3>1, AllAsked
    <3>2. CASE i = 2
      <4>1. 1 \in DOMAIN r /\ r[1].at = o /\ r[1].step = "ask"
        BY <1>3, <1>2, <1>5, <1>6, <1>7, <2>2, <3>2
      <4> QED
        BY <4>1
    <3>3. CASE i # 1 /\ i # 2
      <4>1. i - 1 \in 1 .. Len(cs) - 1 /\ i - 1 # 1 /\ i - 1 + 1 = i
        BY <1>2, <3>3
      <4>2. i - 1 \in DOMAIN r /\ r[i - 1] = cs[i]
        BY <1>6, <1>7, <4>1
      <4> QED
        BY <2>2, <4>2
    <3> QED
      BY <3>1, <3>2, <3>3
  <2> QED
    BY <2>1, <2>2
<1> QED
  BY <1>1, <1>3, <1>6, <1>7, <1>14, <1>15 DEF GoodSearch, r, c

\* Or it is the outermost one: the nodes that were seen are closed under peers,
\* and the goal is none of them.
LEMMA NothingFound ==
    ASSUME NEW cs, NEW k, NEW n, NEW g, NEW p \in [Node -> Seq(Node)], NEW S,
           GoodSearch(cs, k, n, g, p, S), MayReturnNull(Head(cs), p, S), Tail(cs) = <<>>
    PROVE  g \notin Reached(p, n)
<1>1. /\ cs \in Seq(Frame) /\ cs # <<>> /\ S \subseteq Node
      /\ CallsNest(cs, k, n, p, S) /\ SeenExplored(cs, g, p, S)
  BY DEF GoodSearch
<1>2. /\ DOMAIN cs = 1 .. Len(cs) /\ Head(cs) = cs[1] /\ Len(cs) \in Nat /\ Len(Tail(cs)) = Len(cs) - 1
  BY <1>1, StackTop
<1>3. Len(cs) = 1 /\ DOMAIN cs = {1}
  <2>1. Len(Tail(cs)) = 0
    BY EmptySeq
  <2> QED
    BY <1>2, <2>1
<1>4. cs[1].at = n /\ (cs[1].step = "compare" => n \notin S)
  BY <1>1, <1>3 DEF CallsNest
<1>5. n \in S /\ cs[1].step = "ask"
  BY <1>2, <1>4 DEF MayReturnNull
<1>6. \A j \in DOMAIN p[n] : p[n][j] \in S
  BY <1>2, <1>4, <1>5, AllAsked
<1>7. Closed(p, S) /\ g \notin S
  BY <1>1, <1>3, <1>4, <1>6 DEF SeenExplored, Closed
<1>8. Reached(p, n) \subseteq S
  BY <1>5, <1>7, ReachedLeast
<1> QED
  BY <1>7, <1>8

-----------------------------------------------------------------------------
(* The steps of the only thread that searches *)

OneSearcher == \A s, t \in Searcher : s = t

FoundRight(s) ==
    calls[s] = <<>> /\ start[s] # Null =>
        found[s] = IF goal[s] \in Component(start[s]) THEN goal[s] ELSE Null

\* What SearchInv says of a thread, and what it needs of the next state.
LEMMA OfSearcher ==
    ASSUME SearchInv, NEW s \in Searcher, calls[s] # <<>>
    PROVE  /\ GoodSearch(calls[s], clock, start[s], goal[s], peers, Seen) /\ found[s] = Null
           /\ peers \in [Node -> Seq(Node)] /\ clock \in Nat
           /\ calls[s] \in Seq(Frame) /\ Top(s) = Head(calls[s]) /\ Head(calls[s]) = calls[s][1]
           /\ calls[s][1] \in Frame /\ calls[s][1].at \in Node /\ calls[s][1].token = clock
           /\ start[s] \in Node /\ goal[s] \in Node \cup {Null}
           /\ calls[s][1].at \in Component(start[s])
<1>1. TypeOK /\ Seen \subseteq Node
  BY DEF SearchInv, Seen
<1>2. /\ CallsNest(calls[s], clock, start[s], peers, Seen)
      /\ SeenExplored(calls[s], goal[s], peers, Seen) /\ found[s] = Null
  BY DEF SearchInv
<1>3. /\ peers \in [Node -> Seq(Node)] /\ clock \in Nat /\ calls[s] \in Seq(Frame)
      /\ start[s] \in Node \cup {Null} /\ goal[s] \in Node \cup {Null}
  BY <1>1 DEF TypeOK
<1>4. GoodSearch(calls[s], clock, start[s], goal[s], peers, Seen)
  BY <1>1, <1>2, <1>3 DEF GoodSearch
<1>5. /\ Len(calls[s]) \in Nat \ {0} /\ DOMAIN calls[s] = 1 .. Len(calls[s]) /\ Head(calls[s]) = calls[s][1]
      /\ \A i \in 1 .. Len(calls[s]) : calls[s][i] \in Frame
  BY <1>3, StackTop
<1>6. 1 \in 1 .. Len(calls[s]) /\ Len(calls[s]) \in 1 .. Len(calls[s])
  BY <1>5
<1>7. CallGoesOn(calls[s][1], clock, start[s], peers, Seen) /\ calls[s][Len(calls[s])].at = start[s]
  BY <1>2, <1>5, <1>6 DEF CallsNest
<1>8. calls[s][1].at \in Node /\ start[s] \in Node
  BY <1>5, <1>6, <1>7, FrameFields
<1> QED
  BY <1>2, <1>3, <1>4, <1>5, <1>6, <1>7, <1>8 DEF CallGoesOn, Top, Component

LEMMA OfOneSearcher ==
    ASSUME OneSearcher, NEW s \in Searcher, TypeOK', FoundRight(s)',
           calls'[s] # <<>> => /\ GoodSearch(calls'[s], clock', start'[s], goal'[s], peers', Seen')
                               /\ found'[s] = Null
    PROVE  SearchInv'
<1>1. \A t \in Searcher : t = s
  BY DEF OneSearcher
<1>2. FoundIfConnected'
  BY <1>1 DEF FoundIfConnected, FoundRight
<1>3. \A t \in Searcher :
        calls'[t] # <<>> => /\ CallsNest(calls'[t], clock', start'[t], peers', Seen')
                            /\ SeenExplored(calls'[t], goal'[t], peers', Seen')
                            /\ found'[t] = Null
  BY <1>1 DEF GoodSearch
<1> QED
  BY <1>2, <1>3 DEF SearchInv

LEMMA SearchKeepsInv ==
    ASSUME SearchInv, OneSearcher, NEW s \in Searcher, NEW n \in Node, NEW g \in Node \cup {Null}, Search(s, n, g)
    PROVE  SearchInv'
<1>1. TypeOK
  BY DEF SearchInv
<1>2. /\ clock' = clock + 1 /\ start' = [start EXCEPT ![s] = n] /\ goal' = [goal EXCEPT ![s] = g]
      /\ found' = [found EXCEPT ![s] = Null] /\ calls' = [calls EXCEPT ![s] = <<Call(n, clock')>>]
      /\ peers' = peers /\ searchToken' = searchToken
  BY DEF Search
<1>3. clock \in Nat /\ clock' \in Nat /\ \A m \in Node : searchToken[m] \in 0 .. clock
  BY <1>1, <1>2 DEF TypeOK
<1>4. PICK c \in Frame : c = Call(n, clock') /\ c.at = n /\ c.token = clock' /\ c.step = "compare" /\ c.peer = 1
  BY <1>3, CallFields
<1>5. calls'[s] = <<c>> /\ start'[s] = n /\ found'[s] = Null /\ goal'[s] = g
  BY <1>1, <1>2, <1>4 DEF TypeOK
<1>6. TypeOK'
  <2>1. searchToken' \in [Node -> 0 .. clock']
    BY <1>1, <1>2, <1>3 DEF TypeOK
  <2>2. calls' \in [Searcher -> Seq(Frame)]
    BY <1>1, <1>2, <1>4 DEF TypeOK
  <2>3. /\ start' \in [Searcher -> Node \cup {Null}] /\ goal' \in [Searcher -> Node \cup {Null}]
        /\ found' \in [Searcher -> Node \cup {Null}]
    BY <1>1, <1>2 DEF TypeOK
  <2> QED
    BY <1>1, <1>2, <1>3, <2>1, <2>2, <2>3 DEF TypeOK
<1>7. Seen' = {}
  BY <1>2, <1>3 DEF Seen
<1>8. <<c>> \in Seq(Frame) /\ Len(<<c>>) = 1 /\ DOMAIN <<c>> = {1} /\ <<c>>[1] = c /\ <<c>> # <<>>
  OBVIOUS
<1>9. n \in Reached(peers, n)
  BY <1>1, ReachedClosed DEF TypeOK
<1>10. CallsNest(<<c>>, clock', n, peers, {})
  BY <1>4, <1>8, <1>9 DEF CallsNest, CallGoesOn
<1>11. GoodSearch(<<c>>, clock', n, g, peers, {})
  BY <1>8, <1>10 DEF GoodSearch, SeenExplored
<1> QED
  BY <1>2, <1>5, <1>6, <1>7, <1>8, <1>11, OfOneSearcher DEF FoundRight

\* A search that goes on.
LEMMA GoesOn ==
    ASSUME SearchInv, OneSearcher, NEW s \in Searcher, NEW r, NEW T,
           calls' = [calls EXCEPT ![s] = r], Seen' = T, searchToken' \in [Node -> 0 .. clock],
           UNCHANGED <<peers, clock, start, goal, found>>, found[s] = Null,
           GoodSearch(r, clock, start[s], goal[s], peers, T)
    PROVE  SearchInv'
<1>1. TypeOK
  BY DEF SearchInv
<1>2. r \in Seq(Frame) /\ r # <<>>
  BY DEF GoodSearch
<1>3. calls'[s] = r /\ calls' \in [Searcher -> Seq(Frame)]
  BY <1>1, <1>2 DEF TypeOK
<1>4. TypeOK'
  BY <1>1, <1>3 DEF TypeOK
<1>5. ~FoundRight(s)' => FALSE
  BY <1>2, <1>3 DEF FoundRight
<1>6. GoodSearch(calls'[s], clock', start'[s], goal'[s], peers', Seen') /\ found'[s] = Null
  BY <1>3
<1> QED
  BY <1>4, <1>5, <1>6, OfOneSearcher

\* A search that ends.
LEMMA Ends ==
    ASSUME SearchInv, OneSearcher, NEW s \in Searcher,
           calls' = [calls EXCEPT ![s] = <<>>], searchToken' \in [Node -> 0 .. clock],
           UNCHANGED <<peers, clock, start, goal>>, found' \in [Searcher -> Node \cup {Null}],
           found'[s] = IF goal[s] \in Component(start[s]) THEN goal[s] ELSE Null
    PROVE  SearchInv'
<1>1. TypeOK
  BY DEF SearchInv
<1>2. calls'[s] = <<>> /\ calls' \in [Searcher -> Seq(Frame)]
  BY <1>1 DEF TypeOK
<1>3. TypeOK'
  BY <1>1, <1>2 DEF TypeOK
<1>4. FoundRight(s)'
  BY DEF FoundRight, Component
<1> QED
  BY <1>2, <1>3, <1>4, OfOneSearcher

LEMMA ReturnNullKeepsInv ==
    ASSUME SearchInv, OneSearcher, NEW s \in Searcher, calls[s] # <<>>,
           MayReturnNull(Head(calls[s]), peers, Seen), ReturnNull(s),
           UNCHANGED <<peers, searchToken, clock, start, goal>>
    PROVE  SearchInv'
<1> DEFINE outer == Tail(calls[s])
<1>1. /\ GoodSearch(calls[s], clock, start[s], goal[s], peers, Seen) /\ found[s] = Null
      /\ peers \in [Node -> Seq(Node)]
  BY OfSearcher
<1>2. /\ calls' = [calls EXCEPT ![s] = IF outer = <<>> THEN <<>> ELSE <<Advanced(Head(outer))>> \o Tail(outer)]
      /\ found' = found
  BY DEF ReturnNull, Advanced
<1>3. searchToken' \in [Node -> 0 .. clock] /\ found' \in [Searcher -> Node \cup {Null}] /\ Seen' = Seen
  BY <1>2 DEF SearchInv, TypeOK, Seen
<1>4. CASE outer = <<>>
  <2>1. goal[s] \notin Component(start[s])
    BY <1>1, <1>4, NothingFound DEF Component
  <2>2. calls' = [calls EXCEPT ![s] = <<>>] /\ found'[s] = Null
    BY <1>1, <1>2, <1>4
  <2> QED
    BY <1>3, <2>1, <2>2, Ends
<1>5. CASE outer # <<>>
  <2> DEFINE r == <<Advanced(Head(outer))>> \o Tail(outer)
  <2>1. GoodSearch(r, clock, start[s], goal[s], peers, Seen)
    BY <1>1, <1>5, CallReturned
  <2>2. calls' = [calls EXCEPT ![s] = r]
    BY <1>2, <1>5
  <2> HIDE DEF r
  <2> QED
    BY <1>1, <1>2, <1>3, <2>1, <2>2, GoesOn
<1> QED
  BY <1>4, <1>5

LEMMA CompareKeepsInv ==
    ASSUME SearchInv, OneSearcher, NEW s \in Searcher, Compare(s)
    PROVE  SearchInv'
<1>1. /\ calls[s] # <<>> /\ Top(s).step = "compare" /\ UNCHANGED <<peers, searchToken, clock, start, goal>>
  BY DEF Compare, IsAt
<1>2. /\ GoodSearch(calls[s], clock, start[s], goal[s], peers, Seen) /\ found[s] = Null
      /\ peers \in [Node -> Seq(Node)] /\ Top(s) = Head(calls[s])
      /\ Head(calls[s]).at \in Node /\ Head(calls[s]).token = clock
  BY <1>1, OfSearcher
<1>3. CASE Top(s).token = searchToken[Top(s).at]
  <2>1. ReturnNull(s)
    BY <1>3 DEF Compare
  <2>2. MayReturnNull(Head(calls[s]), peers, Seen)
    BY <1>1, <1>2, <1>3 DEF MayReturnNull, Seen
  <2> QED
    BY <1>1, <2>1, <2>2, ReturnNullKeepsInv
<1>4. CASE Top(s).token # searchToken[Top(s).at]
  <2> DEFINE r == <<Stepped(Head(calls[s]), "store")>> \o Tail(calls[s])
  <2>1. Becomes(s, <<Stepped(Top(s), "store")>>) /\ UNCHANGED found
    BY <1>4 DEF Compare, Stepped
  <2>2. calls' = [calls EXCEPT ![s] = r]
    BY <1>2, <2>1 DEF Becomes
  <2>3. GoodSearch(r, clock, start[s], goal[s], peers, Seen)
    BY <1>1, <1>2, CallStepped
  <2> HIDE DEF r
  <2>4. Seen' = Seen /\ searchToken' \in [Node -> 0 .. clock]
    BY <1>1 DEF Seen, SearchInv, TypeOK
  <2> QED
    BY <1>1, <1>2, <2>1, <2>2, <2>3, <2>4, GoesOn
<1> QED
  BY <1>3, <1>4

LEMMA StoreKeepsInv ==
    ASSUME SearchInv, OneSearcher, NEW s \in Searcher, Store(s)
    PROVE  SearchInv'
<1>1. /\ calls[s] # <<>> /\ Top(s).step = "store" /\ UNCHANGED <<peers, clock, start, goal>>
      /\ searchToken' = [searchToken EXCEPT ![Top(s).at] = Top(s).token]
  BY DEF Store, IsAt
<1>2. /\ GoodSearch(calls[s], clock, start[s], goal[s], peers, Seen) /\ found[s] = Null
      /\ peers \in [Node -> Seq(Node)] /\ clock \in Nat /\ Top(s) = Head(calls[s])
      /\ Head(calls[s]).at \in Node /\ Head(calls[s]).token = clock
      /\ Head(calls[s]).at \in Component(start[s])
  BY <1>1, OfSearcher
<1>3. PICK m \in Node : m = Head(calls[s]).at
  BY <1>2
<1>4. searchToken' = [searchToken EXCEPT ![m] = clock] /\ searchToken \in [Node -> 0 .. clock]
  BY <1>1, <1>2, <1>3 DEF SearchInv, TypeOK
<1>5. searchToken' \in [Node -> 0 .. clock] /\ Seen' = Seen \cup {m}
  BY <1>1, <1>2, <1>4 DEF Seen
<1>6. CASE m = goal[s]
  <2>1. calls' = [calls EXCEPT ![s] = <<>>] /\ found' = [found EXCEPT ![s] = m]
    BY <1>2, <1>3, <1>6 DEF Store, ReturnNode
  <2>2. found' \in [Searcher -> Node \cup {Null}] /\ found'[s] = m
    BY <2>1 DEF SearchInv, TypeOK
  <2> QED
    BY <1>1, <1>2, <1>3, <1>5, <1>6, <2>1, <2>2, Ends
<1>7. CASE m # goal[s]
  <2> DEFINE r == <<Stepped(Head(calls[s]), "ask")>> \o Tail(calls[s])
  <2>1. Becomes(s, <<Stepped(Top(s), "ask")>>) /\ UNCHANGED found
    BY <1>2, <1>3, <1>7 DEF Store, Stepped
  <2>2. calls' = [calls EXCEPT ![s] = r]
    BY <1>2, <2>1 DEF Becomes
  <2>3. GoodSearch(r, clock, start[s], goal[s], peers, Seen \cup {m})
    BY <1>1, <1>2, <1>3, <1>7, CallStepped
  <2> HIDE DEF r
  <2> QED
    BY <1>1, <1>2, <1>5, <2>1, <2>2, <2>3, GoesOn
<1> QED
  BY <1>6, <1>7

LEMMA AskKeepsInv ==
    ASSUME SearchInv, OneSearcher, NEW s \in Searcher, Ask(s)
    PROVE  SearchInv'
<1> DEFINE c == Head(calls[s])
<1>1. /\ calls[s] # <<>> /\ Top(s).step = "ask" /\ UNCHANGED <<peers, searchToken, clock, start, goal>>
  BY DEF Ask, IsAt
<1>2. /\ GoodSearch(calls[s], clock, start[s], goal[s], peers, Seen) /\ found[s] = Null
      /\ peers \in [Node -> Seq(Node)] /\ clock \in Nat /\ Top(s) = c
      /\ c = calls[s][1] /\ c \in Frame /\ c.at \in Node /\ start[s] \in Node
  BY <1>1, OfSearcher
<1>3. c.at \in Seen
  <2>1. /\ CallsNest(calls[s], clock, start[s], peers, Seen) /\ calls[s] \in Seq(Frame)
    BY <1>2 DEF GoodSearch
  <2>2. 1 \in DOMAIN calls[s]
    BY <1>1, <2>1, StackTop
  <2>3. CallGoesOn(calls[s][1], clock, start[s], peers, Seen)
    BY <2>1, <2>2 DEF CallsNest
  <2> QED
    BY <1>1, <1>2, <2>3 DEF CallGoesOn
<1>4. CASE c.peer > Len(peers[c.at])
  <2>1. ReturnNull(s)
    BY <1>2, <1>4 DEF Ask
  <2>2. MayReturnNull(Head(calls[s]), peers, Seen)
    BY <1>1, <1>2, <1>3, <1>4 DEF MayReturnNull
  <2> QED
    BY <1>1, <2>1, <2>2, ReturnNullKeepsInv
<1>5. CASE ~(c.peer > Len(peers[c.at]))
  <2> DEFINE r == <<Call(peers[c.at][c.peer], clock), c>> \o Tail(calls[s])
  <2>1. Becomes(s, <<Call(peers[c.at][c.peer], searchToken[c.at]), c>>) /\ UNCHANGED found
    BY <1>2, <1>5 DEF Ask
  <2>2. searchToken[c.at] = clock
    BY <1>3 DEF Seen
  <2>3. calls' = [calls EXCEPT ![s] = r]
    BY <2>1, <2>2 DEF Becomes
  <2>4. c.peer <= Len(peers[c.at])
    <3>1. c.peer \in Nat /\ Len(peers[c.at]) \in Nat
      BY <1>2, FrameFields
    <3> QED
      BY <1>5, <3>1
  <2>5. GoodSearch(r, clock, start[s], goal[s], peers, Seen)
    BY <1>1, <1>2, <2>4, PeerAsked
  <2> HIDE DEF r
  <2>6. Seen' = Seen /\ searchToken' \in [Node -> 0 .. clock]
    BY <1>1 DEF Seen, SearchInv, TypeOK
  <2> QED
    BY <1>1, <1>2, <2>1, <2>3, <2>5, <2>6, GoesOn
<1> QED
  BY <1>4, <1>5

-----------------------------------------------------------------------------
(* The invariant *)

LEMMA PeersTyped ==
    ASSUME NEW links \in SUBSET Links
    PROVE  PeersOf(links) \in [Node -> Seq(Node)]
<1> SUFFICES ASSUME NEW n \in Node
             PROVE  Ordered({m \in Node : {n, m} \in links}) \in Seq(Node)
  BY DEF PeersOf
<1> DEFINE S == {m \in Node : {n, m} \in links}
<1>1. S \in SUBSET Node /\ S \in SUBSET Nat
  BY SearchAssumption
<1>2. IsFiniteSet(S) /\ Cardinality(S) \in Nat
  BY <1>1, NodeFinite
<1> HIDE DEF S
<1>3. Ordered(S) \in [1 .. Cardinality(S) -> S]
  BY <1>1, <1>2, OrderedTyped
<1>4. Ordered(S) \in [1 .. Cardinality(S) -> Node]
  BY <1>1, <1>3
<1>5. Ordered(S) \in Seq(Node)
  BY <1>2, <1>4
<1> QED
  BY <1>5 DEF S

LEMMA InitSearchInv == Init => SearchInv
<1> SUFFICES ASSUME Init PROVE SearchInv
  OBVIOUS
<1>1. /\ searchToken = [n \in Node |-> 0] /\ clock = 0
      /\ start = [s \in Searcher |-> Null] /\ goal = [s \in Searcher |-> Null]
      /\ calls = [s \in Searcher |-> <<>>] /\ found = [s \in Searcher |-> Null]
  BY DEF Init
<1>2. peers \in [Node -> Seq(Node)]
  <2>1. PICK links \in SUBSET Links : peers = PeersOf(links)
    BY DEF Init
  <2> QED
    BY <2>1, PeersTyped
<1>3. TypeOK
  BY <1>1, <1>2 DEF TypeOK
<1>4. FoundIfConnected
  BY <1>1 DEF FoundIfConnected
<1>5. \A s \in Searcher : calls[s] = <<>>
  BY <1>1
<1> QED
  BY <1>3, <1>4, <1>5 DEF SearchInv

LEMMA NextSearchInv ==
    ASSUME OneSearcher
    PROVE  SearchInv /\ [Next]_vars => SearchInv'
<1> SUFFICES ASSUME SearchInv, [Next]_vars
             PROVE  SearchInv'
  OBVIOUS
<1>1. CASE UNCHANGED vars
  BY <1>1 DEF vars, SearchInv, TypeOK, FoundIfConnected, Component, Seen
<1>2. CASE Next
  <2>1. PICK s \in Searcher : (\E n \in Node, g \in Node \cup {Null} : Search(s, n, g)) \/ FindServiceUURI(s)
    BY <1>2 DEF Next
  <2>2. CASE \E n \in Node, g \in Node \cup {Null} : Search(s, n, g)
    BY <2>2, SearchKeepsInv
  <2>3. CASE FindServiceUURI(s)
    BY <2>3, CompareKeepsInv, StoreKeepsInv, AskKeepsInv DEF FindServiceUURI
  <2> QED
    BY <2>1, <2>2, <2>3
<1> QED
  BY <1>1, <1>2

\* While one thread searches, the nodes it has seen are not the goal, and their
\* peers have been seen or will be asked by a call that is still open.
THEOREM SearchInvInductive ==
    ASSUME OneSearcher
    PROVE  Spec => []SearchInv
<1>1. Init => SearchInv
  BY InitSearchInv
<1>2. SearchInv /\ [Next]_vars => SearchInv'
  BY NextSearchInv
<1> QED
  BY <1>1, <1>2, PTL DEF Spec

\* A search that nobody disturbs finds the service if and only if links lead to
\* it, in a network of any size and shape, and whatever tokens earlier searches
\* have left behind.
THEOREM SearchFinds ==
    ASSUME OneSearcher
    PROVE  Spec => []FoundIfConnected
<1>1. SearchInv => FoundIfConnected
  BY DEF SearchInv
<1> QED
  BY <1>1, SearchInvInductive, PTL
=============================================================================
