------------------------ MODULE PlugNodeNetwork_proofs ------------------------
(***************************************************************************)
(* Proofs about PlugNodeNetwork: as long as never more than five PlugNodes *)
(* have lived at once, whatever their number over time, every step leads   *)
(* from one stage of PlugNodeStages to the next one.                       *)
(*                                                                         *)
(* The order is that of the stages: what a step leaves alone and how peers *)
(* are counted; sending, writing and reading a line; the making of a link, *)
(* CONTACT, joinNetwork() before both; DISCONNECT and its answer, then the *)
(* calls of the destructors; and then what holds between the calls.        *)
(*                                                                         *)
(* The last part needs no such condition: the types of the members and of  *)
(* the calls in progress, for any number of PlugNodes at once, with one    *)
(* lemma for each call.                                                    *)
(***************************************************************************)
EXTENDS PlugNodeStages, FiniteSetTheorems, SequenceTheorems, NumberInduction, TLAPS

-----------------------------------------------------------------------------
(* What a step leaves as it was                                            *)

Same(cs, ds, q) ==
    /\ ds[q].state = cs[q].state /\ ds[q].receiver = cs[q].receiver
    /\ ds[q].rxInfo = cs[q].rxInfo /\ ds[q].registered = cs[q].registered
    /\ ds[q].peer = cs[q].peer

\* No PlugNode comes, goes, or gets another connection.
SameNodes(ns, ms) ==
    /\ DOMAIN ms = DOMAIN ns
    /\ \A n \in DOMAIN ns :
          /\ ms[n].isAlive = ns[n].isAlive /\ ms[n].connection = ns[n].connection
          /\ ms[n].connectionSwitch = ns[n].connectionSwitch

\* No connection but those in busy is changed, except for its lines.
SameConns(cs, ds, busy) ==
    /\ DOMAIN ds = DOMAIN cs
    /\ \A q \in DOMAIN cs :
          /\ ds[q].isAlive = cs[q].isAlive /\ ds[q].connectionID = cs[q].connectionID
          /\ ds[q].peer \in {cs[q].peer, Null}
          /\ q \notin busy => Same(cs, ds, q)

\* What a PlugNode has is read from members that stay the same.
LEMMA HasSame ==
    ASSUME NEW ns, NEW ms, SameNodes(ns, ms)
    PROVE  /\ DOMAIN ms = DOMAIN ns
           /\ \A n : Lives(ms, n) <=> Lives(ns, n)
           /\ \A n, i, k : Has(ms, n, i, k) <=> Has(ns, n, i, k)
           /\ \A n, k : Owns(ms, n, k) <=> Owns(ns, n, k)
<1>1. \A n : Lives(ms, n) <=> Lives(ns, n)
  BY DEF SameNodes, Lives
<1>2. \A n, i, k : Has(ms, n, i, k) <=> Has(ns, n, i, k)
  BY <1>1 DEF SameNodes, Has, Lives
<1>3. \A n, k : Owns(ms, n, k) <=> Owns(ns, n, k)
  BY <1>2 DEF Owns
<1> QED  BY <1>1, <1>2, <1>3 DEF SameNodes

\* What Owned and Distinct say without the names TLC needs.
LEMMA OwnedFacts ==
    ASSUME NEW ns, NEW cs, Owned(ns, cs), NEW n, NEW i, NEW k, Has(ns, n, i, k)
    PROVE  /\ k \in DOMAIN cs /\ cs[k].isAlive /\ cs[k].connectionID = i
           /\ \A m, h : Has(ns, m, h, k) => m = n /\ h = i
<1>1. n \in DOMAIN ns /\ i \in Slot /\ k \in {ns[n].connection[i]}
  BY DEF Has, Lives
<1>2. \A m, h : Has(ns, m, h, k) => m \in DOMAIN ns /\ h \in Slot
  BY DEF Has, Lives
<1> QED  BY <1>1, <1>2 DEF Owned

\* A connection has one owner.
LEMMA OwnedOnce ==
    ASSUME NEW ns, NEW cs, Owned(ns, cs), NEW n, NEW m, NEW k, Owns(ns, n, k), Owns(ns, m, k)
    PROVE  m = n /\ k \in DOMAIN cs /\ k # Null /\ Lives(ns, n)
<1>1. PICK i : Has(ns, n, i, k)
  BY DEF Owns
<1>2. PICK h : Has(ns, m, h, k)
  BY DEF Owns
<1>3. k # Null /\ Lives(ns, n)
  BY <1>1 DEF Has
<1> QED  BY <1>1, <1>2, <1>3, OwnedFacts

\* Distinct, for given connections.
LEMMA DistinctFacts ==
    ASSUME NEW ns, NEW cs, Distinct(ns, cs), NEW n, NEW i, NEW h, NEW k, NEW j,
           Has(ns, n, i, k), Has(ns, n, h, j), i # h, cs[k].peer = cs[j].peer
    PROVE  cs[k].peer = Null
<1>1. n \in DOMAIN ns /\ i \in Slot /\ k \in {ns[n].connection[i]}
  BY DEF Has, Lives
<1>2. h \in Slot /\ j \in {ns[n].connection[h]}
  BY DEF Has
<1> QED  BY <1>1, <1>2 DEF Distinct

\* Base holds on when no PlugNode gets a connection or a new peer.
LEMMA BaseKept ==
    ASSUME NEW ns, NEW ms, NEW cs, NEW ds, NEW c, NEW list, NEW busy,
           Base(ns, cs, c, list), SameNodes(ns, ms), SameConns(cs, ds, busy)
    PROVE  Base(ms, ds, c, list)
<1>0. /\ DOMAIN ms = DOMAIN ns
      /\ \A n : Lives(ms, n) <=> Lives(ns, n)
      /\ \A n, i, k : Has(ms, n, i, k) <=> Has(ns, n, i, k)
      /\ \A n, k : Owns(ms, n, k) <=> Owns(ns, n, k)
  BY HasSame
<1>1. Owned(ns, cs) /\ Distinct(ns, cs) /\ NoSwitch(ns) /\ ContactLives(ns, c) /\ ShutApart(ns, cs, list)
  BY DEF Base
<1>2. Owned(ms, ds)
  <2> SUFFICES ASSUME NEW n, NEW i, NEW k, Has(ms, n, i, k)
               PROVE  /\ k \in DOMAIN ds /\ ds[k].isAlive /\ ds[k].connectionID = i
                      /\ \A m, h : Has(ms, m, h, k) => m = n /\ h = i
    BY DEF Owned
  <2>1. Has(ns, n, i, k)
    BY <1>0
  <2>2. /\ k \in DOMAIN cs /\ cs[k].isAlive /\ cs[k].connectionID = i
        /\ \A m, h : Has(ns, m, h, k) => m = n /\ h = i
    BY <1>1, <2>1, OwnedFacts
  <2> QED  BY <1>0, <2>2 DEF SameConns
<1>3. Distinct(ms, ds)
  <2> SUFFICES ASSUME NEW n, NEW i, NEW h, NEW k, NEW j,
                      Has(ms, n, i, k), Has(ms, n, h, j), i # h, ds[k].peer = ds[j].peer,
                      ds[k].peer # Null
               PROVE  FALSE
    BY DEF Distinct
  <2>1. Has(ns, n, i, k) /\ Has(ns, n, h, j)
    BY <1>0
  <2>2. k \in DOMAIN cs /\ j \in DOMAIN cs
    BY <1>1, <2>1, OwnedFacts
  <2>3. cs[k].peer = cs[j].peer /\ cs[k].peer # Null
    BY <2>2 DEF SameConns
  <2> QED  BY <1>1, <2>1, <2>3, DistinctFacts
<1>4. NoSwitch(ms) /\ ContactLives(ms, c)
  BY <1>0, <1>1 DEF NoSwitch, ContactLives, SameNodes
<1>5. ShutApart(ms, ds, list)
  BY <1>0, <1>1 DEF ShutApart, SameConns
<1> QED  BY <1>2, <1>3, <1>4, <1>5 DEF Base

\* A link outside of busy stays one.
LEMMA LinkKept ==
    ASSUME NEW cs, NEW ds, NEW busy, SameConns(cs, ds, busy), NEW n, NEW k, NEW m, NEW j,
           k \in DOMAIN cs, j \in DOMAIN cs, k \notin busy, j \notin busy, Link(cs, n, k, m, j)
    PROVE  Link(ds, n, k, m, j)
<1>1. Same(cs, ds, k) /\ Same(cs, ds, j)
  BY DEF SameConns
<1> QED  BY <1>1 DEF Same, Link, End, Listens

\* What Settled says of one connection.
LEMMA SettledFacts ==
    ASSUME NEW ns, NEW cs, NEW busy, NEW leaving, Settled(ns, cs, busy, leaving),
           NEW n, NEW i, NEW k, Has(ns, n, i, k), k \notin busy
    PROVE  \/ Clean(cs[k])
           \/ n = leaving /\ cs[k].state = "DISCONNECT"
           \/ \E m \in DOMAIN ns \ {n}, j \in DOMAIN cs \ busy :
                  Link(cs, n, k, m, j) /\ Owns(ns, m, j)
<1>1. n \in DOMAIN ns /\ i \in Slot /\ k \in {ns[n].connection[i]}
  BY DEF Has, Lives
<1> QED  BY <1>1 DEF Settled

\* What is settled outside of busy stays settled.
LEMMA SettledKept ==
    ASSUME NEW ns, NEW ms, NEW cs, NEW ds, NEW busy, NEW leaving,
           Owned(ns, cs), Settled(ns, cs, busy, leaving), SameNodes(ns, ms), SameConns(cs, ds, busy)
    PROVE  Settled(ms, ds, busy, leaving)
<1>0. /\ DOMAIN ms = DOMAIN ns
      /\ \A n, i, k : Has(ms, n, i, k) <=> Has(ns, n, i, k)
      /\ \A n, k : Owns(ms, n, k) <=> Owns(ns, n, k)
  BY HasSame
<1> SUFFICES ASSUME NEW n, NEW i, NEW k, Has(ms, n, i, k), k \notin busy
             PROVE  \/ Clean(ds[k])
                    \/ n = leaving /\ ds[k].state = "DISCONNECT"
                    \/ \E m \in DOMAIN ms \ {n}, j \in DOMAIN ds \ busy :
                          Link(ds, n, k, m, j) /\ Owns(ms, m, j)
  BY DEF Settled
<1>1. Has(ns, n, i, k)
  BY <1>0
<1>2. k \in DOMAIN cs
  BY <1>1, OwnedFacts
<1>3. Same(cs, ds, k) /\ DOMAIN ds = DOMAIN cs
  BY <1>2 DEF SameConns
<1>4. CASE Clean(cs[k])
  BY <1>3, <1>4 DEF Clean, Same
<1>5. CASE n = leaving /\ cs[k].state = "DISCONNECT"
  BY <1>3, <1>5 DEF Same
<1>6. CASE \E m \in DOMAIN ns \ {n}, j \in DOMAIN cs \ busy :
                  Link(cs, n, k, m, j) /\ Owns(ns, m, j)
  <2>1. PICK m \in DOMAIN ns \ {n}, j \in DOMAIN cs \ busy :
                  Link(cs, n, k, m, j) /\ Owns(ns, m, j)
    BY <1>6
  <2>2. Link(ds, n, k, m, j)
    BY <1>2, <2>1, LinkKept
  <2> QED  BY <1>0, <1>3, <2>1, <2>2
<1> QED  BY <1>1, <1>4, <1>5, <1>6, SettledFacts

\* The calls that send a CONTACT keep their links.
LEMMA ContactsKept ==
    ASSUME NEW ns, NEW ms, NEW cs, NEW ds, NEW busy, NEW b, NEW td,
           Contacts(ns, cs, busy, b, td), SameNodes(ns, ms), SameConns(cs, ds, busy)
    PROVE  Contacts(ms, ds, busy, b, td)
<1>0. /\ DOMAIN ms = DOMAIN ns /\ DOMAIN ds = DOMAIN cs
      /\ \A n, k : Owns(ms, n, k) <=> Owns(ns, n, k)
  BY HasSame DEF SameConns
<1> SUFFICES ASSUME NEW i \in DOMAIN td
             PROVE  IsContactCall(ms, ds, busy, b, td[i])
  BY DEF Contacts
<1>1. PICK x \in DOMAIN ns \ {b}, k \in DOMAIN cs \ busy, p \in DOMAIN cs \ busy :
        /\ td[i] = SendContact(x, k)
        /\ Link(cs, x, k, b, p) /\ Owns(ns, x, k) /\ Owns(ns, b, p)
  BY DEF Contacts, IsContactCall
<1>2. Link(ds, x, k, b, p)
  BY <1>1, LinkKept
<1> QED  BY <1>0, <1>1, <1>2 DEF IsContactCall

\* The contact stays the peer of all, if no connection gives it up.
LEMMA StarKept ==
    ASSUME NEW ns, NEW ms, NEW cs, NEW ds, NEW c, NEW except,
           Star(ns, cs, c, except), SameNodes(ns, ms),
           \A n, i, k : Has(ns, n, i, k) /\ n \notin except /\ cs[k].peer = c => ds[k].peer = c
    PROVE  Star(ms, ds, c, except)
<1>0. /\ DOMAIN ms = DOMAIN ns
      /\ \A n, i, k : Has(ms, n, i, k) <=> Has(ns, n, i, k)
  BY HasSame
<1> SUFFICES ASSUME c # Null, NEW n \in DOMAIN ns \ except, ms[n].isAlive, n > c
             PROVE  \E i \in Slot : \E k \in {ms[n].connection[i]} : Has(ms, n, i, k) /\ ds[k].peer = c
  BY <1>0 DEF Star
<1>1. ns[n].isAlive
  BY DEF SameNodes
<1>2. PICK i \in Slot : \E k \in {ns[n].connection[i]} : Has(ns, n, i, k) /\ cs[k].peer = c
  BY <1>1 DEF Star
<1>5. PICK k : Has(ns, n, i, k) /\ cs[k].peer = c
  BY <1>2
<1>3. Has(ms, n, i, k) /\ ds[k].peer = c
  BY <1>0, <1>5
<1>4. k \in {ms[n].connection[i]}
  BY <1>3 DEF Has
<1> QED  BY <1>3, <1>4

-----------------------------------------------------------------------------
(* Counting                                                                *)

\* A set with one more member.
LEMMA AddOne ==
    ASSUME NEW S, NEW x, IsFiniteSet(S)
    PROVE  /\ IsFiniteSet(S \cup {x}) /\ Cardinality(S \cup {x}) <= Cardinality(S) + 1
           /\ x \notin S => Cardinality(S \cup {x}) = Cardinality(S) + 1
<1>1. Cardinality(S) \in Nat
  BY FS_CardinalityType
<1>2. /\ IsFiniteSet(S \cup {x})
      /\ Cardinality(S \cup {x}) = IF x \in S THEN Cardinality(S) ELSE Cardinality(S) + 1
  BY FS_AddElement
<1> QED  BY <1>1, <1>2

\* Three names are those of at most three.
LEMMA ThreeAtMost ==
    ASSUME NEW a, NEW b, NEW c
    PROVE  IsFiniteSet({a, b, c}) /\ Cardinality({a, b, c}) <= 3
<1>1. IsFiniteSet({a}) /\ Cardinality({a}) = 1
  BY FS_Singleton
<1>2. IsFiniteSet({a} \cup {b}) /\ Cardinality({a} \cup {b}) <= Cardinality({a}) + 1
  BY <1>1, AddOne
<1>3. /\ IsFiniteSet({a, b} \cup {c})
      /\ Cardinality({a, b} \cup {c}) <= Cardinality({a, b}) + 1
  <2>1. {a, b} = {a} \cup {b}
    OBVIOUS
  <2> QED  BY <1>2, <2>1, AddOne
<1>4. {a, b, c} = {a, b} \cup {c} /\ {a, b} = {a} \cup {b}
  OBVIOUS
<1>5. /\ IsFiniteSet({a, b, c}) /\ Cardinality({a, b, c}) <= Cardinality({a, b}) + 1
      /\ Cardinality({a, b}) <= 2
  BY <1>1, <1>2, <1>3, <1>4
<1>6. Cardinality({a, b, c}) \in Nat /\ Cardinality({a, b}) \in Nat
  BY <1>2, <1>4, <1>5, FS_CardinalityType
<1> QED  BY <1>5, <1>6

\* Six different members are more than five.
LEMMA SixAreMore ==
    ASSUME NEW S, IsFiniteSet(S), NEW a \in S, NEW b \in S,
           NEW m1 \in S, NEW m2 \in S, NEW m3 \in S, NEW m4 \in S,
           a # b, m1 \notin {a, b}, m2 \notin {a, b, m1}, m3 \notin {a, b, m1, m2},
           m4 \notin {a, b, m1, m2, m3}
    PROVE  Cardinality(S) > 5
<1>1. IsFiniteSet({a}) /\ Cardinality({a}) = 1
  BY FS_Singleton
<1>2. IsFiniteSet({a} \cup {b}) /\ Cardinality({a} \cup {b}) = 1 + 1
  BY <1>1, AddOne
<1>3. IsFiniteSet({a, b}) /\ Cardinality({a, b}) = 2
  <2>1. {a, b} = {a} \cup {b}
    OBVIOUS
  <2> QED  BY <1>2, <2>1
<1>4. IsFiniteSet({a, b, m1}) /\ Cardinality({a, b, m1}) = 2 + 1
  <2>1. {a, b, m1} = {a, b} \cup {m1} /\ m1 \notin {a, b}
    OBVIOUS
  <2>2. IsFiniteSet({a, b} \cup {m1}) /\ Cardinality({a, b} \cup {m1}) = Cardinality({a, b}) + 1
    BY <1>3, <2>1, AddOne
  <2> QED  BY <1>3, <2>1, <2>2
<1>5. IsFiniteSet({a, b, m1, m2}) /\ Cardinality({a, b, m1, m2}) = 3 + 1
  <2>1. {a, b, m1, m2} = {a, b, m1} \cup {m2} /\ m2 \notin {a, b, m1}
    OBVIOUS
  <2>2. IsFiniteSet({a, b, m1} \cup {m2}) /\ Cardinality({a, b, m1} \cup {m2}) = Cardinality({a, b, m1}) + 1
    BY <1>4, <2>1, AddOne
  <2> QED  BY <1>4, <2>1, <2>2
<1>6. IsFiniteSet({a, b, m1, m2, m3}) /\ Cardinality({a, b, m1, m2, m3}) = 4 + 1
  <2>1. {a, b, m1, m2, m3} = {a, b, m1, m2} \cup {m3} /\ m3 \notin {a, b, m1, m2}
    OBVIOUS
  <2>2. IsFiniteSet({a, b, m1, m2} \cup {m3}) /\ Cardinality({a, b, m1, m2} \cup {m3}) = Cardinality({a, b, m1, m2}) + 1
    BY <1>5, <2>1, AddOne
  <2> QED  BY <1>5, <2>1, <2>2
<1>7. IsFiniteSet({a, b, m1, m2, m3, m4}) /\ Cardinality({a, b, m1, m2, m3, m4}) = 5 + 1
  <2>1. {a, b, m1, m2, m3, m4} = {a, b, m1, m2, m3} \cup {m4} /\ m4 \notin {a, b, m1, m2, m3}
    OBVIOUS
  <2>2. IsFiniteSet({a, b, m1, m2, m3} \cup {m4}) /\ Cardinality({a, b, m1, m2, m3} \cup {m4}) = Cardinality({a, b, m1, m2, m3}) + 1
    BY <1>6, <2>1, AddOne
  <2> QED  BY <1>6, <2>1, <2>2
<1>8. {a, b, m1, m2, m3, m4} \in SUBSET S
  OBVIOUS
<1>9. Cardinality({a, b, m1, m2, m3, m4}) <= Cardinality(S) /\ Cardinality(S) \in Nat
  BY <1>8, FS_Subset, FS_CardinalityType
<1> QED  BY <1>7, <1>9

\* A PlugNode one of whose connections is not confirmed has three confirmed ones
\* at most.
LEMMA ConfirmedRoom ==
    ASSUME NEW ns, NEW cs, NEW n
    PROVE  /\ IsFiniteSet(ConfirmedOf(ns, cs, n)) /\ Cardinality(ConfirmedOf(ns, cs, n)) \in Nat
           /\ \A i, k : Has(ns, n, i, k) /\ cs[k].state # "CONFIRM"
                           => Cardinality(ConfirmedOf(ns, cs, n)) <= 3
<1> DEFINE f == ns[n].connection
<1>1. ConfirmedOf(ns, cs, n) \in SUBSET ({f[1], f[2], f[3]} \cup {f[4]})
  BY DEF ConfirmedOf, Slot
<1>2. IsFiniteSet({f[1], f[2], f[3]} \cup {f[4]})
  BY ThreeAtMost, FS_AddElement
<1>3. IsFiniteSet(ConfirmedOf(ns, cs, n))
  BY <1>1, <1>2, FS_Subset
<1>4. ASSUME NEW i, NEW k, Has(ns, n, i, k), cs[k].state # "CONFIRM"
      PROVE  Cardinality(ConfirmedOf(ns, cs, n)) <= 3
  <2>1. i \in Slot /\ f[i] \notin ConfirmedOf(ns, cs, n)
    BY <1>4 DEF Has, ConfirmedOf
  <2>2. PICK a, b, c : ConfirmedOf(ns, cs, n) \in SUBSET {a, b, c}
    <3>1. CASE i = 1
      <4>1. ConfirmedOf(ns, cs, n) \in SUBSET {f[2], f[3], f[4]}
        BY <1>1, <2>1, <3>1
      <4> QED  BY <4>1
    <3>2. CASE i = 2
      <4>1. ConfirmedOf(ns, cs, n) \in SUBSET {f[1], f[3], f[4]}
        BY <1>1, <2>1, <3>2
      <4> QED  BY <4>1
    <3>3. CASE i = 3
      <4>1. ConfirmedOf(ns, cs, n) \in SUBSET {f[1], f[2], f[4]}
        BY <1>1, <2>1, <3>3
      <4> QED  BY <4>1
    <3>4. CASE i = 4
      <4>1. ConfirmedOf(ns, cs, n) \in SUBSET {f[1], f[2], f[3]}
        BY <1>1, <2>1, <3>4
      <4> QED  BY <4>1
    <3>5. i = 1 \/ i = 2 \/ i = 3 \/ i = 4
      BY <2>1 DEF Slot
    <3> QED  BY <3>1, <3>2, <3>3, <3>4, <3>5
  <2>3. IsFiniteSet({a, b, c}) /\ Cardinality({a, b, c}) <= 3
    BY ThreeAtMost
  <2>4. Cardinality(ConfirmedOf(ns, cs, n)) <= Cardinality({a, b, c})
    BY <2>2, <2>3, FS_Subset
  <2>5. Cardinality(ConfirmedOf(ns, cs, n)) \in Nat /\ Cardinality({a, b, c}) \in Nat
    BY <1>3, <2>3, FS_CardinalityType
  <2> QED  BY <2>3, <2>4, <2>5
<1> QED  BY <1>3, <1>4, FS_CardinalityType

\* The connections of n but k are confirmed in ds if they are in cs.
LikeConfirmed(ns, cs, ds, n, k) ==
    \A i, q : Has(ns, n, i, q) /\ q # k => (ds[q].state = "CONFIRM" <=> cs[q].state = "CONFIRM")

\* A PlugNode that does not own the connection that changes counts as before.
LEMMA ConfirmedSame ==
    ASSUME NEW ns, NEW ms, NEW cs, NEW ds, NEW n, NEW k, SameNodes(ns, ms), Lives(ns, n),
           LikeConfirmed(ns, cs, ds, n, k), ~Owns(ns, n, k)
    PROVE  ConfirmedOf(ms, ds, n) = ConfirmedOf(ns, cs, n)
<1>1. ms[n].connection = ns[n].connection
  BY DEF SameNodes, Lives
<1>2. ASSUME NEW i \in Slot, ns[n].connection[i] # Null
      PROVE  ds[ns[n].connection[i]].state = "CONFIRM" <=> cs[ns[n].connection[i]].state = "CONFIRM"
  <2>1. Has(ns, n, i, ns[n].connection[i])
    BY <1>2 DEF Has
  <2>2. ns[n].connection[i] # k
    BY <2>1 DEF Owns, Has
  <2> QED  BY <2>1, <2>2 DEF LikeConfirmed
<1> QED  BY <1>1, <1>2 DEF ConfirmedOf

\* One more is confirmed at the owner of a connection that becomes so.
LEMMA ConfirmedMore ==
    ASSUME NEW ns, NEW ms, NEW cs, NEW ds, NEW n, NEW k, SameNodes(ns, ms), Owns(ns, n, k),
           LikeConfirmed(ns, cs, ds, n, k), cs[k].state # "CONFIRM", ds[k].state = "CONFIRM"
    PROVE  Cardinality(ConfirmedOf(ms, ds, n)) = Cardinality(ConfirmedOf(ns, cs, n)) + 1
<1>0. PICK h : Has(ns, n, h, k)
  BY DEF Owns
<1>1. ms[n].connection = ns[n].connection
  BY <1>0 DEF SameNodes, Lives, Has
<1>2. ASSUME NEW i \in Slot, ns[n].connection[i] # Null, ns[n].connection[i] # k
      PROVE  ds[ns[n].connection[i]].state = "CONFIRM" <=> cs[ns[n].connection[i]].state = "CONFIRM"
  <2>1. Has(ns, n, i, ns[n].connection[i])
    BY <1>0, <1>2 DEF Has
  <2> QED  BY <1>2, <2>1 DEF LikeConfirmed
<1>3. h \in Slot /\ ns[n].connection[h] = k /\ k # Null
  BY <1>0 DEF Has
<1>4. ConfirmedOf(ms, ds, n) = ConfirmedOf(ns, cs, n) \cup {k}
  BY <1>1, <1>2, <1>3 DEF ConfirmedOf
<1>5. k \notin ConfirmedOf(ns, cs, n)
  BY DEF ConfirmedOf
<1>6. IsFiniteSet(ConfirmedOf(ns, cs, n))
  BY ConfirmedRoom
<1> QED  BY <1>4, <1>5, <1>6, FS_AddElement

\* One less is confirmed at the owner of a connection that ceases to be so.
LEMMA ConfirmedLess ==
    ASSUME NEW ns, NEW ms, NEW cs, NEW ds, NEW n, NEW k, SameNodes(ns, ms), Owns(ns, n, k),
           LikeConfirmed(ns, cs, ds, n, k), cs[k].state = "CONFIRM", ds[k].state # "CONFIRM"
    PROVE  Cardinality(ConfirmedOf(ns, cs, n)) = Cardinality(ConfirmedOf(ms, ds, n)) + 1
<1>1. SameNodes(ms, ns)
  BY DEF SameNodes
<1>2. Owns(ms, n, k)
  BY HasSame
<1>3. LikeConfirmed(ms, ds, cs, n, k)
  <2>1. \A i, q : Has(ms, n, i, q) <=> Has(ns, n, i, q)
    BY HasSame
  <2> QED  BY <2>1 DEF LikeConfirmed
<1> QED  BY <1>1, <1>2, <1>3, ConfirmedMore

\* Only the count and the connections of w change.
Elsewhere(ns, ms, cs, ds, w, k) ==
    \A n \in DOMAIN ns : n # w => /\ ms[n].peers = ns[n].peers
                                  /\ LikeConfirmed(ns, cs, ds, n, k) /\ ~Owns(ns, n, k)

\* Counted after one PlugNode w has changed its peers or one of its connections.
LEMMA CountedChange ==
    ASSUME NEW ns, NEW ms, NEW cs, NEW ds, NEW more, NEW less, NEW more2, NEW less2, NEW w, NEW k,
           SameNodes(ns, ms), Counted(ns, cs, more, less), w # Null,
           Elsewhere(ns, ms, cs, ds, w, k),
           more2 \in {more, w, Null}, more \in {more2, w, Null},
           less2 \in {less, w, Null}, less \in {less2, w, Null}, Null \notin DOMAIN ns,
           Lives(ns, w) =>
             ms[w].peers + (IF w = less2 THEN 1 ELSE 0)
                = Cardinality(ConfirmedOf(ms, ds, w)) + (IF w = more2 THEN 1 ELSE 0)
    PROVE  Counted(ms, ds, more2, less2)
<1> SUFFICES ASSUME NEW n \in DOMAIN ns, ms[n].isAlive
             PROVE  ms[n].peers + (IF n = less2 THEN 1 ELSE 0)
                      = Cardinality(ConfirmedOf(ms, ds, n)) + (IF n = more2 THEN 1 ELSE 0)
  BY HasSame DEF Counted
<1>1. Lives(ns, n) /\ ns[n].isAlive
  BY DEF SameNodes, Lives
<1>2. CASE n = w
  BY <1>1, <1>2
<1>3. CASE n # w
  <2>1. ConfirmedOf(ms, ds, n) = ConfirmedOf(ns, cs, n)
    BY <1>1, <1>3, ConfirmedSame DEF Elsewhere
  <2>2. (n = more2 <=> n = more) /\ (n = less2 <=> n = less)
    BY <1>3
  <2>3. ns[n].peers + (IF n = less THEN 1 ELSE 0)
            = Cardinality(ConfirmedOf(ns, cs, n)) + (IF n = more THEN 1 ELSE 0)
    BY <1>1 DEF Counted
  <2>4. ms[n].peers = ns[n].peers
    BY <1>3 DEF Elsewhere
  <2> QED  BY <2>1, <2>2, <2>3, <2>4
<1> QED  BY <1>2, <1>3

\* Counted holds on when neither peers nor confirmed connections change.
LEMMA CountedKept ==
    ASSUME NEW ns, NEW ms, NEW cs, NEW ds, NEW more, NEW less, SameNodes(ns, ms),
           Counted(ns, cs, more, less),
           \A n \in DOMAIN ns : ms[n].peers = ns[n].peers /\ LikeConfirmed(ns, cs, ds, n, Null)
    PROVE  Counted(ms, ds, more, less)
<1> SUFFICES ASSUME NEW n \in DOMAIN ns, ms[n].isAlive
             PROVE  ms[n].peers + (IF n = less THEN 1 ELSE 0)
                      = Cardinality(ConfirmedOf(ms, ds, n)) + (IF n = more THEN 1 ELSE 0)
  BY HasSame DEF Counted
<1>1. Lives(ns, n) /\ ns[n].isAlive
  BY DEF SameNodes, Lives
<1>2. ~Owns(ns, n, Null)
  BY DEF Owns, Has
<1>3. ConfirmedOf(ms, ds, n) = ConfirmedOf(ns, cs, n)
  BY <1>1, <1>2, ConfirmedSame
<1>4. ns[n].peers + (IF n = less THEN 1 ELSE 0)
          = Cardinality(ConfirmedOf(ns, cs, n)) + (IF n = more THEN 1 ELSE 0)
  BY <1>1 DEF Counted
<1> QED  BY <1>3, <1>4

-----------------------------------------------------------------------------
(* Calls                                                                   *)

\* Every constructor of a call makes one.
LEMMA CallTypes ==
    /\ \A a, b, id \in Nat : Join(a, b, id) \in CallRecord
    /\ \A a \in Nat : /\ SwitchAccess(a) \in CallRecord /\ Switched(a) \in CallRecord
                      /\ RemoveContact(a) \in CallRecord /\ Shutdown(a) \in CallRecord
    /\ \A k, o \in Nat, command \in Command : Send(k, command, o) \in CallRecord
    /\ \A a, k \in Nat : SendContact(a, k) \in CallRecord
    /\ \A k \in Nat, line \in Message : Payload(k, line) \in CallRecord /\ LineEnd(k, line) \in CallRecord
    /\ \A k \in Nat : /\ Receive(k) \in CallRecord /\ Unlink(k) \in CallRecord
                      /\ SetDisconnect(k) \in CallRecord
    /\ \A a \in Nat, i \in Slot : DisconnectPeer(a, i) \in CallRecord
BY DEF CallRecord, Join, SwitchAccess, Switched, RemoveContact, Shutdown, Send, SendContact, Payload,
       LineEnd, Receive, Unlink, SetDisconnect, DisconnectPeer

\* What remains when the innermost call has returned.
LEMMA PopCall ==
    ASSUME NEW td \in Seq(CallRecord), td # <<>>
    PROVE  Tail(td) \in Seq(CallRecord) /\ Head(td) \in CallRecord /\ <<>> \o Tail(td) = Tail(td)
<1>1. Tail(td) \in Seq(CallRecord) /\ Head(td) \in CallRecord
  BY HeadTailProperties
<1> QED  BY <1>1, ConcatEmptySeq

\* Names under which the provers find what the lemmas below say.
First(td) == Head(td)
Rest(td)  == Tail(td)
Push1(a, td) == <<a>> \o td
Push2(a, b, td) == <<a, b>> \o td

\* One more call.
LEMMA PushCall ==
    ASSUME NEW td \in Seq(CallRecord), NEW a \in CallRecord
    PROVE  /\ Push1(a, td) \in Seq(CallRecord) /\ Push1(a, td) # <<>>
           /\ First(Push1(a, td)) = a /\ Rest(Push1(a, td)) = td
<1> DEFINE s == <<a>> \o td
<1>1. /\ s \in Seq(CallRecord) /\ Len(s) = 1 + Len(td)
      /\ \A i \in 1 .. 1 + Len(td) : s[i] = IF i <= 1 THEN a ELSE td[i - 1]
  <2>1. <<a>> \in Seq(CallRecord) /\ Len(<<a>>) = 1 /\ <<a>>[1] = a
    OBVIOUS
  <2>2. /\ <<a>> \o td \in Seq(CallRecord) /\ Len(<<a>> \o td) = Len(<<a>>) + Len(td)
        /\ \A i \in 1 .. Len(<<a>>) + Len(td) : (<<a>> \o td)[i] =
              IF i <= Len(<<a>>) THEN <<a>>[i] ELSE td[i - Len(<<a>>)]
    BY <2>1, ConcatProperties
  <2> QED  BY <2>1, <2>2, LenProperties
<1> HIDE DEF s
<1>2. Len(td) \in Nat
  BY LenProperties
<1>3. s # <<>> /\ s[1] = a /\ Head(s) = a
  BY <1>1, <1>2
<1>4. /\ Tail(s) \in Seq(CallRecord) /\ Len(Tail(s)) = Len(td)
      /\ \A i \in 1 .. Len(td) : Tail(s)[i] = s[i + 1]
  BY <1>1, <1>2, <1>3, HeadTailProperties
<1>5. \A i \in 1 .. Len(td) : Tail(s)[i] = td[i]
  BY <1>1, <1>2, <1>4
<1>6. Tail(s) = td
  BY <1>4, <1>5, SeqEqual
<1> QED  BY <1>1, <1>3, <1>6 DEF s, Push1, First, Rest

\* Two more calls.
LEMMA PushCalls ==
    ASSUME NEW td \in Seq(CallRecord), NEW a \in CallRecord, NEW b \in CallRecord
    PROVE  /\ Push2(a, b, td) \in Seq(CallRecord) /\ Push2(a, b, td) # <<>>
           /\ First(Push2(a, b, td)) = a
           /\ Rest(Push2(a, b, td)) = Push1(b, td) /\ Rest(Push2(a, b, td)) # <<>>
           /\ First(Rest(Push2(a, b, td))) = b /\ Rest(Rest(Push2(a, b, td))) = td
<1> DEFINE s == <<a, b>> \o td
<1>1. /\ s \in Seq(CallRecord) /\ Len(s) = 2 + Len(td)
      /\ \A i \in 1 .. 2 + Len(td) : s[i] = IF i <= 2 THEN <<a, b>>[i] ELSE td[i - 2]
  <2>1. <<a, b>> \in Seq(CallRecord) /\ Len(<<a, b>>) = 2
    OBVIOUS
  <2>2. /\ <<a, b>> \o td \in Seq(CallRecord) /\ Len(<<a, b>> \o td) = Len(<<a, b>>) + Len(td)
        /\ \A i \in 1 .. Len(<<a, b>>) + Len(td) : (<<a, b>> \o td)[i] =
              IF i <= Len(<<a, b>>) THEN <<a, b>>[i] ELSE td[i - Len(<<a, b>>)]
    BY <2>1, ConcatProperties
  <2> QED  BY <2>1, <2>2, LenProperties
<1>2. Len(td) \in Nat
  BY LenProperties
<1>3. s[1] = a /\ s[2] = b
  BY <1>1, <1>2
<1> DEFINE t == <<b>> \o td
<1>4. /\ t \in Seq(CallRecord) /\ Len(t) = 1 + Len(td)
      /\ \A i \in 1 .. 1 + Len(td) : t[i] = IF i <= 1 THEN b ELSE td[i - 1]
  <2>1. <<b>> \in Seq(CallRecord) /\ Len(<<b>>) = 1 /\ <<b>>[1] = b
    OBVIOUS
  <2>2. /\ <<b>> \o td \in Seq(CallRecord) /\ Len(<<b>> \o td) = Len(<<b>>) + Len(td)
        /\ \A i \in 1 .. Len(<<b>>) + Len(td) : (<<b>> \o td)[i] =
              IF i <= Len(<<b>>) THEN <<b>>[i] ELSE td[i - Len(<<b>>)]
    BY <2>1, ConcatProperties
  <2> QED  BY <2>1, <2>2, LenProperties
<1> HIDE DEF s, t
<1>5. s # <<>> /\ Head(s) = a
  BY <1>1, <1>2, <1>3
<1>6. /\ Tail(s) \in Seq(CallRecord) /\ Len(Tail(s)) = 1 + Len(td)
      /\ \A i \in 1 .. 1 + Len(td) : Tail(s)[i] = s[i + 1]
  BY <1>1, <1>2, <1>5, HeadTailProperties
<1>7. ASSUME NEW i \in 1 .. 1 + Len(td) PROVE Tail(s)[i] = t[i]
  <2>1. Tail(s)[i] = s[i + 1] /\ i + 1 \in 1 .. 2 + Len(td)
    BY <1>2, <1>6
  <2>2. CASE i = 1
    <3>1. s[i + 1] = b /\ t[1] = b
      BY <1>2, <1>3, <1>4, <2>2
    <3> QED  BY <2>1, <2>2, <3>1
  <2>3. CASE i # 1
    <3>1. s[i + 1] = td[(i + 1) - 2] /\ t[i] = td[i - 1] /\ (i + 1) - 2 = i - 1
      BY <1>1, <1>2, <1>4, <2>1, <2>3
    <3> QED  BY <2>1, <3>1
  <2> QED  BY <2>2, <2>3
<1>8. Tail(s) = t
  BY <1>4, <1>6, <1>7, SeqEqual
<1>9. t # <<>> /\ First(t) = b /\ Rest(t) = td
  BY PushCall DEF t, Push1
<1> QED  BY <1>1, <1>5, <1>8, <1>9 DEF s, t, Push1, Push2, First, Rest

\* The first of the calls that send a CONTACT, and the others.
LEMMA PopContact ==
    ASSUME NEW ns, NEW cs, NEW busy, NEW b, NEW td \in Seq(CallRecord), td # <<>>,
           Contacts(ns, cs, busy, b, td)
    PROVE  IsContactCall(ns, cs, busy, b, Head(td)) /\ Contacts(ns, cs, busy, b, Tail(td))
<1>1. Len(td) \in Nat /\ Len(td) # 0 /\ DOMAIN td = 1 .. Len(td) /\ Head(td) = td[1]
  BY LenProperties, EmptySeq
<1>2. Tail(td) \in Seq(CallRecord) /\ Len(Tail(td)) = Len(td) - 1
      /\ \A i \in 1 .. Len(Tail(td)) : Tail(td)[i] = td[i + 1]
  BY HeadTailProperties
<1>3. DOMAIN Tail(td) = 1 .. Len(Tail(td))
  BY <1>2, LenProperties
<1>4. \A i \in DOMAIN Tail(td) : i + 1 \in DOMAIN td /\ Tail(td)[i] = td[i + 1]
  BY <1>1, <1>2, <1>3
<1> QED  BY <1>1, <1>4 DEF Contacts

\* One more call that sends a CONTACT.
LEMMA PushContact ==
    ASSUME NEW ns, NEW cs, NEW busy, NEW b, NEW td \in Seq(CallRecord), td # <<>>,
           Contacts(ns, cs, busy, b, Tail(td)), IsContactCall(ns, cs, busy, b, Head(td))
    PROVE  Contacts(ns, cs, busy, b, td)
<1>1. Len(td) \in Nat /\ DOMAIN td = 1 .. Len(td) /\ Head(td) = td[1]
  BY LenProperties, EmptySeq
<1>2. Tail(td) \in Seq(CallRecord) /\ Len(Tail(td)) = Len(td) - 1
      /\ \A i \in 1 .. Len(Tail(td)) : Tail(td)[i] = td[i + 1]
  BY HeadTailProperties
<1>3. DOMAIN Tail(td) = 1 .. Len(Tail(td))
  BY <1>2, LenProperties
<1> SUFFICES ASSUME NEW i \in DOMAIN td, i # 1  PROVE IsContactCall(ns, cs, busy, b, td[i])
  BY <1>1 DEF Contacts
<1>4. i - 1 \in DOMAIN Tail(td) /\ Tail(td)[i - 1] = td[i]
  BY <1>1, <1>2, <1>3
<1> QED  BY <1>4 DEF Contacts

-----------------------------------------------------------------------------
(* Types of what a step finds                                              *)

\* PlugNodes and connections are numbered from 1, and are records.
LEMMA Objects ==
    ASSUME Typed
    PROVE  /\ DOMAIN nodes = 1 .. Len(nodes) /\ Len(nodes) \in Nat /\ Null \notin DOMAIN nodes
           /\ \A n \in DOMAIN nodes : n \in Nat /\ nodes[n] \in NodeRecord
           /\ DOMAIN conns = 1 .. Len(conns) /\ Len(conns) \in Nat /\ Null \notin DOMAIN conns
           /\ \A k \in DOMAIN conns : k \in Nat /\ conns[k] \in ConnRecord
BY LenProperties, ElementOfSeq DEF Typed, Null

\* The action that takes the innermost call.
ReceiveStep ==
    \/ ReceiveCheckin \/ ReceiveConnect \/ ReceiveConfirm
    \/ ReceiveSwitch \/ ReceiveContact \/ ReceiveDisconnect

\* The innermost call tells which action a step is.
LEMMA StepByCall ==
    ASSUME Step
    PROVE  /\ todo # <<>>
           /\ Head(todo).call = "join" => JoinNetwork
           /\ Head(todo).call = "switch" => SwitchServiceAccess
           /\ Head(todo).call = "send" => SendCommand
           /\ Head(todo).call = "contact" => SendContactCommand
           /\ Head(todo).call = "payload" => WritePayload
           /\ Head(todo).call = "line" => WriteLine
           /\ Head(todo).call = "receive" => ReceiveStep
           /\ Head(todo).call = "unlink" => UnlinkConnection
           /\ Head(todo).call = "disconnect" => Disconnect
           /\ Head(todo).call = "setState" => DisconnectDone
           /\ Head(todo).call = "removeContact" => LeaveContact
           /\ Head(todo).call = "shutdown" => ShutdownConnections
<1>1. CASE JoinNetwork
  <2>1. Calls("join")
    BY <1>1 DEF JoinNetwork
  <2> QED  BY <1>1, <2>1 DEF Calls
<1>2. CASE SwitchServiceAccess
  <2>1. Calls("switch")
    BY <1>2 DEF SwitchServiceAccess
  <2> QED  BY <1>2, <2>1 DEF Calls
<1>3. CASE SwitchDone
  <2>1. Calls("switched")
    BY <1>3 DEF SwitchDone
  <2> QED  BY <2>1 DEF Calls
<1>4. CASE SendCommand
  <2>1. Calls("send")
    BY <1>4 DEF SendCommand
  <2> QED  BY <1>4, <2>1 DEF Calls
<1>5. CASE SendContactCommand
  <2>1. Calls("contact")
    BY <1>5 DEF SendContactCommand
  <2> QED  BY <1>5, <2>1 DEF Calls
<1>6. CASE WritePayload
  <2>1. Calls("payload")
    BY <1>6 DEF WritePayload
  <2> QED  BY <1>6, <2>1 DEF Calls
<1>7. CASE WriteLine
  <2>1. Calls("line")
    BY <1>7 DEF WriteLine
  <2> QED  BY <1>7, <2>1 DEF Calls
<1>8. CASE ReceiveStep
  <2>1. Calls("receive")
    BY <1>8 DEF ReceiveStep, ReceiveCheckin, ReceiveConnect, ReceiveConfirm, ReceiveSwitch,
                ReceiveContact, ReceiveDisconnect, Receives
  <2> QED  BY <1>8, <2>1 DEF Calls
<1>9. CASE UnlinkConnection
  <2>1. Calls("unlink")
    BY <1>9 DEF UnlinkConnection
  <2> QED  BY <1>9, <2>1 DEF Calls
<1>10. CASE Disconnect
  <2>1. Calls("disconnect")
    BY <1>10 DEF Disconnect
  <2> QED  BY <1>10, <2>1 DEF Calls
<1>11. CASE DisconnectDone
  <2>1. Calls("setState")
    BY <1>11 DEF DisconnectDone
  <2> QED  BY <1>11, <2>1 DEF Calls
<1>12. CASE LeaveContact
  <2>1. Calls("removeContact")
    BY <1>12 DEF LeaveContact
  <2> QED  BY <1>12, <2>1 DEF Calls
<1>13. CASE ShutdownConnections
  <2>1. Calls("shutdown")
    BY <1>13 DEF ShutdownConnections
  <2> QED  BY <1>13, <2>1 DEF Calls
<1> QED
  BY <1>1, <1>2, <1>3, <1>4, <1>5, <1>6, <1>7, <1>8, <1>9, <1>10, <1>11, <1>12, <1>13
  DEF Step, ReceiveStep

\* The line that is read tells which action a receiver takes.
LEMMA ReceiveByCommand ==
    ASSUME ReceiveStep
    PROVE  /\ Line.command = "CHECKIN" => ReceiveCheckin
           /\ Line.command = "CONNECT" => ReceiveConnect
           /\ Line.command = "CONFIRM" => ReceiveConfirm
           /\ Line.command = "CONTACT" => ReceiveContact
           /\ Line.command = "DISCONNECT" => ReceiveDisconnect
<1>1. CASE ReceiveCheckin
  <2>1. Line.command = "CHECKIN"
    BY <1>1 DEF ReceiveCheckin, Receives
  <2> QED  BY <1>1, <2>1
<1>2. CASE ReceiveConnect
  <2>1. Line.command = "CONNECT"
    BY <1>2 DEF ReceiveConnect, Receives
  <2> QED  BY <1>2, <2>1
<1>3. CASE ReceiveConfirm
  <2>1. Line.command = "CONFIRM"
    BY <1>3 DEF ReceiveConfirm, Receives
  <2> QED  BY <1>3, <2>1
<1>4. CASE ReceiveSwitch
  <2>1. Line.command = "SWITCH"
    BY <1>4 DEF ReceiveSwitch, Receives
  <2> QED  BY <2>1
<1>5. CASE ReceiveContact
  <2>1. Line.command = "CONTACT"
    BY <1>5 DEF ReceiveContact, Receives
  <2> QED  BY <1>5, <2>1
<1>6. CASE ReceiveDisconnect
  <2>1. Line.command = "DISCONNECT"
    BY <1>6 DEF ReceiveDisconnect, Receives
  <2> QED  BY <1>6, <2>1
<1> QED  BY <1>1, <1>2, <1>3, <1>4, <1>5, <1>6 DEF ReceiveStep

-----------------------------------------------------------------------------
(* The calls that remain after a step                                      *)

\* The call returns.
LEMMA ThenNone ==
    ASSUME Typed, todo # <<>>, Then(<<>>)
    PROVE  todo' \in Seq(CallRecord) /\ todo' = Tail(todo)
<1>1. Tail(todo) \in Seq(CallRecord) /\ <<>> \o Tail(todo) = Tail(todo)
  BY PopCall DEF Typed
<1> QED  BY <1>1 DEF Then

\* The call ends with another one.
LEMMA ThenOne ==
    ASSUME Typed, todo # <<>>, NEW a \in CallRecord, Then(<<a>>)
    PROVE  /\ todo' \in Seq(CallRecord) /\ todo' # <<>> /\ Head(todo') = a
           /\ Tail(todo') = Tail(todo)
<1>1. Tail(todo) \in Seq(CallRecord)
  BY PopCall DEF Typed
<1>2. todo' = Push1(a, Tail(todo))
  BY DEF Then, Push1
<1> DEFINE z == Tail(todo)
<1>3. z \in Seq(CallRecord) /\ todo' = Push1(a, z)
  BY <1>1, <1>2
<1> HIDE DEF z
<1>4. Push1(a, z) \in Seq(CallRecord) /\ Push1(a, z) # <<>>
  BY <1>3, PushCall
<1>5. First(Push1(a, z)) = a
  BY <1>3, PushCall
<1>6. Rest(Push1(a, z)) = z
  BY <1>3, PushCall
<1>7. /\ todo' \in Seq(CallRecord) /\ todo' # <<>>
      /\ First(todo') = a /\ Rest(todo') = z
  BY <1>3, <1>4, <1>5, <1>6
<1> QED  BY <1>7 DEF First, Rest, z

\* The call ends with two others.
LEMMA ThenTwo ==
    ASSUME Typed, todo # <<>>, NEW a \in CallRecord, NEW b \in CallRecord, Then(<<a, b>>)
    PROVE  /\ todo' \in Seq(CallRecord) /\ todo' # <<>> /\ Head(todo') = a
           /\ Tail(todo') # <<>> /\ Head(Tail(todo')) = b /\ Tail(Tail(todo')) = Tail(todo)
<1>1. Tail(todo) \in Seq(CallRecord)
  BY PopCall DEF Typed
<1>2. todo' = Push2(a, b, Tail(todo))
  BY DEF Then, Push2
<1> DEFINE z == Tail(todo)
<1>3. z \in Seq(CallRecord) /\ todo' = Push2(a, b, z)
  BY <1>1, <1>2
<1> HIDE DEF z
<1>4. Push2(a, b, z) \in Seq(CallRecord) /\ Push2(a, b, z) # <<>>
  BY <1>3, PushCalls
<1>5. First(Push2(a, b, z)) = a /\ Rest(Push2(a, b, z)) # <<>>
  BY <1>3, PushCalls
<1>6. First(Rest(Push2(a, b, z))) = b
  BY <1>3, PushCalls
<1>7. Rest(Rest(Push2(a, b, z))) = z
  BY <1>3, PushCalls
<1>8. /\ todo' \in Seq(CallRecord) /\ todo' # <<>> /\ First(todo') = a
      /\ Rest(todo') # <<>> /\ First(Rest(todo')) = b /\ Rest(Rest(todo')) = z
  BY <1>3, <1>4, <1>5, <1>6, <1>7
<1> QED  BY <1>8 DEF First, Rest, z

-----------------------------------------------------------------------------
(* Sending, writing and reading a line                                     *)

\* sendCommand() enters the state of the command and starts to write the line.
LEMMA SendEffect ==
    ASSUME Typed, todo # <<>>, NEW k \in DOMAIN conns, NEW command \in Command \ {"SWITCH"},
           NEW other \in {Null} \cup DOMAIN conns, Head(todo) = Send(k, command, other),
           AllRead(conns, Null), SendCommand, NEW line,
           line = [command |-> command,
                   address |-> IF other = Null THEN Null ELSE conns[other].peer]
    PROVE  /\ Typed' /\ UNCHANGED <<nodes, contact, shutDown>>
           /\ Telling(conns', todo', k, line) /\ Told(todo') = Tail(todo)
           /\ DOMAIN conns' = DOMAIN conns /\ \A q \in DOMAIN conns : q # k => conns'[q] = conns[q]
           /\ conns'[k].isAlive = conns[k].isAlive /\ conns'[k].connectionID = conns[k].connectionID
           /\ conns'[k].receiver = conns[k].receiver /\ conns'[k].rxInfo = conns[k].rxInfo
           /\ conns'[k].registered = conns[k].registered
           /\ conns'[k].state = IF command \in {"CHECKIN", "CONNECT", "CONFIRM"}
                                THEN command ELSE conns[k].state
           /\ conns'[k].peer = IF command = "DISCONNECT" THEN Null ELSE conns[k].peer
<1>0. /\ Null \notin DOMAIN conns /\ \A q \in DOMAIN conns : q \in Nat /\ conns[q] \in ConnRecord
      /\ DOMAIN conns = 1 .. Len(conns)
  BY Objects
<1>1. line \in Message
  <2>1. CASE other = Null
    BY <2>1 DEF Message, Null
  <2>2. CASE other # Null
    <3>1. conns[other].peer \in Nat
      BY <1>0, <2>2 DEF ConnRecord
    <3> QED  BY <2>2, <3>1 DEF Message
  <2> QED  BY <2>1, <2>2
<1>2. /\ conns' = StateSent(k, command)
      /\ todo' = <<Payload(k, line), LineEnd(k, line)>> \o Tail(todo)
      /\ UNCHANGED <<nodes, contact, localContactID, shutDown>>
  BY DEF SendCommand, Call, Send, Then
<1>3. PICK r \in ConnRecord :
        /\ conns' = [conns EXCEPT ![k] = r]
        /\ r.isAlive = conns[k].isAlive /\ r.connectionID = conns[k].connectionID
        /\ r.receiver = conns[k].receiver /\ r.rxInfo = conns[k].rxInfo
        /\ r.registered = conns[k].registered /\ r.lines = conns[k].lines
        /\ r.state = IF command \in {"CHECKIN", "CONNECT", "CONFIRM"} THEN command ELSE conns[k].state
        /\ r.peer = IF command = "DISCONNECT" THEN Null ELSE conns[k].peer
  <2>0. conns[k] \in ConnRecord
    BY <1>0
  <2>1. CASE command \in {"CHECKIN", "CONNECT", "CONFIRM"}
    <3>1. conns' = [conns EXCEPT ![k].state = command]
      BY <1>2, <2>1, Zenon DEF StateSent
    <3> DEFINE r == [conns[k] EXCEPT !.state = command]
    <3>2. r \in ConnRecord
      BY <2>0, <2>1 DEF ConnRecord, State
    <3>3. conns' = [conns EXCEPT ![k] = r]
      BY <3>1
    <3>4. /\ r.isAlive = conns[k].isAlive /\ r.connectionID = conns[k].connectionID
          /\ r.receiver = conns[k].receiver /\ r.rxInfo = conns[k].rxInfo
          /\ r.registered = conns[k].registered /\ r.lines = conns[k].lines
          /\ r.state = command /\ r.peer = conns[k].peer
      BY <2>0 DEF ConnRecord
    <3> HIDE DEF r
    <3>5. command # "DISCONNECT"
      BY <2>1
    <3> QED  BY <2>1, <3>2, <3>3, <3>4, <3>5
  <2>2. CASE command = "DISCONNECT"
    <3>1. conns' = [conns EXCEPT ![k].peer = Null]
      BY <1>2, <2>2, Zenon DEF StateSent
    <3> DEFINE r == [conns[k] EXCEPT !.peer = Null]
    <3>2. r \in ConnRecord
      BY <2>0 DEF ConnRecord, Null
    <3>3. conns' = [conns EXCEPT ![k] = r]
      BY <3>1
    <3>4. /\ r.isAlive = conns[k].isAlive /\ r.connectionID = conns[k].connectionID
          /\ r.receiver = conns[k].receiver /\ r.rxInfo = conns[k].rxInfo
          /\ r.registered = conns[k].registered /\ r.lines = conns[k].lines
          /\ r.state = conns[k].state /\ r.peer = Null
      BY <2>0 DEF ConnRecord
    <3> HIDE DEF r
    <3> QED  BY <2>2, <3>2, <3>3, <3>4
  <2>3. CASE command = "CONTACT"
    <3>1. conns' = conns
      BY <1>2, <2>3, Zenon DEF StateSent
    <3>2. conns' = [conns EXCEPT ![k] = conns[k]]
      BY <1>0, <3>1 DEF Typed
    <3> QED  BY <2>0, <2>3, <3>2
  <2> QED  BY <2>1, <2>2, <2>3 DEF Command
<1>4. /\ conns' \in Seq(ConnRecord) /\ DOMAIN conns' = DOMAIN conns
      /\ \A q \in DOMAIN conns : conns'[q] = IF q = k THEN r ELSE conns[q]
  <2>1. k \in 1 .. Len(conns) /\ conns \in Seq(ConnRecord)
    BY <1>0 DEF Typed
  <2> HIDE DEF Typed
  <2>2. /\ [conns EXCEPT ![k] = r] \in Seq(ConnRecord)
        /\ Len([conns EXCEPT ![k] = r]) = Len(conns)
        /\ \A j \in 1 .. Len(conns) : [conns EXCEPT ![k] = r][j] = IF j = k THEN r ELSE conns[j]
    BY <2>1, ExceptSeq
  <2> QED  BY <1>0, <1>3, <2>2
<1>5. /\ Tail(todo) \in Seq(CallRecord)
      /\ Payload(k, line) \in CallRecord /\ LineEnd(k, line) \in CallRecord
  BY <1>0, <1>1, CallTypes, PopCall DEF Typed
<1>6. /\ todo' \in Seq(CallRecord) /\ todo' # <<>> /\ Head(todo') = Payload(k, line)
      /\ Tail(todo') # <<>> /\ Head(Tail(todo')) = LineEnd(k, line)
      /\ Tail(Tail(todo')) = Tail(todo)
  <2>1. Then(<<Payload(k, line), LineEnd(k, line)>>)
    BY <1>2 DEF Then
  <2> QED  BY <1>5, <2>1, ThenTwo
<1>8. Told(todo') = Tail(todo)
  BY <1>6 DEF Told, Payload
<1>9. Telling(conns', todo', k, line)
  <2>1. \A q \in DOMAIN conns : conns[q].lines = <<>>
    BY <1>0 DEF AllRead
  <2>2. \A q \in DOMAIN conns' : conns'[q].lines = <<>>
    BY <1>3, <1>4, <2>1
  <2> QED  BY <1>4, <1>6, <2>2 DEF Telling, AllRead
<1>10. Typed'
  BY <1>2, <1>4, <1>6 DEF Typed
<1> QED  BY <1>2, <1>3, <1>4, <1>8, <1>9, <1>10

\* A connection with other lines.
WithLines(cs, k, lines) == [cs EXCEPT ![k].lines = lines]

OnlyLines(cs, ds) ==
    /\ DOMAIN ds = DOMAIN cs
    /\ \A q \in DOMAIN cs :
          ds[q].isAlive = cs[q].isAlive /\ ds[q].connectionID = cs[q].connectionID /\ Same(cs, ds, q)

\* Other lines in one stream change nothing else.
LEMMA NewLines ==
    ASSUME Typed, NEW k \in DOMAIN conns, NEW lines \in Seq(Message), NEW ds,
           ds = WithLines(conns, k, lines)
    PROVE  /\ ds \in Seq(ConnRecord) /\ OnlyLines(conns, ds)
           /\ ds[k].lines = lines /\ \A q \in DOMAIN conns : q # k => ds[q].lines = conns[q].lines
<1>0. /\ \A q \in DOMAIN conns : q \in Nat /\ conns[q] \in ConnRecord
      /\ DOMAIN conns = 1 .. Len(conns)
  BY Objects
<1> DEFINE r == [conns[k] EXCEPT !.lines = lines]
<1>1. r \in ConnRecord
  BY <1>0 DEF ConnRecord
<1>2. /\ r.isAlive = conns[k].isAlive /\ r.connectionID = conns[k].connectionID
      /\ r.state = conns[k].state /\ r.receiver = conns[k].receiver
      /\ r.rxInfo = conns[k].rxInfo /\ r.registered = conns[k].registered
      /\ r.peer = conns[k].peer /\ r.lines = lines
  BY <1>0 DEF ConnRecord
<1>3. ds = [conns EXCEPT ![k] = r]
  BY DEF WithLines
<1> HIDE DEF r
<1>4. /\ ds \in Seq(ConnRecord) /\ DOMAIN ds = DOMAIN conns
      /\ \A q \in DOMAIN conns : ds[q] = IF q = k THEN r ELSE conns[q]
  <2>1. k \in 1 .. Len(conns) /\ conns \in Seq(ConnRecord)
    BY <1>0 DEF Typed
  <2> HIDE DEF Typed
  <2>2. /\ [conns EXCEPT ![k] = r] \in Seq(ConnRecord)
        /\ Len([conns EXCEPT ![k] = r]) = Len(conns)
        /\ \A j \in 1 .. Len(conns) : [conns EXCEPT ![k] = r][j] = IF j = k THEN r ELSE conns[j]
    BY <1>1, <2>1, ExceptSeq
  <2> QED  BY <1>0, <1>3, <2>2
<1> QED  BY <1>2, <1>4 DEF Same, OnlyLines

\* Writing the line goes on until the receiver is called.
LEMMA TellEffect ==
    ASSUME Typed, NEW k \in DOMAIN conns, NEW line \in Message, Telling(conns, todo, k, line),
           HasReceiver(k), Head(todo).call # "receive", Step
    PROVE  /\ Typed' /\ UNCHANGED <<nodes, contact, shutDown>>
           /\ Telling(conns', todo', k, line) /\ Told(todo') = Told(todo)
           /\ SameConns(conns, conns', {})
<1>0. /\ Null \notin DOMAIN conns /\ k \in Nat
      /\ \A q \in DOMAIN conns : q \in Nat /\ conns[q] \in ConnRecord
  BY Objects
<1>1. todo # <<>> /\ AllRead(conns, k)
  BY DEF Telling
<1>2. CASE Head(todo) = Payload(k, line)
  <2>1. /\ conns[k].lines = <<>> /\ Tail(todo) # <<>> /\ Head(Tail(todo)) = LineEnd(k, line)
    BY <1>2 DEF Telling, Payload, LineEnd, Receive
  <2>2. WritePayload
    BY <1>2, StepByCall DEF Payload
  <2>3. Then(<<>>) /\ UNCHANGED <<nodes, conns, contact, localContactID, shutDown>>
    BY <1>2, <2>1, <2>2 DEF WritePayload, Call, Payload
  <2>4. todo' \in Seq(CallRecord) /\ todo' = Tail(todo)
    BY <1>1, <2>3, ThenNone
  <2>5. Told(todo') = Told(todo)
    BY <1>2, <2>1, <2>4 DEF Told, Payload, LineEnd
  <2>6. Telling(conns', todo', k, line)
    BY <1>1, <2>1, <2>3, <2>4 DEF Telling
  <2>7. SameConns(conns, conns', {})
    BY <2>3 DEF SameConns, Same
  <2>8. Typed'
    BY <2>3, <2>4 DEF Typed
  <2> QED  BY <2>3, <2>5, <2>6, <2>7, <2>8
<1>3. CASE Head(todo) = LineEnd(k, line)
  <2>1. conns[k].lines = <<>>
    BY <1>3 DEF Telling, Payload, LineEnd, Receive
  <2>2. WriteLine
    BY <1>3, StepByCall DEF LineEnd
  <2>3. /\ Then(<<Receive(k)>>) /\ UNCHANGED <<nodes, contact, localContactID, shutDown>>
        /\ conns' = [conns EXCEPT ![k].lines = Append(@, line)]
    <3>1. Call.conn = k /\ Call.line = line
      BY <1>3 DEF Call, LineEnd
    <3> HIDE DEF Call
    <3> QED  BY <2>2, <3>1 DEF WriteLine
  <2>4. conns' = WithLines(conns, k, <<line>>) /\ <<line>> \in Seq(Message)
    <3>1. Append(conns[k].lines, line) = <<line>>
      BY <2>1
    <3> QED  BY <1>0, <2>3, <3>1 DEF WithLines
  <2>5. Receive(k) \in CallRecord
    BY <1>0, CallTypes
  <2>6. /\ todo' \in Seq(CallRecord) /\ todo' # <<>> /\ Head(todo') = Receive(k)
        /\ Tail(todo') = Tail(todo)
    BY <1>1, <2>3, <2>5, ThenOne
  <2>7. Told(todo') = Told(todo)
    <3>1. Head(todo).call # "payload" /\ Head(todo').call # "payload"
      BY <1>3, <2>6 DEF LineEnd, Receive
    <3> QED  BY <2>6, <3>1 DEF Told
  <2>8. /\ conns' \in Seq(ConnRecord) /\ OnlyLines(conns, conns')
        /\ conns'[k].lines = <<line>>
        /\ \A q \in DOMAIN conns : q # k => conns'[q].lines = conns[q].lines
    <3> DEFINE lines == <<line>>
    <3>1. lines \in Seq(Message) /\ conns' = WithLines(conns, k, lines)
      BY <2>4
    <3> HIDE DEF lines
    <3>2. /\ conns' \in Seq(ConnRecord) /\ OnlyLines(conns, conns') /\ conns'[k].lines = lines
          /\ \A q \in DOMAIN conns : q # k => conns'[q].lines = conns[q].lines
      BY <3>1, NewLines
    <3> QED  BY <3>2 DEF lines
  <2>9. Telling(conns', todo', k, line)
    BY <1>1, <2>6, <2>8 DEF Telling, AllRead, OnlyLines
  <2>10. SameConns(conns, conns', {})
    BY <2>8 DEF SameConns, Same, OnlyLines
  <2>11. Typed'
    BY <2>3, <2>6, <2>8 DEF Typed
  <2> QED  BY <2>3, <2>7, <2>9, <2>10, <2>11
<1> QED
  <2>1. Head(todo) # Receive(k)
    BY DEF Receive
  <2> QED  BY <1>2, <1>3, <2>1 DEF Telling

\* The line is read before anything else happens.
LEMMA ReadEffect ==
    ASSUME Typed, NEW k \in DOMAIN conns, NEW line \in Message, Telling(conns, todo, k, line),
           Head(todo).call = "receive", Step
    PROVE  /\ todo # <<>> /\ Call.conn = k /\ Line = line /\ Told(todo) = Tail(todo) /\ ReceiveStep
           /\ Read \in Seq(ConnRecord) /\ OnlyLines(conns, Read)
           /\ \A q \in DOMAIN conns : Read[q].lines = <<>>
<1>1. todo # <<>> /\ AllRead(conns, k) /\ Head(todo) = Receive(k) /\ conns[k].lines = <<line>>
  BY DEF Telling, Payload, LineEnd
<1>2. Call.conn = k /\ Line = line /\ Told(todo) = Tail(todo) /\ ReceiveStep
  BY <1>1, StepByCall DEF Call, Line, Receive, Told
<1>3. Read = WithLines(conns, k, <<>>)
  <2>1. Tail(conns[k].lines) = <<>>
    BY <1>1
  <2>2. Read = [conns EXCEPT ![k].lines = Tail(conns[k].lines)]
    BY <1>2 DEF Read
  <2> QED  BY <2>1, <2>2 DEF WithLines
<1>4. /\ Read \in Seq(ConnRecord) /\ OnlyLines(conns, Read)
      /\ Read[k].lines = <<>> /\ \A q \in DOMAIN conns : q # k => Read[q].lines = conns[q].lines
  <2> DEFINE lines == <<>>
  <2>1. lines \in Seq(Message) /\ Read = WithLines(conns, k, lines)
    BY <1>3
  <2> HIDE DEF lines
  <2>2. /\ Read \in Seq(ConnRecord) /\ OnlyLines(conns, Read) /\ Read[k].lines = lines
        /\ \A q \in DOMAIN conns : q # k => Read[q].lines = conns[q].lines
    BY <2>1, NewLines
  <2> QED  BY <2>2 DEF lines
<1>5. \A q \in DOMAIN conns : Read[q].lines = <<>>
  BY <1>1, <1>4 DEF AllRead, OnlyLines
<1> QED  BY <1>1, <1>2, <1>4, <1>5

Sound ==
    /\ Typed /\ Base(nodes, conns, contact, shutDown)
    /\ Stage(nodes, conns, contact, todo)

\* PlugNodes are like themselves.
LEMMA SameAll ==
    ASSUME NEW ns
    PROVE  SameNodes(ns, ns)
BY DEF SameNodes

\* What the ends of a link in the making are.
LEMMA MakingEnds ==
    ASSUME NEW ns, NEW cs, NEW c, NEW x, NEW k, NEW b, NEW p, NEW sk, NEW sp, NEW more,
           Owned(ns, cs), Making(ns, cs, c, x, k, b, p, sk, sp, more)
    PROVE  /\ k # p /\ k \in DOMAIN cs /\ p \in DOMAIN cs /\ Lives(ns, x) /\ Lives(ns, b)
           /\ \A n : Owns(ns, n, k) => n = x
           /\ \A n : Owns(ns, n, p) => n = b
<1>1. x # b /\ Owns(ns, x, k) /\ Owns(ns, b, p)
  BY DEF Making
<1>2. \A n : Owns(ns, n, k) => n = x
  BY <1>1, OwnedOnce
<1>3. \A n : Owns(ns, n, p) => n = b
  BY <1>1, OwnedOnce
<1>4. k \in DOMAIN cs /\ Lives(ns, x)
  BY <1>1, OwnedOnce
<1>5. p \in DOMAIN cs /\ Lives(ns, b)
  BY <1>1, OwnedOnce
<1> QED  BY <1>1, <1>2, <1>3, <1>4, <1>5

\* A link in the making stays one when the states of its ends go on.
LEMMA MakingChange ==
    ASSUME NEW ns, NEW ms, NEW cs, NEW ds, NEW c, NEW x, NEW k, NEW b, NEW p,
           NEW sk, NEW sp, NEW more, NEW sk2, NEW sp2, NEW more2,
           Owned(ns, cs), Making(ns, cs, c, x, k, b, p, sk, sp, more),
           SameNodes(ns, ms), SameConns(cs, ds, {k, p}),
           End(ds, x, k, b, p), End(ds, b, p, x, k), ds[k].state = sk2, ds[p].state = sp2,
           Counted(ms, ds, more2, Null)
    PROVE  Making(ms, ds, c, x, k, b, p, sk2, sp2, more2)
<1>1. /\ x # b /\ Owns(ns, x, k) /\ Owns(ns, b, p)
      /\ End(cs, x, k, b, p) /\ End(cs, b, p, x, k)
      /\ Settled(ns, cs, {k, p}, Null) /\ Star(ns, cs, c, {})
  BY DEF Making
<1>2. Owns(ms, x, k) /\ Owns(ms, b, p)
  BY <1>1, HasSame
<1>3. Settled(ms, ds, {k, p}, Null)
  BY <1>1, SettledKept
<1>4. Star(ms, ds, c, {})
  <2>1. ASSUME NEW n, NEW i, NEW q, Has(ns, n, i, q), cs[q].peer = c  PROVE ds[q].peer = c
    <3>1. q \in DOMAIN cs
      BY <2>1, OwnedFacts
    <3>2. ds[k].peer = cs[k].peer /\ ds[p].peer = cs[p].peer
      BY <1>1 DEF End
    <3>3. q \notin {k, p} => ds[q].peer = cs[q].peer
      BY <3>1 DEF SameConns, Same
    <3> QED  BY <2>1, <3>2, <3>3
  <2> QED  BY <1>1, <2>1, StarKept
<1> QED  BY <1>1, <1>2, <1>3, <1>4 DEF Making

\* The calls behind the making of a link keep their links.
LEMMA BehindKept ==
    ASSUME NEW ns, NEW ms, NEW cs, NEW ds, NEW x, NEW k, NEW b, NEW p, NEW td,
           Behind(ns, cs, x, k, b, p, td), SameNodes(ns, ms), SameConns(cs, ds, {k, p})
    PROVE  Behind(ms, ds, x, k, b, p, td)
<1>1. CASE Contacts(ns, cs, {k, p}, b, td)
  <2>1. Contacts(ms, ds, {k, p}, b, td)
    BY <1>1, ContactsKept
  <2> QED  BY <2>1 DEF Behind
<1>2. CASE td # <<>> /\ Head(td) = SendContact(x, k) /\ Contacts(ns, cs, {k, p}, b, Tail(td))
  <2>1. Contacts(ms, ds, {k, p}, b, Tail(td))
    BY <1>2, ContactsKept
  <2> QED  BY <1>2, <2>1 DEF Behind
<1> QED  BY <1>1, <1>2 DEF Behind

\* One end of the link sends its command.
LEMMA MakingSend ==
    ASSUME Typed, Base(nodes, conns, contact, shutDown), Step,
           NEW x, NEW k, NEW b, NEW p, NEW sk, NEW sp, NEW more, NEW sk2, NEW sp2, NEW more2,
           NEW q \in {k, p}, NEW command \in {"CHECKIN", "CONNECT", "CONFIRM"},
           Sending(conns, todo, q, command),
           Making(nodes, conns, contact, x, k, b, p, sk, sp, more),
           sk2 = (IF q = k THEN command ELSE sk), sp2 = (IF q = p THEN command ELSE sp),
           more2 = (IF command = "CONFIRM" THEN Null ELSE more),
           command = "CONFIRM" => more = b /\ q = p,
           sk # "CONFIRM", sp # "CONFIRM"
    PROVE  /\ Typed' /\ Base(nodes', conns', contact', shutDown')
           /\ UNCHANGED <<nodes, contact>>
           /\ Telling(conns', todo', q, Plain(command)) /\ Told(todo') = Tail(todo)
           /\ SameConns(conns, conns', {k, p})
           /\ Making(nodes', conns', contact', x, k, b, p, sk2, sp2, more2)
<1>0. Owned(nodes, conns) /\ Null \notin DOMAIN nodes
  BY Objects DEF Base
<1>1. /\ k # p /\ k \in DOMAIN conns /\ p \in DOMAIN conns /\ Lives(nodes, x) /\ Lives(nodes, b)
      /\ \A n : Owns(nodes, n, k) => n = x
      /\ \A n : Owns(nodes, n, p) => n = b
  BY <1>0, MakingEnds
<1>2. /\ x # b /\ Owns(nodes, x, k) /\ Owns(nodes, b, p)
      /\ End(conns, x, k, b, p) /\ End(conns, b, p, x, k)
      /\ conns[k].state = sk /\ conns[p].state = sp
      /\ Settled(nodes, conns, {k, p}, Null) /\ Star(nodes, conns, contact, {})
      /\ Counted(nodes, conns, more, Null)
  BY DEF Making
<1>3. /\ todo # <<>> /\ Head(todo) = Send(q, command, Null) /\ AllRead(conns, Null)
  BY DEF Sending
<1>4. SendCommand
  BY <1>3, StepByCall DEF Send
<1>5. /\ q \in DOMAIN conns /\ command \in Command \ {"SWITCH"} /\ command # "DISCONNECT"
  BY <1>1 DEF Command
<1>6. /\ Typed' /\ UNCHANGED <<nodes, contact, shutDown>>
      /\ Telling(conns', todo', q, Plain(command)) /\ Told(todo') = Tail(todo)
      /\ DOMAIN conns' = DOMAIN conns /\ \A r \in DOMAIN conns : r # q => conns'[r] = conns[r]
      /\ conns'[q].isAlive = conns[q].isAlive /\ conns'[q].connectionID = conns[q].connectionID
      /\ conns'[q].receiver = conns[q].receiver /\ conns'[q].rxInfo = conns[q].rxInfo
      /\ conns'[q].registered = conns[q].registered
      /\ conns'[q].state = command /\ conns'[q].peer = conns[q].peer
  <2> DEFINE line == [command |-> command, address |-> IF Null = Null THEN Null ELSE conns[Null].peer]
  <2>1. line = Plain(command)
    BY DEF Plain
  <2>2. PICK l : l = line
    OBVIOUS
  <2> HIDE DEF line
  <2>3. l = [command |-> command, address |-> IF Null = Null THEN Null ELSE conns[Null].peer]
    BY <2>2 DEF line
  <2>4. /\ Typed' /\ UNCHANGED <<nodes, contact, shutDown>>
        /\ Telling(conns', todo', q, l) /\ Told(todo') = Tail(todo)
        /\ DOMAIN conns' = DOMAIN conns /\ \A r \in DOMAIN conns : r # q => conns'[r] = conns[r]
        /\ conns'[q].isAlive = conns[q].isAlive /\ conns'[q].connectionID = conns[q].connectionID
        /\ conns'[q].receiver = conns[q].receiver /\ conns'[q].rxInfo = conns[q].rxInfo
        /\ conns'[q].registered = conns[q].registered
        /\ conns'[q].state = (IF command \in {"CHECKIN", "CONNECT", "CONFIRM"}
                                  THEN command ELSE conns[q].state)
        /\ conns'[q].peer = IF command = "DISCONNECT" THEN Null ELSE conns[q].peer
    BY <1>3, <1>4, <1>5, <2>3, SendEffect
  <2>5. l = Plain(command)
    BY <2>1, <2>2
  <2>6. conns'[q].state = command /\ conns'[q].peer = conns[q].peer
    BY <1>5, <2>4
  <2> QED  BY <2>4, <2>5, <2>6
<1>7. SameNodes(nodes, nodes')
  BY <1>6, SameAll
<1>8. SameConns(conns, conns', {k, p})
  BY <1>6 DEF SameConns, Same
<1>9. Base(nodes', conns', contact', shutDown')
  <2>1. Base(nodes', conns', contact, shutDown)
    BY <1>7, <1>8, BaseKept
  <2> QED  BY <1>6, <2>1
<1>10. End(conns', x, k, b, p) /\ End(conns', b, p, x, k)
  BY <1>1, <1>2, <1>6 DEF End, Listens
<1>11. conns'[k].state = sk2 /\ conns'[p].state = sp2
  BY <1>1, <1>2, <1>6
<1>12. Counted(nodes', conns', more2, Null)
  <2>1. CASE command # "CONFIRM"
    <3>1. \A n \in DOMAIN nodes : nodes'[n].peers = nodes[n].peers /\ LikeConfirmed(nodes, conns, conns', n, Null)
      <4>1. \A n, i, r : Has(nodes, n, i, r) => r \in DOMAIN conns
        BY <1>0, OwnedFacts
      <4>2. \A r \in DOMAIN conns : conns'[r].state = "CONFIRM" <=> conns[r].state = "CONFIRM"
        BY <1>2, <1>6, <2>1
      <4> QED  BY <1>6, <4>1, <4>2 DEF LikeConfirmed
    <3> QED  BY <1>2, <1>7, <2>1, <3>1, CountedKept
  <2>2. CASE command = "CONFIRM"
    <3>1. more = b /\ q = p /\ more2 = Null /\ b # Null /\ b \in DOMAIN nodes
      BY <1>0, <1>1, <2>2 DEF Lives
    <3>2. \A n : LikeConfirmed(nodes, conns, conns', n, p)
      <4>1. \A n, i, r : Has(nodes, n, i, r) => r \in DOMAIN conns
        BY <1>0, OwnedFacts
      <4> QED  BY <1>6, <3>1, <4>1 DEF LikeConfirmed
    <3>3. Elsewhere(nodes, nodes', conns, conns', b, p)
      BY <1>1, <1>6, <3>2 DEF Elsewhere
    <3>4. Cardinality(ConfirmedOf(nodes', conns', b)) = Cardinality(ConfirmedOf(nodes, conns, b)) + 1
      <4>1. conns[p].state # "CONFIRM" /\ conns'[p].state = "CONFIRM"
        BY <1>1, <1>2, <1>6, <2>2, <3>1
      <4>2. Owns(nodes, b, p) /\ LikeConfirmed(nodes, conns, conns', b, p)
        BY <1>2, <3>2
      <4> QED  BY <1>7, <4>1, <4>2, ConfirmedMore
    <3>5. nodes[b].peers + 0 = Cardinality(ConfirmedOf(nodes, conns, b)) + 1
      BY <1>1, <1>2, <3>1 DEF Counted, Lives
    <3>6. nodes'[b].peers + (IF b = Null THEN 1 ELSE 0)
                = Cardinality(ConfirmedOf(nodes', conns', b)) + (IF b = more2 THEN 1 ELSE 0)
      <4>1. nodes[b].peers \in Nat
        BY <3>1, Objects DEF NodeRecord
      <4>2. Cardinality(ConfirmedOf(nodes, conns, b)) \in Nat
        BY ConfirmedRoom
      <4> QED  BY <1>6, <3>1, <3>4, <3>5, <4>1, <4>2
    <3> QED  BY <1>0, <1>2, <1>7, <3>1, <3>3, <3>6, CountedChange
  <2> QED  BY <2>1, <2>2
<1>13. Making(nodes', conns', contact, x, k, b, p, sk2, sp2, more2)
  BY <1>0, <1>7, <1>8, <1>10, <1>11, <1>12, MakingChange
<1> QED  BY <1>6, <1>8, <1>9, <1>13

\* A PlugNode with another count of peers.
Count == 0 .. 4
WithPeers(ns, w, v) == [ns EXCEPT ![w].peers = v]

\* Another number of peers at one PlugNode.
LEMMA NewPeers ==
    ASSUME Typed, NEW w \in DOMAIN nodes, NEW v \in Count, NEW ms, ms = WithPeers(nodes, w, v)
    PROVE  /\ ms \in Seq(NodeRecord) /\ SameNodes(nodes, ms) /\ ms[w].peers = v
           /\ \A n \in DOMAIN nodes : n # w => ms[n].peers = nodes[n].peers
<1>0. /\ \A n \in DOMAIN nodes : n \in Nat /\ nodes[n] \in NodeRecord
      /\ DOMAIN nodes = 1 .. Len(nodes)
  BY Objects
<1> DEFINE r == [nodes[w] EXCEPT !.peers = v]
<1>1. r \in NodeRecord
  BY <1>0 DEF NodeRecord, Count
<1>2. /\ r.isAlive = nodes[w].isAlive /\ r.connection = nodes[w].connection
      /\ r.connectionSwitch = nodes[w].connectionSwitch /\ r.peers = v
  BY <1>0 DEF NodeRecord
<1>3. ms = [nodes EXCEPT ![w] = r]
  BY DEF WithPeers
<1> HIDE DEF r
<1>4. /\ ms \in Seq(NodeRecord) /\ DOMAIN ms = DOMAIN nodes
      /\ \A n \in DOMAIN nodes : ms[n] = IF n = w THEN r ELSE nodes[n]
  <2>1. w \in 1 .. Len(nodes) /\ nodes \in Seq(NodeRecord)
    BY <1>0 DEF Typed
  <2> HIDE DEF Typed
  <2>2. /\ [nodes EXCEPT ![w] = r] \in Seq(NodeRecord)
        /\ Len([nodes EXCEPT ![w] = r]) = Len(nodes)
        /\ \A j \in 1 .. Len(nodes) : [nodes EXCEPT ![w] = r][j] = IF j = w THEN r ELSE nodes[j]
    BY <1>1, <2>1, ExceptSeq
  <2> QED  BY <1>0, <1>3, <2>2
<1> QED  BY <1>2, <1>4 DEF SameNodes

\* Another record of one connection.
WithConn(cs, k, r) == [cs EXCEPT ![k] = r]

\* Another record of one connection.
LEMMA NewConn ==
    ASSUME NEW cs \in Seq(ConnRecord), NEW k \in DOMAIN cs, NEW r \in ConnRecord, NEW ds,
           ds = WithConn(cs, k, r)
    PROVE  /\ ds \in Seq(ConnRecord) /\ DOMAIN ds = DOMAIN cs
           /\ \A q \in DOMAIN cs : ds[q] = IF q = k THEN r ELSE cs[q]
<1>1. k \in 1 .. Len(cs) /\ DOMAIN cs = 1 .. Len(cs)
  BY LenProperties
<1>2. /\ [cs EXCEPT ![k] = r] \in Seq(ConnRecord)
      /\ Len([cs EXCEPT ![k] = r]) = Len(cs)
      /\ \A j \in 1 .. Len(cs) : [cs EXCEPT ![k] = r][j] = IF j = k THEN r ELSE cs[j]
  BY <1>1, ExceptSeq
<1>3. ds = [cs EXCEPT ![k] = r]
  BY DEF WithConn
<1>4. DOMAIN ds = DOMAIN cs
  BY <1>1, <1>2, <1>3, LenProperties
<1> QED  BY <1>1, <1>2, <1>3, <1>4

\* Only lines have changed: all connections are the same.
LEMMA OnlyLinesSame ==
    ASSUME NEW cs, NEW ds, OnlyLines(cs, ds), NEW busy
    PROVE  SameConns(cs, ds, busy)
BY DEF OnlyLines, SameConns, Same

\* A count is one more if there is room for it.
LEMMA IncrementEffect ==
    ASSUME Typed, NEW w \in DOMAIN nodes, Receiver = w, IncrementPeers, nodes[w].peers <= 3
    PROVE  /\ nodes' \in Seq(NodeRecord) /\ SameNodes(nodes, nodes')
           /\ nodes'[w].peers = nodes[w].peers + 1
           /\ \A n \in DOMAIN nodes : n # w => nodes'[n].peers = nodes[n].peers
<1>1. nodes[w].peers \in 0 .. 4
  BY Objects DEF NodeRecord
<1>2. PICK u : u = IF nodes[w].peers = 4 THEN 4 ELSE nodes[w].peers + 1
  OBVIOUS
<1>3. u \in 0 .. 4 /\ u = nodes[w].peers + 1
  BY <1>1, <1>2
<1>4. nodes' = [nodes EXCEPT ![w].peers = u]
  BY <1>2 DEF IncrementPeers
<1>5. nodes' = WithPeers(nodes, w, u)
  BY <1>4 DEF WithPeers
<1>6. /\ nodes' \in Seq(NodeRecord) /\ SameNodes(nodes, nodes') /\ nodes'[w].peers = u
      /\ \A n \in DOMAIN nodes : n # w => nodes'[n].peers = nodes[n].peers
  <2>1. u \in Count
    BY <1>3 DEF Count
  <2> QED  BY <1>5, <2>1, NewPeers
<1> QED  BY <1>3, <1>6

\* The receiver counts one peer less, if it has counted one.
LEMMA DecrementEffect ==
    ASSUME Typed, NEW w \in DOMAIN nodes, Receiver = w, DecrementPeers, nodes[w].peers >= 1
    PROVE  /\ nodes' \in Seq(NodeRecord) /\ SameNodes(nodes, nodes')
           /\ nodes'[w].peers = nodes[w].peers - 1
           /\ \A n \in DOMAIN nodes : n # w => nodes'[n].peers = nodes[n].peers
<1>1. nodes[w].peers \in 0 .. 4
  BY Objects DEF NodeRecord
<1>2. PICK u : u = IF nodes[w].peers = 0 THEN 0 ELSE nodes[w].peers - 1
  OBVIOUS
<1>3. u \in 0 .. 4 /\ u = nodes[w].peers - 1
  BY <1>1, <1>2
<1>4. nodes' = [nodes EXCEPT ![w].peers = u]
  BY <1>2 DEF DecrementPeers
<1>5. nodes' = WithPeers(nodes, w, u)
  BY <1>4 DEF WithPeers
<1>6. /\ nodes' \in Seq(NodeRecord) /\ SameNodes(nodes, nodes') /\ nodes'[w].peers = u
      /\ \A n \in DOMAIN nodes : n # w => nodes'[n].peers = nodes[n].peers
  <2>1. u \in Count
    BY <1>3 DEF Count
  <2> QED  BY <1>5, <2>1, NewPeers
<1> QED  BY <1>3, <1>6

\* Concatenations of single calls.
LEMMA TwoCalls ==
    ASSUME NEW a, NEW b
    PROVE  <<a>> \o <<b>> = <<a, b>> /\ <<a>> \o <<>> = <<a>>
<1> DEFINE s == <<a>>
           t == <<b>>
           u == <<a, b>>
           S == {a, b}
<1>1. /\ s \in Seq(S) /\ t \in Seq(S) /\ u \in Seq(S)
      /\ Len(s) = 1 /\ Len(t) = 1 /\ Len(u) = 2 /\ s[1] = a /\ t[1] = b /\ u[1] = a /\ u[2] = b
  OBVIOUS
<1> HIDE DEF s, t, u, S
<1>2. /\ s \o t \in Seq(S) /\ Len(s \o t) = Len(s) + Len(t)
      /\ \A i \in 1 .. Len(s) + Len(t) : (s \o t)[i] = IF i <= Len(s) THEN s[i] ELSE t[i - Len(s)]
  BY <1>1, ConcatProperties
<1>3. \A i \in 1 .. 2 : (s \o t)[i] = u[i]
  BY <1>1, <1>2
<1>4. s \o t = u
  BY <1>1, <1>2, <1>3, SeqEqual
<1>5. s \o <<>> = s
  BY <1>1, ConcatEmptySeq
<1> QED  BY <1>4, <1>5 DEF s, t, u

\* CHECKIN is answered by CONNECT, with a CONTACT behind it from two peers on.
LEMMA CheckinReceived ==
    ASSUME Sound, Step, Head(todo).call = "receive",
           NEW x \in DOMAIN nodes, NEW b \in DOMAIN nodes, NEW k \in DOMAIN conns, NEW p \in DOMAIN conns,
           CheckinTold(nodes, conns, contact, todo, x, k, b, p)
    PROVE  Sound'
<1>0. Typed /\ Base(nodes, conns, contact, shutDown)
  BY DEF Sound
<1>1. /\ Telling(conns, todo, p, Plain("CHECKIN")) /\ Contacts(nodes, conns, {k, p}, b, Told(todo))
      /\ Making(nodes, conns, contact, x, k, b, p, "IDLE", "CHECKIN", Null)
  BY DEF CheckinTold
<1>2. Plain("CHECKIN") \in Message
  BY DEF Plain, Message, Command, Null
<1>3. /\ todo # <<>> /\ Call.conn = p /\ Line = Plain("CHECKIN") /\ Told(todo) = Tail(todo) /\ ReceiveStep
      /\ Read \in Seq(ConnRecord) /\ OnlyLines(conns, Read)
      /\ \A q \in DOMAIN conns : Read[q].lines = <<>>
  BY <1>0, <1>1, <1>2, ReadEffect
<1>4. Line.command = "CHECKIN" /\ ReceiveCheckin
  BY <1>3, ReceiveByCommand DEF Plain
<1>5. Receiver = x /\ Own = k
  BY <1>1, <1>3 DEF Making, End, Listens, Receiver, Own
<1>6. /\ conns' = Read /\ UNCHANGED <<nodes, contact, localContactID, shutDown>>
      /\ Then(<<Send(k, "CONNECT", Null)>> \o IF Peers >= 2 THEN <<SendContact(x, k)>> ELSE <<>>)
  <2> HIDE DEF Receiver, Own, Peers, Read
  <2> QED  BY <1>4, <1>5 DEF ReceiveCheckin
<1>7. SameNodes(nodes, nodes') /\ SameConns(conns, conns', {k, p}) /\ SameConns(conns, conns', {})
  BY <1>3, <1>6, SameAll, OnlyLinesSame
<1>8. Base(nodes', conns', contact', shutDown')
  <2>1. Base(nodes', conns', contact, shutDown)
    BY <1>0, <1>7, BaseKept
  <2> QED  BY <1>6, <2>1
<1>9. Making(nodes', conns', contact', x, k, b, p, "IDLE", "CHECKIN", Null)
  <2>1. /\ End(conns, x, k, b, p) /\ End(conns, b, p, x, k)
        /\ conns[k].state = "IDLE" /\ conns[p].state = "CHECKIN" /\ Counted(nodes, conns, Null, Null)
    BY <1>1 DEF Making
  <2>2. Owned(nodes, conns)
    BY <1>0 DEF Base
  <2>3. Same(conns, conns', k) /\ Same(conns, conns', p)
    BY <1>7 DEF SameConns
  <2>4. End(conns', x, k, b, p) /\ End(conns', b, p, x, k)
        /\ conns'[k].state = "IDLE" /\ conns'[p].state = "CHECKIN"
    BY <2>1, <2>3 DEF Same, End, Listens
  <2>5. Counted(nodes', conns', Null, Null)
    <3>1. \A n \in DOMAIN nodes : nodes'[n].peers = nodes[n].peers /\ LikeConfirmed(nodes, conns, conns', n, Null)
      <4>1. \A n, i, r : Has(nodes, n, i, r) => r \in DOMAIN conns
        BY <2>2, OwnedFacts
      <4> QED  BY <1>6, <1>7, <4>1 DEF LikeConfirmed, SameConns, Same
    <3> QED  BY <1>7, <2>1, <3>1, CountedKept
  <2>6. Making(nodes', conns', contact, x, k, b, p, "IDLE", "CHECKIN", Null)
    BY <1>1, <1>7, <2>2, <2>4, <2>5, MakingChange
  <2> QED  BY <1>6, <2>6
<1>10. x \in Nat /\ k \in Nat
  BY <1>0, Objects
<1>11. Send(k, "CONNECT", Null) \in CallRecord /\ SendContact(x, k) \in CallRecord
  BY <1>10, CallTypes DEF Command, Null
<1>12. Contacts(nodes', conns', {k, p}, b, Tail(todo))
  BY <1>1, <1>3, <1>7, ContactsKept
<1>13. /\ todo' \in Seq(CallRecord) /\ todo' # <<>> /\ Head(todo') = Send(k, "CONNECT", Null)
       /\ Behind(nodes', conns', x, k, b, p, Tail(todo'))
  <2>1. CASE Peers >= 2
    <3>1. Then(<<Send(k, "CONNECT", Null), SendContact(x, k)>>)
      <4>1. <<Send(k, "CONNECT", Null)>> \o <<SendContact(x, k)>> = <<Send(k, "CONNECT", Null), SendContact(x, k)>>
        BY TwoCalls
      <4> QED  BY <1>6, <2>1, <4>1
    <3>2. /\ todo' \in Seq(CallRecord) /\ todo' # <<>> /\ Head(todo') = Send(k, "CONNECT", Null)
          /\ Tail(todo') # <<>> /\ Head(Tail(todo')) = SendContact(x, k) /\ Tail(Tail(todo')) = Tail(todo)
      BY <1>0, <1>3, <1>11, <3>1, ThenTwo
    <3> QED  BY <1>12, <3>2 DEF Behind
  <2>2. CASE ~(Peers >= 2)
    <3>1. Then(<<Send(k, "CONNECT", Null)>>)
      <4>1. <<Send(k, "CONNECT", Null)>> \o <<>> = <<Send(k, "CONNECT", Null)>>
        BY TwoCalls
      <4> QED  BY <1>6, <2>2, <4>1
    <3>2. /\ todo' \in Seq(CallRecord) /\ todo' # <<>> /\ Head(todo') = Send(k, "CONNECT", Null)
          /\ Tail(todo') = Tail(todo)
      BY <1>0, <1>3, <1>11, <3>1, ThenOne
    <3> QED  BY <1>12, <3>2 DEF Behind
  <2> QED  BY <2>1, <2>2
<1>14. AllRead(conns', Null)
  BY <1>3, <1>6, <1>7 DEF AllRead, SameConns
<1>15. Connect(nodes', conns', contact', todo', x, k, b, p)
  BY <1>9, <1>13, <1>14 DEF Connect, Sending
<1>16. Stage(nodes', conns', contact', todo')
  <2>1. DOMAIN nodes' = DOMAIN nodes /\ DOMAIN conns' = DOMAIN conns
    BY <1>7 DEF SameNodes, SameConns
  <2> QED  BY <1>15, <2>1 DEF Stage, LinkStage
<1>17. Typed'
  BY <1>0, <1>3, <1>6, <1>13 DEF Typed
<1> QED  BY <1>8, <1>16, <1>17 DEF Sound

\* What a PlugNode with an unconfirmed connection counts.
LEMMA CountRoom ==
    ASSUME Typed, Counted(nodes, conns, Null, Null), NEW n, Lives(nodes, n), NEW k,
           Owns(nodes, n, k), conns[k].state # "CONFIRM"
    PROVE  /\ nodes[n].peers = Cardinality(ConfirmedOf(nodes, conns, n))
           /\ nodes[n].peers \in Nat /\ nodes[n].peers <= 3
<1>1. n \in DOMAIN nodes /\ n # Null /\ nodes[n].isAlive
  BY Objects DEF Lives
<1>2. nodes[n].peers + 0 = Cardinality(ConfirmedOf(nodes, conns, n)) + 0
  BY <1>1 DEF Counted
<1>3. nodes[n].peers \in Nat
  BY <1>1, Objects DEF NodeRecord
<1>4. Cardinality(ConfirmedOf(nodes, conns, n)) \in Nat
  BY ConfirmedRoom
<1>5. PICK i : Has(nodes, n, i, k)
  BY DEF Owns
<1>6. Cardinality(ConfirmedOf(nodes, conns, n)) <= 3
  BY <1>5, ConfirmedRoom
<1> QED  BY <1>2, <1>3, <1>4, <1>6

\* CONNECT is answered by CONFIRM.
LEMMA ConnectReceived ==
    ASSUME Sound, Step, Head(todo).call = "receive",
           NEW x \in DOMAIN nodes, NEW b \in DOMAIN nodes, NEW k \in DOMAIN conns, NEW p \in DOMAIN conns,
           ConnectTold(nodes, conns, contact, todo, x, k, b, p)
    PROVE  Sound'
<1>0. Typed /\ Base(nodes, conns, contact, shutDown) /\ Owned(nodes, conns) /\ Null \notin DOMAIN nodes
  BY Objects DEF Sound, Base
<1>1. /\ Telling(conns, todo, k, Plain("CONNECT")) /\ Behind(nodes, conns, x, k, b, p, Told(todo))
      /\ Making(nodes, conns, contact, x, k, b, p, "CONNECT", "CHECKIN", Null)
  BY DEF ConnectTold
<1>2. Plain("CONNECT") \in Message
  BY DEF Plain, Message, Command, Null
<1>3. /\ todo # <<>> /\ Call.conn = k /\ Line = Plain("CONNECT") /\ Told(todo) = Tail(todo) /\ ReceiveStep
      /\ Read \in Seq(ConnRecord) /\ OnlyLines(conns, Read)
      /\ \A q \in DOMAIN conns : Read[q].lines = <<>>
  BY <1>0, <1>1, <1>2, ReadEffect
<1>4. Line.command = "CONNECT" /\ ReceiveConnect
  BY <1>3, ReceiveByCommand DEF Plain
<1>m. /\ End(conns, x, k, b, p) /\ End(conns, b, p, x, k) /\ x # b
      /\ Owns(nodes, x, k) /\ Owns(nodes, b, p)
      /\ conns[k].state = "CONNECT" /\ conns[p].state = "CHECKIN" /\ Counted(nodes, conns, Null, Null)
  BY <1>1 DEF Making
<1>5. Receiver = b /\ Own = p
  BY <1>m, <1>3 DEF End, Listens, Receiver, Own
<1>6. /\ conns' = Read /\ UNCHANGED <<contact, localContactID, shutDown>>
      /\ IncrementPeers /\ Then(<<Send(p, "CONFIRM", Null)>>)
  <2> HIDE DEF Receiver, Own, Read
  <2> QED  BY <1>4, <1>5 DEF ReceiveConnect
<1>7. SameConns(conns, conns', {k, p}) /\ SameConns(conns, conns', {})
  BY <1>3, <1>6, OnlyLinesSame
<1>e. Lives(nodes, b)
  BY <1>0, <1>1, MakingEnds
<1>p. /\ nodes[b].peers = Cardinality(ConfirmedOf(nodes, conns, b))
      /\ nodes[b].peers \in Nat /\ nodes[b].peers <= 3
  <2>1. conns[p].state # "CONFIRM"
    BY <1>m
  <2> QED  BY <1>0, <1>e, <1>m, <2>1, CountRoom
<1>n. /\ nodes' \in Seq(NodeRecord) /\ SameNodes(nodes, nodes')
      /\ nodes'[b].peers = nodes[b].peers + 1
      /\ \A n \in DOMAIN nodes : n # b => nodes'[n].peers = nodes[n].peers
  BY <1>0, <1>5, <1>6, <1>p, IncrementEffect
<1>8. Base(nodes', conns', contact', shutDown')
  <2>1. Base(nodes', conns', contact, shutDown)
    BY <1>0, <1>7, <1>n, BaseKept
  <2> QED  BY <1>6, <2>1
<1>9. Making(nodes', conns', contact', x, k, b, p, "CONNECT", "CHECKIN", b)
  <2>3. Same(conns, conns', k) /\ Same(conns, conns', p)
    BY <1>7 DEF SameConns
  <2>4. End(conns', x, k, b, p) /\ End(conns', b, p, x, k)
        /\ conns'[k].state = "CONNECT" /\ conns'[p].state = "CHECKIN"
    BY <1>m, <2>3 DEF Same, End, Listens
  <2>5. Counted(nodes', conns', b, Null)
    <3>1. \A n : LikeConfirmed(nodes, conns, conns', n, Null)
      <4>1. \A n, i, r : Has(nodes, n, i, r) => r \in DOMAIN conns
        BY <1>0, OwnedFacts
      <4> QED  BY <1>7, <4>1 DEF LikeConfirmed, SameConns, Same
    <3>2. \A n : ~Owns(nodes, n, Null)
      BY DEF Owns, Has
    <3>3. ConfirmedOf(nodes', conns', b) = ConfirmedOf(nodes, conns, b)
      <4>1. LikeConfirmed(nodes, conns, conns', b, Null) /\ ~Owns(nodes, b, Null)
        BY <3>1, <3>2
      <4> QED  BY <1>e, <1>n, <4>1, ConfirmedSame
    <3>4. b # Null
      BY <1>0
    <3>5. nodes'[b].peers + (IF b = Null THEN 1 ELSE 0)
                = Cardinality(ConfirmedOf(nodes', conns', b)) + (IF b = b THEN 1 ELSE 0)
      BY <1>n, <1>p, <3>3, <3>4
    <3>6. Elsewhere(nodes, nodes', conns, conns', b, Null)
      BY <1>n, <3>1, <3>2 DEF Elsewhere
    <3> QED  BY <1>0, <1>m, <1>n, <3>4, <3>5, <3>6, CountedChange
  <2>6. Making(nodes', conns', contact, x, k, b, p, "CONNECT", "CHECKIN", b)
    BY <1>0, <1>1, <1>7, <1>n, <2>4, <2>5, MakingChange
  <2> QED  BY <1>6, <2>6
<1>11. Send(p, "CONFIRM", Null) \in CallRecord
  <2>1. p \in Nat
    BY <1>0, Objects
  <2> QED  BY <2>1, CallTypes DEF Command, Null
<1>12. Behind(nodes', conns', x, k, b, p, Tail(todo))
  BY <1>1, <1>3, <1>7, <1>n, BehindKept
<1>13. /\ todo' \in Seq(CallRecord) /\ todo' # <<>> /\ Head(todo') = Send(p, "CONFIRM", Null)
       /\ Tail(todo') = Tail(todo)
  BY <1>0, <1>3, <1>6, <1>11, ThenOne
<1>14. AllRead(conns', Null)
  BY <1>3, <1>6, <1>7 DEF AllRead, SameConns
<1>15. Confirm(nodes', conns', contact', todo', x, k, b, p)
  BY <1>9, <1>12, <1>13, <1>14 DEF Confirm, Sending
<1>16. Stage(nodes', conns', contact', todo')
  <2>1. DOMAIN nodes' = DOMAIN nodes /\ DOMAIN conns' = DOMAIN conns
    BY <1>7, <1>n DEF SameNodes, SameConns
  <2> QED  BY <1>15, <2>1 DEF Stage, LinkStage
<1>17. Typed'
  BY <1>0, <1>3, <1>6, <1>n, <1>13 DEF Typed
<1> QED  BY <1>8, <1>16, <1>17 DEF Sound

\* The links of the calls that send a CONTACT are links without the condition on busy.
LEMMA ContactsFreed ==
    ASSUME NEW ns, NEW cs, NEW busy, NEW b, NEW td, Contacts(ns, cs, busy, b, td)
    PROVE  Contacts(ns, cs, {}, b, td)
<1> SUFFICES ASSUME NEW i \in DOMAIN td
             PROVE  IsContactCall(ns, cs, {}, b, td[i])
  BY DEF Contacts
<1>1. PICK x \in DOMAIN ns \ {b}, k \in DOMAIN cs \ busy, p \in DOMAIN cs \ busy :
        /\ td[i] = SendContact(x, k)
        /\ Link(cs, x, k, b, p) /\ Owns(ns, x, k) /\ Owns(ns, b, p)
  BY DEF Contacts, IsContactCall
<1> QED  BY <1>1 DEF IsContactCall

\* A link both ends of which are confirmed is settled.
LEMMA MadeLink ==
    ASSUME NEW ns, NEW cs, NEW c, NEW x, NEW k, NEW b, NEW p, Owned(ns, cs),
           Making(ns, cs, c, x, k, b, p, "CONFIRM", "CONFIRM", Null)
    PROVE  Linking(ns, cs, c, x, k, b, p)
<1>1. /\ x # b /\ Owns(ns, x, k) /\ Owns(ns, b, p)
      /\ End(cs, x, k, b, p) /\ End(cs, b, p, x, k)
      /\ cs[k].state = "CONFIRM" /\ cs[p].state = "CONFIRM"
      /\ Settled(ns, cs, {k, p}, Null) /\ Star(ns, cs, c, {}) /\ Counted(ns, cs, Null, Null)
  BY DEF Making
<1>2. /\ k # p /\ k \in DOMAIN cs /\ p \in DOMAIN cs /\ Lives(ns, x) /\ Lives(ns, b)
      /\ \A n : Owns(ns, n, k) => n = x
      /\ \A n : Owns(ns, n, p) => n = b
  BY MakingEnds
<1>3. Link(cs, x, k, b, p) /\ Link(cs, b, p, x, k)
  BY <1>1 DEF Link
<1>4. Settled(ns, cs, {}, Null)
  <2> SUFFICES ASSUME NEW n, NEW i, NEW q, Has(ns, n, i, q)
               PROVE  \/ Clean(cs[q])
                      \/ n = Null /\ cs[q].state = "DISCONNECT"
                      \/ \E m \in DOMAIN ns \ {n}, j \in DOMAIN cs \ {} :
                            Link(cs, n, q, m, j) /\ Owns(ns, m, j)
    BY DEF Settled
  <2>0. Owns(ns, n, q)
    BY DEF Owns, Has
  <2>1. CASE q = k
    <3>1. n = x /\ b \in DOMAIN ns \ {n} /\ p \in DOMAIN cs \ {}
      BY <1>1, <1>2, <2>0, <2>1 DEF Lives
    <3> QED  BY <1>1, <1>3, <2>1, <3>1
  <2>2. CASE q = p
    <3>1. n = b /\ x \in DOMAIN ns \ {n} /\ k \in DOMAIN cs \ {}
      BY <1>1, <1>2, <2>0, <2>2 DEF Lives
    <3> QED  BY <1>1, <1>3, <2>2, <3>1
  <2>3. CASE q \notin {k, p}
    <3> PICK busy : busy = {k, p}
      OBVIOUS
    <3>0. Settled(ns, cs, busy, Null) /\ q \notin busy
      BY <1>1, <2>3
    <3>1. \/ Clean(cs[q])
          \/ n = Null /\ cs[q].state = "DISCONNECT"
          \/ \E m \in DOMAIN ns \ {n}, j \in DOMAIN cs \ busy :
                  Link(cs, n, q, m, j) /\ Owns(ns, m, j)
      BY <3>0, SettledFacts
    <3> QED  BY <3>1
  <2> QED  BY <2>1, <2>2, <2>3
<1> QED  BY <1>1, <1>3, <1>4 DEF Linking, Calm

\* The link is confirmed at its second end: the arrival goes on with the others.
LEMMA ConfirmReceived ==
    ASSUME Sound, Step, Head(todo).call = "receive",
           NEW x \in DOMAIN nodes, NEW b \in DOMAIN nodes, NEW k \in DOMAIN conns, NEW p \in DOMAIN conns,
           ConfirmTold(nodes, conns, contact, todo, x, k, b, p)
    PROVE  Sound'
<1>0. Typed /\ Base(nodes, conns, contact, shutDown) /\ Owned(nodes, conns) /\ Null \notin DOMAIN nodes
  BY Objects DEF Sound, Base
<1>1. /\ Telling(conns, todo, p, Plain("CONFIRM")) /\ Behind(nodes, conns, x, k, b, p, Told(todo))
      /\ Making(nodes, conns, contact, x, k, b, p, "CONNECT", "CONFIRM", Null)
  BY DEF ConfirmTold
<1>2. Plain("CONFIRM") \in Message
  BY DEF Plain, Message, Command, Null
<1>3. /\ todo # <<>> /\ Call.conn = p /\ Line = Plain("CONFIRM") /\ Told(todo) = Tail(todo) /\ ReceiveStep
      /\ Read \in Seq(ConnRecord) /\ OnlyLines(conns, Read)
      /\ \A q \in DOMAIN conns : Read[q].lines = <<>>
  BY <1>0, <1>1, <1>2, ReadEffect
<1>4. Line.command = "CONFIRM" /\ ReceiveConfirm
  BY <1>3, ReceiveByCommand DEF Plain
<1>m. /\ End(conns, x, k, b, p) /\ End(conns, b, p, x, k) /\ x # b
      /\ Owns(nodes, x, k) /\ Owns(nodes, b, p)
      /\ conns[k].state = "CONNECT" /\ conns[p].state = "CONFIRM" /\ Counted(nodes, conns, Null, Null)
  BY <1>1 DEF Making
<1>5. Receiver = x /\ Own = k
  BY <1>m, <1>3 DEF End, Listens, Receiver, Own
<1>6. /\ conns' = [Read EXCEPT ![k].state = "CONFIRM"] /\ UNCHANGED <<contact, localContactID, shutDown>>
      /\ IncrementPeers /\ Then(<<>>)
  <2> HIDE DEF Receiver, Own, Read
  <2> QED  BY <1>4, <1>5 DEF ReceiveConfirm
<1>e. /\ k # p /\ Lives(nodes, x) /\ Lives(nodes, b)
      /\ \A n : Owns(nodes, n, k) => n = x
      /\ \A n : Owns(nodes, n, p) => n = b
  BY <1>0, <1>1, MakingEnds
<1>7. /\ conns' \in Seq(ConnRecord) /\ SameConns(conns, conns', {k, p})
      /\ \A q \in DOMAIN conns : conns'[q].lines = <<>>
      /\ \A q \in DOMAIN conns : q # k => Same(conns, conns', q)
      /\ conns'[k].state = "CONFIRM" /\ conns'[k].peer = conns[k].peer
      /\ conns'[k].rxInfo = conns[k].rxInfo /\ conns'[k].receiver = conns[k].receiver
      /\ conns'[k].registered = conns[k].registered
  <2> PICK cs : cs = Read
    OBVIOUS
  <2>1. /\ cs \in Seq(ConnRecord) /\ OnlyLines(conns, cs) /\ \A q \in DOMAIN conns : cs[q].lines = <<>>
        /\ conns' = [cs EXCEPT ![k].state = "CONFIRM"]
    BY <1>3, <1>6
  <2>2. k \in DOMAIN cs /\ cs[k] \in ConnRecord
    BY <2>1, ElementOfSeq, LenProperties DEF OnlyLines
  <2> DEFINE r == [cs[k] EXCEPT !.state = "CONFIRM"]
  <2>3. r \in ConnRecord
    BY <2>2 DEF ConnRecord, State
  <2>4. /\ r.isAlive = cs[k].isAlive /\ r.connectionID = cs[k].connectionID
        /\ r.state = "CONFIRM" /\ r.receiver = cs[k].receiver
        /\ r.rxInfo = cs[k].rxInfo /\ r.registered = cs[k].registered
        /\ r.peer = cs[k].peer /\ r.lines = cs[k].lines
    BY <2>2 DEF ConnRecord
  <2>5. conns' = WithConn(cs, k, r)
    BY <2>1 DEF WithConn
  <2> HIDE DEF r
  <2>6. /\ conns' \in Seq(ConnRecord) /\ DOMAIN conns' = DOMAIN cs
        /\ \A q \in DOMAIN cs : conns'[q] = IF q = k THEN r ELSE cs[q]
    <3>1. cs \in Seq(ConnRecord) /\ k \in DOMAIN cs
      BY <2>1, <2>2
    <3> QED  BY <2>3, <2>5, <3>1, NewConn
  <2> QED  BY <2>1, <2>2, <2>4, <2>6 DEF OnlyLines, SameConns, Same
<1>p. /\ nodes[x].peers = Cardinality(ConfirmedOf(nodes, conns, x))
      /\ nodes[x].peers \in Nat /\ nodes[x].peers <= 3
  <2>1. conns[k].state # "CONFIRM"
    BY <1>m
  <2> QED  BY <1>0, <1>e, <1>m, <2>1, CountRoom
<1>n. /\ nodes' \in Seq(NodeRecord) /\ SameNodes(nodes, nodes')
      /\ nodes'[x].peers = nodes[x].peers + 1
      /\ \A n \in DOMAIN nodes : n # x => nodes'[n].peers = nodes[n].peers
  BY <1>0, <1>5, <1>6, <1>p, IncrementEffect
<1>8. Base(nodes', conns', contact', shutDown')
  <2>1. Base(nodes', conns', contact, shutDown)
    BY <1>0, <1>7, <1>n, BaseKept
  <2> QED  BY <1>6, <2>1
<1>9. Linking(nodes', conns', contact', x, k, b, p)
  <2>4. End(conns', x, k, b, p) /\ End(conns', b, p, x, k)
        /\ conns'[k].state = "CONFIRM" /\ conns'[p].state = "CONFIRM"
    <3>1. Same(conns, conns', p)
      BY <1>7, <1>e
    <3> QED  BY <1>m, <1>7, <3>1 DEF Same, End, Listens
  <2>5. Counted(nodes', conns', Null, Null)
    <3>1. \A n : LikeConfirmed(nodes, conns, conns', n, k)
      <4>1. \A n, i, r : Has(nodes, n, i, r) => r \in DOMAIN conns
        BY <1>0, OwnedFacts
      <4> QED  BY <1>7, <4>1 DEF LikeConfirmed, Same
    <3>2. Elsewhere(nodes, nodes', conns, conns', x, k)
      BY <1>e, <1>n, <3>1 DEF Elsewhere
    <3>3. Cardinality(ConfirmedOf(nodes', conns', x)) = Cardinality(ConfirmedOf(nodes, conns, x)) + 1
      <4>1. LikeConfirmed(nodes, conns, conns', x, k) /\ conns[k].state # "CONFIRM"
        BY <1>m, <3>1
      <4> QED  BY <1>m, <1>7, <1>n, <4>1, ConfirmedMore
    <3>4. x # Null
      BY <1>0
    <3>5. nodes'[x].peers + (IF x = Null THEN 1 ELSE 0)
                = Cardinality(ConfirmedOf(nodes', conns', x)) + (IF x = Null THEN 1 ELSE 0)
      BY <1>n, <1>p, <3>3, <3>4
    <3> QED  BY <1>0, <1>m, <1>n, <3>2, <3>4, <3>5, CountedChange
  <2>6. Making(nodes', conns', contact, x, k, b, p, "CONFIRM", "CONFIRM", Null)
    BY <1>0, <1>1, <1>7, <1>n, <2>4, <2>5, MakingChange
  <2>7. Owned(nodes', conns')
    BY <1>8 DEF Base
  <2>8. Linking(nodes', conns', contact, x, k, b, p)
    BY <2>6, <2>7, MadeLink
  <2> QED  BY <1>6, <2>8
<1>10. DOMAIN nodes' = DOMAIN nodes /\ DOMAIN conns' = DOMAIN conns
  BY <1>7, <1>n DEF SameNodes, SameConns
<1>12. Behind(nodes', conns', x, k, b, p, Tail(todo))
  BY <1>1, <1>3, <1>7, <1>n, BehindKept
<1>13. todo' \in Seq(CallRecord) /\ todo' = Tail(todo)
  BY <1>0, <1>3, <1>6, ThenNone
<1>c. Contacts(nodes', conns', {}, b, todo')
  <2>0. Behind(nodes', conns', x, k, b, p, todo')
    BY <1>12, <1>13
  <2>1. CASE Contacts(nodes', conns', {k, p}, b, todo')
    BY <2>1, ContactsFreed
  <2>2. CASE todo' # <<>> /\ Head(todo') = SendContact(x, k) /\ Contacts(nodes', conns', {k, p}, b, Tail(todo'))
    <3>1. Contacts(nodes', conns', {}, b, Tail(todo'))
      BY <2>2, ContactsFreed
    <3>2. Link(conns', x, k, b, p) /\ Owns(nodes', x, k) /\ Owns(nodes', b, p)
      BY <1>9 DEF Linking
    <3>3. x \in DOMAIN nodes' \ {b} /\ k \in DOMAIN conns' \ {} /\ p \in DOMAIN conns' \ {}
      BY <1>m, <1>10
    <3>4. IsContactCall(nodes', conns', {}, b, Head(todo'))
      BY <2>2, <3>2, <3>3 DEF IsContactCall
    <3> QED  BY <1>13, <2>2, <3>1, <3>4, PushContact
  <2> QED  BY <2>0, <2>1, <2>2 DEF Behind
<1>14. AllRead(conns', Null)
  BY <1>7, <1>10 DEF AllRead
<1>15. AtRest(nodes', conns', contact', todo', b)
  <2>1. Lives(nodes', b)
    BY <1>e, <1>n, HasSame
  <2> QED  BY <1>9, <1>c, <1>14, <2>1 DEF AtRest, Linking
<1>16. Stage(nodes', conns', contact', todo')
  BY <1>10, <1>15 DEF Stage
<1>17. Typed'
  BY <1>0, <1>6, <1>7, <1>n, <1>13 DEF Typed
<1> QED  BY <1>8, <1>16, <1>17 DEF Sound

\* What changes no connection changes none outside of busy.
LEMMA SameConnsWiden ==
    ASSUME NEW cs, NEW ds, NEW busy, SameConns(cs, ds, {})
    PROVE  SameConns(cs, ds, busy)
BY DEF SameConns

\* Calm holds on when only lines and IDs change.
LEMMA CalmKept ==
    ASSUME NEW ns, NEW ms, NEW cs, NEW ds, NEW c, Owned(ns, cs), Calm(ns, cs, c),
           SameNodes(ns, ms), SameConns(cs, ds, {}),
           \A n \in DOMAIN ns : ms[n].peers = ns[n].peers
    PROVE  Calm(ms, ds, c)
<1>1. Settled(ns, cs, {}, Null) /\ Star(ns, cs, c, {}) /\ Counted(ns, cs, Null, Null)
  BY DEF Calm
<1>2. \A n, i, q : Has(ns, n, i, q) => q \in DOMAIN cs /\ Same(cs, ds, q)
  <2>1. \A n, i, q : Has(ns, n, i, q) => q \in DOMAIN cs
    BY OwnedFacts
  <2> QED  BY <2>1 DEF SameConns
<1>3. Settled(ms, ds, {}, Null)
  BY <1>1, SettledKept
<1>4. Star(ms, ds, c, {})
  <2>1. \A n, i, q : Has(ns, n, i, q) /\ n \notin {} /\ cs[q].peer = c => ds[q].peer = c
    BY <1>2 DEF Same
  <2> QED  BY <1>1, <2>1, StarKept
<1>5. Counted(ms, ds, Null, Null)
  <2>1. \A n \in DOMAIN ns : ms[n].peers = ns[n].peers /\ LikeConfirmed(ns, cs, ds, n, Null)
    BY <1>2 DEF LikeConfirmed, Same
  <2> QED  BY <1>1, <2>1, CountedKept
<1> QED  BY <1>3, <1>4, <1>5 DEF Calm

\* So does Linking.
LEMMA LinkingKept ==
    ASSUME NEW ns, NEW ms, NEW cs, NEW ds, NEW c, NEW x, NEW k, NEW b, NEW p,
           Owned(ns, cs), Linking(ns, cs, c, x, k, b, p),
           SameNodes(ns, ms), SameConns(cs, ds, {}),
           \A n \in DOMAIN ns : ms[n].peers = ns[n].peers
    PROVE  Linking(ms, ds, c, x, k, b, p)
<1>1. x # b /\ Link(cs, x, k, b, p) /\ Owns(ns, x, k) /\ Owns(ns, b, p) /\ Calm(ns, cs, c)
  BY DEF Linking
<1>2. Calm(ms, ds, c)
  BY <1>1, CalmKept
<1>3. Owns(ms, x, k) /\ Owns(ms, b, p)
  BY <1>1, HasSame
<1>4. Link(ds, x, k, b, p)
  <2>1. k \in DOMAIN cs
    BY <1>1, OwnedOnce
  <2>2. p \in DOMAIN cs
    BY <1>1, OwnedOnce
  <2> QED  BY <1>1, <2>1, <2>2, LinkKept
<1> QED  BY <1>1, <1>2, <1>3, <1>4 DEF Linking

\* Which addresses a PlugNode knows when everything is settled.
LEMMA PeerLives ==
    ASSUME Typed, NEW c, Calm(nodes, conns, c), NEW n, NEW k, Owns(nodes, n, k)
    PROVE  conns[k].peer = Null \/ Lives(nodes, conns[k].peer)
<1>1. PICK i : Has(nodes, n, i, k)
  BY DEF Owns
<1>2. n # Null
  BY <1>1, Objects DEF Has, Lives
<1>3. Settled(nodes, conns, {}, Null)
  BY DEF Calm
<1>4. \/ Clean(conns[k])
      \/ n = Null /\ conns[k].state = "DISCONNECT"
      \/ \E m \in DOMAIN nodes \ {n}, j \in DOMAIN conns \ {} :
            Link(conns, n, k, m, j) /\ Owns(nodes, m, j)
  <2> PICK busy : busy = {}
    OBVIOUS
  <2>1. Settled(nodes, conns, busy, Null) /\ k \notin busy
    BY <1>3
  <2>2. \/ Clean(conns[k])
        \/ n = Null /\ conns[k].state = "DISCONNECT"
        \/ \E m \in DOMAIN nodes \ {n}, j \in DOMAIN conns \ busy :
              Link(conns, n, k, m, j) /\ Owns(nodes, m, j)
    BY <1>1, <2>1, SettledFacts
  <2> QED  BY <2>2
<1>5. CASE Clean(conns[k])
  BY <1>5 DEF Clean
<1>6. ASSUME NEW m, NEW j, Link(conns, n, k, m, j), Owns(nodes, m, j)
      PROVE  Lives(nodes, conns[k].peer)
  BY <1>6 DEF Link, End, Owns, Has
<1> QED  BY <1>2, <1>4, <1>5, <1>6

\* CONTACT: it is sent.
LEMMA ContactSent ==
    ASSUME Sound, Step,
           NEW x \in DOMAIN nodes, NEW b \in DOMAIN nodes, NEW k \in DOMAIN conns, NEW p \in DOMAIN conns,
           Contact1(nodes, conns, contact, todo, x, k, b, p)
    PROVE  Sound'
<1>0. Typed /\ Base(nodes, conns, contact, shutDown) /\ Owned(nodes, conns) /\ Null \notin DOMAIN nodes
  BY Objects DEF Sound, Base
<1>1. /\ todo # <<>> /\ Contacts(nodes, conns, {}, b, Tail(todo)) /\ AllRead(conns, Null)
      /\ Linking(nodes, conns, contact, x, k, b, p)
  BY DEF Contact1
<1>2. PICK o \in {Null} \cup DOMAIN conns :
        Head(todo) = Send(k, "CONTACT", o) /\ (o # Null => Owns(nodes, x, o))
  BY DEF Contact1
<1>3. SendCommand
  BY <1>1, <1>2, StepByCall DEF Send
<1>4. PICK a : a = IF o = Null THEN Null ELSE conns[o].peer
  OBVIOUS
<1>5. a \in {Null} \cup DOMAIN nodes /\ (a # Null => nodes[a].isAlive)
  <2>1. CASE o = Null
    BY <1>4, <2>1
  <2>2. CASE o # Null
    <3>1. Owns(nodes, x, o) /\ Calm(nodes, conns, contact)
      BY <1>1, <1>2, <2>2 DEF Linking
    <3>2. conns[o].peer = Null \/ Lives(nodes, conns[o].peer)
      BY <1>0, <3>1, PeerLives
    <3> QED  BY <1>4, <2>2, <3>2 DEF Lives
  <2> QED  BY <2>1, <2>2
<1>6. /\ Typed' /\ UNCHANGED <<nodes, contact, shutDown>>
      /\ Telling(conns', todo', k, [command |-> "CONTACT", address |-> a]) /\ Told(todo') = Tail(todo)
      /\ SameConns(conns, conns', {})
  <2> PICK l : l = [command |-> "CONTACT", address |-> a]
    OBVIOUS
  <2>1. l = [command |-> "CONTACT", address |-> IF o = Null THEN Null ELSE conns[o].peer]
    BY <1>4
  <2> PICK command : command = "CONTACT"
    OBVIOUS
  <2>2. /\ command \in Command \ {"SWITCH"} /\ Head(todo) = Send(k, command, o)
        /\ l = [command |-> command, address |-> IF o = Null THEN Null ELSE conns[o].peer]
    BY <1>2, <2>1 DEF Command
  <2>3. /\ Typed' /\ UNCHANGED <<nodes, contact, shutDown>>
        /\ Telling(conns', todo', k, l) /\ Told(todo') = Tail(todo)
        /\ DOMAIN conns' = DOMAIN conns /\ (\A q \in DOMAIN conns : q # k => conns'[q] = conns[q])
        /\ conns'[k].isAlive = conns[k].isAlive /\ conns'[k].connectionID = conns[k].connectionID
        /\ conns'[k].receiver = conns[k].receiver /\ conns'[k].rxInfo = conns[k].rxInfo
        /\ conns'[k].registered = conns[k].registered
        /\ conns'[k].state = (IF command \in {"CHECKIN", "CONNECT", "CONFIRM"}
                                  THEN command ELSE conns[k].state)
        /\ conns'[k].peer = (IF command = "DISCONNECT" THEN Null ELSE conns[k].peer)
    BY <1>0, <1>1, <1>3, <2>2, SendEffect
  <2>4. SameConns(conns, conns', {})
    BY <2>3 DEF SameConns, Same
  <2> QED  BY <2>3, <2>4
<1>7. SameNodes(nodes, nodes')
  BY <1>6, SameAll
<1>8. Base(nodes', conns', contact', shutDown')
  <2>1. Base(nodes', conns', contact, shutDown)
    BY <1>0, <1>6, <1>7, BaseKept
  <2> QED  BY <1>6, <2>1
<1>9. Linking(nodes', conns', contact', x, k, b, p)
  <2>1. Linking(nodes', conns', contact, x, k, b, p)
    BY <1>0, <1>1, <1>6, <1>7, LinkingKept
  <2> QED  BY <1>6, <2>1
<1>10. Contacts(nodes', conns', {}, b, Told(todo'))
  BY <1>1, <1>6, <1>7, ContactsKept
<1>11. ContactTold(nodes', conns', contact', todo', x, k, b, p)
  BY <1>5, <1>6, <1>9, <1>10 DEF ContactTold
<1>12. Stage(nodes', conns', contact', todo')
  <2>1. DOMAIN nodes' = DOMAIN nodes /\ DOMAIN conns' = DOMAIN conns
    BY <1>6, <1>7 DEF SameNodes, SameConns
  <2> QED  BY <1>11, <2>1 DEF Stage, LinkStage
<1> QED  BY <1>6, <1>8, <1>12 DEF Sound

\* The next CONTACT is sent.
LEMMA RestStep ==
    ASSUME Sound, Step, NEW b, AtRest(nodes, conns, contact, todo, b)
    PROVE  Sound'
<1>0. Typed /\ Base(nodes, conns, contact, shutDown) /\ Owned(nodes, conns) /\ Null \notin DOMAIN nodes
  BY Objects DEF Sound, Base
<1>1. /\ todo # <<>> /\ Lives(nodes, b)
      /\ Contacts(nodes, conns, {}, b, todo) /\ AllRead(conns, Null) /\ Calm(nodes, conns, contact)
  BY StepByCall DEF AtRest
<1>2. IsContactCall(nodes, conns, {}, b, Head(todo)) /\ Contacts(nodes, conns, {}, b, Tail(todo))
  BY <1>0, <1>1, PopContact DEF Typed
<1>3. PICK x \in DOMAIN nodes \ {b}, k \in DOMAIN conns \ {}, p \in DOMAIN conns \ {} :
        /\ Head(todo) = SendContact(x, k)
        /\ Link(conns, x, k, b, p) /\ Owns(nodes, x, k) /\ Owns(nodes, b, p)
  BY <1>2 DEF IsContactCall
<1>4. SendContactCommand
  BY <1>3, StepByCall DEF SendContact
<1>5. PICK o : o = nodes[x].connection[2]
  OBVIOUS
<1>6. /\ Then(<<Send(k, "CONTACT", o)>>)
      /\ UNCHANGED <<nodes, conns, contact, localContactID, shutDown>>
  <2>1. Call.conn = k /\ Call.at = x
    BY <1>3 DEF Call, SendContact
  <2> HIDE DEF Call
  <2> QED  BY <1>4, <1>5, <2>1 DEF SendContactCommand
<1>7. o \in {Null} \cup DOMAIN conns /\ (o # Null => Owns(nodes, x, o)) /\ o \in Nat
  <2>1. ASSUME o # Null  PROVE Has(nodes, x, 2, o)
    BY <1>3, <1>5, <2>1 DEF Has, Owns, Slot
  <2>2. o # Null => o \in DOMAIN conns
    BY <1>0, <2>1, OwnedFacts
  <2>3. o \in Nat
    BY <1>0, <2>2, Objects DEF Null
  <2>4. 2 \in Slot
    BY DEF Slot
  <2> QED  BY <2>1, <2>2, <2>3, <2>4 DEF Owns
<1>8. /\ todo' \in Seq(CallRecord) /\ todo' # <<>> /\ Head(todo') = Send(k, "CONTACT", o)
      /\ Tail(todo') = Tail(todo)
  <2>1. Send(k, "CONTACT", o) \in CallRecord
    <3>1. k \in Nat
      BY <1>0, Objects
    <3> QED  BY <1>7, <3>1, CallTypes DEF Command
  <2> QED  BY <1>0, <1>1, <1>6, <2>1, ThenOne
<1>9. Linking(nodes, conns, contact, x, k, b, p)
  BY <1>1, <1>3 DEF Linking
<1>10. Contact1(nodes', conns', contact', todo', x, k, b, p)
  <2>1. Head(todo').call = "send"
    BY <1>8 DEF Send
  <2>2. Contact1(nodes, conns, contact, todo', x, k, b, p)
    BY <1>1, <1>2, <1>7, <1>8, <1>9, <2>1 DEF Contact1
  <2> QED  BY <1>6, <2>2
<1>11. Stage(nodes', conns', contact', todo')
  <2>1. x \in DOMAIN nodes' /\ b \in DOMAIN nodes' /\ k \in DOMAIN conns' /\ p \in DOMAIN conns'
    BY <1>1, <1>3, <1>6 DEF Lives
  <2> QED  BY <1>10, <2>1 DEF Stage, LinkStage
<1>12. Typed' /\ Base(nodes', conns', contact', shutDown')
  <2>1. Typed'
    BY <1>0, <1>6, <1>8 DEF Typed
  <2>2. Base(nodes', conns', contact', shutDown')
    BY <1>0, <1>6
  <2> QED  BY <2>1, <2>2
<1> QED  BY <1>11, <1>12 DEF Sound

\* Fewer PlugNodes are asked for.
LEMMA StarLess ==
    ASSUME NEW ns, NEW cs, NEW c, NEW except, Star(ns, cs, c, {})
    PROVE  Star(ns, cs, c, except)
BY DEF Star

\* Whoever is told of a PlugNode asks it to join, unless it is told of itself.
LEMMA ContactReceived ==
    ASSUME Sound, Step, Head(todo).call = "receive",
           NEW x \in DOMAIN nodes, NEW b \in DOMAIN nodes, NEW k \in DOMAIN conns, NEW p \in DOMAIN conns,
           ContactTold(nodes, conns, contact, todo, x, k, b, p)
    PROVE  Sound'
<1>0. Typed /\ Base(nodes, conns, contact, shutDown) /\ Owned(nodes, conns) /\ Null \notin DOMAIN nodes
  BY Objects DEF Sound, Base
<1>1. PICK a \in {Null} \cup DOMAIN nodes :
        /\ a # Null => nodes[a].isAlive
        /\ Telling(conns, todo, k, [command |-> "CONTACT", address |-> a])
  BY DEF ContactTold
<1>2. /\ Contacts(nodes, conns, {}, b, Told(todo)) /\ Linking(nodes, conns, contact, x, k, b, p)
  BY DEF ContactTold
<1>3. PICK line : line = [command |-> "CONTACT", address |-> a]
  OBVIOUS
<1>4. line \in Message /\ line.command = "CONTACT" /\ line.address = a /\ a \in Nat
  <2>1. a \in Nat
    BY <1>0, Objects DEF Null
  <2> QED  BY <1>3, <2>1 DEF Message, Command
<1>5. /\ todo # <<>> /\ Call.conn = k /\ Line = line /\ Told(todo) = Tail(todo) /\ ReceiveStep
      /\ Read \in Seq(ConnRecord) /\ OnlyLines(conns, Read)
      /\ \A q \in DOMAIN conns : Read[q].lines = <<>>
  <2>1. Telling(conns, todo, k, line)
    BY <1>1, <1>3
  <2> QED  BY <1>0, <1>4, <2>1, ReadEffect
<1>6. ReceiveContact
  BY <1>4, <1>5, ReceiveByCommand
<1>7. Receiver = b
  BY <1>2, <1>5 DEF Linking, Link, End, Listens, Receiver
<1>8. /\ conns' = Read /\ UNCHANGED <<nodes, contact, localContactID, shutDown>>
      /\ Then(IF Peers = 4 THEN <<>> ELSE Contact(a))
  <2> HIDE DEF Receiver, Read, Peers, Line
  <2> QED  BY <1>4, <1>5, <1>6 DEF ReceiveContact
<1>9. SameNodes(nodes, nodes') /\ SameConns(conns, conns', {})
  BY <1>5, <1>8, SameAll, OnlyLinesSame
<1>10. Base(nodes', conns', contact', shutDown')
  <2>1. Base(nodes', conns', contact, shutDown)
    BY <1>0, <1>9, BaseKept
  <2> QED  BY <1>8, <2>1
<1>11. Calm(nodes', conns', contact')
  <2>1. Calm(nodes, conns, contact)
    BY <1>2 DEF Linking
  <2>2. Calm(nodes', conns', contact)
    BY <1>0, <1>8, <1>9, <2>1, CalmKept
  <2> QED  BY <1>8, <2>2
<1>12. AllRead(conns', Null)
  BY <1>5, <1>8, <1>9 DEF AllRead, SameConns
<1>13. Contacts(nodes', conns', {}, b, Tail(todo))
  BY <1>2, <1>5, <1>9, ContactsKept
<1>14. Lives(nodes', b) /\ DOMAIN nodes' = DOMAIN nodes
  <2>1. Lives(nodes, b)
    BY <1>2 DEF Linking, Owns, Has
  <2> QED  BY <1>8, <2>1
<1>15. Typed' <=> todo' \in Seq(CallRecord)
  BY <1>0, <1>5, <1>8 DEF Typed
<1>16. CASE Then(<<>>)
  <2>1. todo' \in Seq(CallRecord) /\ todo' = Tail(todo)
    BY <1>0, <1>5, <1>16, ThenNone
  <2>2. AtRest(nodes', conns', contact', todo', b)
    BY <1>11, <1>12, <1>13, <1>14, <2>1 DEF AtRest
  <2>3. Stage(nodes', conns', contact', todo')
    BY <1>14, <2>2 DEF Stage
  <2> QED  BY <1>10, <1>15, <2>1, <2>3 DEF Sound
<1>17. CASE Then(Contact(a)) /\ a \notin {Null, b}
  <2> PICK id : id = nodes[b].contactID
    OBVIOUS
  <2>1. Then(<<Join(a, b, id)>>)
    <3> HIDE DEF Receiver
    <3> QED  BY <1>7, <1>17 DEF Contact
  <2>2. id \in Nat /\ b \in Nat
    BY <1>0, Objects DEF NodeRecord
  <2>3. Join(a, b, id) \in CallRecord
    BY <1>4, <2>2, CallTypes
  <2>4. /\ todo' \in Seq(CallRecord) /\ todo' # <<>> /\ Head(todo') = Join(a, b, id)
        /\ Tail(todo') = Tail(todo)
    BY <1>0, <1>5, <2>1, <2>3, ThenOne
  <2>5. Lives(nodes', a)
    BY <1>1, <1>8, <1>17 DEF Lives
  <2>6. Star(nodes', conns', contact', IF a = contact' THEN {b} ELSE {})
    BY <1>11, StarLess DEF Calm
  <2>7. Head(todo').call = "join" /\ Head(todo').at = a /\ Head(todo').for = b
    BY <2>4 DEF Join
  <2>8. AtJoin(nodes', conns', contact', todo', a, b)
    BY <1>11, <1>12, <1>13, <1>14, <1>17, <2>4, <2>5, <2>6, <2>7 DEF AtJoin, Calm
  <2>9. Stage(nodes', conns', contact', todo')
    BY <1>14, <2>5, <2>8 DEF Stage, Lives
  <2> QED  BY <1>10, <1>15, <2>4, <2>9 DEF Sound
<1>18. Then(<<>>) \/ (Then(Contact(a)) /\ a \notin {Null, b})
  <2>1. CASE Peers = 4
    <3> HIDE DEF Peers
    <3>1. (IF Peers = 4 THEN <<>> ELSE Contact(a)) = <<>>
      BY <2>1
    <3> QED  BY <1>8, <3>1, Zenon
  <2>2. CASE Peers # 4 /\ a \in {Null, b}
    <3>1. Contact(a) = <<>>
      <4> HIDE DEF Receiver
      <4> QED  BY <1>7, <2>2 DEF Contact
    <3>2. (IF Peers = 4 THEN <<>> ELSE Contact(a)) = <<>>
      BY <2>2, <3>1
    <3> QED  BY <1>8, <3>2, Zenon
  <2>3. CASE Peers # 4 /\ a \notin {Null, b}
    <3>1. (IF Peers = 4 THEN <<>> ELSE Contact(a)) = Contact(a)
      BY <2>3
    <3> QED  BY <1>8, <2>3, <3>1, Zenon
  <2> QED  BY <2>1, <2>2, <2>3
<1> QED  BY <1>16, <1>17, <1>18

-----------------------------------------------------------------------------
(* A line is written, up to the call of the receiver                       *)

\* Writing a line of a link in the making leaves the link as it is.
LEMMA MakingTold ==
    ASSUME Sound, Step, Head(todo).call # "receive",
           NEW x, NEW k, NEW b, NEW p, NEW sk, NEW sp, NEW q \in {k, p}, NEW command \in Command,
           Telling(conns, todo, q, Plain(command)),
           Making(nodes, conns, contact, x, k, b, p, sk, sp, Null)
    PROVE  /\ Typed' /\ Base(nodes', conns', contact', shutDown')
           /\ UNCHANGED <<nodes, contact>>
           /\ Telling(conns', todo', q, Plain(command)) /\ Told(todo') = Told(todo)
           /\ SameConns(conns, conns', {k, p})
           /\ Making(nodes', conns', contact', x, k, b, p, sk, sp, Null)
<1>0. Typed /\ Base(nodes, conns, contact, shutDown) /\ Owned(nodes, conns) /\ Null \notin DOMAIN nodes
  BY Objects DEF Sound, Base
<1>1. /\ End(conns, x, k, b, p) /\ End(conns, b, p, x, k)
      /\ conns[k].state = sk /\ conns[p].state = sp /\ Counted(nodes, conns, Null, Null)
  BY DEF Making
<1>2. k \in DOMAIN conns /\ p \in DOMAIN conns /\ Lives(nodes, x) /\ Lives(nodes, b)
  BY <1>0, MakingEnds
<1>3. HasReceiver(q)
  <2>1. x # Null /\ b # Null
    BY <1>0, <1>2 DEF Lives
  <2> QED  BY <1>1, <2>1 DEF HasReceiver, End, Listens
<1>4. Plain(command) \in Message
  BY DEF Plain, Message, Null
<1>5. /\ Typed' /\ UNCHANGED <<nodes, contact, shutDown>>
      /\ Telling(conns', todo', q, Plain(command)) /\ Told(todo') = Told(todo)
      /\ SameConns(conns, conns', {})
  BY <1>0, <1>2, <1>3, <1>4, TellEffect
<1>6. SameNodes(nodes, nodes') /\ SameConns(conns, conns', {k, p})
  BY <1>5, SameAll, SameConnsWiden
<1>7. Base(nodes', conns', contact', shutDown')
  <2>1. Base(nodes', conns', contact, shutDown)
    BY <1>0, <1>6, BaseKept
  <2> QED  BY <1>5, <2>1
<1>8. Making(nodes', conns', contact', x, k, b, p, sk, sp, Null)
  <2>3. Same(conns, conns', k) /\ Same(conns, conns', p)
    BY <1>2, <1>5 DEF SameConns
  <2>4. /\ End(conns', x, k, b, p) /\ End(conns', b, p, x, k)
        /\ conns'[k].state = sk /\ conns'[p].state = sp
    BY <1>1, <2>3 DEF Same, End, Listens
  <2>5. Counted(nodes', conns', Null, Null)
    <3>1. \A n \in DOMAIN nodes : nodes'[n].peers = nodes[n].peers /\ LikeConfirmed(nodes, conns, conns', n, Null)
      <4>1. \A n, i, r : Has(nodes, n, i, r) => r \in DOMAIN conns
        BY <1>0, OwnedFacts
      <4> QED  BY <1>5, <4>1 DEF LikeConfirmed, SameConns, Same
    <3> QED  BY <1>1, <1>6, <3>1, CountedKept
  <2>6. Making(nodes', conns', contact, x, k, b, p, sk, sp, Null)
    BY <1>0, <1>6, <2>4, <2>5, MakingChange
  <2> QED  BY <1>5, <2>6
<1> QED  BY <1>5, <1>6, <1>7, <1>8

\* CONTACT: its line is written.
LEMMA LinkingTold ==
    ASSUME Sound, Step, Head(todo).call # "receive",
           NEW x \in DOMAIN nodes, NEW b \in DOMAIN nodes, NEW k \in DOMAIN conns, NEW p \in DOMAIN conns,
           ContactTold(nodes, conns, contact, todo, x, k, b, p)
    PROVE  Sound'
<1>0. Typed /\ Base(nodes, conns, contact, shutDown) /\ Owned(nodes, conns) /\ Null \notin DOMAIN nodes
  BY Objects DEF Sound, Base
<1>1. PICK a \in {Null} \cup DOMAIN nodes :
        /\ a # Null => nodes[a].isAlive
        /\ Telling(conns, todo, k, [command |-> "CONTACT", address |-> a])
  BY DEF ContactTold
<1>2. /\ Contacts(nodes, conns, {}, b, Told(todo)) /\ Linking(nodes, conns, contact, x, k, b, p)
  BY DEF ContactTold
<1>3. PICK line : line = [command |-> "CONTACT", address |-> a]
  OBVIOUS
<1>4. line \in Message
  <2>1. a \in Nat
    BY <1>0, Objects DEF Null
  <2> QED  BY <1>3, <2>1 DEF Message, Command
<1>5. HasReceiver(k)
  BY <1>0, <1>2 DEF Linking, Link, End, Listens, HasReceiver
<1>6. /\ Typed' /\ UNCHANGED <<nodes, contact, shutDown>>
      /\ Telling(conns', todo', k, line) /\ Told(todo') = Told(todo)
      /\ SameConns(conns, conns', {})
  <2>1. Telling(conns, todo, k, line)
    BY <1>1, <1>3
  <2> QED  BY <1>0, <1>4, <1>5, <2>1, TellEffect
<1>7. SameNodes(nodes, nodes')
  BY <1>6, SameAll
<1>8. Base(nodes', conns', contact', shutDown')
  <2>1. Base(nodes', conns', contact, shutDown)
    BY <1>0, <1>6, <1>7, BaseKept
  <2> QED  BY <1>6, <2>1
<1>9. Linking(nodes', conns', contact', x, k, b, p)
  <2>1. Linking(nodes', conns', contact, x, k, b, p)
    BY <1>0, <1>2, <1>6, <1>7, LinkingKept
  <2> QED  BY <1>6, <2>1
<1>10. Contacts(nodes', conns', {}, b, Told(todo'))
  BY <1>2, <1>6, <1>7, ContactsKept
<1>11. ContactTold(nodes', conns', contact', todo', x, k, b, p)
  BY <1>1, <1>3, <1>6, <1>9, <1>10 DEF ContactTold
<1>12. Stage(nodes', conns', contact', todo')
  <2>1. DOMAIN nodes' = DOMAIN nodes /\ DOMAIN conns' = DOMAIN conns
    BY <1>6, <1>7 DEF SameNodes, SameConns
  <2> QED  BY <1>11, <2>1 DEF Stage, LinkStage
<1> QED  BY <1>6, <1>8, <1>12 DEF Sound

\* Opened: there is nothing to switch, so CHECKIN is next.
LEMMA OpenedStep ==
    ASSUME Sound, Step,
           NEW x \in DOMAIN nodes, NEW b \in DOMAIN nodes, NEW k \in DOMAIN conns, NEW p \in DOMAIN conns,
           Opened(nodes, conns, contact, todo, x, k, b, p)
    PROVE  Sound'
<1>0. Typed /\ Base(nodes, conns, contact, shutDown)
  BY DEF Sound
<1>1. /\ todo # <<>> /\ Head(todo) = SwitchAccess(x)
      /\ Sending(conns, Tail(todo), p, "CHECKIN") /\ Contacts(nodes, conns, {k, p}, b, Tail(Tail(todo)))
      /\ Making(nodes, conns, contact, x, k, b, p, "IDLE", "IDLE", Null)
  BY DEF Opened
<1>2. SwitchServiceAccess
  BY <1>1, StepByCall DEF SwitchAccess
<1>3. Then(<<>>) /\ UNCHANGED <<nodes, conns, contact, localContactID, shutDown>>
  <2>1. Call.at = x
    BY <1>1 DEF Call, SwitchAccess
  <2>2. nodes[x].connectionSwitch = Null
    BY <1>0 DEF Base, NoSwitch
  <2> HIDE DEF Call
  <2> QED  BY <1>2, <2>1, <2>2 DEF SwitchServiceAccess
<1>4. todo' \in Seq(CallRecord) /\ todo' = Tail(todo)
  BY <1>0, <1>1, <1>3, ThenNone
<1>5. Checkin(nodes', conns', contact', todo', x, k, b, p)
  <2>1. Checkin(nodes, conns, contact, todo', x, k, b, p)
    BY <1>1, <1>4 DEF Checkin
  <2> QED  BY <1>3, <2>1
<1>6. Stage(nodes', conns', contact', todo')
  BY <1>3, <1>5 DEF Stage, LinkStage
<1>7. Typed'
  BY <1>0, <1>3, <1>4 DEF Typed
<1>8. Base(nodes', conns', contact', shutDown')
  BY <1>0, <1>3
<1> QED  BY <1>6, <1>7, <1>8 DEF Sound

\* CHECKIN: it is sent.
LEMMA CheckinSent ==
    ASSUME Sound, Step,
           NEW x \in DOMAIN nodes, NEW b \in DOMAIN nodes, NEW k \in DOMAIN conns, NEW p \in DOMAIN conns,
           Checkin(nodes, conns, contact, todo, x, k, b, p)
    PROVE  Sound'
<1>0. Typed /\ Base(nodes, conns, contact, shutDown) /\ Owned(nodes, conns)
  BY DEF Sound, Base
<1>1. /\ Sending(conns, todo, p, "CHECKIN") /\ Contacts(nodes, conns, {k, p}, b, Tail(todo))
      /\ Making(nodes, conns, contact, x, k, b, p, "IDLE", "IDLE", Null)
  BY DEF Checkin
<1>2. k # p
  BY <1>0, <1>1, MakingEnds
<1> PICK sk, sp, more, sk2, sp2, more2, q, command :
       /\ sk = "IDLE" /\ sp = "IDLE" /\ more = Null /\ sk2 = "IDLE" /\ sp2 = "CHECKIN" /\ more2 = Null
       /\ q = p /\ command = "CHECKIN"
  OBVIOUS
<1>3. /\ q \in {k, p} /\ command \in {"CHECKIN", "CONNECT", "CONFIRM"}
      /\ sk2 = (IF q = k THEN command ELSE sk) /\ sp2 = (IF q = p THEN command ELSE sp)
      /\ more2 = (IF command = "CONFIRM" THEN Null ELSE more)
      /\ (command = "CONFIRM" => more = b /\ q = p)
      /\ sk # "CONFIRM" /\ sp # "CONFIRM"
  BY <1>2
<1>4. Sending(conns, todo, q, command) /\ Making(nodes, conns, contact, x, k, b, p, sk, sp, more)
  BY <1>1
<1>5. /\ Typed' /\ Base(nodes', conns', contact', shutDown')
      /\ UNCHANGED <<nodes, contact>>
      /\ Telling(conns', todo', q, Plain(command)) /\ Told(todo') = Tail(todo)
      /\ SameConns(conns, conns', {k, p})
      /\ Making(nodes', conns', contact', x, k, b, p, sk2, sp2, more2)
  BY <1>0, <1>3, <1>4, MakingSend
<1>6. SameNodes(nodes, nodes')
  BY <1>5, SameAll
<1>7. Contacts(nodes', conns', {k, p}, b, Told(todo'))
  BY <1>1, <1>5, <1>6, ContactsKept
<1>8. CheckinTold(nodes', conns', contact', todo', x, k, b, p)
  BY <1>5, <1>7 DEF CheckinTold
<1>9. Stage(nodes', conns', contact', todo')
  <2>1. DOMAIN nodes' = DOMAIN nodes /\ DOMAIN conns' = DOMAIN conns
    BY <1>5, <1>6 DEF SameNodes, SameConns
  <2> QED  BY <1>8, <2>1 DEF Stage, LinkStage
<1> QED  BY <1>5, <1>9 DEF Sound

\* CHECKIN: its line is written.
LEMMA CheckinTells ==
    ASSUME Sound, Step, Head(todo).call # "receive",
           NEW x \in DOMAIN nodes, NEW b \in DOMAIN nodes, NEW k \in DOMAIN conns, NEW p \in DOMAIN conns,
           CheckinTold(nodes, conns, contact, todo, x, k, b, p)
    PROVE  Sound'
<1>1. /\ Telling(conns, todo, p, Plain("CHECKIN")) /\ Contacts(nodes, conns, {k, p}, b, Told(todo))
      /\ Making(nodes, conns, contact, x, k, b, p, "IDLE", "CHECKIN", Null)
  BY DEF CheckinTold
<1> PICK sk, sp, q, command : sk = "IDLE" /\ sp = "CHECKIN" /\ q = p /\ command = "CHECKIN"
  OBVIOUS
<1>2. q \in {k, p} /\ command \in Command
  BY DEF Command
<1>3. Telling(conns, todo, q, Plain(command)) /\ Making(nodes, conns, contact, x, k, b, p, sk, sp, Null)
  BY <1>1
<1>4. /\ Typed' /\ Base(nodes', conns', contact', shutDown')
      /\ UNCHANGED <<nodes, contact>>
      /\ Telling(conns', todo', q, Plain(command)) /\ Told(todo') = Told(todo)
      /\ SameConns(conns, conns', {k, p})
      /\ Making(nodes', conns', contact', x, k, b, p, sk, sp, Null)
  BY <1>2, <1>3, MakingTold
<1>5. SameNodes(nodes, nodes')
  BY <1>4, SameAll
<1>6. Contacts(nodes', conns', {k, p}, b, Told(todo'))
  BY <1>1, <1>4, <1>5, ContactsKept
<1>7. CheckinTold(nodes', conns', contact', todo', x, k, b, p)
  BY <1>4, <1>6 DEF CheckinTold
<1>8. Stage(nodes', conns', contact', todo')
  <2>1. DOMAIN nodes' = DOMAIN nodes /\ DOMAIN conns' = DOMAIN conns
    BY <1>4, <1>5 DEF SameNodes, SameConns
  <2> QED  BY <1>7, <2>1 DEF Stage, LinkStage
<1> QED  BY <1>4, <1>8 DEF Sound

\* CONNECT: it is sent.
LEMMA ConnectSent ==
    ASSUME Sound, Step,
           NEW x \in DOMAIN nodes, NEW b \in DOMAIN nodes, NEW k \in DOMAIN conns, NEW p \in DOMAIN conns,
           Connect(nodes, conns, contact, todo, x, k, b, p)
    PROVE  Sound'
<1>0. Typed /\ Base(nodes, conns, contact, shutDown) /\ Owned(nodes, conns)
  BY DEF Sound, Base
<1>1. /\ Sending(conns, todo, k, "CONNECT") /\ Behind(nodes, conns, x, k, b, p, Tail(todo))
      /\ Making(nodes, conns, contact, x, k, b, p, "IDLE", "CHECKIN", Null)
  BY DEF Connect
<1>2. k # p
  BY <1>0, <1>1, MakingEnds
<1> PICK sk, sp, more, sk2, sp2, more2, q, command :
       /\ sk = "IDLE" /\ sp = "CHECKIN" /\ more = Null /\ sk2 = "CONNECT" /\ sp2 = "CHECKIN" /\ more2 = Null
       /\ q = k /\ command = "CONNECT"
  OBVIOUS
<1>3. /\ q \in {k, p} /\ command \in {"CHECKIN", "CONNECT", "CONFIRM"}
      /\ sk2 = (IF q = k THEN command ELSE sk) /\ sp2 = (IF q = p THEN command ELSE sp)
      /\ more2 = (IF command = "CONFIRM" THEN Null ELSE more)
      /\ (command = "CONFIRM" => more = b /\ q = p)
      /\ sk # "CONFIRM" /\ sp # "CONFIRM"
  BY <1>2
<1>4. Sending(conns, todo, q, command) /\ Making(nodes, conns, contact, x, k, b, p, sk, sp, more)
  BY <1>1
<1>5. /\ Typed' /\ Base(nodes', conns', contact', shutDown')
      /\ UNCHANGED <<nodes, contact>>
      /\ Telling(conns', todo', q, Plain(command)) /\ Told(todo') = Tail(todo)
      /\ SameConns(conns, conns', {k, p})
      /\ Making(nodes', conns', contact', x, k, b, p, sk2, sp2, more2)
  BY <1>0, <1>3, <1>4, MakingSend
<1>6. SameNodes(nodes, nodes')
  BY <1>5, SameAll
<1>7. Behind(nodes', conns', x, k, b, p, Told(todo'))
  BY <1>1, <1>5, <1>6, BehindKept
<1>8. ConnectTold(nodes', conns', contact', todo', x, k, b, p)
  BY <1>5, <1>7 DEF ConnectTold
<1>9. Stage(nodes', conns', contact', todo')
  <2>1. DOMAIN nodes' = DOMAIN nodes /\ DOMAIN conns' = DOMAIN conns
    BY <1>5, <1>6 DEF SameNodes, SameConns
  <2> QED  BY <1>8, <2>1 DEF Stage, LinkStage
<1> QED  BY <1>5, <1>9 DEF Sound

\* CONNECT: its line is written.
LEMMA ConnectTells ==
    ASSUME Sound, Step, Head(todo).call # "receive",
           NEW x \in DOMAIN nodes, NEW b \in DOMAIN nodes, NEW k \in DOMAIN conns, NEW p \in DOMAIN conns,
           ConnectTold(nodes, conns, contact, todo, x, k, b, p)
    PROVE  Sound'
<1>1. /\ Telling(conns, todo, k, Plain("CONNECT")) /\ Behind(nodes, conns, x, k, b, p, Told(todo))
      /\ Making(nodes, conns, contact, x, k, b, p, "CONNECT", "CHECKIN", Null)
  BY DEF ConnectTold
<1> PICK sk, sp, q, command : sk = "CONNECT" /\ sp = "CHECKIN" /\ q = k /\ command = "CONNECT"
  OBVIOUS
<1>2. q \in {k, p} /\ command \in Command
  BY DEF Command
<1>3. Telling(conns, todo, q, Plain(command)) /\ Making(nodes, conns, contact, x, k, b, p, sk, sp, Null)
  BY <1>1
<1>4. /\ Typed' /\ Base(nodes', conns', contact', shutDown')
      /\ UNCHANGED <<nodes, contact>>
      /\ Telling(conns', todo', q, Plain(command)) /\ Told(todo') = Told(todo)
      /\ SameConns(conns, conns', {k, p})
      /\ Making(nodes', conns', contact', x, k, b, p, sk, sp, Null)
  BY <1>2, <1>3, MakingTold
<1>5. SameNodes(nodes, nodes')
  BY <1>4, SameAll
<1>6. Behind(nodes', conns', x, k, b, p, Told(todo'))
  BY <1>1, <1>4, <1>5, BehindKept
<1>7. ConnectTold(nodes', conns', contact', todo', x, k, b, p)
  BY <1>4, <1>6 DEF ConnectTold
<1>8. Stage(nodes', conns', contact', todo')
  <2>1. DOMAIN nodes' = DOMAIN nodes /\ DOMAIN conns' = DOMAIN conns
    BY <1>4, <1>5 DEF SameNodes, SameConns
  <2> QED  BY <1>7, <2>1 DEF Stage, LinkStage
<1> QED  BY <1>4, <1>8 DEF Sound

\* CONFIRM: it is sent.
LEMMA ConfirmSent ==
    ASSUME Sound, Step,
           NEW x \in DOMAIN nodes, NEW b \in DOMAIN nodes, NEW k \in DOMAIN conns, NEW p \in DOMAIN conns,
           Confirm(nodes, conns, contact, todo, x, k, b, p)
    PROVE  Sound'
<1>0. Typed /\ Base(nodes, conns, contact, shutDown) /\ Owned(nodes, conns)
  BY DEF Sound, Base
<1>1. /\ Sending(conns, todo, p, "CONFIRM") /\ Behind(nodes, conns, x, k, b, p, Tail(todo))
      /\ Making(nodes, conns, contact, x, k, b, p, "CONNECT", "CHECKIN", b)
  BY DEF Confirm
<1>2. k # p
  BY <1>0, <1>1, MakingEnds
<1> PICK sk, sp, more, sk2, sp2, more2, q, command :
       /\ sk = "CONNECT" /\ sp = "CHECKIN" /\ more = b /\ sk2 = "CONNECT" /\ sp2 = "CONFIRM" /\ more2 = Null
       /\ q = p /\ command = "CONFIRM"
  OBVIOUS
<1>3. /\ q \in {k, p} /\ command \in {"CHECKIN", "CONNECT", "CONFIRM"}
      /\ sk2 = (IF q = k THEN command ELSE sk) /\ sp2 = (IF q = p THEN command ELSE sp)
      /\ more2 = (IF command = "CONFIRM" THEN Null ELSE more)
      /\ (command = "CONFIRM" => more = b /\ q = p)
      /\ sk # "CONFIRM" /\ sp # "CONFIRM"
  BY <1>2
<1>4. Sending(conns, todo, q, command) /\ Making(nodes, conns, contact, x, k, b, p, sk, sp, more)
  BY <1>1
<1>5. /\ Typed' /\ Base(nodes', conns', contact', shutDown')
      /\ UNCHANGED <<nodes, contact>>
      /\ Telling(conns', todo', q, Plain(command)) /\ Told(todo') = Tail(todo)
      /\ SameConns(conns, conns', {k, p})
      /\ Making(nodes', conns', contact', x, k, b, p, sk2, sp2, more2)
  BY <1>0, <1>3, <1>4, MakingSend
<1>6. SameNodes(nodes, nodes')
  BY <1>5, SameAll
<1>7. Behind(nodes', conns', x, k, b, p, Told(todo'))
  BY <1>1, <1>5, <1>6, BehindKept
<1>8. ConfirmTold(nodes', conns', contact', todo', x, k, b, p)
  BY <1>5, <1>7 DEF ConfirmTold
<1>9. Stage(nodes', conns', contact', todo')
  <2>1. DOMAIN nodes' = DOMAIN nodes /\ DOMAIN conns' = DOMAIN conns
    BY <1>5, <1>6 DEF SameNodes, SameConns
  <2> QED  BY <1>8, <2>1 DEF Stage, LinkStage
<1> QED  BY <1>5, <1>9 DEF Sound

\* CONFIRM: its line is written.
LEMMA ConfirmTells ==
    ASSUME Sound, Step, Head(todo).call # "receive",
           NEW x \in DOMAIN nodes, NEW b \in DOMAIN nodes, NEW k \in DOMAIN conns, NEW p \in DOMAIN conns,
           ConfirmTold(nodes, conns, contact, todo, x, k, b, p)
    PROVE  Sound'
<1>1. /\ Telling(conns, todo, p, Plain("CONFIRM")) /\ Behind(nodes, conns, x, k, b, p, Told(todo))
      /\ Making(nodes, conns, contact, x, k, b, p, "CONNECT", "CONFIRM", Null)
  BY DEF ConfirmTold
<1> PICK sk, sp, q, command : sk = "CONNECT" /\ sp = "CONFIRM" /\ q = p /\ command = "CONFIRM"
  OBVIOUS
<1>2. q \in {k, p} /\ command \in Command
  BY DEF Command
<1>3. Telling(conns, todo, q, Plain(command)) /\ Making(nodes, conns, contact, x, k, b, p, sk, sp, Null)
  BY <1>1
<1>4. /\ Typed' /\ Base(nodes', conns', contact', shutDown')
      /\ UNCHANGED <<nodes, contact>>
      /\ Telling(conns', todo', q, Plain(command)) /\ Told(todo') = Told(todo)
      /\ SameConns(conns, conns', {k, p})
      /\ Making(nodes', conns', contact', x, k, b, p, sk, sp, Null)
  BY <1>2, <1>3, MakingTold
<1>5. SameNodes(nodes, nodes')
  BY <1>4, SameAll
<1>6. Behind(nodes', conns', x, k, b, p, Told(todo'))
  BY <1>1, <1>4, <1>5, BehindKept
<1>7. ConfirmTold(nodes', conns', contact', todo', x, k, b, p)
  BY <1>4, <1>6 DEF ConfirmTold
<1>8. Stage(nodes', conns', contact', todo')
  <2>1. DOMAIN nodes' = DOMAIN nodes /\ DOMAIN conns' = DOMAIN conns
    BY <1>4, <1>5 DEF SameNodes, SameConns
  <2> QED  BY <1>7, <2>1 DEF Stage, LinkStage
<1> QED  BY <1>4, <1>8 DEF Sound

\* While a link is made, or one of its ends is told of another PlugNode.
LEMMA LinkStep ==
    ASSUME Sound, Step,
           NEW x \in DOMAIN nodes, NEW b \in DOMAIN nodes, NEW k \in DOMAIN conns, NEW p \in DOMAIN conns,
           LinkStage(nodes, conns, contact, todo, x, k, b, p)
    PROVE  Sound'
<1>1. CASE Opened(nodes, conns, contact, todo, x, k, b, p)
  BY <1>1, OpenedStep
<1>2. CASE Checkin(nodes, conns, contact, todo, x, k, b, p)
  BY <1>2, CheckinSent
<1>3. CASE CheckinTold(nodes, conns, contact, todo, x, k, b, p)
  BY <1>3, CheckinTells, CheckinReceived
<1>4. CASE Connect(nodes, conns, contact, todo, x, k, b, p)
  BY <1>4, ConnectSent
<1>5. CASE ConnectTold(nodes, conns, contact, todo, x, k, b, p)
  BY <1>5, ConnectTells, ConnectReceived
<1>6. CASE Confirm(nodes, conns, contact, todo, x, k, b, p)
  BY <1>6, ConfirmSent
<1>7. CASE ConfirmTold(nodes, conns, contact, todo, x, k, b, p)
  BY <1>7, ConfirmTells, ConfirmReceived
<1>8. CASE Contact1(nodes, conns, contact, todo, x, k, b, p)
  BY <1>8, ContactSent
<1>9. CASE ContactTold(nodes, conns, contact, todo, x, k, b, p)
  BY <1>9, LinkingTold, ContactReceived
<1> QED
  BY <1>1, <1>2, <1>3, <1>4, <1>5, <1>6, <1>7, <1>8, <1>9 DEF LinkStage

-----------------------------------------------------------------------------
(* One member of a connection changes                                      *)

Pointers == Nat
Pairs == Nat \X Nat
OtherConns(cs, ds, k) == DOMAIN ds = DOMAIN cs /\ \A q \in DOMAIN cs : q # k => ds[q] = cs[q]

SetPeer(cs, k, v) == [cs EXCEPT ![k].peer = v]
SetRx(cs, k, v) == [cs EXCEPT ![k].rxInfo = v]
SetID(cs, k, v) == [cs EXCEPT ![k].connectionID = v]
SetReceiver(cs, k, v) == [cs EXCEPT ![k].receiver = v]
SetState(cs, k, v) == [cs EXCEPT ![k].state = v]
SetRegistered(cs, k, v) == [cs EXCEPT ![k].registered = v]

\* Another peer.
LEMMA PeerSet ==
    ASSUME NEW cs \in Seq(ConnRecord), NEW k \in DOMAIN cs, NEW v \in Pointers
    PROVE  /\ SetPeer(cs, k, v) \in Seq(ConnRecord) /\ OtherConns(cs, SetPeer(cs, k, v), k) /\ SetPeer(cs, k, v)[k].peer = v
           /\ SetPeer(cs, k, v)[k].isAlive = cs[k].isAlive /\ SetPeer(cs, k, v)[k].connectionID = cs[k].connectionID /\ SetPeer(cs, k, v)[k].state = cs[k].state
           /\ SetPeer(cs, k, v)[k].receiver = cs[k].receiver /\ SetPeer(cs, k, v)[k].rxInfo = cs[k].rxInfo /\ SetPeer(cs, k, v)[k].registered = cs[k].registered
           /\ SetPeer(cs, k, v)[k].lines = cs[k].lines
<1>d. PICK ds : ds = SetPeer(cs, k, v)
  OBVIOUS
<1> DEFINE r == [cs[k] EXCEPT !.peer = v]
<1>0. cs[k] \in ConnRecord
  BY ElementOfSeq, LenProperties
<1>1. r \in ConnRecord
  BY <1>0 DEF ConnRecord, Pairs, Pointers
<1>2. /\ r.peer = v
      /\ r.isAlive = cs[k].isAlive /\ r.connectionID = cs[k].connectionID /\ r.state = cs[k].state
      /\ r.receiver = cs[k].receiver /\ r.rxInfo = cs[k].rxInfo /\ r.registered = cs[k].registered
      /\ r.lines = cs[k].lines
  BY <1>0 DEF ConnRecord
<1>3. ds = WithConn(cs, k, r)
  BY <1>d DEF SetPeer, WithConn
<1> HIDE DEF r
<1>4. /\ ds \in Seq(ConnRecord) /\ DOMAIN ds = DOMAIN cs
      /\ \A q \in DOMAIN cs : ds[q] = IF q = k THEN r ELSE cs[q]
  BY <1>1, <1>3, NewConn
<1> QED  BY <1>d, <1>2, <1>4 DEF OtherConns

\* Another stream to receive from.
LEMMA RxSet ==
    ASSUME NEW cs \in Seq(ConnRecord), NEW k \in DOMAIN cs, NEW v \in Pointers
    PROVE  /\ SetRx(cs, k, v) \in Seq(ConnRecord) /\ OtherConns(cs, SetRx(cs, k, v), k) /\ SetRx(cs, k, v)[k].rxInfo = v
           /\ SetRx(cs, k, v)[k].isAlive = cs[k].isAlive /\ SetRx(cs, k, v)[k].connectionID = cs[k].connectionID /\ SetRx(cs, k, v)[k].state = cs[k].state
           /\ SetRx(cs, k, v)[k].receiver = cs[k].receiver /\ SetRx(cs, k, v)[k].peer = cs[k].peer /\ SetRx(cs, k, v)[k].registered = cs[k].registered
           /\ SetRx(cs, k, v)[k].lines = cs[k].lines
<1>d. PICK ds : ds = SetRx(cs, k, v)
  OBVIOUS
<1> DEFINE r == [cs[k] EXCEPT !.rxInfo = v]
<1>0. cs[k] \in ConnRecord
  BY ElementOfSeq, LenProperties
<1>1. r \in ConnRecord
  BY <1>0 DEF ConnRecord, Pairs, Pointers
<1>2. /\ r.rxInfo = v
      /\ r.isAlive = cs[k].isAlive /\ r.connectionID = cs[k].connectionID /\ r.state = cs[k].state
      /\ r.receiver = cs[k].receiver /\ r.peer = cs[k].peer /\ r.registered = cs[k].registered
      /\ r.lines = cs[k].lines
  BY <1>0 DEF ConnRecord
<1>3. ds = WithConn(cs, k, r)
  BY <1>d DEF SetRx, WithConn
<1> HIDE DEF r
<1>4. /\ ds \in Seq(ConnRecord) /\ DOMAIN ds = DOMAIN cs
      /\ \A q \in DOMAIN cs : ds[q] = IF q = k THEN r ELSE cs[q]
  BY <1>1, <1>3, NewConn
<1> QED  BY <1>d, <1>2, <1>4 DEF OtherConns

\* Another connection ID.
LEMMA IDSet ==
    ASSUME NEW cs \in Seq(ConnRecord), NEW k \in DOMAIN cs, NEW v \in Pointers
    PROVE  /\ SetID(cs, k, v) \in Seq(ConnRecord) /\ OtherConns(cs, SetID(cs, k, v), k) /\ SetID(cs, k, v)[k].connectionID = v
           /\ SetID(cs, k, v)[k].isAlive = cs[k].isAlive /\ SetID(cs, k, v)[k].state = cs[k].state /\ SetID(cs, k, v)[k].receiver = cs[k].receiver
           /\ SetID(cs, k, v)[k].rxInfo = cs[k].rxInfo /\ SetID(cs, k, v)[k].peer = cs[k].peer /\ SetID(cs, k, v)[k].registered = cs[k].registered
           /\ SetID(cs, k, v)[k].lines = cs[k].lines
<1>d. PICK ds : ds = SetID(cs, k, v)
  OBVIOUS
<1> DEFINE r == [cs[k] EXCEPT !.connectionID = v]
<1>0. cs[k] \in ConnRecord
  BY ElementOfSeq, LenProperties
<1>1. r \in ConnRecord
  BY <1>0 DEF ConnRecord, Pairs, Pointers
<1>2. /\ r.connectionID = v
      /\ r.isAlive = cs[k].isAlive /\ r.state = cs[k].state /\ r.receiver = cs[k].receiver
      /\ r.rxInfo = cs[k].rxInfo /\ r.peer = cs[k].peer /\ r.registered = cs[k].registered
      /\ r.lines = cs[k].lines
  BY <1>0 DEF ConnRecord
<1>3. ds = WithConn(cs, k, r)
  BY <1>d DEF SetID, WithConn
<1> HIDE DEF r
<1>4. /\ ds \in Seq(ConnRecord) /\ DOMAIN ds = DOMAIN cs
      /\ \A q \in DOMAIN cs : ds[q] = IF q = k THEN r ELSE cs[q]
  BY <1>1, <1>3, NewConn
<1> QED  BY <1>d, <1>2, <1>4 DEF OtherConns

\* Another receiver.
LEMMA ReceiverSet ==
    ASSUME NEW cs \in Seq(ConnRecord), NEW k \in DOMAIN cs, NEW v \in Pointers
    PROVE  /\ SetReceiver(cs, k, v) \in Seq(ConnRecord) /\ OtherConns(cs, SetReceiver(cs, k, v), k) /\ SetReceiver(cs, k, v)[k].receiver = v
           /\ SetReceiver(cs, k, v)[k].isAlive = cs[k].isAlive /\ SetReceiver(cs, k, v)[k].connectionID = cs[k].connectionID /\ SetReceiver(cs, k, v)[k].state = cs[k].state
           /\ SetReceiver(cs, k, v)[k].rxInfo = cs[k].rxInfo /\ SetReceiver(cs, k, v)[k].peer = cs[k].peer /\ SetReceiver(cs, k, v)[k].registered = cs[k].registered
           /\ SetReceiver(cs, k, v)[k].lines = cs[k].lines
<1>d. PICK ds : ds = SetReceiver(cs, k, v)
  OBVIOUS
<1> DEFINE r == [cs[k] EXCEPT !.receiver = v]
<1>0. cs[k] \in ConnRecord
  BY ElementOfSeq, LenProperties
<1>1. r \in ConnRecord
  BY <1>0 DEF ConnRecord, Pairs, Pointers
<1>2. /\ r.receiver = v
      /\ r.isAlive = cs[k].isAlive /\ r.connectionID = cs[k].connectionID /\ r.state = cs[k].state
      /\ r.rxInfo = cs[k].rxInfo /\ r.peer = cs[k].peer /\ r.registered = cs[k].registered
      /\ r.lines = cs[k].lines
  BY <1>0 DEF ConnRecord
<1>3. ds = WithConn(cs, k, r)
  BY <1>d DEF SetReceiver, WithConn
<1> HIDE DEF r
<1>4. /\ ds \in Seq(ConnRecord) /\ DOMAIN ds = DOMAIN cs
      /\ \A q \in DOMAIN cs : ds[q] = IF q = k THEN r ELSE cs[q]
  BY <1>1, <1>3, NewConn
<1> QED  BY <1>d, <1>2, <1>4 DEF OtherConns

\* Another state.
LEMMA StateSet ==
    ASSUME NEW cs \in Seq(ConnRecord), NEW k \in DOMAIN cs, NEW v \in State
    PROVE  /\ SetState(cs, k, v) \in Seq(ConnRecord) /\ OtherConns(cs, SetState(cs, k, v), k) /\ SetState(cs, k, v)[k].state = v
           /\ SetState(cs, k, v)[k].isAlive = cs[k].isAlive /\ SetState(cs, k, v)[k].connectionID = cs[k].connectionID /\ SetState(cs, k, v)[k].receiver = cs[k].receiver
           /\ SetState(cs, k, v)[k].rxInfo = cs[k].rxInfo /\ SetState(cs, k, v)[k].peer = cs[k].peer /\ SetState(cs, k, v)[k].registered = cs[k].registered
           /\ SetState(cs, k, v)[k].lines = cs[k].lines
<1>d. PICK ds : ds = SetState(cs, k, v)
  OBVIOUS
<1> DEFINE r == [cs[k] EXCEPT !.state = v]
<1>0. cs[k] \in ConnRecord
  BY ElementOfSeq, LenProperties
<1>1. r \in ConnRecord
  BY <1>0 DEF ConnRecord, Pairs, Pointers
<1>2. /\ r.state = v
      /\ r.isAlive = cs[k].isAlive /\ r.connectionID = cs[k].connectionID /\ r.receiver = cs[k].receiver
      /\ r.rxInfo = cs[k].rxInfo /\ r.peer = cs[k].peer /\ r.registered = cs[k].registered
      /\ r.lines = cs[k].lines
  BY <1>0 DEF ConnRecord
<1>3. ds = WithConn(cs, k, r)
  BY <1>d DEF SetState, WithConn
<1> HIDE DEF r
<1>4. /\ ds \in Seq(ConnRecord) /\ DOMAIN ds = DOMAIN cs
      /\ \A q \in DOMAIN cs : ds[q] = IF q = k THEN r ELSE cs[q]
  BY <1>1, <1>3, NewConn
<1> QED  BY <1>d, <1>2, <1>4 DEF OtherConns

\* Another listener.
LEMMA RegisteredSet ==
    ASSUME NEW cs \in Seq(ConnRecord), NEW k \in DOMAIN cs, NEW v \in Pairs
    PROVE  /\ SetRegistered(cs, k, v) \in Seq(ConnRecord) /\ OtherConns(cs, SetRegistered(cs, k, v), k) /\ SetRegistered(cs, k, v)[k].registered = v
           /\ SetRegistered(cs, k, v)[k].isAlive = cs[k].isAlive /\ SetRegistered(cs, k, v)[k].connectionID = cs[k].connectionID /\ SetRegistered(cs, k, v)[k].state = cs[k].state
           /\ SetRegistered(cs, k, v)[k].receiver = cs[k].receiver /\ SetRegistered(cs, k, v)[k].rxInfo = cs[k].rxInfo /\ SetRegistered(cs, k, v)[k].peer = cs[k].peer
           /\ SetRegistered(cs, k, v)[k].lines = cs[k].lines
<1>d. PICK ds : ds = SetRegistered(cs, k, v)
  OBVIOUS
<1> DEFINE r == [cs[k] EXCEPT !.registered = v]
<1>0. cs[k] \in ConnRecord
  BY ElementOfSeq, LenProperties
<1>1. r \in ConnRecord
  BY <1>0 DEF ConnRecord, Pairs, Pointers
<1>2. /\ r.registered = v
      /\ r.isAlive = cs[k].isAlive /\ r.connectionID = cs[k].connectionID /\ r.state = cs[k].state
      /\ r.receiver = cs[k].receiver /\ r.rxInfo = cs[k].rxInfo /\ r.peer = cs[k].peer
      /\ r.lines = cs[k].lines
  BY <1>0 DEF ConnRecord
<1>3. ds = WithConn(cs, k, r)
  BY <1>d DEF SetRegistered, WithConn
<1> HIDE DEF r
<1>4. /\ ds \in Seq(ConnRecord) /\ DOMAIN ds = DOMAIN cs
      /\ \A q \in DOMAIN cs : ds[q] = IF q = k THEN r ELSE cs[q]
  BY <1>1, <1>3, NewConn
<1> QED  BY <1>d, <1>2, <1>4 DEF OtherConns

\* Both ends of a new link listen to each other.
Unused(cs, k, i) == cs[k].state = "IDLE" /\ cs[k].rxInfo = Null /\ cs[k].connectionID \in {Null, i}

\* Connections k and p may be linked, in slot i of a and in slot j of b.
MayLink(cs, k, p, a, b, i, j) ==
    /\ cs \in Seq(ConnRecord) /\ k \in DOMAIN cs /\ p \in DOMAIN cs /\ k # p
    /\ a \in Pointers /\ b \in Pointers /\ i \in Pointers /\ j \in Pointers
    /\ Unused(cs, k, i) /\ Unused(cs, p, j)

\* openConnection() and both registrations link two unused connections.
LEMMA LinkUp ==
    ASSUME NEW e, NEW k, NEW p, NEW a, NEW b, NEW i, NEW j, MayLink(e, k, p, a, b, i, j),
           NEW o, o = Linked(e, p, k, a),
           NEW ds, ds = SetPeer(Registered(Registered(o, p, b, j), k, a, i), k, b)
    PROVE  /\ MayRegister(o, p, j)
           /\ ds \in Seq(ConnRecord) /\ DOMAIN ds = DOMAIN e
           /\ \A q \in DOMAIN e : q \notin {k, p} => ds[q] = e[q]
           /\ End(ds, a, k, b, p) /\ End(ds, b, p, a, k)
           /\ ds[k].state = "IDLE" /\ ds[p].state = "IDLE"
           /\ ds[k].isAlive = e[k].isAlive /\ ds[p].isAlive = e[p].isAlive
           /\ ds[k].connectionID = i /\ ds[p].connectionID = j
           /\ ds[k].lines = e[k].lines /\ ds[p].lines = e[p].lines
<1>e. e \in Seq(ConnRecord) /\ k \in DOMAIN e /\ p \in DOMAIN e
  BY DEF MayLink
<1>ab. a \in Pointers /\ b \in Pointers
  BY DEF MayLink
<1>ij. i \in Pointers /\ j \in Pointers
  BY DEF MayLink
<1>u. Unused(e, k, i) /\ Unused(e, p, j)
  BY DEF MayLink
<1>n. k # p
  BY DEF MayLink
<1>0. k \in Pointers /\ p \in Pointers
  BY <1>e, LenProperties DEF Pointers
<1>k. k # Null /\ p # Null
  BY <1>e, LenProperties DEF Null
<1>z. PICK bp, ak : bp = <<b, p>> /\ ak = <<a, k>>
  OBVIOUS
<1>r. bp \in Pairs /\ ak \in Pairs
  BY <1>0, <1>ab, <1>z DEF Pairs, Pointers
<1>f1. PICK f1 : f1 = SetPeer(e, p, a)
  OBVIOUS
<1>1. /\ f1 \in Seq(ConnRecord) /\ OtherConns(e, f1, p) /\ f1[p].peer = a
      /\ f1[p].isAlive = e[p].isAlive /\ f1[p].connectionID = e[p].connectionID
      /\ f1[p].state = e[p].state /\ f1[p].rxInfo = e[p].rxInfo /\ f1[p].lines = e[p].lines
  BY <1>e, <1>ab, <1>f1, PeerSet
<1>1d. k \in DOMAIN f1 /\ p \in DOMAIN f1
  BY <1>e, <1>1 DEF OtherConns
<1>f2. PICK f2 : f2 = SetRx(f1, p, k)
  OBVIOUS
<1>1t. f1 \in Seq(ConnRecord)
  BY <1>1
<1>2. /\ f2 \in Seq(ConnRecord) /\ OtherConns(f1, f2, p) /\ f2[p].rxInfo = k
      /\ f2[p].isAlive = f1[p].isAlive /\ f2[p].connectionID = f1[p].connectionID
      /\ f2[p].state = f1[p].state /\ f2[p].peer = f1[p].peer /\ f2[p].lines = f1[p].lines
  BY <1>f2, <1>0, <1>1t, <1>1d, RxSet, ZenonT(40)
<1>2d. k \in DOMAIN f2 /\ p \in DOMAIN f2
  BY <1>1d, <1>2 DEF OtherConns
<1>f3. PICK f3 : f3 = SetRx(f2, k, p)
  OBVIOUS
<1>2t. f2 \in Seq(ConnRecord)
  BY <1>2
<1>3. /\ f3 \in Seq(ConnRecord) /\ OtherConns(f2, f3, k) /\ f3[k].rxInfo = p
      /\ f3[k].isAlive = f2[k].isAlive /\ f3[k].connectionID = f2[k].connectionID
      /\ f3[k].state = f2[k].state /\ f3[k].lines = f2[k].lines
  BY <1>f3, <1>0, <1>2t, <1>2d, RxSet
<1>3d. k \in DOMAIN f3 /\ p \in DOMAIN f3
  BY <1>2d, <1>3 DEF OtherConns
<1>o. o = f3
  <2>1. o = [e EXCEPT ![p].peer = a, ![p].rxInfo = k, ![k].rxInfo = p]
    BY <1>u, <1>n DEF Linked, Unused
  <2>2. [e EXCEPT ![p].peer = a, ![p].rxInfo = k, ![k].rxInfo = p] = SetRx(SetRx(SetPeer(e, p, a), p, k), k, p)
    BY <1>n DEF SetRx, SetPeer
  <2> QED  BY <1>f1, <1>f2, <1>f3, <2>1, <2>2
<1>m. /\ f3[p].state = "IDLE" /\ f3[p].rxInfo = k /\ f3[p].connectionID \in {Null, j}
      /\ f3[k].state = "IDLE" /\ f3[k].rxInfo = p /\ f3[k].connectionID \in {Null, i}
      /\ f3[p].peer = a
  BY <1>0, <1>e, <1>n, <1>u, <1>1, <1>2, <1>3 DEF OtherConns, Unused
<1>4. MayRegister(o, p, j)
  BY <1>k, <1>o, <1>m DEF MayRegister
<1>f4. PICK f4 : f4 = SetID(f3, p, j)
  OBVIOUS
<1>3t. f3 \in Seq(ConnRecord)
  BY <1>3
<1>5. /\ f4 \in Seq(ConnRecord) /\ OtherConns(f3, f4, p) /\ f4[p].connectionID = j
      /\ f4[p].isAlive = f3[p].isAlive /\ f4[p].rxInfo = f3[p].rxInfo
      /\ f4[p].state = f3[p].state /\ f4[p].peer = f3[p].peer /\ f4[p].lines = f3[p].lines
  BY <1>f4, <1>3t, <1>3d, <1>ij, IDSet, ZenonT(40)
<1>5d. k \in DOMAIN f4 /\ p \in DOMAIN f4
  BY <1>3d, <1>5 DEF OtherConns
<1>f5. PICK f5 : f5 = SetReceiver(f4, p, b)
  OBVIOUS
<1>5t. f4 \in Seq(ConnRecord)
  BY <1>5
<1>6. /\ f5 \in Seq(ConnRecord) /\ OtherConns(f4, f5, p) /\ f5[p].receiver = b
      /\ f5[p].isAlive = f4[p].isAlive /\ f5[p].rxInfo = f4[p].rxInfo /\ f5[p].connectionID = f4[p].connectionID
      /\ f5[p].state = f4[p].state /\ f5[p].peer = f4[p].peer /\ f5[p].lines = f4[p].lines
  BY <1>f5, <1>5t, <1>5d, <1>ab, ReceiverSet
<1>6d. k \in DOMAIN f5 /\ p \in DOMAIN f5
  BY <1>5d, <1>6 DEF OtherConns
<1>f6. PICK f6 : f6 = SetRegistered(f5, k, bp)
  OBVIOUS
<1>6t. f5 \in Seq(ConnRecord)
  BY <1>6
<1>7. /\ f6 \in Seq(ConnRecord) /\ OtherConns(f5, f6, k) /\ f6[k].registered = bp
      /\ f6[k].isAlive = f5[k].isAlive /\ f6[k].rxInfo = f5[k].rxInfo /\ f6[k].connectionID = f5[k].connectionID
      /\ f6[k].state = f5[k].state /\ f6[k].lines = f5[k].lines
  BY <1>f6, <1>r, <1>6t, <1>6d, RegisteredSet
<1>7d. k \in DOMAIN f6 /\ p \in DOMAIN f6
  BY <1>6d, <1>7 DEF OtherConns
<1>s. Registered(o, p, b, j) = f6
  <2>1. o[p].rxInfo = k
    BY <1>o, <1>m
  <2>2. Registered(o, p, b, j) = [o EXCEPT ![p].connectionID = j, ![p].receiver = b, ![k].registered = <<b, p>>]
    BY <1>4, <2>1 DEF Registered
  <2>3. [f3 EXCEPT ![p].connectionID = j, ![p].receiver = b, ![k].registered = bp]
          = SetRegistered(SetReceiver(SetID(f3, p, j), p, b), k, bp)
    BY <1>n DEF SetRegistered, SetReceiver, SetID
  <2> QED  BY <1>z, <1>f4, <1>f5, <1>f6, <1>o, <2>2, <2>3
<1>nn. /\ f6[k].state = "IDLE" /\ f6[k].rxInfo = p /\ f6[k].connectionID \in {Null, i}
  BY <1>e, <1>n, <1>m, <1>3d, <1>5, <1>6, <1>7 DEF OtherConns
<1>f7. PICK f7 : f7 = SetID(f6, k, i)
  OBVIOUS
<1>7t. f6 \in Seq(ConnRecord)
  BY <1>7
<1>8. /\ f7 \in Seq(ConnRecord) /\ OtherConns(f6, f7, k) /\ f7[k].connectionID = i
      /\ f7[k].isAlive = f6[k].isAlive /\ f7[k].rxInfo = f6[k].rxInfo /\ f7[k].registered = f6[k].registered
      /\ f7[k].state = f6[k].state /\ f7[k].lines = f6[k].lines
  BY <1>f7, <1>7t, <1>7d, <1>ij, IDSet
<1>8d. k \in DOMAIN f7 /\ p \in DOMAIN f7
  BY <1>7d, <1>8 DEF OtherConns
<1>f8. PICK f8 : f8 = SetReceiver(f7, k, a)
  OBVIOUS
<1>8t. f7 \in Seq(ConnRecord)
  BY <1>8
<1>9. /\ f8 \in Seq(ConnRecord) /\ OtherConns(f7, f8, k) /\ f8[k].receiver = a
      /\ f8[k].isAlive = f7[k].isAlive /\ f8[k].rxInfo = f7[k].rxInfo /\ f8[k].registered = f7[k].registered
      /\ f8[k].connectionID = f7[k].connectionID
      /\ f8[k].state = f7[k].state /\ f8[k].lines = f7[k].lines
  BY <1>f8, <1>8t, <1>8d, <1>ab, ReceiverSet
<1>9d. k \in DOMAIN f8 /\ p \in DOMAIN f8
  BY <1>8d, <1>9 DEF OtherConns
<1>f9. PICK f9 : f9 = SetRegistered(f8, p, ak)
  OBVIOUS
<1>9t. f8 \in Seq(ConnRecord)
  BY <1>9
<1>10. /\ f9 \in Seq(ConnRecord) /\ OtherConns(f8, f9, p) /\ f9[p].registered = ak
       /\ f9[p].isAlive = f8[p].isAlive /\ f9[p].rxInfo = f8[p].rxInfo /\ f9[p].connectionID = f8[p].connectionID
       /\ f9[p].receiver = f8[p].receiver /\ f9[p].peer = f8[p].peer
       /\ f9[p].state = f8[p].state /\ f9[p].lines = f8[p].lines
  BY <1>f9, <1>r, <1>9t, <1>9d, RegisteredSet
<1>10d. k \in DOMAIN f9 /\ p \in DOMAIN f9
  BY <1>9d, <1>10 DEF OtherConns
<1>t. Registered(f6, k, a, i) = f9
  <2>1. MayRegister(f6, k, i)
    BY <1>k, <1>nn DEF MayRegister
  <2>2. Registered(f6, k, a, i) = [f6 EXCEPT ![k].connectionID = i, ![k].receiver = a, ![p].registered = <<a, k>>]
    BY <1>nn, <2>1 DEF Registered
  <2>3. [f6 EXCEPT ![k].connectionID = i, ![k].receiver = a, ![p].registered = ak]
          = SetRegistered(SetReceiver(SetID(f6, k, i), k, a), p, ak)
    BY <1>n DEF SetRegistered, SetReceiver, SetID
  <2> QED  BY <1>z, <1>f7, <1>f8, <1>f9, <2>2, <2>3
<1>10t. f9 \in Seq(ConnRecord)
  BY <1>10
<1>11. ds = SetPeer(f9, k, b)
  BY <1>s, <1>t
<1>12. /\ ds \in Seq(ConnRecord) /\ OtherConns(f9, ds, k) /\ ds[k].peer = b
       /\ ds[k].isAlive = f9[k].isAlive /\ ds[k].rxInfo = f9[k].rxInfo /\ ds[k].connectionID = f9[k].connectionID
       /\ ds[k].receiver = f9[k].receiver /\ ds[k].registered = f9[k].registered
       /\ ds[k].state = f9[k].state /\ ds[k].lines = f9[k].lines
  BY <1>ab, <1>10t, <1>10d, <1>11, PeerSet
<1>13. DOMAIN ds = DOMAIN e /\ \A q \in DOMAIN e : q \notin {k, p} => ds[q] = e[q]
  BY <1>e, <1>n, <1>u, <1>1, <1>2, <1>3, <1>5, <1>6, <1>7, <1>8, <1>9, <1>10, <1>12 DEF OtherConns, Unused
<1>14. /\ ds[k].isAlive = e[k].isAlive /\ ds[k].lines = e[k].lines /\ ds[k].state = "IDLE"
       /\ ds[k].connectionID = i /\ ds[k].peer = b /\ ds[k].rxInfo = p /\ ds[k].receiver = a
       /\ ds[k].registered = bp
  BY <1>e, <1>n, <1>u, <1>1, <1>2, <1>3, <1>5, <1>6, <1>7, <1>8, <1>9, <1>10, <1>12 DEF OtherConns, Unused
<1>15. /\ ds[p].isAlive = e[p].isAlive /\ ds[p].lines = e[p].lines /\ ds[p].state = "IDLE"
       /\ ds[p].connectionID = j /\ ds[p].peer = a /\ ds[p].rxInfo = k /\ ds[p].receiver = b
       /\ ds[p].registered = ak
  BY <1>e, <1>n, <1>u, <1>1, <1>2, <1>3, <1>5, <1>6, <1>7, <1>8, <1>9, <1>10, <1>10d, <1>12 DEF OtherConns, Unused
<1> QED
  BY <1>z, <1>4, <1>12, <1>13, <1>14, <1>15 DEF End, Listens

-----------------------------------------------------------------------------
(* A free connection                                                       *)

\* Slot i of n can be taken.
IsFree(n, i) == nodes[n].connection[i] = Null \/ conns[nodes[n].connection[i]].state = "IDLE"

\* FreeSlot is a free one, if there is one.
LEMMA FreeSlotIsFree ==
    ASSUME NEW n, NEW i \in Slot, IsFree(n, i)
    PROVE  FreeSlot(n) \in Slot /\ IsFree(n, FreeSlot(n))
<1> DEFINE isFirst(h) == IsFree(n, h) /\ \A j \in 1 .. h - 1 : ~IsFree(n, j)
<1>1. \E h \in Slot : isFirst(h)
  <2>1. CASE IsFree(n, 1)
    <3>1. isFirst(1)
      BY <2>1
    <3> QED  BY <3>1 DEF Slot
  <2>2. CASE ~IsFree(n, 1) /\ IsFree(n, 2)
    <3>1. \A j \in 1 .. 2 - 1 : j = 1
      OBVIOUS
    <3>2. isFirst(2)
      BY <2>2, <3>1
    <3> QED  BY <3>2 DEF Slot
  <2>3. CASE ~IsFree(n, 1) /\ ~IsFree(n, 2) /\ IsFree(n, 3)
    <3>1. \A j \in 1 .. 3 - 1 : j = 1 \/ j = 2
      OBVIOUS
    <3>2. isFirst(3)
      BY <2>3, <3>1
    <3> QED  BY <3>2 DEF Slot
  <2>4. CASE ~IsFree(n, 1) /\ ~IsFree(n, 2) /\ ~IsFree(n, 3) /\ IsFree(n, 4)
    <3>1. \A j \in 1 .. 4 - 1 : j = 1 \/ j = 2 \/ j = 3
      OBVIOUS
    <3>2. isFirst(4)
      BY <2>4, <3>1
    <3> QED  BY <3>2 DEF Slot
  <2>5. i = 1 \/ i = 2 \/ i = 3 \/ i = 4
    BY DEF Slot
  <2> QED  BY <2>1, <2>2, <2>3, <2>4, <2>5
<1>2. FreeSlot(n) = CHOOSE h \in Slot : isFirst(h)
  BY DEF FreeSlot, IsFree
<1> HIDE DEF isFirst
<1>3. FreeSlot(n) \in Slot /\ isFirst(FreeSlot(n))
  BY <1>1, <1>2
<1> QED  BY <1>3 DEF isFirst

\* A connection that is not free is linked with a PlugNode that lives.
LEMMA TakenByPeer ==
    ASSUME Typed, Base(nodes, conns, contact, shutDown), Settled(nodes, conns, {}, Null),
           NEW n, Lives(nodes, n), NEW i \in Slot, ~IsFree(n, i), NEW k, k = nodes[n].connection[i]
    PROVE  /\ Has(nodes, n, i, k) /\ Lives(nodes, conns[k].peer) /\ conns[k].peer # n /\ conns[k].peer # Null
           /\ \E j \in DOMAIN conns : Link(conns, n, k, conns[k].peer, j) /\ Owns(nodes, conns[k].peer, j)
<1>1. Has(nodes, n, i, k) /\ conns[k].state # "IDLE"
  BY DEF Has, IsFree
<1>2. n # Null /\ Null \notin DOMAIN nodes
  BY Objects DEF Lives
<1>3. ~Clean(conns[k]) /\ k \notin {}
  BY <1>1 DEF Clean
<1>4. PICK m \in DOMAIN nodes \ {n}, j \in DOMAIN conns : Link(conns, n, k, m, j) /\ Owns(nodes, m, j)
  BY <1>1, <1>2, <1>3, SettledFacts
<1>5. conns[k].peer = m
  BY <1>4 DEF Link, End
<1>6. Lives(nodes, m)
  BY <1>4 DEF Owns, Has
<1> QED  BY <1>1, <1>2, <1>4, <1>5, <1>6

\* While not more than five PlugNodes live, one that does not have another as
\* a peer has a free connection.
LEMMA FreeSlotExists ==
    ASSUME Typed, FewLive(nodes), Base(nodes, conns, contact, shutDown),
           Settled(nodes, conns, {}, Null), NEW n, NEW o, Lives(nodes, n), Lives(nodes, o), n # o,
           \A i, k : Has(nodes, n, i, k) => conns[k].peer # o
    PROVE  FreeSlot(n) \in Slot /\ IsFree(n, FreeSlot(n))
<1> SUFFICES ASSUME \A i \in Slot : ~IsFree(n, i)
             PROVE  FALSE
  BY FreeSlotIsFree
<1> DEFINE f == nodes[n].connection
           Peer(i) == conns[f[i]].peer
           S == {w \in DOMAIN nodes : nodes[w].isAlive}
<1>1. ASSUME NEW i \in Slot
      PROVE  /\ Has(nodes, n, i, f[i]) /\ Lives(nodes, Peer(i)) /\ Peer(i) # n /\ Peer(i) # Null
             /\ Peer(i) # o
  BY TakenByPeer
<1>2. ASSUME NEW i \in Slot, NEW h \in Slot, i # h
      PROVE  Peer(i) # Peer(h)
  <2>1. Has(nodes, n, i, f[i]) /\ Has(nodes, n, h, f[h]) /\ Peer(i) # Null
    BY <1>1
  <2>2. Distinct(nodes, conns)
    BY DEF Base
  <2> QED  BY <1>2, <2>1, <2>2, DistinctFacts
<1>3. 1 \in Slot /\ 2 \in Slot /\ 3 \in Slot /\ 4 \in Slot
  BY DEF Slot
<1>4. n \in S /\ o \in S /\ Peer(1) \in S /\ Peer(2) \in S /\ Peer(3) \in S /\ Peer(4) \in S
  BY <1>1, <1>3 DEF Lives
<1>5. IsFiniteSet(S)
  <2>1. S \subseteq 1 .. Len(nodes) /\ Len(nodes) \in Nat
    BY Objects
  <2>2. IsFiniteSet(1 .. Len(nodes))
    BY <2>1, FS_Interval
  <2> QED  BY <2>1, <2>2, FS_Subset
<1>6. /\ Peer(1) \notin {n, o} /\ Peer(2) \notin {n, o, Peer(1)}
      /\ Peer(3) \notin {n, o, Peer(1), Peer(2)}
      /\ Peer(4) \notin {n, o, Peer(1), Peer(2), Peer(3)}
  <2>1. \A i \in Slot : Peer(i) # n /\ Peer(i) # o
    BY <1>1
  <2>2. /\ Peer(2) # Peer(1) /\ Peer(3) # Peer(1) /\ Peer(3) # Peer(2)
        /\ Peer(4) # Peer(1) /\ Peer(4) # Peer(2) /\ Peer(4) # Peer(3)
    BY <1>2, <1>3
  <2> QED  BY <1>3, <2>1, <2>2
<1>7. Cardinality(S) <= 5
  BY DEF FewLive
<1>8. Cardinality(S) \in Nat
  BY <1>5, FS_CardinalityType
<1> HIDE DEF S, f, Peer
<1>9. Cardinality(S) > 5
  BY <1>4, <1>5, <1>6, SixAreMore
<1> QED  BY <1>7, <1>8, <1>9

-----------------------------------------------------------------------------
(* joinNetwork()                                                           *)

\* The connections, and the one that is taken, if slot content q is taken.
Grown(cs, q) == IF q = Null THEN Append(cs, NewConnection) ELSE cs
Taken(cs, q) == IF q = Null THEN Len(cs) + 1 ELSE q

TakesOne(cs, q, e, k) ==
    /\ e \in Seq(ConnRecord) /\ k \in DOMAIN e /\ k # Null /\ DOMAIN e = DOMAIN cs \cup {k}
    /\ \A r \in DOMAIN cs : e[r] = cs[r]
    /\ q = Null => k \notin DOMAIN cs /\ e[k] = NewConnection
    /\ q # Null => k = q

\* A slot gives its connection, or a new one.
LEMMA TakeOne ==
    ASSUME NEW cs, cs \in Seq(ConnRecord), NEW q, q \in {Null} \cup DOMAIN cs
    PROVE  TakesOne(cs, q, Grown(cs, q), Taken(cs, q))
<1>0. NewConnection \in ConnRecord
  BY DEF NewConnection, ConnRecord, State, Null
<1>1. DOMAIN cs = 1 .. Len(cs) /\ Len(cs) \in Nat
  BY LenProperties
<1>2. CASE q = Null
  <2>1. /\ Append(cs, NewConnection) \in Seq(ConnRecord)
        /\ Len(Append(cs, NewConnection)) = Len(cs) + 1
        /\ \A r \in 1 .. Len(cs) : Append(cs, NewConnection)[r] = cs[r]
        /\ Append(cs, NewConnection)[Len(cs) + 1] = NewConnection
    BY <1>0, <1>1, AppendProperties
  <2>2. DOMAIN Append(cs, NewConnection) = 1 .. Len(cs) + 1
    BY <2>1, LenProperties
  <2> QED  BY <1>1, <1>2, <2>1, <2>2 DEF TakesOne, Grown, Taken, Null
<1>3. CASE q # Null
  BY <1>1, <1>3 DEF TakesOne, Grown, Taken, Null
<1> QED  BY <1>2, <1>3

\* The PlugNodes after b has been linked at a.
JoinNodes(a, b, i, j, k, p, id) ==
    [[nodes EXCEPT ![b].contactID = id, ![a].connection[i] = k,
                   ![a].connectionSwitch = nodes[a].connectionSwitch]
         EXCEPT ![b].connection[j] = p]

\* joinNetwork() of a peer only gives it an ID.
LEMMA JoinKnown ==
    ASSUME JoinNetwork, NEW a, NEW b, Call.at = a, Call.for = b,
           \E c \in Connections(a) : conns[c].peer = b
    PROVE  /\ nodes' = [nodes EXCEPT ![b].contactID = Call.id] /\ conns' = conns
           /\ Then(<<>>) /\ UNCHANGED <<contact, shutDown>>
BY DEF JoinNetwork

\* joinNetwork() with a free slot at both opens a connection at each.
LEMMA JoinOpens ==
    ASSUME JoinNetwork, NEW a, NEW b, Call.at = a, Call.for = b,
           ~\E c \in Connections(a) : conns[c].peer = b,
           NEW i, i = FreeSlot(a), i # Null, NEW j, j = FreeSlot(b), j # Null,
           NEW g, g = Grown(conns, nodes[a].connection[i]), NEW k, k = Taken(conns, nodes[a].connection[i]),
           NEW e, e = Grown(g, nodes[b].connection[j]), NEW p, p = Taken(g, nodes[b].connection[j]),
           NEW o, o = Linked(e, p, k, a), MayRegister(o, p, j)
    PROVE  /\ nodes' = JoinNodes(a, b, i, j, k, p, Call.id)
           /\ conns' = SetPeer(Registered(Registered(o, p, b, j), k, a, i), k, b)
           /\ Then(<<SwitchAccess(a), Send(p, "CHECKIN", Null)>>)
           /\ UNCHANGED <<contact, shutDown>>
BY ZenonT(60) DEF JoinNetwork, Grown, Taken, JoinNodes, SetPeer

\* Slots of the PlugNodes.
WithSlot(r, i, k, id) == [r EXCEPT !.contactID = id, !.connection[i] = k]

\* A PlugNode with another connection in one slot.
LEMMA OneSlot ==
    ASSUME NEW r \in NodeRecord, NEW i \in Slot, NEW k \in Pointers, NEW id \in Pointers
    PROVE  /\ WithSlot(r, i, k, id) \in NodeRecord /\ WithSlot(r, i, k, id).isAlive = r.isAlive
           /\ WithSlot(r, i, k, id).connectionSwitch = r.connectionSwitch
           /\ WithSlot(r, i, k, id).peers = r.peers
           /\ \A h \in Slot : WithSlot(r, i, k, id).connection[h] = IF h = i THEN k ELSE r.connection[h]
BY DEF NodeRecord, Pointers, WithSlot

\* Two PlugNodes change.
LEMMA TwoNodes ==
    ASSUME NEW ns \in Seq(NodeRecord), NEW a \in DOMAIN ns, NEW b \in DOMAIN ns, a # b,
           NEW ra \in NodeRecord, NEW rb \in NodeRecord, NEW ms,
           ms = [ns EXCEPT ![a] = ra, ![b] = rb]
    PROVE  /\ ms \in Seq(NodeRecord) /\ DOMAIN ms = DOMAIN ns /\ ms[a] = ra /\ ms[b] = rb
           /\ \A n \in DOMAIN ns : n # a /\ n # b => ms[n] = ns[n]
<1>1. [ns EXCEPT ![a] = ra] \in Seq(NodeRecord) /\ DOMAIN [ns EXCEPT ![a] = ra] = DOMAIN ns
  BY ExceptSeq
<1>2. [[ns EXCEPT ![a] = ra] EXCEPT ![b] = rb] \in Seq(NodeRecord)
  BY <1>1, ExceptSeq
<1>3. ms = [[ns EXCEPT ![a] = ra] EXCEPT ![b] = rb]
  OBVIOUS
<1> QED  BY <1>2, <1>3

\* Different PlugNodes, slots, connections and a contact ID.
JoinData(a, b, i, j, k, p, id) ==
    /\ a \in DOMAIN nodes /\ b \in DOMAIN nodes /\ a # b /\ i \in Slot /\ j \in Slot
    /\ k \in Pointers /\ p \in Pointers /\ id \in Pointers

\* The two PlugNodes get their connections, and nobody else does.
LEMMA JoinNodesFacts ==
    ASSUME Typed, NEW a, NEW b, NEW i, NEW j, NEW k, NEW p, NEW id, JoinData(a, b, i, j, k, p, id), NEW ms,
           ms = JoinNodes(a, b, i, j, k, p, id)
    PROVE  /\ ms \in Seq(NodeRecord) /\ DOMAIN ms = DOMAIN nodes
           /\ \A n \in DOMAIN nodes :
                 /\ ms[n].isAlive = nodes[n].isAlive /\ ms[n].connectionSwitch = nodes[n].connectionSwitch
                 /\ ms[n].peers = nodes[n].peers
                 /\ \A h \in Slot : ms[n].connection[h] =
                       IF n = a /\ h = i THEN k ELSE IF n = b /\ h = j THEN p ELSE nodes[n].connection[h]
<1>a. a \in DOMAIN nodes /\ i \in Slot /\ k \in Pointers
  BY DEF JoinData
<1>b. b \in DOMAIN nodes /\ j \in Slot /\ p \in Pointers /\ id \in Pointers
  BY DEF JoinData
<1>n. a # b
  BY DEF JoinData
<1>1. nodes \in Seq(NodeRecord)
  BY DEF Typed
<1>ra. nodes[a] \in NodeRecord
  BY <1>a, Objects
<1>rb. nodes[b] \in NodeRecord
  BY <1>b, Objects
<1>2. nodes[a].contactID \in Pointers
  BY <1>ra DEF NodeRecord, Pointers
<1>3. PICK ra : ra = WithSlot(nodes[a], i, k, nodes[a].contactID)
  OBVIOUS
<1>4. PICK rb : rb = WithSlot(nodes[b], j, p, id)
  OBVIOUS
<1>5. /\ ra \in NodeRecord /\ ra.isAlive = nodes[a].isAlive
      /\ ra.connectionSwitch = nodes[a].connectionSwitch /\ ra.peers = nodes[a].peers
      /\ \A h \in Slot : ra.connection[h] = IF h = i THEN k ELSE nodes[a].connection[h]
  BY <1>a, <1>ra, <1>2, <1>3, OneSlot
<1>6. /\ rb \in NodeRecord /\ rb.isAlive = nodes[b].isAlive
      /\ rb.connectionSwitch = nodes[b].connectionSwitch /\ rb.peers = nodes[b].peers
      /\ \A h \in Slot : rb.connection[h] = IF h = j THEN p ELSE nodes[b].connection[h]
  BY <1>b, <1>rb, <1>4, OneSlot
<1>7. ms = [nodes EXCEPT ![a] = ra, ![b] = rb]
  BY <1>a, <1>b, <1>n, <1>1, <1>ra, <1>rb, <1>3, <1>4 DEF JoinNodes, NodeRecord, WithSlot
<1>8. /\ ms \in Seq(NodeRecord) /\ DOMAIN ms = DOMAIN nodes /\ ms[a] = ra /\ ms[b] = rb
      /\ \A n \in DOMAIN nodes : n # a /\ n # b => ms[n] = nodes[n]
  BY <1>a, <1>b, <1>n, <1>1, <1>5, <1>6, <1>7, TwoNodes
<1> QED  BY <1>a, <1>b, <1>n, <1>5, <1>6, <1>8

\* Another contact ID.
WithContactID(ns, b, id) == [ns EXCEPT ![b].contactID = id]

\* Another ID changes neither connections nor peers.
LEMMA NewContactID ==
    ASSUME Typed, NEW b \in DOMAIN nodes, NEW id \in Pointers, NEW ms, ms = WithContactID(nodes, b, id)
    PROVE  /\ ms \in Seq(NodeRecord) /\ SameNodes(nodes, ms)
           /\ \A n \in DOMAIN nodes : ms[n].peers = nodes[n].peers
<1>1. nodes \in Seq(NodeRecord) /\ nodes[b] \in NodeRecord
  BY Objects DEF Typed
<1>2. PICK r : r = [nodes[b] EXCEPT !.contactID = id]
  OBVIOUS
<1>3. /\ r \in NodeRecord /\ r.isAlive = nodes[b].isAlive /\ r.connection = nodes[b].connection
      /\ r.connectionSwitch = nodes[b].connectionSwitch /\ r.peers = nodes[b].peers
  BY <1>1, <1>2 DEF NodeRecord, Pointers
<1>4. ms = [nodes EXCEPT ![b] = r]
  BY <1>2 DEF WithContactID
<1>5. [nodes EXCEPT ![b] = r] \in Seq(NodeRecord)
  BY <1>1, <1>3, ExceptSeq
<1> QED  BY <1>1, <1>3, <1>4, <1>5 DEF SameNodes

\* What the call says.
LEMMA JoinCall ==
    ASSUME Typed, NEW c, NEW a, NEW b, AtJoin(nodes, conns, c, todo, a, b), Step
    PROVE  /\ todo # <<>> /\ JoinNetwork /\ Call.at = a /\ Call.for = b /\ Call.id \in Pointers
           /\ a \in DOMAIN nodes /\ b \in DOMAIN nodes /\ a # b
<1>1. todo # <<>> /\ Head(todo).call = "join" /\ Head(todo).at = a /\ Head(todo).for = b
  BY DEF AtJoin
<1>2. JoinNetwork
  BY <1>1, StepByCall
<1>3. Head(todo) \in CallRecord
  BY <1>1, PopCall DEF Typed
<1>4. Head(todo).id \in Pointers
  BY <1>1, <1>3 DEF CallRecord, Pointers
<1> QED  BY <1>1, <1>2, <1>4 DEF Call, AtJoin, Lives

\* One of a's connections has b as its peer: then b has one with a.
LEMMA PeerOfPeer ==
    ASSUME Typed, Settled(nodes, conns, {}, Null), NEW a, NEW i, NEW k, NEW b, Has(nodes, a, i, k),
           conns[k].peer = b, b # Null
    PROVE  \E j \in DOMAIN conns : Owns(nodes, b, j) /\ Link(conns, a, k, b, j)
<1>1. a # Null
  BY Objects DEF Has, Lives
<1>2. ~Clean(conns[k]) /\ k \notin {}
  BY DEF Clean
<1>3. PICK m \in DOMAIN nodes \ {a}, j \in DOMAIN conns : Link(conns, a, k, m, j) /\ Owns(nodes, m, j)
  BY <1>1, <1>2, SettledFacts
<1>4. m = b
  BY <1>3 DEF Link, End
<1> QED  BY <1>3, <1>4

\* Nothing happens if b is a peer of a.
LEMMA JoinKnownStep ==
    ASSUME Sound, Step, NEW a, NEW b, AtJoin(nodes, conns, contact, todo, a, b),
           \E q \in Connections(a) : conns[q].peer = b
    PROVE  Sound'
<1>0. Typed /\ Base(nodes, conns, contact, shutDown) /\ Owned(nodes, conns) /\ Null \notin DOMAIN nodes
  BY Objects DEF Sound, Base
<1>1. /\ todo # <<>> /\ JoinNetwork /\ Call.at = a /\ Call.for = b /\ Call.id \in Pointers
      /\ a \in DOMAIN nodes /\ b \in DOMAIN nodes /\ a # b
  BY <1>0, JoinCall
<1>2. /\ Lives(nodes, a) /\ Lives(nodes, b) /\ Contacts(nodes, conns, {}, b, Tail(todo))
      /\ AllRead(conns, Null) /\ Settled(nodes, conns, {}, Null) /\ Counted(nodes, conns, Null, Null)
      /\ Star(nodes, conns, contact, IF a = contact THEN {b} ELSE {})
  BY DEF AtJoin
<1>3. PICK q : q \in Connections(a) /\ conns[q].peer = b
  OBVIOUS
<1>4. PICK i : Has(nodes, a, i, q)
  BY <1>2, <1>3 DEF Connections, Has
<1>5. Star(nodes, conns, contact, {})
  <2>1. CASE a # contact
    BY <1>2, <2>1
  <2>2. CASE a = contact
    <3>1. PICK j \in DOMAIN conns : Owns(nodes, b, j) /\ Link(conns, a, q, b, j)
      BY <1>0, <1>1, <1>2, <1>3, <1>4, PeerOfPeer
    <3>2. PICK h : Has(nodes, b, h, j) /\ conns[j].peer = a
      BY <3>1 DEF Owns, Link, End
    <3>3. h \in Slot /\ j \in {nodes[b].connection[h]}
      BY <3>2 DEF Has
    <3>4. Star(nodes, conns, contact, {b})
      BY <1>2, <2>2
    <3> QED  BY <2>2, <3>2, <3>3, <3>4 DEF Star
  <2> QED  BY <2>1, <2>2
<1>6. Calm(nodes, conns, contact)
  BY <1>2, <1>5 DEF Calm
<1>7. /\ nodes' = [nodes EXCEPT ![b].contactID = Call.id] /\ conns' = conns
      /\ Then(<<>>) /\ UNCHANGED <<contact, shutDown>>
  BY <1>1, JoinKnown
<1>8. /\ nodes' \in Seq(NodeRecord) /\ SameNodes(nodes, nodes')
      /\ \A n \in DOMAIN nodes : nodes'[n].peers = nodes[n].peers
  <2>1. nodes' = WithContactID(nodes, b, Call.id)
    BY <1>7 DEF WithContactID
  <2> HIDE DEF Call
  <2> QED  BY <1>0, <1>1, <2>1, NewContactID
<1>9. todo' \in Seq(CallRecord) /\ todo' = Tail(todo)
  BY <1>0, <1>1, <1>7, ThenNone
<1>10. SameConns(conns, conns', {})
  BY <1>7 DEF SameConns, Same
<1>11. Base(nodes', conns', contact', shutDown') /\ Calm(nodes', conns', contact')
  <2>1. Base(nodes', conns', contact, shutDown)
    BY <1>0, <1>8, <1>10, BaseKept
  <2>2. Calm(nodes', conns', contact)
    BY <1>0, <1>6, <1>8, <1>10, CalmKept
  <2> QED  BY <1>7, <2>1, <2>2
<1>12. Typed'
  <2>1. localContactID' = localContactID
    BY <1>1 DEF JoinNetwork
  <2> QED  BY <1>0, <1>7, <1>8, <1>9, <2>1 DEF Typed
<1>13. AtRest(nodes', conns', contact', todo', b)
  <2>1. Contacts(nodes', conns', {}, b, todo')
    BY <1>2, <1>8, <1>9, <1>10, ContactsKept
  <2>2. Lives(nodes', b) /\ AllRead(conns', Null)
    BY <1>2, <1>7, <1>8, HasSame
  <2> QED  BY <1>11, <2>1, <2>2 DEF AtRest
<1>14. Stage(nodes', conns', contact', todo')
  <2>1. b \in DOMAIN nodes'
    BY <1>1, <1>8 DEF SameNodes
  <2> QED  BY <1>13, <2>1 DEF Stage
<1> QED  BY <1>11, <1>12, <1>14 DEF Sound

\* A connection that can be taken is new, or clean and of its own PlugNode.
LEMMA FreeFacts ==
    ASSUME Typed, Base(nodes, conns, contact, shutDown), Settled(nodes, conns, {}, Null),
           NEW n, Lives(nodes, n), NEW i \in Slot, IsFree(n, i), NEW q, q = nodes[n].connection[i]
    PROVE  /\ q \in {Null} \cup DOMAIN conns
           /\ q # Null => /\ Has(nodes, n, i, q) /\ Clean(conns[q])
                          /\ conns[q].isAlive /\ conns[q].connectionID = i
<1> SUFFICES ASSUME q # Null
             PROVE  /\ Has(nodes, n, i, q) /\ Clean(conns[q]) /\ q \in DOMAIN conns
                    /\ conns[q].isAlive /\ conns[q].connectionID = i
  OBVIOUS
<1>1. Has(nodes, n, i, q) /\ conns[q].state = "IDLE"
  BY DEF Has, IsFree
<1>2. q \in DOMAIN conns /\ conns[q].isAlive /\ conns[q].connectionID = i
  <2>1. Owned(nodes, conns)
    BY DEF Base
  <2> QED  BY <1>1, <2>1, OwnedFacts
<1>3. Clean(conns[q])
  <2> SUFFICES ASSUME ~Clean(conns[q])  PROVE FALSE
    OBVIOUS
  <2>1. PICK m \in DOMAIN nodes \ {n}, j \in DOMAIN conns : Link(conns, n, q, m, j)
    <3>1. n # Null /\ q \notin {}
      BY Objects DEF Lives
    <3> QED  BY <1>1, <3>1, SettledFacts
  <2>2. conns[q].state = "CONFIRM"
    BY <2>1 DEF Link
  <2> QED  BY <1>1, <2>2
<1> QED  BY <1>1, <1>2, <1>3

\* What is asked of the connections the new link is made of.
Room(a, b, i, j, k, p, e) ==
    /\ MayLink(e, k, p, a, b, i, j)
    /\ DOMAIN e = DOMAIN conns \cup {k, p} /\ \A q \in DOMAIN conns : e[q] = conns[q]
    /\ k # Null /\ e[k].isAlive /\ e[k].lines = <<>>
    /\ p # Null /\ e[p].isAlive /\ e[p].lines = <<>>
    /\ k \in DOMAIN conns => Has(nodes, a, i, k) /\ Clean(conns[k])
    /\ p \in DOMAIN conns => Has(nodes, b, j, p) /\ Clean(conns[p])
    /\ k \notin DOMAIN conns => nodes[a].connection[i] = Null
    /\ p \notin DOMAIN conns => nodes[b].connection[j] = Null

\* A new connection is unused.
LEMMA NewIsUnused ==
    ASSUME NEW cs, NEW k, cs[k] = NewConnection, NEW i
    PROVE  Unused(cs, k, i) /\ cs[k].isAlive /\ cs[k].lines = <<>>
BY DEF Unused, NewConnection

\* The connections joinNetwork() takes may be linked.
LEMMA JoinRoom ==
    ASSUME Typed, Base(nodes, conns, contact, shutDown), Settled(nodes, conns, {}, Null),
           AllRead(conns, Null), NEW a, NEW b, Lives(nodes, a), Lives(nodes, b), a # b,
           NEW i \in Slot, NEW j \in Slot, IsFree(a, i), IsFree(b, j),
           NEW g, g = Grown(conns, nodes[a].connection[i]), NEW k, k = Taken(conns, nodes[a].connection[i]),
           NEW e, e = Grown(g, nodes[b].connection[j]), NEW p, p = Taken(g, nodes[b].connection[j])
    PROVE  Room(a, b, i, j, k, p, e)
<1>0. PICK q, r : q = nodes[a].connection[i] /\ r = nodes[b].connection[j]
  OBVIOUS
<1>1. /\ q \in {Null} \cup DOMAIN conns
      /\ q # Null => /\ Has(nodes, a, i, q) /\ Clean(conns[q])
                     /\ conns[q].isAlive /\ conns[q].connectionID = i
  BY <1>0, FreeFacts
<1>2. /\ r \in {Null} \cup DOMAIN conns
      /\ r # Null => /\ Has(nodes, b, j, r) /\ Clean(conns[r])
                     /\ conns[r].isAlive /\ conns[r].connectionID = j
  BY <1>0, FreeFacts
<1>c. conns \in Seq(ConnRecord) /\ Null \notin DOMAIN conns
  BY Objects DEF Typed
<1>3. /\ g \in Seq(ConnRecord) /\ k \in DOMAIN g /\ k # Null /\ DOMAIN g = DOMAIN conns \cup {k}
      /\ \A t \in DOMAIN conns : g[t] = conns[t]
      /\ q = Null => k \notin DOMAIN conns /\ g[k] = NewConnection
      /\ q # Null => k = q
  <2>1. g = Grown(conns, q) /\ k = Taken(conns, q)
    BY <1>0
  <2>2. q \in {Null} \cup DOMAIN conns /\ conns \in Seq(ConnRecord)
    BY <1>1, <1>c
  <2>3. TakesOne(conns, q, g, k)
    BY <2>1, <2>2, TakeOne
  <2> QED  BY <2>3 DEF TakesOne
<1>4. /\ e \in Seq(ConnRecord) /\ p \in DOMAIN e /\ p # Null /\ DOMAIN e = DOMAIN g \cup {p}
      /\ \A t \in DOMAIN g : e[t] = g[t]
      /\ r = Null => p \notin DOMAIN g /\ e[p] = NewConnection
      /\ r # Null => p = r
  <2>1. e = Grown(g, r) /\ p = Taken(g, r)
    BY <1>0
  <2>2. r \in {Null} \cup DOMAIN g
    BY <1>2, <1>3
  <2>3. g \in Seq(ConnRecord)
    BY <1>3
  <2>4. TakesOne(g, r, e, p)
    BY <2>1, <2>2, <2>3, TakeOne
  <2> QED  BY <2>4 DEF TakesOne
<1>5. k # p
  <2>1. CASE r = Null
    BY <1>3, <1>4, <2>1
  <2>2. CASE r # Null /\ q = Null
    BY <1>2, <1>3, <1>4, <2>2
  <2>3. CASE r # Null /\ q # Null
    <3>1. Owned(nodes, conns)
      BY DEF Base
    <3>2. Has(nodes, a, i, q) /\ Has(nodes, b, j, r)
      BY <1>1, <1>2, <2>3
    <3>3. q # r
      BY <3>1, <3>2, OwnedFacts
    <3> QED  BY <1>3, <1>4, <2>3, <3>3
  <2> QED  BY <2>1, <2>2, <2>3
<1>6. Unused(e, k, i) /\ e[k].isAlive /\ e[k].lines = <<>>
  <2>1. e[k] = g[k]
    BY <1>3, <1>4
  <2>2. CASE q = Null
    <3>1. e[k] = NewConnection
      BY <1>3, <2>1, <2>2
    <3> QED  BY <3>1, NewIsUnused
  <2>3. CASE q # Null
    <3>1. /\ e[k] = conns[q] /\ Clean(conns[q]) /\ conns[q].isAlive /\ conns[q].connectionID = i
          /\ conns[q].lines = <<>>
      <4>1. q \in DOMAIN conns /\ k = q
        BY <1>1, <1>3, <2>3
      <4>2. e[k] = conns[q]
        BY <1>3, <2>1, <4>1
      <4>3. conns[q].lines = <<>>
        BY <1>c, <4>1 DEF AllRead
      <4> QED  BY <1>1, <2>3, <4>2, <4>3
    <3> QED  BY <3>1 DEF Clean, Unused
  <2> QED  BY <2>2, <2>3
<1>7. Unused(e, p, j) /\ e[p].isAlive /\ e[p].lines = <<>>
  <2>2. CASE r = Null
    <3>1. e[p] = NewConnection
      BY <1>4, <2>2
    <3> QED  BY <3>1, NewIsUnused
  <2>3. CASE r # Null
    <3>1. /\ e[p] = conns[r] /\ Clean(conns[r]) /\ conns[r].isAlive /\ conns[r].connectionID = j
          /\ conns[r].lines = <<>>
      <4>1. r \in DOMAIN conns /\ p = r /\ r \in DOMAIN g
        BY <1>2, <1>3, <1>4, <2>3
      <4>2. e[p] = conns[r]
        BY <1>3, <1>4, <4>1
      <4>3. conns[r].lines = <<>>
        BY <1>c, <4>1 DEF AllRead
      <4> QED  BY <1>2, <2>3, <4>2, <4>3
    <3> QED  BY <3>1 DEF Clean, Unused
  <2> QED  BY <2>2, <2>3
<1>8. DOMAIN e = DOMAIN conns \cup {k, p} /\ \A t \in DOMAIN conns : e[t] = conns[t]
  BY <1>3, <1>4
<1>9. /\ k \in DOMAIN conns => Has(nodes, a, i, k) /\ Clean(conns[k])
      /\ p \in DOMAIN conns => Has(nodes, b, j, p) /\ Clean(conns[p])
      /\ k \notin DOMAIN conns => q = Null
      /\ p \notin DOMAIN conns => r = Null
  BY <1>1, <1>2, <1>3, <1>4
<1>10. MayLink(e, k, p, a, b, i, j)
  <2>1. a \in Pointers /\ b \in Pointers
    BY Objects DEF Lives, Pointers
  <2>2. i \in Pointers /\ j \in Pointers
    BY DEF Slot, Pointers
  <2> QED  BY <1>3, <1>4, <1>5, <1>6, <1>7, <2>1, <2>2 DEF MayLink
<1> QED  BY <1>0, <1>3, <1>4, <1>6, <1>7, <1>8, <1>9, <1>10 DEF Room

\* A new link of k of a and p of b, in their slots i and j.
JoiningNodes(a, b, i, j, k, p, ms) ==
    /\ DOMAIN ms = DOMAIN nodes
    /\ \A n \in DOMAIN nodes :
          /\ ms[n].isAlive = nodes[n].isAlive /\ ms[n].connectionSwitch = nodes[n].connectionSwitch
          /\ ms[n].peers = nodes[n].peers
          /\ \A h \in Slot : ms[n].connection[h] =
                IF n = a /\ h = i THEN k ELSE IF n = b /\ h = j THEN p ELSE nodes[n].connection[h]
JoiningConns(a, b, i, j, k, p, e, ds) ==
    /\ DOMAIN ds = DOMAIN e /\ \A q \in DOMAIN e : q \notin {k, p} => ds[q] = e[q]
    /\ End(ds, a, k, b, p) /\ ds[k].state = "IDLE" /\ ds[k].connectionID = i
    /\ End(ds, b, p, a, k) /\ ds[p].state = "IDLE" /\ ds[p].connectionID = j
    /\ ds[k].isAlive = e[k].isAlive /\ ds[k].lines = e[k].lines
    /\ ds[p].isAlive = e[p].isAlive /\ ds[p].lines = e[p].lines
Joining(a, b, i, j, k, p, e, ms, ds) ==
    /\ Lives(nodes, a) /\ Lives(nodes, b) /\ a # b /\ i \in Slot /\ j \in Slot
    /\ Room(a, b, i, j, k, p, e)
    /\ JoiningNodes(a, b, i, j, k, p, ms) /\ JoiningConns(a, b, i, j, k, p, e, ds)

\* Who has which connection then.
JoinedHas(a, b, i, j, k, p, ms) ==
    /\ DOMAIN ms = DOMAIN nodes /\ \A n : Lives(ms, n) <=> Lives(nodes, n)
    /\ Has(ms, a, i, k) /\ Has(ms, b, j, p)
    /\ \A n, h, q : Has(ms, n, h, q) =>
          \/ n = a /\ h = i /\ q = k
          \/ n = b /\ h = j /\ q = p
          \/ Has(nodes, n, h, q) /\ q \notin {k, p}
    /\ \A n, h, q : Has(nodes, n, h, q) /\ q \notin {k, p} => Has(ms, n, h, q)

\* Who has which connection afterwards.
LEMMA JoiningHas ==
    ASSUME Owned(nodes, conns),
           NEW a, NEW b, NEW i, NEW j, NEW k, NEW p, NEW e, NEW ms, NEW ds, Joining(a, b, i, j, k, p, e, ms, ds)
    PROVE  JoinedHas(a, b, i, j, k, p, ms)
<1>1. /\ Lives(nodes, a) /\ Lives(nodes, b) /\ a # b /\ i \in Slot /\ j \in Slot /\ k # Null /\ p # Null
      /\ k \in DOMAIN conns => Has(nodes, a, i, k)
      /\ p \in DOMAIN conns => Has(nodes, b, j, p)
      /\ k \notin DOMAIN conns => nodes[a].connection[i] = Null
      /\ p \notin DOMAIN conns => nodes[b].connection[j] = Null
  BY DEF Joining, Room
<1>2. /\ DOMAIN ms = DOMAIN nodes
      /\ \A n \in DOMAIN nodes :
          /\ ms[n].isAlive = nodes[n].isAlive
          /\ \A h \in Slot : ms[n].connection[h] =
                IF n = a /\ h = i THEN k ELSE IF n = b /\ h = j THEN p ELSE nodes[n].connection[h]
  BY DEF Joining, JoiningNodes
<1>3. \A n : Lives(ms, n) <=> Lives(nodes, n)
  BY <1>2 DEF Lives
<1>4. Has(ms, a, i, k) /\ Has(ms, b, j, p)
  <2>1. ms[a].connection[i] = k /\ ms[b].connection[j] = p
    BY <1>1, <1>2 DEF Lives
  <2> QED  BY <1>1, <1>3, <2>1 DEF Has
<1>5. \A n, h, q : Has(nodes, n, h, q) => q \in DOMAIN conns
  BY OwnedFacts
<1>6. \A n, h : Has(nodes, n, h, k) => n = a /\ h = i
  BY <1>1, <1>5, OwnedFacts
<1>7. \A n, h : Has(nodes, n, h, p) => n = b /\ h = j
  BY <1>1, <1>5, OwnedFacts
<1>8. ASSUME NEW n, NEW h, NEW q, Has(ms, n, h, q)
      PROVE  \/ n = a /\ h = i /\ q = k
             \/ n = b /\ h = j /\ q = p
             \/ Has(nodes, n, h, q) /\ q \notin {k, p}
  <2>1. n \in DOMAIN nodes /\ h \in Slot /\ q # Null /\ Lives(nodes, n) /\ ms[n].connection[h] = q
    BY <1>2, <1>3, <1>8 DEF Has, Lives
  <2>2. CASE n = a /\ h = i
    BY <1>1, <1>2, <2>1, <2>2
  <2>3. CASE n = b /\ h = j
    BY <1>1, <1>2, <2>1, <2>3
  <2>4. CASE ~(n = a /\ h = i) /\ ~(n = b /\ h = j)
    <3>1. Has(nodes, n, h, q)
      BY <1>2, <2>1, <2>4 DEF Has
    <3> QED  BY <1>6, <1>7, <2>4, <3>1
  <2> QED  BY <2>2, <2>3, <2>4
<1>9. ASSUME NEW n, NEW h, NEW q, Has(nodes, n, h, q), q \notin {k, p}
      PROVE  Has(ms, n, h, q)
  <2>1. n \in DOMAIN nodes /\ h \in Slot /\ q # Null /\ Lives(nodes, n) /\ nodes[n].connection[h] = q
    BY <1>9 DEF Has, Lives
  <2>2. ~(n = a /\ h = i)
    BY <1>1, <1>9, <2>1 DEF Has
  <2>3. ~(n = b /\ h = j)
    BY <1>1, <1>9, <2>1 DEF Has
  <2>4. ms[n].connection[h] = q
    BY <1>2, <2>1, <2>2, <2>3
  <2> QED  BY <1>3, <2>1, <2>4 DEF Has
<1> QED  BY <1>2, <1>3, <1>4, <1>8, <1>9 DEF JoinedHas

\* The other connections are as they were.
OldConns(k, p, ds) ==
    /\ \A q \in DOMAIN conns : q \notin {k, p} => ds[q] = conns[q]
    /\ DOMAIN ds = DOMAIN conns \cup {k, p}
    /\ \A n, h, q : Has(nodes, n, h, q) => q \in DOMAIN conns
    /\ \A q \in {k, p} : q \in DOMAIN conns => Clean(conns[q])

\* All other connections are as they were.
LEMMA JoiningOld ==
    ASSUME Owned(nodes, conns),
           NEW a, NEW b, NEW i, NEW j, NEW k, NEW p, NEW e, NEW ms, NEW ds, Joining(a, b, i, j, k, p, e, ms, ds)
    PROVE  OldConns(k, p, ds)
<1>1. \A n, h, q : Has(nodes, n, h, q) => q \in DOMAIN conns
  BY OwnedFacts
<1>2. /\ DOMAIN e = DOMAIN conns \cup {k, p} /\ \A q \in DOMAIN conns : e[q] = conns[q]
      /\ k \in DOMAIN conns => Clean(conns[k])
      /\ p \in DOMAIN conns => Clean(conns[p])
  BY DEF Joining, Room
<1>3. DOMAIN ds = DOMAIN e /\ \A q \in DOMAIN e : q \notin {k, p} => ds[q] = e[q]
  BY DEF Joining, JoiningConns
<1> QED  BY <1>1, <1>2, <1>3 DEF OldConns

\* The other links are as they were.
LEMMA JoiningLinks ==
    ASSUME Owned(nodes, conns),
           NEW a, NEW b, NEW i, NEW j, NEW k, NEW p, NEW e, NEW ms, NEW ds, Joining(a, b, i, j, k, p, e, ms, ds),
           NEW n, NEW q, NEW m, NEW r, Link(conns, n, q, m, r), Owns(nodes, n, q), Owns(nodes, m, r)
    PROVE  /\ Link(ds, n, q, m, r) /\ Owns(ms, n, q) /\ Owns(ms, m, r)
           /\ q \in DOMAIN ds \ {k, p} /\ r \in DOMAIN ds \ {k, p}
<1>1. PICK h, g : Has(nodes, n, h, q) /\ Has(nodes, m, g, r)
  BY DEF Owns
<1>2. /\ \A t \in DOMAIN conns : t \notin {k, p} => ds[t] = conns[t]
      /\ DOMAIN ds = DOMAIN conns \cup {k, p}
      /\ \A t \in {k, p} : t \in DOMAIN conns => Clean(conns[t])
  <2>1. OldConns(k, p, ds)
    BY JoiningOld
  <2> QED  BY <2>1 DEF OldConns
<1>3. q \in DOMAIN conns /\ r \in DOMAIN conns
  BY <1>1, OwnedFacts
<1>4. conns[q].state = "CONFIRM" /\ conns[r].state = "CONFIRM"
  BY DEF Link
<1>5. q \notin {k, p} /\ r \notin {k, p}
  BY <1>2, <1>3, <1>4 DEF Clean
<1>6. ds[q] = conns[q] /\ ds[r] = conns[r]
  BY <1>2, <1>3, <1>5
<1>7. Link(ds, n, q, m, r)
  BY <1>6 DEF Link, End, Listens
<1>8. Has(ms, n, h, q) /\ Has(ms, m, g, r)
  <2>1. \A n1, h1, q1 : Has(nodes, n1, h1, q1) /\ q1 \notin {k, p} => Has(ms, n1, h1, q1)
    <3>1. JoinedHas(a, b, i, j, k, p, ms)
      BY JoiningHas
    <3> QED  BY <3>1 DEF JoinedHas
  <2> QED  BY <1>1, <1>5, <2>1
<1> QED  BY <1>2, <1>3, <1>5, <1>7, <1>8 DEF Owns, Has

\* Joining keeps Base: a and b were not peers.
LEMMA JoiningBase ==
    ASSUME Typed, Base(nodes, conns, contact, shutDown),
           NEW a, NEW b, NEW i, NEW j, NEW k, NEW p, NEW e, NEW ms, NEW ds, Joining(a, b, i, j, k, p, e, ms, ds),
           \A h, q : Has(nodes, a, h, q) => conns[q].peer # b,
           \A h, q : Has(nodes, b, h, q) => conns[q].peer # a
    PROVE  Base(ms, ds, contact, shutDown)
<1>0. /\ Owned(nodes, conns) /\ Distinct(nodes, conns) /\ NoSwitch(nodes)
      /\ ContactLives(nodes, contact) /\ ShutApart(nodes, conns, shutDown)
  BY DEF Base
<1>1. /\ \A n : Lives(ms, n) <=> Lives(nodes, n)
      /\ \A n, h, q : Has(ms, n, h, q) =>
            \/ n = a /\ h = i /\ q = k
            \/ n = b /\ h = j /\ q = p
            \/ Has(nodes, n, h, q) /\ q \notin {k, p}
  <2>1. JoinedHas(a, b, i, j, k, p, ms)
    BY <1>0, JoiningHas
  <2> QED  BY <2>1 DEF JoinedHas
<1>2. /\ \A q \in DOMAIN conns : q \notin {k, p} => ds[q] = conns[q]
      /\ DOMAIN ds = DOMAIN conns \cup {k, p}
      /\ \A n, h, q : Has(nodes, n, h, q) => q \in DOMAIN conns
  <2>1. OldConns(k, p, ds)
    BY <1>0, JoiningOld
  <2> QED  BY <2>1 DEF OldConns
<1>3. /\ ds[k].isAlive /\ ds[k].connectionID = i /\ ds[k].peer = b
      /\ ds[p].isAlive /\ ds[p].connectionID = j /\ ds[p].peer = a
  BY DEF Joining, Room, JoiningConns, End
<1>4. k # p /\ a # b
  BY DEF Joining, Room, MayLink
<1>5. Owned(ms, ds)
  <2> SUFFICES ASSUME NEW n, NEW h, NEW q, Has(ms, n, h, q)
               PROVE  /\ q \in DOMAIN ds /\ ds[q].isAlive /\ ds[q].connectionID = h
                      /\ \A n2, h2 : Has(ms, n2, h2, q) => n2 = n /\ h2 = h
    BY DEF Owned
  <2>1. CASE q = k
    <3>1. \A n2, h2 : Has(ms, n2, h2, q) => n2 = a /\ h2 = i
      BY <1>1, <1>4, <2>1
    <3> QED  BY <1>2, <1>3, <2>1, <3>1
  <2>2. CASE q = p
    <3>1. \A n2, h2 : Has(ms, n2, h2, q) => n2 = b /\ h2 = j
      BY <1>1, <1>4, <2>2
    <3> QED  BY <1>2, <1>3, <2>2, <3>1
  <2>3. CASE q \notin {k, p}
    <3>1. \A n2, h2 : Has(ms, n2, h2, q) => Has(nodes, n2, h2, q)
      BY <1>1, <2>3
    <3>2. /\ q \in DOMAIN conns /\ conns[q].isAlive /\ conns[q].connectionID = h
          /\ \A n2, h2 : Has(nodes, n2, h2, q) => n2 = n /\ h2 = h
      BY <1>0, <3>1, OwnedFacts
    <3> QED  BY <1>2, <2>3, <3>1, <3>2
  <2> QED  BY <2>1, <2>2, <2>3
<1>6. Distinct(ms, ds)
  <2> SUFFICES ASSUME NEW n, NEW h, NEW g, NEW q, NEW r,
                      Has(ms, n, h, q), Has(ms, n, g, r), h # g, ds[q].peer = ds[r].peer,
                      ds[q].peer # Null
               PROVE  FALSE
    BY DEF Distinct
  <2>1. \/ n = a /\ h = i /\ q = k
        \/ n = b /\ h = j /\ q = p
        \/ Has(nodes, n, h, q) /\ q \notin {k, p}
    BY <1>1
  <2>2. \/ n = a /\ g = i /\ r = k
        \/ n = b /\ g = j /\ r = p
        \/ Has(nodes, n, g, r) /\ r \notin {k, p}
    BY <1>1
  <2>3. \A h1, q1 : Has(nodes, n, h1, q1) /\ q1 \notin {k, p} =>
            /\ ds[q1].peer = conns[q1].peer
            /\ n = a => conns[q1].peer # b
            /\ n = b => conns[q1].peer # a
    BY <1>2
  <2>4. Has(nodes, n, h, q) /\ q \notin {k, p} /\ Has(nodes, n, g, r) /\ r \notin {k, p}
    BY <1>3, <1>4, <2>1, <2>2, <2>3
  <2>5. conns[q].peer = conns[r].peer /\ conns[q].peer # Null
    BY <2>3, <2>4
  <2> QED  BY <1>0, <2>4, <2>5, DistinctFacts
<1>7. NoSwitch(ms)
  BY <1>0 DEF NoSwitch, Joining, JoiningNodes
<1>8. ContactLives(ms, contact)
  BY <1>0, <1>1 DEF ContactLives
<1>9. ShutApart(ms, ds, shutDown)
  <2> SUFFICES ASSUME NEW q \in Members(shutDown)
               PROVE  q \in DOMAIN ds /\ \A n \in DOMAIN ms : ~Owns(ms, n, q)
    BY DEF ShutApart
  <2>1. q \in DOMAIN conns /\ \A n \in DOMAIN nodes : ~Owns(nodes, n, q)
    BY <1>0 DEF ShutApart
  <2>2. q \notin {k, p}
    <3>1. /\ k \in DOMAIN conns => Has(nodes, a, i, k)
          /\ p \in DOMAIN conns => Has(nodes, b, j, p)
      BY DEF Joining, Room
    <3>2. i \in Slot /\ j \in Slot /\ a \in DOMAIN nodes /\ b \in DOMAIN nodes
      BY DEF Joining, Lives
    <3> QED  BY <2>1, <3>1, <3>2 DEF Owns
  <2>3. ASSUME NEW n, Owns(ms, n, q)  PROVE FALSE
    <3>1. PICK h \in Slot : Has(ms, n, h, q)
      BY <2>3 DEF Owns
    <3>2. Has(nodes, n, h, q)
      BY <1>1, <2>2, <3>1
    <3>3. n \in DOMAIN nodes
      BY <3>2 DEF Has, Lives
    <3> QED  BY <2>1, <3>2, <3>3 DEF Owns
  <2> QED  BY <1>2, <2>1, <2>3
<1> QED  BY <1>5, <1>6, <1>7, <1>8, <1>9 DEF Base

\* Joining leaves everything but the new link settled.
LEMMA JoiningSettled ==
    ASSUME Typed, Owned(nodes, conns), Settled(nodes, conns, {}, Null),
           NEW a, NEW b, NEW i, NEW j, NEW k, NEW p, NEW e, NEW ms, NEW ds, Joining(a, b, i, j, k, p, e, ms, ds)
    PROVE  Settled(ms, ds, {k, p}, Null)
<1>1. /\ DOMAIN ms = DOMAIN nodes
      /\ \A n, h, q : Has(ms, n, h, q) /\ q \notin {k, p} => Has(nodes, n, h, q)
  <2>1. JoinedHas(a, b, i, j, k, p, ms)
    BY JoiningHas
  <2> QED  BY <2>1 DEF JoinedHas
<1>2. /\ \A q \in DOMAIN conns : q \notin {k, p} => ds[q] = conns[q]
      /\ \A n, h, q : Has(nodes, n, h, q) => q \in DOMAIN conns
  <2>1. OldConns(k, p, ds)
    BY JoiningOld
  <2> QED  BY <2>1 DEF OldConns
<1> SUFFICES ASSUME NEW n, NEW h, NEW q, Has(ms, n, h, q), q \notin {k, p}
             PROVE  \/ Clean(ds[q])
                    \/ \E m \in DOMAIN ms \ {n}, r \in DOMAIN ds \ {k, p} :
                          Link(ds, n, q, m, r) /\ Owns(ms, m, r)
  BY DEF Settled
<1>3. Has(nodes, n, h, q) /\ n # Null /\ q \notin {}
  BY <1>1, Objects DEF Has, Lives
<1>4. CASE Clean(conns[q])
  BY <1>2, <1>3, <1>4
<1>5. CASE ~Clean(conns[q])
  <2>1. PICK m \in DOMAIN nodes \ {n}, r \in DOMAIN conns : Link(conns, n, q, m, r) /\ Owns(nodes, m, r)
    BY <1>3, <1>5, SettledFacts
  <2>2. Owns(nodes, n, q)
    BY <1>3 DEF Owns, Has
  <2>3. Link(ds, n, q, m, r) /\ Owns(ms, m, r) /\ r \in DOMAIN ds \ {k, p}
    BY <2>1, <2>2, JoiningLinks
  <2> QED  BY <1>1, <2>1, <2>3
<1> QED  BY <1>4, <1>5

\* If the contact is asked, it becomes the peer of b.
LEMMA JoiningStar ==
    ASSUME Typed, Owned(nodes, conns), NEW c,
           NEW a, NEW b, NEW i, NEW j, NEW k, NEW p, NEW e, NEW ms, NEW ds, Joining(a, b, i, j, k, p, e, ms, ds),
           Star(nodes, conns, c, IF a = c THEN {b} ELSE {})
    PROVE  Star(ms, ds, c, {})
<1>1. /\ DOMAIN ms = DOMAIN nodes
      /\ \A n : Lives(ms, n) <=> Lives(nodes, n)
      /\ Has(ms, b, j, p)
      /\ \A n, h, q : Has(nodes, n, h, q) /\ q \notin {k, p} => Has(ms, n, h, q)
  <2>1. JoinedHas(a, b, i, j, k, p, ms)
    BY JoiningHas
  <2> QED  BY <2>1 DEF JoinedHas
<1>2. /\ \A q \in DOMAIN conns : q \notin {k, p} => ds[q] = conns[q]
      /\ \A n, h, q : Has(nodes, n, h, q) => q \in DOMAIN conns
      /\ \A q \in {k, p} : q \in DOMAIN conns => Clean(conns[q])
  <2>1. OldConns(k, p, ds)
    BY JoiningOld
  <2> QED  BY <2>1 DEF OldConns
<1> SUFFICES ASSUME c # Null, NEW n \in DOMAIN ms, ms[n].isAlive, n > c
             PROVE  \E h \in Slot : \E q \in {ms[n].connection[h]} : Has(ms, n, h, q) /\ ds[q].peer = c
  BY DEF Star
<1>3. CASE a = c /\ n = b
  <2>1. ds[p].peer = c
    BY <1>3 DEF Joining, JoiningConns, End
  <2> QED  BY <1>1, <1>3, <2>1 DEF Has
<1>4. CASE ~(a = c /\ n = b)
  <2>1. nodes[n].isAlive /\ n \in DOMAIN nodes \ (IF a = c THEN {b} ELSE {})
    BY <1>1, <1>4 DEF Lives
  <2>2. PICK h \in Slot : \E q \in {nodes[n].connection[h]} : Has(nodes, n, h, q) /\ conns[q].peer = c
    BY <2>1 DEF Star
  <2>3. PICK q : Has(nodes, n, h, q) /\ conns[q].peer = c
    BY <2>2
  <2>4. q \notin {k, p}
    BY <1>2, <2>3 DEF Clean
  <2>5. Has(ms, n, h, q) /\ ds[q].peer = c
    BY <1>1, <1>2, <2>3, <2>4
  <2> QED  BY <2>5 DEF Has
<1> QED  BY <1>3, <1>4

\* Confirmed connections are those of the slots.
LEMMA ConfirmedHas ==
    ASSUME NEW ns, NEW cs, NEW n, Lives(ns, n), NEW q
    PROVE  q \in ConfirmedOf(ns, cs, n) <=> cs[q].state = "CONFIRM" /\ \E h \in Slot : Has(ns, n, h, q)
BY DEF ConfirmedOf, Has

\* Joining confirms nothing yet.
LEMMA JoiningCounted ==
    ASSUME Owned(nodes, conns), Counted(nodes, conns, Null, Null),
           NEW a, NEW b, NEW i, NEW j, NEW k, NEW p, NEW e, NEW ms, NEW ds, Joining(a, b, i, j, k, p, e, ms, ds)
    PROVE  Counted(ms, ds, Null, Null)
<1>1. JoinedHas(a, b, i, j, k, p, ms)
  BY JoiningHas
<1>2. OldConns(k, p, ds)
  BY JoiningOld
<1>3. /\ ds[k].state = "IDLE" /\ ds[p].state = "IDLE"
      /\ \A n \in DOMAIN nodes : ms[n].peers = nodes[n].peers /\ ms[n].isAlive = nodes[n].isAlive
  BY DEF Joining, JoiningConns, JoiningNodes
<1>4. ASSUME NEW n, Lives(nodes, n)
      PROVE  ConfirmedOf(ms, ds, n) = ConfirmedOf(nodes, conns, n)
  <2>1. Lives(ms, n)
    BY <1>1, <1>4 DEF JoinedHas
  <2>2. ASSUME NEW q, q \in ConfirmedOf(ms, ds, n)
        PROVE  q \in ConfirmedOf(nodes, conns, n)
    <3>1. ds[q].state = "CONFIRM" /\ \E h \in Slot : Has(ms, n, h, q)
      BY <2>1, <2>2, ConfirmedHas
    <3>2. PICK h \in Slot : Has(ms, n, h, q)
      BY <3>1
    <3>3. Has(nodes, n, h, q) /\ q \notin {k, p}
      BY <1>1, <1>3, <3>1, <3>2 DEF JoinedHas
    <3>4. conns[q].state = "CONFIRM"
      BY <1>2, <3>1, <3>3 DEF OldConns
    <3> QED  BY <1>4, <3>3, <3>4, ConfirmedHas
  <2>3. ASSUME NEW q, q \in ConfirmedOf(nodes, conns, n)
        PROVE  q \in ConfirmedOf(ms, ds, n)
    <3>1. conns[q].state = "CONFIRM" /\ \E h \in Slot : Has(nodes, n, h, q)
      BY <1>4, <2>3, ConfirmedHas
    <3>2. PICK h \in Slot : Has(nodes, n, h, q)
      BY <3>1
    <3>3. q \notin {k, p} /\ ds[q].state = "CONFIRM"
      BY <1>2, <3>1, <3>2 DEF OldConns, Clean
    <3>4. Has(ms, n, h, q)
      BY <1>1, <3>2, <3>3 DEF JoinedHas
    <3> QED  BY <2>1, <3>3, <3>4, ConfirmedHas
  <2> QED  BY <2>2, <2>3
<1>5. DOMAIN ms = DOMAIN nodes
  BY <1>1 DEF JoinedHas
<1> QED  BY <1>3, <1>4, <1>5 DEF Counted, Lives

\* The calls behind keep their links: those of k and p were idle.
LEMMA JoiningContacts ==
    ASSUME Owned(nodes, conns), NEW td,
           NEW a, NEW b, NEW i, NEW j, NEW k, NEW p, NEW e, NEW ms, NEW ds, Joining(a, b, i, j, k, p, e, ms, ds),
           Contacts(nodes, conns, {}, b, td)
    PROVE  Contacts(ms, ds, {k, p}, b, td)
<1> SUFFICES ASSUME NEW g \in DOMAIN td
             PROVE  IsContactCall(ms, ds, {k, p}, b, td[g])
  BY DEF Contacts
<1>1. PICK x \in DOMAIN nodes \ {b}, q \in DOMAIN conns \ {}, r \in DOMAIN conns \ {} :
        /\ td[g] = SendContact(x, q)
        /\ Link(conns, x, q, b, r) /\ Owns(nodes, x, q) /\ Owns(nodes, b, r)
  BY DEF Contacts, IsContactCall
<1>2. /\ Link(ds, x, q, b, r) /\ Owns(ms, x, q) /\ Owns(ms, b, r)
      /\ q \in DOMAIN ds \ {k, p} /\ r \in DOMAIN ds \ {k, p}
  BY <1>1, JoiningLinks
<1>3. x \in DOMAIN ms
  BY <1>1 DEF Joining, JoiningNodes
<1> QED  BY <1>1, <1>2, <1>3 DEF IsContactCall

\* Joining writes no line.
LEMMA JoiningRead ==
    ASSUME Owned(nodes, conns), AllRead(conns, Null), Null \notin DOMAIN conns,
           NEW a, NEW b, NEW i, NEW j, NEW k, NEW p, NEW e, NEW ms, NEW ds, Joining(a, b, i, j, k, p, e, ms, ds)
    PROVE  AllRead(ds, Null)
<1>1. OldConns(k, p, ds)
  BY JoiningOld
<1>2. ds[k].lines = <<>> /\ ds[p].lines = <<>>
  BY DEF Joining, JoiningConns, Room
<1> QED  BY <1>1, <1>2 DEF OldConns, AllRead

\* The new link is in the making.
LEMMA JoiningMade ==
    ASSUME Typed, Owned(nodes, conns), Settled(nodes, conns, {}, Null), Counted(nodes, conns, Null, Null), NEW c,
           NEW a, NEW b, NEW i, NEW j, NEW k, NEW p, NEW e, NEW ms, NEW ds, Joining(a, b, i, j, k, p, e, ms, ds),
           Star(nodes, conns, c, IF a = c THEN {b} ELSE {})
    PROVE  Making(ms, ds, c, a, k, b, p, "IDLE", "IDLE", Null)
<1>1. Settled(ms, ds, {k, p}, Null)
  BY JoiningSettled
<1>2. Star(ms, ds, c, {})
  BY JoiningStar
<1>3. Counted(ms, ds, Null, Null)
  BY JoiningCounted
<1>4. Owns(ms, a, k) /\ Owns(ms, b, p)
  <2>1. JoinedHas(a, b, i, j, k, p, ms)
    BY JoiningHas
  <2> QED  BY <2>1 DEF JoinedHas, Owns, Has
<1>5. /\ a # b /\ End(ds, a, k, b, p) /\ ds[k].state = "IDLE"
      /\ End(ds, b, p, a, k) /\ ds[p].state = "IDLE"
  BY DEF Joining, JoiningConns
<1> QED  BY <1>1, <1>2, <1>3, <1>4, <1>5 DEF Making

\* b, which is no peer of a, becomes one.
LEMMA JoinOpenStep ==
    ASSUME Sound, FewLive(nodes), Step, NEW a, NEW b, AtJoin(nodes, conns, contact, todo, a, b),
           ~\E q \in Connections(a) : conns[q].peer = b
    PROVE  Sound'
<1>0. Typed /\ Base(nodes, conns, contact, shutDown) /\ Owned(nodes, conns)
  BY DEF Sound, Base
<1>0n. Null \notin DOMAIN nodes /\ Null \notin DOMAIN conns
  BY <1>0, Objects
<1>1. /\ todo # <<>> /\ JoinNetwork /\ Call.at = a /\ Call.for = b /\ Call.id \in Pointers
      /\ a \in DOMAIN nodes /\ b \in DOMAIN nodes /\ a # b
  BY <1>0, JoinCall
<1>2. /\ Lives(nodes, a) /\ Lives(nodes, b) /\ Contacts(nodes, conns, {}, b, Tail(todo))
      /\ AllRead(conns, Null) /\ Settled(nodes, conns, {}, Null) /\ Counted(nodes, conns, Null, Null)
      /\ Star(nodes, conns, contact, IF a = contact THEN {b} ELSE {})
  BY DEF AtJoin
<1>3. \A h, q : Has(nodes, a, h, q) => conns[q].peer # b
  BY DEF Has, Connections
<1>4. \A h, q : Has(nodes, b, h, q) => conns[q].peer # a
  <2> SUFFICES ASSUME NEW h, NEW q, Has(nodes, b, h, q), conns[q].peer = a
               PROVE  FALSE
    OBVIOUS
  <2>1. a # Null
    BY <1>0n, <1>1
  <2>2. PICK r \in DOMAIN conns : Owns(nodes, a, r) /\ Link(conns, b, q, a, r)
    BY <1>0, <1>2, <2>1, PeerOfPeer
  <2>3. PICK g : Has(nodes, a, g, r) /\ conns[r].peer = b
    BY <2>2 DEF Owns, Link, End
  <2> QED  BY <1>3, <2>3
<1>5. PICK i, j : i = FreeSlot(a) /\ j = FreeSlot(b)
  OBVIOUS
<1>6. i \in Slot /\ IsFree(a, i)
  <2>1. FreeSlot(a) \in Slot /\ IsFree(a, FreeSlot(a))
    BY <1>0, <1>1, <1>2, <1>3, FreeSlotExists
  <2> QED  BY <1>5, <2>1
<1>7. j \in Slot /\ IsFree(b, j)
  <2>1. FreeSlot(b) \in Slot /\ IsFree(b, FreeSlot(b))
    BY <1>0, <1>1, <1>2, <1>4, FreeSlotExists
  <2> QED  BY <1>5, <2>1
<1>8. PICK g, k : g = Grown(conns, nodes[a].connection[i]) /\ k = Taken(conns, nodes[a].connection[i])
  OBVIOUS
<1>9. PICK e, p : e = Grown(g, nodes[b].connection[j]) /\ p = Taken(g, nodes[b].connection[j])
  OBVIOUS
<1>10. Room(a, b, i, j, k, p, e)
  BY <1>0, <1>1, <1>2, <1>6, <1>7, <1>8, <1>9, JoinRoom
<1>11. MayLink(e, k, p, a, b, i, j)
  BY <1>10 DEF Room
<1>12. PICK o : o = Linked(e, p, k, a)
  OBVIOUS
<1>13. PICK ds : ds = SetPeer(Registered(Registered(o, p, b, j), k, a, i), k, b)
  OBVIOUS
<1>14. /\ MayRegister(o, p, j)
       /\ ds \in Seq(ConnRecord) /\ DOMAIN ds = DOMAIN e
       /\ \A q \in DOMAIN e : q \notin {k, p} => ds[q] = e[q]
       /\ End(ds, a, k, b, p) /\ End(ds, b, p, a, k)
       /\ ds[k].state = "IDLE" /\ ds[p].state = "IDLE"
       /\ ds[k].isAlive = e[k].isAlive /\ ds[p].isAlive = e[p].isAlive
       /\ ds[k].connectionID = i /\ ds[p].connectionID = j
       /\ ds[k].lines = e[k].lines /\ ds[p].lines = e[p].lines
  BY <1>11, <1>12, <1>13, LinkUp
<1>15. PICK ms : ms = JoinNodes(a, b, i, j, k, p, Call.id)
  OBVIOUS
<1>16. /\ nodes' = ms /\ conns' = ds /\ UNCHANGED <<contact, shutDown>>
       /\ Then(<<SwitchAccess(a), Send(p, "CHECKIN", Null)>>)
  <2>1. i # Null /\ j # Null
    BY <1>6, <1>7 DEF Slot, Null
  <2>2. MayRegister(o, p, j)
    BY <1>14
  <2> HIDE DEF Call
  <2>3. /\ nodes' = JoinNodes(a, b, i, j, k, p, Call.id)
        /\ conns' = SetPeer(Registered(Registered(o, p, b, j), k, a, i), k, b)
        /\ Then(<<SwitchAccess(a), Send(p, "CHECKIN", Null)>>)
        /\ UNCHANGED <<contact, shutDown>>
    BY <1>1, <1>5, <1>8, <1>9, <1>12, <2>1, <2>2, JoinOpens
  <2> QED  BY <1>13, <1>15, <2>3
<1>17. ms \in Seq(NodeRecord) /\ JoiningNodes(a, b, i, j, k, p, ms)
  <2>1. JoinData(a, b, i, j, k, p, Call.id)
    <3>1. k \in Pointers /\ p \in Pointers
      BY <1>11, LenProperties DEF MayLink, Pointers
    <3> HIDE DEF Call
    <3> QED  BY <1>1, <1>6, <1>7, <3>1 DEF JoinData
  <2> PICK id : id = Call.id
    OBVIOUS
  <2>2. JoinData(a, b, i, j, k, p, id) /\ ms = JoinNodes(a, b, i, j, k, p, id)
    BY <1>15, <2>1
  <2>3. /\ ms \in Seq(NodeRecord) /\ DOMAIN ms = DOMAIN nodes
        /\ \A n \in DOMAIN nodes :
              /\ ms[n].isAlive = nodes[n].isAlive /\ ms[n].connectionSwitch = nodes[n].connectionSwitch
              /\ ms[n].peers = nodes[n].peers
              /\ \A h \in Slot : ms[n].connection[h] =
                    IF n = a /\ h = i THEN k ELSE IF n = b /\ h = j THEN p ELSE nodes[n].connection[h]
    BY <1>0, <2>2, JoinNodesFacts
  <2> QED  BY <2>3 DEF JoiningNodes
<1>18. JoiningConns(a, b, i, j, k, p, e, ds)
  BY <1>14 DEF JoiningConns
<1>19. Joining(a, b, i, j, k, p, e, ms, ds)
  BY <1>1, <1>2, <1>6, <1>7, <1>10, <1>17, <1>18 DEF Joining
<1>20. Base(ms, ds, contact, shutDown)
  BY <1>0, <1>3, <1>4, <1>19, JoiningBase
<1>21. Making(ms, ds, contact, a, k, b, p, "IDLE", "IDLE", Null)
  <2> PICK c : c = contact
    OBVIOUS
  <2>1. Star(nodes, conns, c, IF a = c THEN {b} ELSE {})
    BY <1>2
  <2>2. Making(ms, ds, c, a, k, b, p, "IDLE", "IDLE", Null)
    BY <1>0, <1>2, <1>19, <2>1, JoiningMade
  <2> QED  BY <2>2
<1>22. Contacts(ms, ds, {k, p}, b, Tail(todo))
  <2> PICK td : td = Tail(todo)
    OBVIOUS
  <2>1. Contacts(nodes, conns, {}, b, td)
    BY <1>2
  <2>2. Contacts(ms, ds, {k, p}, b, td)
    BY <1>0, <1>19, <2>1, JoiningContacts
  <2> QED  BY <2>2
<1>23. AllRead(ds, Null)
  BY <1>0, <1>0n, <1>2, <1>19, JoiningRead
<1>24. /\ todo' \in Seq(CallRecord) /\ todo' # <<>> /\ Head(todo') = SwitchAccess(a)
       /\ Tail(todo') # <<>> /\ Head(Tail(todo')) = Send(p, "CHECKIN", Null) /\ Tail(Tail(todo')) = Tail(todo)
  <2>1. SwitchAccess(a) \in CallRecord
    BY <1>0, <1>1, Objects, CallTypes
  <2>2. Send(p, "CHECKIN", Null) \in CallRecord
    <3>1. p \in Nat
      BY <1>11, LenProperties DEF MayLink
    <3> QED  BY <3>1, CallTypes DEF Command, Null
  <2> QED  BY <1>0, <1>1, <1>16, <2>1, <2>2, ThenTwo
<1>25. Typed'
  <2>1. localContactID' = localContactID
    BY <1>1 DEF JoinNetwork
  <2> QED  BY <1>0, <1>14, <1>16, <1>17, <1>24, <2>1 DEF Typed
<1>26. Opened(nodes', conns', contact', todo', a, k, b, p)
  <2>1. Opened(ms, ds, contact, todo', a, k, b, p)
    BY <1>21, <1>22, <1>23, <1>24 DEF Opened, Sending
  <2> QED  BY <1>16, <2>1
<1>27. Stage(nodes', conns', contact', todo')
  <2>1. a \in DOMAIN nodes' /\ b \in DOMAIN nodes'
    BY <1>1, <1>16, <1>17 DEF JoiningNodes
  <2>2. k \in DOMAIN conns' /\ p \in DOMAIN conns'
    BY <1>11, <1>14, <1>16 DEF MayLink
  <2> QED  BY <1>26, <2>1, <2>2 DEF Stage, LinkStage
<1>28. Base(nodes', conns', contact', shutDown')
  BY <1>16, <1>20
<1> QED  BY <1>25, <1>27, <1>28 DEF Sound

\* joinNetwork() leads to Opened, or back to AtRest if a and b are peers.
LEMMA JoinStep ==
    ASSUME Sound, FewLive(nodes), Step, NEW a, NEW b, AtJoin(nodes, conns, contact, todo, a, b)
    PROVE  Sound'
BY JoinKnownStep, JoinOpenStep

-----------------------------------------------------------------------------
(* Departures                                                              *)

\* The calls of the destructors are calls.
LEMMA LeaveCallTypes ==
    ASSUME NEW n \in Nat, NEW i \in 1 .. 10
    PROVE  LeaveCall(n, i) \in CallRecord
<1>1. CASE i \in 1 .. 4
  BY <1>1, CallTypes DEF LeaveCall, Slot
<1>2. CASE i = 5
  BY <1>2, CallTypes DEF LeaveCall
<1>3. CASE i \in 6 .. 9
  <2>1. i - 5 \in Slot /\ i \notin 1 .. 4 /\ i # 5
    BY <1>3 DEF Slot
  <2>2. LeaveCall(n, i) = DisconnectPeer(n, i - 5)
    BY <1>3, <2>1 DEF LeaveCall
  <2> QED  BY <2>1, <2>2, CallTypes
<1>4. CASE i = 10
  BY <1>4, CallTypes DEF LeaveCall
<1> QED  BY <1>1, <1>2, <1>3, <1>4

\* As many of them remain as have not been made.
LEMMA LeaveCallsType ==
    ASSUME NEW n \in Nat, NEW done \in 0 .. 10
    PROVE  LeaveCalls(n, done) \in Seq(CallRecord) /\ Len(LeaveCalls(n, done)) = 10 - done
<1> DEFINE s == [i \in 1 .. 10 - done |-> LeaveCall(n, done + i)]
<1>1. 10 - done \in Nat
  OBVIOUS
<1>2. \A i \in 1 .. 10 - done : LeaveCall(n, done + i) \in CallRecord
  <2>1. \A i \in 1 .. 10 - done : done + i \in 1 .. 10
    OBVIOUS
  <2> QED  BY <2>1, LeaveCallTypes
<1>3. s \in [1 .. 10 - done -> CallRecord]
  BY <1>2
<1>4. s \in Seq(CallRecord) /\ Len(s) = 10 - done
  BY <1>1, <1>3
<1> QED  BY <1>4 DEF LeaveCalls

\* The first of them, and the others.
LEMMA LeaveCallsPop ==
    ASSUME NEW n \in Nat, NEW done \in 0 .. 9
    PROVE  /\ LeaveCalls(n, done) # <<>> /\ Head(LeaveCalls(n, done)) = LeaveCall(n, done + 1)
           /\ Tail(LeaveCalls(n, done)) = LeaveCalls(n, done + 1)
<1> DEFINE s == LeaveCalls(n, done)
           t == LeaveCalls(n, done + 1)
<1>0. PICK d : d = done + 1
  OBVIOUS
<1>1. /\ s \in Seq(CallRecord) /\ Len(s) = 10 - done
      /\ t \in Seq(CallRecord) /\ Len(t) = 10 - (done + 1)
  <2>1. done \in 0 .. 10 /\ d \in 0 .. 10
    BY <1>0
  <2>2. s \in Seq(CallRecord) /\ Len(s) = 10 - done
    BY <2>1, LeaveCallsType
  <2>3. LeaveCalls(n, d) \in Seq(CallRecord) /\ Len(LeaveCalls(n, d)) = 10 - d
    BY <2>1, LeaveCallsType
  <2> QED  BY <1>0, <2>2, <2>3
<1>2. /\ \A i \in 1 .. 10 - done : s[i] = LeaveCall(n, done + i)
      /\ \A i \in 1 .. 10 - (done + 1) : t[i] = LeaveCall(n, (done + 1) + i)
  BY DEF LeaveCalls
<1> HIDE DEF s, t
<1>3. s # <<>> /\ Head(s) = s[1]
  BY <1>1, HeadTailProperties
<1>4. s[1] = LeaveCall(n, done + 1)
  BY <1>2
<1>5. Tail(s) \in Seq(CallRecord) /\ Len(Tail(s)) = Len(t) /\ \A i \in 1 .. Len(t) : Tail(s)[i] = s[i + 1]
  BY <1>1, <1>3, HeadTailProperties
<1>6. \A i \in 1 .. Len(t) : Tail(s)[i] = t[i]
  <2> TAKE i \in 1 .. Len(t)
  <2>1. i + 1 \in 1 .. 10 - done /\ i \in 1 .. 10 - (done + 1) /\ done + (i + 1) = (done + 1) + i
    BY <1>1
  <2>2. s[i + 1] = LeaveCall(n, done + (i + 1)) /\ t[i] = LeaveCall(n, (done + 1) + i)
    BY <1>2, <2>1
  <2> QED  BY <1>5, <2>1, <2>2
<1>7. Tail(s) = t
  BY <1>1, <1>5, <1>6, SeqEqual
<1> QED  BY <1>3, <1>4, <1>7 DEF s, t

\* None is left after ten.
LEMMA LeaveCallsEnd ==
    ASSUME NEW n \in Nat
    PROVE  LeaveCalls(n, 10) = <<>>
<1>1. LeaveCalls(n, 10) \in Seq(CallRecord) /\ Len(LeaveCalls(n, 10)) = 0
  <2>1. PICK d : d = 10
    OBVIOUS
  <2>2. d \in 0 .. 10
    BY <2>1
  <2>3. LeaveCalls(n, d) \in Seq(CallRecord) /\ Len(LeaveCalls(n, d)) = 10 - d
    BY <2>2, LeaveCallsType
  <2> QED  BY <2>1, <2>3
<1> QED  BY <1>1, EmptySeq

\* The two ends of a link can be left out of what is settled.
LEMMA SettledNarrow ==
    ASSUME NEW ns, NEW cs, NEW leaving, Settled(ns, cs, {}, leaving),
           NEW n, NEW k, NEW m, NEW j, Link(cs, n, k, m, j)
    PROVE  Settled(ns, cs, {k, j}, leaving)
<1> SUFFICES ASSUME NEW n0, NEW h, NEW q, Has(ns, n0, h, q), q \notin {k, j}
             PROVE  \/ Clean(cs[q])
                    \/ n0 = leaving /\ cs[q].state = "DISCONNECT"
                    \/ \E m0 \in DOMAIN ns \ {n0}, r \in DOMAIN cs \ {k, j} :
                          Link(cs, n0, q, m0, r) /\ Owns(ns, m0, r)
  BY DEF Settled
<1>1. \/ Clean(cs[q])
      \/ n0 = leaving /\ cs[q].state = "DISCONNECT"
      \/ \E m0 \in DOMAIN ns \ {n0}, r \in DOMAIN cs \ {} :
            Link(cs, n0, q, m0, r) /\ Owns(ns, m0, r)
  <2> PICK busy : busy = {}
    OBVIOUS
  <2>1. Settled(ns, cs, busy, leaving) /\ q \notin busy
    OBVIOUS
  <2>2. \/ Clean(cs[q])
        \/ n0 = leaving /\ cs[q].state = "DISCONNECT"
        \/ \E m0 \in DOMAIN ns \ {n0}, r \in DOMAIN cs \ busy :
              Link(cs, n0, q, m0, r) /\ Owns(ns, m0, r)
    BY <2>1, SettledFacts
  <2> QED  BY <2>2
<1>2. ASSUME NEW m0 \in DOMAIN ns \ {n0}, NEW r \in DOMAIN cs, Link(cs, n0, q, m0, r), Owns(ns, m0, r)
      PROVE  r \notin {k, j}
  BY <1>2 DEF Link, End, Listens
<1> QED  BY <1>1, <1>2

\* They are settled when one is disconnected and the other one clean.
LEMMA SettledDone ==
    ASSUME NEW ns, NEW cs, NEW n, NEW j, NEW k, Settled(ns, cs, {j, k}, n), Owned(ns, cs), NEW i,
           Has(ns, n, i, j), cs[j].state = "DISCONNECT", Clean(cs[k])
    PROVE  Settled(ns, cs, {}, n)
<1> SUFFICES ASSUME NEW n0, NEW h, NEW q, Has(ns, n0, h, q)
             PROVE  \/ Clean(cs[q])
                    \/ n0 = n /\ cs[q].state = "DISCONNECT"
                    \/ \E m0 \in DOMAIN ns \ {n0}, r \in DOMAIN cs :
                          Link(cs, n0, q, m0, r) /\ Owns(ns, m0, r)
  BY DEF Settled
<1>1. CASE q = j
  <2>1. n0 = n
    BY <1>1, OwnedFacts
  <2> QED  BY <1>1, <2>1
<1>2. CASE q = k
  BY <1>2
<1>3. CASE q \notin {j, k}
  <2> PICK busy : busy = {j, k}
    OBVIOUS
  <2>1. Settled(ns, cs, busy, n) /\ q \notin busy
    BY <1>3
  <2>2. \/ Clean(cs[q])
        \/ n0 = n /\ cs[q].state = "DISCONNECT"
        \/ \E m0 \in DOMAIN ns \ {n0}, r \in DOMAIN cs \ busy :
              Link(cs, n0, q, m0, r) /\ Owns(ns, m0, r)
    BY <2>1, SettledFacts
  <2> QED  BY <2>2
<1> QED  BY <1>1, <1>2, <1>3

\* Connections that have been left stay so.
LEMMA PartedKept ==
    ASSUME NEW ns, NEW ms, NEW cs, NEW ds, NEW n, NEW done, Lives(ns, n), Parted(ns, cs, n, done), SameNodes(ns, ms),
           \A h, q : Has(ns, n, h, q) /\ h <= done /\ cs[q].state \in {"IDLE", "DISCONNECT"}
                        => ds[q].state \in {"IDLE", "DISCONNECT"}
    PROVE  Parted(ms, ds, n, done)
<1>1. ms[n].connection = ns[n].connection
  BY DEF SameNodes, Lives
<1> QED  BY <1>1 DEF Parted, Has

\* Whatever happens between the two ends of a link, the rest stays as it is.
LEMMA UnmakingChange ==
    ASSUME NEW ns, NEW ms, NEW cs, NEW ds, NEW c, NEW n, NEW j, NEW m, NEW k, NEW i, NEW sj, NEW sk,
           NEW more, NEW less, NEW sj2, NEW sk2, NEW more2, NEW less2,
           Owned(ns, cs), Unmaking(ns, cs, c, n, j, m, k, i, sj, sk, more, less),
           SameNodes(ns, ms), SameConns(cs, ds, {j, k}),
           ds[j].state = sj2, ds[k].state = sk2, Counted(ms, ds, more2, less2), i \in Slot
    PROVE  Unmaking(ms, ds, c, n, j, m, k, i, sj2, sk2, more2, less2)
<1>1. /\ m # n /\ Has(ns, n, i, j) /\ Owns(ns, m, k) /\ cs[k].peer \in {n, Null}
      /\ Leaving(ns, cs, c, n, {j, k}, i - 1, more, less)
  BY DEF Unmaking
<1>2. /\ Lives(ns, n) /\ Parted(ns, cs, n, i - 1)
      /\ Settled(ns, cs, {j, k}, n) /\ (c # n => Star(ns, cs, c, {n}))
  BY <1>1 DEF Leaving
<1>3. Has(ms, n, i, j) /\ Owns(ms, m, k) /\ Lives(ms, n)
  BY <1>1, <1>2, HasSame
<1>4. \A n1, h, q : Has(ns, n1, h, q) => q \in DOMAIN cs
  BY OwnedFacts
<1>5. \A q \in DOMAIN cs : q \notin {j, k} => Same(cs, ds, q)
  BY DEF SameConns
<1>6. Parted(ms, ds, n, i - 1)
  <2>1. ASSUME NEW h, NEW q, Has(ns, n, h, q), h <= i - 1, cs[q].state \in {"IDLE", "DISCONNECT"}
        PROVE  ds[q].state \in {"IDLE", "DISCONNECT"}
    <3>1. q # j
      <4>1. h \in Slot
        BY <2>1 DEF Has
      <4>2. h # i
        BY <2>1, <4>1 DEF Slot
      <4>3. \A m1, h1 : Has(ns, m1, h1, j) => m1 = n /\ h1 = i
        BY <1>1, OwnedFacts
      <4> QED  BY <2>1, <4>2, <4>3
    <3>2. q # k
      <4>1. Owns(ns, n, q)
        BY <2>1 DEF Owns, Has
      <4> QED  BY <1>1, <4>1, OwnedOnce
    <3> QED  BY <1>4, <1>5, <2>1, <3>1, <3>2 DEF Same
  <2> PICK done : done = i - 1
    OBVIOUS
  <2>2. Parted(ms, ds, n, done)
    BY <1>2, <2>1, PartedKept
  <2> QED  BY <2>2
<1>7. Settled(ms, ds, {j, k}, n)
  BY <1>2, SettledKept
<1>8. c # n => Star(ms, ds, c, {n})
  <2> SUFFICES ASSUME c # n  PROVE Star(ms, ds, c, {n})
    OBVIOUS
  <2>1. CASE c = Null
    BY <2>1 DEF Star
  <2>2. CASE c # Null
    <3>1. ASSUME NEW n1, NEW h, NEW q, Has(ns, n1, h, q), n1 \notin {n}, cs[q].peer = c
          PROVE  ds[q].peer = c
      <4>1. q # j
        BY <1>1, <3>1, OwnedFacts
      <4>2. q # k
        BY <1>1, <2>2, <3>1
      <4> QED  BY <1>4, <1>5, <3>1, <4>1, <4>2 DEF Same
    <3>2. Star(ns, cs, c, {n})
      BY <1>2
    <3> PICK except : except = {n}
      OBVIOUS
    <3>3. Star(ns, cs, c, except) /\ \A n1, h, q : Has(ns, n1, h, q) /\ n1 \notin except /\ cs[q].peer = c => ds[q].peer = c
      BY <3>1, <3>2
    <3>4. Star(ms, ds, c, except)
      BY <3>3, StarKept
    <3> QED  BY <3>4
  <2> QED  BY <2>1, <2>2
<1>9. Leaving(ms, ds, c, n, {j, k}, i - 1, more2, less2)
  BY <1>3, <1>6, <1>7, <1>8 DEF Leaving
<1>10. ds[k].peer \in {n, Null}
  <2>1. k \in DOMAIN cs
    BY <1>1, OwnedOnce
  <2> QED  BY <1>1, <2>1 DEF SameConns
<1> QED  BY <1>1, <1>3, <1>9, <1>10 DEF Unmaking

\* The ends of a link that is being undone belong to two PlugNodes.
LEMMA UnmakingEnds ==
    ASSUME NEW ns, NEW cs, NEW c, NEW n, NEW j, NEW m, NEW k, NEW i, NEW sj, NEW sk, NEW more, NEW less,
           Owned(ns, cs), Unmaking(ns, cs, c, n, j, m, k, i, sj, sk, more, less)
    PROVE  /\ m # n /\ j # k /\ j \in DOMAIN cs /\ k \in DOMAIN cs /\ Lives(ns, n) /\ Lives(ns, m)
           /\ Owns(ns, n, j) /\ Owns(ns, m, k)
           /\ \A n1 : Owns(ns, n1, j) => n1 = n
           /\ \A n1 : Owns(ns, n1, k) => n1 = m
<1>1. m # n /\ Has(ns, n, i, j) /\ Owns(ns, m, k)
  BY DEF Unmaking
<1>2. Owns(ns, n, j)
  BY <1>1 DEF Owns, Has
<1>3. \A n1 : Owns(ns, n1, j) => n1 = n
  BY <1>2, OwnedOnce
<1>4. \A n1 : Owns(ns, n1, k) => n1 = m
  BY <1>1, OwnedOnce
<1>5. j \in DOMAIN cs /\ Lives(ns, n)
  BY <1>2, OwnedOnce
<1>6. k \in DOMAIN cs /\ Lives(ns, m)
  BY <1>1, OwnedOnce
<1> QED  BY <1>1, <1>2, <1>3, <1>4, <1>5, <1>6

\* One end of the link that is undone sends its DISCONNECT.
LEMMA UnmakingSend ==
    ASSUME Typed, Base(nodes, conns, contact, shutDown), Step,
           NEW n, NEW j, NEW m, NEW k, NEW i \in Slot, NEW sj, NEW sk, NEW more, NEW less, NEW q \in {j, k},
           Sending(conns, todo, q, "DISCONNECT"),
           Unmaking(nodes, conns, contact, n, j, m, k, i, sj, sk, more, less)
    PROVE  /\ Typed' /\ Base(nodes', conns', contact', shutDown')
           /\ UNCHANGED <<nodes, contact>>
           /\ Telling(conns', todo', q, Plain("DISCONNECT")) /\ Told(todo') = Tail(todo)
           /\ DOMAIN conns' = DOMAIN conns /\ \A r \in DOMAIN conns : r # q => conns'[r] = conns[r]
           /\ conns'[q].receiver = conns[q].receiver /\ conns'[q].rxInfo = conns[q].rxInfo
           /\ conns'[q].registered = conns[q].registered
           /\ Unmaking(nodes', conns', contact', n, j, m, k, i, sj, sk, more, less)
<1>0. Owned(nodes, conns)
  BY DEF Base
<1>1. j # k /\ j \in DOMAIN conns /\ k \in DOMAIN conns
  BY <1>0, UnmakingEnds
<1>2. /\ conns[j].state = sj /\ conns[k].state = sk
      /\ Counted(nodes, conns, more, less)
  BY DEF Unmaking, Leaving
<1>3. /\ todo # <<>> /\ Head(todo) = Send(q, "DISCONNECT", Null) /\ AllRead(conns, Null)
  BY DEF Sending
<1>4. SendCommand
  BY <1>3, StepByCall DEF Send
<1>5. /\ Typed' /\ UNCHANGED <<nodes, contact, shutDown>>
      /\ Telling(conns', todo', q, Plain("DISCONNECT")) /\ Told(todo') = Tail(todo)
      /\ DOMAIN conns' = DOMAIN conns /\ \A r \in DOMAIN conns : r # q => conns'[r] = conns[r]
      /\ conns'[q].isAlive = conns[q].isAlive /\ conns'[q].connectionID = conns[q].connectionID
      /\ conns'[q].receiver = conns[q].receiver /\ conns'[q].rxInfo = conns[q].rxInfo
      /\ conns'[q].registered = conns[q].registered
      /\ conns'[q].state = conns[q].state /\ conns'[q].peer = Null
  <2> PICK command, l : command = "DISCONNECT" /\ l = Plain(command)
    OBVIOUS
  <2>1. q \in DOMAIN conns /\ command \in Command \ {"SWITCH"} /\ Null \in {Null} \cup DOMAIN conns
    BY <1>1 DEF Command
  <2>2. /\ Head(todo) = Send(q, command, Null)
        /\ l = [command |-> command, address |-> IF Null = Null THEN Null ELSE conns[Null].peer]
    BY <1>3 DEF Plain
  <2>3. /\ Typed' /\ UNCHANGED <<nodes, contact, shutDown>>
        /\ Telling(conns', todo', q, l) /\ Told(todo') = Tail(todo)
        /\ DOMAIN conns' = DOMAIN conns /\ (\A r \in DOMAIN conns : r # q => conns'[r] = conns[r])
        /\ conns'[q].isAlive = conns[q].isAlive /\ conns'[q].connectionID = conns[q].connectionID
        /\ conns'[q].receiver = conns[q].receiver /\ conns'[q].rxInfo = conns[q].rxInfo
        /\ conns'[q].registered = conns[q].registered
        /\ conns'[q].state = (IF command \in {"CHECKIN", "CONNECT", "CONFIRM"}
                                  THEN command ELSE conns[q].state)
        /\ conns'[q].peer = (IF command = "DISCONNECT" THEN Null ELSE conns[q].peer)
    BY <1>3, <1>4, <2>1, <2>2, SendEffect
  <2>4. conns'[q].state = conns[q].state /\ conns'[q].peer = Null
    BY <2>3
  <2> QED  BY <2>3, <2>4
<1>6. SameNodes(nodes, nodes')
  BY <1>5, SameAll
<1>7. SameConns(conns, conns', {j, k})
  BY <1>5 DEF SameConns, Same
<1>8. Base(nodes', conns', contact', shutDown')
  <2>1. Base(nodes', conns', contact, shutDown)
    BY <1>6, <1>7, BaseKept
  <2> QED  BY <1>5, <2>1
<1>9. conns'[j].state = sj /\ conns'[k].state = sk
  BY <1>1, <1>2, <1>5
<1>10. Counted(nodes', conns', more, less)
  <2>1. \A n1 \in DOMAIN nodes : nodes'[n1].peers = nodes[n1].peers /\ LikeConfirmed(nodes, conns, conns', n1, Null)
    <3>1. \A n1, h, r : Has(nodes, n1, h, r) => r \in DOMAIN conns
      BY <1>0, OwnedFacts
    <3>2. \A r \in DOMAIN conns : conns'[r].state = conns[r].state
      BY <1>5
    <3> QED  BY <1>5, <3>1, <3>2 DEF LikeConfirmed
  <2> QED  BY <1>2, <1>6, <2>1, CountedKept
<1>11. Unmaking(nodes', conns', contact, n, j, m, k, i, sj, sk, more, less)
  BY <1>0, <1>6, <1>7, <1>9, <1>10, UnmakingChange
<1> QED  BY <1>5, <1>8, <1>11

\* DISCONNECT: it is sent.
LEMMA PartSent ==
    ASSUME Sound, Step, NEW n \in DOMAIN nodes, NEW m \in DOMAIN nodes,
           NEW j \in DOMAIN conns, NEW k \in DOMAIN conns, NEW i \in Slot,
           Part(nodes, conns, contact, todo, n, j, m, k, i)
    PROVE  Sound'
<1>0. Typed /\ Base(nodes, conns, contact, shutDown) /\ Owned(nodes, conns)
  BY DEF Sound, Base
<1>1. /\ Sending(conns, todo, j, "DISCONNECT") /\ After(Tail(todo), n, j, i)
      /\ Listens(conns, n, j, m, k) /\ End(conns, m, k, n, j)
      /\ Unmaking(nodes, conns, contact, n, j, m, k, i, "DISCONNECT", "CONFIRM", n, Null)
  BY DEF Part
<1>2. j # k
  BY <1>0, <1>1, UnmakingEnds
<1> PICK sj, sk, more, less, q : sj = "DISCONNECT" /\ sk = "CONFIRM" /\ more = n /\ less = Null /\ q = j
  OBVIOUS
<1>3. /\ q \in {j, k} /\ Sending(conns, todo, q, "DISCONNECT")
      /\ Unmaking(nodes, conns, contact, n, j, m, k, i, sj, sk, more, less)
  BY <1>1 DEF End
<1>4. /\ Typed' /\ Base(nodes', conns', contact', shutDown')
      /\ UNCHANGED <<nodes, contact>>
      /\ Telling(conns', todo', q, Plain("DISCONNECT")) /\ Told(todo') = Tail(todo)
      /\ DOMAIN conns' = DOMAIN conns /\ (\A r \in DOMAIN conns : r # q => conns'[r] = conns[r])
      /\ conns'[q].receiver = conns[q].receiver /\ conns'[q].rxInfo = conns[q].rxInfo
      /\ conns'[q].registered = conns[q].registered
      /\ Unmaking(nodes', conns', contact', n, j, m, k, i, sj, sk, more, less)
  BY <1>0, <1>3, UnmakingSend
<1>5. Listens(conns', n, j, m, k) /\ End(conns', m, k, n, j)
  <2>1. conns'[k] = conns[k]
    BY <1>2, <1>4
  <2> QED  BY <1>1, <1>4, <2>1 DEF End, Listens
<1>6. After(Told(todo'), n, j, i)
  BY <1>1, <1>4
<1>7. PartTold(nodes', conns', contact', todo', n, j, m, k, i)
  BY <1>4, <1>5, <1>6 DEF PartTold
<1>8. Stage(nodes', conns', contact', todo')
  <2>1. DOMAIN nodes' = DOMAIN nodes /\ DOMAIN conns' = DOMAIN conns
    BY <1>4
  <2> QED  BY <1>7, <2>1 DEF Stage, PartStage
<1> QED  BY <1>4, <1>8 DEF Sound

\* The answer: it is sent.
LEMMA AnswerSent ==
    ASSUME Sound, Step, NEW n \in DOMAIN nodes, NEW m \in DOMAIN nodes,
           NEW j \in DOMAIN conns, NEW k \in DOMAIN conns, NEW i \in Slot,
           Answer(nodes, conns, contact, todo, n, j, m, k, i)
    PROVE  Sound'
<1>0. Typed /\ Base(nodes, conns, contact, shutDown) /\ Owned(nodes, conns)
  BY DEF Sound, Base
<1>1. /\ Sending(conns, todo, k, "DISCONNECT") /\ AfterUnlink(Tail(todo), n, j, k, i)
      /\ Listens(conns, n, j, m, k) /\ End(conns, m, k, n, j)
      /\ Unmaking(nodes, conns, contact, n, j, m, k, i, "DISCONNECT", "CONFIRM", n, m)
  BY DEF Answer
<1>2. j # k
  BY <1>0, <1>1, UnmakingEnds
<1> PICK sj, sk, more, less, q : sj = "DISCONNECT" /\ sk = "CONFIRM" /\ more = n /\ less = m /\ q = k
  OBVIOUS
<1>3. /\ q \in {j, k} /\ Sending(conns, todo, q, "DISCONNECT")
      /\ Unmaking(nodes, conns, contact, n, j, m, k, i, sj, sk, more, less)
  BY <1>1 DEF End
<1>4. /\ Typed' /\ Base(nodes', conns', contact', shutDown')
      /\ UNCHANGED <<nodes, contact>>
      /\ Telling(conns', todo', q, Plain("DISCONNECT")) /\ Told(todo') = Tail(todo)
      /\ DOMAIN conns' = DOMAIN conns /\ (\A r \in DOMAIN conns : r # q => conns'[r] = conns[r])
      /\ conns'[q].receiver = conns[q].receiver /\ conns'[q].rxInfo = conns[q].rxInfo
      /\ conns'[q].registered = conns[q].registered
      /\ Unmaking(nodes', conns', contact', n, j, m, k, i, sj, sk, more, less)
  BY <1>0, <1>3, UnmakingSend
<1>5. Listens(conns', n, j, m, k) /\ Listens(conns', m, k, n, j)
  <2>1. conns'[j] = conns[j]
    BY <1>2, <1>4
  <2> QED  BY <1>1, <1>4, <2>1 DEF End, Listens
<1>6. AfterUnlink(Told(todo'), n, j, k, i)
  BY <1>1, <1>4
<1>7. AnswerTold(nodes', conns', contact', todo', n, j, m, k, i)
  BY <1>4, <1>5, <1>6 DEF AnswerTold
<1>8. Stage(nodes', conns', contact', todo')
  <2>1. DOMAIN nodes' = DOMAIN nodes /\ DOMAIN conns' = DOMAIN conns
    BY <1>4
  <2> QED  BY <1>7, <2>1 DEF Stage, PartStage
<1> QED  BY <1>4, <1>8 DEF Sound

\* The line is written, up to the call of the receiver.
LEMMA UnmakingTold ==
    ASSUME Sound, Step, Head(todo).call # "receive",
           NEW n, NEW j, NEW m, NEW k, NEW i \in Slot, NEW sj, NEW sk, NEW more, NEW less, NEW q \in {j, k},
           Telling(conns, todo, q, Plain("DISCONNECT")), HasReceiver(q),
           Unmaking(nodes, conns, contact, n, j, m, k, i, sj, sk, more, less)
    PROVE  /\ Typed' /\ Base(nodes', conns', contact', shutDown')
           /\ UNCHANGED <<nodes, contact>>
           /\ Telling(conns', todo', q, Plain("DISCONNECT")) /\ Told(todo') = Told(todo)
           /\ DOMAIN conns' = DOMAIN conns /\ Same(conns, conns', j) /\ Same(conns, conns', k)
           /\ Unmaking(nodes', conns', contact', n, j, m, k, i, sj, sk, more, less)
<1>0. Typed /\ Base(nodes, conns, contact, shutDown) /\ Owned(nodes, conns)
  BY DEF Sound, Base
<1>1. j # k /\ j \in DOMAIN conns /\ k \in DOMAIN conns
  BY <1>0, UnmakingEnds
<1>2. /\ conns[j].state = sj /\ conns[k].state = sk
      /\ Counted(nodes, conns, more, less)
  BY DEF Unmaking, Leaving
<1>4. Plain("DISCONNECT") \in Message
  BY DEF Plain, Message, Command, Null
<1>5. /\ Typed' /\ UNCHANGED <<nodes, contact, shutDown>>
      /\ Telling(conns', todo', q, Plain("DISCONNECT")) /\ Told(todo') = Told(todo)
      /\ SameConns(conns, conns', {})
  BY <1>0, <1>1, <1>4, TellEffect
<1>6. SameNodes(nodes, nodes') /\ SameConns(conns, conns', {j, k})
  BY <1>5, SameAll, SameConnsWiden
<1>7. Base(nodes', conns', contact', shutDown')
  <2>1. Base(nodes', conns', contact, shutDown)
    BY <1>0, <1>6, BaseKept
  <2> QED  BY <1>5, <2>1
<1>8. DOMAIN conns' = DOMAIN conns /\ Same(conns, conns', j) /\ Same(conns, conns', k)
  BY <1>1, <1>5 DEF SameConns
<1>9. conns'[j].state = sj /\ conns'[k].state = sk
  BY <1>2, <1>8 DEF Same
<1>10. Counted(nodes', conns', more, less)
  <2>1. \A n1 \in DOMAIN nodes : nodes'[n1].peers = nodes[n1].peers /\ LikeConfirmed(nodes, conns, conns', n1, Null)
    <3>1. \A n1, h, r : Has(nodes, n1, h, r) => r \in DOMAIN conns
      BY <1>0, OwnedFacts
    <3> QED  BY <1>5, <3>1 DEF LikeConfirmed, SameConns, Same
  <2> QED  BY <1>2, <1>6, <2>1, CountedKept
<1>11. Unmaking(nodes', conns', contact, n, j, m, k, i, sj, sk, more, less)
  BY <1>0, <1>6, <1>9, <1>10, UnmakingChange
<1> QED  BY <1>5, <1>7, <1>8, <1>11

\* DISCONNECT: its line is written.
LEMMA PartTells ==
    ASSUME Sound, Step, Head(todo).call # "receive", NEW n \in DOMAIN nodes, NEW m \in DOMAIN nodes,
           NEW j \in DOMAIN conns, NEW k \in DOMAIN conns, NEW i \in Slot,
           PartTold(nodes, conns, contact, todo, n, j, m, k, i)
    PROVE  Sound'
<1>1. /\ Telling(conns, todo, j, Plain("DISCONNECT")) /\ After(Told(todo), n, j, i)
      /\ Listens(conns, n, j, m, k) /\ End(conns, m, k, n, j)
      /\ Unmaking(nodes, conns, contact, n, j, m, k, i, "DISCONNECT", "CONFIRM", n, Null)
  BY DEF PartTold
<1> PICK sj, sk, more, less, q : sj = "DISCONNECT" /\ sk = "CONFIRM" /\ more = n /\ less = Null /\ q = j
  OBVIOUS
<1>2. HasReceiver(q)
  <2>1. Null \notin DOMAIN nodes
    BY Objects DEF Sound
  <2> QED  BY <1>1, <2>1 DEF HasReceiver, Listens
<1>3. /\ q \in {j, k} /\ Telling(conns, todo, q, Plain("DISCONNECT"))
      /\ Unmaking(nodes, conns, contact, n, j, m, k, i, sj, sk, more, less)
  BY <1>1 DEF End
<1>4. /\ Typed' /\ Base(nodes', conns', contact', shutDown')
      /\ UNCHANGED <<nodes, contact>>
      /\ Telling(conns', todo', q, Plain("DISCONNECT")) /\ Told(todo') = Told(todo)
      /\ DOMAIN conns' = DOMAIN conns /\ Same(conns, conns', j) /\ Same(conns, conns', k)
      /\ Unmaking(nodes', conns', contact', n, j, m, k, i, sj, sk, more, less)
  BY <1>2, <1>3, UnmakingTold
<1>5. Listens(conns', n, j, m, k) /\ End(conns', m, k, n, j)
  BY <1>1, <1>4 DEF End, Listens, Same
<1>6. After(Told(todo'), n, j, i)
  BY <1>1, <1>4
<1>7. PartTold(nodes', conns', contact', todo', n, j, m, k, i)
  BY <1>4, <1>5, <1>6 DEF PartTold
<1>8. Stage(nodes', conns', contact', todo')
  <2>1. DOMAIN nodes' = DOMAIN nodes /\ DOMAIN conns' = DOMAIN conns
    BY <1>4
  <2> QED  BY <1>7, <2>1 DEF Stage, PartStage
<1> QED  BY <1>4, <1>8 DEF Sound

\* The answer: its line is written.
LEMMA AnswerTells ==
    ASSUME Sound, Step, Head(todo).call # "receive", NEW n \in DOMAIN nodes, NEW m \in DOMAIN nodes,
           NEW j \in DOMAIN conns, NEW k \in DOMAIN conns, NEW i \in Slot,
           AnswerTold(nodes, conns, contact, todo, n, j, m, k, i)
    PROVE  Sound'
<1>1. /\ Telling(conns, todo, k, Plain("DISCONNECT")) /\ AfterUnlink(Told(todo), n, j, k, i)
      /\ Listens(conns, n, j, m, k) /\ Listens(conns, m, k, n, j)
      /\ Unmaking(nodes, conns, contact, n, j, m, k, i, "DISCONNECT", "CONFIRM", n, m)
  BY DEF AnswerTold
<1> PICK sj, sk, more, less, q : sj = "DISCONNECT" /\ sk = "CONFIRM" /\ more = n /\ less = m /\ q = k
  OBVIOUS
<1>2. HasReceiver(q)
  <2>1. Null \notin DOMAIN nodes
    BY Objects DEF Sound
  <2> QED  BY <1>1, <2>1 DEF HasReceiver, Listens
<1>3. /\ q \in {j, k} /\ Telling(conns, todo, q, Plain("DISCONNECT"))
      /\ Unmaking(nodes, conns, contact, n, j, m, k, i, sj, sk, more, less)
  BY <1>1
<1>4. /\ Typed' /\ Base(nodes', conns', contact', shutDown')
      /\ UNCHANGED <<nodes, contact>>
      /\ Telling(conns', todo', q, Plain("DISCONNECT")) /\ Told(todo') = Told(todo)
      /\ DOMAIN conns' = DOMAIN conns /\ Same(conns, conns', j) /\ Same(conns, conns', k)
      /\ Unmaking(nodes', conns', contact', n, j, m, k, i, sj, sk, more, less)
  BY <1>2, <1>3, UnmakingTold
<1>5. Listens(conns', n, j, m, k) /\ Listens(conns', m, k, n, j)
  BY <1>1, <1>4 DEF Listens, Same
<1>6. AfterUnlink(Told(todo'), n, j, k, i)
  BY <1>1, <1>4
<1>7. AnswerTold(nodes', conns', contact', todo', n, j, m, k, i)
  BY <1>4, <1>5, <1>6 DEF AnswerTold
<1>8. Stage(nodes', conns', contact', todo')
  <2>1. DOMAIN nodes' = DOMAIN nodes /\ DOMAIN conns' = DOMAIN conns
    BY <1>4
  <2> QED  BY <1>7, <2>1 DEF Stage, PartStage
<1> QED  BY <1>4, <1>8 DEF Sound

\* The owner of a confirmed connection has counted one.
LEMMA ConfirmedSome ==
    ASSUME NEW ns, NEW cs, NEW n, NEW k, Owns(ns, n, k), cs[k].state = "CONFIRM"
    PROVE  Cardinality(ConfirmedOf(ns, cs, n)) >= 1 /\ Cardinality(ConfirmedOf(ns, cs, n)) \in Nat
<1>1. IsFiniteSet(ConfirmedOf(ns, cs, n)) /\ Cardinality(ConfirmedOf(ns, cs, n)) \in Nat
  BY ConfirmedRoom
<1>2. k \in ConfirmedOf(ns, cs, n)
  BY DEF Owns, Has, ConfirmedOf
<1>3. Cardinality(ConfirmedOf(ns, cs, n)) # 0
  BY <1>1, <1>2, FS_EmptySet
<1> QED  BY <1>1, <1>3

\* How the count of w moves: it was one too many, or is one too few from now on.
OneLess(more, less, more2, less2, w) ==
    \/ more = w /\ more2 = Null /\ less2 = less /\ less # w
    \/ less = Null /\ less2 = w /\ more2 = more /\ more # w

\* Only the PlugNode that receives a line counts one peer less.
LEMMA CountedLess ==
    ASSUME NEW ns, NEW ms, NEW cs, NEW ds, NEW more, NEW less, NEW more2, NEW less2, NEW w,
           Owned(ns, cs), SameNodes(ns, ms), Counted(ns, cs, more, less), w # Null, Lives(ns, w),
           \A q \in DOMAIN cs : ds[q].state = "CONFIRM" <=> cs[q].state = "CONFIRM",
           \A n \in DOMAIN ns : n # w => ms[n].peers = ns[n].peers,
           ns[w].peers \in Nat, ms[w].peers = ns[w].peers - 1, Null \notin DOMAIN ns,
           OneLess(more, less, more2, less2, w)
    PROVE  Counted(ms, ds, more2, less2)
<1>0. PICK k : k = Null
  OBVIOUS
<1>1. \A n : LikeConfirmed(ns, cs, ds, n, k) /\ ~Owns(ns, n, k)
  <2>1. \A n, i, r : Has(ns, n, i, r) => r \in DOMAIN cs
    BY OwnedFacts
  <2> QED  BY <1>0, <2>1 DEF LikeConfirmed, Owns, Has
<1>2. ConfirmedOf(ms, ds, w) = ConfirmedOf(ns, cs, w)
  BY <1>1, ConfirmedSame
<1>3. /\ ns[w].peers + (IF w = less THEN 1 ELSE 0)
            = Cardinality(ConfirmedOf(ns, cs, w)) + (IF w = more THEN 1 ELSE 0)
  BY DEF Counted, Lives
<1>4. Cardinality(ConfirmedOf(ns, cs, w)) \in Nat
  BY ConfirmedRoom
<1>5. ms[w].peers + (IF w = less2 THEN 1 ELSE 0)
            = Cardinality(ConfirmedOf(ms, ds, w)) + (IF w = more2 THEN 1 ELSE 0)
  BY <1>2, <1>3, <1>4 DEF OneLess
<1>6. /\ more2 \in {more, w, Null} /\ more \in {more2, w, Null}
      /\ less2 \in {less, w, Null} /\ less \in {less2, w, Null}
  BY DEF OneLess
<1>7. Elsewhere(ns, ms, cs, ds, w, k)
  BY <1>1 DEF Elsewhere
<1> QED  BY <1>5, <1>6, <1>7, CountedChange

\* The peer counts one less, answers, and will leave the link.
LEMMA PartReceived ==
    ASSUME Sound, Step, Head(todo).call = "receive", NEW n \in DOMAIN nodes, NEW m \in DOMAIN nodes,
           NEW j \in DOMAIN conns, NEW k \in DOMAIN conns, NEW i \in Slot,
           PartTold(nodes, conns, contact, todo, n, j, m, k, i)
    PROVE  Sound'
<1>0. Typed /\ Base(nodes, conns, contact, shutDown) /\ Owned(nodes, conns) /\ Null \notin DOMAIN nodes
  BY Objects DEF Sound, Base
<1>1. /\ Telling(conns, todo, j, Plain("DISCONNECT")) /\ After(Told(todo), n, j, i)
      /\ Listens(conns, n, j, m, k) /\ End(conns, m, k, n, j)
      /\ Unmaking(nodes, conns, contact, n, j, m, k, i, "DISCONNECT", "CONFIRM", n, Null)
  BY DEF PartTold
<1>2. Plain("DISCONNECT") \in Message
  BY DEF Plain, Message, Command, Null
<1>3. /\ todo # <<>> /\ Call.conn = j /\ Line = Plain("DISCONNECT") /\ Told(todo) = Tail(todo) /\ ReceiveStep
      /\ Read \in Seq(ConnRecord) /\ OnlyLines(conns, Read)
      /\ \A q \in DOMAIN conns : Read[q].lines = <<>>
  BY <1>0, <1>1, <1>2, ReadEffect
<1>4. ReceiveDisconnect
  BY <1>3, ReceiveByCommand DEF Plain
<1>5. Receiver = m /\ Own = k
  BY <1>1, <1>3 DEF Listens, Receiver, Own
<1>m. /\ conns[j].state = "DISCONNECT" /\ conns[k].state = "CONFIRM" /\ Counted(nodes, conns, n, Null)
  BY <1>1 DEF Unmaking, Leaving
<1>e. /\ m # n /\ Lives(nodes, m) /\ Owns(nodes, m, k)
  BY <1>0, <1>1, UnmakingEnds
<1>6. /\ conns' = Read /\ UNCHANGED <<contact, localContactID, shutDown>>
      /\ DecrementPeers /\ Then(<<Send(k, "DISCONNECT", Null), Unlink(k)>>)
  <2> HIDE DEF Receiver, Own, Read
  <2> QED  BY <1>4, <1>5, <1>m DEF ReceiveDisconnect
<1>7. SameConns(conns, conns', {j, k}) /\ SameConns(conns, conns', {})
  BY <1>3, <1>6, OnlyLinesSame
<1>p. nodes[m].peers \in Nat /\ nodes[m].peers >= 1
  <2>1. nodes[m].peers + 0 = Cardinality(ConfirmedOf(nodes, conns, m)) + 0
    BY <1>0, <1>e, <1>m DEF Counted, Lives
  <2>2. Cardinality(ConfirmedOf(nodes, conns, m)) >= 1 /\ Cardinality(ConfirmedOf(nodes, conns, m)) \in Nat
    BY <1>e, <1>m, ConfirmedSome
  <2>3. nodes[m].peers \in 0 .. 4
    BY <1>0, Objects DEF NodeRecord
  <2> QED  BY <2>1, <2>2, <2>3
<1>n. /\ nodes' \in Seq(NodeRecord) /\ SameNodes(nodes, nodes')
      /\ nodes'[m].peers = nodes[m].peers - 1
      /\ \A n1 \in DOMAIN nodes : n1 # m => nodes'[n1].peers = nodes[n1].peers
  BY <1>0, <1>5, <1>6, <1>p, DecrementEffect
<1>8. Base(nodes', conns', contact', shutDown')
  <2>1. Base(nodes', conns', contact, shutDown)
    BY <1>0, <1>7, <1>n, BaseKept
  <2> QED  BY <1>6, <2>1
<1>s. \A q \in DOMAIN conns : Same(conns, conns', q)
  BY <1>7 DEF SameConns
<1>9. Unmaking(nodes', conns', contact', n, j, m, k, i, "DISCONNECT", "CONFIRM", n, m)
  <2>1. conns'[j].state = "DISCONNECT" /\ conns'[k].state = "CONFIRM"
    BY <1>m, <1>s DEF Same
  <2>2. Counted(nodes', conns', n, m)
    <3>1. \A q \in DOMAIN conns : conns'[q].state = "CONFIRM" <=> conns[q].state = "CONFIRM"
      BY <1>s DEF Same
    <3>2. m # Null /\ n # m
      BY <1>0, <1>e
    <3> PICK more, less, more2, less2 : more = n /\ less = Null /\ more2 = n /\ less2 = m
      OBVIOUS
    <3>3. Counted(nodes, conns, more, less) /\ OneLess(more, less, more2, less2, m)
      BY <1>m, <3>2 DEF OneLess
    <3>4. Counted(nodes', conns', more2, less2)
      BY <1>0, <1>e, <1>n, <1>p, <3>1, <3>2, <3>3, CountedLess
    <3> QED  BY <3>4
  <2>3. Unmaking(nodes', conns', contact, n, j, m, k, i, "DISCONNECT", "CONFIRM", n, m)
    BY <1>0, <1>1, <1>7, <1>n, <2>1, <2>2, UnmakingChange
  <2> QED  BY <1>6, <2>3
<1>10. Listens(conns', n, j, m, k) /\ End(conns', m, k, n, j)
  BY <1>1, <1>s DEF Same, End, Listens
<1>11. Send(k, "DISCONNECT", Null) \in CallRecord /\ Unlink(k) \in CallRecord
  <2>1. k \in Nat
    BY <1>0, Objects
  <2> QED  BY <2>1, CallTypes DEF Command, Null
<1>13. /\ todo' \in Seq(CallRecord) /\ todo' # <<>> /\ Head(todo') = Send(k, "DISCONNECT", Null)
       /\ Tail(todo') # <<>> /\ Head(Tail(todo')) = Unlink(k) /\ Tail(Tail(todo')) = Tail(todo)
  BY <1>0, <1>3, <1>6, <1>11, ThenTwo
<1>14. AllRead(conns', Null)
  BY <1>3, <1>6, <1>7 DEF AllRead, SameConns
<1>15. Answer(nodes', conns', contact', todo', n, j, m, k, i)
  <2>1. AfterUnlink(Tail(todo'), n, j, k, i)
    BY <1>1, <1>3, <1>13 DEF AfterUnlink
  <2> QED  BY <1>9, <1>10, <1>13, <1>14, <2>1 DEF Answer, Sending
<1>16. Stage(nodes', conns', contact', todo')
  <2>1. DOMAIN nodes' = DOMAIN nodes /\ DOMAIN conns' = DOMAIN conns
    BY <1>7, <1>n DEF SameNodes, SameConns
  <2> QED  BY <1>15, <2>1 DEF Stage, PartStage
<1>17. Typed'
  BY <1>0, <1>3, <1>6, <1>n, <1>13 DEF Typed
<1> QED  BY <1>8, <1>16, <1>17 DEF Sound

\* Connection k leaves the stream of connection rx.
MayUnlink(cs, k, rx) ==
    /\ cs \in Seq(ConnRecord) /\ k \in DOMAIN cs /\ rx \in DOMAIN cs /\ rx # k /\ cs[k].rxInfo = rx
IsUnlinked(cs, ds, k, rx) ==
    /\ ds \in Seq(ConnRecord) /\ DOMAIN ds = DOMAIN cs
    /\ \A q \in DOMAIN cs : q \notin {k, rx} => ds[q] = cs[q]
    /\ \A q \in {k, rx} : /\ ds[q].isAlive = cs[q].isAlive /\ ds[q].connectionID = cs[q].connectionID
                          /\ ds[q].lines = cs[q].lines
    /\ ds[k].state = "IDLE" /\ ds[k].peer = Null /\ ds[k].rxInfo = Null
    /\ ds[rx].state = cs[rx].state /\ ds[rx].peer = cs[rx].peer /\ ds[rx].rxInfo = cs[rx].rxInfo
    /\ ds[rx].receiver = cs[rx].receiver

\* disconnect() of a linked connection frees it and takes it off the stream.
LEMMA DisconnectedFacts ==
    ASSUME NEW cs, NEW k, NEW rx, MayUnlink(cs, k, rx)
    PROVE  IsUnlinked(cs, Disconnected(cs, k), k, rx)
<1>0. cs \in Seq(ConnRecord) /\ k \in DOMAIN cs /\ rx \in DOMAIN cs /\ rx # k /\ cs[k].rxInfo = rx
  BY DEF MayUnlink
<1>1. rx # Null
  BY <1>0, LenProperties DEF Null
<1>2. PICK s0 : /\ s0 \in Seq(ConnRecord) /\ OtherConns(cs, s0, rx)
                /\ s0[rx].isAlive = cs[rx].isAlive /\ s0[rx].connectionID = cs[rx].connectionID
                /\ s0[rx].lines = cs[rx].lines /\ s0[rx].state = cs[rx].state /\ s0[rx].peer = cs[rx].peer
                /\ s0[rx].rxInfo = cs[rx].rxInfo /\ s0[rx].receiver = cs[rx].receiver
                /\ s0 = IF cs[rx].registered = <<cs[k].receiver, k>>
                        THEN SetRegistered(cs, rx, <<Null, Null>>) ELSE cs
  <2>1. CASE cs[rx].registered = <<cs[k].receiver, k>>
    <3> PICK v : v = <<Null, Null>>
      OBVIOUS
    <3>1. v \in Pairs
      BY DEF Pairs, Null
    <3>2. /\ SetRegistered(cs, rx, v) \in Seq(ConnRecord) /\ OtherConns(cs, SetRegistered(cs, rx, v), rx)
          /\ SetRegistered(cs, rx, v)[rx].isAlive = cs[rx].isAlive
          /\ SetRegistered(cs, rx, v)[rx].connectionID = cs[rx].connectionID
          /\ SetRegistered(cs, rx, v)[rx].state = cs[rx].state
          /\ SetRegistered(cs, rx, v)[rx].receiver = cs[rx].receiver
          /\ SetRegistered(cs, rx, v)[rx].rxInfo = cs[rx].rxInfo
          /\ SetRegistered(cs, rx, v)[rx].peer = cs[rx].peer
          /\ SetRegistered(cs, rx, v)[rx].lines = cs[rx].lines
      BY <1>0, <3>1, RegisteredSet
    <3>3. SetRegistered(cs, rx, v) = IF cs[rx].registered = <<cs[k].receiver, k>>
                        THEN SetRegistered(cs, rx, <<Null, Null>>) ELSE cs
      BY <2>1
    <3> PICK s1 : s1 = SetRegistered(cs, rx, v)
      OBVIOUS
    <3> QED  BY <3>2, <3>3
  <2>2. CASE cs[rx].registered # <<cs[k].receiver, k>>
    BY <1>0, <2>2 DEF OtherConns
  <2> QED  BY <2>1, <2>2
<1>3. k \in DOMAIN s0 /\ s0[k] = cs[k]
  BY <1>0, <1>2 DEF OtherConns
<1>4. PICK s1 : s1 = SetState(s0, k, "IDLE")
  OBVIOUS
<1>5. /\ s1 \in Seq(ConnRecord) /\ OtherConns(s0, s1, k) /\ s1[k].state = "IDLE"
      /\ s1[k].isAlive = s0[k].isAlive /\ s1[k].connectionID = s0[k].connectionID /\ s1[k].lines = s0[k].lines
  <2> PICK v : v = "IDLE"
    OBVIOUS
  <2>1. v \in State
    BY DEF State
  <2>2. /\ SetState(s0, k, v) \in Seq(ConnRecord) /\ OtherConns(s0, SetState(s0, k, v), k) /\ SetState(s0, k, v)[k].state = v
        /\ SetState(s0, k, v)[k].isAlive = s0[k].isAlive /\ SetState(s0, k, v)[k].connectionID = s0[k].connectionID
        /\ SetState(s0, k, v)[k].lines = s0[k].lines
    <3>1. s0 \in Seq(ConnRecord) /\ k \in DOMAIN s0
      BY <1>2, <1>3
    <3> QED  BY <2>1, <3>1, StateSet
  <2> QED  BY <1>4, <2>2
<1>6. k \in DOMAIN s1 /\ Null \in Pointers
  BY <1>3, <1>5 DEF OtherConns, Pointers, Null
<1>7. PICK s2 : s2 = SetRx(s1, k, Null)
  OBVIOUS
<1>8. /\ s2 \in Seq(ConnRecord) /\ OtherConns(s1, s2, k) /\ s2[k].rxInfo = Null /\ s2[k].state = s1[k].state
      /\ s2[k].isAlive = s1[k].isAlive /\ s2[k].connectionID = s1[k].connectionID /\ s2[k].lines = s1[k].lines
  BY <1>5, <1>6, <1>7, RxSet
<1>9. k \in DOMAIN s2
  BY <1>6, <1>8 DEF OtherConns
<1>10. PICK s3 : s3 = SetReceiver(s2, k, Null)
  OBVIOUS
<1>11. /\ s3 \in Seq(ConnRecord) /\ OtherConns(s2, s3, k) /\ s3[k].rxInfo = s2[k].rxInfo /\ s3[k].state = s2[k].state
       /\ s3[k].isAlive = s2[k].isAlive /\ s3[k].connectionID = s2[k].connectionID /\ s3[k].lines = s2[k].lines
  BY <1>6, <1>8, <1>9, <1>10, ReceiverSet
<1>12. k \in DOMAIN s3
  BY <1>9, <1>11 DEF OtherConns
<1>13. PICK s4 : s4 = SetPeer(s3, k, Null)
  OBVIOUS
<1>14. /\ s4 \in Seq(ConnRecord) /\ OtherConns(s3, s4, k) /\ s4[k].peer = Null
       /\ s4[k].rxInfo = s3[k].rxInfo /\ s4[k].state = s3[k].state
       /\ s4[k].isAlive = s3[k].isAlive /\ s4[k].connectionID = s3[k].connectionID /\ s4[k].lines = s3[k].lines
  BY <1>6, <1>11, <1>12, <1>13, PeerSet
<1>15. Disconnected(cs, k) = s4
  <2>1. Unlinked(cs, k) = [s0 EXCEPT ![k].state = "IDLE", ![k].rxInfo = Null, ![k].receiver = Null]
    BY <1>0, <1>1, <1>2 DEF Unlinked, SetRegistered
  <2>2. Disconnected(cs, k) = [[s0 EXCEPT ![k].state = "IDLE", ![k].rxInfo = Null, ![k].receiver = Null]
                                  EXCEPT ![k].peer = Null]
    BY <2>1 DEF Disconnected
  <2>3. s3 = [s0 EXCEPT ![k].state = "IDLE", ![k].rxInfo = Null, ![k].receiver = Null]
    BY <1>2, <1>3, <1>4, <1>7, <1>10 DEF SetState, SetRx, SetReceiver
  <2> QED  BY <1>13, <2>2, <2>3 DEF SetPeer
<1>16. DOMAIN s4 = DOMAIN cs /\ \A q \in DOMAIN cs : q # k => s4[q] = s0[q]
  <2>1. /\ OtherConns(cs, s0, rx) /\ OtherConns(s0, s1, k) /\ OtherConns(s1, s2, k)
        /\ OtherConns(s2, s3, k) /\ OtherConns(s3, s4, k)
    BY <1>2, <1>5, <1>8, <1>11, <1>14
  <2> QED  BY <2>1 DEF OtherConns
<1>17. \A q \in DOMAIN cs : q \notin {k, rx} => s4[q] = cs[q]
  BY <1>2, <1>16 DEF OtherConns
<1>18. s4[rx] = s0[rx]
  BY <1>0, <1>16
<1>19. /\ s4[k].state = "IDLE" /\ s4[k].peer = Null /\ s4[k].rxInfo = Null
       /\ s4[k].isAlive = cs[k].isAlive /\ s4[k].connectionID = cs[k].connectionID /\ s4[k].lines = cs[k].lines
  BY <1>3, <1>5, <1>8, <1>11, <1>14
<1> QED  BY <1>2, <1>14, <1>15, <1>16, <1>17, <1>18, <1>19 DEF IsUnlinked

\* What the others see of it.
LEMMA UnlinkedSame ==
    ASSUME NEW cs, NEW cs0, NEW ds, NEW k, NEW rx, NEW busy, k \in busy, rx \in busy,
           OnlyLines(cs0, cs), IsUnlinked(cs, ds, k, rx), k \in DOMAIN cs, rx \in DOMAIN cs
    PROVE  SameConns(cs0, ds, busy) /\ \A q \in DOMAIN cs0 : ds[q].lines = cs[q].lines
<1>1. /\ DOMAIN ds = DOMAIN cs /\ DOMAIN cs = DOMAIN cs0
      /\ \A q \in DOMAIN cs : q \notin {k, rx} => ds[q] = cs[q]
      /\ \A q \in {k, rx} : /\ ds[q].isAlive = cs[q].isAlive /\ ds[q].connectionID = cs[q].connectionID
                            /\ ds[q].lines = cs[q].lines
      /\ ds[k].peer = Null /\ ds[rx].peer = cs[rx].peer
  BY DEF IsUnlinked, OnlyLines
<1>2. ASSUME NEW q \in DOMAIN cs0
      PROVE  /\ ds[q].isAlive = cs0[q].isAlive /\ ds[q].connectionID = cs0[q].connectionID
             /\ ds[q].peer \in {cs0[q].peer, Null} /\ (q \notin busy => Same(cs0, ds, q))
             /\ ds[q].lines = cs[q].lines
  <2>1. cs[q].isAlive = cs0[q].isAlive /\ cs[q].connectionID = cs0[q].connectionID /\ Same(cs0, cs, q)
    BY DEF OnlyLines
  <2>2. CASE q \notin {k, rx}
    BY <1>1, <2>1, <2>2 DEF Same
  <2>3. CASE q = k
    BY <1>1, <2>1, <2>3 DEF Same
  <2>4. CASE q = rx
    BY <1>1, <2>1, <2>4 DEF Same
  <2> QED  BY <2>2, <2>3, <2>4
<1> QED  BY <1>1, <1>2 DEF SameConns

\* The PlugNode that leaves counts one less, and leaves the link.
LEMMA AnswerReceived ==
    ASSUME Sound, Step, Head(todo).call = "receive", NEW n \in DOMAIN nodes, NEW m \in DOMAIN nodes,
           NEW j \in DOMAIN conns, NEW k \in DOMAIN conns, NEW i \in Slot,
           AnswerTold(nodes, conns, contact, todo, n, j, m, k, i)
    PROVE  Sound'
<1>0. Typed /\ Base(nodes, conns, contact, shutDown) /\ Owned(nodes, conns) /\ Null \notin DOMAIN nodes
  BY Objects DEF Sound, Base
<1>1. /\ Telling(conns, todo, k, Plain("DISCONNECT")) /\ AfterUnlink(Told(todo), n, j, k, i)
      /\ Listens(conns, n, j, m, k) /\ Listens(conns, m, k, n, j)
      /\ Unmaking(nodes, conns, contact, n, j, m, k, i, "DISCONNECT", "CONFIRM", n, m)
  BY DEF AnswerTold
<1>2. Plain("DISCONNECT") \in Message
  BY DEF Plain, Message, Command, Null
<1>3. /\ todo # <<>> /\ Call.conn = k /\ Line = Plain("DISCONNECT") /\ Told(todo) = Tail(todo) /\ ReceiveStep
      /\ Read \in Seq(ConnRecord) /\ OnlyLines(conns, Read)
      /\ \A q \in DOMAIN conns : Read[q].lines = <<>>
  BY <1>0, <1>1, <1>2, ReadEffect
<1>4. ReceiveDisconnect
  BY <1>3, ReceiveByCommand DEF Plain
<1>5. Receiver = n /\ Own = j
  BY <1>1, <1>3 DEF Listens, Receiver, Own
<1>m. /\ conns[j].state = "DISCONNECT" /\ conns[k].state = "CONFIRM" /\ Counted(nodes, conns, n, m)
  BY <1>1 DEF Unmaking, Leaving
<1>e. /\ m # n /\ j # k /\ Lives(nodes, n)
  BY <1>0, <1>1, UnmakingEnds
<1>6. /\ conns' = Disconnected(Read, j) /\ UNCHANGED <<contact, localContactID, shutDown>>
      /\ DecrementPeers /\ Then(<<>>)
  <2>1. conns[Own].state = "DISCONNECT" /\ conns[Own].state # "CONFIRM"
    BY <1>5, <1>m
  <2> HIDE DEF Receiver, Own, Read
  <2>2. /\ conns' = Disconnected(Read, Own) /\ Then(<<>>)
    BY <1>4, <2>1 DEF ReceiveDisconnect
  <2>3. DecrementPeers /\ UNCHANGED <<contact, localContactID, shutDown>>
    BY <1>4 DEF ReceiveDisconnect
  <2> QED  BY <1>5, <2>2, <2>3
<1>7. /\ conns' \in Seq(ConnRecord) /\ SameConns(conns, conns', {j, k})
      /\ \A q \in DOMAIN conns : conns'[q].lines = <<>>
      /\ \A q \in DOMAIN conns : q # j => conns'[q].state = conns[q].state
      /\ conns'[j].state = "IDLE" /\ conns'[k].rxInfo = j
  <2> PICK cs, ds : cs = Read /\ ds = Disconnected(cs, j)
    OBVIOUS
  <2> PICK busy : busy = {j, k}
    OBVIOUS
  <2>1. cs \in Seq(ConnRecord) /\ OnlyLines(conns, cs) /\ \A q \in DOMAIN conns : cs[q].lines = <<>>
    BY <1>3
  <2>2. j \in DOMAIN cs /\ k \in DOMAIN cs /\ cs[j].rxInfo = k /\ cs[k].rxInfo = j
    BY <1>1, <2>1 DEF OnlyLines, Same, Listens
  <2>3. MayUnlink(cs, j, k)
    BY <1>e, <2>1, <2>2 DEF MayUnlink
  <2>4. IsUnlinked(cs, ds, j, k)
    BY <2>3, DisconnectedFacts
  <2>5. SameConns(conns, ds, busy) /\ \A q \in DOMAIN conns : ds[q].lines = cs[q].lines
    BY <2>1, <2>2, <2>4, UnlinkedSame
  <2>6. /\ ds \in Seq(ConnRecord) /\ ds[j].state = "IDLE" /\ ds[k].state = cs[k].state /\ ds[k].rxInfo = j
        /\ \A q \in DOMAIN cs : q \notin {j, k} => ds[q] = cs[q]
    BY <2>2, <2>4 DEF IsUnlinked
  <2>7. \A q \in DOMAIN conns : q # j => ds[q].state = conns[q].state
    <3>1. \A q \in DOMAIN conns : q # j => ds[q].state = cs[q].state
      BY <2>1, <2>6 DEF OnlyLines
    <3> QED  BY <2>1, <3>1 DEF OnlyLines, Same
  <2>8. conns' = ds
    BY <1>6
  <2> QED  BY <2>1, <2>5, <2>6, <2>7, <2>8
<1>p. nodes[n].peers \in Nat /\ nodes[n].peers >= 1
  <2>1. nodes[n].peers + (IF n = m THEN 1 ELSE 0) = Cardinality(ConfirmedOf(nodes, conns, n)) + (IF n = n THEN 1 ELSE 0)
    BY <1>m, <1>e DEF Counted, Lives
  <2>2. Cardinality(ConfirmedOf(nodes, conns, n)) \in Nat
    BY ConfirmedRoom
  <2>3. nodes[n].peers \in 0 .. 4
    BY <1>0, Objects DEF NodeRecord
  <2> QED  BY <1>e, <2>1, <2>2, <2>3
<1>n. /\ nodes' \in Seq(NodeRecord) /\ SameNodes(nodes, nodes')
      /\ nodes'[n].peers = nodes[n].peers - 1
      /\ \A n1 \in DOMAIN nodes : n1 # n => nodes'[n1].peers = nodes[n1].peers
  BY <1>0, <1>5, <1>6, <1>p, DecrementEffect
<1>8. Base(nodes', conns', contact', shutDown')
  <2>1. Base(nodes', conns', contact, shutDown)
    BY <1>0, <1>7, <1>n, BaseKept
  <2> QED  BY <1>6, <2>1
<1>9. Unmaking(nodes', conns', contact', n, j, m, k, i, "IDLE", "CONFIRM", Null, m)
  <2>1. conns'[j].state = "IDLE" /\ conns'[k].state = "CONFIRM"
    BY <1>m, <1>e, <1>7
  <2>2. Counted(nodes', conns', Null, m)
    <3>1. \A q \in DOMAIN conns : conns'[q].state = "CONFIRM" <=> conns[q].state = "CONFIRM"
      BY <1>7, <1>m
    <3>2. n # Null
      BY <1>0
    <3> PICK more, less, more2, less2 : more = n /\ less = m /\ more2 = Null /\ less2 = m
      OBVIOUS
    <3>3. Counted(nodes, conns, more, less) /\ OneLess(more, less, more2, less2, n)
      BY <1>m, <1>e DEF OneLess
    <3>4. Counted(nodes', conns', more2, less2)
      BY <1>0, <1>e, <1>n, <1>p, <3>1, <3>2, <3>3, CountedLess
    <3> QED  BY <3>4
  <2>3. Unmaking(nodes', conns', contact, n, j, m, k, i, "IDLE", "CONFIRM", Null, m)
    BY <1>0, <1>1, <1>7, <1>n, <2>1, <2>2, UnmakingChange
  <2> QED  BY <1>6, <2>3
<1>13. todo' \in Seq(CallRecord) /\ todo' = Tail(todo)
  BY <1>0, <1>3, <1>6, ThenNone
<1>14. AllRead(conns', Null)
  BY <1>7 DEF AllRead, SameConns
<1>15. Answered(nodes', conns', contact', todo', n, j, m, k, i)
  BY <1>1, <1>3, <1>7, <1>9, <1>13, <1>14 DEF Answered
<1>16. Stage(nodes', conns', contact', todo')
  <2>1. DOMAIN nodes' = DOMAIN nodes /\ DOMAIN conns' = DOMAIN conns
    BY <1>7, <1>n DEF SameNodes, SameConns
  <2> QED  BY <1>15, <2>1 DEF Stage, PartStage
<1>17. Typed'
  BY <1>0, <1>6, <1>7, <1>n, <1>13 DEF Typed
<1> QED  BY <1>8, <1>16, <1>17 DEF Sound

\* Then the peer leaves it too.
LEMMA AnsweredStep ==
    ASSUME Sound, Step, NEW n \in DOMAIN nodes, NEW m \in DOMAIN nodes,
           NEW j \in DOMAIN conns, NEW k \in DOMAIN conns, NEW i \in Slot,
           Answered(nodes, conns, contact, todo, n, j, m, k, i)
    PROVE  Sound'
<1>0. Typed /\ Base(nodes, conns, contact, shutDown) /\ Owned(nodes, conns) /\ Null \notin DOMAIN nodes
  BY Objects DEF Sound, Base
<1>1. /\ todo # <<>> /\ Head(todo) = Unlink(k) /\ After(Tail(todo), n, j, i) /\ AllRead(conns, Null)
      /\ conns[k].rxInfo = j
      /\ Unmaking(nodes, conns, contact, n, j, m, k, i, "IDLE", "CONFIRM", Null, m)
  BY DEF Answered, AfterUnlink
<1>2. UnlinkConnection
  BY <1>1, StepByCall DEF Unlink
<1>3. /\ conns' = Disconnected(conns, k) /\ Then(<<>>)
      /\ UNCHANGED <<nodes, contact, localContactID, shutDown>>
  BY <1>1, <1>2 DEF UnlinkConnection, Call, Unlink
<1>m. /\ conns[j].state = "IDLE" /\ conns[k].state = "CONFIRM" /\ Counted(nodes, conns, Null, m)
  BY <1>1 DEF Unmaking, Leaving
<1>e. /\ m # n /\ j # k /\ Lives(nodes, m) /\ Owns(nodes, m, k) /\ \A n1 : Owns(nodes, n1, k) => n1 = m
  BY <1>0, <1>1, UnmakingEnds
<1>7. /\ conns' \in Seq(ConnRecord) /\ SameConns(conns, conns', {j, k})
      /\ \A q \in DOMAIN conns : conns'[q].lines = conns[q].lines
      /\ \A q \in DOMAIN conns : q # k => conns'[q].state = conns[q].state
      /\ conns'[k].state = "IDLE" /\ Clean(conns'[k])
  <2> PICK cs, ds : cs = conns /\ ds = Disconnected(cs, k)
    OBVIOUS
  <2> PICK busy : busy = {j, k}
    OBVIOUS
  <2>1. cs \in Seq(ConnRecord) /\ OnlyLines(conns, cs)
    BY <1>0 DEF Typed, OnlyLines, Same
  <2>3. MayUnlink(cs, k, j)
    BY <1>1, <1>e, <2>1 DEF MayUnlink
  <2>4. IsUnlinked(cs, ds, k, j)
    BY <2>3, DisconnectedFacts
  <2>5. SameConns(conns, ds, busy) /\ \A q \in DOMAIN conns : ds[q].lines = cs[q].lines
    BY <2>1, <2>4, UnlinkedSame
  <2>6. /\ ds \in Seq(ConnRecord) /\ ds[k].state = "IDLE" /\ ds[j].state = cs[j].state
        /\ Clean(ds[k])
        /\ \A q \in DOMAIN cs : q \notin {j, k} => ds[q] = cs[q]
    BY <2>4 DEF IsUnlinked, Clean
  <2>7. \A q \in DOMAIN conns : q # k => ds[q].state = conns[q].state
    BY <2>6
  <2>8. conns' = ds
    BY <1>3
  <2> QED  BY <2>5, <2>6, <2>7, <2>8
<1>n. SameNodes(nodes, nodes')
  BY <1>3, SameAll
<1>8. Base(nodes', conns', contact', shutDown')
  <2>1. Base(nodes', conns', contact, shutDown)
    BY <1>0, <1>7, <1>n, BaseKept
  <2> QED  BY <1>3, <2>1
<1>9. Unmaking(nodes', conns', contact', n, j, m, k, i, "IDLE", "IDLE", Null, Null)
  <2>1. conns'[j].state = "IDLE" /\ conns'[k].state = "IDLE"
    BY <1>m, <1>e, <1>7
  <2>2. Counted(nodes', conns', Null, Null)
    <3>1. \A n1 : LikeConfirmed(nodes, conns, conns', n1, k)
      <4>1. \A n1, h, r : Has(nodes, n1, h, r) => r \in DOMAIN conns
        BY <1>0, OwnedFacts
      <4> QED  BY <1>7, <4>1 DEF LikeConfirmed
    <3>2. Elsewhere(nodes, nodes', conns, conns', m, k)
      BY <1>e, <1>3, <3>1 DEF Elsewhere
    <3>3. Cardinality(ConfirmedOf(nodes, conns, m)) = Cardinality(ConfirmedOf(nodes', conns', m)) + 1
      <4>1. LikeConfirmed(nodes, conns, conns', m, k) /\ conns'[k].state # "CONFIRM"
        BY <1>7, <3>1
      <4> QED  BY <1>e, <1>m, <1>n, <4>1, ConfirmedLess
    <3>4. m # Null
      BY <1>0
    <3>5. nodes'[m].peers + (IF m = Null THEN 1 ELSE 0)
                = Cardinality(ConfirmedOf(nodes', conns', m)) + (IF m = Null THEN 1 ELSE 0)
      <4>1. nodes[m].peers + 1 = Cardinality(ConfirmedOf(nodes, conns, m)) + 0
        BY <1>e, <1>m, <3>4 DEF Counted, Lives
      <4>2. nodes[m].peers \in 0 .. 4
        BY <1>0, Objects DEF NodeRecord
      <4>3. Cardinality(ConfirmedOf(nodes', conns', m)) \in Nat
        BY ConfirmedRoom
      <4> QED  BY <1>3, <3>3, <3>4, <4>1, <4>2, <4>3
    <3> PICK less : less = m
      OBVIOUS
    <3>6. Counted(nodes, conns, Null, less) /\ less \in {Null, m}
      BY <1>m
    <3> QED  BY <1>0, <1>n, <3>2, <3>4, <3>5, <3>6, CountedChange
  <2>3. Unmaking(nodes', conns', contact, n, j, m, k, i, "IDLE", "IDLE", Null, Null)
    BY <1>0, <1>1, <1>7, <1>n, <2>1, <2>2, UnmakingChange
  <2> QED  BY <1>3, <2>3
<1>13. todo' \in Seq(CallRecord) /\ todo' = Tail(todo)
  BY <1>0, <1>1, <1>3, ThenNone
<1>14. AllRead(conns', Null)
  BY <1>1, <1>7 DEF AllRead, SameConns
<1>15. Silent(nodes', conns', contact', todo', n, j, m, k, i)
  BY <1>1, <1>7, <1>9, <1>13, <1>14 DEF Silent
<1>16. Stage(nodes', conns', contact', todo')
  <2>1. DOMAIN nodes' = DOMAIN nodes /\ DOMAIN conns' = DOMAIN conns
    BY <1>7, <1>n DEF SameNodes, SameConns
  <2> QED  BY <1>15, <2>1 DEF Stage, PartStage
<1>17. Typed'
  BY <1>0, <1>3, <1>7, <1>13 DEF Typed
<1> QED  BY <1>8, <1>16, <1>17 DEF Sound

\* The state of a connection is set again.
LEMMA DoneEffect ==
    ASSUME Typed, NEW j \in DOMAIN conns, NEW ds, ds = SetState(conns, j, "DISCONNECT"), NEW busy, j \in busy
    PROVE  /\ ds \in Seq(ConnRecord) /\ SameConns(conns, ds, busy) /\ DOMAIN ds = DOMAIN conns
           /\ \A q \in DOMAIN conns : q # j => ds[q] = conns[q]
           /\ \A q \in DOMAIN conns : ds[q].lines = conns[q].lines /\ ds[q].peer = conns[q].peer
           /\ ds[j].state = "DISCONNECT" /\ ds[j].rxInfo = conns[j].rxInfo
           /\ ds[j].receiver = conns[j].receiver /\ ds[j].registered = conns[j].registered
<1> PICK v : v = "DISCONNECT"
  OBVIOUS
<1>1. v \in State /\ conns \in Seq(ConnRecord)
  BY DEF State, Typed
<1>2. /\ SetState(conns, j, v) \in Seq(ConnRecord) /\ OtherConns(conns, SetState(conns, j, v), j)
      /\ SetState(conns, j, v)[j].state = v
      /\ SetState(conns, j, v)[j].isAlive = conns[j].isAlive
      /\ SetState(conns, j, v)[j].connectionID = conns[j].connectionID
      /\ SetState(conns, j, v)[j].receiver = conns[j].receiver
      /\ SetState(conns, j, v)[j].rxInfo = conns[j].rxInfo
      /\ SetState(conns, j, v)[j].peer = conns[j].peer
      /\ SetState(conns, j, v)[j].registered = conns[j].registered
      /\ SetState(conns, j, v)[j].lines = conns[j].lines
  BY <1>1, StateSet
<1>3. ds = SetState(conns, j, v)
  OBVIOUS
<1> HIDE DEF SetState
<1> QED  BY <1>2, <1>3 DEF OtherConns, SameConns, Same

\* n is done with the connection in slot i.
LEMMA SilentStep ==
    ASSUME Sound, Step, NEW n \in DOMAIN nodes, NEW m \in DOMAIN nodes,
           NEW j \in DOMAIN conns, NEW k \in DOMAIN conns, NEW i \in Slot,
           Silent(nodes, conns, contact, todo, n, j, m, k, i)
    PROVE  Sound'
<1>0. Typed /\ Base(nodes, conns, contact, shutDown) /\ Owned(nodes, conns)
  BY DEF Sound, Base
<1>1. /\ todo # <<>> /\ Head(todo) = SetDisconnect(j) /\ Tail(todo) = LeaveCalls(n, i)
      /\ AllRead(conns, Null) /\ Clean(conns[k])
      /\ Unmaking(nodes, conns, contact, n, j, m, k, i, "IDLE", "IDLE", Null, Null)
  BY DEF Silent, After
<1>2. DisconnectDone
  BY <1>1, StepByCall DEF SetDisconnect
<1>3. /\ conns' = SetState(conns, j, "DISCONNECT") /\ Then(<<>>)
      /\ UNCHANGED <<nodes, contact, localContactID, shutDown>>
  <2>1. Call.conn = j
    BY <1>1 DEF Call, SetDisconnect
  <2> HIDE DEF Call
  <2> QED  BY <1>2, <2>1 DEF DisconnectDone, SetState
<1>m. /\ conns[j].state = "IDLE" /\ Has(nodes, n, i, j) /\ Lives(nodes, n) /\ Parted(nodes, conns, n, i - 1)
      /\ Settled(nodes, conns, {j, k}, n) /\ (contact # n => Star(nodes, conns, contact, {n}))
      /\ Counted(nodes, conns, Null, Null)
  <2>1. /\ conns[j].state = "IDLE" /\ Has(nodes, n, i, j)
        /\ Leaving(nodes, conns, contact, n, {j, k}, i - 1, Null, Null)
    BY <1>1 DEF Unmaking
  <2>2. /\ Lives(nodes, n) /\ Parted(nodes, conns, n, i - 1)
        /\ Settled(nodes, conns, {j, k}, n) /\ (contact # n => Star(nodes, conns, contact, {n}))
        /\ Counted(nodes, conns, Null, Null)
    BY <2>1, Zenon DEF Leaving
  <2> QED  BY <2>1, <2>2
<1>e. j # k
  BY <1>0, <1>1, UnmakingEnds
<1> PICK busy : busy = {j, k}
  OBVIOUS
<1>7. /\ conns' \in Seq(ConnRecord) /\ SameConns(conns, conns', busy) /\ DOMAIN conns' = DOMAIN conns
      /\ \A q \in DOMAIN conns : q # j => conns'[q] = conns[q]
      /\ \A q \in DOMAIN conns : conns'[q].lines = conns[q].lines /\ conns'[q].peer = conns[q].peer
      /\ conns'[j].state = "DISCONNECT"
  <2> PICK ds : ds = SetState(conns, j, "DISCONNECT")
    OBVIOUS
  <2>1. /\ ds \in Seq(ConnRecord) /\ SameConns(conns, ds, busy) /\ DOMAIN ds = DOMAIN conns
        /\ \A q \in DOMAIN conns : q # j => ds[q] = conns[q]
        /\ \A q \in DOMAIN conns : ds[q].lines = conns[q].lines /\ ds[q].peer = conns[q].peer
        /\ ds[j].state = "DISCONNECT"
    BY <1>0, DoneEffect
  <2>2. conns' = ds
    BY <1>3
  <2> QED  BY <2>1, <2>2
<1>n. SameNodes(nodes, nodes')
  BY <1>3, SameAll
<1>h. \A n1, h, q : Has(nodes, n1, h, q) => q \in DOMAIN conns
  BY <1>0, OwnedFacts
<1>8. Base(nodes', conns', contact', shutDown')
  <2>1. Base(nodes', conns', contact, shutDown)
    BY <1>0, <1>7, <1>n, BaseKept
  <2> QED  BY <1>3, <2>1
<1>9. Settled(nodes', conns', {}, n)
  <2>1. Settled(nodes, conns, busy, n)
    BY <1>m
  <2>2. Settled(nodes', conns', busy, n)
    BY <1>0, <1>7, <1>n, <2>1, SettledKept
  <2>3. Settled(nodes', conns', {j, k}, n)
    BY <2>2
  <2>4. Owned(nodes', conns')
    BY <1>8 DEF Base
  <2>5. Has(nodes', n, i, j)
    BY <1>m, <1>3
  <2>6. Clean(conns'[k])
    BY <1>1, <1>7, <1>e
  <2> QED  BY <1>7, <2>3, <2>4, <2>5, <2>6, SettledDone
<1>10. contact' # n => Star(nodes', conns', contact', {n})
  <2> SUFFICES ASSUME contact # n  PROVE Star(nodes', conns', contact, {n})
    BY <1>3
  <2> PICK except : except = {n}
    OBVIOUS
  <2>1. Star(nodes, conns, contact, except)
    BY <1>m
  <2>2. \A n1, h, q : Has(nodes, n1, h, q) /\ n1 \notin except /\ conns[q].peer = contact => conns'[q].peer = contact
    BY <1>7, <1>h
  <2>3. Star(nodes', conns', contact, except)
    BY <1>n, <2>1, <2>2, StarKept
  <2> QED  BY <2>3
<1>11. Counted(nodes', conns', Null, Null)
  <2>1. \A n1 \in DOMAIN nodes : nodes'[n1].peers = nodes[n1].peers /\ LikeConfirmed(nodes, conns, conns', n1, Null)
    <3>1. \A q \in DOMAIN conns : conns'[q].state = "CONFIRM" <=> conns[q].state = "CONFIRM"
      BY <1>7, <1>m
    <3> QED  BY <1>3, <1>h, <3>1 DEF LikeConfirmed
  <2> QED  BY <1>m, <1>n, <2>1, CountedKept
<1>12. Parted(nodes', conns', n, i)
  <2> SUFFICES ASSUME NEW h \in Slot, NEW q, q = nodes[n].connection[h], h <= i, q # Null
               PROVE  conns'[q].state \in {"IDLE", "DISCONNECT"}
    BY <1>3 DEF Parted
  <2>1. Has(nodes, n, h, q)
    BY <1>m DEF Has
  <2>2. CASE q = j
    BY <1>7, <2>2
  <2>3. CASE q # j
    <3>1. h # i
      BY <1>m, <2>3 DEF Has
    <3>2. h <= i - 1
      BY <3>1 DEF Slot
    <3>3. conns[q].state \in {"IDLE", "DISCONNECT"}
      BY <1>m, <3>2 DEF Parted
    <3> QED  BY <1>7, <1>h, <2>1, <2>3, <3>3
  <2> QED  BY <2>2, <2>3
<1>13. todo' \in Seq(CallRecord) /\ todo' = LeaveCalls(n, i)
  <2>1. todo' \in Seq(CallRecord) /\ todo' = Tail(todo)
    BY <1>0, <1>1, <1>3, ThenNone
  <2> QED  BY <1>1, <2>1
<1>14. AllRead(conns', Null)
  BY <1>1, <1>7 DEF AllRead
<1>15. AtLeave(nodes', conns', contact', todo', n, i)
  <2>1. Lives(nodes', n)
    BY <1>m, <1>3
  <2>2. Leaving(nodes', conns', contact', n, {}, i, Null, Null)
    BY <1>9, <1>10, <1>11, <1>12, <2>1 DEF Leaving
  <2>3. ~(i >= 5)
    BY DEF Slot
  <2> QED  BY <1>13, <1>14, <2>2, <2>3 DEF AtLeave
<1>16. Stage(nodes', conns', contact', todo')
  <2>1. n \in DOMAIN nodes' /\ i \in 0 .. 9
    BY <1>3 DEF Slot
  <2> QED  BY <1>15, <2>1 DEF Stage
<1>17. Typed'
  BY <1>0, <1>3, <1>7, <1>13 DEF Typed
<1> QED  BY <1>8, <1>16, <1>17 DEF Sound

\* While a link is undone.
LEMMA PartStep ==
    ASSUME Sound, Step, NEW n \in DOMAIN nodes, NEW m \in DOMAIN nodes,
           NEW j \in DOMAIN conns, NEW k \in DOMAIN conns, NEW i \in Slot,
           PartStage(nodes, conns, contact, todo, n, j, m, k, i)
    PROVE  Sound'
<1>1. CASE Part(nodes, conns, contact, todo, n, j, m, k, i)
  BY <1>1, PartSent
<1>2. CASE PartTold(nodes, conns, contact, todo, n, j, m, k, i)
  BY <1>2, PartTells, PartReceived
<1>3. CASE Answer(nodes, conns, contact, todo, n, j, m, k, i)
  BY <1>3, AnswerSent
<1>4. CASE AnswerTold(nodes, conns, contact, todo, n, j, m, k, i)
  BY <1>4, AnswerTells, AnswerReceived
<1>5. CASE Answered(nodes, conns, contact, todo, n, j, m, k, i)
  BY <1>5, AnsweredStep
<1>6. CASE Silent(nodes, conns, contact, todo, n, j, m, k, i)
  BY <1>6, SilentStep
<1> QED  BY <1>1, <1>2, <1>3, <1>4, <1>5, <1>6 DEF PartStage

\* CmServiceAccess::disconnect() of the connection in slot i.
LEMMA DisconnectEffect ==
    ASSUME Disconnect, NEW n, NEW i, Head(todo) = DisconnectPeer(n, i), NEW k, k = nodes[n].connection[i],
           NEW skip, skip = (k = Null \/ conns[k].state = "IDLE")
    PROVE  /\ UNCHANGED <<nodes, contact, localContactID, shutDown>>
           /\ skip => conns' = conns /\ Then(<<>>)
           /\ ~skip => conns' = SetState(conns, k, "DISCONNECT")
           /\ ~skip /\ conns[k].state = "CONFIRM"
                 => Then(<<Send(k, "DISCONNECT", Null), SetDisconnect(k)>>)
           /\ ~skip /\ conns[k].state # "CONFIRM" => Then(<<>>)
<1>1. Call.at = n /\ Call.slot = i
  BY DEF Call, DisconnectPeer
<1> HIDE DEF Call
<1>2. IF skip
      THEN UNCHANGED conns /\ Then(<<>>)
      ELSE /\ conns' = [conns EXCEPT ![k].state = "DISCONNECT"]
           /\ IF conns[k].state = "CONFIRM"
              THEN Then(<<Send(k, "DISCONNECT", Null), SetDisconnect(k)>>)
              ELSE Then(<<>>)
  BY <1>1 DEF Disconnect, IsIdle
<1>3. UNCHANGED <<nodes, contact, localContactID, shutDown>>
  BY DEF Disconnect
<1>4. skip => conns' = conns /\ Then(<<>>)
  BY <1>2, Zenon
<1>5. ~skip => /\ conns' = [conns EXCEPT ![k].state = "DISCONNECT"]
               /\ IF conns[k].state = "CONFIRM"
                  THEN Then(<<Send(k, "DISCONNECT", Null), SetDisconnect(k)>>)
                  ELSE Then(<<>>)
  BY <1>2, Zenon
<1>6. ~skip => conns' = SetState(conns, k, "DISCONNECT")
  BY <1>5 DEF SetState
<1>7. ~skip /\ conns[k].state = "CONFIRM" => Then(<<Send(k, "DISCONNECT", Null), SetDisconnect(k)>>)
  BY <1>5, Zenon
<1>8. ~skip /\ conns[k].state # "CONFIRM" => Then(<<>>)
  BY <1>5, Zenon
<1> QED  BY <1>3, <1>4, <1>6, <1>7, <1>8

\* All but two of the destructors' calls disconnect a slot.
LEMMA DisconnectCall ==
    ASSUME NEW n, NEW done \in 0 .. 9, done # 4, done # 9
    PROVE  \E i \in Slot : LeaveCall(n, done + 1) = DisconnectPeer(n, i) /\ (done <= 3 => i = done + 1)
<1> PICK d : d = done + 1
  OBVIOUS
<1>1. CASE done <= 3
  <2>1. d \in 1 .. 4
    BY <1>1
  <2>2. LeaveCall(n, d) = DisconnectPeer(n, d)
    BY <2>1 DEF LeaveCall
  <2> QED  BY <2>1, <2>2 DEF Slot
<1>2. CASE ~(done <= 3)
  <2>1. d \in 6 .. 9 /\ d \notin 1 .. 4 /\ d # 5 /\ d - 5 \in Slot
    BY <1>2 DEF Slot
  <2>2. LeaveCall(n, d) = DisconnectPeer(n, d - 5)
    BY <2>1 DEF LeaveCall
  <2> QED  BY <1>2, <2>1, <2>2
<1> QED  BY <1>1, <1>2

\* Nothing but the next call: the one after it comes.
LEMMA LeaveOn ==
    ASSUME Sound, NEW n \in DOMAIN nodes, NEW done \in 0 .. 8,
           AtLeave(nodes, conns, contact, todo, n, done), done = 4 => contact # n,
           SameConns(conns, conns', {}), conns' \in Seq(ConnRecord),
           \A q \in DOMAIN conns : conns'[q].lines = conns[q].lines,
           \A q \in DOMAIN conns : conns'[q].peer = conns[q].peer,
           Then(<<>>), UNCHANGED <<nodes, contact, localContactID, shutDown>>,
           \A q : Has(nodes, n, done + 1, q) => conns[q].state \in {"IDLE", "DISCONNECT"}
    PROVE  Sound'
<1>0. Typed /\ Base(nodes, conns, contact, shutDown) /\ Owned(nodes, conns) /\ n \in Nat
  BY Objects DEF Sound, Base
<1>1. /\ todo = LeaveCalls(n, done) /\ AllRead(conns, Null) /\ (done >= 5 => contact # n)
      /\ Leaving(nodes, conns, contact, n, {}, done, Null, Null)
  BY DEF AtLeave
<1>2. /\ Lives(nodes, n) /\ Parted(nodes, conns, n, done)
      /\ Settled(nodes, conns, {}, n) /\ (contact # n => Star(nodes, conns, contact, {n}))
      /\ Counted(nodes, conns, Null, Null)
  BY <1>1, Zenon DEF Leaving
<1>n. SameNodes(nodes, nodes')
  BY SameAll
<1>h. \A n1, h, q : Has(nodes, n1, h, q) => q \in DOMAIN conns
  BY <1>0, OwnedFacts
<1>s. \A q \in DOMAIN conns : conns'[q].state = conns[q].state
  BY DEF SameConns, Same
<1>3. Base(nodes', conns', contact', shutDown')
  <2> PICK busy : busy = {}
    OBVIOUS
  <2>0. SameConns(conns, conns', busy)
    OBVIOUS
  <2>1. Base(nodes', conns', contact, shutDown)
    BY <1>0, <1>n, <2>0, BaseKept
  <2> QED  BY <2>1
<1>4. Settled(nodes', conns', {}, n)
  <2> PICK busy : busy = {}
    OBVIOUS
  <2>0. SameConns(conns, conns', busy) /\ Settled(nodes, conns, busy, n)
    BY <1>2
  <2>1. Settled(nodes', conns', busy, n)
    BY <1>0, <1>n, <2>0, SettledKept
  <2> QED  BY <2>1
<1>5. contact' # n => Star(nodes', conns', contact', {n})
  <2> SUFFICES ASSUME contact # n  PROVE Star(nodes', conns', contact, {n})
    OBVIOUS
  <2> PICK except : except = {n}
    OBVIOUS
  <2>1. Star(nodes, conns, contact, except)
    BY <1>2
  <2>2. \A n1, h, q : Has(nodes, n1, h, q) /\ n1 \notin except /\ conns[q].peer = contact => conns'[q].peer = contact
    BY <1>h
  <2>3. Star(nodes', conns', contact, except)
    BY <1>n, <2>1, <2>2, StarKept
  <2> QED  BY <2>3
<1>6. Counted(nodes', conns', Null, Null)
  <2>1. \A n1 \in DOMAIN nodes : nodes'[n1].peers = nodes[n1].peers /\ LikeConfirmed(nodes, conns, conns', n1, Null)
    BY <1>h, <1>s DEF LikeConfirmed
  <2> QED  BY <1>2, <1>n, <2>1, CountedKept
<1> PICK d : d = done + 1
  OBVIOUS
<1>7. Parted(nodes', conns', n, d)
  <2> SUFFICES ASSUME NEW h \in Slot, NEW q, q = nodes[n].connection[h], h <= d, q # Null
               PROVE  conns'[q].state \in {"IDLE", "DISCONNECT"}
    BY DEF Parted
  <2>1. Has(nodes, n, h, q) /\ q \in DOMAIN conns
    BY <1>2, <1>h DEF Has
  <2>2. CASE h = d
    BY <1>s, <2>1, <2>2
  <2>3. CASE h # d
    <3>1. h <= done
      BY <2>3 DEF Slot
    <3>2. conns[q].state \in {"IDLE", "DISCONNECT"}
      BY <1>2, <3>1 DEF Parted
    <3> QED  BY <1>s, <2>1, <3>2
  <2> QED  BY <2>2, <2>3
<1>8. todo' \in Seq(CallRecord) /\ todo' = LeaveCalls(n, d)
  <2>1. /\ LeaveCalls(n, done) # <<>> /\ Tail(LeaveCalls(n, done)) = LeaveCalls(n, done + 1)
    <3>1. done \in 0 .. 9
      OBVIOUS
    <3> QED  BY <1>0, <3>1, LeaveCallsPop
  <2>2. todo' \in Seq(CallRecord) /\ todo' = Tail(todo)
    BY <1>0, <1>1, <2>1, ThenNone
  <2> QED  BY <1>1, <2>1, <2>2
<1>9. AllRead(conns', Null)
  BY <1>1 DEF AllRead, SameConns
<1>10. AtLeave(nodes', conns', contact', todo', n, d)
  <2>1. Lives(nodes', n)
    BY <1>2
  <2>2. Leaving(nodes', conns', contact', n, {}, d, Null, Null)
    BY <1>4, <1>5, <1>6, <1>7, <2>1 DEF Leaving
  <2>3. d >= 5 => contact' # n
    BY <1>1
  <2> QED  BY <1>8, <1>9, <2>2, <2>3 DEF AtLeave
<1>11. Stage(nodes', conns', contact', todo')
  <2>1. n \in DOMAIN nodes' /\ d \in 0 .. 9
    OBVIOUS
  <2> QED  BY <1>10, <2>1 DEF Stage
<1>12. Typed'
  BY <1>0, <1>8 DEF Typed
<1> QED  BY <1>3, <1>11, <1>12 DEF Sound

\* Only a confirmed connection is left with a DISCONNECT.
LEMMA PartBegins ==
    ASSUME Sound, NEW n \in DOMAIN nodes, NEW i \in Slot, NEW done \in 0 .. 3, i = done + 1,
           AtLeave(nodes, conns, contact, todo, n, done),
           NEW j, Has(nodes, n, i, j), conns[j].state = "CONFIRM",
           conns' = SetState(conns, j, "DISCONNECT"),
           Then(<<Send(j, "DISCONNECT", Null), SetDisconnect(j)>>),
           UNCHANGED <<nodes, contact, localContactID, shutDown>>
    PROVE  Sound'
<1>0. /\ Typed /\ Base(nodes, conns, contact, shutDown) /\ Owned(nodes, conns) /\ n \in Nat
      /\ Null \notin DOMAIN nodes /\ Null \notin DOMAIN conns
  BY Objects DEF Sound, Base
<1>1. /\ todo = LeaveCalls(n, done) /\ AllRead(conns, Null)
      /\ Leaving(nodes, conns, contact, n, {}, done, Null, Null)
  BY DEF AtLeave
<1>2. /\ Lives(nodes, n) /\ Parted(nodes, conns, n, done)
      /\ Settled(nodes, conns, {}, n) /\ (contact # n => Star(nodes, conns, contact, {n}))
      /\ Counted(nodes, conns, Null, Null)
  BY <1>1, Zenon DEF Leaving
<1>h. \A n1, h, q : Has(nodes, n1, h, q) => q \in DOMAIN conns
  BY <1>0, OwnedFacts
<1>j. j \in DOMAIN conns /\ j \in Nat
  BY <1>0, <1>h, Objects
<1>3. PICK m \in DOMAIN nodes \ {n}, k \in DOMAIN conns : Link(conns, n, j, m, k) /\ Owns(nodes, m, k)
  <2> PICK busy : busy = {}
    OBVIOUS
  <2>1. Settled(nodes, conns, busy, n) /\ j \notin busy
    BY <1>2
  <2>2. \/ Clean(conns[j])
        \/ n = n /\ conns[j].state = "DISCONNECT"
        \/ \E m \in DOMAIN nodes \ {n}, k \in DOMAIN conns \ busy :
              Link(conns, n, j, m, k) /\ Owns(nodes, m, k)
    BY <2>1, SettledFacts
  <2> QED  BY <2>2 DEF Clean
<1>l. /\ Listens(conns, n, j, m, k) /\ End(conns, m, k, n, j) /\ conns[k].state = "CONFIRM"
      /\ conns[j].peer = m /\ conns[k].peer = n
  BY <1>3 DEF Link, End
<1>e. j # k
  <2>1. \A n1 : Owns(nodes, n1, k) => n1 = m
    BY <1>0, <1>3, OwnedOnce
  <2> QED  BY <1>3, <2>1 DEF Has, Owns
<1> PICK busy : busy = {j, k}
  OBVIOUS
<1>7. /\ conns' \in Seq(ConnRecord) /\ SameConns(conns, conns', busy) /\ DOMAIN conns' = DOMAIN conns
      /\ \A q \in DOMAIN conns : q # j => conns'[q] = conns[q]
      /\ \A q \in DOMAIN conns : conns'[q].lines = conns[q].lines /\ conns'[q].peer = conns[q].peer
      /\ conns'[j].state = "DISCONNECT" /\ conns'[j].rxInfo = conns[j].rxInfo
      /\ conns'[j].receiver = conns[j].receiver /\ conns'[j].registered = conns[j].registered
  <2> PICK ds : ds = SetState(conns, j, "DISCONNECT")
    OBVIOUS
  <2>1. /\ ds \in Seq(ConnRecord) /\ SameConns(conns, ds, busy) /\ DOMAIN ds = DOMAIN conns
        /\ \A q \in DOMAIN conns : q # j => ds[q] = conns[q]
        /\ \A q \in DOMAIN conns : ds[q].lines = conns[q].lines /\ ds[q].peer = conns[q].peer
        /\ ds[j].state = "DISCONNECT" /\ ds[j].rxInfo = conns[j].rxInfo
        /\ ds[j].receiver = conns[j].receiver /\ ds[j].registered = conns[j].registered
    BY <1>0, <1>j, DoneEffect
  <2>2. conns' = ds
    OBVIOUS
  <2> QED  BY <2>1, <2>2
<1>n. SameNodes(nodes, nodes')
  BY SameAll
<1>8. Base(nodes', conns', contact', shutDown')
  <2>1. Base(nodes', conns', contact, shutDown)
    BY <1>0, <1>7, <1>n, BaseKept
  <2> QED  BY <2>1
<1>9. Settled(nodes', conns', {j, k}, n)
  <2>1. Settled(nodes, conns, {j, k}, n)
    BY <1>2, <1>3, SettledNarrow
  <2>2. Settled(nodes, conns, busy, n)
    BY <2>1
  <2>3. Settled(nodes', conns', busy, n)
    BY <1>0, <1>7, <1>n, <2>2, SettledKept
  <2> QED  BY <2>3
<1>10. contact' # n => Star(nodes', conns', contact', {n})
  <2> SUFFICES ASSUME contact # n  PROVE Star(nodes', conns', contact, {n})
    OBVIOUS
  <2> PICK except : except = {n}
    OBVIOUS
  <2>1. Star(nodes, conns, contact, except)
    BY <1>2
  <2>2. \A n1, h, q : Has(nodes, n1, h, q) /\ n1 \notin except /\ conns[q].peer = contact => conns'[q].peer = contact
    BY <1>7, <1>h
  <2>3. Star(nodes', conns', contact, except)
    BY <1>n, <2>1, <2>2, StarKept
  <2> QED  BY <2>3
<1>11. Counted(nodes', conns', n, Null)
  <2>1. \A n1 : LikeConfirmed(nodes, conns, conns', n1, j)
    BY <1>7, <1>h DEF LikeConfirmed
  <2>o. Owns(nodes, n, j) /\ \A n1 : Owns(nodes, n1, j) => n1 = n
    <3>1. Owns(nodes, n, j)
      BY DEF Owns
    <3> QED  BY <1>0, <3>1, OwnedOnce
  <2>2. Elsewhere(nodes, nodes', conns, conns', n, j)
    BY <2>1, <2>o DEF Elsewhere
  <2>3. Cardinality(ConfirmedOf(nodes, conns, n)) = Cardinality(ConfirmedOf(nodes', conns', n)) + 1
    <3>1. LikeConfirmed(nodes, conns, conns', n, j) /\ conns'[j].state # "CONFIRM"
      BY <1>7, <2>1
    <3> QED  BY <1>n, <2>o, <3>1, ConfirmedLess
  <2>4. n # Null
    BY <1>0
  <2>5. nodes'[n].peers + (IF n = Null THEN 1 ELSE 0)
              = Cardinality(ConfirmedOf(nodes', conns', n)) + (IF n = n THEN 1 ELSE 0)
    <3>1. nodes[n].peers + 0 = Cardinality(ConfirmedOf(nodes, conns, n)) + 0
      BY <1>2, <2>4 DEF Counted, Lives
    <3>2. nodes[n].peers \in 0 .. 4
      BY <1>0, Objects DEF NodeRecord
    <3>3. Cardinality(ConfirmedOf(nodes', conns', n)) \in Nat
      BY ConfirmedRoom
    <3> QED  BY <2>3, <2>4, <3>1, <3>2, <3>3
  <2> PICK more : more = n
    OBVIOUS
  <2>6. Counted(nodes, conns, Null, Null) /\ more \in {Null, n, Null} /\ Null \in {more, n, Null}
    BY <1>2
  <2>7. nodes'[n].peers + (IF n = Null THEN 1 ELSE 0)
              = Cardinality(ConfirmedOf(nodes', conns', n)) + (IF n = more THEN 1 ELSE 0)
    BY <2>5
  <2>8. Counted(nodes', conns', more, Null)
    BY <1>0, <1>n, <2>2, <2>4, <2>6, <2>7, CountedChange
  <2> QED  BY <2>8
<1>12. Parted(nodes', conns', n, i - 1)
  <2> SUFFICES ASSUME NEW h \in Slot, NEW q, q = nodes[n].connection[h], h <= i - 1, q # Null
               PROVE  conns'[q].state \in {"IDLE", "DISCONNECT"}
    BY DEF Parted
  <2>1. Has(nodes, n, h, q) /\ q \in DOMAIN conns
    BY <1>2, <1>h DEF Has
  <2>2. h <= done
    BY DEF Slot
  <2>3. conns[q].state \in {"IDLE", "DISCONNECT"}
    BY <1>2, <2>2 DEF Parted
  <2> QED  BY <1>7, <2>1, <2>3
<1>13. Unmaking(nodes', conns', contact', n, j, m, k, i, "DISCONNECT", "CONFIRM", n, Null)
  <2>1. Has(nodes', n, i, j) /\ Owns(nodes', m, k) /\ Lives(nodes', n)
    BY <1>2, <1>3
  <2>2. conns'[j].state = "DISCONNECT" /\ conns'[k].state = "CONFIRM" /\ conns'[k].peer \in {n, Null}
    BY <1>3, <1>7, <1>e, <1>l
  <2>3. Leaving(nodes', conns', contact', n, {j, k}, i - 1, n, Null)
    BY <1>9, <1>10, <1>11, <1>12, <2>1 DEF Leaving
  <2> QED  BY <1>3, <2>1, <2>2, <2>3 DEF Unmaking
<1>14. Listens(conns', n, j, m, k) /\ End(conns', m, k, n, j)
  BY <1>3, <1>7, <1>e, <1>l DEF Listens, End
<1>15. /\ todo' \in Seq(CallRecord) /\ todo' # <<>> /\ Head(todo') = Send(j, "DISCONNECT", Null)
       /\ Tail(todo') # <<>> /\ Head(Tail(todo')) = SetDisconnect(j) /\ Tail(Tail(todo')) = LeaveCalls(n, i)
  <2>1. done \in 0 .. 9
    OBVIOUS
  <2>2. LeaveCalls(n, done) # <<>> /\ Tail(LeaveCalls(n, done)) = LeaveCalls(n, done + 1)
    BY <1>0, <2>1, LeaveCallsPop
  <2> PICK a, b : a = Send(j, "DISCONNECT", Null) /\ b = SetDisconnect(j)
    OBVIOUS
  <2>3. a \in CallRecord /\ b \in CallRecord
    BY <1>j, CallTypes DEF Command, Null
  <2>4. Then(<<a, b>>) /\ todo # <<>>
    BY <1>1, <2>2
  <2>5. /\ todo' \in Seq(CallRecord) /\ todo' # <<>> /\ Head(todo') = a
        /\ Tail(todo') # <<>> /\ Head(Tail(todo')) = b /\ Tail(Tail(todo')) = Tail(todo)
    BY <1>0, <2>3, <2>4, ThenTwo
  <2> QED  BY <1>1, <2>2, <2>5
<1>16. AllRead(conns', Null)
  BY <1>1, <1>7 DEF AllRead
<1>17. Part(nodes', conns', contact', todo', n, j, m, k, i)
  <2>1. Sending(conns', todo', j, "DISCONNECT")
    BY <1>15, <1>16 DEF Sending
  <2>2. After(Tail(todo'), n, j, i)
    BY <1>15 DEF After
  <2> QED  BY <1>13, <1>14, <2>1, <2>2 DEF Part
<1>18. Stage(nodes', conns', contact', todo')
  <2>1. n \in DOMAIN nodes' /\ m \in DOMAIN nodes' /\ j \in DOMAIN conns' /\ k \in DOMAIN conns'
    BY <1>3, <1>7, <1>j
  <2>2. PartStage(nodes', conns', contact', todo', n, j, m, k, i)
    BY <1>17 DEF PartStage
  <2> QED  BY <2>1, <2>2 DEF Stage
<1>19. Typed'
  BY <1>0, <1>7, <1>15 DEF Typed
<1> QED  BY <1>8, <1>18, <1>19 DEF Sound

\* One connection is left.
LEMMA LeaveOneStep ==
    ASSUME Sound, Step, NEW n \in DOMAIN nodes, NEW done \in 0 .. 9, done # 4, done # 9,
           AtLeave(nodes, conns, contact, todo, n, done)
    PROVE  Sound'
<1>0. /\ Typed /\ Base(nodes, conns, contact, shutDown) /\ Owned(nodes, conns) /\ n \in Nat
      /\ Null \notin DOMAIN nodes /\ Null \notin DOMAIN conns
  BY Objects DEF Sound, Base
<1>1. /\ todo = LeaveCalls(n, done)
      /\ Leaving(nodes, conns, contact, n, {}, done, Null, Null)
  BY DEF AtLeave
<1>2. /\ Lives(nodes, n) /\ Parted(nodes, conns, n, done) /\ Settled(nodes, conns, {}, n)
  BY <1>1, Zenon DEF Leaving
<1>3. PICK i \in Slot : LeaveCall(n, done + 1) = DisconnectPeer(n, i) /\ (done <= 3 => i = done + 1)
  BY DisconnectCall
<1>4. Head(todo) = DisconnectPeer(n, i)
  BY <1>0, <1>1, <1>3, LeaveCallsPop
<1>5. Disconnect
  BY <1>4, StepByCall DEF DisconnectPeer
<1> PICK k : k = nodes[n].connection[i]
  OBVIOUS
<1> PICK skip : skip = (k = Null \/ conns[k].state = "IDLE")
  OBVIOUS
<1>6. /\ UNCHANGED <<nodes, contact, localContactID, shutDown>>
      /\ skip => conns' = conns /\ Then(<<>>)
      /\ ~skip => conns' = SetState(conns, k, "DISCONNECT")
      /\ ~skip /\ conns[k].state = "CONFIRM"
            => Then(<<Send(k, "DISCONNECT", Null), SetDisconnect(k)>>)
      /\ ~skip /\ conns[k].state # "CONFIRM" => Then(<<>>)
  BY <1>4, <1>5, DisconnectEffect
<1>7. k # Null => Has(nodes, n, i, k) /\ k \in DOMAIN conns
  <2>1. \A n1, h, q : Has(nodes, n1, h, q) => q \in DOMAIN conns
    BY <1>0, OwnedFacts
  <2>2. k # Null => Has(nodes, n, i, k)
    BY <1>2 DEF Has
  <2> QED  BY <2>1, <2>2
<1>8. k # Null => conns[k].state \in {"IDLE", "DISCONNECT", "CONFIRM"}
  <2> SUFFICES ASSUME k # Null  PROVE conns[k].state \in {"IDLE", "DISCONNECT", "CONFIRM"}
    OBVIOUS
  <2> PICK busy : busy = {}
    OBVIOUS
  <2>1. Settled(nodes, conns, busy, n) /\ k \notin busy /\ Has(nodes, n, i, k)
    BY <1>2, <1>7
  <2>2. \/ Clean(conns[k])
        \/ n = n /\ conns[k].state = "DISCONNECT"
        \/ \E m \in DOMAIN nodes \ {n}, j \in DOMAIN conns \ busy :
              Link(conns, n, k, m, j) /\ Owns(nodes, m, j)
    BY <2>1, SettledFacts
  <2> QED  BY <2>2 DEF Clean, Link
<1>9. \A q : done > 3 /\ Has(nodes, n, i, q) => conns[q].state \in {"IDLE", "DISCONNECT"}
  <2> TAKE q
  <2> HAVE done > 3 /\ Has(nodes, n, i, q)
  <2>1. q = nodes[n].connection[i] /\ q # Null /\ i <= done
    BY DEF Has, Slot
  <2> QED  BY <1>2, <2>1 DEF Parted
<1>10. \A q : Has(nodes, n, done + 1, q) => done <= 3 /\ q = k
  <2> TAKE q
  <2> HAVE Has(nodes, n, done + 1, q)
  <2>1. done + 1 \in Slot /\ nodes[n].connection[done + 1] = q
    BY DEF Has
  <2>2. done <= 3
    BY <2>1 DEF Slot
  <2> QED  BY <1>3, <2>1, <2>2
<1>11. done \in 0 .. 8
  OBVIOUS
<1>12. CASE skip
  <2>1. conns' = conns /\ Then(<<>>)
    BY <1>6, <1>12
  <2>2. SameConns(conns, conns', {}) /\ conns' \in Seq(ConnRecord)
    BY <1>0, <2>1 DEF SameConns, Same, Typed
  <2>3. \A q : Has(nodes, n, done + 1, q) => conns[q].state \in {"IDLE", "DISCONNECT"}
    BY <1>10, <1>12 DEF Has
  <2>4. /\ \A q \in DOMAIN conns : conns'[q].lines = conns[q].lines
        /\ \A q \in DOMAIN conns : conns'[q].peer = conns[q].peer
    BY <2>1
  <2>5. UNCHANGED <<nodes, contact, localContactID, shutDown>>
    BY <1>6
  <2> QED  BY <1>11, <2>1, <2>2, <2>3, <2>4, <2>5, LeaveOn
<1>13. CASE ~skip /\ conns[k].state = "DISCONNECT"
  <2>1. conns' = SetState(conns, k, "DISCONNECT") /\ Then(<<>>) /\ k \in DOMAIN conns
    BY <1>6, <1>7, <1>13
  <2> PICK busy : busy = {k}
    OBVIOUS
  <2> PICK ds : ds = conns'
    OBVIOUS
  <2>2. /\ ds \in Seq(ConnRecord) /\ SameConns(conns, ds, busy) /\ DOMAIN ds = DOMAIN conns
        /\ \A q \in DOMAIN conns : q # k => ds[q] = conns[q]
        /\ \A q \in DOMAIN conns : ds[q].lines = conns[q].lines /\ ds[q].peer = conns[q].peer
        /\ ds[k].state = "DISCONNECT" /\ ds[k].rxInfo = conns[k].rxInfo
        /\ ds[k].receiver = conns[k].receiver /\ ds[k].registered = conns[k].registered
    <3>1. ds = SetState(conns, k, "DISCONNECT") /\ k \in busy
      BY <2>1
    <3> QED  BY <1>0, <2>1, <3>1, DoneEffect
  <2>3. Same(conns, ds, k)
    BY <1>13, <2>1, <2>2 DEF Same
  <2>4. SameConns(conns, conns', {})
    BY <2>2, <2>3 DEF SameConns
  <2>5. conns' \in Seq(ConnRecord)
    BY <2>2
  <2>6. \A q : Has(nodes, n, done + 1, q) => conns[q].state \in {"IDLE", "DISCONNECT"}
    BY <1>10, <1>13
  <2>7. /\ \A q \in DOMAIN conns : conns'[q].lines = conns[q].lines
        /\ \A q \in DOMAIN conns : conns'[q].peer = conns[q].peer
    BY <2>2
  <2>8. UNCHANGED <<nodes, contact, localContactID, shutDown>>
    BY <1>6
  <2> QED  BY <1>11, <2>1, <2>4, <2>5, <2>6, <2>7, <2>8, LeaveOn
<1>14. CASE ~skip /\ conns[k].state = "CONFIRM"
  <2>1. Has(nodes, n, i, k)
    BY <1>7, <1>14
  <2>2. done \in 0 .. 3 /\ i = done + 1
    BY <1>3, <1>9, <1>14, <2>1
  <2>3. conns' = SetState(conns, k, "DISCONNECT")
    BY <1>6, <1>14
  <2>4. Then(<<Send(k, "DISCONNECT", Null), SetDisconnect(k)>>)
    BY <1>6, <1>14
  <2>5. UNCHANGED <<nodes, contact, localContactID, shutDown>>
    BY <1>6
  <2>6. conns[k].state = "CONFIRM"
    BY <1>14
  <2> QED  BY <2>1, <2>2, <2>3, <2>4, <2>5, <2>6, PartBegins
<1> QED  BY <1>8, <1>12, <1>13, <1>14

\* What is kept of a list was in it, and not in what goes out.
LEMMA KeptFacts ==
    ASSUME NEW S, NEW list \in Seq(S), NEW out
    PROVE  Kept(list, out) \in Seq(S) /\ Members(Kept(list, out)) \subseteq Members(list) \ out
<1> DEFINE M == Members(list) \ out
           N == Len(list)
           g == [x \in Nat \X Seq(M) |->
                    IF x[1] \notin DOMAIN list \/ list[x[1]] \in out THEN x[2] ELSE Append(x[2], list[x[1]])]
           f == CHOOSE f : f = [i \in 0 .. N |->
                    IF i = 0 THEN <<>>
                    ELSE IF list[i] \in out THEN f[i - 1] ELSE Append(f[i - 1], list[i])]
<1>1. N \in Nat /\ DOMAIN list = 1 .. N
  BY LenProperties
<1>2. \A i \in DOMAIN list : list[i] \in S /\ (list[i] \notin out => list[i] \in M)
  BY <1>1, ElementOfSeq DEF Members
<1>3. g \in [Nat \X Seq(M) -> Seq(M)]
  <2>1. \A x \in Nat \X Seq(M) :
           (IF x[1] \notin DOMAIN list \/ list[x[1]] \in out THEN x[2] ELSE Append(x[2], list[x[1]])) \in Seq(M)
    <3> TAKE x \in Nat \X Seq(M)
    <3>1. x[2] \in Seq(M)
      OBVIOUS
    <3>2. x[1] \in DOMAIN list /\ list[x[1]] \notin out => Append(x[2], list[x[1]]) \in Seq(M)
      <4> HIDE DEF M
      <4> QED  BY <1>2, <3>1, AppendProperties
    <3> QED  BY <3>1, <3>2
  <2> QED  BY <2>1
<1>4. <<>> \in Seq(M)
  OBVIOUS
<1>5. \A i \in 1 .. N, s \in Seq(M) :
         g[<<i, s>>] = IF list[i] \in out THEN s ELSE Append(s, list[i])
  BY <1>1
<1> HIDE DEF M, N, g
<1>6. PICK h \in [0 .. N -> Seq(M)] : h[0] = <<>> /\ \A i \in 1 .. N : h[i] = g[<<i, h[i - 1]>>]
  <2> HIDE DEF f
  <2> PICK T, a : T = Seq(M) /\ a = <<>>
    OBVIOUS
  <2>1. a \in T /\ g \in [Nat \X T -> T]
    BY <1>3, <1>4
  <2>2. PICK h : MadeInTurn(h, T, a, g, N)
    BY <1>1, <2>1, NumberRecursion
  <2> QED  BY <2>2 DEF MadeInTurn
<1>7. h = [i \in 0 .. N |->
              IF i = 0 THEN <<>> ELSE IF list[i] \in out THEN h[i - 1] ELSE Append(h[i - 1], list[i])]
  <2>1. \A i \in 0 .. N :
           h[i] = IF i = 0 THEN <<>> ELSE IF list[i] \in out THEN h[i - 1] ELSE Append(h[i - 1], list[i])
    <3> TAKE i \in 0 .. N
    <3>1. CASE i = 0
      BY <1>6, <3>1
    <3>2. CASE i # 0
      <4>1. i \in 1 .. N /\ i - 1 \in 0 .. N
        BY <1>1, <3>2
      <4>2. PICK s : s = h[i - 1]
        OBVIOUS
      <4>3. s \in Seq(M)
        BY <4>1, <4>2
      <4>4. h[i] = g[<<i, s>>]
        BY <1>6, <4>1, <4>2
      <4>5. g[<<i, s>>] = IF list[i] \in out THEN s ELSE Append(s, list[i])
        BY <1>5, <4>1, <4>3
      <4> QED  BY <3>2, <4>2, <4>4, <4>5
    <3> QED  BY <3>1, <3>2
  <2> QED  BY <2>1
<1>8. f = [i \in 0 .. N |->
              IF i = 0 THEN <<>> ELSE IF list[i] \in out THEN f[i - 1] ELSE Append(f[i - 1], list[i])]
  BY <1>7
<1>o. \A i \in 0 .. N :
         f[i] = IF i = 0 THEN <<>> ELSE IF list[i] \in out THEN f[i - 1] ELSE Append(f[i - 1], list[i])
  BY <1>8
<1>9. Kept(list, out) = f[N]
  BY DEF Kept, N
<1> HIDE DEF f
<1> DEFINE K == {k \in Nat : k <= N => f[k] \in Seq(M)}
<1>10. 0 \in K
  <2>1. 0 \in 0 .. N
    BY <1>1
  <2>2. f[0] = <<>>
    BY <1>o, <2>1
  <2> QED  BY <1>4, <2>2
<1>11. ASSUME NEW k \in Nat, k \in K
       PROVE  k + 1 \in K
  <2> SUFFICES ASSUME k + 1 <= N  PROVE f[k + 1] \in Seq(M)
    OBVIOUS
  <2>1. k + 1 \in 0 .. N /\ k + 1 # 0 /\ k + 1 - 1 = k /\ k + 1 \in DOMAIN list
    BY <1>1
  <2>2. f[k + 1] = IF list[k + 1] \in out THEN f[k] ELSE Append(f[k], list[k + 1])
    BY <1>o, <2>1
  <2>3. f[k] \in Seq(M) /\ (list[k + 1] \notin out => list[k + 1] \in M)
    <3>1. k <= N
      BY <1>1
    <3>2. f[k] \in Seq(M)
      BY <1>11, <3>1 DEF K
    <3> QED  BY <1>2, <2>1, <3>2
  <2>4. list[k + 1] \notin out => Append(f[k], list[k + 1]) \in Seq(M)
    BY <2>3, AppendProperties
  <2> QED  BY <2>2, <2>3, <2>4
<1>12. K \in SUBSET Nat
  OBVIOUS
<1> HIDE DEF K
<1>13. K = Nat
  BY <1>10, <1>11, <1>12, AllNumbers
<1>14. f[N] \in Seq(M)
  <2>1. N \in K
    BY <1>1, <1>13
  <2> QED  BY <1>1, <2>1 DEF K
<1>15. M \subseteq S
  BY <1>2 DEF M, Members
<1>16. f[N] \in Seq(S) /\ \A i \in DOMAIN f[N] : f[N][i] \in M
  BY <1>14, <1>15, ElementOfSeq, LenProperties
<1> QED  BY <1>9, <1>16 DEF Members, M

\* A deleted connection keeps everything else.
LEMMA DeletedFacts ==
    ASSUME Typed, NEW ks
    PROVE  /\ Deleted(ks) \in Seq(ConnRecord) /\ DOMAIN Deleted(ks) = DOMAIN conns
           /\ \A q \in DOMAIN conns :
                 /\ Same(conns, Deleted(ks), q) /\ Deleted(ks)[q].connectionID = conns[q].connectionID
                 /\ Deleted(ks)[q].lines = conns[q].lines
                 /\ q \notin ks => Deleted(ks)[q] = conns[q]
<1>1. /\ DOMAIN conns = 1 .. Len(conns) /\ Len(conns) \in Nat
      /\ \A q \in DOMAIN conns : conns[q] \in ConnRecord
  BY Objects
<1>2. \A q \in DOMAIN conns : [conns[q] EXCEPT !.isAlive = FALSE] \in ConnRecord
  BY <1>1 DEF ConnRecord
<1>3. \A q \in DOMAIN conns :
         /\ Deleted(ks)[q] = IF q \in ks THEN [conns[q] EXCEPT !.isAlive = FALSE] ELSE conns[q]
         /\ Deleted(ks)[q] \in ConnRecord
  BY <1>1, <1>2 DEF Deleted
<1>4. DOMAIN Deleted(ks) = DOMAIN conns
  BY DEF Deleted
<1>5. Deleted(ks) \in Seq(ConnRecord)
  <2>1. Deleted(ks) = [q \in 1 .. Len(conns) |-> Deleted(ks)[q]]
    BY <1>1 DEF Deleted
  <2>2. Deleted(ks) \in [1 .. Len(conns) -> ConnRecord]
    BY <1>1, <1>3, <2>1
  <2> QED  BY <1>1, <2>2
<1>6. ASSUME NEW q \in DOMAIN conns
      PROVE  /\ Same(conns, Deleted(ks), q) /\ Deleted(ks)[q].connectionID = conns[q].connectionID
             /\ Deleted(ks)[q].lines = conns[q].lines
             /\ q \notin ks => Deleted(ks)[q] = conns[q]
  <2>1. conns[q] \in ConnRecord
        /\ Deleted(ks)[q] = IF q \in ks THEN [conns[q] EXCEPT !.isAlive = FALSE] ELSE conns[q]
    BY <1>1, <1>3
  <2> HIDE DEF Deleted
  <2> QED  BY <2>1 DEF Same, ConnRecord
<1> QED  BY <1>4, <1>5, <1>6

\* Connections have been deleted, none of a living PlugNode but those of g,
\* which lives no more; nothing else of them has changed.
Gone(ms, ds, g) ==
    /\ DOMAIN ms = DOMAIN nodes
    /\ \A n \in DOMAIN nodes :
          /\ ms[n].isAlive = (nodes[n].isAlive /\ n # g)
          /\ ms[n].connection = nodes[n].connection /\ ms[n].peers = nodes[n].peers
          /\ ms[n].connectionSwitch = nodes[n].connectionSwitch
    /\ DOMAIN ds = DOMAIN conns
    /\ \A q \in DOMAIN conns :
          /\ Same(conns, ds, q) /\ ds[q].connectionID = conns[q].connectionID
          /\ ds[q].lines = conns[q].lines
    /\ \A n, h, q : Has(nodes, n, h, q) /\ n # g => q \in DOMAIN conns /\ ds[q] = conns[q]

\* Who has which connection when g is gone.
LEMMA GoneHas ==
    ASSUME NEW ms, NEW ds, NEW g, Gone(ms, ds, g)
    PROVE  /\ \A n : Lives(ms, n) <=> Lives(nodes, n) /\ n # g
           /\ \A n, h, q : Has(ms, n, h, q) <=> Has(nodes, n, h, q) /\ n # g
           /\ \A n, q : Owns(ms, n, q) <=> Owns(nodes, n, q) /\ n # g
<1>1. \A n : Lives(ms, n) <=> Lives(nodes, n) /\ n # g
  BY DEF Gone, Lives
<1>2. \A n, h, q : Has(ms, n, h, q) <=> Has(nodes, n, h, q) /\ n # g
  <2> TAKE n, h, q
  <2>1. Lives(nodes, n) => ms[n].connection = nodes[n].connection
    BY DEF Gone, Lives
  <2> QED  BY <1>1, <2>1 DEF Has
<1> QED  BY <1>1, <1>2 DEF Owns

\* A PlugNode that goes keeps Base, and its connections may be listed.
LEMMA GoneBase ==
    ASSUME Base(nodes, conns, contact, shutDown), NEW ms, NEW ds, NEW g, Gone(ms, ds, g),
           NEW c, c \in {contact, Null}, c # Null => c # g, NEW list,
           \A k \in Members(list) : k \in Members(shutDown) \/ Owns(nodes, g, k)
    PROVE  Base(ms, ds, c, list)
<1>0. /\ Owned(nodes, conns) /\ Distinct(nodes, conns) /\ NoSwitch(nodes)
      /\ ContactLives(nodes, contact) /\ ShutApart(nodes, conns, shutDown)
  BY DEF Base
<1>1. /\ \A n : Lives(ms, n) <=> Lives(nodes, n) /\ n # g
      /\ \A n, h, q : Has(ms, n, h, q) <=> Has(nodes, n, h, q) /\ n # g
      /\ \A n, q : Owns(ms, n, q) <=> Owns(nodes, n, q) /\ n # g
  BY GoneHas
<1>2. Owned(ms, ds)
  <2> SUFFICES ASSUME NEW n, NEW i, NEW k, Has(ms, n, i, k)
               PROVE  /\ k \in DOMAIN ds /\ ds[k].isAlive /\ ds[k].connectionID = i
                      /\ \A m \in DOMAIN ms, h \in Slot : Has(ms, m, h, k) => m = n /\ h = i
    BY DEF Owned
  <2>1. Has(nodes, n, i, k) /\ n # g
    BY <1>1
  <2>2. /\ k \in DOMAIN conns /\ conns[k].isAlive /\ conns[k].connectionID = i
        /\ \A m, h : Has(nodes, m, h, k) => m = n /\ h = i
    BY <1>0, <2>1, OwnedFacts
  <2>3. ds[k] = conns[k] /\ DOMAIN ds = DOMAIN conns
    BY <2>1 DEF Gone
  <2> QED  BY <1>1, <2>2, <2>3
<1>3. Distinct(ms, ds)
  <2> SUFFICES ASSUME NEW n, NEW i, NEW h, NEW k, NEW j,
                      Has(ms, n, i, k), Has(ms, n, h, j), i # h, ds[k].peer = ds[j].peer
               PROVE  ds[k].peer = Null
    BY DEF Distinct
  <2>1. Has(nodes, n, i, k) /\ Has(nodes, n, h, j) /\ n # g
    BY <1>1
  <2>2. ds[k] = conns[k] /\ ds[j] = conns[j]
    BY <2>1 DEF Gone
  <2> QED  BY <1>0, <2>1, <2>2, DistinctFacts
<1>4. NoSwitch(ms)
  BY <1>0 DEF NoSwitch, Gone
<1>5. ContactLives(ms, c)
  BY <1>0, <1>1 DEF ContactLives
<1>6. ShutApart(ms, ds, list)
  <2> SUFFICES ASSUME NEW k \in Members(list)
               PROVE  k \in DOMAIN ds /\ \A n : ~Owns(ms, n, k)
    BY DEF ShutApart
  <2>1. CASE k \in Members(shutDown)
    <3>1. k \in DOMAIN conns /\ \A n \in DOMAIN nodes : ~Owns(nodes, n, k)
      BY <1>0, <2>1 DEF ShutApart
    <3>2. \A n : Owns(nodes, n, k) => n \in DOMAIN nodes
      BY DEF Owns, Has, Lives
    <3> QED  BY <1>1, <3>1, <3>2 DEF Gone
  <2>2. CASE Owns(nodes, g, k)
    <3>1. k \in DOMAIN conns /\ \A n : Owns(nodes, n, k) => n = g
      BY <1>0, <2>2, OwnedOnce
    <3> QED  BY <1>1, <3>1 DEF Gone
  <2> QED  BY <2>1, <2>2
<1> QED  BY <1>2, <1>3, <1>4, <1>5, <1>6 DEF Base

\* Nobody who stays is linked with g.
MayGo(g, leaving, leaving2) ==
    \/ g = Null /\ leaving2 = leaving
    \/ leaving = g /\ \A h, q : Has(nodes, g, h, q) => conns[q].state \in {"IDLE", "DISCONNECT"}

\* What it leaves is settled: nobody is linked with it.
LEMMA GoneSettled ==
    ASSUME Owned(nodes, conns), NEW ms, NEW ds, NEW g, Gone(ms, ds, g), NEW leaving, NEW leaving2,
           Settled(nodes, conns, {}, leaving), MayGo(g, leaving, leaving2), Null \notin DOMAIN nodes
    PROVE  Settled(ms, ds, {}, leaving2)
<1>1. /\ \A n, h, q : Has(ms, n, h, q) <=> Has(nodes, n, h, q) /\ n # g
      /\ \A n, q : Owns(ms, n, q) <=> Owns(nodes, n, q) /\ n # g
  BY GoneHas
<1> SUFFICES ASSUME NEW n, NEW h, NEW q, Has(ms, n, h, q)
             PROVE  \/ Clean(ds[q])
                    \/ n = leaving2 /\ ds[q].state = "DISCONNECT"
                    \/ \E m \in DOMAIN ms \ {n}, r \in DOMAIN ds : Link(ds, n, q, m, r) /\ Owns(ms, m, r)
  BY DEF Settled
<1>2. Has(nodes, n, h, q) /\ n # g
  BY <1>1
<1>3. q \in DOMAIN conns /\ Same(conns, ds, q)
  BY <1>2 DEF Gone
<1>4. \/ Clean(conns[q])
      \/ n = leaving /\ conns[q].state = "DISCONNECT"
      \/ \E m \in DOMAIN nodes \ {n}, r \in DOMAIN conns \ {} :
            Link(conns, n, q, m, r) /\ Owns(nodes, m, r)
  <2> PICK busy : busy = {}
    OBVIOUS
  <2>1. Settled(nodes, conns, busy, leaving) /\ q \notin busy
    OBVIOUS
  <2>2. \/ Clean(conns[q])
        \/ n = leaving /\ conns[q].state = "DISCONNECT"
        \/ \E m \in DOMAIN nodes \ {n}, r \in DOMAIN conns \ busy :
              Link(conns, n, q, m, r) /\ Owns(nodes, m, r)
    BY <1>2, <2>1, SettledFacts
  <2> QED  BY <2>2
<1>5. CASE Clean(conns[q])
  BY <1>3, <1>5 DEF Clean, Same
<1>6. CASE n = leaving /\ conns[q].state = "DISCONNECT"
  BY <1>2, <1>3, <1>6 DEF MayGo, Same
<1>7. CASE \E m \in DOMAIN nodes \ {n}, r \in DOMAIN conns \ {} :
              Link(conns, n, q, m, r) /\ Owns(nodes, m, r)
  <2>1. PICK m \in DOMAIN nodes \ {n}, r \in DOMAIN conns : Link(conns, n, q, m, r) /\ Owns(nodes, m, r)
    BY <1>7
  <2>2. conns[r].state = "CONFIRM"
    BY <2>1 DEF Link
  <2>3. m # g
    <3>1. g # Null => \A i, k : Has(nodes, g, i, k) => conns[k].state \in {"IDLE", "DISCONNECT"}
      BY DEF MayGo
    <3>2. g = m => g # Null
      BY <2>1
    <3> QED  BY <2>1, <2>2, <3>1, <3>2 DEF Owns
  <2>4. Owns(ms, m, r) /\ m \in DOMAIN ms \ {n} /\ r \in DOMAIN ds
    BY <1>1, <2>1, <2>3 DEF Gone
  <2>5. Same(conns, ds, r)
    BY <2>1 DEF Gone
  <2>6. Link(ds, n, q, m, r)
    BY <1>3, <2>1, <2>5 DEF Link, End, Listens, Same
  <2> QED  BY <2>4, <2>6
<1> QED  BY <1>4, <1>5, <1>6, <1>7

\* The others count as before.
LEMMA GoneCounted ==
    ASSUME NEW ms, NEW ds, NEW g, Gone(ms, ds, g), Counted(nodes, conns, Null, Null), Typed,
           Owned(nodes, conns)
    PROVE  Counted(ms, ds, Null, Null)
<1> SUFFICES ASSUME NEW n \in DOMAIN ms, ms[n].isAlive
             PROVE  ms[n].peers + (IF n = Null THEN 1 ELSE 0)
                        = Cardinality(ConfirmedOf(ms, ds, n)) + (IF n = Null THEN 1 ELSE 0)
  BY DEF Counted
<1>1. n \in DOMAIN nodes /\ nodes[n].isAlive /\ n # g /\ ms[n].peers = nodes[n].peers
      /\ ms[n].connection = nodes[n].connection
  BY DEF Gone
<1>2. \A i \in Slot : nodes[n].connection[i] # Null => ds[nodes[n].connection[i]] = conns[nodes[n].connection[i]]
  BY <1>1 DEF Gone, Has, Lives
<1>3. ConfirmedOf(ms, ds, n) = ConfirmedOf(nodes, conns, n)
  BY <1>1, <1>2 DEF ConfirmedOf
<1>4. nodes[n].peers + (IF n = Null THEN 1 ELSE 0)
        = Cardinality(ConfirmedOf(nodes, conns, n)) + (IF n = Null THEN 1 ELSE 0)
  BY <1>1 DEF Counted
<1> QED  BY <1>1, <1>3, <1>4

\* The contact PlugNode is no longer that.
LEMMA LeaveContactStep ==
    ASSUME Sound, Step, NEW n \in DOMAIN nodes, AtLeave(nodes, conns, contact, todo, n, 4)
    PROVE  Sound'
<1>0. /\ Typed /\ Base(nodes, conns, contact, shutDown) /\ Owned(nodes, conns) /\ n \in Nat
      /\ Null \notin DOMAIN nodes /\ Null \notin DOMAIN conns
  BY Objects DEF Sound, Base
<1>1. /\ todo = LeaveCalls(n, 4) /\ AllRead(conns, Null)
      /\ Leaving(nodes, conns, contact, n, {}, 4, Null, Null)
  BY DEF AtLeave
<1>2. /\ Lives(nodes, n) /\ Parted(nodes, conns, n, 4)
      /\ Settled(nodes, conns, {}, n) /\ Counted(nodes, conns, Null, Null)
  BY <1>1, Zenon DEF Leaving
<1>3. todo # <<>> /\ Head(todo) = RemoveContact(n) /\ Tail(todo) = LeaveCalls(n, 5)
  <2> PICK done : done = 4
    OBVIOUS
  <2>1. done \in 0 .. 9 /\ done + 1 = 5
    OBVIOUS
  <2>2. /\ LeaveCalls(n, done) # <<>> /\ Head(LeaveCalls(n, done)) = LeaveCall(n, done + 1)
        /\ Tail(LeaveCalls(n, done)) = LeaveCalls(n, done + 1)
    BY <1>0, <2>1, LeaveCallsPop
  <2>3. LeaveCall(n, 5) = RemoveContact(n)
    BY DEF LeaveCall
  <2> QED  BY <1>1, <2>1, <2>2, <2>3
<1>4. LeaveContact
  BY <1>3, StepByCall DEF RemoveContact
<1>5. Call.at = n
  BY <1>3 DEF Call, RemoveContact
<1>6. Then(<<>>) /\ nodes' = nodes
  BY <1>4 DEF LeaveContact
<1>7. CASE n # contact
  <2> HIDE DEF Call
  <2>1. UNCHANGED <<nodes, conns, contact, localContactID, shutDown>>
    BY <1>4, <1>5, <1>7 DEF LeaveContact
  <2>2. SameConns(conns, conns', {}) /\ conns' \in Seq(ConnRecord)
    BY <1>0, <2>1 DEF SameConns, Same, Typed
  <2>3. /\ \A q \in DOMAIN conns : conns'[q].lines = conns[q].lines
        /\ \A q \in DOMAIN conns : conns'[q].peer = conns[q].peer
        /\ UNCHANGED <<nodes, contact, localContactID, shutDown>>
    BY <2>1
  <2> PICK done : done = 4
    OBVIOUS
  <2>4. \A q : Has(nodes, n, done + 1, q) => conns[q].state \in {"IDLE", "DISCONNECT"}
    BY DEF Has, Slot
  <2>5. done \in 0 .. 8 /\ AtLeave(nodes, conns, contact, todo, n, done) /\ (done = 4 => contact # n)
    BY <1>7
  <2> QED  BY <1>6, <2>2, <2>3, <2>4, <2>5, LeaveOn
<1>8. CASE n = contact
  <2> HIDE DEF Call
  <2>1. /\ conns' = Deleted(Members(shutDown)) /\ shutDown' = <<>>
        /\ contact' = Null /\ localContactID' = 0
    BY <1>4, <1>5, <1>8 DEF LeaveContact
  <2>2. Gone(nodes', conns', Null)
    <3>1. /\ conns' \in Seq(ConnRecord) /\ DOMAIN conns' = DOMAIN conns
          /\ \A q \in DOMAIN conns :
                /\ Same(conns, conns', q) /\ conns'[q].connectionID = conns[q].connectionID
                /\ conns'[q].lines = conns[q].lines
                /\ q \notin Members(shutDown) => conns'[q] = conns[q]
      BY <1>0, <2>1, DeletedFacts
    <3>2. \A n1, h, q : Has(nodes, n1, h, q) => q \in DOMAIN conns /\ q \notin Members(shutDown)
      <4> TAKE n1, h, q
      <4> HAVE Has(nodes, n1, h, q)
      <4>1. q \in DOMAIN conns
        BY <1>0, OwnedFacts
      <4>2. Owns(nodes, n1, q) /\ n1 \in DOMAIN nodes
        BY DEF Owns, Has, Lives
      <4>3. ShutApart(nodes, conns, shutDown)
        BY <1>0 DEF Base
      <4> QED  BY <4>1, <4>2, <4>3 DEF ShutApart
    <3>3. \A m \in DOMAIN nodes : nodes[m].isAlive = (nodes[m].isAlive /\ m # Null)
      BY <1>0, Objects DEF NodeRecord
    <3> QED  BY <1>6, <3>1, <3>2, <3>3 DEF Gone
  <2> PICK g : g = Null
    OBVIOUS
  <2>3. Gone(nodes', conns', g)
    BY <2>2
  <2>4. conns' \in Seq(ConnRecord)
    BY <1>0, <2>1, DeletedFacts
  <2>5. Base(nodes', conns', contact', shutDown')
    <3>1. \A k \in Members(shutDown') : k \in Members(shutDown) \/ Owns(nodes, g, k)
      BY <2>1 DEF Members
    <3>2. contact' \in {contact, Null} /\ (contact' # Null => contact' # g)
      BY <2>1
    <3> QED  BY <1>0, <2>3, <3>1, <3>2, GoneBase
  <2>6. Settled(nodes', conns', {}, n)
    <3> PICK leaving2 : leaving2 = n
      OBVIOUS
    <3>1. MayGo(g, n, leaving2)
      BY DEF MayGo
    <3>2. Settled(nodes', conns', {}, leaving2)
      BY <1>0, <1>2, <2>3, <3>1, GoneSettled
    <3> QED  BY <3>2
  <2>7. Counted(nodes', conns', Null, Null)
    BY <1>0, <1>2, <2>3, GoneCounted
  <2>8. \A n1, h, q : Has(nodes, n1, h, q) => q \in DOMAIN conns /\ conns'[q].state = conns[q].state
    <3>1. \A n1, h, q : Has(nodes, n1, h, q) => q \in DOMAIN conns
      BY <1>0, OwnedFacts
    <3> QED  BY <2>3, <3>1 DEF Gone, Same
  <2>9. Parted(nodes', conns', n, 5)
    <3> SUFFICES ASSUME NEW h \in Slot, NEW q, q = nodes[n].connection[h], q # Null
                 PROVE  conns'[q].state \in {"IDLE", "DISCONNECT"}
      BY <1>6 DEF Parted
    <3>1. Has(nodes, n, h, q)
      BY <1>2 DEF Has
    <3>2. conns[q].state \in {"IDLE", "DISCONNECT"}
      BY <1>2 DEF Parted, Slot
    <3> QED  BY <2>8, <3>1, <3>2
  <2>10. todo' \in Seq(CallRecord) /\ todo' = LeaveCalls(n, 5)
    <3>1. todo' \in Seq(CallRecord) /\ todo' = Tail(todo)
      BY <1>0, <1>3, <1>6, ThenNone
    <3> QED  BY <1>3, <3>1
  <2>11. AllRead(conns', Null)
    BY <1>1, <2>3 DEF AllRead, Gone
  <2>12. contact' # n
    BY <1>0, <2>1
  <2>13. AtLeave(nodes', conns', contact', todo', n, 5)
    <3>1. Lives(nodes', n)
      BY <1>2, <1>6
    <3>2. contact' # n => Star(nodes', conns', contact', {n})
      BY <2>1 DEF Star
    <3>3. Leaving(nodes', conns', contact', n, {}, 5, Null, Null)
      BY <2>6, <2>7, <2>9, <3>1, <3>2 DEF Leaving
    <3> QED  BY <2>10, <2>11, <2>12, <3>3 DEF AtLeave
  <2>14. Stage(nodes', conns', contact', todo')
    <3>1. n \in DOMAIN nodes' /\ 5 \in 0 .. 9
      BY <1>6
    <3> QED  BY <2>13, <3>1 DEF Stage
  <2>15. Typed'
    <3>1. contact' \in Nat /\ localContactID' \in Nat /\ shutDown' \in Seq(Nat)
      BY <2>1 DEF Null
    <3> QED  BY <1>0, <1>6, <2>4, <2>10, <3>1 DEF Typed
  <2> QED  BY <2>5, <2>14, <2>15 DEF Sound
<1> QED  BY <1>7, <1>8

\* The members of two lists in one.
LEMMA AppendLists ==
    ASSUME NEW S, NEW s \in Seq(S), NEW t \in Seq(S)
    PROVE  s \o t \in Seq(S) /\ Members(s \o t) \subseteq Members(s) \cup Members(t)
<1>1. /\ s \o t \in Seq(S) /\ Len(s \o t) = Len(s) + Len(t)
      /\ \A i \in 1 .. Len(s) + Len(t) : (s \o t)[i] = IF i <= Len(s) THEN s[i] ELSE t[i - Len(s)]
  BY ConcatProperties
<1>2. /\ DOMAIN s = 1 .. Len(s) /\ Len(s) \in Nat /\ DOMAIN t = 1 .. Len(t) /\ Len(t) \in Nat
      /\ DOMAIN (s \o t) = 1 .. Len(s) + Len(t)
  BY <1>1, LenProperties
<1> DEFINE u == s \o t
<1> HIDE DEF u
<1>3. ASSUME NEW i \in DOMAIN u
      PROVE  u[i] \in Members(s) \cup Members(t)
  <2>0. i \in 1 .. Len(s) + Len(t) /\ u[i] = IF i <= Len(s) THEN s[i] ELSE t[i - Len(s)]
    BY <1>1, <1>2 DEF u
  <2>1. CASE i <= Len(s)
    BY <1>2, <2>0, <2>1 DEF Members
  <2>2. CASE ~(i <= Len(s))
    <3>1. i - Len(s) \in DOMAIN t
      BY <1>2, <2>0, <2>2
    <3> QED  BY <2>0, <2>2, <3>1 DEF Members
  <2> QED  BY <2>1, <2>2
<1>4. Members(u) \subseteq Members(s) \cup Members(t)
  BY <1>3 DEF Members
<1> QED  BY <1>1, <1>4 DEF u

\* What remains of the list was in it.
LEMMA RemainingFacts ==
    ASSUME NEW list \in Seq(Nat)
    PROVE  Remaining(list) \in Seq(Nat) /\ Members(Remaining(list)) \subseteq Members(list)
<1>1. \A out : Kept(list, out) \in Seq(Nat) /\ Members(Kept(list, out)) \subseteq Members(list) \ out
  BY KeptFacts
<1> QED  BY <1>1 DEF Remaining

\* The connections of a PlugNode that are shut down.
Mine(n) == Kept(<<nodes[n].connectionSwitch, nodes[n].connection[4], nodes[n].connection[3],
                  nodes[n].connection[2], nodes[n].connection[1]>>, {Null})

\* shutdownConnections() lists connections of the PlugNode itself.
LEMMA MineFacts ==
    ASSUME Typed, Base(nodes, conns, contact, shutDown), NEW n, Lives(nodes, n)
    PROVE  Mine(n) \in Seq(Nat) /\ \A k \in Members(Mine(n)) : Owns(nodes, n, k)
<1>1. nodes[n] \in NodeRecord /\ n \in DOMAIN nodes
  BY Objects DEF Lives
<1> DEFINE five == <<nodes[n].connectionSwitch, nodes[n].connection[4], nodes[n].connection[3],
                     nodes[n].connection[2], nodes[n].connection[1]>>
<1>2. nodes[n].connectionSwitch \in Nat /\ \A i \in Slot : nodes[n].connection[i] \in Nat
  BY <1>1 DEF NodeRecord
<1>3. five \in Seq(Nat)
  BY <1>2 DEF Slot
<1>4. Members(five) \subseteq {nodes[n].connection[i] : i \in Slot} \cup {Null}
  <2>1. nodes[n].connectionSwitch = Null
    BY <1>1 DEF Base, NoSwitch
  <2>2. DOMAIN five = 1 .. 5
    OBVIOUS
  <2>3. /\ five[1] = nodes[n].connectionSwitch /\ five[2] = nodes[n].connection[4]
        /\ five[3] = nodes[n].connection[3] /\ five[4] = nodes[n].connection[2]
        /\ five[5] = nodes[n].connection[1]
    OBVIOUS
  <2> HIDE DEF five
  <2>4. ASSUME NEW i \in 1 .. 5
        PROVE  five[i] \in {nodes[n].connection[j] : j \in Slot} \cup {Null}
    <3>1. i = 1 \/ i = 2 \/ i = 3 \/ i = 4 \/ i = 5
      OBVIOUS
    <3> QED  BY <2>1, <2>3, <3>1 DEF Slot
  <2> QED  BY <2>2, <2>4 DEF Members
<1> HIDE DEF five
<1>5. Kept(five, {Null}) \in Seq(Nat) /\ Members(Kept(five, {Null})) \subseteq Members(five) \ {Null}
  <2> PICK out : out = {Null}
    OBVIOUS
  <2>1. Kept(five, out) \in Seq(Nat) /\ Members(Kept(five, out)) \subseteq Members(five) \ out
    BY <1>3, KeptFacts
  <2> QED  BY <2>1
<1>6. Mine(n) = Kept(five, {Null})
  BY DEF Mine, five
<1>7. ASSUME NEW k \in Members(Mine(n))
      PROVE  Owns(nodes, n, k)
  <2>1. k # Null /\ k \in {nodes[n].connection[i] : i \in Slot}
    BY <1>4, <1>5, <1>6
  <2> QED  BY <2>1 DEF Owns, Has
<1> QED  BY <1>5, <1>6, <1>7

\* ~CmServiceAccess(): what remains of n is gone.
LEMMA ShutdownStep ==
    ASSUME Sound, Step, NEW n \in DOMAIN nodes, AtLeave(nodes, conns, contact, todo, n, 9)
    PROVE  Sound'
<1>0. /\ Typed /\ Base(nodes, conns, contact, shutDown) /\ Owned(nodes, conns) /\ n \in Nat
      /\ Null \notin DOMAIN nodes /\ Null \notin DOMAIN conns /\ ShutApart(nodes, conns, shutDown)
  BY Objects DEF Sound, Base
<1>1. /\ todo = LeaveCalls(n, 9) /\ AllRead(conns, Null) /\ contact # n
      /\ Leaving(nodes, conns, contact, n, {}, 9, Null, Null)
  BY DEF AtLeave
<1>2. /\ Lives(nodes, n) /\ Parted(nodes, conns, n, 9)
      /\ Settled(nodes, conns, {}, n) /\ Star(nodes, conns, contact, {n})
      /\ Counted(nodes, conns, Null, Null)
  BY <1>1, Zenon DEF Leaving
<1>3. todo # <<>> /\ Head(todo) = Shutdown(n) /\ Tail(todo) = <<>>
  <2> PICK done : done = 9
    OBVIOUS
  <2>1. done \in 0 .. 9 /\ done + 1 = 10
    OBVIOUS
  <2>2. /\ LeaveCalls(n, done) # <<>> /\ Head(LeaveCalls(n, done)) = LeaveCall(n, done + 1)
        /\ Tail(LeaveCalls(n, done)) = LeaveCalls(n, done + 1)
    BY <1>0, <2>1, LeaveCallsPop
  <2>3. LeaveCall(n, 10) = Shutdown(n)
    BY DEF LeaveCall
  <2>4. LeaveCalls(n, 10) = <<>>
    BY <1>0, LeaveCallsEnd
  <2> QED  BY <1>1, <2>1, <2>2, <2>3, <2>4
<1>4. ShutdownConnections
  BY <1>3, StepByCall DEF Shutdown
<1>5. Call.at = n
  BY <1>3 DEF Call, Shutdown
<1> PICK list : list = Mine(n) \o shutDown
  OBVIOUS
<1>6. /\ shutDown' = Remaining(list)
      /\ conns' = Deleted({k \in Members(list) : IsIdle(k)})
      /\ nodes' = [nodes EXCEPT ![n].isAlive = FALSE]
      /\ Then(<<>>) /\ UNCHANGED <<contact, localContactID>>
  <2> HIDE DEF Call
  <2>1. /\ nodes' = [nodes EXCEPT ![n].isAlive = FALSE]
        /\ Then(<<>>) /\ UNCHANGED <<contact, localContactID>>
    BY <1>4, <1>5 DEF ShutdownConnections
  <2>2. /\ shutDown' = Remaining(Mine(n) \o shutDown)
        /\ conns' = Deleted({k \in Members(Mine(n) \o shutDown) : IsIdle(k)})
    BY <1>4, <1>5 DEF ShutdownConnections, Mine
  <2> QED  BY <2>1, <2>2
<1>7. /\ list \in Seq(Nat) /\ \A k \in Members(list) : k \in Members(shutDown) \/ Owns(nodes, n, k)
      /\ shutDown' \in Seq(Nat) /\ Members(shutDown') \subseteq Members(list)
  <2>1. Mine(n) \in Seq(Nat) /\ \A k \in Members(Mine(n)) : Owns(nodes, n, k)
    BY <1>0, <1>2, MineFacts
  <2>2. shutDown \in Seq(Nat)
    BY <1>0 DEF Typed
  <2>3. list \in Seq(Nat) /\ Members(list) \subseteq Members(Mine(n)) \cup Members(shutDown)
    BY <2>1, <2>2, AppendLists
  <2>4. Remaining(list) \in Seq(Nat) /\ Members(Remaining(list)) \subseteq Members(list)
    BY <2>3, RemainingFacts
  <2> QED  BY <1>6, <2>1, <2>3, <2>4
<1>8. conns' \in Seq(ConnRecord) /\ nodes' \in Seq(NodeRecord)
  <2>1. nodes \in Seq(NodeRecord) /\ nodes[n] \in NodeRecord
    BY <1>0, Objects DEF Typed
  <2>2. [nodes[n] EXCEPT !.isAlive = FALSE] \in NodeRecord
    BY <2>1 DEF NodeRecord
  <2>3. nodes' = [nodes EXCEPT ![n] = [nodes[n] EXCEPT !.isAlive = FALSE]]
    BY <1>6
  <2>4. nodes' \in Seq(NodeRecord)
    BY <2>1, <2>2, <2>3, ExceptSeq
  <2> QED  BY <1>0, <1>6, <2>4, DeletedFacts
<1>9. Gone(nodes', conns', n)
  <2> PICK ks : ks = {k \in Members(list) : IsIdle(k)}
    OBVIOUS
  <2>1. /\ DOMAIN conns' = DOMAIN conns
        /\ \A q \in DOMAIN conns :
              /\ Same(conns, conns', q) /\ conns'[q].connectionID = conns[q].connectionID
              /\ conns'[q].lines = conns[q].lines
              /\ q \notin ks => conns'[q] = conns[q]
    <3>1. conns' = Deleted(ks)
      BY <1>6
    <3> QED  BY <1>0, <3>1, DeletedFacts
  <2>2. ASSUME NEW n1, NEW h, NEW q, Has(nodes, n1, h, q), n1 # n
        PROVE  q \in DOMAIN conns /\ q \notin ks
    <3>1. q \in DOMAIN conns
      BY <1>0, <2>2, OwnedFacts
    <3>2. Owns(nodes, n1, q) /\ n1 \in DOMAIN nodes
      BY <2>2 DEF Owns, Has, Lives
    <3>3. q \notin Members(shutDown)
      BY <1>0, <3>2 DEF ShutApart
    <3>4. ~Owns(nodes, n, q)
      BY <1>0, <2>2, <3>2, OwnedOnce
    <3> QED  BY <1>7, <3>1, <3>3, <3>4
  <2>3. /\ DOMAIN nodes' = DOMAIN nodes
        /\ \A m \in DOMAIN nodes :
              /\ nodes'[m].isAlive = (nodes[m].isAlive /\ m # n)
              /\ nodes'[m].connection = nodes[m].connection /\ nodes'[m].peers = nodes[m].peers
              /\ nodes'[m].connectionSwitch = nodes[m].connectionSwitch
    <3>1. \A m \in DOMAIN nodes : nodes[m] \in NodeRecord
      BY <1>0, Objects
    <3> QED  BY <1>6, <3>1 DEF NodeRecord
  <2> QED  BY <2>1, <2>2, <2>3 DEF Gone
<1>10. Base(nodes', conns', contact', shutDown')
  <2>1. \A k \in Members(shutDown') : k \in Members(shutDown) \/ Owns(nodes, n, k)
    BY <1>7
  <2>2. contact' \in {contact, Null} /\ (contact' # Null => contact' # n)
    BY <1>1, <1>6
  <2> QED  BY <1>0, <1>9, <2>1, <2>2, GoneBase
<1>11. Settled(nodes', conns', {}, Null)
  <2>1. \A h, q : Has(nodes, n, h, q) => conns[q].state \in {"IDLE", "DISCONNECT"}
    BY <1>2 DEF Has, Parted, Slot
  <2>2. MayGo(n, n, Null)
    BY <2>1 DEF MayGo
  <2> PICK g : g = n
    OBVIOUS
  <2>3. Gone(nodes', conns', g) /\ Settled(nodes, conns, {}, g) /\ MayGo(g, g, Null)
    BY <1>2, <1>9, <2>2
  <2> QED  BY <1>0, <2>3, GoneSettled
<1>12. Counted(nodes', conns', Null, Null)
  BY <1>0, <1>2, <1>9, GoneCounted
<1>13. Star(nodes', conns', contact', {})
  <2>1. \A m : Lives(nodes', m) <=> Lives(nodes, m) /\ m # n
    BY <1>9, GoneHas
  <2>2. \A m, h, q : Has(nodes', m, h, q) <=> Has(nodes, m, h, q) /\ m # n
    BY <1>9, GoneHas
  <2>3. contact' = contact
    BY <1>6
  <2>4. ASSUME contact # Null, NEW m \in DOMAIN nodes', nodes'[m].isAlive, m > contact
        PROVE  \E i \in Slot : \E k \in {nodes'[m].connection[i]} : Has(nodes', m, i, k) /\ conns'[k].peer = contact
    <3>1. m \in DOMAIN nodes \ {n} /\ nodes[m].isAlive /\ nodes'[m].connection = nodes[m].connection
      BY <1>9, <2>4 DEF Gone
    <3>2. PICK i, k : i \in Slot /\ k = nodes[m].connection[i] /\ Has(nodes, m, i, k) /\ conns[k].peer = contact
      BY <1>2, <2>4, <3>1 DEF Star
    <3>3. conns'[k] = conns[k]
      BY <1>9, <3>1, <3>2 DEF Gone
    <3> QED  BY <2>2, <3>1, <3>2, <3>3
  <2>5. Star(nodes', conns', contact, {})
    BY <2>4, Zenon DEF Star
  <2> QED  BY <2>3, <2>5
<1>14. todo' \in Seq(CallRecord) /\ todo' = <<>>
  <2>1. todo' \in Seq(CallRecord) /\ todo' = Tail(todo)
    BY <1>0, <1>3, <1>6, ThenNone
  <2> QED  BY <1>3, <2>1
<1>15. AllRead(conns', Null)
  BY <1>1, <1>9 DEF AllRead, Gone
<1>16. AtRest(nodes', conns', contact', todo', Null)
  <2>1. Contacts(nodes', conns', {}, Null, todo')
    BY <1>14 DEF Contacts
  <2> QED  BY <1>11, <1>12, <1>13, <1>14, <1>15, <2>1 DEF AtRest, Calm
<1>17. Stage(nodes', conns', contact', todo')
  BY <1>16 DEF Stage
<1>18. Typed'
  BY <1>0, <1>6, <1>7, <1>8, <1>14 DEF Typed
<1> QED  BY <1>10, <1>17, <1>18 DEF Sound

\* Each call of the destructors leads to a stage.
LEMMA LeaveStep ==
    ASSUME Sound, Step, NEW n \in DOMAIN nodes, NEW done \in 0 .. 9,
           AtLeave(nodes, conns, contact, todo, n, done)
    PROVE  Sound'
<1>1. CASE done = 4
  BY <1>1, LeaveContactStep
<1>2. CASE done = 9
  BY <1>2, ShutdownStep
<1>3. CASE done # 4 /\ done # 9
  BY <1>3, LeaveOneStep
<1> QED  BY <1>1, <1>2, <1>3

\* When all calls have returned, everything is settled.
LEMMA Rested ==
    ASSUME Sound, Quiet
    PROVE  Calm(nodes, conns, contact) /\ AllRead(conns, Null)
<1>1. Stage(nodes, conns, contact, todo) /\ todo = <<>>
  BY DEF Sound, Quiet
<1>2. ASSUME NEW a, NEW b, AtJoin(nodes, conns, contact, todo, a, b)
      PROVE  FALSE
  BY <1>1, <1>2 DEF AtJoin
<1>3. ASSUME NEW x, NEW b, NEW k, NEW p, LinkStage(nodes, conns, contact, todo, x, k, b, p)
      PROVE  FALSE
  BY <1>1, <1>3 DEF LinkStage, Opened, Checkin, CheckinTold, Connect, ConnectTold, Confirm, ConfirmTold,
                    Contact1, ContactTold, Sending, Telling
<1>4. ASSUME NEW n \in DOMAIN nodes, NEW done \in 0 .. 9, AtLeave(nodes, conns, contact, todo, n, done)
      PROVE  FALSE
  <2>1. n \in Nat
    BY Objects DEF Sound
  <2>2. LeaveCalls(n, done) # <<>>
    BY <2>1, LeaveCallsPop
  <2> QED  BY <1>1, <1>4, <2>2 DEF AtLeave
<1>5. ASSUME NEW n, NEW m, NEW j, NEW k, NEW i, PartStage(nodes, conns, contact, todo, n, j, m, k, i)
      PROVE  FALSE
  BY <1>1, <1>5 DEF PartStage, Part, PartTold, Answer, AnswerTold, Answered, Silent, AfterUnlink, After,
                    Sending, Telling
<1>6. PICK b : AtRest(nodes, conns, contact, todo, b)
  BY <1>1, <1>2, <1>3, <1>4, <1>5 DEF Stage
<1> QED  BY <1>6 DEF AtRest

\* While calls run, each of them leads to a stage.
LEMMA StageStep ==
    ASSUME Sound, FewLive(nodes), Step
    PROVE  Sound'
<1>1. Stage(nodes, conns, contact, todo)
  BY DEF Sound
<1>2. ASSUME NEW b, AtRest(nodes, conns, contact, todo, b)
      PROVE  Sound'
  BY <1>2, RestStep
<1>3. ASSUME NEW a, NEW b, AtJoin(nodes, conns, contact, todo, a, b)
      PROVE  Sound'
  BY <1>3, JoinStep
<1>4. ASSUME NEW x \in DOMAIN nodes, NEW b \in DOMAIN nodes, NEW k \in DOMAIN conns, NEW p \in DOMAIN conns,
             LinkStage(nodes, conns, contact, todo, x, k, b, p)
      PROVE  Sound'
  BY <1>4, LinkStep
<1>5. ASSUME NEW n \in DOMAIN nodes, NEW done \in 0 .. 9, AtLeave(nodes, conns, contact, todo, n, done)
      PROVE  Sound'
  BY <1>5, LeaveStep
<1>6. ASSUME NEW n \in DOMAIN nodes, NEW m \in DOMAIN nodes, NEW j \in DOMAIN conns, NEW k \in DOMAIN conns,
             NEW i \in Slot, PartStage(nodes, conns, contact, todo, n, j, m, k, i)
      PROVE  Sound'
  BY <1>6, PartStep
<1> QED  BY <1>1, <1>2, <1>3, <1>4, <1>5, <1>6 DEF Stage

Joined(s, t, u) ==
    /\ u \in Seq(CallRecord) /\ Len(u) = Len(s) + Len(t)
    /\ \A k \in 1 .. Len(s) + Len(t) : u[k] = IF k <= Len(s) THEN s[k] ELSE t[k - Len(s)]

\* Calls in two lists, one behind the other.
LEMMA ListsJoined ==
    ASSUME NEW s \in Seq(CallRecord), NEW t \in Seq(CallRecord)
    PROVE  Joined(s, t, s \o t)
BY ConcatProperties DEF Joined

\* A PlugNode leaves: the calls that its destructors make.
LEMMA LeaveBegins ==
    ASSUME NEW n \in Nat
    PROVE  DisconnectFromPeers(n) \o <<RemoveContact(n)>> \o DisconnectFromPeers(n) \o <<Shutdown(n)>>
               = LeaveCalls(n, 0)
<1> DEFINE a == DisconnectFromPeers(n)
           x == <<RemoveContact(n)>>
           y == <<Shutdown(n)>>
<1>1. a \in Seq(CallRecord) /\ Len(a) = 4 /\ \A i \in 1 .. 4 : a[i] = DisconnectPeer(n, i)
  <2>1. a = [i \in 1 .. 4 |-> DisconnectPeer(n, i)]
    BY DEF DisconnectFromPeers, Slot
  <2>2. \A i \in 1 .. 4 : DisconnectPeer(n, i) \in CallRecord
    BY CallTypes DEF Slot
  <2> HIDE DEF a
  <2>3. a \in [1 .. 4 -> CallRecord]
    BY <2>1, <2>2
  <2> QED  BY <2>1, <2>3
<1>2. /\ x \in Seq(CallRecord) /\ Len(x) = 1 /\ x[1] = RemoveContact(n)
      /\ y \in Seq(CallRecord) /\ Len(y) = 1 /\ y[1] = Shutdown(n)
  BY CallTypes
<1> HIDE DEF a, x, y
<1> DEFINE s == a \o x
<1>3. s \in Seq(CallRecord) /\ Len(s) = 5 /\ \A i \in 1 .. 5 : s[i] = IF i <= 4 THEN a[i] ELSE x[i - 4]
  <2>1. Joined(a, x, s)
    BY <1>1, <1>2, ListsJoined
  <2> HIDE DEF s
  <2> QED  BY <1>1, <1>2, <2>1 DEF Joined
<1> HIDE DEF s
<1> DEFINE t == s \o a
<1>4. t \in Seq(CallRecord) /\ Len(t) = 9 /\ \A i \in 1 .. 9 : t[i] = IF i <= 5 THEN s[i] ELSE a[i - 5]
  <2>1. Joined(s, a, t)
    BY <1>1, <1>3, ListsJoined
  <2> HIDE DEF t
  <2> QED  BY <1>1, <1>3, <2>1 DEF Joined
<1> HIDE DEF t
<1> DEFINE u == t \o y
<1>5. u \in Seq(CallRecord) /\ Len(u) = 10 /\ \A i \in 1 .. 10 : u[i] = IF i <= 9 THEN t[i] ELSE y[i - 9]
  <2>1. Joined(t, y, u)
    BY <1>2, <1>4, ListsJoined
  <2> HIDE DEF u
  <2> QED  BY <1>2, <1>4, <2>1 DEF Joined
<1> HIDE DEF u
<1> DEFINE v == LeaveCalls(n, 0)
<1>6. v \in Seq(CallRecord) /\ Len(v) = 10 /\ \A i \in 1 .. 10 : v[i] = LeaveCall(n, i)
  <2> PICK done : done = 0
    OBVIOUS
  <2>1. LeaveCalls(n, done) \in Seq(CallRecord) /\ Len(LeaveCalls(n, done)) = 10 - done
    <3>1. done \in 0 .. 10
      OBVIOUS
    <3> QED  BY <3>1, LeaveCallsType
  <2>2. \A i \in 1 .. 10 : v[i] = LeaveCall(n, 0 + i)
    BY DEF LeaveCalls
  <2>3. \A i \in 1 .. 10 : 0 + i = i
    OBVIOUS
  <2> QED  BY <2>1, <2>2, <2>3
<1> HIDE DEF v
<1>7. ASSUME NEW i \in 1 .. 10
      PROVE  u[i] = LeaveCall(n, i)
  <2>1. CASE i \in 1 .. 4
    <3>1. i <= 9 /\ i <= 5 /\ i <= 4 /\ i \in 1 .. 10 /\ i \in 1 .. 9 /\ i \in 1 .. 5
      BY <2>1
    <3>2. u[i] = s[i]
      BY <1>4, <1>5, <3>1
    <3>3. u[i] = DisconnectPeer(n, i)
      BY <1>1, <1>3, <2>1, <3>1, <3>2
    <3> QED  BY <2>1, <3>3 DEF LeaveCall
  <2>2. CASE i = 5
    <3>1. u[i] = RemoveContact(n)
      BY <1>2, <1>3, <1>4, <1>5, <2>2
    <3> QED  BY <2>2, <3>1 DEF LeaveCall
  <2>3. CASE i \in 6 .. 9
    <3>1. i - 5 \in 1 .. 4 /\ i <= 9 /\ ~(i <= 5) /\ i \in 1 .. 9 /\ i \notin 1 .. 4 /\ i # 5
      BY <2>3
    <3>2. u[i] = DisconnectPeer(n, i - 5)
      BY <1>1, <1>4, <1>5, <3>1
    <3> QED  BY <2>3, <3>1, <3>2 DEF LeaveCall
  <2>4. CASE i = 10
    <3>1. u[i] = Shutdown(n)
      BY <1>2, <1>5, <2>4
    <3> QED  BY <2>4, <3>1 DEF LeaveCall
  <2> QED  BY <2>1, <2>2, <2>3, <2>4
<1>8. u = v
  <2>1. \A i \in 1 .. Len(u) : u[i] = v[i]
    BY <1>5, <1>6, <1>7
  <2> QED  BY <1>5, <1>6, <2>1, SeqEqual
<1> QED  BY <1>8 DEF a, x, y, s, t, u, v

\* ~CmPlugNode() starts to leave.
LEMMA DestroyStep ==
    ASSUME Sound, NEW n \in DOMAIN nodes, DestroyPlugNode(n)
    PROVE  Sound'
<1>0. /\ Typed /\ Base(nodes, conns, contact, shutDown) /\ n \in Nat /\ Null \notin DOMAIN nodes
  BY Objects DEF Sound
<1>1. /\ Quiet /\ Lives(nodes, n) /\ UNCHANGED <<nodes, conns, contact, localContactID, shutDown>>
      /\ todo' = LeaveCalls(n, 0)
  BY <1>0, LeaveBegins DEF DestroyPlugNode, Quiet, Alive, Lives
<1>2. AllRead(conns, Null) /\ Settled(nodes, conns, {}, Null) /\ Star(nodes, conns, contact, {})
      /\ Counted(nodes, conns, Null, Null)
  BY <1>1, Rested DEF Calm
<1>3. Settled(nodes, conns, {}, n)
  BY <1>0, <1>2 DEF Settled
<1>4. Star(nodes, conns, contact, {n})
  BY <1>2 DEF Star
<1>5. Parted(nodes, conns, n, 0)
  BY DEF Parted, Slot
<1>6. Leaving(nodes, conns, contact, n, {}, 0, Null, Null)
  BY <1>1, <1>2, <1>3, <1>4, <1>5 DEF Leaving
<1>7. AtLeave(nodes', conns', contact', todo', n, 0)
  BY <1>1, <1>2, <1>6 DEF AtLeave
<1>8. Stage(nodes', conns', contact', todo')
  <2>1. n \in DOMAIN nodes' /\ 0 \in 0 .. 9
    BY <1>1
  <2> QED  BY <1>7, <2>1 DEF Stage
<1>9. todo' \in Seq(CallRecord)
  <2> PICK done : done = 0
    OBVIOUS
  <2>1. done \in 0 .. 10
    OBVIOUS
  <2>2. LeaveCalls(n, done) \in Seq(CallRecord)
    BY <1>0, <2>1, LeaveCallsType
  <2> QED  BY <1>1, <2>2
<1>10. Typed'
  BY <1>0, <1>1, <1>9 DEF Typed
<1> QED  BY <1>0, <1>1, <1>8, <1>10 DEF Sound

\* A PlugNode has been added.
Added(ms, n) ==
    /\ n \notin DOMAIN nodes /\ n # Null /\ DOMAIN ms = DOMAIN nodes \cup {n}
    /\ \A m \in DOMAIN nodes : ms[m] = nodes[m]
    /\ ms[n].isAlive /\ (\A i \in Slot : ms[n].connection[i] = Null)
    /\ ms[n].connectionSwitch = Null /\ ms[n].peers = 0

\* A PlugNode that is created has no connections.
LEMMA AddedHas ==
    ASSUME NEW ms, NEW n, Added(ms, n)
    PROVE  /\ \A m : Lives(ms, m) <=> Lives(nodes, m) \/ m = n
           /\ \A m, h, q : Has(ms, m, h, q) <=> Has(nodes, m, h, q)
           /\ \A m, q : Owns(ms, m, q) <=> Owns(nodes, m, q)
<1>1. \A m : Lives(ms, m) <=> Lives(nodes, m) \/ m = n
  BY DEF Added, Lives
<1>2. \A m, h, q : Has(ms, m, h, q) <=> Has(nodes, m, h, q)
  <2> TAKE m, h, q
  <2>1. CASE m = n
    BY <2>1 DEF Added, Has, Lives
  <2>2. CASE m # n
    <3>1. Lives(nodes, m) => ms[m] = nodes[m]
      BY DEF Added, Lives
    <3> QED  BY <1>1, <2>2, <3>1 DEF Has
  <2> QED  BY <2>1, <2>2
<1> QED  BY <1>1, <1>2 DEF Owns

\* It changes nothing for the others.
LEMMA AddedBase ==
    ASSUME Base(nodes, conns, contact, shutDown), NEW ms, NEW n, Added(ms, n), NEW c, c \in {contact, n}
    PROVE  Base(ms, conns, c, shutDown)
<1>0. /\ Owned(nodes, conns) /\ Distinct(nodes, conns) /\ NoSwitch(nodes)
      /\ ContactLives(nodes, contact) /\ ShutApart(nodes, conns, shutDown)
  BY DEF Base
<1>1. /\ \A m : Lives(ms, m) <=> Lives(nodes, m) \/ m = n
      /\ \A m, h, q : Has(ms, m, h, q) <=> Has(nodes, m, h, q)
      /\ \A m, q : Owns(ms, m, q) <=> Owns(nodes, m, q)
  BY AddedHas
<1>2. Owned(ms, conns)
  <2> SUFFICES ASSUME NEW m, NEW i, NEW k, Has(ms, m, i, k)
               PROVE  /\ k \in DOMAIN conns /\ conns[k].isAlive /\ conns[k].connectionID = i
                      /\ \A m2, h : Has(ms, m2, h, k) => m2 = m /\ h = i
    BY DEF Owned
  <2>1. Has(nodes, m, i, k)
    BY <1>1
  <2>2. /\ k \in DOMAIN conns /\ conns[k].isAlive /\ conns[k].connectionID = i
        /\ \A m2, h : Has(nodes, m2, h, k) => m2 = m /\ h = i
    BY <1>0, <2>1, OwnedFacts
  <2> QED  BY <1>1, <2>2
<1>3. Distinct(ms, conns)
  <2> SUFFICES ASSUME NEW m, NEW i, NEW h, NEW k, NEW j,
                      Has(ms, m, i, k), Has(ms, m, h, j), i # h, conns[k].peer = conns[j].peer
               PROVE  conns[k].peer = Null
    BY DEF Distinct
  <2>1. Has(nodes, m, i, k) /\ Has(nodes, m, h, j)
    BY <1>1
  <2> QED  BY <1>0, <2>1, DistinctFacts
<1>4. NoSwitch(ms)
  BY <1>0 DEF NoSwitch, Added
<1>5. ContactLives(ms, c)
  BY <1>0, <1>1 DEF ContactLives
<1>6. ShutApart(ms, conns, shutDown)
  <2> SUFFICES ASSUME NEW k \in Members(shutDown)
               PROVE  k \in DOMAIN conns /\ \A m : ~Owns(ms, m, k)
    BY DEF ShutApart
  <2>1. k \in DOMAIN conns /\ \A m \in DOMAIN nodes : ~Owns(nodes, m, k)
    BY <1>0 DEF ShutApart
  <2>2. \A m : Owns(nodes, m, k) => m \in DOMAIN nodes
    BY DEF Owns, Has, Lives
  <2> QED  BY <1>1, <2>1, <2>2
<1> QED  BY <1>2, <1>3, <1>4, <1>5, <1>6 DEF Base

\* All are calm but for its missing link with the contact.
LEMMA AddedCalm ==
    ASSUME Typed, Calm(nodes, conns, contact), NEW ms, NEW n, Added(ms, n)
    PROVE  /\ Settled(ms, conns, {}, Null) /\ Counted(ms, conns, Null, Null)
           /\ Star(ms, conns, contact, {n})
<1>0. /\ Settled(nodes, conns, {}, Null) /\ Counted(nodes, conns, Null, Null)
      /\ Star(nodes, conns, contact, {}) /\ Null \notin DOMAIN nodes
  BY Objects DEF Calm
<1>1. /\ \A m, h, q : Has(ms, m, h, q) <=> Has(nodes, m, h, q)
      /\ \A m, q : Owns(ms, m, q) <=> Owns(nodes, m, q)
  BY AddedHas
<1>2. Settled(ms, conns, {}, Null)
  <2> SUFFICES ASSUME NEW m, NEW h, NEW q, Has(ms, m, h, q)
               PROVE  \/ Clean(conns[q])
                      \/ m = Null /\ conns[q].state = "DISCONNECT"
                      \/ \E m2 \in DOMAIN ms \ {m}, r \in DOMAIN conns :
                            Link(conns, m, q, m2, r) /\ Owns(ms, m2, r)
    BY DEF Settled
  <2>1. Has(nodes, m, h, q)
    BY <1>1
  <2> PICK busy : busy = {}
    OBVIOUS
  <2>2. Settled(nodes, conns, busy, Null) /\ q \notin busy
    BY <1>0
  <2>3. \/ Clean(conns[q])
        \/ m = Null /\ conns[q].state = "DISCONNECT"
        \/ \E m2 \in DOMAIN nodes \ {m}, r \in DOMAIN conns \ busy :
              Link(conns, m, q, m2, r) /\ Owns(nodes, m2, r)
    BY <2>1, <2>2, SettledFacts
  <2>4. DOMAIN nodes \subseteq DOMAIN ms
    BY DEF Added
  <2> QED  BY <1>1, <2>3, <2>4
<1>3. Counted(ms, conns, Null, Null)
  <2> SUFFICES ASSUME NEW m \in DOMAIN ms, ms[m].isAlive
               PROVE  ms[m].peers + (IF m = Null THEN 1 ELSE 0)
                          = Cardinality(ConfirmedOf(ms, conns, m)) + (IF m = Null THEN 1 ELSE 0)
    BY DEF Counted
  <2>1. CASE m = n
    <3>1. ConfirmedOf(ms, conns, m) = {}
      BY <2>1 DEF ConfirmedOf, Added
    <3>2. Cardinality(ConfirmedOf(ms, conns, m)) = 0
      BY <3>1, FS_EmptySet
    <3> QED  BY <2>1, <3>2 DEF Added
  <2>2. CASE m # n
    <3>1. m \in DOMAIN nodes /\ ms[m] = nodes[m]
      BY <2>2 DEF Added
    <3>2. ConfirmedOf(ms, conns, m) = ConfirmedOf(nodes, conns, m)
      BY <3>1 DEF ConfirmedOf
    <3>3. nodes[m].peers + (IF m = Null THEN 1 ELSE 0)
            = Cardinality(ConfirmedOf(nodes, conns, m)) + (IF m = Null THEN 1 ELSE 0)
      BY <1>0, <3>1 DEF Counted
    <3> QED  BY <3>1, <3>2, <3>3
  <2> QED  BY <2>1, <2>2
<1>4. Star(ms, conns, contact, {n})
  <2> SUFFICES ASSUME contact # Null, NEW m \in DOMAIN ms \ {n}, ms[m].isAlive, m > contact
               PROVE  \E i \in Slot : \E k \in {ms[m].connection[i]} : Has(ms, m, i, k) /\ conns[k].peer = contact
    BY DEF Star
  <2>1. m \in DOMAIN nodes /\ ms[m] = nodes[m]
    BY DEF Added
  <2>2. PICK i, k : i \in Slot /\ k = nodes[m].connection[i] /\ Has(nodes, m, i, k) /\ conns[k].peer = contact
    BY <1>0, <2>1 DEF Star
  <2> QED  BY <1>1, <2>1, <2>2
<1> QED  BY <1>2, <1>3, <1>4

\* A new PlugNode is the contact, or shall join at the contact.
LEMMA CreateStep ==
    ASSUME Sound, CreatePlugNode
    PROVE  Sound'
<1>0. /\ Typed /\ Base(nodes, conns, contact, shutDown) /\ Null \notin DOMAIN nodes
      /\ DOMAIN nodes = 1 .. Len(nodes) /\ Len(nodes) \in Nat
  BY Objects DEF Sound
<1> PICK n : n = Len(nodes) + 1
  OBVIOUS
<1>1. /\ Quiet /\ nodes' = Append(nodes, NewNode) /\ UNCHANGED <<conns, shutDown>>
      /\ IF contact = Null
         THEN contact' = n /\ UNCHANGED <<localContactID, todo>>
         ELSE /\ localContactID' = localContactID + 1
              /\ todo' = <<Join(contact, n, localContactID')>>
              /\ UNCHANGED contact
  BY DEF CreatePlugNode, Quiet
<1>2. AllRead(conns, Null) /\ Calm(nodes, conns, contact)
  BY <1>1, Rested
<1>3. NewNode \in NodeRecord
  BY DEF NewNode, NodeRecord, Slot, Null
<1>4. nodes' \in Seq(NodeRecord) /\ Added(nodes', n)
  <2>1. /\ Append(nodes, NewNode) \in Seq(NodeRecord)
        /\ Len(Append(nodes, NewNode)) = Len(nodes) + 1
        /\ \A i \in 1 .. Len(nodes) : Append(nodes, NewNode)[i] = nodes[i]
        /\ Append(nodes, NewNode)[Len(nodes) + 1] = NewNode
    BY <1>0, <1>3, AppendProperties DEF Typed
  <2>2. DOMAIN Append(nodes, NewNode) = 1 .. Len(nodes) + 1
    BY <2>1, LenProperties
  <2>3. DOMAIN Append(nodes, NewNode) = DOMAIN nodes \cup {n} /\ n \notin DOMAIN nodes /\ n # Null
    BY <1>0, <2>2 DEF Null
  <2>4. /\ NewNode.isAlive /\ (\A i \in Slot : NewNode.connection[i] = Null)
        /\ NewNode.connectionSwitch = Null /\ NewNode.peers = 0
    BY DEF NewNode
  <2> QED  BY <1>0, <1>1, <2>1, <2>3, <2>4 DEF Added
<1>5. n \in DOMAIN nodes' /\ Lives(nodes', n) /\ n \in Nat
  BY <1>0, <1>4, AddedHas DEF Lives
<1>6. Settled(nodes', conns, {}, Null) /\ Counted(nodes', conns, Null, Null) /\ Star(nodes', conns, contact, {n})
  BY <1>0, <1>2, <1>4, AddedCalm
<1>7. CASE contact = Null
  <2>1. contact' = n /\ localContactID' = localContactID /\ todo' = todo
    BY <1>1, <1>7
  <2>2. Base(nodes', conns', contact', shutDown')
    <3>1. n \in {contact, n}
      OBVIOUS
    <3>2. Base(nodes', conns, n, shutDown)
      BY <1>0, <1>4, <3>1, AddedBase
    <3> QED  BY <1>1, <2>1, <3>2
  <2>3. Star(nodes', conns', n, {})
    <3>1. \A m \in DOMAIN nodes' : ~(m > n)
      BY <1>0, <1>4 DEF Added
    <3> QED  BY <3>1 DEF Star
  <2>4. AtRest(nodes', conns', contact', todo', Null)
    <3>1. todo' = <<>>
      BY <1>1, <2>1 DEF Quiet
    <3>2. Contacts(nodes', conns', {}, Null, todo')
      BY <3>1 DEF Contacts
    <3>3. Calm(nodes', conns', contact')
      BY <1>1, <1>6, <2>1, <2>3 DEF Calm
    <3>4. AllRead(conns', Null)
      BY <1>1, <1>2
    <3> QED  BY <3>1, <3>2, <3>3, <3>4 DEF AtRest
  <2>5. Stage(nodes', conns', contact', todo')
    BY <2>4 DEF Stage
  <2>6. Typed'
    BY <1>0, <1>1, <1>4, <1>5, <2>1 DEF Typed
  <2> QED  BY <2>2, <2>5, <2>6 DEF Sound
<1>8. CASE contact # Null
  <2>1. contact' = contact /\ localContactID' = localContactID + 1 /\ todo' = <<Join(contact, n, localContactID')>>
    BY <1>1, <1>8
  <2>2. Base(nodes', conns', contact', shutDown')
    <3>1. contact \in {contact, n}
      OBVIOUS
    <3>2. Base(nodes', conns, contact, shutDown)
      BY <1>0, <1>4, <3>1, AddedBase
    <3> QED  BY <1>1, <2>1, <3>2
  <2>3. contact \in DOMAIN nodes /\ contact # n /\ Lives(nodes', contact)
    <3>1. Lives(nodes, contact)
      BY <1>0, <1>8 DEF Base, ContactLives
    <3>2. Lives(nodes', contact)
      BY <1>4, <3>1, AddedHas
    <3>3. contact # n
      BY <1>0, <3>1 DEF Lives
    <3> QED  BY <3>1, <3>2, <3>3 DEF Lives
  <2>4. contact \in Nat /\ localContactID' \in Nat
    BY <1>0, <2>1 DEF Typed
  <2> PICK call : call = Join(contact, n, localContactID')
    OBVIOUS
  <2>5. call \in CallRecord /\ call.call = "join" /\ call.at = contact /\ call.for = n
    <3>1. call \in CallRecord
      BY <1>5, <2>4, CallTypes
    <3> QED  BY <3>1 DEF Join
  <2>6. todo' \in Seq(CallRecord) /\ todo' # <<>> /\ Head(todo') = call /\ Tail(todo') = <<>>
    <3>1. todo' = <<call>>
      BY <2>1
    <3> QED  BY <2>5, <3>1
  <2>7. AtJoin(nodes', conns', contact', todo', contact, n)
    <3>1. Contacts(nodes', conns', {}, n, Tail(todo'))
      BY <2>6 DEF Contacts
    <3>2. AllRead(conns', Null)
      BY <1>1, <1>2
    <3>3. Settled(nodes', conns', {}, Null) /\ Counted(nodes', conns', Null, Null)
          /\ Star(nodes', conns', contact', IF contact = contact' THEN {n} ELSE {})
      BY <1>1, <1>6, <2>1
    <3> QED  BY <1>5, <2>3, <2>5, <2>6, <3>1, <3>2, <3>3 DEF AtJoin
  <2>8. Stage(nodes', conns', contact', todo')
    <3>1. contact \in DOMAIN nodes' /\ n \in DOMAIN nodes'
      BY <1>5, <2>3 DEF Lives
    <3> QED  BY <2>7, <3>1 DEF Stage
  <2>9. Typed'
    BY <1>0, <1>1, <1>4, <2>1, <2>4, <2>6 DEF Typed
  <2> QED  BY <2>2, <2>8, <2>9 DEF Sound
<1> QED  BY <1>7, <1>8

\* The network is not crowded with five PlugNodes or less.
LEMMA FewLiveNext ==
    ASSUME Typed', RememberCrowd, ~crowded'
    PROVE  FewLive(nodes') /\ ~crowded
<1>1. ~crowded /\ ~(Cardinality(Living') > 1 + Cardinality(Slot))
  BY DEF RememberCrowd
<1>2. Cardinality(Slot) = 4
  <2>1. PICK a, b \in Int : a = 1 /\ b = 4
    OBVIOUS
  <2>2. Cardinality(a .. b) = IF a > b THEN 0 ELSE b - a + 1
    BY FS_Interval
  <2>3. Slot = a .. b
    BY <2>1 DEF Slot
  <2> QED  BY <2>1, <2>2, <2>3
<1>3. Living' = {n \in DOMAIN nodes' : nodes'[n].isAlive}
  BY DEF Living, Alive
<1>4. Cardinality(Living') \in Nat
  <2>1. nodes' \in Seq(NodeRecord)
    BY DEF Typed
  <2>2. DOMAIN nodes' = 1 .. Len(nodes') /\ Len(nodes') \in Nat
    BY <2>1, LenProperties
  <2>3. IsFiniteSet(DOMAIN nodes')
    BY <2>2, FS_Interval
  <2>4. IsFiniteSet(Living')
    BY <1>3, <2>3, FS_Subset
  <2> QED  BY <2>4, FS_CardinalityType
<1>5. Cardinality(Living') <= 5
  BY <1>1, <1>2, <1>4
<1> QED  BY <1>1, <1>3, <1>5 DEF FewLive

\* What the invariant says of an uncrowded network.
LEMMA NetworkInvNow ==
    ASSUME NetworkInv, Uncrowded
    PROVE  Sound /\ FewLive(nodes)
BY DEF NetworkInv, Sound

\* The invariant holds at first.
LEMMA NetworkInvInit ==
    ASSUME Init
    PROVE  NetworkInv
<1>1. /\ nodes = <<>> /\ conns = <<>> /\ contact = Null /\ localContactID = 0
      /\ shutDown = <<>> /\ todo = <<>>
  BY DEF Init
<1>2. Typed
  BY <1>1 DEF Typed, Null
<1>3. DOMAIN nodes = {} /\ DOMAIN conns = {}
  BY <1>1
<1>4. FewLive(nodes)
  <2>1. {n \in DOMAIN nodes : nodes[n].isAlive} = {}
    BY <1>3
  <2> QED  BY <2>1, FS_EmptySet DEF FewLive
<1>5. Base(nodes, conns, contact, shutDown)
  <2>1. Members(shutDown) = {}
    BY <1>1 DEF Members
  <2> QED  BY <1>1, <1>3, <2>1 DEF Base, Owned, Distinct, NoSwitch, ContactLives, ShutApart
<1>6. AtRest(nodes, conns, contact, todo, Null)
  <2>1. Contacts(nodes, conns, {}, Null, todo)
    BY <1>1 DEF Contacts
  <2>2. Settled(nodes, conns, {}, Null)
    BY <1>3 DEF Settled
  <2>3. Star(nodes, conns, contact, {}) /\ Counted(nodes, conns, Null, Null)
    BY <1>3 DEF Star, Counted
  <2>4. AllRead(conns, Null)
    BY <1>3 DEF AllRead
  <2> QED  BY <1>1, <2>1, <2>2, <2>3, <2>4 DEF AtRest, Calm
<1>7. Stage(nodes, conns, contact, todo)
  BY <1>6 DEF Stage
<1> QED  BY <1>2, <1>4, <1>5, <1>7 DEF NetworkInv

\* Every step keeps it: a call, an arrival, a departure.
LEMMA NetworkInvNext ==
    ASSUME NetworkInv, [Next]_vars
    PROVE  NetworkInv'
<1>1. CASE UNCHANGED vars
  <2>1. /\ nodes' = nodes /\ conns' = conns /\ contact' = contact /\ localContactID' = localContactID
        /\ shutDown' = shutDown /\ todo' = todo /\ crowded' = crowded
    BY <1>1 DEF vars, network
  <2>2. (Uncrowded' <=> Uncrowded) /\ (Typed' <=> Typed)
    BY <2>1 DEF Uncrowded, Typed
  <2>3. /\ FewLive(nodes)' <=> FewLive(nodes)
        /\ Base(nodes, conns, contact, shutDown)' <=> Base(nodes, conns, contact, shutDown)
        /\ Stage(nodes, conns, contact, todo)' <=> Stage(nodes, conns, contact, todo)
    BY <2>1
  <2> QED  BY <2>2, <2>3 DEF NetworkInv
<1>2. CASE Next
  <2> SUFFICES ASSUME Uncrowded'
               PROVE  Sound' /\ FewLive(nodes')
    BY DEF NetworkInv, Sound
  <2>1. RememberCrowd /\ ~crowded' /\ ~crowded
    BY <1>2 DEF Next, RememberCrowd, Uncrowded
  <2>2. Sound /\ FewLive(nodes)
    BY <2>1, NetworkInvNow DEF Uncrowded
  <2>3. Sound'
    <3>1. CASE Step
      BY <2>2, <3>1, StageStep
    <3>2. CASE CreatePlugNode
      BY <2>2, <3>2, CreateStep
    <3>3. ASSUME NEW n \in DOMAIN nodes, DestroyPlugNode(n)
          PROVE  Sound'
      BY <2>2, <3>3, DestroyStep
    <3> QED  BY <1>2, <3>1, <3>2, <3>3 DEF Next
  <2>4. FewLive(nodes')
    BY <2>1, <2>3, FewLiveNext DEF Sound
  <2> QED  BY <2>3, <2>4
<1> QED  BY <1>1, <1>2

\* As long as never more than five PlugNodes have lived at once, the network is at
\* one of the stages of PlugNodeStages, for any number of PlugNodes ever created
\* (CmPlugNode.cpp, CmServiceAccess.cpp, CmServiceConnection.cpp).
THEOREM NetworkInvInductive == Spec => []NetworkInv
<1>1. Init => NetworkInv
  BY NetworkInvInit
<1>2. NetworkInv /\ [Next]_vars => NetworkInv'
  BY NetworkInvNext
<1> QED
  BY <1>1, <1>2, PTL DEF Spec

-----------------------------------------------------------------------------
(* What it means for the network                                           *)

\* Counted, when all calls have returned.
LEMMA CountedWhenQuiet ==
    ASSUME NetworkInv
    PROVE  PeersCountedUncrowded
<1> SUFFICES ASSUME Uncrowded, Quiet, NEW n \in Living
             PROVE  nodes[n].peers = Cardinality(Confirmed(n))
  BY DEF PeersCountedUncrowded, PeersCounted
<1>1. Sound /\ Typed /\ Null \notin DOMAIN nodes
  BY NetworkInvNow, Objects DEF Sound
<1>2. Counted(nodes, conns, Null, Null)
  BY <1>1, Rested DEF Calm
<1>3. n \in DOMAIN nodes /\ nodes[n].isAlive /\ n # Null
  BY <1>1 DEF Living, Alive
<1>4. nodes[n].peers + 0 = Cardinality(ConfirmedOf(nodes, conns, n)) + 0
  BY <1>2, <1>3 DEF Counted
<1>5. nodes[n].peers \in 0 .. 4
  BY <1>1, <1>3, Objects DEF NodeRecord
<1>6. Cardinality(ConfirmedOf(nodes, conns, n)) \in Nat
  BY ConfirmedRoom
<1>7. ConfirmedOf(nodes, conns, n) = Confirmed(n)
  BY DEF ConfirmedOf, Confirmed, Connections
<1> QED  BY <1>4, <1>5, <1>6, <1>7

\* The connections of a living PlugNode are those it owns.
LEMMA ConnectionsOwned ==
    ASSUME NEW n \in Living, NEW k
    PROVE  k \in Connections(n) <=> Owns(nodes, n, k)
BY DEF Living, Alive, Connections, Owns, Has, Lives

\* Each confirmed connection is one end of a link.
LEMMA SymmetricWhenQuiet ==
    ASSUME NetworkInv, Uncrowded
    PROVE  LinksSymmetric
<1> SUFFICES ASSUME Quiet, NEW n \in Living, NEW k \in Confirmed(n)
             PROVE  \E m \in Living \ {n} : \E j \in Confirmed(m) :
                       /\ conns[k].peer = m /\ conns[j].peer = n
                       /\ conns[k].rxInfo = j /\ conns[j].rxInfo = k
                       /\ conns[j].registered = <<n, k>> /\ conns[k].registered = <<m, j>>
  BY DEF LinksSymmetric
<1>1. Sound /\ Typed /\ Null \notin DOMAIN nodes
  BY NetworkInvNow, Objects DEF Sound
<1>2. Settled(nodes, conns, {}, Null)
  BY <1>1, Rested DEF Calm
<1>3. k \in Connections(n) /\ conns[k].state = "CONFIRM" /\ Owns(nodes, n, k)
  BY ConnectionsOwned DEF Confirmed
<1>4. PICK m \in DOMAIN nodes \ {n}, j \in DOMAIN conns : Link(conns, n, k, m, j) /\ Owns(nodes, m, j)
  <2> PICK busy : busy = {}
    OBVIOUS
  <2>1. PICK i : Has(nodes, n, i, k)
    BY <1>3 DEF Owns
  <2>2. Settled(nodes, conns, busy, Null) /\ k \notin busy
    BY <1>2
  <2>3. \/ Clean(conns[k])
        \/ n = Null /\ conns[k].state = "DISCONNECT"
        \/ \E m \in DOMAIN nodes \ {n}, j \in DOMAIN conns \ busy :
              Link(conns, n, k, m, j) /\ Owns(nodes, m, j)
    BY <2>1, <2>2, SettledFacts
  <2> QED  BY <1>3, <2>3 DEF Clean
<1>5. m \in Living \ {n}
  BY <1>4 DEF Owns, Has, Lives, Living, Alive
<1>6. j \in Confirmed(m)
  BY <1>4, <1>5, ConnectionsOwned DEF Confirmed, Link
<1> QED  BY <1>4, <1>5, <1>6 DEF Link, End, Listens

\* The peer of a settled connection lives.
LEMMA AddressesWhenQuiet ==
    ASSUME NetworkInv
    PROVE  AddressesValidUncrowded
<1> SUFFICES ASSUME Uncrowded, Quiet, NEW n \in Living, NEW k \in Connections(n)
             PROVE  conns[k].peer \in Living \cup {Null}
  BY DEF AddressesValidUncrowded
<1>1. Typed /\ Calm(nodes, conns, contact)
  BY NetworkInvNow, Rested DEF Sound
<1>2. Owns(nodes, n, k)
  BY ConnectionsOwned
<1>3. conns[k].peer = Null \/ Lives(nodes, conns[k].peer)
  BY <1>1, <1>2, PeerLives
<1> QED  BY <1>3 DEF Lives, Living, Alive

\* Peers is the number of confirmed connections whenever all calls have returned
\* (CmServiceAccess.h:44-47), as long as nobody has had to switch.
THEOREM PeersAlwaysCounted == Spec => []PeersCountedUncrowded
<1>1. NetworkInv => PeersCountedUncrowded
  BY CountedWhenQuiet
<1> QED
  BY <1>1, NetworkInvInductive, PTL

\* Until then a confirmed connection has two ends that name, hear and are
\* registered for each other (CmServiceConnection.h:207-208).
THEOREM LinksAlwaysSymmetric == Spec => [](Uncrowded => LinksSymmetric)
<1>1. NetworkInv => (Uncrowded => LinksSymmetric)
  BY SymmetricWhenQuiet
<1> QED
  BY <1>1, NetworkInvInductive, PTL

\* Until then no connection keeps the address of a deleted PlugNode, which
\* findServiceUURI() would follow (CmServiceAccess.cpp:606-608).
THEOREM AddressesAlwaysValid == Spec => []AddressesValidUncrowded
<1>1. NetworkInv => AddressesValidUncrowded
  BY AddressesWhenQuiet
<1> QED
  BY <1>1, NetworkInvInductive, PTL

-----------------------------------------------------------------------------
(* The rounds of a search: findServiceUURI() asks the peers of those found  *)

Round(T, ends) == T \cup ({conns[k].peer : k \in UNION {ends[m] : m \in T}} \ {Null})
Closed(W, ends) == \A T \in SUBSET W : Round(T, ends) \in SUBSET W
Rounds(f, n, ends) == f[0] = {n} /\ \A i \in 1 .. Len(nodes) : f[i] = Round(f[i - 1], ends)

\* What has been found after the last round.
LEMMA ReachedRounds ==
    ASSUME NEW W, NEW n \in W, NEW ends, Closed(W, ends), Len(nodes) \in Nat
    PROVE  \E f : Rounds(f, n, ends) /\ Reached(n, ends) = f[Len(nodes)]
<1> DEFINE N == Len(nodes)
           g == [x \in Nat \X SUBSET W |-> Round(x[2], ends)]
           f == CHOOSE f : f = [i \in 0 .. N |->
                    IF i = 0 THEN {n}
                    ELSE f[i - 1] \cup
                         ({conns[k].peer : k \in UNION {ends[m] : m \in f[i - 1]}} \ {Null})]
<1>1. g \in [Nat \X SUBSET W -> SUBSET W]
  BY DEF Closed
<1>2. \A i \in 1 .. N, T \in SUBSET W : g[<<i, T>>] = Round(T, ends)
  OBVIOUS
<1>3. N \in Nat
  OBVIOUS
<1> HIDE DEF N, g
<1>4. PICK h \in [0 .. N -> SUBSET W] : h[0] = {n} /\ \A i \in 1 .. N : h[i] = g[<<i, h[i - 1]>>]
  <2> HIDE DEF f
  <2> PICK S, a : S = SUBSET W /\ a = {n}
    OBVIOUS
  <2>1. a \in S /\ g \in [Nat \X S -> S]
    BY <1>1
  <2>2. PICK h : MadeInTurn(h, S, a, g, N)
    BY <1>3, <2>1, NumberRecursion
  <2> QED  BY <2>2 DEF MadeInTurn
<1>5. h = [i \in 0 .. N |->
              IF i = 0 THEN {n}
              ELSE h[i - 1] \cup
                   ({conns[k].peer : k \in UNION {ends[m] : m \in h[i - 1]}} \ {Null})]
  <2>1. \A i \in 0 .. N :
           h[i] = IF i = 0 THEN {n}
                  ELSE h[i - 1] \cup
                       ({conns[k].peer : k \in UNION {ends[m] : m \in h[i - 1]}} \ {Null})
    <3> TAKE i \in 0 .. N
    <3>1. CASE i = 0
      BY <1>4, <3>1
    <3>2. CASE i # 0
      <4>1. i \in 1 .. N /\ i - 1 \in 0 .. N
        BY <1>3, <3>2
      <4>2. h[i - 1] \in SUBSET W
        BY <1>4, <4>1
      <4>3. h[i] = Round(h[i - 1], ends)
        BY <1>2, <1>4, <4>1, <4>2
      <4> QED  BY <3>2, <4>3 DEF Round
    <3> QED  BY <3>1, <3>2
  <2> QED  BY <2>1
<1>6. f = [i \in 0 .. N |->
              IF i = 0 THEN {n}
              ELSE f[i - 1] \cup
                   ({conns[k].peer : k \in UNION {ends[m] : m \in f[i - 1]}} \ {Null})]
  BY <1>5
<1>7. \A i \in 0 .. N :
         f[i] = IF i = 0 THEN {n}
                ELSE f[i - 1] \cup
                     ({conns[k].peer : k \in UNION {ends[m] : m \in f[i - 1]}} \ {Null})
  BY <1>6
<1>8. Reached(n, ends) = f[N]
  BY DEF Reached, N
<1> HIDE DEF f
<1>9. f[0] = {n}
  <2>1. 0 \in 0 .. N
    BY <1>3
  <2> QED  BY <1>7, <2>1
<1>10. \A i \in 1 .. N : f[i] = Round(f[i - 1], ends)
  <2> TAKE i \in 1 .. N
  <2>1. i \in 0 .. N /\ i # 0
    BY <1>3
  <2> QED  BY <1>7, <2>1 DEF Round
<1> QED  BY <1>8, <1>9, <1>10 DEF Rounds, N

\* What has been found stays found.
LEMMA RoundsKeep ==
    ASSUME NEW f, NEW n, NEW ends, Rounds(f, n, ends), Len(nodes) \in Nat,
           NEW i \in 0 .. Len(nodes), NEW x \in f[i]
    PROVE  x \in f[Len(nodes)]
<1> DEFINE K == {j \in Nat : i + j <= Len(nodes) => x \in f[i + j]}
<1>1. 0 \in K
  OBVIOUS
<1>2. ASSUME NEW j \in Nat, j \in K
      PROVE  j + 1 \in K
  <2> SUFFICES ASSUME i + (j + 1) <= Len(nodes)  PROVE x \in f[i + (j + 1)]
    OBVIOUS
  <2>1. PICK h \in 1 .. Len(nodes) : h = i + (j + 1) /\ h - 1 = i + j
    OBVIOUS
  <2>2. x \in f[h - 1]
    BY <1>2, <2>1
  <2>3. f[h] = Round(f[h - 1], ends)
    BY <2>1 DEF Rounds
  <2> QED  BY <2>1, <2>2, <2>3 DEF Round
<1>3. K \in SUBSET Nat
  OBVIOUS
<1>4. Len(nodes) - i \in Nat /\ i + (Len(nodes) - i) = Len(nodes)
  OBVIOUS
<1> HIDE DEF K
<1>5. K = Nat
  BY <1>1, <1>2, <1>3, AllNumbers
<1>6. Len(nodes) - i \in K
  BY <1>4, <1>5
<1> QED  BY <1>4, <1>6 DEF K

\* The peers of those found are found in the next round.
LEMMA RoundsFind ==
    ASSUME NEW f, NEW n, NEW ends, Rounds(f, n, ends),
           NEW i \in 1 .. Len(nodes), NEW m \in f[i - 1], NEW k \in ends[m], conns[k].peer # Null
    PROVE  conns[k].peer \in f[i]
<1>1. f[i] = Round(f[i - 1], ends)
  BY DEF Rounds
<1> QED  BY <1>1 DEF Round

\* A PlugNode that came after the contact and the contact are peers.
LEMMA ContactPeers ==
    ASSUME Typed, Calm(nodes, conns, contact), contact # Null,
           NEW n \in Living, n > contact
    PROVE  /\ \E k \in Connections(n) : conns[k].peer = contact
           /\ \E j \in Connections(contact) : conns[j].peer = n
<1>1. n \in DOMAIN nodes /\ nodes[n].isAlive
  BY DEF Living, Alive
<1>2. PICK i, k : Has(nodes, n, i, k) /\ conns[k].peer = contact
  <2> PICK except : except = {}
    OBVIOUS
  <2>1. Star(nodes, conns, contact, except) /\ n \in DOMAIN nodes \ except
    BY <1>1 DEF Calm
  <2> QED  BY <1>1, <2>1 DEF Star
<1>3. PICK j \in DOMAIN conns : Owns(nodes, contact, j) /\ Link(conns, n, k, contact, j)
  BY <1>2, PeerOfPeer DEF Calm
<1>4. k \in Connections(n)
  <2>1. Owns(nodes, n, k)
    <3>1. i \in Slot
      BY <1>2 DEF Has
    <3> QED  BY <1>2, <3>1 DEF Owns
  <2> QED  BY <2>1, ConnectionsOwned
<1>5. j \in Connections(contact)
  <2>1. contact \in Living
    BY <1>3 DEF Owns, Has, Lives, Living, Alive
  <2> QED  BY <1>3, <2>1, ConnectionsOwned
<1> QED  BY <1>2, <1>3, <1>4, <1>5 DEF Link, End

\* From any PlugNode the contact is one round away, and every other one two.
LEMMA FoundWhenQuiet ==
    ASSUME NetworkInv
    PROVE  AllFoundUncrowded
<1> DEFINE ends == [m \in DOMAIN nodes |-> Connections(m)]
<1> SUFFICES ASSUME Uncrowded, Quiet, NEW n \in Network, NEW m \in Network
             PROVE  m \in Reached(n, ends)
  BY DEF AllFoundUncrowded, AllFound
<1>1. Sound /\ Typed /\ Calm(nodes, conns, contact)
  BY NetworkInvNow, Rested DEF Sound
<1>2. /\ DOMAIN nodes = 1 .. Len(nodes) /\ Len(nodes) \in Nat
      /\ n \in Living /\ m \in Living /\ n \in DOMAIN nodes /\ m \in DOMAIN nodes
      /\ contact # Null /\ n >= contact /\ m >= contact /\ contact \in Nat
  <2>1. DOMAIN nodes = 1 .. Len(nodes) /\ Len(nodes) \in Nat
    BY <1>1, Objects
  <2>2. contact \in Nat
    BY <1>1 DEF Typed
  <2> QED  BY <2>1, <2>2 DEF Network, Living
<1>3. \A q \in Living : q \in DOMAIN nodes /\ ends[q] = Connections(q)
  BY DEF Living
<1> HIDE DEF ends
<1>4. Closed(Living, ends)
  <2> SUFFICES ASSUME NEW T \in SUBSET Living, NEW q \in T, NEW k \in ends[q], conns[k].peer # Null
               PROVE  conns[k].peer \in Living
    BY DEF Closed, Round
  <2>1. q \in Living /\ k \in Connections(q)
    BY <1>3
  <2> QED  BY <2>1, AddressesWhenQuiet DEF AddressesValidUncrowded
<1>5. PICK f : Rounds(f, n, ends) /\ Reached(n, ends) = f[Len(nodes)]
  BY <1>2, <1>4, ReachedRounds
<1>6. n \in f[0]
  BY <1>5 DEF Rounds
<1>7. CASE m = n
  <2>1. 0 \in 0 .. Len(nodes)
    BY <1>2
  <2> QED  BY <1>2, <1>5, <1>6, <1>7, <2>1, RoundsKeep
<1>8. CASE m # n
  <2>1. 1 \in 1 .. Len(nodes) /\ 2 \in 1 .. Len(nodes) /\ 1 - 1 = 0 /\ 2 - 1 = 1
    BY <1>2, <1>8
  <2>2. contact \in f[0] \/ contact \in f[1]
    <3>1. CASE n = contact
      BY <1>6, <3>1
    <3>2. CASE n # contact
      <4>1. n > contact
        BY <1>2, <3>2
      <4>2. PICK k \in Connections(n) : conns[k].peer = contact
        BY <1>1, <1>2, <4>1, ContactPeers
      <4>3. k \in ends[n] /\ n \in f[1 - 1]
        BY <1>2, <1>3, <1>6, <4>2
      <4> QED  BY <1>2, <1>5, <2>1, <4>2, <4>3, RoundsFind
    <3> QED  BY <3>1, <3>2
  <2>3. CASE m = contact
    <3>1. 0 \in 0 .. Len(nodes) /\ 1 \in 0 .. Len(nodes)
      BY <2>1, <1>2
    <3> QED  BY <1>2, <1>5, <2>2, <2>3, <3>1, RoundsKeep
  <2>4. CASE m # contact
    <3>1. m > contact
      BY <1>2, <2>4
    <3>2. PICK j \in Connections(contact) : conns[j].peer = m
      BY <1>1, <1>2, <3>1, ContactPeers
    <3>3. j \in ends[contact]
      <4>1. contact \in Living
        BY <1>1, <1>2 DEF Sound, Base, ContactLives, Lives, Living, Alive
      <4> QED  BY <1>3, <3>2, <4>1
    <3>4. m # Null
      BY <1>2 DEF Null
    <3>5. m \in f[1] \/ m \in f[2]
      <4>1. contact \in f[1 - 1] => m \in f[1]
        BY <1>5, <2>1, <3>2, <3>3, <3>4, RoundsFind
      <4>2. contact \in f[2 - 1] => m \in f[2]
        BY <1>5, <2>1, <3>2, <3>3, <3>4, RoundsFind
      <4> QED  BY <2>1, <2>2, <4>1, <4>2
    <3>6. 1 \in 0 .. Len(nodes) /\ 2 \in 0 .. Len(nodes)
      BY <2>1, <1>2
    <3> QED  BY <1>2, <1>5, <3>5, <3>6, RoundsKeep
  <2> QED  BY <2>3, <2>4
<1> QED  BY <1>7, <1>8

\* Until then a search from any PlugNode that joined through the contact reaches
\* all of them (CmServiceAccess.h:92-94).
THEOREM AllAlwaysFound == Spec => []AllFoundUncrowded
<1>1. NetworkInv => AllFoundUncrowded
  BY FoundWhenQuiet
<1> QED
  BY <1>1, NetworkInvInductive, PTL

-----------------------------------------------------------------------------
(* The objects that a call uses                                            *)

Uses(call) ==
    LET isConn(k) == conns[k].isAlive
    IN  CASE call.call = "join"    -> Alive(call.at) /\ Alive(call.for)
          [] call.call = "send"    -> isConn(call.conn) /\ (call.other # Null => isConn(call.other))
          [] call.call = "contact" -> Alive(call.at) /\ isConn(call.conn)
          [] call.call = "receive" -> /\ isConn(call.conn)
                                      /\ isConn(conns[call.conn].registered[2])
                                      /\ Alive(conns[call.conn].registered[1])
          [] call.call \in {"payload", "line", "unlink", "setState"} -> isConn(call.conn)
          [] OTHER                 -> Alive(call.at)
Whole(call) == call.call = "payload" => conns[call.conn].lines = <<>>
InUse(call) == Uses(call) /\ Whole(call)

\* Calls that use a PlugNode only.
LEMMA UsedByAt ==
    ASSUME NEW call, call.call \in {"switch", "switched", "removeContact", "shutdown", "disconnect"},
           Alive(call.at)
    PROVE  InUse(call)
BY DEF InUse, Uses, Whole

\* Calls that use a connection only.
LEMMA UsedByConn ==
    ASSUME NEW call, call.call \in {"line", "unlink", "setState"}, conns[call.conn].isAlive
    PROVE  InUse(call)
BY DEF InUse, Uses, Whole

\* sendCommand() uses its connection, and the one whose peer it names.
LEMMA UsedBySend ==
    ASSUME NEW k, NEW command, NEW o, conns[k].isAlive, o # Null => conns[o].isAlive
    PROVE  InUse(Send(k, command, o))
BY DEF InUse, Uses, Whole, Send

\* The second command uses the PlugNode and its connection.
LEMMA UsedByContact ==
    ASSUME NEW n, NEW k, Alive(n), conns[k].isAlive
    PROVE  InUse(SendContact(n, k))
BY DEF InUse, Uses, Whole, SendContact

\* The payload of a line uses a stream, and finds it empty.
LEMMA UsedByPayload ==
    ASSUME NEW k, NEW line, conns[k].isAlive, conns[k].lines = <<>>
    PROVE  InUse(Payload(k, line))
BY DEF InUse, Uses, Whole, Payload

\* The receiver uses the stream, its own connection and itself.
LEMMA UsedByReceive ==
    ASSUME NEW k, NEW m, NEW j, conns[k].isAlive, conns[k].registered = <<m, j>>,
           conns[j].isAlive, Alive(m)
    PROVE  InUse(Receive(k))
BY DEF InUse, Uses, Whole, Receive

\* A connection that is owned exists.
LEMMA OwnedAlive ==
    ASSUME Sound, NEW n, NEW k, Owns(nodes, n, k)
    PROVE  conns[k].isAlive /\ Alive(n)
<1>1. PICK i : Has(nodes, n, i, k)
  BY DEF Owns
<1>2. conns[k].isAlive
  BY <1>1, OwnedFacts DEF Sound, Base
<1> QED  BY <1>1, <1>2 DEF Has, Lives, Alive

\* n owns k, and m, which owns j, listens to its stream.
Heard(n, k, m, j) == Owns(nodes, n, k) /\ Owns(nodes, m, j) /\ conns[k].registered = <<m, j>>

\* Writing a line uses the stream of k and the one that listens to it.
LEMMA UsedByTelling ==
    ASSUME Sound, NEW n, NEW k, NEW m, NEW j, Heard(n, k, m, j),
           NEW line, Telling(conns, todo, k, line)
    PROVE  InUse(Head(todo))
<1>1. conns[k].isAlive /\ conns[j].isAlive /\ Alive(m) /\ conns[k].registered = <<m, j>>
  BY OwnedAlive DEF Heard
<1>2. CASE Head(todo) = Payload(k, line) /\ conns[k].lines = <<>>
  BY <1>1, <1>2, UsedByPayload
<1>3. CASE Head(todo) = LineEnd(k, line)
  BY <1>1, <1>3, UsedByConn DEF LineEnd
<1>4. CASE Head(todo) = Receive(k)
  BY <1>1, <1>4, UsedByReceive
<1> QED  BY <1>2, <1>3, <1>4 DEF Telling

\* Sending a command uses a connection that is owned.
LEMMA UsedBySending ==
    ASSUME Sound, NEW n, NEW k, Owns(nodes, n, k), NEW command, Sending(conns, todo, k, command)
    PROVE  InUse(Head(todo))
<1>1. conns[k].isAlive /\ Head(todo) = Send(k, command, Null)
  BY OwnedAlive DEF Sending
<1> QED  BY <1>1, UsedBySend

\* The ends of a link in the making listen to each other.
LEMMA MakingHeard ==
    ASSUME NEW x, NEW k, NEW b, NEW p, NEW sk, NEW sp, NEW more,
           Making(nodes, conns, contact, x, k, b, p, sk, sp, more)
    PROVE  Heard(x, k, b, p) /\ Heard(b, p, x, k)
BY DEF Making, End, Listens, Heard

\* So do those of a link.
LEMMA LinkingHeard ==
    ASSUME NEW x, NEW k, NEW b, NEW p, Linking(nodes, conns, contact, x, k, b, p)
    PROVE  Heard(x, k, b, p)
BY DEF Linking, Link, End, Listens, Heard

\* The next call between two links.
LEMMA UsedAtRest ==
    ASSUME Sound, todo # <<>>, NEW b, AtRest(nodes, conns, contact, todo, b)
    PROVE  InUse(Head(todo))
<1>1. 1 \in DOMAIN todo /\ Head(todo) = todo[1]
  BY HeadTailProperties, LenProperties, EmptySeq DEF Sound, Typed
<1>2. PICK x, k : Owns(nodes, x, k) /\ todo[1] = SendContact(x, k)
  BY <1>1 DEF AtRest, Contacts, IsContactCall
<1> QED  BY <1>1, <1>2, OwnedAlive, UsedByContact

\* The next call is joinNetwork().
LEMMA UsedAtJoin ==
    ASSUME NEW a, NEW b, AtJoin(nodes, conns, contact, todo, a, b)
    PROVE  InUse(Head(todo))
BY DEF AtJoin, Lives, Alive, InUse, Uses, Whole

\* The next call while a link is made.
LEMMA UsedAtLink ==
    ASSUME Sound, NEW x, NEW b, NEW k, NEW p, LinkStage(nodes, conns, contact, todo, x, k, b, p)
    PROVE  InUse(Head(todo))
<1>1. CASE Opened(nodes, conns, contact, todo, x, k, b, p)
  <2>1. Owns(nodes, x, k) /\ Head(todo) = SwitchAccess(x)
    BY <1>1 DEF Opened, Making
  <2>2. Alive(x)
    BY <2>1, OwnedAlive
  <2> QED  BY <2>1, <2>2, UsedByAt DEF SwitchAccess
<1>2. CASE Checkin(nodes, conns, contact, todo, x, k, b, p)
  BY <1>2, MakingHeard, UsedBySending DEF Checkin, Heard
<1>3. CASE CheckinTold(nodes, conns, contact, todo, x, k, b, p)
  BY <1>3, MakingHeard, UsedByTelling DEF CheckinTold
<1>4. CASE Connect(nodes, conns, contact, todo, x, k, b, p)
  BY <1>4, MakingHeard, UsedBySending DEF Connect, Heard
<1>5. CASE ConnectTold(nodes, conns, contact, todo, x, k, b, p)
  BY <1>5, MakingHeard, UsedByTelling DEF ConnectTold
<1>6. CASE Confirm(nodes, conns, contact, todo, x, k, b, p)
  BY <1>6, MakingHeard, UsedBySending DEF Confirm, Heard
<1>7. CASE ConfirmTold(nodes, conns, contact, todo, x, k, b, p)
  BY <1>7, MakingHeard, UsedByTelling DEF ConfirmTold
<1>8. CASE Contact1(nodes, conns, contact, todo, x, k, b, p)
  <2>1. PICK o : Head(todo) = Send(k, "CONTACT", o) /\ (o # Null => Owns(nodes, x, o))
    BY <1>8 DEF Contact1
  <2>2. conns[k].isAlive
    BY <1>8, OwnedAlive DEF Contact1, Linking
  <2>3. o # Null => conns[o].isAlive
    BY <2>1, OwnedAlive
  <2> QED  BY <2>1, <2>2, <2>3, UsedBySend
<1>9. CASE ContactTold(nodes, conns, contact, todo, x, k, b, p)
  <2>1. Heard(x, k, b, p)
    BY <1>9, LinkingHeard DEF ContactTold
  <2>2. PICK line : Telling(conns, todo, k, line)
    BY <1>9 DEF ContactTold
  <2> QED  BY <2>1, <2>2, UsedByTelling
<1> QED  BY <1>1, <1>2, <1>3, <1>4, <1>5, <1>6, <1>7, <1>8, <1>9 DEF LinkStage

\* The next call of the destructors.
LEMMA UsedAtLeave ==
    ASSUME Sound, NEW n \in DOMAIN nodes, NEW done \in 0 .. 9,
           AtLeave(nodes, conns, contact, todo, n, done)
    PROVE  InUse(Head(todo))
<1>1. n \in Nat
  BY Objects DEF Sound
<1>2. Head(todo) = LeaveCall(n, done + 1)
  BY <1>1, LeaveCallsPop DEF AtLeave
<1>3. Alive(n)
  BY DEF AtLeave, Leaving, Lives, Alive
<1>4. PICK call : call = LeaveCall(n, done + 1)
  OBVIOUS
<1>5. call.call \in {"switch", "switched", "removeContact", "shutdown", "disconnect"} /\ call.at = n
  <2>1. done + 1 \in 1 .. 4 \/ done + 1 = 5 \/ done + 1 \in 6 .. 9 \/ done + 1 = 10
    OBVIOUS
  <2> QED  BY <1>4, <2>1 DEF LeaveCall, DisconnectPeer, RemoveContact, Shutdown
<1>6. InUse(call)
  BY <1>3, <1>5, UsedByAt
<1> QED  BY <1>2, <1>4, <1>6

\* The next call while a link is undone.
LEMMA UsedAtPart ==
    ASSUME Sound, NEW n, NEW m, NEW j, NEW k, NEW i \in Slot,
           PartStage(nodes, conns, contact, todo, n, j, m, k, i)
    PROVE  InUse(Head(todo))
<1>1. Owns(nodes, n, j) /\ Owns(nodes, m, k)
  BY DEF PartStage, Part, PartTold, Answer, AnswerTold, Answered, Silent, Unmaking, Owns
<1>2. conns[j].isAlive /\ conns[k].isAlive
  BY <1>1, OwnedAlive
<1>3. CASE Part(nodes, conns, contact, todo, n, j, m, k, i)
  BY <1>1, <1>3, UsedBySending DEF Part
<1>4. CASE PartTold(nodes, conns, contact, todo, n, j, m, k, i)
  BY <1>1, <1>4, UsedByTelling DEF PartTold, Listens, Heard
<1>5. CASE Answer(nodes, conns, contact, todo, n, j, m, k, i)
  BY <1>1, <1>5, UsedBySending DEF Answer
<1>6. CASE AnswerTold(nodes, conns, contact, todo, n, j, m, k, i)
  BY <1>1, <1>6, UsedByTelling DEF AnswerTold, Listens, Heard
<1>7. CASE Answered(nodes, conns, contact, todo, n, j, m, k, i)
  BY <1>2, <1>7, UsedByConn DEF Answered, AfterUnlink, Unlink
<1>8. CASE Silent(nodes, conns, contact, todo, n, j, m, k, i)
  BY <1>2, <1>8, UsedByConn DEF Silent, After, SetDisconnect
<1> QED  BY <1>3, <1>4, <1>5, <1>6, <1>7, <1>8 DEF PartStage

\* The next call at every stage.
LEMMA CallsInUse ==
    ASSUME Sound, todo # <<>>
    PROVE  InUse(Head(todo))
<1>1. Stage(nodes, conns, contact, todo)
  BY DEF Sound
<1> QED  BY <1>1, UsedAtRest, UsedAtJoin, UsedAtLink, UsedAtLeave, UsedAtPart DEF Stage

\* No call uses a deleted object or breaks a command.
LEMMA LivingWhenUncrowded ==
    ASSUME NetworkInv, Uncrowded
    PROVE  OnlyLivingUsed /\ CommandsStayWhole
<1>1. todo # <<>> => InUse(Head(todo))
  BY NetworkInvNow, CallsInUse
<1>2. OnlyLivingUsed
  BY <1>1 DEF InUse, Uses, OnlyLivingUsed, Quiet, Call, Own, Receiver
<1>3. CommandsStayWhole
  BY <1>1 DEF InUse, Whole, CommandsStayWhole, Calls, Call
<1> QED  BY <1>2, <1>3

\* Until then no call runs on, sends to or reads from an object that has been
\* deleted, however deep the calls nest.
THEOREM OnlyLivingAlwaysUsed == Spec => [](Uncrowded => OnlyLivingUsed)
<1>1. NetworkInv => (Uncrowded => OnlyLivingUsed)
  BY LivingWhenUncrowded
<1> QED
  BY <1>1, NetworkInvInductive, PTL

\* Until then the payload of a command finds an empty stream, so it never runs the
\* receiver before its delimiter is written (CmStream.cpp:164-182).
THEOREM CommandsAlwaysWhole == Spec => [](Uncrowded => CommandsStayWhole)
<1>1. NetworkInv => (Uncrowded => CommandsStayWhole)
  BY LivingWhenUncrowded
<1> QED
  BY <1>1, NetworkInvInductive, PTL

-----------------------------------------------------------------------------
(* Types, however many PlugNodes there are                                 *)

IDs == Slot \cup {Null}

\* Another value in one member of a connection.
LEMMA MemberTyped ==
    ASSUME NEW N, NEW C, NEW r \in ConnOf(N, C)
    PROVE  /\ \A v \in Pointer(N) : [r EXCEPT !.peer = v] \in ConnOf(N, C)
           /\ \A v \in Pointer(N) : [r EXCEPT !.receiver = v] \in ConnOf(N, C)
           /\ \A v \in Pointer(C) : [r EXCEPT !.rxInfo = v] \in ConnOf(N, C)
           /\ \A v \in IDs : [r EXCEPT !.connectionID = v] \in ConnOf(N, C)
           /\ \A v \in State : [r EXCEPT !.state = v] \in ConnOf(N, C)
           /\ \A v \in Listener(N, C) : [r EXCEPT !.registered = v] \in ConnOf(N, C)
           /\ \A v \in Seq(LineOf(N)) : [r EXCEPT !.lines = v] \in ConnOf(N, C)
           /\ [r EXCEPT !.isAlive = FALSE] \in ConnOf(N, C)
<1>1. \A v \in Pointer(N) : [r EXCEPT !.peer = v] \in ConnOf(N, C)
  BY DEF ConnOf
<1>2. \A v \in Pointer(N) : [r EXCEPT !.receiver = v] \in ConnOf(N, C)
  BY DEF ConnOf
<1>3. \A v \in Pointer(C) : [r EXCEPT !.rxInfo = v] \in ConnOf(N, C)
  BY DEF ConnOf
<1>4. \A v \in IDs : [r EXCEPT !.connectionID = v] \in ConnOf(N, C)
  BY DEF ConnOf, IDs
<1>5. \A v \in State : [r EXCEPT !.state = v] \in ConnOf(N, C)
  BY DEF ConnOf
<1>6. \A v \in Listener(N, C) : [r EXCEPT !.registered = v] \in ConnOf(N, C)
  BY DEF ConnOf
<1>7. \A v \in Seq(LineOf(N)) : [r EXCEPT !.lines = v] \in ConnOf(N, C)
  BY DEF ConnOf
<1>8. [r EXCEPT !.isAlive = FALSE] \in ConnOf(N, C)
  BY DEF ConnOf
<1> QED  BY <1>1, <1>2, <1>3, <1>4, <1>5, <1>6, <1>7, <1>8

\* What the members of a connection are.
LEMMA ConnMembers ==
    ASSUME NEW N, NEW C, NEW cs \in ConnsOf(N, C), NEW k \in Object(C)
    PROVE  /\ cs[k] \in ConnOf(N, C)
           /\ cs[k].peer \in Pointer(N) /\ cs[k].receiver \in Pointer(N) /\ cs[k].rxInfo \in Pointer(C)
           /\ cs[k].registered \in Listener(N, C) /\ cs[k].lines \in Seq(LineOf(N))
<1>1. cs[k] \in ConnOf(N, C)
  BY DEF ConnsOf
<1> QED  BY <1>1 DEF ConnOf

\* Another value in one member of one connection.
LEMMA ConnsTyped ==
    ASSUME NEW N, NEW C, NEW cs \in ConnsOf(N, C), NEW k \in Object(C)
    PROVE  /\ \A v \in Pointer(N) : SetPeer(cs, k, v) \in ConnsOf(N, C)
           /\ \A v \in Pointer(N) : SetReceiver(cs, k, v) \in ConnsOf(N, C)
           /\ \A v \in Pointer(C) : SetRx(cs, k, v) \in ConnsOf(N, C)
           /\ \A v \in IDs : SetID(cs, k, v) \in ConnsOf(N, C)
           /\ \A v \in State : SetState(cs, k, v) \in ConnsOf(N, C)
           /\ \A v \in Listener(N, C) : SetRegistered(cs, k, v) \in ConnsOf(N, C)
           /\ \A v \in Seq(LineOf(N)) : [cs EXCEPT ![k].lines = v] \in ConnsOf(N, C)
<1>0. cs[k] \in ConnOf(N, C)
  BY ConnMembers
<1>1. \A r \in ConnOf(N, C) : [cs EXCEPT ![k] = r] \in ConnsOf(N, C)
  BY DEF ConnsOf
<1>2. ASSUME NEW v \in Pointer(N)
      PROVE  SetPeer(cs, k, v) \in ConnsOf(N, C) /\ SetReceiver(cs, k, v) \in ConnsOf(N, C)
  BY <1>0, <1>1, MemberTyped DEF SetPeer, SetReceiver
<1>3. ASSUME NEW v \in Pointer(C)
      PROVE  SetRx(cs, k, v) \in ConnsOf(N, C)
  BY <1>0, <1>1, MemberTyped DEF SetRx
<1>4. ASSUME NEW v \in IDs
      PROVE  SetID(cs, k, v) \in ConnsOf(N, C)
  BY <1>0, <1>1, MemberTyped DEF SetID
<1>5. ASSUME NEW v \in State
      PROVE  SetState(cs, k, v) \in ConnsOf(N, C)
  BY <1>0, <1>1, MemberTyped DEF SetState
<1>6. ASSUME NEW v \in Listener(N, C)
      PROVE  SetRegistered(cs, k, v) \in ConnsOf(N, C)
  BY <1>0, <1>1, MemberTyped DEF SetRegistered
<1>7. ASSUME NEW v \in Seq(LineOf(N))
      PROVE  [cs EXCEPT ![k].lines = v] \in ConnsOf(N, C)
  BY <1>0, <1>1, MemberTyped
<1> QED  BY <1>2, <1>3, <1>4, <1>5, <1>6, <1>7

\* openConnection() keeps the types.
LEMMA LinkedTyped ==
    ASSUME NEW N, NEW C, NEW cs \in ConnsOf(N, C), NEW k \in Object(C), NEW p \in Object(C),
           NEW peer \in Pointer(N)
    PROVE  Linked(cs, k, p, peer) \in ConnsOf(N, C)
<1>0. k \in Pointer(C) /\ p \in Pointer(C)
  BY DEF Pointer
<1>1. SetPeer(cs, k, peer) \in ConnsOf(N, C)
  BY ConnsTyped
<1>2. SetRx(SetPeer(cs, k, peer), k, p) \in ConnsOf(N, C)
  BY <1>0, <1>1, ConnsTyped
<1>3. SetRx(SetRx(SetPeer(cs, k, peer), k, p), p, k) \in ConnsOf(N, C)
  BY <1>0, <1>2, ConnsTyped
<1>4. /\ cs[k].rxInfo # Null => Linked(cs, k, p, peer) = SetPeer(cs, k, peer)
      /\ cs[k].rxInfo = Null =>
            Linked(cs, k, p, peer) = SetRx(SetRx(SetPeer(cs, k, peer), k, p), p, k)
  BY DEF Linked, SetPeer, SetRx
<1> QED  BY <1>1, <1>3, <1>4

\* registerCommunicationReceiver() keeps the types.
LEMMA RegisteredTyped ==
    ASSUME NEW N, NEW C, NEW cs \in ConnsOf(N, C), NEW k \in Object(C), NEW n \in Object(N), NEW i \in Slot
    PROVE  Registered(cs, k, n, i) \in ConnsOf(N, C)
<1> SUFFICES ASSUME MayRegister(cs, k, i)
             PROVE  Registered(cs, k, n, i) \in ConnsOf(N, C)
  BY DEF Registered
<1>0. n \in Pointer(N) /\ i \in IDs /\ <<n, k>> \in Listener(N, C)
  BY DEF Pointer, IDs, Listener
<1>1. PICK rx : rx = cs[k].rxInfo
  OBVIOUS
<1>2. rx \in Object(C)
  <2>1. cs[k].rxInfo \in Pointer(C)
    BY ConnMembers
  <2> QED  BY <1>1, <2>1 DEF MayRegister, Pointer
<1>3. SetID(cs, k, i) \in ConnsOf(N, C)
  BY <1>0, ConnsTyped
<1>4. SetReceiver(SetID(cs, k, i), k, n) \in ConnsOf(N, C)
  BY <1>0, <1>3, ConnsTyped
<1>5. SetRegistered(SetReceiver(SetID(cs, k, i), k, n), rx, <<n, k>>) \in ConnsOf(N, C)
  BY <1>0, <1>2, <1>4, ConnsTyped
<1>6. Registered(cs, k, n, i) = SetRegistered(SetReceiver(SetID(cs, k, i), k, n), rx, <<n, k>>)
  BY <1>1 DEF Registered, SetID, SetReceiver, SetRegistered
<1> QED  BY <1>5, <1>6

\* So do switchToIdle() and disconnect().
LEMMA UnlinkedTyped ==
    ASSUME NEW N, NEW C, NEW cs \in ConnsOf(N, C), NEW k \in Object(C)
    PROVE  Unlinked(cs, k) \in ConnsOf(N, C) /\ Disconnected(cs, k) \in ConnsOf(N, C)
<1>0. /\ Null \in Pointer(N) /\ Null \in Pointer(C) /\ <<Null, Null>> \in Listener(N, C)
      /\ "IDLE" \in State
  BY DEF Pointer, Listener, State
<1>1. PICK rx : rx = cs[k].rxInfo
  OBVIOUS
<1>2. rx \in Pointer(C)
  BY <1>1, ConnMembers
<1>3. CASE rx = Null
  <2>1. Unlinked(cs, k) = SetState(cs, k, "IDLE")
    BY <1>1, <1>3 DEF Unlinked, SetState
  <2>2. Unlinked(cs, k) \in ConnsOf(N, C)
    BY <1>0, <2>1, ConnsTyped
  <2>3. SetPeer(Unlinked(cs, k), k, Null) \in ConnsOf(N, C)
    BY <1>0, <2>2, ConnsTyped
  <2> QED  BY <2>2, <2>3 DEF Disconnected, SetPeer
<1>4. CASE rx # Null
  <2>0. rx \in Object(C)
    BY <1>2, <1>4 DEF Pointer
  <2>1. PICK silent : silent = IF cs[rx].registered = <<cs[k].receiver, k>>
                               THEN SetRegistered(cs, rx, <<Null, Null>>) ELSE cs
    OBVIOUS
  <2>2. silent \in ConnsOf(N, C)
    BY <1>0, <2>0, <2>1, ConnsTyped
  <2>3. SetState(silent, k, "IDLE") \in ConnsOf(N, C)
    BY <1>0, <2>2, ConnsTyped
  <2>4. SetRx(SetState(silent, k, "IDLE"), k, Null) \in ConnsOf(N, C)
    BY <1>0, <2>3, ConnsTyped
  <2>5. SetReceiver(SetRx(SetState(silent, k, "IDLE"), k, Null), k, Null) \in ConnsOf(N, C)
    BY <1>0, <2>4, ConnsTyped
  <2>6. Unlinked(cs, k) = SetReceiver(SetRx(SetState(silent, k, "IDLE"), k, Null), k, Null)
    BY <1>1, <1>4, <2>1 DEF Unlinked, SetState, SetRx, SetReceiver, SetRegistered
  <2>7. Unlinked(cs, k) \in ConnsOf(N, C)
    BY <2>5, <2>6
  <2>8. SetPeer(Unlinked(cs, k), k, Null) \in ConnsOf(N, C)
    BY <1>0, <2>7, ConnsTyped
  <2> QED  BY <2>7, <2>8 DEF Disconnected, SetPeer
<1> QED  BY <1>3, <1>4

\* The list of connections to delete keeps its type.
LEMMA RemainingTyped ==
    ASSUME NEW C, NEW list \in Seq(Object(C))
    PROVE  Remaining(list) \in Seq(Object(C))
BY KeptFacts DEF Remaining

\* Deleting connections keeps the types.
LEMMA DeletedTyped ==
    ASSUME NEW N, NEW C, conns \in ConnsOf(N, C), NEW ks
    PROVE  Deleted(ks) \in ConnsOf(N, C)
<1>1. DOMAIN conns = Object(C) /\ \A k \in Object(C) : conns[k] \in ConnOf(N, C)
  BY DEF ConnsOf
<1>2. \A k \in Object(C) :
         (IF k \in ks THEN [conns[k] EXCEPT !.isAlive = FALSE] ELSE conns[k]) \in ConnOf(N, C)
  BY <1>1, MemberTyped
<1> QED  BY <1>1, <1>2 DEF Deleted, ConnsOf

\* More objects make the types wider.
LEMMA TypesGrow ==
    ASSUME NEW N \in Nat, NEW M \in Nat, N <= M, NEW C \in Nat, NEW D \in Nat, C <= D
    PROVE  /\ Object(N) \subseteq Object(M) /\ Pointer(N) \subseteq Pointer(M)
           /\ Object(C) \subseteq Object(D) /\ Pointer(C) \subseteq Pointer(D)
           /\ NodeOf(C) \subseteq NodeOf(D) /\ LineOf(N) \subseteq LineOf(M)
           /\ ConnOf(N, C) \subseteq ConnOf(M, D) /\ CallOf(N, C) \subseteq CallOf(M, D)
<1>1. Object(N) \subseteq Object(M) /\ Object(C) \subseteq Object(D)
  BY DEF Object
<1>2. Pointer(N) \subseteq Pointer(M) /\ Pointer(C) \subseteq Pointer(D)
  BY <1>1 DEF Pointer
<1>3. Listener(N, C) \subseteq Listener(M, D)
  BY <1>1 DEF Listener
<1>4. LineOf(N) \subseteq LineOf(M)
  BY <1>2 DEF LineOf
<1>5. Seq(LineOf(N)) \subseteq Seq(LineOf(M))
  BY <1>4
<1>6. NodeOf(C) \subseteq NodeOf(D)
  BY <1>2 DEF NodeOf
<1>7. ConnOf(N, C) \subseteq ConnOf(M, D)
  BY <1>2, <1>3, <1>5 DEF ConnOf
<1>8. CallOf(N, C) \subseteq CallOf(M, D)
  <2>1. /\ [call : {"join"}, at : Object(N), for : Object(N), id : Nat]
              \subseteq [call : {"join"}, at : Object(M), for : Object(M), id : Nat]
        /\ [call : {"switch", "switched", "removeContact", "shutdown"}, at : Object(N)]
              \subseteq [call : {"switch", "switched", "removeContact", "shutdown"}, at : Object(M)]
        /\ [call : {"contact"}, at : Object(N), conn : Object(C)]
              \subseteq [call : {"contact"}, at : Object(M), conn : Object(D)]
        /\ [call : {"disconnect"}, at : Object(N), slot : Slot]
              \subseteq [call : {"disconnect"}, at : Object(M), slot : Slot]
    BY <1>1
  <2>2. /\ [call : {"send"}, conn : Object(C), command : Command, other : Pointer(C)]
              \subseteq [call : {"send"}, conn : Object(D), command : Command, other : Pointer(D)]
        /\ [call : {"payload", "line"}, conn : Object(C), line : LineOf(N)]
              \subseteq [call : {"payload", "line"}, conn : Object(D), line : LineOf(M)]
        /\ [call : {"unlink", "setState"}, conn : Object(C)]
              \subseteq [call : {"unlink", "setState"}, conn : Object(D)]
    BY <1>1, <1>2, <1>4
  <2> QED  BY <2>1, <2>2 DEF CallOf
<1> QED  BY <1>1, <1>2, <1>4, <1>6, <1>7, <1>8

\* Every constructor of a call but Receive() makes one.
LEMMA CallsOf ==
    ASSUME NEW N, NEW C
    PROVE  /\ \A a, b \in Object(N), id \in Nat : Join(a, b, id) \in CallOf(N, C)
           /\ \A a \in Object(N) :
                 /\ SwitchAccess(a) \in CallOf(N, C) /\ Switched(a) \in CallOf(N, C)
                 /\ RemoveContact(a) \in CallOf(N, C) /\ Shutdown(a) \in CallOf(N, C)
           /\ \A k \in Object(C), command \in Command, o \in Pointer(C) :
                 Send(k, command, o) \in CallOf(N, C)
           /\ \A a \in Object(N), k \in Object(C) : SendContact(a, k) \in CallOf(N, C)
           /\ \A k \in Object(C), line \in LineOf(N) :
                 Payload(k, line) \in CallOf(N, C) /\ LineEnd(k, line) \in CallOf(N, C)
           /\ \A k \in Object(C) : Unlink(k) \in CallOf(N, C) /\ SetDisconnect(k) \in CallOf(N, C)
           /\ \A a \in Object(N), i \in Slot : DisconnectPeer(a, i) \in CallOf(N, C)
BY DEF CallOf, Join, SwitchAccess, Switched, RemoveContact, Shutdown, Send, SendContact, Payload,
       LineEnd, Unlink, SetDisconnect, DisconnectPeer

\* What a call names.
LEMMA CallMembers ==
    ASSUME NEW N, NEW C, NEW c \in CallOf(N, C)
    PROVE  /\ c.call # "receive"
           /\ c.call = "join" => c.at \in Object(N) /\ c.for \in Object(N) /\ c.id \in Nat
           /\ c.call \in {"switch", "switched", "removeContact", "shutdown"} => c.at \in Object(N)
           /\ c.call = "send" => c.conn \in Object(C) /\ c.command \in Command /\ c.other \in Pointer(C)
           /\ c.call = "contact" => c.at \in Object(N) /\ c.conn \in Object(C)
           /\ c.call \in {"payload", "line"} => c.conn \in Object(C) /\ c.line \in LineOf(N)
           /\ c.call \in {"unlink", "setState"} => c.conn \in Object(C)
           /\ c.call = "disconnect" => c.at \in Object(N) /\ c.slot \in Slot
BY DEF CallOf

\* The call that runs, and the calls behind it.
LEMMA CallsNow ==
    ASSUME NEW N, NEW C, CallsTyped(N, C, conns, todo), todo # <<>>
    PROVE  /\ Tail(todo) \in Seq(CallOf(N, C))
           /\ Call.call # "receive" => Call \in CallOf(N, C)
           /\ Call.call = "receive" => Call.conn \in Object(C) /\ HasLine(conns[Call.conn])
<1>1. CASE todo \in Seq(CallOf(N, C))
  <2>1. Head(todo) \in CallOf(N, C) /\ Tail(todo) \in Seq(CallOf(N, C))
    BY <1>1, HeadTailProperties
  <2>2. Head(todo).call # "receive"
    BY <2>1, CallMembers
  <2> QED  BY <2>1, <2>2 DEF Call
<1>2. CASE ~(todo \in Seq(CallOf(N, C)))
  <2>1. /\ Tail(todo) \in Seq(CallOf(N, C))
        /\ \E k \in Object(C) : Head(todo) = Receive(k) /\ HasLine(conns[k])
    BY <1>2 DEF CallsTyped
  <2>2. PICK k \in Object(C) : Head(todo) = Receive(k) /\ HasLine(conns[k])
    BY <2>1
  <2>3. Head(todo).call = "receive" /\ Head(todo).conn = k
    BY <2>2 DEF Receive
  <2> QED  BY <2>1, <2>2, <2>3 DEF Call
<1> QED  BY <1>1, <1>2

\* The calls that remain when the one that runs ends with other calls.
LEMMA ThenTyped ==
    ASSUME NEW N, NEW C, Tail(todo) \in Seq(CallOf(N, C)), NEW calls \in Seq(CallOf(N, C)), Then(calls)
    PROVE  todo' \in Seq(CallOf(N, C))
BY AppendLists DEF Then

\* When it ends with the call of a receiver.
LEMMA ThenReceive ==
    ASSUME NEW N, NEW C, Tail(todo) \in Seq(CallOf(N, C)), NEW k \in Object(C), Then(<<Receive(k)>>),
           HasLine(conns'[k])
    PROVE  CallsTyped(N, C, conns', todo')
<1>1. PICK s, x : s = Tail(todo) /\ x = Receive(k)
  OBVIOUS
<1>2. s \in Seq(CallOf(N, C)) /\ todo' = <<x>> \o s
  BY <1>1 DEF Then
<1>3. todo' # <<>> /\ Head(todo') = x /\ Tail(todo') = s
  <2>1. PICK S : S = CallOf(N, C) \cup {x}
    OBVIOUS
  <2>2. s \in Seq(S) /\ <<x>> \in Seq(S) /\ Len(<<x>>) = 1 /\ <<x>>[1] = x
    BY <1>2, <2>1
  <2>3. /\ <<x>> \o s \in Seq(S) /\ Len(<<x>> \o s) = 1 + Len(s)
        /\ \A i \in 1 .. 1 + Len(s) : (<<x>> \o s)[i] = IF i <= 1 THEN x ELSE s[i - 1]
    BY <2>2, ConcatProperties
  <2> PICK t : t = <<x>> \o s
    OBVIOUS
  <2>4. /\ t \in Seq(S) /\ Len(t) = 1 + Len(s) /\ Len(s) \in Nat
        /\ \A i \in 1 .. 1 + Len(s) : t[i] = IF i <= 1 THEN x ELSE s[i - 1]
    BY <2>2, <2>3, LenProperties
  <2>5. t # <<>> /\ t[1] = x
    BY <2>4
  <2>6. Head(t) = x
    BY <2>4, <2>5, HeadTailProperties
  <2>7. /\ Tail(t) \in Seq(S) /\ Len(Tail(t)) = Len(s) /\ \A i \in 1 .. Len(s) : Tail(t)[i] = t[i + 1]
    BY <2>4, <2>5, HeadTailProperties
  <2>8. \A i \in 1 .. Len(s) : Tail(t)[i] = s[i]
    BY <2>4, <2>7
  <2>9. Tail(t) = s
    BY <2>2, <2>7, <2>8, SeqEqual
  <2> QED  BY <1>2, <2>5, <2>6, <2>9
<1> QED  BY <1>1, <1>2, <1>3 DEF CallsTyped

\* What the members of a PlugNode are, and another value in one of them.
LEMMA NodesTyped ==
    ASSUME NEW N, NEW C, NEW ns \in NodesOf(N, C), NEW n \in Object(N)
    PROVE  /\ ns[n] \in NodeOf(C)
           /\ ns[n].contactID \in Nat /\ ns[n].peers \in Count /\ ns[n].connectionSwitch \in Pointer(C)
           /\ \A i \in Slot : ns[n].connection[i] \in Pointer(C)
           /\ \A v \in Count : WithPeers(ns, n, v) \in NodesOf(N, C)
           /\ \A id \in Nat : WithContactID(ns, n, id) \in NodesOf(N, C)
           /\ \A v \in Pointer(C) : [ns EXCEPT ![n].connectionSwitch = v] \in NodesOf(N, C)
           /\ \A i \in Slot, v \in Pointer(C) : [ns EXCEPT ![n].connection[i] = v] \in NodesOf(N, C)
           /\ [ns EXCEPT ![n].isAlive = FALSE] \in NodesOf(N, C)
<1>0. ns[n] \in NodeOf(C)
  BY DEF NodesOf
<1>1. \A r \in NodeOf(C) : [ns EXCEPT ![n] = r] \in NodesOf(N, C)
  BY DEF NodesOf
<1>2. /\ ns[n].contactID \in Nat /\ ns[n].peers \in Count /\ ns[n].connectionSwitch \in Pointer(C)
      /\ \A i \in Slot : ns[n].connection[i] \in Pointer(C)
  BY <1>0 DEF NodeOf, Count
<1>3. ASSUME NEW v \in Count
      PROVE  WithPeers(ns, n, v) \in NodesOf(N, C)
  <2>1. [ns[n] EXCEPT !.peers = v] \in NodeOf(C)
    BY <1>0 DEF NodeOf, Count
  <2> QED  BY <1>1, <2>1 DEF WithPeers
<1>4. ASSUME NEW id \in Nat
      PROVE  WithContactID(ns, n, id) \in NodesOf(N, C)
  <2>1. [ns[n] EXCEPT !.contactID = id] \in NodeOf(C)
    BY <1>0 DEF NodeOf
  <2> QED  BY <1>1, <2>1 DEF WithContactID
<1>5. ASSUME NEW v \in Pointer(C)
      PROVE  [ns EXCEPT ![n].connectionSwitch = v] \in NodesOf(N, C)
  <2>1. [ns[n] EXCEPT !.connectionSwitch = v] \in NodeOf(C)
    BY <1>0 DEF NodeOf
  <2> QED  BY <1>1, <2>1
<1>6. ASSUME NEW i \in Slot, NEW v \in Pointer(C)
      PROVE  [ns EXCEPT ![n].connection[i] = v] \in NodesOf(N, C)
  <2>1. [ns[n] EXCEPT !.connection[i] = v] \in NodeOf(C)
    BY <1>0 DEF NodeOf
  <2> QED  BY <1>1, <2>1
<1>7. [ns EXCEPT ![n].isAlive = FALSE] \in NodesOf(N, C)
  <2>1. [ns[n] EXCEPT !.isAlive = FALSE] \in NodeOf(C)
    BY <1>0 DEF NodeOf
  <2> QED  BY <1>1, <2>1
<1> QED  BY <1>0, <1>2, <1>3, <1>4, <1>5, <1>6, <1>7

\* One count more or less stays a count.
LEMMA CountsTyped ==
    ASSUME NEW N, NEW C, nodes \in NodesOf(N, C), Receiver \in Object(N)
    PROVE  IncrementPeers \/ DecrementPeers => nodes' \in NodesOf(N, C)
<1>1. PICK w : w = Receiver
  OBVIOUS
<1>2. w \in Object(N) /\ nodes[w].peers \in Count
  BY <1>1, NodesTyped
<1>3. PICK u, d : /\ u = IF nodes[w].peers = 4 THEN 4 ELSE nodes[w].peers + 1
                  /\ d = IF nodes[w].peers = 0 THEN 0 ELSE nodes[w].peers - 1
  OBVIOUS
<1>4. u \in Count /\ d \in Count
  BY <1>2, <1>3 DEF Count
<1>5. WithPeers(nodes, w, u) \in NodesOf(N, C) /\ WithPeers(nodes, w, d) \in NodesOf(N, C)
  BY <1>2, <1>4, NodesTyped
<1>6. IncrementPeers => nodes' = WithPeers(nodes, w, u)
  BY <1>1, <1>3 DEF IncrementPeers, WithPeers
<1>7. DecrementPeers => nodes' = WithPeers(nodes, w, d)
  BY <1>1, <1>3 DEF DecrementPeers, WithPeers
<1> QED  BY <1>5, <1>6, <1>7

\* All that is to be shown of a step that creates no object.
LEMMA TypedAfter ==
    ASSUME NEW N, NEW C, NetworkTyped(N, C), todo # <<>>,
           nodes' \in NodesOf(N, C), conns' \in ConnsOf(N, C),
           contact' \in {Null, contact}, localContactID' \in {0, localContactID},
           shutDown' \in Seq(Object(C)), NEW calls \in Seq(CallOf(N, C)), Then(calls)
    PROVE  NetworkTyped(N, C)'
<1>1. Tail(todo) \in Seq(CallOf(N, C))
  BY CallsNow DEF NetworkTyped
<1>2. todo' \in Seq(CallOf(N, C))
  BY <1>1, ThenTyped
<1>3. contact' \in Pointer(N) /\ localContactID' \in Nat
  BY DEF NetworkTyped, Pointer
<1> QED  BY <1>2, <1>3 DEF NetworkTyped, CallsTyped

\* No calls, one, or two.
LEMMA FewCalls ==
    ASSUME NEW N, NEW C
    PROVE  /\ <<>> \in Seq(CallOf(N, C))
           /\ \A a \in CallOf(N, C) : <<a>> \in Seq(CallOf(N, C))
           /\ \A a, b \in CallOf(N, C) : <<a, b>> \in Seq(CallOf(N, C))
OBVIOUS

\* What the innermost call names, by its kind.
LEMMA CallNow ==
    ASSUME NEW N, NEW C, NetworkTyped(N, C)
    PROVE  /\ Calls("join") => Call.at \in Object(N) /\ Call.for \in Object(N) /\ Call.id \in Nat
           /\ Calls("switch") \/ Calls("switched") \/ Calls("removeContact") \/ Calls("shutdown")
                 => Call.at \in Object(N)
           /\ Calls("send") =>
                 Call.conn \in Object(C) /\ Call.command \in Command /\ Call.other \in Pointer(C)
           /\ Calls("contact") => Call.at \in Object(N) /\ Call.conn \in Object(C)
           /\ Calls("payload") \/ Calls("line") => Call.conn \in Object(C) /\ Call.line \in LineOf(N)
           /\ Calls("unlink") \/ Calls("setState") => Call.conn \in Object(C)
           /\ Calls("disconnect") => Call.at \in Object(N) /\ Call.slot \in Slot
           /\ Calls("receive") => Call.conn \in Object(C) /\ HasLine(conns[Call.conn])
<1> SUFFICES ASSUME todo # <<>>
             PROVE  /\ Call.call = "join" =>
                          Call.at \in Object(N) /\ Call.for \in Object(N) /\ Call.id \in Nat
                    /\ Call.call \in {"switch", "switched", "removeContact", "shutdown"}
                          => Call.at \in Object(N)
                    /\ Call.call = "send" =>
                          Call.conn \in Object(C) /\ Call.command \in Command /\ Call.other \in Pointer(C)
                    /\ Call.call = "contact" => Call.at \in Object(N) /\ Call.conn \in Object(C)
                    /\ Call.call \in {"payload", "line"} => Call.conn \in Object(C) /\ Call.line \in LineOf(N)
                    /\ Call.call \in {"unlink", "setState"} => Call.conn \in Object(C)
                    /\ Call.call = "disconnect" => Call.at \in Object(N) /\ Call.slot \in Slot
                    /\ Call.call = "receive" => Call.conn \in Object(C) /\ HasLine(conns[Call.conn])
  BY DEF Calls, Call
<1>1. /\ Call.call # "receive" => Call \in CallOf(N, C)
      /\ Call.call = "receive" => Call.conn \in Object(C) /\ HasLine(conns[Call.conn])
  BY CallsNow DEF NetworkTyped
<1>2. PICK c : c = Call
  OBVIOUS
<1>3. CASE c.call = "receive"
  BY <1>1, <1>2, <1>3
<1>4. CASE c \in CallOf(N, C)
  BY <1>2, <1>4, CallMembers
<1> QED  BY <1>1, <1>2, <1>3, <1>4

\* switchServiceAccess() up to the SWITCH.
LEMMA SwitchTyped ==
    ASSUME NEW N, NEW C, NetworkTyped(N, C), SwitchServiceAccess
    PROVE  NetworkTyped(N, C)'
<1>1. /\ nodes \in NodesOf(N, C) /\ conns \in ConnsOf(N, C) /\ shutDown \in Seq(Object(C))
      /\ Calls("switch") /\ todo # <<>>
  BY DEF NetworkTyped, SwitchServiceAccess, Calls
<1>2. PICK a, s, k : /\ a = Call.at /\ s = nodes[a].connectionSwitch /\ k = nodes[a].connection[4]
  OBVIOUS
<1>3. a \in Object(N)
  BY <1>1, <1>2, CallNow
<1>4. s \in Pointer(C) /\ k \in Pointer(C)
  <2>1. 4 \in Slot
    BY DEF Slot
  <2> QED  BY <1>1, <1>2, <1>3, <2>1, NodesTyped
<1>5. /\ UNCHANGED <<nodes, conns, contact, localContactID, shutDown>>
      /\ \/ Then(<<>>)
         \/ s # Null /\ Then(<<Send(s, "SWITCH", k), Switched(a)>>)
  BY <1>2 DEF SwitchServiceAccess
<1>6. CASE Then(<<>>)
  BY <1>1, <1>5, <1>6, FewCalls, TypedAfter
<1>7. CASE s # Null /\ Then(<<Send(s, "SWITCH", k), Switched(a)>>)
  <2>1. "SWITCH" \in Command /\ s \in Object(C)
    BY <1>4, <1>7 DEF Command, Pointer
  <2>2. Send(s, "SWITCH", k) \in CallOf(N, C) /\ Switched(a) \in CallOf(N, C)
    BY <1>3, <1>4, <2>1, CallsOf
  <2>3. <<Send(s, "SWITCH", k), Switched(a)>> \in Seq(CallOf(N, C))
    BY <2>2, FewCalls
  <2> QED  BY <1>1, <1>5, <1>7, <2>3, TypedAfter
<1> QED  BY <1>5, <1>6, <1>7

\* The rest of it.
LEMMA SwitchedTyped ==
    ASSUME NEW N, NEW C, NetworkTyped(N, C), SwitchDone
    PROVE  NetworkTyped(N, C)'
<1>1. /\ nodes \in NodesOf(N, C) /\ conns \in ConnsOf(N, C) /\ shutDown \in Seq(Object(C))
      /\ Calls("switched") /\ todo # <<>>
  BY DEF NetworkTyped, SwitchDone, Calls
<1>2. PICK a, old, list : /\ a = Call.at /\ old = nodes[a].connectionSwitch
                          /\ list = IF old = Null THEN <<>> ELSE <<old>> \o shutDown
  OBVIOUS
<1>3. a \in Object(N)
  BY <1>1, <1>2, CallNow
<1>4. old \in Pointer(C)
  BY <1>1, <1>2, <1>3, NodesTyped
<1>5. list \in Seq(Object(C))
  <2>1. CASE old = Null
    BY <1>2, <2>1
  <2>2. CASE old # Null
    <3>1. old \in Object(C)
      BY <1>4, <2>2 DEF Pointer
    <3>2. <<old>> \in Seq(Object(C))
      BY <3>1
    <3>3. <<old>> \o shutDown \in Seq(Object(C))
      BY <1>1, <3>2, AppendLists
    <3> QED  BY <1>2, <2>2, <3>3
  <2> QED  BY <2>1, <2>2
<1>6. /\ shutDown' = Remaining(list) /\ conns' = Deleted({k \in Members(list) : IsIdle(k)})
      /\ nodes' = [nodes EXCEPT ![a].connectionSwitch = Null]
      /\ Then(<<>>) /\ UNCHANGED <<contact, localContactID>>
  BY <1>2 DEF SwitchDone
<1>7. shutDown' \in Seq(Object(C)) /\ conns' \in ConnsOf(N, C)
  BY <1>1, <1>5, <1>6, RemainingTyped, DeletedTyped
<1>8. nodes' \in NodesOf(N, C)
  <2>1. Null \in Pointer(C)
    BY DEF Pointer
  <2> QED  BY <1>1, <1>3, <1>6, <2>1, NodesTyped
<1> QED  BY <1>1, <1>6, <1>7, <1>8, FewCalls, TypedAfter

\* sendCommand()
LEMMA SendTyped ==
    ASSUME NEW N, NEW C, NetworkTyped(N, C), SendCommand
    PROVE  NetworkTyped(N, C)'
<1>1. /\ nodes \in NodesOf(N, C) /\ conns \in ConnsOf(N, C) /\ shutDown \in Seq(Object(C))
      /\ Calls("send") /\ todo # <<>>
  BY DEF NetworkTyped, SendCommand, Calls
<1>2. PICK k, command, o, line :
        /\ k = Call.conn /\ command = Call.command /\ o = Call.other
        /\ line = [command |-> Call.command,
                   address |-> IF Call.other = Null THEN Null ELSE conns[Call.other].peer]
  OBVIOUS
<1>3. k \in Object(C) /\ command \in Command /\ o \in Pointer(C)
  BY <1>1, <1>2, CallNow
<1>4. line \in LineOf(N)
  <2>1. PICK address : address = IF o = Null THEN Null ELSE conns[o].peer
    OBVIOUS
  <2>2. address \in Pointer(N)
    <3>1. CASE o = Null
      BY <2>1, <3>1 DEF Pointer
    <3>2. CASE o # Null
      <4>1. o \in Object(C)
        BY <1>3, <3>2 DEF Pointer
      <4> QED  BY <1>1, <2>1, <3>2, <4>1, ConnMembers
    <3> QED  BY <3>1, <3>2
  <2>3. line = [command |-> command, address |-> address]
    BY <1>2, <2>1
  <2> QED  BY <1>3, <2>2, <2>3 DEF LineOf
<1>5. /\ conns' = StateSent(k, command) /\ Then(<<Payload(k, line), LineEnd(k, line)>>)
      /\ UNCHANGED <<nodes, contact, localContactID, shutDown>>
  BY <1>2 DEF SendCommand
<1>6. StateSent(k, command) \in ConnsOf(N, C)
  <2>1. \A v \in State : SetState(conns, k, v) \in ConnsOf(N, C)
    BY <1>1, <1>3, ConnsTyped
  <2>2. SetPeer(conns, k, Null) \in ConnsOf(N, C)
    <3>1. Null \in Pointer(N)
      BY DEF Pointer
    <3> QED  BY <1>1, <1>3, <3>1, ConnsTyped
  <2>3. /\ command \in {"CHECKIN", "CONNECT", "CONFIRM"} => command \in State
        /\ "IDLE" \in State
    BY DEF State
  <2>4. \/ command \in {"CHECKIN", "CONNECT", "CONFIRM"} /\ StateSent(k, command) = SetState(conns, k, command)
        \/ StateSent(k, command) = SetState(conns, k, "IDLE")
        \/ StateSent(k, command) = SetPeer(conns, k, Null)
        \/ StateSent(k, command) = conns
    BY DEF StateSent, SetState, SetPeer
  <2> QED  BY <1>1, <2>1, <2>2, <2>3, <2>4
<1>7. <<Payload(k, line), LineEnd(k, line)>> \in Seq(CallOf(N, C))
  <2>1. Payload(k, line) \in CallOf(N, C) /\ LineEnd(k, line) \in CallOf(N, C)
    BY <1>3, <1>4, CallsOf
  <2> QED  BY <2>1, FewCalls
<1> QED  BY <1>1, <1>5, <1>6, <1>7, TypedAfter

\* The second command of a CHECKIN.
LEMMA SendContactTyped ==
    ASSUME NEW N, NEW C, NetworkTyped(N, C), SendContactCommand
    PROVE  NetworkTyped(N, C)'
<1>1. /\ nodes \in NodesOf(N, C) /\ conns \in ConnsOf(N, C) /\ shutDown \in Seq(Object(C))
      /\ Calls("contact") /\ todo # <<>>
  BY DEF NetworkTyped, SendContactCommand, Calls
<1>2. PICK a, k, o : a = Call.at /\ k = Call.conn /\ o = nodes[a].connection[2]
  OBVIOUS
<1>3. a \in Object(N) /\ k \in Object(C)
  BY <1>1, <1>2, CallNow
<1>4. o \in Pointer(C) /\ "CONTACT" \in Command
  <2>1. 2 \in Slot /\ "CONTACT" \in Command
    BY DEF Slot, Command
  <2> QED  BY <1>1, <1>2, <1>3, <2>1, NodesTyped
<1>5. Then(<<Send(k, "CONTACT", o)>>) /\ UNCHANGED <<nodes, conns, contact, localContactID, shutDown>>
  BY <1>2 DEF SendContactCommand
<1>6. <<Send(k, "CONTACT", o)>> \in Seq(CallOf(N, C))
  <2>1. Send(k, "CONTACT", o) \in CallOf(N, C)
    BY <1>3, <1>4, CallsOf
  <2> QED  BY <2>1, FewCalls
<1> QED  BY <1>1, <1>5, <1>6, TypedAfter

\* The step ends with the call of a receiver.
LEMMA TypedCalling ==
    ASSUME NEW N, NEW C, NetworkTyped(N, C), todo # <<>>, NEW k \in Object(C),
           conns' \in ConnsOf(N, C), HasLine(conns'[k]), Then(<<Receive(k)>>),
           UNCHANGED <<nodes, contact, localContactID, shutDown>>
    PROVE  NetworkTyped(N, C)'
<1>1. Tail(todo) \in Seq(CallOf(N, C))
  BY CallsNow DEF NetworkTyped
<1>2. CallsTyped(N, C, conns', todo')
  BY <1>1, ThenReceive
<1> QED  BY <1>2 DEF NetworkTyped

\* Who listens to a stream is a PlugNode, with a connection of its own.
LEMMA WhoListens ==
    ASSUME NEW N, NEW C, NEW v \in Listener(N, C)
    PROVE  /\ v = <<Null, Null>> <=> v[1] = Null
           /\ v # <<Null, Null>> => v[1] \in Object(N) /\ v[2] \in Object(C)
<1>1. Null \notin Object(N)
  BY DEF Object, Null
<1> QED  BY <1>1 DEF Listener

\* The payload of a line.
LEMMA PayloadTyped ==
    ASSUME NEW N, NEW C, NetworkTyped(N, C), WritePayload
    PROVE  NetworkTyped(N, C)'
<1>1. /\ nodes \in NodesOf(N, C) /\ conns \in ConnsOf(N, C) /\ shutDown \in Seq(Object(C))
      /\ Calls("payload") /\ todo # <<>> /\ UNCHANGED <<nodes, conns, contact, localContactID, shutDown>>
  BY DEF NetworkTyped, WritePayload, Calls
<1>2. PICK k : k = Call.conn
  OBVIOUS
<1>3. k \in Object(C)
  BY <1>1, <1>2, CallNow
<1>4. CASE HasReceiver(k) /\ conns[k].lines # <<>>
  <2>1. Then(<<Receive(k)>>)
    BY <1>2, <1>4 DEF WritePayload
  <2>2. conns[k].registered \in Listener(N, C)
    BY <1>1, <1>3, ConnMembers
  <2>3. HasLine(conns'[k])
    BY <1>1, <1>4, <2>2, WhoListens DEF HasLine, HasReceiver
  <2> QED  BY <1>1, <1>3, <2>1, <2>3, TypedCalling
<1>5. CASE ~(HasReceiver(k) /\ conns[k].lines # <<>>)
  <2>1. Then(<<>>)
    BY <1>2, <1>5 DEF WritePayload
  <2> QED  BY <1>1, <2>1, FewCalls, TypedAfter
<1> QED  BY <1>4, <1>5

\* The delimiter.
LEMMA LineTyped ==
    ASSUME NEW N, NEW C, NetworkTyped(N, C), WriteLine
    PROVE  NetworkTyped(N, C)'
<1>1. /\ nodes \in NodesOf(N, C) /\ conns \in ConnsOf(N, C) /\ shutDown \in Seq(Object(C))
      /\ Calls("line") /\ todo # <<>> /\ UNCHANGED <<nodes, contact, localContactID, shutDown>>
  BY DEF NetworkTyped, WriteLine, Calls
<1>2. PICK k, line : k = Call.conn /\ line = Call.line
  OBVIOUS
<1>3. k \in Object(C) /\ line \in LineOf(N)
  BY <1>1, <1>2, CallNow
<1>4. PICK v : v = Append(conns[k].lines, line)
  OBVIOUS
<1>5. v \in Seq(LineOf(N)) /\ v # <<>>
  <2>1. conns[k].lines \in Seq(LineOf(N))
    BY <1>1, <1>3, ConnMembers
  <2> PICK s : s = conns[k].lines
    OBVIOUS
  <2>2. v \in Seq(LineOf(N)) /\ Len(v) = Len(s) + 1 /\ Len(s) \in Nat
    BY <1>3, <1>4, <2>1, AppendProperties, LenProperties
  <2> QED  BY <2>2
<1>6. conns' = [conns EXCEPT ![k].lines = v]
  BY <1>2, <1>4 DEF WriteLine
<1>7. conns' \in ConnsOf(N, C)
  BY <1>1, <1>3, <1>5, <1>6, ConnsTyped
<1>8. CASE HasReceiver(k)
  <2>1. Then(<<Receive(k)>>)
    BY <1>2, <1>8 DEF WriteLine
  <2>2. conns[k].registered \in Listener(N, C) /\ conns[k] \in ConnOf(N, C)
    BY <1>1, <1>3, ConnMembers
  <2>3. conns'[k] = [conns[k] EXCEPT !.lines = v]
    BY <1>1, <1>3, <1>6 DEF ConnsOf
  <2>4. conns'[k].lines = v /\ conns'[k].registered = conns[k].registered
    BY <2>2, <2>3 DEF ConnOf
  <2>5. HasLine(conns'[k])
    BY <1>5, <1>8, <2>2, <2>4, WhoListens DEF HasLine, HasReceiver
  <2> QED  BY <1>1, <1>3, <1>7, <2>1, <2>5, TypedCalling
<1>9. CASE ~HasReceiver(k)
  <2>1. Then(<<>>)
    BY <1>2, <1>9 DEF WriteLine
  <2> QED  BY <1>1, <1>7, <2>1, FewCalls, TypedAfter
<1> QED  BY <1>8, <1>9

\* What a receiver finds.
LEMMA ReceiverFinds ==
    ASSUME NEW N, NEW C, NetworkTyped(N, C), Calls("receive")
    PROVE  /\ todo # <<>> /\ nodes \in NodesOf(N, C) /\ conns \in ConnsOf(N, C) /\ shutDown \in Seq(Object(C))
           /\ Call.conn \in Object(C) /\ conns[Call.conn].lines # <<>>
           /\ Receiver \in Object(N) /\ Own \in Object(C)
           /\ Read \in ConnsOf(N, C) /\ Line.address \in Pointer(N)
           /\ Contact(Line.address) \in Seq(CallOf(N, C))
<1>1. todo # <<>> /\ nodes \in NodesOf(N, C) /\ conns \in ConnsOf(N, C) /\ shutDown \in Seq(Object(C))
  BY DEF NetworkTyped, Calls
<1>2. PICK k : k = Call.conn
  OBVIOUS
<1>3. k \in Object(C) /\ HasLine(conns[k])
  BY <1>2, CallNow
<1>4. conns[k].registered \in Listener(N, C) /\ conns[k].lines \in Seq(LineOf(N))
  BY <1>1, <1>3, ConnMembers
<1>5. conns[k].registered[1] \in Object(N) /\ conns[k].registered[2] \in Object(C)
  BY <1>3, <1>4, WhoListens DEF HasLine
<1>6. Receiver \in Object(N) /\ Own \in Object(C)
  BY <1>2, <1>5 DEF Receiver, Own
<1>7. PICK s : s = conns[k].lines
  OBVIOUS
<1>8. s \in Seq(LineOf(N)) /\ s # <<>>
  BY <1>3, <1>4, <1>7 DEF HasLine
<1>9. Head(s) \in LineOf(N) /\ Tail(s) \in Seq(LineOf(N))
  BY <1>8, HeadTailProperties
<1>10. Read \in ConnsOf(N, C)
  <2>1. Read = [conns EXCEPT ![k].lines = Tail(s)]
    BY <1>2, <1>7 DEF Read
  <2> QED  BY <1>1, <1>3, <1>9, <2>1, ConnsTyped
<1>11. Line.address \in Pointer(N)
  <2>1. Line = Head(s)
    BY <1>2, <1>7 DEF Line
  <2> QED  BY <1>9, <2>1 DEF LineOf
<1>12. Contact(Line.address) \in Seq(CallOf(N, C))
  <2>1. PICK x, w, id : x = Line.address /\ w = Receiver /\ id = nodes[w].contactID
    OBVIOUS
  <2>2. w \in Object(N) /\ id \in Nat
    BY <1>1, <1>6, <2>1, NodesTyped
  <2>3. CASE x \in {Null, w}
    <3>1. Contact(x) = <<>>
      BY <2>1, <2>3 DEF Contact
    <3> QED  BY <2>1, <3>1, FewCalls
  <2>4. CASE x \notin {Null, w}
    <3>1. Contact(x) = <<Join(x, w, id)>>
      BY <2>1, <2>4 DEF Contact
    <3>2. x \in Object(N)
      BY <1>11, <2>1, <2>4 DEF Pointer
    <3>3. Join(x, w, id) \in CallOf(N, C)
      BY <2>2, <3>2, CallsOf
    <3>4. <<Join(x, w, id)>> \in Seq(CallOf(N, C))
      BY <3>3, FewCalls
    <3> QED  BY <2>1, <3>1, <3>4
  <2> QED  BY <2>3, <2>4
<1> QED  BY <1>1, <1>2, <1>3, <1>6, <1>8, <1>7, <1>10, <1>11, <1>12

\* A command of the receiver's own end.
LEMMA OwnCalls ==
    ASSUME NEW N, NEW C, NEW k \in Object(C)
    PROVE  /\ <<Send(k, "CONNECT", Null)>> \in Seq(CallOf(N, C))
           /\ <<Send(k, "CONFIRM", Null)>> \in Seq(CallOf(N, C))
           /\ <<Send(k, "DISCONNECT", Null), Unlink(k)>> \in Seq(CallOf(N, C))
           /\ <<Send(k, "DISCONNECT", Null), SetDisconnect(k)>> \in Seq(CallOf(N, C))
<1>1. Null \in Pointer(C) /\ "CONNECT" \in Command /\ "CONFIRM" \in Command /\ "DISCONNECT" \in Command
  BY DEF Pointer, Command
<1>2. /\ Send(k, "CONNECT", Null) \in CallOf(N, C) /\ Send(k, "CONFIRM", Null) \in CallOf(N, C)
      /\ Send(k, "DISCONNECT", Null) \in CallOf(N, C)
      /\ Unlink(k) \in CallOf(N, C) /\ SetDisconnect(k) \in CallOf(N, C)
  BY <1>1, CallsOf
<1> QED  BY <1>2, FewCalls

\* A CHECKIN, CONNECT, CONFIRM or CONTACT is read.
LEMMA LinkingRead ==
    ASSUME NEW N, NEW C, NetworkTyped(N, C),
           ReceiveCheckin \/ ReceiveConnect \/ ReceiveConfirm \/ ReceiveContact
    PROVE  NetworkTyped(N, C)'
<1>1. /\ todo # <<>> /\ nodes \in NodesOf(N, C) /\ conns \in ConnsOf(N, C) /\ shutDown \in Seq(Object(C))
      /\ Receiver \in Object(N) /\ Own \in Object(C) /\ Read \in ConnsOf(N, C)
      /\ Contact(Line.address) \in Seq(CallOf(N, C))
  <2>1. Calls("receive")
    BY DEF ReceiveCheckin, ReceiveConnect, ReceiveConfirm, ReceiveContact, Receives
  <2> QED  BY <2>1, ReceiverFinds
<1>2. PICK k, w, ds : k = Own /\ w = Receiver /\ ds = Read
  OBVIOUS
<1>3. k \in Object(C) /\ w \in Object(N) /\ ds \in ConnsOf(N, C)
  BY <1>1, <1>2
<1>4. CASE ReceiveCheckin
  <2>1. PICK more : more = IF Peers >= 2 THEN <<SendContact(w, k)>> ELSE <<>>
    OBVIOUS
  <2>2. more \in Seq(CallOf(N, C))
    <3>1. SendContact(w, k) \in CallOf(N, C)
      BY <1>3, CallsOf
    <3> QED  BY <2>1, <3>1, FewCalls
  <2>3. <<Send(k, "CONNECT", Null)>> \in Seq(CallOf(N, C))
    BY <1>3, OwnCalls
  <2>4. <<Send(k, "CONNECT", Null)>> \o more \in Seq(CallOf(N, C))
    BY <2>2, <2>3, AppendLists
  <2>5. /\ conns' = ds /\ Then(<<Send(k, "CONNECT", Null)>> \o more)
        /\ UNCHANGED <<nodes, contact, localContactID, shutDown>>
    BY <1>2, <1>4, <2>1 DEF ReceiveCheckin
  <2> QED  BY <1>1, <1>3, <2>4, <2>5, TypedAfter
<1>5. CASE ReceiveConnect
  <2>1. <<Send(k, "CONFIRM", Null)>> \in Seq(CallOf(N, C))
    BY <1>3, OwnCalls
  <2>2. /\ conns' = ds /\ IncrementPeers /\ Then(<<Send(k, "CONFIRM", Null)>>)
        /\ UNCHANGED <<contact, localContactID, shutDown>>
    BY <1>2, <1>5 DEF ReceiveConnect
  <2>3. nodes' \in NodesOf(N, C)
    BY <1>1, <2>2, CountsTyped
  <2> QED  BY <1>1, <1>3, <2>1, <2>2, <2>3, TypedAfter
<1>6. CASE ReceiveConfirm
  <2>1. /\ conns' = SetState(ds, k, "CONFIRM") /\ IncrementPeers /\ Then(<<>>)
        /\ UNCHANGED <<contact, localContactID, shutDown>>
    BY <1>2, <1>6 DEF ReceiveConfirm, SetState
  <2>2. nodes' \in NodesOf(N, C)
    BY <1>1, <2>1, CountsTyped
  <2>3. SetState(ds, k, "CONFIRM") \in ConnsOf(N, C)
    <3>1. "CONFIRM" \in State
      BY DEF State
    <3> QED  BY <1>3, <3>1, ConnsTyped
  <2> QED  BY <1>1, <2>1, <2>2, <2>3, FewCalls, TypedAfter
<1>7. CASE ReceiveContact
  <2>1. PICK calls : calls = IF Peers = 4 THEN <<>> ELSE Contact(Line.address)
    OBVIOUS
  <2>2. calls \in Seq(CallOf(N, C))
    BY <1>1, <2>1, FewCalls
  <2>3. conns' = ds /\ Then(calls) /\ UNCHANGED <<nodes, contact, localContactID, shutDown>>
    BY <1>2, <1>7, <2>1 DEF ReceiveContact
  <2> QED  BY <1>1, <1>3, <2>2, <2>3, TypedAfter
<1> QED  BY <1>4, <1>5, <1>6, <1>7

\* A SWITCH or DISCONNECT is read.
LEMMA PartingRead ==
    ASSUME NEW N, NEW C, NetworkTyped(N, C), ReceiveSwitch \/ ReceiveDisconnect
    PROVE  NetworkTyped(N, C)'
<1>1. /\ todo # <<>> /\ nodes \in NodesOf(N, C) /\ conns \in ConnsOf(N, C) /\ shutDown \in Seq(Object(C))
      /\ Receiver \in Object(N) /\ Own \in Object(C) /\ Read \in ConnsOf(N, C)
      /\ Contact(Line.address) \in Seq(CallOf(N, C))
  <2>1. Calls("receive")
    BY DEF ReceiveSwitch, ReceiveDisconnect, Receives
  <2> QED  BY <2>1, ReceiverFinds
<1>2. PICK k, ds, calls : k = Own /\ ds = Read /\ calls = Contact(Line.address)
  OBVIOUS
<1>3. k \in Object(C) /\ ds \in ConnsOf(N, C) /\ calls \in Seq(CallOf(N, C))
  BY <1>1, <1>2
<1>4. Unlinked(ds, k) \in ConnsOf(N, C) /\ Disconnected(ds, k) \in ConnsOf(N, C)
  BY <1>3, UnlinkedTyped
<1>5. DecrementPeers /\ UNCHANGED <<contact, localContactID, shutDown>>
  BY DEF ReceiveSwitch, ReceiveDisconnect
<1>6. nodes' \in NodesOf(N, C)
  BY <1>1, <1>5, CountsTyped
<1>7. CASE ReceiveSwitch
  <2>1. /\ conns' \in {ds, Unlinked(ds, k)}
        /\ Then(<<>>) \/ Then(calls)
    BY <1>2, <1>7 DEF ReceiveSwitch
  <2>2. conns' \in ConnsOf(N, C)
    BY <1>3, <1>4, <2>1
  <2> QED  BY <1>1, <1>3, <1>5, <1>6, <2>1, <2>2, FewCalls, TypedAfter
<1>8. CASE ReceiveDisconnect
  <2>1. /\ conns' \in {ds, Disconnected(ds, k)}
        /\ Then(<<>>) \/ Then(<<Send(k, "DISCONNECT", Null), Unlink(k)>>)
    BY <1>2, <1>8 DEF ReceiveDisconnect
  <2>2. conns' \in ConnsOf(N, C)
    BY <1>3, <1>4, <2>1
  <2>3. <<Send(k, "DISCONNECT", Null), Unlink(k)>> \in Seq(CallOf(N, C))
    BY <1>3, OwnCalls
  <2> QED  BY <1>1, <1>5, <1>6, <2>1, <2>2, <2>3, FewCalls, TypedAfter
<1> QED  BY <1>7, <1>8

\* disconnect() at either side of a link.
LEMMA DisconnectTyped ==
    ASSUME NEW N, NEW C, NetworkTyped(N, C), UnlinkConnection \/ Disconnect \/ DisconnectDone
    PROVE  NetworkTyped(N, C)'
<1>1. /\ nodes \in NodesOf(N, C) /\ conns \in ConnsOf(N, C) /\ shutDown \in Seq(Object(C)) /\ todo # <<>>
      /\ UNCHANGED <<nodes, contact, localContactID, shutDown>>
  BY DEF NetworkTyped, UnlinkConnection, Disconnect, DisconnectDone, Calls
<1>0. "DISCONNECT" \in State
  BY DEF State
<1>2. CASE UnlinkConnection
  <2>1. PICK k : k = Call.conn
    OBVIOUS
  <2>2. k \in Object(C)
    BY <1>2, <2>1, CallNow DEF UnlinkConnection
  <2>3. conns' = Disconnected(conns, k) /\ Then(<<>>)
    BY <1>2, <2>1 DEF UnlinkConnection
  <2>4. Disconnected(conns, k) \in ConnsOf(N, C)
    BY <1>1, <2>2, UnlinkedTyped
  <2> QED  BY <1>1, <2>3, <2>4, FewCalls, TypedAfter
<1>3. CASE DisconnectDone
  <2>1. PICK k : k = Call.conn
    OBVIOUS
  <2>2. k \in Object(C)
    BY <1>3, <2>1, CallNow DEF DisconnectDone
  <2>3. conns' = SetState(conns, k, "DISCONNECT") /\ Then(<<>>)
    BY <1>3, <2>1 DEF DisconnectDone, SetState
  <2>4. SetState(conns, k, "DISCONNECT") \in ConnsOf(N, C)
    BY <1>0, <1>1, <2>2, ConnsTyped
  <2> QED  BY <1>1, <2>3, <2>4, FewCalls, TypedAfter
<1>4. CASE Disconnect
  <2>1. PICK a, i, k : a = Call.at /\ i = Call.slot /\ k = nodes[a].connection[i]
    OBVIOUS
  <2>2. a \in Object(N) /\ i \in Slot
    BY <1>4, <2>1, CallNow DEF Disconnect
  <2>3. k \in Pointer(C)
    BY <1>1, <2>1, <2>2, NodesTyped
  <2>4. \/ conns' = conns /\ Then(<<>>)
        \/ /\ k # Null /\ conns' = SetState(conns, k, "DISCONNECT")
           /\ Then(<<>>) \/ Then(<<Send(k, "DISCONNECT", Null), SetDisconnect(k)>>)
    BY <1>4, <2>1 DEF Disconnect, SetState
  <2>5. CASE conns' = conns /\ Then(<<>>)
    BY <1>1, <2>5, FewCalls, TypedAfter
  <2>6. CASE /\ k # Null /\ conns' = SetState(conns, k, "DISCONNECT")
             /\ Then(<<>>) \/ Then(<<Send(k, "DISCONNECT", Null), SetDisconnect(k)>>)
    <3>1. k \in Object(C)
      BY <2>3, <2>6 DEF Pointer
    <3>2. SetState(conns, k, "DISCONNECT") \in ConnsOf(N, C)
      BY <1>0, <1>1, <3>1, ConnsTyped
    <3>3. <<Send(k, "DISCONNECT", Null), SetDisconnect(k)>> \in Seq(CallOf(N, C))
      BY <3>1, OwnCalls
    <3> QED  BY <1>1, <2>6, <3>2, <3>3, FewCalls, TypedAfter
  <2> QED  BY <2>4, <2>5, <2>6
<1> QED  BY <1>2, <1>3, <1>4

\* The rest of ~CmPlugNode() and ~CmServiceAccess().
LEMMA LeaveTyped ==
    ASSUME NEW N, NEW C, NetworkTyped(N, C), LeaveContact \/ ShutdownConnections
    PROVE  NetworkTyped(N, C)'
<1>1. /\ nodes \in NodesOf(N, C) /\ conns \in ConnsOf(N, C) /\ shutDown \in Seq(Object(C)) /\ todo # <<>>
      /\ Then(<<>>)
  BY DEF NetworkTyped, LeaveContact, ShutdownConnections, Calls
<1>0. <<>> \in Seq(Object(C)) /\ \A ks : Deleted(ks) \in ConnsOf(N, C)
  BY <1>1, DeletedTyped
<1>2. CASE LeaveContact
  <2>1. \/ /\ conns' = Deleted(Members(shutDown)) /\ shutDown' = <<>>
           /\ contact' = Null /\ localContactID' = 0
        \/ UNCHANGED <<conns, shutDown, contact, localContactID>>
    BY <1>2 DEF LeaveContact
  <2>2. conns' \in ConnsOf(N, C) /\ shutDown' \in Seq(Object(C))
    BY <1>0, <1>1, <2>1
  <2>3. nodes' = nodes
    BY <1>2 DEF LeaveContact
  <2>4. contact' \in {Null, contact} /\ localContactID' \in {0, localContactID}
    BY <2>1
  <2> QED  BY <1>1, <2>2, <2>3, <2>4, FewCalls, TypedAfter
<1>3. CASE ShutdownConnections
  <2>1. PICK a, five, mine, list :
          /\ a = Call.at
          /\ five = <<nodes[a].connectionSwitch, nodes[a].connection[4], nodes[a].connection[3],
                      nodes[a].connection[2], nodes[a].connection[1]>>
          /\ mine = Kept(five, {Null}) /\ list = mine \o shutDown
    OBVIOUS
  <2>2. a \in Object(N)
    BY <1>3, <2>1, CallNow DEF ShutdownConnections
  <2>3. five \in Seq(Pointer(C))
    <3>1. 1 \in Slot /\ 2 \in Slot /\ 3 \in Slot /\ 4 \in Slot
      BY DEF Slot
    <3>2. /\ nodes[a].connectionSwitch \in Pointer(C) /\ nodes[a].connection[1] \in Pointer(C)
          /\ nodes[a].connection[2] \in Pointer(C) /\ nodes[a].connection[3] \in Pointer(C)
          /\ nodes[a].connection[4] \in Pointer(C)
      BY <1>1, <2>2, <3>1, NodesTyped
    <3>3. \A u, v, x, y, z \in Pointer(C) : <<u, v, x, y, z>> \in Seq(Pointer(C))
      OBVIOUS
    <3> QED  BY <2>1, <3>2, <3>3
  <2>4. mine \in Seq(Object(C))
    <3>1. PICK out, S : out = {Null} /\ S = Pointer(C)
      OBVIOUS
    <3>2. Kept(five, out) \in Seq(S) /\ Members(Kept(five, out)) \subseteq Members(five) \ out
      BY <2>3, <3>1, KeptFacts
    <3>3. mine \in Seq(S) /\ Members(mine) \subseteq Members(five) \ out
      BY <2>1, <3>1, <3>2
    <3>4. \A i \in DOMAIN mine : mine[i] \in Object(C)
      <4> SUFFICES ASSUME NEW i \in DOMAIN mine
                   PROVE  mine[i] \in Object(C)
        OBVIOUS
      <4>1. mine[i] \in S
        BY <3>3, ElementOfSeq, LenProperties
      <4>2. mine[i] # Null
        BY <3>1, <3>3 DEF Members
      <4> QED  BY <3>1, <4>1, <4>2 DEF Pointer
    <3> QED  BY <3>3, <3>4, LenProperties
  <2>5. list \in Seq(Object(C))
    BY <1>1, <2>1, <2>4, AppendLists
  <2>6. /\ shutDown' = Remaining(list) /\ conns' = Deleted({k \in Members(list) : IsIdle(k)})
        /\ nodes' = [nodes EXCEPT ![a].isAlive = FALSE] /\ UNCHANGED <<contact, localContactID>>
    BY <1>3, <2>1 DEF ShutdownConnections
  <2>7. shutDown' \in Seq(Object(C)) /\ conns' \in ConnsOf(N, C)
    BY <1>0, <2>5, <2>6, RemainingTyped
  <2>8. nodes' \in NodesOf(N, C)
    BY <1>1, <2>2, <2>6, NodesTyped
  <2> QED  BY <1>1, <2>6, <2>7, <2>8, FewCalls, TypedAfter
<1> QED  BY <1>2, <1>3

\* joinNetwork() enters the contact ID of b, connection k in slot i of a, and what
\* a is to switch; then connection p in slot j of b.
JoinedAt(a, b, i, k, s, id) ==
    [nodes EXCEPT ![b].contactID = id, ![a].connection[i] = k, ![a].connectionSwitch = s]
JoinedBoth(a, b, i, k, s, id, j, p) == [JoinedAt(a, b, i, k, s, id) EXCEPT ![b].connection[j] = p]

\* How joinNetwork() ends, with the slot i it takes at a, what is there and what a
\* is to switch.
JoinEnds(a, b, id, i, q, s) ==
    LET g == Grown(conns, q)
        k == Taken(conns, q)
        j == FreeSlot(b)
        e == Grown(g, nodes[b].connection[j])
        p == Taken(g, nodes[b].connection[j])
        o == Linked(e, p, k, a)
    IN  \/ /\ nodes' = WithContactID(nodes, b, id) /\ conns' = conns
           /\ Then(<<>>)
        \/ /\ nodes' = JoinedAt(a, b, i, k, s, id) /\ conns' = g
           /\ Then(<<>>)
        \/ /\ j # Null /\ nodes' = JoinedBoth(a, b, i, k, s, id, j, p) /\ conns' = o
           /\ Then(<<>>)
        \/ /\ j # Null /\ nodes' = JoinedBoth(a, b, i, k, s, id, j, p)
           /\ conns' = SetPeer(Registered(Registered(o, p, b, j), k, a, i), k, b)
           /\ Then(<<SwitchAccess(a), Send(p, "CHECKIN", Null)>>)

\* With a free slot, it takes that one; else the fourth, to switch its peer.
LEMMA JoinTakes ==
    ASSUME JoinNetwork, NEW a, a = Call.at, NEW b, b = Call.for, NEW id, id = Call.id,
           NEW i, i = FreeSlot(a)
    PROVE  /\ i # Null => JoinEnds(a, b, id, i, nodes[a].connection[i], nodes[a].connectionSwitch)
           /\ i = Null => JoinEnds(a, b, id, 4, Null, nodes[a].connection[4])
<1>1. CASE i # Null
  BY <1>1, ZenonT(60) DEF JoinNetwork, JoinEnds, JoinedAt, JoinedBoth, Grown, Taken, SetPeer, WithContactID
<1>2. CASE i = Null
  BY <1>2, ZenonT(60) DEF JoinNetwork, JoinEnds, JoinedAt, JoinedBoth, Grown, Taken, SetPeer, WithContactID
<1> QED  BY <1>1, <1>2

\* A slot gives its connection, or a new one.
LEMMA TakenTyped ==
    ASSUME NEW N \in Nat, NEW C \in Nat, NEW cs \in ConnsOf(N, C), NEW q \in Pointer(C)
    PROVE  \E D \in Nat : C <= D /\ Grown(cs, q) \in ConnsOf(N, D) /\ Taken(cs, q) \in Object(D)
<1>1. CASE q # Null
  <2>1. Grown(cs, q) = cs /\ Taken(cs, q) = q /\ q \in Object(C)
    BY <1>1 DEF Grown, Taken, Pointer
  <2> QED  BY <2>1
<1>2. CASE q = Null
  <2>1. PICK D : D = C + 1
    OBVIOUS
  <2>2. D \in Nat /\ C <= D /\ N <= N
    BY <2>1
  <2>3. PICK S : S = ConnOf(N, D)
    OBVIOUS
  <2>4. ConnOf(N, C) \subseteq S
    BY <2>2, <2>3, TypesGrow
  <2>5. NewConnection \in S
    <3>1. /\ Null \in IDs /\ Null \in Pointer(N) /\ Null \in Pointer(D) /\ "IDLE" \in State
          /\ <<Null, Null>> \in Listener(N, D) /\ <<>> \in Seq(LineOf(N))
      BY DEF IDs, Pointer, State, Listener
    <3> QED  BY <2>3, <3>1 DEF NewConnection, ConnOf, IDs
  <2>6. cs \in Seq(S) /\ Len(cs) = C
    <3>1. cs \in [1 .. C -> S]
      BY <2>4 DEF ConnsOf, Object
    <3> QED  BY <3>1
  <2>7. /\ Append(cs, NewConnection) \in Seq(S) /\ Len(Append(cs, NewConnection)) = C + 1
    BY <2>5, <2>6, AppendProperties
  <2>8. Append(cs, NewConnection) \in [1 .. D -> S]
    <3> PICK t : t = Append(cs, NewConnection)
      OBVIOUS
    <3>1. t \in Seq(S) /\ Len(t) = D
      BY <2>1, <2>7
    <3>2. DOMAIN t = 1 .. D /\ \A x \in 1 .. D : t[x] \in S
      BY <3>1, LenProperties, ElementOfSeq
    <3> QED  BY <3>1, <3>2, LenProperties
  <2>9. Grown(cs, q) = Append(cs, NewConnection) /\ Taken(cs, q) = D
    BY <1>2, <2>1, <2>6 DEF Grown, Taken
  <2>10. Grown(cs, q) \in ConnsOf(N, D) /\ Taken(cs, q) \in Object(D)
    BY <2>2, <2>1, <2>3, <2>8, <2>9 DEF ConnsOf, Object
  <2> QED  BY <2>2, <2>10
<1> QED  BY <1>1, <1>2

\* All that is to be shown of a step that creates connections.
LEMMA TypedGrown ==
    ASSUME NEW N \in Nat, NEW C \in Nat, NEW D \in Nat, C <= D, NetworkTyped(N, C), todo # <<>>,
           nodes' \in NodesOf(N, D), conns' \in ConnsOf(N, D), UNCHANGED <<contact, localContactID, shutDown>>,
           NEW calls \in Seq(CallOf(N, D)), Then(calls)
    PROVE  NetworkTyped(N, D)'
<1>1. Tail(todo) \in Seq(CallOf(N, C)) /\ shutDown \in Seq(Object(C))
  BY CallsNow DEF NetworkTyped
<1>2. CallOf(N, C) \subseteq CallOf(N, D) /\ Object(C) \subseteq Object(D)
  <2>1. N <= N
    OBVIOUS
  <2> QED  BY <2>1, TypesGrow
<1>3. Tail(todo) \in Seq(CallOf(N, D)) /\ shutDown \in Seq(Object(D))
  <2> PICK s, S, T : s = Tail(todo) /\ S = CallOf(N, C) /\ T = CallOf(N, D)
    OBVIOUS
  <2>1. s \in Seq(T)
    BY <1>1, <1>2
  <2> QED  BY <1>1, <1>2, <2>1
<1>4. todo' \in Seq(CallOf(N, D))
  BY <1>3, ThenTyped
<1> QED  BY <1>3, <1>4 DEF NetworkTyped, CallsTyped

\* The PlugNodes keep their types when b is joined at a.
LEMMA JoinedTyped ==
    ASSUME NEW N, NEW C, nodes \in NodesOf(N, C), NEW a \in Object(N), NEW b \in Object(N),
           NEW i \in Slot, NEW k \in Pointer(C), NEW s \in Pointer(C), NEW id \in Nat
    PROVE  /\ JoinedAt(a, b, i, k, s, id) \in NodesOf(N, C)
           /\ \A j \in Slot, p \in Pointer(C) : JoinedBoth(a, b, i, k, s, id, j, p) \in NodesOf(N, C)
<1>1. PICK m1 : m1 = WithContactID(nodes, b, id)
  OBVIOUS
<1>2. PICK m2 : m2 = [m1 EXCEPT ![a].connection[i] = k]
  OBVIOUS
<1>3. PICK m3 : m3 = [m2 EXCEPT ![a].connectionSwitch = s]
  OBVIOUS
<1>4. m1 \in NodesOf(N, C)
  BY <1>1, NodesTyped
<1>5. m2 \in NodesOf(N, C)
  BY <1>2, <1>4, NodesTyped
<1>6. m3 \in NodesOf(N, C)
  BY <1>3, <1>5, NodesTyped
<1>7. JoinedAt(a, b, i, k, s, id) = m3
  BY <1>1, <1>2, <1>3 DEF JoinedAt, WithContactID
<1>8. \A j \in Slot, p \in Pointer(C) : [m3 EXCEPT ![b].connection[j] = p] \in NodesOf(N, C)
  BY <1>6, NodesTyped
<1> QED  BY <1>6, <1>7, <1>8 DEF JoinedBoth

\* A slot that is free is one of the four.
LEMMA FreeSlotType ==
    ASSUME NEW n
    PROVE  FreeSlot(n) \in Slot \cup {Null}
<1>1. CASE \E i \in Slot : IsFree(n, i)
  BY <1>1, FreeSlotIsFree
<1>2. CASE ~\E i \in Slot : IsFree(n, i)
  <2>1. FreeSlot(n) = Null
    BY <1>2 DEF FreeSlot, IsFree
  <2> QED  BY <2>1
<1> QED  BY <1>1, <1>2

\* What joinNetwork() finds and takes.
JoinArgs(N, C, a, b, id, i, q, s) ==
    /\ a \in Object(N) /\ b \in Object(N) /\ id \in Nat /\ i \in Slot
    /\ q \in Pointer(C) /\ s \in Pointer(C)

\* However it ends, it keeps the types.
LEMMA JoinEndsTyped ==
    ASSUME NEW N \in Nat, NEW C \in Nat, NetworkTyped(N, C), todo # <<>>,
           UNCHANGED <<contact, localContactID, shutDown>>,
           NEW a, NEW b, NEW id, NEW i, NEW q, NEW s,
           JoinArgs(N, C, a, b, id, i, q, s), JoinEnds(a, b, id, i, q, s)
    PROVE  \E D \in Nat : NetworkTyped(N, D)'
<1>1. nodes \in NodesOf(N, C) /\ conns \in ConnsOf(N, C)
  BY DEF NetworkTyped
<1>2. a \in Object(N) /\ b \in Object(N) /\ id \in Nat /\ i \in Slot /\ q \in Pointer(C) /\ s \in Pointer(C)
  BY DEF JoinArgs
<1>3. PICK g, k : g = Grown(conns, q) /\ k = Taken(conns, q)
  OBVIOUS
<1>4. PICK D \in Nat : C <= D /\ g \in ConnsOf(N, D) /\ k \in Object(D)
  BY <1>1, <1>2, <1>3, TakenTyped
<1>5. nodes \in NodesOf(N, D) /\ Pointer(C) \subseteq Pointer(D) /\ k \in Pointer(D) /\ N <= N
  <2>1. NodeOf(C) \subseteq NodeOf(D) /\ Pointer(C) \subseteq Pointer(D)
    <3>1. N <= N
      OBVIOUS
    <3> QED  BY <1>4, <3>1, TypesGrow
  <2> QED  BY <1>1, <1>4, <2>1 DEF NodesOf, Pointer
<1>6. PICK j : j = FreeSlot(b)
  OBVIOUS
<1>7. PICK e, p : e = Grown(g, nodes[b].connection[j]) /\ p = Taken(g, nodes[b].connection[j])
  OBVIOUS
<1>8. PICK o : o = Linked(e, p, k, a)
  OBVIOUS
<1>9. \/ /\ nodes' = WithContactID(nodes, b, id) /\ conns' = conns
         /\ Then(<<>>)
      \/ /\ nodes' = JoinedAt(a, b, i, k, s, id) /\ conns' = g
         /\ Then(<<>>)
      \/ /\ j # Null /\ nodes' = JoinedBoth(a, b, i, k, s, id, j, p) /\ conns' = o
         /\ Then(<<>>)
      \/ /\ j # Null /\ nodes' = JoinedBoth(a, b, i, k, s, id, j, p)
         /\ conns' = SetPeer(Registered(Registered(o, p, b, j), k, a, i), k, b)
         /\ Then(<<SwitchAccess(a), Send(p, "CHECKIN", Null)>>)
  BY <1>3, <1>6, <1>7, <1>8 DEF JoinEnds
<1>10. CASE nodes' = WithContactID(nodes, b, id) /\ conns' = conns /\ Then(<<>>)
  <2>1. nodes' \in NodesOf(N, C)
    BY <1>1, <1>2, <1>10, NodesTyped
  <2>2. C <= C
    OBVIOUS
  <2>3. NetworkTyped(N, C)'
    BY <1>1, <1>10, <2>1, <2>2, FewCalls, TypedGrown
  <2> QED  BY <2>3
<1>11. CASE nodes' = JoinedAt(a, b, i, k, s, id) /\ conns' = g /\ Then(<<>>)
  <2>1. nodes' \in NodesOf(N, D)
    BY <1>2, <1>5, <1>11, JoinedTyped
  <2>2. NetworkTyped(N, D)'
    BY <1>4, <1>11, <2>1, FewCalls, TypedGrown
  <2> QED  BY <2>2
<1>12. CASE /\ j # Null /\ nodes' = JoinedBoth(a, b, i, k, s, id, j, p)
            /\ \/ conns' = o /\ Then(<<>>)
               \/ /\ conns' = SetPeer(Registered(Registered(o, p, b, j), k, a, i), k, b)
                  /\ Then(<<SwitchAccess(a), Send(p, "CHECKIN", Null)>>)
  <2>1. j \in Slot
    BY <1>6, <1>12, FreeSlotType
  <2>2. nodes[b].connection[j] \in Pointer(D)
    BY <1>2, <1>5, <2>1, NodesTyped
  <2>3. PICK E \in Nat : D <= E /\ e \in ConnsOf(N, E) /\ p \in Object(E)
    BY <1>4, <1>7, <2>2, TakenTyped
  <2>4. /\ C <= E /\ Pointer(D) \subseteq Pointer(E) /\ Object(D) \subseteq Object(E)
        /\ NodeOf(D) \subseteq NodeOf(E)
    <3>1. C <= E /\ N <= N
      BY <1>4, <2>3
    <3> QED  BY <2>3, <3>1, TypesGrow
  <2>5. /\ nodes \in NodesOf(N, E) /\ k \in Object(E) /\ k \in Pointer(E) /\ p \in Pointer(E)
        /\ s \in Pointer(E)
    BY <1>2, <1>4, <1>5, <2>3, <2>4 DEF NodesOf, Pointer
  <2>6. nodes' \in NodesOf(N, E)
    BY <1>2, <1>12, <2>1, <2>5, JoinedTyped
  <2>7. a \in Pointer(N) /\ b \in Pointer(N)
    BY <1>2 DEF Pointer
  <2>8. o \in ConnsOf(N, E)
    BY <1>8, <2>3, <2>5, <2>7, LinkedTyped
  <2>9. CASE conns' = o /\ Then(<<>>)
    <3>1. NetworkTyped(N, E)'
      BY <2>3, <2>4, <2>6, <2>8, <2>9, FewCalls, TypedGrown
    <3> QED  BY <3>1
  <2>10. CASE /\ conns' = SetPeer(Registered(Registered(o, p, b, j), k, a, i), k, b)
              /\ Then(<<SwitchAccess(a), Send(p, "CHECKIN", Null)>>)
    <3>1. Registered(o, p, b, j) \in ConnsOf(N, E)
      BY <1>2, <2>1, <2>3, <2>8, RegisteredTyped
    <3>2. Registered(Registered(o, p, b, j), k, a, i) \in ConnsOf(N, E)
      BY <1>2, <2>5, <3>1, RegisteredTyped
    <3>3. conns' \in ConnsOf(N, E)
      BY <2>5, <2>7, <2>10, <3>2, ConnsTyped
    <3>4. <<SwitchAccess(a), Send(p, "CHECKIN", Null)>> \in Seq(CallOf(N, E))
      <4>1. "CHECKIN" \in Command /\ Null \in Pointer(E)
        BY DEF Command, Pointer
      <4>2. SwitchAccess(a) \in CallOf(N, E) /\ Send(p, "CHECKIN", Null) \in CallOf(N, E)
        BY <1>2, <2>3, <4>1, CallsOf
      <4> QED  BY <4>2, FewCalls
    <3>5. NetworkTyped(N, E)'
      BY <2>3, <2>4, <2>6, <2>10, <3>3, <3>4, TypedGrown
    <3> QED  BY <3>5
  <2> QED  BY <1>12, <2>9, <2>10
<1> QED  BY <1>9, <1>10, <1>11, <1>12

\* joinNetwork()
LEMMA JoinTyped ==
    ASSUME NEW N \in Nat, NEW C \in Nat, NetworkTyped(N, C), JoinNetwork
    PROVE  \E D \in Nat : NetworkTyped(N, D)'
<1>1. /\ nodes \in NodesOf(N, C) /\ Calls("join") /\ todo # <<>>
      /\ UNCHANGED <<contact, localContactID, shutDown>>
  BY DEF NetworkTyped, JoinNetwork, Calls
<1>2. PICK a, b, id, i : a = Call.at /\ b = Call.for /\ id = Call.id /\ i = FreeSlot(a)
  OBVIOUS
<1>3. a \in Object(N) /\ b \in Object(N) /\ id \in Nat
  BY <1>1, <1>2, CallNow
<1>4. i \in Slot \cup {Null} /\ 4 \in Slot /\ Null \in Pointer(C)
  BY <1>2, FreeSlotType DEF Slot, Pointer
<1>5. /\ nodes[a].connectionSwitch \in Pointer(C)
      /\ \A h \in Slot : nodes[a].connection[h] \in Pointer(C)
  BY <1>1, <1>3, NodesTyped
<1>6. /\ i # Null => JoinEnds(a, b, id, i, nodes[a].connection[i], nodes[a].connectionSwitch)
      /\ i = Null => JoinEnds(a, b, id, 4, Null, nodes[a].connection[4])
  BY <1>2, JoinTakes
<1>7. CASE i # Null
  <2>1. JoinArgs(N, C, a, b, id, i, nodes[a].connection[i], nodes[a].connectionSwitch)
    BY <1>3, <1>4, <1>5, <1>7 DEF JoinArgs
  <2> QED  BY <1>1, <1>6, <1>7, <2>1, JoinEndsTyped
<1>8. CASE i = Null
  <2>1. JoinArgs(N, C, a, b, id, 4, Null, nodes[a].connection[4])
    BY <1>3, <1>4, <1>5 DEF JoinArgs
  <2> QED  BY <1>1, <1>6, <1>8, <2>1, JoinEndsTyped
<1> QED  BY <1>7, <1>8

\* The calls that remain when a PlugNode is deleted.
LEMMA LeaveCallsTyped ==
    ASSUME NEW N, NEW C, NEW n \in Object(N)
    PROVE  DisconnectFromPeers(n) \o <<RemoveContact(n)>> \o DisconnectFromPeers(n) \o <<Shutdown(n)>>
              \in Seq(CallOf(N, C))
<1>1. PICK s, x, y : s = DisconnectFromPeers(n) /\ x = <<RemoveContact(n)>> /\ y = <<Shutdown(n)>>
  OBVIOUS
<1>2. s \in Seq(CallOf(N, C))
  <2>1. \A i \in Slot : DisconnectPeer(n, i) \in CallOf(N, C)
    BY CallsOf
  <2>2. PICK m, S : m = 4 /\ S = CallOf(N, C)
    OBVIOUS
  <2>3. m \in Nat /\ s \in [1 .. m -> S]
    BY <1>1, <2>1, <2>2 DEF DisconnectFromPeers, Slot
  <2>4. s \in Seq(S)
    BY <2>3
  <2> QED  BY <2>2, <2>4
<1>3. x \in Seq(CallOf(N, C)) /\ y \in Seq(CallOf(N, C))
  BY <1>1, CallsOf, FewCalls
<1>4. s \o x \in Seq(CallOf(N, C))
  BY <1>2, <1>3, AppendLists
<1>5. (s \o x) \o s \in Seq(CallOf(N, C))
  BY <1>2, <1>4, AppendLists
<1>6. ((s \o x) \o s) \o y \in Seq(CallOf(N, C))
  BY <1>3, <1>5, AppendLists
<1> QED  BY <1>1, <1>6

\* ~CmPlugNode() begins.
LEMMA DestroyTyped ==
    ASSUME NEW N, NEW C, NetworkTyped(N, C), NEW n \in DOMAIN nodes, DestroyPlugNode(n)
    PROVE  NetworkTyped(N, C)'
<1>1. n \in Object(N)
  BY DEF NetworkTyped, NodesOf
<1>2. todo' \in Seq(CallOf(N, C))
  BY <1>1, LeaveCallsTyped DEF DestroyPlugNode
<1>3. UNCHANGED <<nodes, conns, contact, localContactID, shutDown>>
  BY DEF DestroyPlugNode
<1> QED  BY <1>2, <1>3 DEF NetworkTyped, CallsTyped

\* A new PlugNode, one more than there were.
LEMMA CreateTyped ==
    ASSUME NEW N \in Nat, NEW C \in Nat, NetworkTyped(N, C), CreatePlugNode
    PROVE  NetworkTyped(N + 1, C)'
<1>1. PICK M : M = N + 1
  OBVIOUS
<1>2. M \in Nat /\ N <= M /\ C <= C
  BY <1>1
<1>3. /\ nodes \in NodesOf(N, C) /\ conns \in ConnsOf(N, C) /\ contact \in Pointer(N)
      /\ localContactID \in Nat /\ shutDown \in Seq(Object(C))
  BY DEF NetworkTyped
<1>4. Pointer(N) \subseteq Pointer(M) /\ Object(N) \subseteq Object(M) /\ ConnOf(N, C) \subseteq ConnOf(M, C)
  BY <1>2, TypesGrow
<1>5. nodes' \in NodesOf(M, C) /\ Len(nodes) + 1 = M
  <2>1. PICK S : S = NodeOf(C)
    OBVIOUS
  <2>2. NewNode \in S
    <3>1. Null \in Pointer(C)
      BY DEF Pointer
    <3> QED  BY <2>1, <3>1 DEF NewNode, NodeOf
  <2>3. nodes \in Seq(S) /\ Len(nodes) = N
    <3>1. nodes \in [1 .. N -> S]
      BY <1>3, <2>1 DEF NodesOf, Object
    <3> QED  BY <3>1
  <2>4. Append(nodes, NewNode) \in Seq(S) /\ Len(Append(nodes, NewNode)) = N + 1
    BY <2>2, <2>3, AppendProperties
  <2>5. Append(nodes, NewNode) \in [1 .. M -> S]
    <3> PICK t : t = Append(nodes, NewNode)
      OBVIOUS
    <3>1. t \in Seq(S) /\ Len(t) = M
      BY <1>1, <2>4
    <3>2. DOMAIN t = 1 .. M /\ \A x \in 1 .. M : t[x] \in S
      BY <3>1, LenProperties, ElementOfSeq
    <3> QED  BY <3>1, <3>2, LenProperties
  <2>6. nodes' = Append(nodes, NewNode)
    BY DEF CreatePlugNode
  <2> QED  BY <1>1, <2>1, <2>3, <2>5, <2>6 DEF NodesOf, Object
<1>6. conns' \in ConnsOf(M, C) /\ shutDown' = shutDown
  BY <1>3, <1>4 DEF CreatePlugNode, ConnsOf
<1>7. M \in Object(M)
  BY <1>2, <1>1 DEF Object
<1>8. /\ contact' \in Pointer(M) /\ localContactID' \in Nat
      /\ todo' \in Seq(CallOf(M, C))
  <2>1. CASE contact = Null
    <3>1. contact' = M /\ localContactID' = localContactID /\ todo' = <<>>
      BY <1>5, <2>1 DEF CreatePlugNode
    <3> QED  BY <1>3, <1>7, <3>1, FewCalls DEF Pointer
  <2>2. CASE contact # Null
    <3>1. /\ contact' = contact /\ localContactID' = localContactID + 1
          /\ todo' = <<Join(contact, M, localContactID')>>
      BY <1>5, <2>2 DEF CreatePlugNode
    <3>2. contact \in Object(M)
      BY <1>3, <1>4, <2>2 DEF Pointer
    <3>3. localContactID' \in Nat /\ contact' \in Pointer(M)
      BY <1>3, <1>4, <3>1
    <3>4. Join(contact, M, localContactID') \in CallOf(M, C)
      BY <1>7, <3>2, <3>3, CallsOf
    <3> QED  BY <3>1, <3>3, <3>4, FewCalls
  <2> QED  BY <2>1, <2>2
<1>9. NetworkTyped(M, C)'
  BY <1>3, <1>5, <1>6, <1>8 DEF NetworkTyped, CallsTyped
<1> QED  BY <1>1, <1>9

\* The numbers of objects are those of the two lists.
LEMMA LengthsTyped ==
    ASSUME NEW N \in Nat, NEW C \in Nat, NetworkTyped(N, C)'
    PROVE  TypedInv'
<1>1. Len(nodes') = N
  BY DEF NetworkTyped, NodesOf, Object
<1>2. Len(conns') = C
  BY DEF NetworkTyped, ConnsOf, Object
<1> QED  BY <1>1, <1>2 DEF TypedInv, NetworkTyped

\* There is no object yet.
LEMMA TypedInit == Init => TypedInv
<1> SUFFICES ASSUME Init  PROVE TypedInv
  OBVIOUS
<1>1. Len(nodes) = 0 /\ Len(conns) = 0
  BY DEF Init
<1>2. Object(0) = {}
  BY DEF Object
<1>3. nodes \in NodesOf(0, 0) /\ conns \in ConnsOf(0, 0)
  BY <1>2 DEF Init, NodesOf, ConnsOf
<1>4. /\ contact \in Pointer(0) /\ localContactID \in Nat /\ shutDown \in Seq(Object(0))
      /\ todo \in Seq(CallOf(0, 0))
  BY DEF Init, Pointer
<1>5. NetworkTyped(0, 0)
  BY <1>3, <1>4 DEF NetworkTyped, CallsTyped
<1> QED  BY <1>1, <1>5 DEF TypedInv

\* Every step keeps the types, with the objects it creates.
LEMMA TypedNext == TypedInv /\ [Next]_vars => TypedInv'
<1> SUFFICES ASSUME TypedInv, [Next]_vars  PROVE TypedInv'
  OBVIOUS
<1>1. PICK N, C : N = Len(nodes) /\ C = Len(conns)
  OBVIOUS
<1>2. NetworkTyped(N, C)
  BY <1>1 DEF TypedInv
<1>3. N \in Nat /\ C \in Nat
  <2>1. nodes \in [1 .. N -> NodeOf(C)] /\ conns \in [1 .. C -> ConnOf(N, C)]
    BY <1>2 DEF NetworkTyped, NodesOf, ConnsOf, Object
  <2> QED  BY <1>1, <2>1
<1>4. CASE Step
  <2>1. CASE JoinNetwork
    <3>1. PICK D \in Nat : NetworkTyped(N, D)'
      BY <1>2, <1>3, <2>1, JoinTyped
    <3> QED  BY <1>3, <3>1, LengthsTyped
  <2>2. CASE SwitchServiceAccess \/ SwitchDone
    BY <1>2, <1>3, <2>2, SwitchTyped, SwitchedTyped, LengthsTyped
  <2>3. CASE SendCommand \/ SendContactCommand
    BY <1>2, <1>3, <2>3, SendTyped, SendContactTyped, LengthsTyped
  <2>4. CASE WritePayload \/ WriteLine
    BY <1>2, <1>3, <2>4, PayloadTyped, LineTyped, LengthsTyped
  <2>5. CASE ReceiveCheckin \/ ReceiveConnect \/ ReceiveConfirm \/ ReceiveContact
    BY <1>2, <1>3, <2>5, LinkingRead, LengthsTyped
  <2>6. CASE ReceiveSwitch \/ ReceiveDisconnect
    BY <1>2, <1>3, <2>6, PartingRead, LengthsTyped
  <2>7. CASE UnlinkConnection \/ Disconnect \/ DisconnectDone
    BY <1>2, <1>3, <2>7, DisconnectTyped, LengthsTyped
  <2>8. CASE LeaveContact \/ ShutdownConnections
    BY <1>2, <1>3, <2>8, LeaveTyped, LengthsTyped
  <2> QED  BY <1>4, <2>1, <2>2, <2>3, <2>4, <2>5, <2>6, <2>7, <2>8 DEF Step
<1>5. CASE CreatePlugNode
  <2>1. NetworkTyped(N + 1, C)' /\ N + 1 \in Nat
    BY <1>2, <1>3, <1>5, CreateTyped
  <2> QED  BY <1>3, <2>1, LengthsTyped
<1>6. CASE \E n \in DOMAIN nodes : DestroyPlugNode(n)
  <2>1. NetworkTyped(N, C)'
    BY <1>2, <1>6, DestroyTyped
  <2> QED  BY <1>3, <2>1, LengthsTyped
<1>7. CASE UNCHANGED vars
  BY <1>7 DEF vars, network, TypedInv, NetworkTyped
<1> QED  BY <1>4, <1>5, <1>6, <1>7 DEF Next

\* Every member, pointer and call keeps its type for any number of PlugNodes, more
\* than five at once included: commands are read only where a line waits, so neither
\* switches nor calls on deleted objects make an address of nothing.
THEOREM NetworkTypedInductive == Spec => []TypedInv
BY TypedInit, TypedNext, PTL DEF Spec

\* What NetworkTyped says without the numbers of objects.
LEMMA TypedIsOK == TypedInv => TypeOK /\ NullNeverFollowed
<1> SUFFICES ASSUME TypedInv  PROVE TypeOK /\ NullNeverFollowed
  OBVIOUS
<1>1. PICK N, C : N = Len(nodes) /\ C = Len(conns)
  OBVIOUS
<1>2. NetworkTyped(N, C)
  BY <1>1 DEF TypedInv
<1>3. /\ nodes \in NodesOf(N, C) /\ conns \in ConnsOf(N, C) /\ contact \in Pointer(N)
      /\ localContactID \in Nat /\ shutDown \in Seq(Object(C))
  BY <1>2 DEF NetworkTyped
<1>4. DOMAIN nodes = Object(N) /\ DOMAIN conns = Object(C)
  BY <1>3 DEF NodesOf, ConnsOf
<1>5. /\ Pointer(N) = DOMAIN nodes \cup {Null} /\ Pointer(C) = DOMAIN conns \cup {Null}
      /\ LineOf(N) = LineType
  BY <1>4 DEF Pointer, LineOf, LineType
<1>6. NodeOf(C) \subseteq NodeType
  BY <1>5 DEF NodeOf, NodeType
<1>7. ConnOf(N, C) \subseteq ConnectionType
  <2>1. Listener(N, C) \subseteq (DOMAIN nodes \cup {Null}) \X (DOMAIN conns \cup {Null})
    BY <1>4 DEF Listener
  <2> QED  BY <1>5, <2>1 DEF ConnOf, ConnectionType, State
<1>8. TypeOK
  <2>1. \A n \in DOMAIN nodes : nodes[n] \in NodeType
    BY <1>3, <1>4, <1>6, NodesTyped
  <2>2. \A k \in DOMAIN conns : conns[k] \in ConnectionType
    BY <1>3, <1>4, <1>7, ConnMembers
  <2>3. Members(shutDown) \subseteq DOMAIN conns
    <3>1. \A i \in DOMAIN shutDown : shutDown[i] \in Object(C)
      BY <1>3, ElementOfSeq, LenProperties
    <3> QED  BY <1>4, <3>1 DEF Members
  <2> QED  BY <1>3, <1>5, <2>1, <2>2, <2>3 DEF TypeOK
<1>9. NullNeverFollowed
  <2> SUFFICES ASSUME todo # <<>>  PROVE NullNeverFollowed
    BY DEF NullNeverFollowed, Quiet
  <2>1. /\ Call.call # "receive" => Call \in CallOf(N, C)
        /\ Call.call = "receive" => Call.conn \in Object(C) /\ HasLine(conns[Call.conn])
    BY <1>2, CallsNow DEF NetworkTyped
  <2>2. CASE Call.call = "receive"
    <3>1. Calls("receive")
      BY <2>2 DEF Calls, Call
    <3>2. /\ Call.conn \in DOMAIN conns /\ conns[Call.conn].lines # <<>>
          /\ Own \in DOMAIN conns /\ Receiver \in DOMAIN nodes
      BY <1>2, <1>4, <3>1, ReceiverFinds
    <3> QED  BY <2>2, <3>2 DEF NullNeverFollowed
  <2>3. CASE Call.call # "receive"
    <3>1. PICK c : c = Call
      OBVIOUS
    <3>2. c \in CallOf(N, C)
      BY <2>1, <2>3, <3>1
    <3>3. /\ c.call = "join" => c.at \in DOMAIN nodes /\ c.for \in DOMAIN nodes
          /\ c.call = "send" => c.conn \in DOMAIN conns /\ (c.other # Null => c.other \in DOMAIN conns)
          /\ c.call = "contact" => c.at \in DOMAIN nodes /\ c.conn \in DOMAIN conns
          /\ c.call \in {"payload", "line", "unlink", "setState"} => c.conn \in DOMAIN conns
      BY <1>4, <1>5, <3>2, CallMembers
    <3>4. \/ c.call \in {"join", "send", "contact", "payload", "line", "unlink", "setState"}
          \/ c.at \in DOMAIN nodes
      BY <1>4, <3>2 DEF CallOf
    <3> QED  BY <2>3, <3>1, <3>3, <3>4 DEF NullNeverFollowed
  <2> QED  BY <2>2, <2>3
<1> QED  BY <1>8, <1>9

\* The type invariant of PlugNodeNetwork, however many PlugNodes live at once.
THEOREM NetworkAlwaysTyped == Spec => []TypeOK
BY TypedIsOK, NetworkTypedInductive, PTL

\* joinNetwork(), sendCommand(), processMessage() and the destructors never run on
\* NULL, and a receiver that is called has a line to read, however often PlugNodes
\* have switched; their objects may have been deleted then, but were created.
THEOREM NullAlwaysAvoided == Spec => []NullNeverFollowed
BY TypedIsOK, NetworkTypedInductive, PTL
=============================================================================
