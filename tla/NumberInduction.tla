--------------------------- MODULE NumberInduction ---------------------------
(***************************************************************************)
(* Induction over the numbers, stated about sets of numbers: an induction  *)
(* step is a fact about the set of those numbers that have the property.   *)
(***************************************************************************)
EXTENDS Integers, WellFoundedInduction, TLAPS

LEMMA FirstOfNumbers ==
    ASSUME NEW N \in SUBSET Nat, N # {}
    PROVE  \E i \in N : \A j \in N : i <= j
<1> DEFINE Less == {p \in Nat \X Nat : p[1] < p[2]}
<1>1. IsWellFoundedOn(Less, Nat)
  BY NatLessThanWellFounded DEF OpToRel
<1>2. PICK i \in N : \A j \in N : ~ (<<j, i>> \in Less)
  BY <1>1, WFMin
<1>3. \A j \in N : ~ (j < i)
  BY <1>2
<1> QED
  BY <1>3

LEMMA AllNumbers ==
    ASSUME NEW N \in SUBSET Nat, 0 \in N, \A k \in Nat : k \in N => k + 1 \in N
    PROVE  N = Nat
<1> SUFFICES ASSUME Nat \ N # {} PROVE FALSE
  OBVIOUS
<1>1. PICK i \in Nat \ N : \A j \in Nat \ N : i <= j
  BY FirstOfNumbers
<1>2. i # 0 /\ i - 1 \in Nat
  BY <1>1
<1>3. i - 1 \in N
  BY <1>1, <1>2
<1>4. i - 1 + 1 \in N /\ i - 1 + 1 = i
  BY <1>2, <1>3
<1> QED
  BY <1>1, <1>4

\* The first of the values f of S is a, and g makes the others, each of the one
\* before it: there are such values for every number n.
MadeInTurn(f, S, a, g, n) ==
    f \in [0 .. n -> S] /\ f[0] = a /\ \A i \in 1 .. n : f[i] = g[<<i, f[i - 1]>>]

LEMMA NumberRecursion ==
    ASSUME NEW S, NEW a \in S, NEW g \in [Nat \X S -> S], NEW n \in Nat
    PROVE  \E f : MadeInTurn(f, S, a, g, n)
<1> DEFINE K == {j \in Nat : \E f \in [0 .. j -> S] : f[0] = a /\ \A i \in 1 .. j : f[i] = g[<<i, f[i - 1]>>]}
<1>1. 0 \in K
  <2> DEFINE f == [i \in 0 .. 0 |-> a]
  <2>1. f \in [0 .. 0 -> S] /\ f[0] = a
    OBVIOUS
  <2>2. \A i \in 1 .. 0 : f[i] = g[<<i, f[i - 1]>>]
    OBVIOUS
  <2> HIDE DEF f
  <2> QED
    BY <2>1, <2>2
<1>2. ASSUME NEW j \in Nat, j \in K
      PROVE  j + 1 \in K
  <2>1. PICK f \in [0 .. j -> S] : f[0] = a /\ \A i \in 1 .. j : f[i] = g[<<i, f[i - 1]>>]
    BY <1>2
  <2> DEFINE next == g[<<j + 1, f[j]>>]
             h    == [i \in 0 .. j + 1 |-> IF i = j + 1 THEN next ELSE f[i]]
  <2>2. next \in S
    <3>1. <<j + 1, f[j]>> \in Nat \X S
      OBVIOUS
    <3> QED
      BY <3>1
  <2>3. h \in [0 .. j + 1 -> S] /\ h[j + 1] = next /\ \A i \in 0 .. j : h[i] = f[i]
    BY <2>2
  <2> HIDE DEF h
  <2>4. \A i \in 1 .. j + 1 : h[i] = g[<<i, h[i - 1]>>]
    <3> TAKE i \in 1 .. j + 1
    <3>1. CASE i = j + 1
      <4>1. h[i - 1] = f[j]
        BY <2>3, <3>1
      <4> QED
        BY <2>3, <3>1, <4>1
    <3>2. CASE i # j + 1
      <4>1. i \in 1 .. j /\ i \in 0 .. j /\ i - 1 \in 0 .. j
        BY <3>2
      <4> QED
        BY <2>1, <2>3, <4>1
    <3> QED
      BY <3>1, <3>2
  <2>5. h[0] = a
    BY <2>1, <2>3
  <2> QED
    BY <2>3, <2>4, <2>5
<1>3. K \in SUBSET Nat
  OBVIOUS
<1> HIDE DEF K
<1>4. K = Nat
  BY <1>1, <1>2, <1>3, AllNumbers
<1>5. n \in K
  BY <1>4
<1> QED
  BY <1>5 DEF K, MadeInTurn
=============================================================================
