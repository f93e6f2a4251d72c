--------------------------- MODULE IndexedValues ---------------------------
(***************************************************************************)
(* What a matrix promises: every position holds at most one value, whether *)
(* or not there are further positions below it.  Storing a value changes   *)
(* its position only.                                                      *)
(***************************************************************************)
EXTENDS Naturals, Sequences

CONSTANTS
    Positions,         \* sequences of numbers
    Values,
    Nothing            \* is at a position without a value

VARIABLE content       \* the value at each position

Below(p, q) == Len(p) < Len(q) /\ SubSeq(q, 1, Len(p)) = p

Init == content = [p \in Positions |-> Nothing]

\* A value is stored at a position.
Stored(c) == {[c EXCEPT ![p] = v] : p \in Positions, v \in Values}

\* All below p is removed, the value at p itself may be.
Removed(c) ==
    {[q \in Positions |-> IF Below(p, q) \/ (q = p /\ all) THEN Nothing ELSE c[q]] :
       p \in Positions, all \in BOOLEAN}

Next == content' \in Stored(content) \cup Removed(content)

Spec == Init /\ [][Next]_content
=============================================================================
