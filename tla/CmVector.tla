------------------------------ MODULE CmVector ------------------------------
(***************************************************************************)
(* CmVector of Services/Basic/CmString.h: a vector that grows when it is   *)
(* read or written beyond its length.  Memory is taken in whole blocks, so *)
(* there is room beyond the length, which a later access makes visible.    *)
(* Positions count from 0, "data" has the element i at i + 1.              *)
(***************************************************************************)
EXTENDS Naturals, Sequences

CONSTANT Size4k        \* elements in a block of memory

ASSUME VectorAssumption == Size4k \in Nat \ {0, 1}

NewVector == [data |-> <<>>, Length |-> 0]

\* adjustSize(): 1.6 times the length, rounded up to whole blocks.
NewSize(length) ==
    LET size == (16 * length) \div 10
    IN  Size4k * (1 + IF size = 0 THEN 0 ELSE (size - 1) \div Size4k)

Zeros(n, zero) == [i \in 1 .. n |-> zero]

\* Fault: what is beyond the new length is kept.
AdjustSizeKept(v, length, zero) ==
    LET size == NewSize(length)
        kept == IF Len(v.data) < size THEN Len(v.data) ELSE size
    IN  [data |-> SubSeq(v.data, 1, kept) \o Zeros(size - kept, zero), Length |-> length]

AdjustSize(v, length, zero) ==
    LET kept == IF v.Length < length THEN v.Length ELSE length
    IN  [data |-> SubSeq(v.data, 1, kept) \o Zeros(NewSize(length) - kept, zero), Length |-> length]

SetLength(v, length, zero) ==
    IF length < v.Length \/ length > Len(v.data) THEN AdjustSize(v, length, zero)
    ELSE [v EXCEPT !.Length = length]

\* operator[]: what an access does to the vector, reading included.
At(v, i, zero) ==
    LET w == IF Len(v.data) < i + 1 THEN AdjustSize(v, i + 1, zero) ELSE v
    IN  IF w.Length < i + 1 THEN [w EXCEPT !.Length = i + 1] ELSE w

Put(v, i, value, zero) == [At(v, i, zero) EXCEPT !.data[i + 1] = value]
=============================================================================
