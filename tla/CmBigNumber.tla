---------------------------- MODULE CmBigNumber ----------------------------
(***************************************************************************)
(* Arithmetic with numbers of any length, the long operations of           *)
(* CmValueFTL.cpp on texts of digits.  A number is the sequence of its     *)
(* digits, each a character less '0': a minus sign is -3.                  *)
(*                                                                         *)
(* Both operands are numbers (TypeX TYPEFTL_NUMBER); for any other the     *)
(* code compares to false and calculates a constant.                       *)
(***************************************************************************)
LOCAL INSTANCE Integers
LOCAL INSTANCE SequencesExt
LOCAL INSTANCE LeftFold

MinusSign == -3

Zeros(n) == [i \in 1 .. n |-> 0]

\* strcmp() of two numbers of the same length
SmallerText(a, b) ==
    \E i \in DOMAIN a : a[i] < b[i] /\ \A k \in 1 .. i - 1 : a[k] = b[k]

\* operator>, operator<, operator>= and operator<=
NumAbove(a, b)   == Len(a) > Len(b) \/ (Len(a) = Len(b) /\ SmallerText(b, a))
NumBelow(a, b)   == Len(a) < Len(b) \/ (Len(a) = Len(b) /\ SmallerText(a, b))
NumAtLeast(a, b) == Len(a) > Len(b) \/ (Len(a) = Len(b) /\ ~SmallerText(a, b))
NumAtMost(a, b)  == Len(a) < Len(b) \/ (Len(a) = Len(b) /\ ~SmallerText(b, a))

\* setLength() and the copy of A: room for one more digit than the longer operand
Widened(a, b) ==
    Zeros((IF Len(a) >= Len(b) THEN Len(a) ELSE Len(b)) + 1 - Len(a)) \o a

\* Fault: the carry is lost behind the next place.
AddAtOnce(digits, place, v) ==
    IF place = 0 THEN digits
    ELSE LET sum == v + digits[place]
             new == [digits EXCEPT ![place] = sum % 10]
         IN  IF sum \div 10 = 0 \/ place = 1 THEN new
             ELSE [new EXCEPT ![place - 1] = (@ + 1) % 10]

\* The digit v is added at a place, the carry at those in front of it.
RECURSIVE AddAt(_, _, _)
AddAt(digits, place, v) ==
    IF place = 0 THEN digits
    ELSE LET sum == v + digits[place]
             new == [digits EXCEPT ![place] = sum % 10]
         IN  IF sum \div 10 = 0 THEN new ELSE AddAt(new, place - 1, sum \div 10)

\* operator+: one leading zero is removed.
Plus(a, b) ==
    LET wide == Widened(a, b)
        sum  == FoldAlong(LAMBDA r, i : AddAt(r, Len(wide) - (Len(b) - i), b[i]),
                         wide, Reverse([i \in DOMAIN b |-> i]))
    IN  IF Head(sum) = 0 THEN Tail(sum) ELSE sum

\* The digit v and a carry are subtracted at a place; the first place is left.
RECURSIVE SubtractAt(_, _, _, _)
SubtractAt(digits, place, v, carry) ==
    IF place <= 1 THEN digits
    ELSE LET value == digits[place] - carry
             next  == IF value < v THEN 1 ELSE 0
             new   == [digits EXCEPT ![place] = value - v + 10 * next]
         IN  IF next = 0 THEN new ELSE SubtractAt(new, place - 1, 0, 1)

\* operator-: the smaller number is subtracted; all leading zeros are removed.
Minus(x, y) ==
    LET negative == ~NumAtLeast(x, y)
        a    == IF negative THEN y ELSE x
        b    == IF negative THEN x ELSE y
        wide == Widened(a, b)
        dif  == FoldAlong(LAMBDA r, i : SubtractAt(r, Len(wide) - (Len(b) - i), b[i], 0),
                         wide, Reverse([i \in DOMAIN b |-> i]))
        kept == {i \in 1 .. Len(dif) : i = Len(dif) \/ dif[i] # 0}
        cut  == SubSeq(dif, CHOOSE i \in kept : \A k \in kept : i <= k, Len(dif))
    IN  IF negative THEN <<MinusSign>> \o cut ELSE cut

\* operator*: as many digits as both operands have; leading zeros stay.
Times(a, b) ==
    LET places == [k \in 1 .. Len(a) * Len(b) |->
                      <<Len(a) - ((k - 1) \div Len(b)), Len(b) - ((k - 1) % Len(b))>>]
    IN  FoldAlong(LAMBDA r, p : AddAt(r, p[1] + p[2], a[p[1]] * b[p[2]]),
                 Zeros(Len(a) + Len(b)), places)

\* "btree compare": the digit of the largest multiple that is not above the rest
DigitFound(multiples, rest) ==
    LET above(d) == NumAbove(multiples[d], rest)
    IN  CASE above(5) /\ above(2)    -> IF above(1) THEN 0 ELSE 1
          [] above(5) /\ ~above(2) /\ above(4) -> IF above(3) THEN 2 ELSE 3
          [] above(5) /\ ~above(2) /\ ~above(4) -> 4
          [] ~above(5) /\ above(8) /\ above(7) -> IF above(6) THEN 5 ELSE 6
          [] ~above(5) /\ above(8) /\ ~above(7) -> 7
          [] OTHER -> IF above(9) THEN 8 ELSE 9

\* operator/ with the member Remainder: in each round the multiples of the divisor
\* lose their last digit; multiple 0 consists of zeros, as many as are left.
DivideBy(a, b) ==
    LET rounds == Len(a) - Len(b) + 1
        fill   == IF rounds > 0 THEN rounds ELSE 1
        first  == b \o Zeros(rounds)
        times[d \in 0 .. 9] ==
            CASE d = 0 -> Zeros(rounds) [] d = 1 -> first [] OTHER -> Plus(times[d - 1], first)
        cut(s, i) == SubSeq(s, 1, Len(s) - i)
        round(r, i) ==
            LET multiples == [d \in 0 .. 9 |-> IF d = 0 /\ i = rounds THEN <<0>> ELSE cut(times[d], i)]
                digit     == DigitFound(multiples, r.rest)
            IN  [digits |-> Append(r.digits, digit), rest |-> Minus(r.rest, multiples[digit])]
        all == FoldAlong(round, [digits |-> <<>>, rest |-> a], [i \in 1 .. rounds |-> i])
    IN  IF NumBelow(a, b) THEN [quotient |-> Zeros(fill), remainder |-> a]
        ELSE [quotient |-> IF Head(all.digits) = 0 THEN Tail(all.digits) ELSE all.digits,
              remainder |-> all.rest]

\* operator%
Modulo(a, b) == DivideBy(a, b).remainder
=============================================================================
