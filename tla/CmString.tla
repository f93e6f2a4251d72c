------------------------------ MODULE CmString ------------------------------
(***************************************************************************)
(* What the operations of class CmString do to a text, with CmLString,     *)
(* CmMString and CmUURI (Services/Basic/CmString.cpp).  What they do to    *)
(* the memory of a text is module CmBuffer's.                              *)
(*                                                                         *)
(* A text is a sequence of characters; positions count from 0 as in the    *)
(* code.  The bytes of a comparison are numbers.                           *)
(***************************************************************************)
EXTENDS Integers, SequencesExt, LeftFold

CONSTANTS
    NumBillion,        \* the block of digits that is printed at a time
    UINT64,            \* numbers are below it
    MaxDouble          \* digits of a floating point number stay below

ASSUME CmStringAssumption ==
    /\ UINT64 \in Nat \ {0} /\ MaxDouble \in Nat
    /\ NumBillion \in Nat /\ NumBillion > 1

At(text, pos) == IF pos \in 0 .. Len(text) - 1 THEN text[pos + 1] ELSE "NUL"

-----------------------------------------------------------------------------
(* Searching, and parts of a text *)

Least(S) == CHOOSE x \in S : \A y \in S : x <= y

\* findPosition(): behind the terminator if there is none.
FindPosition(text, ch, start) ==
    LET found == {i \in start .. Len(text) - 1 : At(text, i) = ch}
    IN  IF found = {} THEN Len(text) + 1 ELSE Least(found)

\* findBackwards()
FindBackwards(text, ch, start) ==
    LET found == {i \in 0 .. IF start = 0 THEN Len(text) ELSE start : At(text, i) = ch}
    IN  IF found = {} THEN Len(text) + 1 ELSE CHOOSE i \in found : \A j \in found : j <= i

\* searchPattern()
SearchPattern(text, pattern, start) ==
    LET found == {i \in start .. Len(text) - Len(pattern) : SubSeq(text, i + 1, i + Len(pattern)) = pattern}
    IN  IF start >= Len(text) \/ found = {} THEN Len(text) + 1 ELSE Least(found)

\* assignSubString()
AssignSubString(last, src, first) ==
    CASE Len(src) <= first -> <<>>
      [] Len(src) > first /\ Len(src) <= last -> SubSeq(src, first + 1, Len(src))
      [] OTHER -> SubSeq(src, first + 1, last + 1)

\* isPrefix()
IsPrefixOf(text, prefix) == Len(prefix) <= Len(text) /\ SubSeq(text, 1, Len(prefix)) = prefix

-----------------------------------------------------------------------------
(* Comparing: strncmp() with the terminator as smallest byte *)

CharAt(text, i) == IF i \in DOMAIN text THEN text[i] ELSE 0

Strncmp(a, b, n) ==
    LET different == {i \in 1 .. n : CharAt(a, i) # CharAt(b, i)}
    IN  IF different = {} THEN 0 ELSE CharAt(a, Least(different)) - CharAt(b, Least(different))

\* pText of an object without a text, and a pointer that is NULL: no text holds
\* the terminator.  getText() of such an object is the empty text.
NoText == <<0>>
CText(a) == IF a = NoText THEN <<>> ELSE a

\* operator== and operator!= of the object a.  With no text in a and an empty b
\* strcmp() is given NULL, and nothing is said of the result.
Equal(a, b) == b # NoText /\ Len(CText(a)) = Len(b) /\ Strncmp(b, CText(a), Len(b)) = 0

\* An object without a text is neither below nor above anything.
Compared(a, b) == a # NoText /\ b # NoText

\* operator<, operator<=
Below(a, b)   == Compared(a, b) /\ Len(a) <= Len(b) /\ Strncmp(b, a, Len(a)) > 0
AtMost(a, b)  == Compared(a, b) /\ Len(a) <= Len(b) /\ Strncmp(b, a, Len(a)) >= 0

\* operator>, operator>=
Above(a, b)   == Compared(a, b) /\ Len(a) >= Len(b) /\ Strncmp(b, a, Len(a)) < 0
AtLeast(a, b) == Compared(a, b) /\ Len(a) >= Len(b) /\ Strncmp(b, a, Len(a)) <= 0

-----------------------------------------------------------------------------
(* Numbers *)

Digits == <<"0", "1", "2", "3", "4", "5", "6", "7", "8", "9">>
HexDigits == Digits \o <<"A", "B", "C", "D", "E", "F">>
LowerHex == Digits \o <<"a", "b", "c", "d", "e", "f">>
IsDigit(c) == c \in ToSet(Digits)
IsHex(c) == c \in ToSet(HexDigits) \cup ToSet(LowerHex)
DigitOf(c) == (IF c \in ToSet(LowerHex) THEN CHOOSE d \in 1 .. 16 : LowerHex[d] = c
               ELSE CHOOSE d \in 1 .. 16 : HexDigits[d] = c) - 1

\* The digits of a number, the least significant one last.
TextOf[base \in {10, 16}, v \in Nat] ==
    IF v < base THEN <<HexDigits[v + 1]>> ELSE Append(TextOf[base, v \div base], HexDigits[1 + (v % base)])

Padded(v) ==
    LET width == Len(TextOf[10, NumBillion - 1])
        text  == TextOf[10, v]
    IN  [i \in 1 .. width - Len(text) |-> "0"] \o text

\* operator=(uint64), and operator=(uint32) in its last case
AssignUint(v) ==
    CASE v \div NumBillion >= NumBillion ->
           TextOf[10, (v \div NumBillion) \div NumBillion]
             \o Padded((v \div NumBillion) % NumBillion) \o Padded(v % NumBillion)
      [] v \div NumBillion < NumBillion /\ v >= NumBillion ->
           TextOf[10, v \div NumBillion] \o Padded(v % NumBillion)
      [] OTHER -> TextOf[10, v]

\* operator=(int64) and operator=(int32)
AssignInt(v) == IF v < 0 THEN <<"-">> \o AssignUint(-v) ELSE AssignUint(v)

\* uint2String(): twenty digits without the leading zeros
Uint2String(v) ==
    LET width  == Len(TextOf[10, UINT64 - 1])
        digits == [i \in 1 .. width |-> Digits[1 + ((v \div 10 ^ (width - i)) % 10)]]
        zeros  == {i \in 0 .. width - 1 : \A k \in 1 .. i : digits[k] = "0"}
    IN  AssignSubString(width - 1, digits, CHOOSE i \in zeros : \A j \in zeros : j <= i)

\* uint2hex() and hex2uint64()
Uint2Hex(v) == TextOf[16, v]
Hex2Uint(text) ==
    FoldAlong(LAMBDA v, c : (16 * v + IF IsHex(c) THEN DigitOf(c) ELSE 0) % UINT64, 0, text)

\* The number in front of a space, which has been multiplied already.
BeforeSpace(num, base) == num \div base

\* getNumAsUint64(): the number is multiplied before the character is looked at.
NumAsUint(text) ==
    LET stop(u, num, isError) == [u EXCEPT !.num = num, !.ended = TRUE, !.isConversionError = isError]
        turn(u, c) ==
            LET num == (u.num * u.base) % UINT64
            IN  CASE c = "NUL" -> stop(u, u.num, TRUE)
                  [] IsDigit(c) -> [u EXCEPT !.num = (num + DigitOf(c)) % UINT64]
                  [] c = " " -> IF num = 0 THEN [u EXCEPT !.num = 0] ELSE stop(u, BeforeSpace(num, u.base), FALSE)
                  [] c \in {"x", "X"} -> IF num # 0 THEN stop(u, 0, TRUE) ELSE [u EXCEPT !.num = 0, !.base = 16]
                  [] IsHex(c) /\ ~IsDigit(c) /\ u.base = 16 -> [u EXCEPT !.num = (num + DigitOf(c)) % UINT64]
                  [] OTHER -> stop(u, IF num = 0 THEN 0 ELSE num \div u.base, TRUE)
        u == FoldAlong(LAMBDA k, c : IF k.ended THEN k ELSE turn(k, c),
                      [num |-> 0, base |-> 10, ended |-> FALSE, isConversionError |-> TRUE], text)
    IN  [num |-> u.num, isConversionError |-> u.ended /\ u.isConversionError]

\* getNumAsInt32() of a part of the text
NumAsInt(text, first, last) ==
    LET isNegative == At(text, first) = "-"
        n == NumAsUint(AssignSubString(last, text, IF isNegative THEN first + 1 ELSE first)).num
    IN  IF isNegative THEN -n ELSE n

\* The parts put together: the number times a power of ten.
DoubleOf(d) ==
    LET n == IF d.fractionLength = 0 THEN 0 ELSE d.fractionLength - 1
    IN  [number |-> d.sign * (d.value * 10 ^ n + d.fraction), exponent |-> d.expoSign * d.exponent - n,
         isConversionError |-> d.unexpected]

\* getNumAsDouble()
NumAsDouble(text) ==
    LET signOf(d) == IF d.part = "exponent" \/ d.isExponent THEN d.expoSign ELSE d.sign
        refused(d, i) ==
            \/ signOf(d) # 1
            \/ d.part = "fraction"
            \/ d.part = "value" /\ i > 1
            \/ d.part = "exponent" /\ d.exponent > 0
        counted(d) == IF d.part = "fraction" THEN [d EXCEPT !.fractionLength = @ + 1] ELSE d
        turn(d, i) ==
            LET c == text[i]
            IN  CASE \E p \in {"value", "fraction", "exponent"} : d[p] > MaxDouble -> [d EXCEPT !.failed = TRUE]
                  [] c = "NUL" \/ (c = " " /\ d[d.part] # 0) -> [d EXCEPT !.finished = TRUE]
                  [] c = " " /\ d[d.part] = 0 -> d
                  [] IsDigit(c) -> counted([d EXCEPT ![d.part] = @ * 10 + DigitOf(c)])
                  [] c = "+" -> counted(d)
                  [] c = "-" -> IF refused(d, i) THEN [d EXCEPT !.failed = TRUE]
                                ELSE IF d.isExponent THEN [d EXCEPT !.expoSign = -1]
                                ELSE [d EXCEPT !.sign = -1]
                  [] c \in {".", ","} -> counted([d EXCEPT !.part = "fraction"])
                  [] c \in {"e", "E"} -> [d EXCEPT !.part = "exponent", !.isExponent = TRUE]
                  [] OTHER -> IF d[d.part] = 0 THEN counted([d EXCEPT !.unexpected = TRUE])
                              ELSE [d EXCEPT !.unexpected = TRUE, !.finished = TRUE]
        d == FoldAlong(LAMBDA k, i : IF k.failed \/ k.finished THEN k ELSE turn(k, i),
                      [part |-> "value", value |-> 0, fraction |-> 0, exponent |-> 0, fractionLength |-> 0,
                       sign |-> 1, expoSign |-> 1, isExponent |-> FALSE, failed |-> FALSE, finished |-> FALSE,
                       unexpected |-> FALSE],
                      [i \in DOMAIN text |-> i])
    IN  IF d.failed THEN [number |-> 0, exponent |-> 0, isConversionError |-> TRUE] ELSE DoubleOf(d)

-----------------------------------------------------------------------------
(* Match(): p is the position in the pattern, s in the memory the text is  *)
(* in, which goes on behind its terminator.                                *)

Word == {"t", "_"}
White == {" ", "LF", "CR"}

\* strchr() also finds the terminator.
ClassOf(c) ==
    CASE c = "s" -> White \cup {"NUL"}
      [] c = "d" -> ToSet(Digits) \cup {"NUL"}
      [] c = "w" -> Word \cup {"NUL"}
      [] OTHER -> {c}

\* What the element at p matches: a set of characters, whether it may skip one,
\* and where the pattern goes on.  A point keeps the character matched before.
Element(pattern, p, char) ==
    LET next == At(pattern, p)
    IN  CASE At(pattern, p - 1) = "." ->
               [set |-> {char}, char |-> char, skip |-> TRUE, step |-> IF next = "+" THEN 1 ELSE 0,
                p |-> IF next \in {"*", "+"} THEN p + 1 ELSE p]
          [] At(pattern, p - 1) = "\\" ->
               [set |-> ClassOf(next), char |-> IF next \in {"s", "d", "w"} THEN char ELSE next,
                skip |-> FALSE, step |-> 0, p |-> p + 1]
          [] OTHER ->
               [set |-> {At(pattern, p - 1)}, char |-> At(pattern, p - 1), skip |-> FALSE, step |-> 0, p |-> p]

\* How many characters from s on are in the set.
Run(memory, s, set) ==
    Least({n \in 0 .. Len(memory) : s + n >= Len(memory) \/ At(memory, s + n) \notin set})

Match(memory, pattern) ==
    LET turn(m) ==
            LET c == At(pattern, m.p)
                e == Element(pattern, m.p + 1, m.char)
                modifier == At(pattern, e.p)
                least == IF modifier \in {"*", "?"} THEN 0 ELSE 1
                run   == Run(memory, m.s + e.step, e.set)
                n     == IF modifier \in {"*", "+"} \/ run = 0 THEN run ELSE 1
                p     == IF modifier \in {"*", "+", "?"} THEN e.p + 1 ELSE e.p
            IN  CASE c = "NUL" -> [m EXCEPT !.ended = TRUE]
                  [] c = "("   -> [m EXCEPT !.first = m.s, !.p = @ + 1]
                  [] c = ")"   -> [m EXCEPT !.groups = Append(@, SubSeq(memory, m.first + 1, m.s)), !.p = @ + 1]
                  [] OTHER ->
                       IF n < least /\ ~e.skip THEN [m EXCEPT !.ended = TRUE]
                       ELSE [m EXCEPT !.p = p, !.char = e.char,
                                      !.s = @ + e.step + IF n < least THEN 1 ELSE n]
    IN  FoldAlong(LAMBDA m, k : IF m.ended THEN m ELSE turn(m),
                 [p |-> 0, s |-> 0, first |-> 0, char |-> " ", groups |-> <<>>, ended |-> FALSE], pattern).groups

\* IP2String() of the four bytes of an address
IP2String(ip, port) ==
    LET text == FoldAlong(LAMBDA t, b : t \o AssignInt(b) \o <<".">>, <<>>, ip)
    IN  [text EXCEPT ![Len(text)] = ":"] \o AssignInt(port)

\* CmServiceConnection::ip2host(): the bytes, or none.
Ip2Host(memory) ==
    LET groups == Match(memory, <<"(", "\\", "d", "+", ")", ".", "(", "\\", "d", "+", ")", ".",
                                  "(", "\\", "d", "+", ")", ".", "(", "\\", "d", "+", ")">>)
    IN  IF Len(groups) = 4 THEN [i \in 1 .. 4 |-> NumAsUint(groups[i]).num] ELSE <<0, 0, 0, 0>>

-----------------------------------------------------------------------------
(* CmMString, CmLString and the lines of a text *)

\* Fault: the first delimiter ends the part although it is empty.
NextDelimitedFirst(source, delimiters, position) ==
    LET ends == {i \in position .. Len(source) - 1 : At(source, i) \in delimiters}
        end  == IF ends = {} THEN Len(source) ELSE Least(ends)
    IN  [found |-> position < Len(source), text |-> SubSeq(source, position + 1, end), position |-> end]

\* getNextDelimitedString(): delimiters in front of the part are skipped.
NextDelimited(source, delimiters, position) ==
    LET starts == {i \in position .. Len(source) - 1 : At(source, i) \notin delimiters}
        start  == IF starts = {} THEN Len(source) ELSE Least(starts)
        ends   == {i \in start .. Len(source) - 1 : At(source, i) \in delimiters}
        end    == IF ends = {} THEN Len(source) ELSE Least(ends)
    IN  [found |-> position < Len(source), text |-> SubSeq(source, start + 1, end), position |-> end]

\* allLines(): the next line with its end, without the first offset characters.
NextLine(source, offset, lineStart) ==
    LET lineEnd == SearchPattern(source, <<"LF">>, lineStart)
    IN  [found |-> lineEnd < Len(source), lineStart |-> lineEnd + 1,
         line |-> IF offset < lineEnd THEN AssignSubString(lineEnd, source, lineStart + offset) ELSE <<>>]

\* addString(): an empty first element is used.
AddString(list, text) ==
    IF list = <<>> THEN <<text>> ELSE IF list[1] = <<>> THEN [list EXCEPT ![1] = text] ELSE Append(list, text)

\* getSize()
SizeOf(list) == IF list # <<>> /\ list[1] = <<>> THEN Len(list) - 1 ELSE Len(list)

\* getLowestString(): the shortest texts, and the lowest of them.
LowestString(list) ==
    list[FoldAlong(LAMBDA k, i : IF Len(list[i]) < Len(list[k])
                                   \/ (Len(list[i]) = Len(list[k]) /\ Strncmp(list[i], list[k], Len(list[i])) < 0)
                                THEN i ELSE k,
                  1, [i \in 1 .. SizeOf(list) |-> i])]

\* getMatchingString()
MatchingString(list, pattern) ==
    LET found == SelectInSeq(SubSeq(list, 1, SizeOf(list)), LAMBDA t : SearchPattern(t, pattern, 0) < Len(t))
    IN  IF found = 0 THEN <<>> ELSE list[found]

-----------------------------------------------------------------------------
(* CmUURI: <operator>@<locator>_<city>.<subject> *)

\* isUURI()
IsUURI(uuri) ==
    LET at == FindPosition(uuri, "@", 0)
    IN  /\ at < Len(uuri)
        /\ At(uuri, at - 1) # "\\"
        /\ FindPosition(uuri, "@", at + 1) >= Len(uuri)
        /\ \A c \in {":", "=", ",", ";"} : at <= FindPosition(uuri, c, 0)

\* setUURI() of a root and a name: one slash between them.
JoinUURI(uuri, root) ==
    CASE At(root, Len(root) - 1) = "/" /\ At(uuri, 0) = "/" -> AssignSubString(Len(root) - 2, root, 0) \o uuri
      [] root # <<>> /\ At(root, Len(root) - 1) # "/" /\ At(uuri, 0) # "/" /\ uuri # <<>> ->
           root \o <<"/">> \o uuri
      [] OTHER -> root \o uuri

\* setUURI() of components
SetUURI(operator, locator, site, subject) ==
    operator \o <<"@">> \o locator \o <<"_">> \o site \o <<".">> \o subject

PosAt(uuri) == FindPosition(uuri, "@", 0)

GetOperator(uuri) == AssignSubString(PosAt(uuri) - 1, uuri, 0)
GetLocation(uuri) == AssignSubString(FindPosition(uuri, ".", PosAt(uuri)) - 1, uuri, PosAt(uuri) + 1)
GetLocator(uuri)  == AssignSubString(FindPosition(uuri, "_", PosAt(uuri)) - 1, uuri, PosAt(uuri) + 1)

GetSite(uuri) ==
    LET dash == FindPosition(uuri, "_", PosAt(uuri))
    IN  AssignSubString(FindPosition(uuri, ".", dash) - 1, uuri, dash + 1)

GetSubject(uuri) ==
    AssignSubString(FindPosition(uuri, "/", 0) - 1, uuri, FindPosition(uuri, ".", PosAt(uuri)) + 1)

\* getConfig(), and getTextDir() of all characters
GetTextDir(text) == [i \in DOMAIN text |-> IF text[i] = "/" THEN "_" ELSE text[i]]
GetConfig(uuri) == GetTextDir(AssignSubString(Len(uuri), uuri, FindPosition(uuri, ".", PosAt(uuri)) + 1))

\* setSubject()
SetSubject(uuri, subject) == SetUURI(GetOperator(uuri), GetLocator(uuri), GetSite(uuri), subject)
=============================================================================
