------------------------------- MODULE MCText -------------------------------
(* Numbers, words, names and times that grow step by step, each written as *)
(* a text and read again; beside them what MCCodec encodes, and the memory  *)
(* of texts.  They share nothing: one of them moves at a time.              *)
EXTENDS CmTime, CmBigNumber, CmBuffer, MCCodec

CONSTANTS MaxDigits, MaxWord, MaxName, MaxPart, MaxElapsed, MaxDividend, MaxDivisor

NoForm == [value |-> <<>>, fraction |-> <<>>, exponent |-> <<>>]
NoUURI == [operator |-> <<"a">>, locator |-> <<>>, site |-> <<>>, subject |-> <<>>]
NoNames == [i \in 1 .. 3 |-> NoText]

VARIABLES
    number,            \* a number that is written by operator= and by Uint2Hex
    form,              \* the digits of a floating point number
    ip,                \* the bytes of an address
    words,             \* a text of words and delimiters
    names,             \* three objects, with or without a text, that are compared
    uuri,              \* the components of a UURI
    elapsed,           \* the steps in which time has passed
    operands           \* the digits of two long numbers

written == <<number, form, ip, words, names, uuri, elapsed, operands>>

InitText ==
    /\ number = 0 /\ form = NoForm /\ ip = <<>> /\ words = <<>>
    /\ names = NoNames /\ uuri = NoUURI /\ elapsed = <<>>
    /\ operands = << <<>>, <<>> >>

Idle(kind) ==
    /\ kind = "number"  \/ number = 0
    /\ kind = "form"    \/ form = NoForm
    /\ kind = "ip"      \/ ip = <<>>
    /\ kind = "words"   \/ words = <<>>
    /\ kind = "names"   \/ names = NoNames
    /\ kind = "uuri"    \/ uuri = NoUURI
    /\ kind = "elapsed" \/ elapsed = <<>>
    /\ kind = "operands" \/ operands = << <<>>, <<>> >>

AddDigit(d) ==
    /\ Idle("number") /\ 10 * number + d < UINT64
    /\ number' = 10 * number + d
    /\ UNCHANGED <<form, ip, words, names, uuri, elapsed, operands>>

AddPlace(part, d) ==
    /\ Idle("form") /\ Len(form[part]) < MaxDigits
    /\ form' = [form EXCEPT ![part] = Append(@, d)]
    /\ UNCHANGED <<number, ip, words, names, uuri, elapsed, operands>>

AddByte(b) ==
    /\ Idle("ip") /\ Len(ip) < 4
    /\ ip' = Append(ip, b)
    /\ UNCHANGED <<number, form, words, names, uuri, elapsed, operands>>

AddChar(c) ==
    /\ Idle("words") /\ Len(words) < MaxWord
    /\ words' = Append(words, c)
    /\ UNCHANGED <<number, form, ip, names, uuri, elapsed, operands>>

\* setText("")
GiveText(i) ==
    /\ Idle("names") /\ names[i] = NoText
    /\ names' = [names EXCEPT ![i] = <<>>]
    /\ UNCHANGED <<number, form, ip, words, uuri, elapsed, operands>>

AddLetter(i, b) ==
    /\ Idle("names") /\ names[i] # NoText /\ Len(names[i]) < MaxName
    /\ names' = [names EXCEPT ![i] = Append(@, b)]
    /\ UNCHANGED <<number, form, ip, words, uuri, elapsed, operands>>

\* A component holds no character that ends it; getSubject() ends at the first
\* slash, that of an operator included.
PartChars == [operator |-> {"a", "_", "."}, locator |-> {"b", ":"}, site |-> {"c", "_"},
              subject |-> {"d", ".", "_"}]

AddPart(part, c) ==
    /\ Idle("uuri") /\ c \in PartChars[part] /\ Len(uuri[part]) < MaxPart
    /\ uuri' = [uuri EXCEPT ![part] = Append(@, c)]
    /\ UNCHANGED <<number, form, ip, words, names, elapsed, operands>>

\* A minute less a second, a day less a second, four weeks, a year and a day.
Elapse(d) ==
    /\ Idle("elapsed") /\ Len(elapsed) < MaxElapsed
    /\ elapsed' = Append(elapsed, d)
    /\ UNCHANGED <<number, form, ip, words, names, uuri, operands>>

\* A number has no leading zero.
AddNumeral(i, d) ==
    /\ Idle("operands") /\ Len(operands[i]) < (IF i = 1 THEN MaxDividend ELSE MaxDivisor)
    /\ operands[i] # <<0>>
    /\ operands' = [operands EXCEPT ![i] = Append(@, d)]
    /\ UNCHANGED <<number, form, ip, words, names, uuri, elapsed>>

NextText ==
    \/ \E i \in 1 .. 2, d \in {0, 1, 4, 9} : AddNumeral(i, d)
    \/ \E d \in 0 .. 9 : AddDigit(d)
    \/ \E part \in DOMAIN NoForm, d \in {0, 1, 9} : AddPlace(part, d)
    \/ \E b \in {0, 9, 10, 255} : AddByte(b)
    \/ \E c \in {"a", " ", ".", "LF"} : AddChar(c)
    \/ \E i \in 1 .. 3 : GiveText(i) \/ \E b \in 1 .. 2 : AddLetter(i, b)
    \/ \E part \in DOMAIN NoUURI, c \in {"a", "b", "c", "d", "_", ".", ":"} : AddPart(part, c)
    \/ \E d \in {59, Daily - 1, 28 * Daily, 366 * Daily} : Elapse(d)

Init == InitText /\ InitBuffers /\ InitCodec

\* No part but one has left its initial state.
IdleText    == Idle("other")
IdleCodec   == encoded = <<<<>>, <<>>, <<>>, <<>>, DIFStart(0)>>
IdleBuffers == string = [s \in Strings |-> Fresh] /\ outlived = 0

Next ==
    \/ IdleBuffers /\ IdleCodec /\ NextText /\ UNCHANGED <<buffers, encoded>>
    \/ IdleText /\ IdleCodec /\ NextBuffers /\ UNCHANGED <<written, encoded>>
    \/ IdleText /\ IdleBuffers /\ NextCodec /\ UNCHANGED <<written, buffers>>

\* The objects are alike.
StringSymmetry == Permutations(Strings)

IsText == IdleBuffers /\ IdleCodec

Spec == Init /\ [][Next]_<<written, buffers, encoded>>

-----------------------------------------------------------------------------
(* Properties *)

DigitsValue(digits) == FoldAlong(LAMBDA v, d : 10 * v + d, 0, digits)
Spelt(digits)   == [i \in DOMAIN digits |-> Digits[digits[i] + 1]]
Right(v)        == [num |-> v, isConversionError |-> FALSE]

\* What operator= and uint2hex() write of a number is read as that number without a
\* conversion error: decimal in one, two and three blocks, hexadecimal, behind
\* blanks, and in front of one as long as ten times the number (hexadecimal:
\* sixteen times) is a number too.  uint2String() writes what operator= writes.
UintRead ==
    LET decimal == AssignUint(number)
        hex     == <<"0", "x">> \o Uint2Hex(number)
    IN  /\ Uint2String(number) = decimal
        /\ NumAsUint(decimal) = Right(number) /\ NumAsUint(<<" ">> \o decimal) = Right(number)
        /\ NumAsUint(hex) = Right(number) /\ Hex2Uint(Uint2Hex(number)) = number
        /\ number * 10 < UINT64 => NumAsUint(decimal \o <<" ">>) = Right(number)
        /\ number * 16 < UINT64 => NumAsUint(hex \o <<" ">>) = Right(number)
        /\ LET minus == AssignInt(-number) IN NumAsInt(minus, 0, Len(minus)) = -number

\* Every number of the documented forms (CmString.h, getNumAsDouble) has its
\* value: 123, -123, 12.3, 1.2e3, 1.2E-3.
DoublesRead ==
    form.value # <<>> =>
        \A minus \in BOOLEAN, minusExponent \in BOOLEAN :
            LET text == (IF minus THEN <<"-">> ELSE <<>>) \o Spelt(form.value)
                            \o (IF form.fraction = <<>> THEN <<>> ELSE <<".">> \o Spelt(form.fraction))
                            \o (IF form.exponent = <<>> THEN <<>>
                                ELSE <<"e">> \o (IF minusExponent THEN <<"-">> ELSE <<>>) \o Spelt(form.exponent))
                exponent == DigitsValue(form.exponent)
            IN  NumAsDouble(text) =
                    [number |-> (IF minus THEN -1 ELSE 1) * DigitsValue(form.value \o form.fraction),
                     exponent |-> (IF minusExponent THEN -exponent ELSE exponent) - Len(form.fraction),
                     isConversionError |-> FALSE]

\* The address a connection is named by is the address it was made of, whatever
\* the memory behind the name holds.
AddressRead ==
    Len(ip) = 4 =>
        \A tail \in {<<>>, <<"0">>, <<"t">>, <<".", "5">>, <<"NUL", "1">>} :
            Ip2Host(IP2String(ip, 80) \o <<"NUL">> \o tail) = ip

\* Every line that has an end is found with it; what follows the last end is
\* not.  An offset cuts the front of each line, and an empty first line loses its
\* end even without one: the offset is compared with its position in the text.
LinesSplit ==
    \A offset \in 0 .. 1 :
        LET ends  == SetToSortSeq({i \in DOMAIN words : words[i] = "LF"}, <)
            lines == [k \in DOMAIN ends |-> IF ends[k] <= offset + 1 THEN <<>>
                                              ELSE SubSeq(words, 1 + offset + (IF k = 1 THEN 0 ELSE ends[k - 1]), ends[k])]
            found == FoldAlong(LAMBDA r, k : LET l == NextLine(words, offset, r.start)
                                            IN  IF l.found THEN [start |-> l.lineStart, lines |-> Append(r.lines, l.line)]
                                                ELSE r,
                              [start |-> 0, lines |-> <<>>], words).lines
            last == FindBackwards(words, "LF", 0)
        IN  /\ found = lines
            /\ IF ends = <<>> THEN last = Len(words) + 1 ELSE last = Last(ends) - 1

\* The parts between delimiters are found one after the other, none missed and
\* none cut; only the last part may be empty.
WordsSplit ==
    LET delimiters == {" ", "."}
        starts == {i \in DOMAIN words : words[i] \notin delimiters /\ (i = 1 \/ words[i - 1] \in delimiters)}
        ends   == {i \in DOMAIN words : words[i] \notin delimiters /\ (i = Len(words) \/ words[i + 1] \in delimiters)}
        parts  == [k \in 1 .. Cardinality(starts) |->
                      SubSeq(words, SetToSortSeq(starts, <)[k], SetToSortSeq(ends, <)[k])]
        found  == FoldAlong(LAMBDA r, k : LET p == NextDelimited(words, delimiters, r.position)
                                         IN  IF p.found THEN [position |-> p.position, parts |-> Append(r.parts, p.text)]
                                             ELSE r,
                           [position |-> 0, parts |-> <<>>], words \o <<" ">>).parts
    IN  found = parts \/ found = Append(parts, <<>>)

\* The comparisons order the objects that have a text: what is at most another
\* is not above it, at most is antisymmetric and transitive and the reverse of at
\* least.  An object without a text (cleared, or never set) is left out of the
\* order, though the others are compared with it as with an empty text: there at
\* most and at least do not agree.
OrderAgrees ==
    LET a == names[1]
        b == names[2]
        c == names[3]
        haveTexts == NoText \notin {a, b}
    IN  /\ haveTexts => (AtMost(a, CText(b)) <=> AtLeast(b, CText(a)))
        /\ haveTexts => (AtMost(a, CText(b)) /\ AtMost(b, CText(a)) <=> Equal(a, CText(b)))
        /\ haveTexts => (IsPrefixOf(b, CText(a)) => AtMost(a, CText(b)))
        /\ AtMost(a, CText(b)) => ~Above(a, CText(b))
        /\ AtMost(a, CText(b)) /\ AtMost(b, CText(c)) => AtMost(a, CText(c))

\* A list of texts keeps every text that is not empty, its lowest one is one of
\* the shortest, and a text that contains the wanted one is found if there is any.
ListsAgree ==
    LET texts  == [i \in DOMAIN names |-> CText(names[i])]
        list   == FoldAlong(AddString, <<>>, texts)
        kept   == SubSeq(list, 1, SizeOf(list))
        wanted == texts[3]
        match  == MatchingString(list, wanted)
    IN  /\ ToSet(kept) \ {<<>>} = ToSet(texts) \ {<<>>}
        /\ kept # <<>> => /\ LowestString(list) \in ToSet(kept)
                         /\ \A t \in ToSet(kept) : Len(LowestString(list)) <= Len(t) /\ ~Below(t, LowestString(list))
        /\ wanted # <<>> => /\ match \in ToSet(kept)
                           /\ \E i \in DOMAIN match : IsPrefixOf(SubSeq(match, i, Len(match)), wanted)

\* A UURI made of components gives them back, also when the operator and the
\* subject contain its delimiters, setSubject() changes the subject only, and a
\* root and a name are joined with one slash.
UURIKept ==
    LET text == SetUURI(uuri.operator, uuri.locator, uuri.site, uuri.subject)
        new  == SetSubject(text, <<"n">>)
    IN  /\ GetOperator(text) = uuri.operator /\ GetLocator(text) = uuri.locator
        /\ GetSite(text) = uuri.site /\ GetSubject(text) = uuri.subject
        /\ GetLocation(text) = uuri.locator \o <<"_">> \o uuri.site
        /\ new = SetUURI(uuri.operator, uuri.locator, uuri.site, <<"n">>)
        /\ GetConfig(text) = uuri.subject
        /\ GetConfig(SetSubject(text, <<"n", "/", "k">>)) = <<"n", "_", "k">>
        /\ \A root \in {<<"r">>, <<"r", "/">>}, name \in {text, <<"/">> \o text} :
             JoinUURI(name, root) = <<"r", "/">> \o text
        /\ ":" \notin ToSet(uuri.operator \o uuri.locator) => IsUURI(text)

\* A text is taken apart into the words, the lines and the components it was
\* put together of, and texts are compared and listed as a whole.
PartsFound == IsText => WordsSplit /\ LinesSplit /\ UURIKept /\ OrderAgrees /\ ListsAgree

\* A time written as a text, for people or in a file name, is read as that time.
TimesRead ==
    elapsed # <<>> =>
        LET time == FoldAlong(+, 0, elapsed)
            read(text) == GetNanoSec(text)
            right(ms)  == [found |-> TRUE, seconds |-> time, milliseconds |-> ms]
        IN  /\ \A isFilename \in BOOLEAN : read(GetTimeUTC(time, -1, isFilename)) = right(0)
            /\ read(GetTimestamp(time, 250, 0, TRUE, FALSE)) = right(0)
            /\ read(GetTimeUTC(time, -1, FALSE) \o <<".", "2", "5", "0">>) = right(250)
            /\ read(GetTimeUTC(time, 3600, FALSE)).seconds = time - (time % Daily) + 3600

\* A date that is taken apart is put together again (in local time, with
\* daylight saving), and the days are counted through month and year.
DatesKept ==
    LET time  == FoldAlong(+, 0, elapsed)
        parts == Component(time, 1)
        date  == parts.date
        first == [date EXCEPT !.month = 1, !.day = 1]
    IN  /\ time > 0 =>
             /\ GetDateTimestamp(date, 0) = time - Zone - IF date.month \in 4 .. 10 THEN 3600 ELSE 0
             /\ GetDateTimestamp([first EXCEPT !.month = 13, !.day = 32], 0) = GetDateTimestamp(first, 0)
        /\ Component(time + 7 * Daily, 1).dayOfWeek = parts.dayOfWeek
        /\ time > 0 => parts.dayOfYear = 1 + (time - Seconds(first)) \div Daily

\* What is written of a number, an address or a time is read as what it was.
NumbersRead == IsText => UintRead /\ DoublesRead /\ AddressRead /\ TimesRead /\ DatesKept

\* What a text of digits says, with its sign.
Integer(digits) == IF Head(digits) = MinusSign THEN -DigitsValue(Tail(digits)) ELSE DigitsValue(digits)

\* The quotient and the remainder are those of the integers.
DividesRight(a, b) ==
    /\ DigitsValue(DivideBy(a, b).quotient) = DigitsValue(a) \div DigitsValue(b)
    /\ Integer(Modulo(a, b)) = DigitsValue(a) % DigitsValue(b)

\* While the quotient is calculated, what is left of the dividend never has
\* fewer digits than zeros are still to be appended to the divisor.
RestIsLong(a, b) ==
    \A zeros \in 2 .. Len(a) - Len(b) :
        DigitsValue(a) % (DigitsValue(b) * 10 ^ (zeros + 1)) >= 10 ^ (zeros - 1)

\* Long numbers are compared, added, subtracted, multiplied and divided as the
\* integers are; divided only if RestIsLong().
ArithmeticAgrees ==
    LET a == operands[1]
        b == operands[2]
        va == DigitsValue(a)
        vb == DigitsValue(b)
    IN  a # <<>> /\ b # <<>> =>
            /\ NumAbove(a, b) <=> va > vb
            /\ NumBelow(a, b) <=> va < vb
            /\ NumAtLeast(a, b) <=> va >= vb
            /\ NumAtMost(a, b) <=> va <= vb
            /\ Integer(Plus(a, b)) = va + vb /\ (Head(Plus(a, b)) = 0 => Plus(a, b) = <<0>>)
            /\ Integer(Minus(a, b)) = va - vb /\ Integer(Minus(b, a)) = vb - va
            /\ Integer(Times(a, b)) = va * vb
            /\ vb > 0 /\ RestIsLong(a, b) => DividesRight(a, b)

\* The test of the class (CmValueFTL.cpp, "div") compares quotients with those
\* of the 64-bit division: every quotient is that one.
QuotientAgrees ==
    operands[1] # <<>> /\ operands[2] \notin {<<>>, <<0>>} => DividesRight(operands[1], operands[2])
=============================================================================
