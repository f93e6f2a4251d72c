------------------------------- MODULE BinX -------------------------------
(***************************************************************************)
(* The binary codes of FTLight text, FTLight/CmStringFTL.cpp: BinX for     *)
(* fields and numbers, BinMCL for groups of words, BinDIF for series of    *)
(* values.  All of them are digits to the base 216.                        *)
(*                                                                         *)
(* Fields and numbers are sequences of bytes, the least significant first. *)
(***************************************************************************)
EXTENDS Integers, SequencesExt, LeftFold

CONSTANTS
    InsertAbsolute,    \* BinDIF: differences between two absolute values
    MinInt64           \* stands for a value that is missing

ASSUME BinXAssumption == InsertAbsolute \in Nat \ {0}

Radix == 216
Byte  == 0 .. 255

\* Value of a sequence of digits, and the digits of a value.
ValueOf(digits, base) == FoldRight(LAMBDA d, v : d + base * v, digits, 0)
DigitsOf(value, base, n) == [i \in 1 .. n |-> (value \div base ^ (i - 1)) % base]

CountDigits[v \in Nat] == IF v < Radix THEN 1 ELSE 1 + CountDigits[v \div Radix]

-----------------------------------------------------------------------------
(* Symbols and characters *)

\* The symbols whose character, the symbol + 32, is a delimiter.
Avoided == <<12, 13, 26, 27, 29, 32, 64, 95>>

Symbol2BinX(s) ==
    IF \E i \in DOMAIN Avoided : Avoided[i] = s
    THEN 247 + (CHOOSE i \in DOMAIN Avoided : Avoided[i] = s)
    ELSE s + 32

BinX2Symbol(b) == IF b >= 248 THEN Avoided[b - 247] ELSE (b - 32) % 256

-----------------------------------------------------------------------------
(* Fields: 31 bits become four characters *)

BitsOf(bytes) == FlattenSeq([i \in DOMAIN bytes |-> DigitsOf(bytes[i], 2, 8)])
Chunk(bits, k) == SubSeq(bits, 31 * (k - 1) + 1, IF 31 * k < Len(bits) THEN 31 * k ELSE Len(bits))
ChunkDigits(bytes) ==
    LET bits == BitsOf(bytes)
    IN  FlattenSeq([k \in 1 .. (Len(bits) + 30) \div 31 |->
                      DigitsOf(ValueOf(Chunk(bits, k), 2), Radix, 4)])

\* bin2BinX(); nDigits = 0 asks for the length that the field needs.
Bin2BinX(bytes, nDigits) ==
    LET bits == 8 * Len(bytes)
        n    == IF nDigits > 0 THEN nDigits
                ELSE 4 * (bits \div 31) + (bits % 31) \div 8 + (IF bits % 31 > 0 THEN 1 ELSE 0)
    IN  [i \in 1 .. n |-> Symbol2BinX(ChunkDigits(bytes)[i])]

\* getLengthBinX2bin()
LengthBinX2bin(lengthX, tail) ==
    LET rest == lengthX % 4
        bits == 31 * (lengthX \div 4) + (IF rest = 0 THEN 0 ELSE 8 * rest - 1)
    IN  bits \div 8 + (IF tail /\ bits < 64 /\ bits % 8 > 0 THEN 1 ELSE 0)

\* BinX2bin()
BinX2bin(binX, tail) ==
    LET quads == (Len(binX) + 3) \div 4
        quad(k) == SubSeq(binX, 4 * k - 3, IF 4 * k < Len(binX) THEN 4 * k ELSE Len(binX))
        bits == FlattenSeq([k \in 1 .. quads |->
                  DigitsOf(ValueOf([i \in DOMAIN quad(k) |-> BinX2Symbol(quad(k)[i])], Radix), 2, 31)])
        bit(i) == IF i \in DOMAIN bits THEN bits[i] ELSE 0
    IN  [n \in 1 .. LengthBinX2bin(Len(binX), tail) |-> ValueOf([i \in 1 .. 8 |-> bit(8 * n - 8 + i)], 2)]

-----------------------------------------------------------------------------
(* Numbers: 64 bits, without leading zeros *)

Resized(bytes, n, fill) == [i \in 1 .. n |-> IF i \in DOMAIN bytes THEN bytes[i] ELSE fill]

\* num2BinX()
Num2BinX(number) ==
    LET bits == BitsOf(number)
        c(k) == ValueOf(Chunk(bits, k), 2)
    IN  Bin2BinX(number, IF c(3) > 0 THEN 9 ELSE IF c(2) > 0 THEN 4 + CountDigits[c(2)]
                         ELSE CountDigits[c(1)])

\* BinX2num()
BinX2num(binX) == Resized(BinX2bin(binX, TRUE), 8, 0)

Signed == {"INT64", "INT32", "INT16", "INT8"}
Width(format) ==
    CASE format \in {"UINT64", "INT64", "DOUBLE"} -> 8
      [] format \in {"UINT32", "INT32", "FLOAT"}  -> 4
      [] format \in {"UINT16", "INT16"}           -> 2
      [] format \in {"UINT8", "INT8", "BOOL"}     -> 1

\* encodeNumX() of all formats: the cast to 64 bits extends the sign.
EncodeNumX(bytes, format) ==
    Num2BinX(Resized(bytes, 8, IF format \in Signed /\ Last(bytes) >= 128 THEN 255 ELSE 0))

\* decodeNumX2uint64() and the casts of the other formats.
DecodeNumX(binX, format) ==
    LET number == BinX2num(binX)
    IN  IF format = "BOOL" THEN <<IF \E i \in 1 .. 8 : number[i] > 0 THEN 1 ELSE 0>>
        ELSE Resized(number, Width(format), 0)

-----------------------------------------------------------------------------
(* BinMCL: the lower 15 bits of each word, then a word of their upper bits *)

Low(w) == w % 32768
High(w) == w \div 32768
Convert(v) == 256 * Symbol2BinX(v \div Radix) + Symbol2BinX(v % Radix)
Restore(x) == Radix * BinX2Symbol(x \div 256) + BinX2Symbol(x % 256)

\* bin2BinMCL() of one group
Bin2BinMCL(words) ==
    Append([i \in 1 .. 15 |-> Convert(Low(words[i]))],
           Convert(ValueOf([i \in 1 .. 15 |-> High(words[16 - i])], 2)))

\* BinMCL2bin() of one group
BinMCL2bin(codes) ==
    [i \in 1 .. 15 |-> Restore(codes[i]) + 32768 * DigitsOf(Restore(codes[16]), 2, 15)[16 - i]]

-----------------------------------------------------------------------------
(* BinDIF: differences, repetitions of them, and absolute values *)

\* getDigits216(): the fewest digits that leave room for the sign.  The code
\* supports up to eight.
Abs(v) == IF v < 0 THEN -v ELSE v
Digits216(v) == CountDigits[2 * Abs(v)]

DIFStart(first) ==
    [out |-> <<>>, pos |-> 1, prevVal |-> first, repetition |-> 210, prev |-> 210,
     prevPrev |-> 210, count |-> InsertAbsolute]

Put(out, pos, symbol) == IF pos \in DOMAIN out THEN [out EXCEPT ![pos] = symbol] ELSE Append(out, symbol)

\* A running repetition is left behind.
Finished(e) == IF e.repetition > 210 THEN [e EXCEPT !.repetition = 210, !.pos = @ + 1] ELSE e

PutAbsolute(e, value) ==
    LET n == Digits216(value)
        digits == DigitsOf(IF value < 0 THEN value + Radix ^ n ELSE value, Radix, n)
        f == Finished(e)
    IN  [f EXCEPT !.out = @ \o <<200 + n>> \o digits, !.pos = @ + n + 1, !.count = 0,
                  !.prevPrev = IF n = 1 THEN f.prev ELSE digits[n - 1], !.prev = digits[n]]

PutDIF(e, symbol) ==
    [e EXCEPT !.out = Put(@, e.pos, symbol), !.pos = @ + 1, !.prevPrev = e.prev,
              !.prev = symbol, !.count = @ + 1]

\* Fault: the second of two equal symbols already starts a repetition.
PutDifferenceEarly(e, symbol) ==
    CASE e.repetition > 210 /\ e.count # 0 /\ symbol = e.prevPrev /\ e.repetition # 215 ->
           [e EXCEPT !.out = Put(@, e.pos, e.repetition + 1), !.repetition = @ + 1]
      [] e.repetition > 210 /\ e.count # 0 /\ (symbol # e.prevPrev \/ e.repetition = 215) ->
           PutDIF(Finished(e), symbol)
      [] e.repetition = 210 /\ e.count > 0 /\ symbol = e.prev ->
           [e EXCEPT !.out = Put(@, e.pos - 1, 211), !.pos = @ - 1, !.prev = 211, !.repetition = 211]
      [] OTHER -> PutDIF(e, symbol)

PutDifference(e, symbol) ==
    CASE e.repetition > 210 /\ e.count # 0 /\ symbol = e.prevPrev /\ e.repetition # 215 ->
           [e EXCEPT !.out = Put(@, e.pos, e.repetition + 1), !.repetition = @ + 1]
      [] e.repetition > 210 /\ e.count # 0 /\ (symbol # e.prevPrev \/ e.repetition = 215) ->
           PutDIF(Finished(e), symbol)
      [] e.repetition = 210 /\ e.count > 1 /\ symbol = e.prev /\ symbol = e.prevPrev ->
           [e EXCEPT !.out = Put(@, e.pos - 1, 211), !.pos = @ - 1, !.prev = 211, !.repetition = 211]
      [] OTHER -> PutDIF(e, symbol)

\* One turn of the loop of val2BinDIF().
Val2BinDIF(e, value) ==
    LET dif == value - e.prevVal
        f   == [e EXCEPT !.prevVal = value]
    IN  IF Abs(dif) > 100 \/ e.count >= InsertAbsolute THEN PutAbsolute(f, value)
        ELSE PutDifference(f, dif + 100)

\* One turn of the loop of BinDIF2val().
DecodeSymbol(d, symbol) ==
    CASE d.prev \in 201 .. 209 ->
           LET value == d.value + symbol * d.range
               range == d.range * Radix
               signed == IF value >= range \div 2 THEN value - range ELSE value
           IN  IF d.symbols + 1 < d.prev
               THEN [d EXCEPT !.symbols = @ + 1, !.value = value, !.range = range]
               ELSE [d EXCEPT !.symbols = @ + 1, !.value = signed, !.range = range,
                              !.values = Append(@, signed), !.prev = 210]
      [] d.prev \notin 201 .. 209 /\ symbol \in 201 .. 209 ->
           [d EXCEPT !.prev = symbol, !.symbols = 200, !.range = 1, !.value = 0]
      [] d.prev \notin 201 .. 209 /\ symbol > 210 ->
           LET n == symbol - 209
               step == d.prev - 100
           IN  [d EXCEPT !.values = @ \o [i \in 1 .. n |-> d.value + i * step],
                         !.value = @ + n * step, !.prev = symbol]
      [] d.prev \notin 201 .. 209 /\ symbol = 210 ->
           [d EXCEPT !.values = Append(@, MinInt64), !.prev = symbol]
      [] OTHER ->
           [d EXCEPT !.value = @ + symbol - 100, !.values = Append(@, d.value + symbol - 100),
                     !.prev = symbol]

BinDIF2val(symbols) ==
    FoldAlong(LAMBDA d, s : DecodeSymbol(d, s),
             [values |-> <<>>, value |-> 0, prev |-> 210, symbols |-> 200, range |-> 1], symbols).values
=============================================================================
