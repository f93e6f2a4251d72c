------------------------------ MODULE MCCodec ------------------------------
(* Texts, binary fields, numbers and series of values that grow step by    *)
(* step, each encoded and decoded again.                                   *)
EXTENDS FTLightLine, BinX

CONSTANTS MaxText, MaxBytes, MaxWords, MaxValues

\* From one value to the next: none, a small one, and one too large for a symbol.
Differences == {0, 1, -200}

VARIABLES
    item,              \* the text of an item
    field,             \* the bytes of a binary field or of a number
    group,             \* the words of a BinMCL group
    series,            \* a series of values...
    dif                \* ...and what val2BinDIF() has made of it

encoded == <<item, field, group, series, dif>>

InitCodec == item = <<>> /\ field = <<>> /\ group = <<>> /\ series = <<>> /\ dif = DIFStart(0)

LengthenText(c) ==
    /\ field = <<>> /\ group = <<>> /\ series = <<>> /\ Len(item) < MaxText
    /\ item' = Append(item, c)
    /\ UNCHANGED <<field, group, series, dif>>

LengthenField(b) ==
    /\ item = <<>> /\ group = <<>> /\ series = <<>> /\ Len(field) < MaxBytes
    /\ field' = Append(field, b)
    /\ UNCHANGED <<item, group, series, dif>>

LengthenGroup(w) ==
    /\ item = <<>> /\ field = <<>> /\ series = <<>> /\ Len(group) < MaxWords
    /\ group' = Append(group, w)
    /\ UNCHANGED <<item, field, series, dif>>

\* The first value is its own predecessor.
AddValue(d) ==
    /\ item = <<>> /\ field = <<>> /\ group = <<>> /\ Len(series) < MaxValues
    /\ LET value == d + IF series = <<>> THEN 0 ELSE Last(series)
       IN  /\ series' = Append(series, value)
           /\ dif' = Val2BinDIF(IF series = <<>> THEN DIFStart(value) ELSE dif, value)
    /\ UNCHANGED <<item, field, group>>

NextCodec ==
    \/ \E c \in Char : LengthenText(c)
    \/ \E b \in {0, 215, 255} : LengthenField(b)
    \/ \E w \in {12 * 216 + 95, 65535} : LengthenGroup(w)
    \/ \E d \in Differences : AddValue(d)

-----------------------------------------------------------------------------
(* Properties *)

\* A binary field survives the conversion to BinX and back, and no character
\* of it is a delimiter (CmStringFTL.cpp, "avoid ,"); a group of words survives
\* BinMCL.
FieldSurvives ==
    /\ LET binX == Bin2BinX(field, 0)
       IN  /\ BinX2bin(binX, FALSE) = field
           /\ \A i \in DOMAIN binX : binX[i] \in 32 .. 255 \ {44, 45, 58, 59, 61, 64, 96, 127}
    /\ Len(group) = 15 => BinMCL2bin(Bin2BinMCL(group)) = group

\* A number survives in every format, whatever its sign and its length.
NumberSurvives ==
    \A format \in {"UINT64", "INT64", "DOUBLE", "UINT32", "INT32", "FLOAT", "UINT16", "INT16",
                   "UINT8", "INT8"} :
        Width(format) = Len(field) => DecodeNumX(EncodeNumX(field, format), format) = field

\* An item of an FTLight line is what it was after it has been encoded and
\* decoded, whatever it holds.
ItemSurvives == series = <<>> => TextSurvives(item) /\ FieldSurvives /\ NumberSurvives

\* A series of values survives BinDIF wherever it ends: in a repetition, behind
\* the longest one, before or after an absolute value.
SeriesSurvives == BinDIF2val(dif.out) = series
=============================================================================
