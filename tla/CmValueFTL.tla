---------------------------- MODULE CmValueFTL ----------------------------
(***************************************************************************)
(* The conversions of FTLight/CmValueFTL.cpp: a value is converted in      *)
(* place whenever it is read in another format than it has.  The first     *)
(* conversion keeps a 'double' in TextX, and all later ones begin there.   *)
(*                                                                         *)
(* A number is given in halves (5 is 2.5).  INT32 stands for the integer   *)
(* formats that are wide enough and signed where the number is negative.   *)
(***************************************************************************)
EXTENDS Integers

CONSTANT Halves        \* the numbers, in halves

ASSUME ValueAssumption == Halves \subseteq -100 .. 100

VARIABLES
    value,             \* DataFormat, TypeX, text (the data) and TextX
    stored,            \* what was stored last, and from where (history)
    got                \* the last answer, and whether it is promised (history)

conversion == <<value, stored, got>>

Unknown == 999         \* what no number can be told of

NumberFormats == {"DOUBLE", "FLOAT", "INT32", "BOOL", "UINT64"}
ReadFormats == NumberFormats \cup {"STRING"}

Data(format, num) == [as |-> format, num |-> num]
NoData  == Data("NONE", Unknown)
Garbage == Data("GARBAGE", Unknown)

-----------------------------------------------------------------------------
(* Numbers *)

\* A cast cuts the fraction off, towards zero.
Whole(h) == IF h < 0 THEN -(2 * ((-h) \div 2)) ELSE 2 * (h \div 2)

\* printf rounds a half to the even number.
Rounded(h) == IF h % 2 = 0 THEN h ELSE IF (h - 1) % 4 = 0 THEN h - 1 ELSE h + 1

\* estimatePrecision(): two valid digits; a negative number has no fraction.
Shown(h) == IF h > 0 /\ h < 20 THEN h ELSE Rounded(h)

\* The casts of asDataFormat(); a 'double' keeps all, a 'float' all that is here.
Cast(h, format) ==
    IF h = Unknown THEN Unknown
    ELSE CASE format = "STRING" -> Shown(h)
           [] format = "BOOL"   -> IF h # 0 THEN 2 ELSE 0
           [] format \in {"DOUBLE", "FLOAT"} -> h
           [] OTHER -> Whole(h)

\* decodeNum(): 'bool' comes from the whole number.
NumCast(h, format) ==
    IF h = Unknown THEN Unknown
    ELSE CASE format = "BOOL"            -> IF Whole(h) # 0 THEN 2 ELSE 0
           [] format = "UINT64" /\ h < 0 -> Unknown
           [] OTHER                       -> Cast(h, format)

-----------------------------------------------------------------------------
(* Conversion *)

NumberIn(data, format) == IF data.as = format THEN data.num ELSE Unknown

\* encodeNumX() of a number: a 'double' as BinX in TextX.
EncodeNumX(v) ==
    LET h == NumberIn(v.text, v.DataFormat)
    IN  IF v.DataFormat \notin NumberFormats THEN v
        ELSE [DataFormat |-> "DOUBLE", TypeX |-> "NONE", text |-> Data("DOUBLE", h), TextX |-> Data("BINX", h)]

\* Fault: TextX is used up by decoding.
DecodeBinXOnce(v) ==
    [v EXCEPT !.DataFormat = "BINARY", !.TextX = NoData,
              !.text = IF v.TextX.as = "BINX" THEN Data("DOUBLE", v.TextX.num) ELSE Garbage]

\* decodeBinX(): from TextX, or from the text itself when there is none.
DecodeBinX(v) ==
    [v EXCEPT !.DataFormat = "BINARY",
              !.TextX = IF @ = NoData THEN v.text ELSE @,
              !.text = IF v.TextX.as = "BINX" THEN Data("DOUBLE", v.TextX.num) ELSE Garbage]

\* decodeNum(): the number goes, its text is not kept.
DecodeNum(v, format) ==
    [v EXCEPT !.DataFormat = format, !.TextX = NoData, !.text = Data(format, NumCast(@.num, format))]

Result(ok, v) == [ok |-> ok, value |-> v]

\* By way of a 'double'.  Of a text that is no BinX the outcome may be too short.
ThroughDouble(v, format, isShort) ==
    LET w == IF v.DataFormat = "BINARY" THEN v
             ELSE DecodeBinX(IF v.TextX = NoData THEN EncodeNumX(v) ELSE v)
    IN  IF v.DataFormat # "BINARY" /\ format = "UINT64" THEN Result(FALSE, v)
        ELSE IF w.text = Garbage /\ isShort THEN Result(FALSE, w)
        ELSE IF format = "UINT64" THEN Result(TRUE, [w EXCEPT !.DataFormat = format])
        ELSE Result(TRUE, [w EXCEPT !.DataFormat = format,
                                    !.text = Data(format, Cast(NumberIn(w.text, "DOUBLE"), format))])

\* Digits that are no number are not decoded: outcome isShort too.
AsDataFormat(v, format, isShort) ==
    LET isKept == v.TypeX # "NONE" /\ v.TextX # NoData
        isNumber == v.TypeX = "NUMBER"
    IN  IF v.DataFormat \in {"NONE", format} THEN Result(v.DataFormat = format, v)
        ELSE IF format = "STRING" /\ isNumber /\ isKept THEN Result(TRUE, [v EXCEPT !.DataFormat = format, !.text = v.TextX])
        ELSE IF format = "STRING" /\ v.DataFormat = "FTLight" THEN Result(TRUE, [v EXCEPT !.DataFormat = format])
        ELSE IF v.DataFormat = "FTLight" /\ isNumber /\ v.text.num = Unknown /\ isShort THEN Result(FALSE, v)
        ELSE IF v.DataFormat = "FTLight" /\ isNumber THEN Result(TRUE, DecodeNum(v, format))
        ELSE IF ~isKept THEN ThroughDouble(v, format, isShort)
        ELSE Result(TRUE, [v EXCEPT !.DataFormat = format])

-----------------------------------------------------------------------------
(* The calls *)

Stored(source, format, num) == [source |-> source, format |-> format, num |-> num]
Undefined == Stored("none", "NONE", Unknown)

FromNode(h) == [DataFormat |-> "FTLight", TypeX |-> "NUMBER", text |-> Data("STRING", h), TextX |-> NoData]

InitValue ==
    /\ value = [DataFormat |-> "NONE", TypeX |-> "NONE", text |-> NoData, TextX |-> NoData]
    /\ stored = Undefined
    /\ got = [format |-> "NONE", num |-> Unknown, kept |-> Unknown, isPromised |-> FALSE]

\* operator= and setValue() of a number.
AssignNumber(h, format) ==
    /\ format = "UINT64" => h >= 0
    /\ value' = [DataFormat |-> format, TypeX |-> "NONE", text |-> Data(format, Cast(h, format)), TextX |-> NoData]
    /\ stored' = Stored("assigned", format, Cast(h, format))
    /\ UNCHANGED got

\* operator= of a pointer
AssignPointer(h) ==
    /\ value' = [DataFormat |-> "BINARY", TypeX |-> "NONE", text |-> Data("UINT64", Whole(h)), TextX |-> NoData]
    /\ stored' = Undefined
    /\ UNCHANGED got

\* operator= of a text: that it is a number matters to setNumber() only.
AssignString(h) ==
    /\ value' = [DataFormat |-> "STRING", TypeX |-> "NONE", text |-> Data("STRING", h), TextX |-> NoData]
    /\ stored' = Undefined
    /\ UNCHANGED got

SetNumber(h) ==
    /\ value' = [DataFormat |-> "STRING", TypeX |-> "NUMBER", text |-> Data("STRING", h), TextX |-> NoData]
    /\ stored' = Stored("number", "STRING", h)
    /\ UNCHANGED got

\* updateFrom(): the text and the type of a node, TextX stays.
UpdateFrom(h) ==
    /\ value' = [FromNode(h) EXCEPT !.TextX = value.TextX]
    /\ stored' = Stored("node", "FTLight", h)
    /\ UNCHANGED got

\* What a caller may rely on.  'uint64' is read from 'uint64' only.  A number of
\* a node is shown as it was written unless an older TextX is left; a large
\* number is a text.
IsPromised(format) ==
    CASE stored.source = "assigned" -> format = "UINT64" => value.DataFormat = "UINT64"
      [] stored.source = "node"     -> /\ format = "STRING" => value.TextX = NoData
                                       /\ format = "BOOL" => stored.num % 2 = 0
                                       /\ format = "UINT64" => stored.num >= 0
      [] stored.source = "number"   -> format = "STRING"
      [] OTHER                       -> FALSE

\* The first number read of a node fixes it; after its text, no number is read.
\* 'number': the digits.
NowStored(format) ==
    CASE stored.source = "node" /\ format = "STRING" -> Undefined
      [] stored.source = "node" /\ format # "STRING" -> Stored("assigned", format, NumCast(stored.num, format))
      [] OTHER -> stored

\* The type conversion operators; comparisons with numbers and texts read too.
ReadAs(format) ==
    \E isShort \in BOOLEAN :
        LET r == AsDataFormat(value, format, isShort)
            shown == stored.source \in {"node", "number"} /\ format = "STRING"
        IN  /\ value' = IF r.ok \/ format # "STRING" THEN r.value ELSE [r.value EXCEPT !.text = Data("STRING", Unknown)]
            /\ got' = [format |-> format,
                       num |-> IF r.ok THEN NumberIn(r.value.text, format) ELSE 0,
                       kept |-> IF shown THEN stored.num ELSE Cast(stored.num, format),
                       isPromised |-> IsPromised(format)]
            /\ stored' = NowStored(format)

\* asStringFTL(): a 'float' gives an empty text; 'uint64' and pointers give
\* hexadecimal digits, which are another number or none at all.
AsStringFTL(v) ==
    CASE v.DataFormat = "FTLight" -> Cast(v.text.num, "STRING")
      [] v.DataFormat \in {"FLOAT", "UINT64", "BINARY", "NONE"} -> Unknown
      [] OTHER -> NumberIn(v.text, v.DataFormat)

\* The value is written, and read back after a restart.  Promised: the number,
\* while the value has the format it was stored with (two digits of a node's),
\* neither 'float', which is lost, nor 'uint64'.
Restore ==
    LET h == AsStringFTL(value)
    IN  /\ \/ h # Unknown /\ value' = FromNode(h) /\ stored' = Stored("node", "FTLight", h)
           \/ /\ h = Unknown
              /\ \E type \in {"NUMBER", "TEXT"} : value' = [FromNode(h) EXCEPT !.TypeX = type]
              /\ stored' = Undefined
        /\ got' = [format |-> "FTLight", num |-> h,
                   kept |-> IF stored.source = "node" THEN Shown(stored.num) ELSE stored.num,
                   isPromised |-> /\ stored.source # "none"
                                  /\ value.DataFormat = stored.format
                                  /\ value.DataFormat \notin {"FLOAT", "UINT64"}]

NextValue ==
    \/ \E h \in Halves :
         \/ \E format \in NumberFormats : AssignNumber(h, format)
         \/ AssignPointer(h)
         \/ AssignString(h)
         \/ SetNumber(h)
         \/ UpdateFrom(h)
    \/ \E format \in ReadFormats : ReadAs(format)
    \/ Restore

SpecValue == InitValue /\ [][NextValue]_conversion

-----------------------------------------------------------------------------
(* Properties *)

DataType == [as : {"NONE", "GARBAGE", "BINX"} \cup ReadFormats, num : Int]
ValueType == [DataFormat : {"NONE", "BINARY", "FTLight"} \cup ReadFormats, TypeX : {"NONE", "NUMBER", "TEXT"},
              text : DataType, TextX : DataType]
StoredType == [source : {"none", "assigned", "number", "node"},
               format : {"NONE", "FTLight"} \cup ReadFormats, num : Int]
AnswerType == [format : {"NONE", "FTLight"} \cup ReadFormats, num : Int, kept : Int, isPromised : BOOLEAN]

\* Every variable has its type.
ConversionTypeOK == value \in ValueType /\ stored \in StoredType /\ got \in AnswerType

\* However often and in whatever formats a value was read before, a read gives
\* the conversion of what was stored (asDataFormat(); testCmValueFTL() checks
\* the initial 'double' again after a dozen reads).  It is written as it was
\* stored if it was read in that format last (asStringFTL()), but for a 'float',
\* which is written as an empty text, and for a 'uint64', which is written as
\* hexadecimal digits.
ReadsAgree == got.isPromised => got.num = got.kept

-----------------------------------------------------------------------------
(* Why reads agree: what the value v still holds of what was stored, s. *)

\* Not converted yet: the number itself.
AsAssigned(v, s) ==
    /\ v.DataFormat = s.format
    /\ v.text = Data(s.format, s.num)
    /\ v.TextX = NoData

\* Converted: TextX keeps the number, the data is its conversion.  The format
\* is never 'uint64', which nothing but itself is converted to.
AsConverted(v, s) ==
    /\ v.DataFormat \in ReadFormats \ {"UINT64"}
    /\ v.TypeX = "NONE"
    /\ v.text = Data(v.DataFormat, Cast(s.num, v.DataFormat))
    /\ v.TextX = Data("BINX", s.num)

\* The text of a node, not read yet.
AsNode(v, s) ==
    /\ v.DataFormat = "FTLight" /\ v.TypeX = "NUMBER"
    /\ v.text = Data("STRING", s.num)

\* setNumber(): the digits are the data or are kept in TextX.
AsDigits(v, s) ==
    /\ v.DataFormat \notin {"NONE", "FTLight"} /\ v.TypeX = "NUMBER"
    /\ v.TextX \in {NoData, Data("STRING", s.num)}
    /\ v.TextX = NoData => v.DataFormat = "STRING"
    /\ v.DataFormat = "STRING" => v.text = Data("STRING", s.num)

Holds(v, s) ==
    CASE s.source = "assigned" -> /\ s.format \in NumberFormats
                                  /\ s.num = Cast(s.num, s.format)
                                  /\ AsAssigned(v, s) \/ AsConverted(v, s)
      [] s.source = "node"     -> s.format = "FTLight" /\ s.num # Unknown /\ AsNode(v, s)
      [] s.source = "number"   -> s.format = "STRING" /\ AsDigits(v, s)
      [] OTHER                  -> TRUE

\* What a read leaves in the value is enough for all later reads.
StoredIsHeld == Holds(value, stored)

\* The inductive invariant.
ConversionInv == ConversionTypeOK /\ StoredIsHeld /\ ReadsAgree
=============================================================================
