---------------------------- MODULE FTLightLine ----------------------------
(***************************************************************************)
(* Lines of FTLight text: the escaping of special characters, and the      *)
(* reader that takes a line apart into items (FTLight/CmStringFTL.cpp).    *)
(*                                                                         *)
(* A character stands for its class: "0" and "1" for the digits, "+" for   *)
(* the other characters of a number (+ . e x a..f), "t" for the rest.  The *)
(* four-byte marks of the special binary types are not among them.         *)
(***************************************************************************)
EXTENDS Integers, SequencesExt, LeftFold

LineEnd == {"LF", "CR"}
Special == LineEnd \cup {",", ":", ";", "=", "@", "BT", "DEL"}
Digit   == {"0", "1"}
Numeric == Digit \cup {"-", "+"}
Char    == Special \cup Numeric \cup {"\\", "t"}

-----------------------------------------------------------------------------
(* TextX *)

\* Fault: a backtick is not escaped.
EncodeForgetful(text) ==
    FoldAlong(LAMBDA out, c : out \o IF c \in Special \ {"BT"} THEN <<"\\", c>> ELSE <<c>>, <<>>, text)

\* encodeTextX(): the backslash itself is no special character.
EncodeTextX(text) ==
    FoldAlong(LAMBDA out, c : out \o IF c \in Special THEN <<"\\", c>> ELSE <<c>>, <<>>, text)

\* decodeTextX(): a special character replaces the backslash before it.
DecodeTextX(textX) ==
    FoldAlong(LAMBDA d, c :
               [prev |-> c,
                out  |-> IF c \in Special /\ d.prev = "\\" THEN Append(Front(d.out), c)
                         ELSE Append(d.out, c)],
             [prev |-> "t", out |-> <<>>], textX).out

-----------------------------------------------------------------------------
(* getNextItemX(): its flags are the set of those that are true *)

\* What the first character of an item does, usually its delimiter.
Opening(c) ==
    LET always == {"determined", "number", "address", "text"}
    IN  CASE c \in LineEnd        -> always
          [] c = ","              -> always
          [] c = ":"              -> always \cup {"collection", "framework"}
          [] c = ";"              -> always \ {"text", "number"}
          [] c = "="              -> (always \ {"text", "number"}) \cup {"collection", "checksum"}
          [] c = "BT"             -> (always \ {"address"}) \cup {"query"}
          [] c = "DEL"            -> always
          [] c \in Digit          -> always
          [] c \in Numeric \ Digit -> always \ {"address"}
          [] OTHER                -> always \ {"number", "address"}

IsDelimiter(c) == c \in LineEnd \cup {",", ":", ";", "=", "BT", "DEL"}

\* One further character: the flags it sets and clears, and whether it ends the
\* item.  The first rule that applies.
Stop(l, on, off)  == [l EXCEPT !.flags = (@ \ off) \cup on, !.stopped = TRUE]
Keep(l, c, on, off) ==
    [l EXCEPT !.flags = (@ \ off) \cup on, !.item = Append(@, c), !.length = @ + 1]
Skip(l, on, off)  == [l EXCEPT !.flags = (@ \ off) \cup on, !.length = @ + 1]

Further(l, c, isParentBinary) ==
    LET escaped == "escape" \in l.flags
        empty   == l.item = <<>>
    IN  CASE l.stopped -> l
          [] OTHER ->
        CASE c \in LineEnd -> Stop(l, {"lineEnd"}, {})
          [] OTHER ->
        CASE c \in Special /\ escaped ->
               Keep(l, c, {}, IF c = "@" THEN {"escape", "address"} ELSE {"escape"})
          [] OTHER ->
        CASE c = ":" /\ empty /\ "framework" \in l.flags ->
               Skip(l, {"option"}, {"framework", "checksum"})
          [] OTHER ->
        CASE c = ":" /\ empty /\ "option" \in l.flags ->
               Skip(l, {"comment"}, {"option", "checksum"})
          [] OTHER ->
        CASE c \in {",", ":", ";"} -> Stop(l, {"next"}, {"checksum"})
          [] c = "="   -> Stop(l, {"next", "checksum"}, {})
          [] c = "@"   -> Keep(l, c, {"identifier"}, {})
          [] c = "BT"  -> Keep(l, c, {"query"}, {"address"})
          [] c = "DEL" -> Keep(l, c, {}, {"address"})
          [] c = "\\"  -> Keep(l, c, IF "text" \in l.flags /\ ("determined" \in l.flags \/ ~isParentBinary)
                                     THEN {"escape"} ELSE {}, {})
          [] c \in Digit -> Keep(l, c, {}, {"escape"})
          [] c = "-"   -> Keep(l, c, IF empty THEN {} ELSE {"addressDelimiter"}, {"escape"})
          [] c = "+"   -> Keep(l, c, {}, {"escape", "address"})
          [] OTHER     -> Keep(l, c, {}, {"escape", "number", "address"})

\* The first rule that applies.
TypeOf(flags, n) ==
    CASE "identifier" \in flags /\ n = 1 -> "FIXED_PARENTS"
      [] "identifier" \in flags /\ n # 1 -> "IDENTIFIER"
      [] OTHER ->
    CASE {"checksum", "lineEnd"} \subseteq flags -> "CHECKSUM"
      [] OTHER ->
    CASE "query" \in flags /\ n = 1 -> "QUERY"
      [] OTHER ->
    CASE "option"  \in flags -> "OPTION"
      [] "comment" \in flags -> "COMMENT"
      [] OTHER ->
    CASE "determined" \notin flags /\ "text" \in flags /\ "number" \notin flags -> "TEXT_BINX"
      [] OTHER ->
    CASE "text" \in flags /\ ("number" \notin flags \/ n = 0) -> "TEXT"
      [] OTHER ->
    CASE {"address", "addressDelimiter"} \subseteq flags ->
           IF "determined" \in flags THEN "Local" ELSE "Local_BINX"
      [] OTHER ->
    CASE "number" \in flags -> IF "determined" \in flags THEN "NUMBER" ELSE "NUMBER_BINX"
      [] OTHER -> "BINX"

NoItem(rest) == [ok |-> FALSE, item |-> <<>>, type |-> "TEXT", isStartOfCollection |-> FALSE, rest |-> rest]

\* The next item of a line, and the rest of it, which begins with a delimiter.
NextItemX(line, isStartOfLine, isParentBinary) ==
    LET c       == line[1]
        opening == Opening(c)
        flags   == IF isStartOfLine /\ ~IsDelimiter(c) THEN opening \ {"determined"} ELSE opening
        l       == FoldAlong(LAMBDA k, d : Further(k, d, isParentBinary),
                            [flags |-> flags, stopped |-> FALSE, length |-> 1,
                             item |-> IF IsDelimiter(c) THEN <<>> ELSE <<c>>], Tail(line))
        n       == Len(l.item)
        rest    == SubSeq(line, l.length + 1, Len(line))
    IN  IF line = <<>> \/ c = "@" THEN NoItem(line)
        ELSE IF isStartOfLine /\ IsDelimiter(c)    \* an identifier that was left out
             THEN [NoItem(line) EXCEPT !.ok = TRUE, !.type = "IDENTIFIER",
                                       !.isStartOfCollection = "collection" \in opening]
        ELSE IF c \in LineEnd \/ ("query" \in l.flags /\ n = 1 /\ "next" \notin l.flags)
             THEN NoItem(rest)
        ELSE [ok |-> TRUE, item |-> l.item, type |-> TypeOf(l.flags, n),
              isStartOfCollection |-> "collection" \in opening, rest |-> rest]

-----------------------------------------------------------------------------
(* Properties *)

\* The text of an item survives: escaped, put between any two delimiters, read
\* by getNextItemX() and decoded it is what it was.  Not among them: line ends,
\* at which the line is cut although they are escaped, and a backslash at the
\* end, which escapes the delimiter.
TextSurvives(text) ==
    text # <<>> /\ Last(text) # "\\" /\ ToSet(text) \cap LineEnd = {} =>
        \A before \in {",", ":"}, after \in {",", ":", ";", "="} :
            LET next == NextItemX(<<before>> \o EncodeTextX(text) \o <<after>>, FALSE, FALSE)
            IN  next.ok /\ DecodeTextX(next.item) = text /\ next.rest = <<after>>
=============================================================================
