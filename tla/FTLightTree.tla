---------------------------- MODULE FTLightTree ----------------------------
(***************************************************************************)
(* The hierarchy of FTLight nodes, FTLight/CmStringFTL.cpp: lines of text  *)
(* are taken apart into items that become nodes, a node is found or        *)
(* created by its address, and the hierarchy is written as text or XML.    *)
(*                                                                         *)
(* A node is a number, 1 is the object itself and 0 is NULL.  The children *)
(* of a node form a ring: its Child is the first, each Sibling the next,   *)
(* and the last one's Sibling is the first again.  Time stamps, the tables *)
(* of special binary types and what a checksum adds up are left out.       *)
(***************************************************************************)
EXTENDS FTLightLine

CONSTANTS
    Lines,             \* what a line can be
    Addresses,         \* of the calls that use one
    Values,            \* texts to store
    Timestamp,         \* what serializeStringFTL() stores at 0-0
    MaxCalls           \* bound: calls

ASSUME TreeAssumption ==
    /\ Lines \subseteq Seq(Char) /\ Addresses \subseteq Seq(Char)
    /\ \A line \in Lines : \A i \in DOMAIN line : line[i] = "LF" <=> i = Len(line)
    /\ MaxCalls \in Nat

VARIABLES
    node,              \* the nodes that exist
    X,                 \* the navigation, NaviX
    LineNumber,
    calls              \* made so far

hierarchy == <<node, X, LineNumber, calls>>

NULL == 0

-----------------------------------------------------------------------------
(* Nodes *)

NewNode(self) ==
    [Parent |-> NULL, Sibling |-> self, Child |-> NULL, TypeX |-> "OPERATOR",
     text |-> <<>>, ref |-> NULL, DataFormat |-> "NONE"]

Nodes(t) == DOMAIN t

\* getLastChild()
LastChild(t, first) == CHOOSE n \in Nodes(t) : t[n].Sibling = first /\ t[n].Parent = t[first].Parent

\* addChild(): the new node is the last of the sequence.
AddChild(t, parent) ==
    LET new   == Len(t) + 1
        first == t[parent].Child
        child(sibling) == [NewNode(new) EXCEPT !.Parent = parent, !.Sibling = sibling]
    IN  IF first = NULL THEN Append([t EXCEPT ![parent].Child = new], child(new))
        ELSE Append([t EXCEPT ![LastChild(t, first)].Sibling = new], child(first))

\* The children of a node in the order of their ring.
Children(t, parent) ==
    FoldAlong(LAMBDA c, k : IF c = <<>> \/ t[Last(c)].Sibling = c[1] THEN c
                           ELSE Append(c, t[Last(c)].Sibling),
             IF t[parent].Child = NULL THEN <<>> ELSE <<t[parent].Child>>, t)

\* findChild()
FindChild(t, parent, content, type) ==
    LET c    == Children(t, parent)
        same == {k \in DOMAIN c : t[c[k]].TypeX = type /\ t[c[k]].text = content}
    IN  IF same = {} THEN NULL ELSE c[Min(same)]

\* isBinary()
IsBinary(n, isParentBinary) ==
    n.TypeX \in {"BINX", "BINXTIME"} \/ (n.TypeX = "TEXT_BINX" /\ isParentBinary)

-----------------------------------------------------------------------------
(* Addresses: positions separated by "-" *)

\* Digits that are not followed by "-" are the last component.
AddressNumbers(text) ==
    LET a == FoldAlong(LAMBDA p, c : IF c = "-" THEN [done |-> Append(p.done, p.position), position |-> 0]
                                    ELSE [p EXCEPT !.position = 10 * @ + IF c = "1" THEN 1 ELSE 0],
                      [done |-> <<>>, position |-> 0], text)
    IN  Append(a.done, a.position)

\* Where every address begins: above the root.
Start(t, x) == IF x.Root # NULL /\ t[x.Root].Parent # NULL THEN t[x.Root].Parent ELSE x.PosX

Named(t) == [t EXCEPT ![Len(t)].text = Append(@, "-")]

\* Fault: one sibling too few.
GetChildShort(p, position) ==
    IF p.t[p.at].Child = NULL THEN [t |-> Named(AddChild(p.t, p.at)), at |-> Len(p.t) + 1]
    ELSE LET c == Children(p.t, p.t[p.t[p.at].Child].Parent)
         IN  [p EXCEPT !.at = c[IF position < Len(c) THEN position + 1 ELSE Len(c)]]

\* getChild(): fills the ring up to the position; p has the nodes and the position reached.
GetChild(p, position) ==
    LET first == IF p.t[p.at].Child # NULL THEN [p EXCEPT !.at = p.t[p.at].Child]
                 ELSE [t |-> Named(AddChild(p.t, p.at)), at |-> Len(p.t) + 1]
        next(q) ==
            LET sibling == q.t[q.at].Sibling
                new     == Len(q.t) + 1
            IN  IF sibling # q.t[q.t[sibling].Parent].Child THEN [q EXCEPT !.at = sibling]
                ELSE [t |-> Append([q.t EXCEPT ![q.at].Sibling = new],
                                   [NewNode(new) EXCEPT !.Parent = q.t[q.at].Parent, !.Sibling = sibling,
                                                        !.text = <<"-">>]),
                      at |-> new]
    IN  FoldAlong(LAMBDA q, k : next(q), first, [k \in 1 .. position |-> k])

\* getPosition()
GetPosition(t, start, numbers) == FoldAlong(GetChild, [t |-> t, at |-> start], numbers)

\* findPosition() with isChild(): the node, or NULL and how far it got.
FindPosition(t, start, numbers) ==
    FoldAlong(LAMBDA p, position :
               LET children == Children(t, p.at)
               IN  IF p.found = FALSE \/ children = <<>> THEN [p EXCEPT !.found = FALSE]
                   ELSE IF position < Len(children) THEN [p EXCEPT !.at = children[position + 1]]
                   ELSE [at |-> Last(children), found |-> FALSE],
             [at |-> start, found |-> TRUE], numbers)

-----------------------------------------------------------------------------
(* Receiving a line *)

Without(x, f) == [x EXCEPT !.flags = @ \ f]
With(x, f)    == [x EXCEPT !.flags = @ \cup f]

\* A freshly allocated navigation.
NoNavi == [Root |-> NULL, PosX |-> NULL, PathX |-> NULL, isSynchronousWriting |-> FALSE,
           isFixedParentCollection |-> FALSE, FirstParentPos |-> 0, ParentPos |-> 0, Levels |-> 0,
           SequenceNumber |-> 0, BufferLength |-> 0, BufferPos |-> 0, flags |-> {}]

\* createRoot(): "t@t.x" has the operator "t" and the location "t".
Operator(id) == IF "@" \in ToSet(id) THEN SubSeq(id, 1, SelectInSeq(id, LAMBDA c : c = "@") - 1) ELSE <<>>
Location(id) ==
    LET at == SelectInSeq(id, LAMBDA c : c = "@")
    IN  IF at = 0 THEN <<>> ELSE SubSeq(id, at + 1, SelectInSeq(id, LAMBDA c : c = "+") - 1)

Set(t, n, type, text) == [t EXCEPT ![n].TypeX = type, ![n].text = text, ![n].DataFormat = "FTLight"]

\* The child with this content that findChild() finds among its texts, else a new one.
Descend(p, type, content) ==
    LET found == FindChild(p.t, p.at, content, "TEXT")
        t     == AddChild(p.t, p.at)
    IN  IF found # NULL THEN [p EXCEPT !.at = found]
        ELSE [t |-> Set(t, Len(t), type, content), at |-> Len(t)]

\* With another root than this one the line is refused.
RootAt(s, p, identifier) ==
    LET isSame == s.X.Root = NULL \/ p.t[s.X.Root].text = identifier
        x      == [s.X EXCEPT !.PathX = p.at, !.PosX = p.at]
    IN  [s EXCEPT !.node = p.t, !.ok = isSame, !.X = IF isSame THEN [x EXCEPT !.Root = p.at] ELSE x]

\* Below the operator: this object, or a child of it when the object is taken.
BelowOperator(t, operator, identifier) ==
    LET named == IF t[operator].text # <<>> THEN t
                 ELSE [t EXCEPT ![operator].text = Operator(identifier), ![operator].DataFormat = "FTLight"]
    IN  Descend(Descend([t |-> named, at |-> operator], "LOCATION", Location(identifier)),
                "IDENTIFIER", identifier)

CreateRoot(s, identifier) ==
    LET isOther == s.node[1].TypeX # "OPERATOR"
                   \/ (s.node[1].text # <<>> /\ s.node[1].text # Operator(identifier))
        added   == AddChild(s.node, 1)
    IN  RootAt(s, IF isOther THEN BelowOperator(Set(added, Len(added), "OPERATOR", <<>>), Len(added), identifier)
                  ELSE BelowOperator(s.node, 1, identifier), identifier)

\* initLineX()
InitLine(s) ==
    [s EXCEPT !.X = [s.X EXCEPT
        !.PosX  = IF s.X.Root = NULL THEN NULL ELSE Start(s.node, s.X),
        !.flags = (s.X.flags \cap {"isParentBinary"}) \cup {"isPath", "isFirstItem", "isRepeatedPath"}]]

\* checkSyncronousWriting()
CheckSynchronousWriting(s, type) ==
    LET x       == s.X
        parent  == s.node[x.PosX].Parent
        started == [Without(x, {"isRepeatedPath", "isPath"}) EXCEPT
                      !.isSynchronousWriting = TRUE, !.FirstParentPos = -1, !.Levels = 0,
                      !.SequenceNumber = 0, !.BufferLength = 0, !.BufferPos = -1]
        before  == SelectInSeq(Children(s.node, parent), LAMBDA n : n = x.PosX) - 1
        next    ==
          CASE type = "IDENTIFIER" ->
                 [x EXCEPT !.isSynchronousWriting = FALSE, !.isFixedParentCollection = FALSE]
            [] type # "IDENTIFIER" /\ ~x.isSynchronousWriting
               /\ parent # NULL /\ ("isRestore" \in x.flags \/ s.node[x.PosX].Child = NULL) ->
                 [started EXCEPT !.PathX = parent, !.FirstParentPos = before - 1, !.ParentPos = before - 1]
            [] type # "IDENTIFIER" /\ ~x.isSynchronousWriting
               /\ ~(parent # NULL /\ ("isRestore" \in x.flags \/ s.node[x.PosX].Child = NULL)) ->
                 [started EXCEPT !.PosX = x.PathX, !.ParentPos = -1,
                                 !.Levels = IF s.node[x.PathX].Child # NULL THEN 1 ELSE 0]
            [] type # "IDENTIFIER" /\ x.isSynchronousWriting /\ ~x.isFixedParentCollection ->
                 [x EXCEPT !.ParentPos = x.FirstParentPos, !.Levels = @ + 1]
            [] type # "IDENTIFIER" /\ x.isSynchronousWriting /\ x.isFixedParentCollection ->
                 [x EXCEPT !.ParentPos = x.FirstParentPos, !.SequenceNumber = @ + 1,
                           !.BufferPos = IF x.BufferLength > 0 THEN (@ + 1) % x.BufferLength ELSE @ + 1]
    IN  IF x.PosX = NULL \/ x.PathX = NULL THEN [s EXCEPT !.ok = FALSE]
        ELSE [s EXCEPT !.X = Without(next, {"isFirstItem", "isRestore"})]

NumberOf(text) == IF ToSet(text) \subseteq Digit THEN Last(AddressNumbers(text)) ELSE 0

\* The relative address of an item: "-1" is read as "0-1".
SyncAddress(x) ==
    <<x.ParentPos>> \o [k \in 1 .. x.Levels |-> 0]
        \o IF ~x.isFixedParentCollection THEN <<>>
           ELSE IF x.BufferPos < 0 THEN <<0, -x.BufferPos>> ELSE <<x.BufferPos>>

\* runSynchronousWriting(): PathX has a navigation of its own, unless it is the object itself.
RunSynchronousWriting(s, item, type) ==
    LET x == [s.X EXCEPT !.ParentPos = @ + 1]
        p == GetPosition(s.node, x.PathX, SyncAddress(x))
    IN  CASE type = "FIXED_PARENTS" ->
               [s EXCEPT !.X = Without(With([x EXCEPT !.isFixedParentCollection = TRUE], {"isWaitForLength"}),
                                       {"isWaitForStart"})]
          [] type # "FIXED_PARENTS" /\ "isWaitForLength" \in x.flags ->
               [s EXCEPT !.X = Without(With([x EXCEPT !.BufferLength = NumberOf(item)], {"isWaitForStart"}),
                                       {"isWaitForLength"})]
          [] type # "FIXED_PARENTS" /\ "isWaitForLength" \notin x.flags /\ "isWaitForStart" \in x.flags ->
               [s EXCEPT !.X = Without([x EXCEPT !.BufferPos = NumberOf(item) - 1], {"isWaitForStart"})]
          [] OTHER ->
               [s EXCEPT !.X = IF x.PathX = 1 THEN [x EXCEPT !.Root = NULL, !.PosX = p.at] ELSE x,
                         !.node = Set(p.t, p.at, type, item)]

\* evaluateRepeatedPath(): one step down the path of the line before.
OnPath(t, x) ==
    LET start == IF x.PosX = x.PathX /\ t[x.PathX].Child # NULL THEN t[x.PathX].Child ELSE x.PathX
    IN  FoldAlong(LAMBDA n, k : IF t[n].Parent # NULL /\ t[n].Parent # x.PosX /\ n # x.PosX
                               THEN t[n].Parent ELSE n, start, t)

\* putChildOnPath()
PutChildOnPath(s, item, type, local) ==
    LET x      == s.X
        isNext == "isPath" \notin x.flags /\ s.node[x.PosX].Parent # NULL
                  /\ ~x.isSynchronousWriting /\ "isStartOfCollection" \notin x.flags
        path   == IF isNext THEN s.node[x.PosX].Parent ELSE x.PosX
        isOption == type = "OPTION" \/ ("isOption" \in x.flags /\ "isStartOfCollection" \notin x.flags)
        t      == AddChild(s.node, path)
        new    == Len(t)
        y      == IF isOption THEN With(x, {"isOption"}) ELSE Without(x, {"isOption"})
        child  == [TypeX |-> IF isOption THEN "OPTION" ELSE type]
    IN  [s EXCEPT !.node = [Set(t, new, child.TypeX, IF child.TypeX = "Local" THEN <<>> ELSE item)
                              EXCEPT ![new].ref = IF child.TypeX = "Local" THEN local ELSE NULL],
                  !.X = [y EXCEPT !.PathX = path, !.PosX = new]]

\* A collection ends the path, an item on the path prolongs it.
EndPath(s) ==
    CASE "isStartOfCollection" \in s.X.flags -> [s EXCEPT !.X = Without(@, {"isPath"})]
      [] "isStartOfCollection" \notin s.X.flags /\ "isPath" \in s.X.flags -> [s EXCEPT !.X.PathX = s.X.PosX]
      [] OTHER -> s

\* Behind checkSyncronousWriting(): a value, a repeated item of the path, or a new child.
StoreChecked(s, i, item, local) ==
    LET isStart == "isStartOfCollection" \in s.X.flags
        ended   == IF i.item = <<>> /\ isStart THEN {"isRepeatedPath"} ELSE {}
    IN  CASE ~s.ok -> s
          [] s.ok /\ s.X.isSynchronousWriting -> RunSynchronousWriting(s, item, i.type)
          [] s.ok /\ ~s.X.isSynchronousWriting
             /\ i.item = <<>> /\ ~isStart /\ "isRepeatedPath" \in s.X.flags ->
               [s EXCEPT !.X.PosX = OnPath(s.node, s.X)]
          [] OTHER -> EndPath(PutChildOnPath([s EXCEPT !.X = Without(@, ended)], item, i.type, local))

\* What remains of the loop of receiveLineX() for an item that is stored.
StoreItem(s, i, item, local) ==
    StoreChecked(IF s.X.flags \cap {"isFirstItem", "isRestore"} # {}
                 THEN CheckSynchronousWriting(s, i.type) ELSE s, i, item, local)

\* The root ends the search for a first item, unless the line is refused.
AfterRoot(s) == IF s.ok THEN [s EXCEPT !.X = Without(@, {"isRepeatedPath", "isFirstItem"})] ELSE s

\* One turn of the loop; isStart: the item begins where the line does.
ReceiveItem(s0, i, isStart) ==
    LET start == IF i.isStartOfCollection THEN {"isStartOfCollection"} ELSE {}
        x     == With(Without(s0.X, {"isStartOfCollection", "isSingle"}), start)
        isDecoded == i.type \in {"TEXT", "NUMBER"}
                     \/ (i.type \in {"TEXT_BINX", "NUMBER_BINX"} /\ "isFirstItem" \in x.flags
                         /\ ~x.isSynchronousWriting)
        item  == IF isDecoded THEN DecodeTextX(i.item) ELSE i.item
        s     == [s0 EXCEPT !.X = x]
        p     == GetPosition(s.node, Start(s.node, x), AddressNumbers(i.item))
        local == FindPosition(s.node, Start(s.node, x), AddressNumbers(i.item))
    IN  CASE i.type = "IDENTIFIER" /\ s.line = 1 /\ isStart ->
               AfterRoot(CreateRoot(s, item))
          [] i.type = "Local_BINX" ->
               [s EXCEPT !.node = p.t,
                         !.X = With(Without([@ EXCEPT !.PosX = p.at, !.PathX = p.at], {"isFirstItem"}),
                                    IF isStart THEN {"isSingle"} ELSE {})]
          [] i.type = "CHECKSUM" -> s
          [] OTHER ->
               StoreItem(CASE i.type = "Local" /\ ~local.found -> [s EXCEPT !.node[1].TypeX = "Local_BINX"]
                           [] i.type = "FIXED_PARENTS" /\ "isSingle" \in s0.X.flags ->
                                [s EXCEPT !.X = With(@, {"isRestore"})]
                           [] OTHER -> s,
                         i, item, IF i.type = "Local" /\ local.found THEN local.at ELSE NULL)

\* receiveLineX(): k has the rest of the line; a call that fails ends it.
Received(k, i, s) ==
    IF ~i.ok THEN [k EXCEPT !.going = FALSE] ELSE [s |-> s, rest |-> i.rest, going |-> s.ok /\ i.rest # <<>>]

TakeItem(k, i, isStart) == Received(k, i, ReceiveItem(k.s, i, isStart))

ReceiveLineX(s, line) ==
    FoldAlong(LAMBDA k, n : IF k.going
                           THEN TakeItem(k, NextItemX(k.rest, n = 1, "isParentBinary" \in k.s.X.flags), n = 1)
                           ELSE k,
             [s |-> InitLine([s EXCEPT !.ok = TRUE]), rest |-> line, going |-> TRUE],
             [n \in 1 .. Len(line) + 1 |-> n]).s

\* processStringFTL(): line by line.
ProcessStringFTL(s, text) ==
    LET clear == [s EXCEPT !.X = Without(@, {"isParentBinary"})]
        p == FoldAlong(LAMBDA k, c :
               LET line == Append(k.line, c)
               IN  IF c # "LF" THEN [k EXCEPT !.line = line]
                   ELSE [line |-> <<>>, s |-> ReceiveLineX([k.s EXCEPT !.line = @ + 1], line)],
               [line |-> <<>>, s |-> clear], text)
    IN  p.s

-----------------------------------------------------------------------------
(* Travelling the hierarchy *)

\* Back to a level that has another sibling: v.at is the node, v.child the first of its ring.
Climb(t, v) ==
    LET up(w) ==
            LET parent == t[w.at].Parent
            IN  [w EXCEPT !.at = parent, !.level = @ - 1,
                          !.left = IF w.level > 0 THEN Append(@, w.level) ELSE @,
                          !.child = IF parent = NULL THEN NULL
                                    ELSE IF t[parent].Parent # NULL THEN t[t[parent].Parent].Child ELSE parent]
    IN  FoldAlong(LAMBDA w, k : IF w.at # NULL /\ t[w.at].Sibling = w.child THEN up(w) ELSE w,
                 [v EXCEPT !.left = <<>>], t)

\* The next node: a child, a sibling, or a sibling further up.
Travel(t, v, isLineEnd) ==
    LET n == t[v.at]
        c == Climb(t, v)
    IN  CASE n.Child # NULL ->
               [v EXCEPT !.at = n.Child, !.child = n.Child, !.level = @ + 1, !.way = "child", !.left = <<>>]
          [] n.Child = NULL /\ n.Sibling # v.child /\ ~isLineEnd ->
               [v EXCEPT !.at = n.Sibling, !.way = "sibling", !.left = <<>>, !.from = v.at]
          [] OTHER ->
               [c EXCEPT !.way = "back", !.from = c.at, !.at = IF c.at = NULL THEN NULL ELSE t[c.at].Sibling]

Top == [at |-> 1, from |-> 1, child |-> 1, level |-> 0, way |-> "start", left |-> <<>>]

Repeat(c, n) == [k \in 1 .. n |-> c]

\* Fault: the text is not escaped.
NodeTextRaw(t, n, level, isParentBinary) ==
    IF t[n].TypeX = "COMMENT" THEN <<":", ":">> \o t[n].text ELSE t[n].text

\* serializeStringFTL() calls encodeTextX() for these.
IsEncoded(n, level, isParentBinary) ==
    \/ n.TypeX \in {"OPTION", "COMMENT", "Local_BINX"}
    \/ n.TypeX # "Local" /\ level > 2 /\ ~IsBinary(n, isParentBinary)

\* What it writes for a node.
NodeText(t, n, level, isParentBinary) ==
    LET text == IF IsEncoded(t[n], level, isParentBinary) THEN EncodeTextX(t[n].text) ELSE t[n].text
    IN  CASE t[n].TypeX = "OPTION"  -> <<":">> \o text
          [] t[n].TypeX = "COMMENT" -> <<":", ":">> \o text
          [] t[n].TypeX = "Local"   -> <<"-", "-">> \o IF t[n].ref = NULL THEN <<"t">> ELSE t[t[n].ref].text
          [] t[n].TypeX = "Local_BINX" -> text \o <<"t">>
          [] OTHER -> text

\* What it writes on the way to v.at.
Delimiters(t, v, isParentBinary) ==
    LET d == IF IsBinary(t[v.from], isParentBinary) THEN ";" ELSE ","
    IN  CASE v.way = "child" ->
               IF v.level <= 2 THEN <<>> ELSE IF IsBinary(t[v.at], isParentBinary) THEN <<"=">> ELSE <<":">>
          [] v.way = "sibling" -> IF v.level \in 3 .. 5 THEN <<"LF">> \o Repeat(d, v.level - 2) ELSE <<d>>
          [] v.way = "back" /\ v.at = NULL -> <<"LF">>
          [] v.way = "back" /\ v.at # NULL -> <<"LF">> \o Repeat(d, IF v.level > 2 THEN v.level - 2 ELSE 0)

\* serializeStringFTL() without the time stamp: what is written, and the nodes that
\* are encoded for it.
Serialization(t) ==
    LET step(w) ==
            LET v    == Travel(t, w.v, w.isLineEnd)
                line == Delimiters(t, v, w.isParentBinary)
                type == t[v.at].TypeX
                text == NodeText(t, v.at, v.level, w.isParentBinary)
            IN  IF v.at = NULL THEN [w EXCEPT !.v = v, !.out = @ \o line]
                ELSE [v |-> v, isParentBinary |-> IsBinary(t[v.at], w.isParentBinary),
                      isLineEnd |-> (w.isLineEnd /\ v.way # "child") \/ type \in {"OPTION", "COMMENT"},
                      encoded |-> IF IsEncoded(t[v.at], v.level, w.isParentBinary) THEN w.encoded \cup {v.at}
                                  ELSE w.encoded,
                      out |-> IF v.level > 1 THEN w.out \o line \o text ELSE w.out]
    IN  FoldAlong(LAMBDA w, k : IF w.v.at = NULL THEN w ELSE step(w),
                 [v |-> Top, isParentBinary |-> FALSE, isLineEnd |-> FALSE, encoded |-> {}, out |-> <<>>],
                 Append(t, 0))

Serialized(t) == Serialization(t).out

\* encodeTextX(): the text stays as it is, and is not known as FTLight any more.
Encoded(t, nodes) == [n \in DOMAIN t |-> IF n \in nodes THEN [t[n] EXCEPT !.DataFormat = "NONE"] ELSE t[n]]

\* convertFTL2XML(): the tags it opens and closes around the levels and the nodes.
XML(t) ==
    LET step(w) ==
            LET v == Travel(t, w.v, FALSE)
                tags == [k \in DOMAIN v.left |-> <<"/level", v.left[k]>>]
                        \o IF v.way = "child" THEN << <<"level", v.level>> >> ELSE <<>>
                isShown == v.at # NULL /\ t[v.at].text \notin {<<>>, <<"-">>}
            IN  [v |-> v, index |-> IF isShown THEN w.index + 1 ELSE w.index,
                 out |-> w.out \o tags \o IF isShown THEN << <<"node", v.level, w.index + 1, v.at>> >> ELSE <<>>]
    IN  FoldAlong(LAMBDA w, k : IF w.v.at = NULL THEN w ELSE step(w),
                 [v |-> Top, index |-> 0, out |-> <<>>], Append(t, 0)).out

-----------------------------------------------------------------------------
(* The calls *)

Empty == [node |-> <<NewNode(1)>>, X |-> NoNavi, line |-> 0, ok |-> TRUE]

InitTree ==
    /\ node = Empty.node /\ X = Empty.X /\ LineNumber = 0
    /\ calls = 0

Call == calls < MaxCalls /\ calls' = calls + 1

\* processStringFTL() of one line; several lines are several calls.  Without a
\* root an address at the line start would be looked for behind a null pointer.
ReceiveLine(line) ==
    /\ X.Root = NULL => line[1] \notin Digit
    /\ Call
    /\ \E s \in {ProcessStringFTL([node |-> node, X |-> X, line |-> LineNumber, ok |-> TRUE], line)} :
         node' = s.node /\ X' = s.X /\ LineNumber' = s.line

Found(a) == FindPosition(node, Start(node, X), AddressNumbers(a))

\* insertValueX() with getNode(): the node is made, the value stays in a copy of it.
InsertValueX(a, value) ==
    LET p == GetPosition(node, Start(node, X), AddressNumbers(a))
    IN  /\ X.Root # NULL
        /\ Call
        /\ node' = p.t /\ X' = [X EXCEPT !.PosX = p.at]
        /\ UNCHANGED LineNumber

Stored(t, n, value) == [t EXCEPT ![n].text = value, ![n].DataFormat = "FTLight"]

SetValueX(a, value) ==
    /\ X.Root # NULL
    /\ Call
    /\ X' = [X EXCEPT !.PosX = Found(a).at]
    /\ node' = IF Found(a).found THEN Stored(node, Found(a).at, value) ELSE node
    /\ UNCHANGED LineNumber

\* decodeNum(): as text it only clears the node.  Not every numeric text can be converted.
DecodeNum(n, format) ==
    {IF format = "STRING" THEN [n EXCEPT !.text = <<"zero">>, !.DataFormat = format]
     ELSE [n EXCEPT !.text = <<"binary">>, !.DataFormat = format]}
    \cup IF ToSet(n.text) \subseteq Digit THEN {} ELSE {n}

\* getValue() of all types and both kinds of address, and getValueX().
Converted(n, format, isCString) ==
    CASE n.DataFormat # "FTLight" \/ (format = "STRING" /\ ~isCString) -> {n}
      [] n.DataFormat = "FTLight" /\ n.TypeX = "BINX" -> {[n EXCEPT !.text = <<"binary">>, !.DataFormat = "BINARY"]}
      [] n.DataFormat = "FTLight" /\ n.TypeX = "NUMBER" -> DecodeNum(n, format)
      [] OTHER -> {n}

GetValue(a, format, isCString) ==
    LET at == Found(a).at
    IN  /\ X.Root # NULL
        /\ Call
        /\ X' = [X EXCEPT !.PosX = at]
        /\ IF Found(a).found
           THEN \E c \in Converted(node[at], format, isCString) : node' = [node EXCEPT ![at] = c]
           ELSE node' = node
        /\ UNCHANGED LineNumber

\* serializeStringFTL() dates the hierarchy first; what it writes is Serialized(node').
\* A node that it encodes is not converted by a later getValue().
Serialize ==
    LET at == FindPosition(node, Start(node, X), <<0, 0>>)
        t  == IF at.found THEN Stored(node, at.at, Timestamp) ELSE node
    IN  /\ X.Root # NULL
        /\ node' = Encoded(t, Serialization(t).encoded)
        /\ X' = [X EXCEPT !.PosX = at.at]
        /\ Call
        /\ UNCHANGED LineNumber

\* clearFTLightHierarchy(): the object keeps its own text and type.
ClearHierarchy ==
    /\ node' = <<[node[1] EXCEPT !.Child = NULL, !.DataFormat = "NONE"]>>
    /\ X' = NoNavi /\ LineNumber' = 0
    /\ Call

NextTree ==
    \/ \E line \in Lines : ReceiveLine(line)
    \/ \E a \in Addresses, v \in Values : InsertValueX(a, v) \/ SetValueX(a, v)
    \/ \E a \in Addresses, f \in {"STRING", "UINT64"}, b \in BOOLEAN : GetValue(a, f, b)
    \/ Serialize
    \/ ClearHierarchy

SpecTree == InitTree /\ [][NextTree]_hierarchy

-----------------------------------------------------------------------------
(* Properties *)

\* Every node but the first is found in the ring of its parent's children, and
\* each ring comes back to where it began: otherwise a search never ends or a
\* node is lost (addChild(), getChild(), getLastChild()).
RingsClosed ==
    /\ {X.Root, X.PosX, X.PathX} \subseteq Nodes(node) \cup {NULL}
    /\ \A parent \in {node[n].Parent : n \in Nodes(node) \ {1}} :
         LET c == Children(node, parent)
         IN  /\ ToSet(c) = {n \in Nodes(node) : node[n].Parent = parent}
             /\ node[Last(c)].Sibling = c[1]

\* Level and text of the nodes, in the order of the hierarchy.
Outline(t) ==
    FoldAlong(LAMBDA w, k : IF w.v.at = NULL THEN w
                           ELSE LET v == Travel(t, w.v, FALSE)
                                IN  [v |-> v, out |-> IF v.at = NULL THEN w.out
                                                      ELSE Append(w.out, <<v.level, t[v.at].text>>)],
             [v |-> Top, out |-> <<>>], Append(t, 0)).out

\* One location, one identifier, and below them nodes of these types that were
\* neither left empty, nor made by an address, nor converted by a getValue().
Consists(t, types) ==
    /\ Len(t) >= 3 /\ t[2].TypeX = "LOCATION" /\ t[3].TypeX = "IDENTIFIER" /\ "@" \in ToSet(t[3].text)
    /\ \A n \in 4 .. Len(t) :
         t[n].TypeX \in types /\ t[n].Parent > 2 /\ t[n].text \notin {<<>>, <<"-">>} /\ ToSet(t[n].text) \subseteq Char

\* Paths, collections, comments and values written by synchronous lines are
\* read back as they were: the same texts on the same levels.
\* serializeStringFTL() promises it for more ("ToDo: complete all variants");
\* empty items, options with several items, references to other nodes and
\* addresses beside the identifier are not read back.
WrittenIsRead ==
    Consists(node, {"TEXT", "NUMBER", "COMMENT"}) =>
        Outline(ProcessStringFTL(Empty, Serialized(node)).node) = Outline(node)

\* The two ways to follow an address agree: getPosition() adds nothing where
\* findPosition() finds a node, and what it adds is found there.
SameWay(p, n, way) ==
    /\ FindPosition(p.t, Start(p.t, X), n) = [at |-> p.at, found |-> TRUE]
    /\ way.found => p = [t |-> node, at |-> way.at]

AddressesAgree ==
    X.Root # NULL =>
        \A a \in Addresses :
            SameWay(GetPosition(node, Start(node, X), AddressNumbers(a)), AddressNumbers(a), Found(a))

\* The XML tags are nested: each level is closed before the level around it,
\* and every node with a text appears once within its level.
Nested(tags, shown) ==
    LET open == FoldAlong(LAMBDA o, tag :
                  CASE tag[1] = "level"  -> Append(o, tag[2])
                    [] tag[1] = "/level" -> IF o # <<>> /\ Last(o) = tag[2] THEN Front(o) ELSE <<-1>>
                    [] OTHER -> IF o # <<>> /\ Last(o) = tag[2] THEN o ELSE <<-1>>, <<>>, tags)
        nodes == {k \in DOMAIN tags : tags[k][1] = "node"}
    IN  /\ open = <<>>
        /\ {tags[k][4] : k \in nodes} = shown
        /\ \A j, k \in nodes : tags[j][4] = tags[k][4] => j = k

XMLNested == Nested(XML(node), {n \in Nodes(node) \ {1} : node[n].text \notin {<<>>, <<"-">>}})

\* Whoever goes through the hierarchy, by its rings or by an address, reaches
\* each node and comes to an end.
Navigable == RingsClosed /\ AddressesAgree

\* What is written of the hierarchy is the hierarchy: read again in the one
\* format, nested in the other.
Written == WrittenIsRead /\ XMLNested
=============================================================================
