------------------------------ MODULE CmMatrix ------------------------------
(***************************************************************************)
(* The sparse matrix of FTLight/CmValueFTL.cpp: CmMatrixFTL and CmMatrix.  *)
(* An element is a number, a text in memory of its own, or a matrix that   *)
(* holds the next level; a value that was there before moves to the scalar *)
(* of that matrix.  A matrix is named by the index of its place; the first *)
(* is <<>>.  All numeric formats are one: each gives back what was stored. *)
(***************************************************************************)
EXTENDS CmVector, FiniteSetsExt, SequencesExt, LeftFold

CONSTANTS
    Indices,           \* vectors the callers address
    Numbers, Texts,    \* what they store
    Memory,            \* room for texts
    Free, Nothing,     \* a place without text, a position without value
    MaxIndex           \* bound: elements of a level - 1

ASSUME MatrixAssumption ==
    /\ MaxIndex \in Nat
    /\ Indices \subseteq Seq(0 .. MaxIndex)
    /\ <<>> \in Indices /\ \A i \in 0 .. MaxIndex : <<i>> \in Indices
    /\ Numbers \subseteq Nat \ {0}
    /\ Free \notin Texts /\ 0 \notin Memory

VARIABLES
    node,              \* the matrices: vector of elements, of their formats, and a scalar
    memory,            \* the text at an address, or Free
    Index              \* CmMatrix::Index, of the element addressed

vars == <<node, memory, Index>>

NULL == 0

Cell(value, format) == [value |-> value, format |-> format]

NewMatrix(scalar) == [vector |-> NewVector, DataFormat |-> NewVector, scalar |-> scalar]

-----------------------------------------------------------------------------
(* Elements: n has the matrices, q is one of them *)

\* Reading an element and its format makes both vectors longer.
Touch(n, q, i) == [n EXCEPT ![q].vector = At(@, i, NULL), ![q].DataFormat = At(@, i, "NONE")]

Element(n, q, i) == Cell(n[q].vector.data[i + 1], n[q].DataFormat.data[i + 1])

PutElement(n, q, i, cell) ==
    [n EXCEPT ![q].vector = Put(@, i, cell.value, NULL), ![q].DataFormat = Put(@, i, cell.format, "NONE")]

\* f where x is given the value v.
With(f, x, v) == [y \in DOMAIN f \cup {x} |-> IF y = x THEN v ELSE f[y]]

\* Fault: the value before is lost.
NewLevelEmpty(n, q, i) ==
    With(PutElement(n, q, i, Cell(NULL, "MATRIX")), Append(q, i), NewMatrix(Cell(NULL, "NONE")))

\* The matrix at an element, the value before as its scalar.
NewLevel(n, q, i) ==
    With(PutElement(n, q, i, Cell(NULL, "MATRIX")), Append(q, i), NewMatrix(Element(n, q, i)))

\* getBeforeLastLevel(): only the first level is not created for a reader; the
\* further ones are looked up with the default of the parameter.
OneLevel(n, q, i, isCreated) ==
    LET isThere == Element(n, q, i).format = "MATRIX"
    IN  [node  |-> IF isThere \/ ~isCreated THEN n ELSE NewLevel(n, q, i),
         at    |-> IF isThere \/ isCreated THEN Append(q, i) ELSE q,
         found |-> isThere \/ isCreated]

BeforeLastLevel(n, index, isCreateNextLevel) ==
    FoldAlong(LAMBDA p, k : IF ~p.found THEN p
                           ELSE OneLevel(Touch(p.node, p.at, index[k]), p.at, index[k], k > 1 \/ isCreateNextLevel),
             [node |-> n, at |-> <<>>, found |-> TRUE],
             [k \in 1 .. IF index = <<>> THEN 0 ELSE Len(index) - 1 |-> k])

\* setValue(): a text in the element is released, one in a scalar is not.
SetElement(n, m, q, i, cell) ==
    LET e == Element(n, q, i)
    IN  IF e.format = "MATRIX" THEN [node |-> [n EXCEPT ![Append(q, i)].scalar = cell], memory |-> m]
        ELSE [node   |-> PutElement(n, q, i, cell),
              memory |-> IF e.format = "STRING" /\ e.value # NULL THEN [m EXCEPT ![e.value] = Free] ELSE m]

SetValue(n, m, index, cell) ==
    IF index = <<>> THEN [node |-> [n EXCEPT ![<<>>].scalar = cell], memory |-> m]
    ELSE SetElement(Touch(n, Front(index), Last(index)), m, Front(index), Last(index), cell)

\* getValue(), operator[] and asString(): what reading leaves behind.
ReadElement(p, index) == IF index = <<>> \/ ~p.found THEN p.node ELSE Touch(p.node, p.at, Last(index))

AfterReading(n, index) == ReadElement(BeforeLastLevel(n, index, FALSE), index)

\* What is read: the scalar of the matrix attached to the element, else the
\* element; nothing where reading does not reach.  What reading creates on its
\* way has nothing to read.
Content(cell, m) ==
    CASE cell.format = "NUMBER" /\ cell.value # 0    -> cell.value
      [] cell.format = "STRING" /\ cell.value # NULL -> m[cell.value]
      [] OTHER -> Nothing

ReadAt(n, m, index) ==
    LET q == Front(index)
    IN  Content(CASE index \in DOMAIN n -> n[index].scalar
                  [] index \notin DOMAIN n /\ q \in DOMAIN n /\ Last(index) < n[q].vector.Length ->
                       Element(n, q, Last(index))
                  [] OTHER -> Cell(NULL, "NONE"), m)

\* getVectorLength()
VectorLength(n, index) ==
    IF index = <<>> THEN n[<<>>].vector.Length
    ELSE IF index \in DOMAIN AfterReading(n, index) THEN n[index].vector.Length ELSE 0

-----------------------------------------------------------------------------
(* Removing *)

Prefixed(n, q) == {r \in DOMAIN n : Len(r) > Len(q) /\ SubSeq(r, 1, Len(q)) = q}

\* Where the texts of a matrix are.
TextsOf(n, q) ==
    {e.value : e \in {e \in {n[q].scalar} \cup {Element(n, q, i) : i \in 0 .. n[q].vector.Length - 1} :
                        e.format = "STRING" /\ e.value # NULL}}

\* Fault: the scalar still points to the text that was released.
EmptyScalarKept(n, q) ==
    LET formats == n[q].DataFormat
        Cleared(i) == i <= n[q].vector.Length /\ formats.data[i] \in {"STRING", "MATRIX"}
    IN  [n[q] EXCEPT !.DataFormat.data = [i \in DOMAIN @ |-> IF Cleared(i) THEN "NONE" ELSE @[i]],
                     !.vector = SetLength(@, 0, NULL)]

\* A matrix without elements: numeric formats and a numeric scalar remain.
Empty(n, q) ==
    LET formats == n[q].DataFormat
        Cleared(i) == i <= n[q].vector.Length /\ formats.data[i] \in {"STRING", "MATRIX"}
    IN  [n[q] EXCEPT !.DataFormat.data = [i \in DOMAIN @ |-> IF Cleared(i) THEN "NONE" ELSE @[i]],
                     !.vector = SetLength(@, 0, NULL),
                     !.scalar = IF @.format \in {"STRING", "MATRIX"} THEN Cell(NULL, "NONE") ELSE @]

\* clearMatrix() of the matrix q, and the destructors of those below it.
Clear(n, m, q) ==
    LET below    == Prefixed(n, q)
        released == UNION {TextsOf(n, r) : r \in below \cup {q}}
    IN  [node   |-> [r \in DOMAIN n \ below |-> IF r = q THEN Empty(n, q) ELSE n[r]],
         memory |-> [a \in DOMAIN m |-> IF a \in released THEN Free ELSE m[a]]]

-----------------------------------------------------------------------------
(* The calls *)

Init ==
    /\ node = [q \in {<<>>} |-> NewMatrix(Cell(NULL, "NONE"))]
    /\ memory = [a \in Memory |-> Free]
    /\ Index = <<>>

\* operator() and operator[] of an index.
Address(index) == Index' = index /\ UNCHANGED <<node, memory>>

Written(index, v) ==
    LET room   == CHOOSE a \in Memory : memory[a] = Free
        isText == v \in Texts
    IN  SetValue(BeforeLastLevel(node, index, TRUE).node,
                 IF isText THEN [memory EXCEPT ![room] = v] ELSE memory, index,
                 IF isText THEN Cell(room, "STRING") ELSE Cell(v, "NUMBER"))

Write(index, v) == \E w \in {Written(index, v)} : node' = w.node /\ memory' = w.memory

HasRoom(v) == v \in Texts => \E a \in Memory : memory[a] = Free

\* operator= of all types, setString() and setValue()
Assign(v) ==
    /\ HasRoom(v)
    /\ Write(Index, v)
    /\ UNCHANGED Index

\* The conversion operators and getSizeLastLevel().
Read == node' = AfterReading(node, Index) /\ UNCHANGED <<memory, Index>>

\* clearMatrix() with the index: refused where there is no matrix.
ClearMatrix ==
    /\ \E n \in {AfterReading(node, Index)} :
         IF Index \in DOMAIN n
         THEN \E c \in {Clear(n, memory, Index)} : node' = c.node /\ memory' = c.memory
         ELSE node' = n /\ UNCHANGED memory
    /\ UNCHANGED Index

\* The element of the level below index that has the value, or the one behind the last.
FirstSame(n, index, length, v) ==
    LET same == {i \in 0 .. length - 1 : ReadAt(n, memory, Append(index, i)) = v}
    IN  IF same = {} THEN length ELSE Min(same)

\* appendItem() and addValue(): the index stays at the item, one level below
\* (at the level itself when that was left).
AppendItem(v) ==
    \E n \in {AfterReading(node, Index)} : \E length \in {VectorLength(n, Index)} :
    \E i \in {FirstSame(n, Index, length, v)} :
        /\ i <= MaxIndex /\ Append(Index, i) \in Indices
        /\ HasRoom(v)
        /\ Index' = Append(Index, i)
        /\ IF i = length THEN Write(Append(Index, i), v) ELSE node' = n /\ UNCHANGED memory

\* findScalarItem(): looks at the first level, as far as the level below its
\* first element is long, and writes where it ends.
FindScalarItem(v) ==
    \E n \in {AfterReading(node, <<0>>)} : \E length \in {VectorLength(n, <<0>>)} :
    \E i \in {FirstSame(n, <<>>, length, v)} :
        /\ length <= MaxIndex
        /\ v \in Texts /\ HasRoom(v)
        /\ Index' = <<i>>
        /\ IF i = length THEN Write(<<i>>, v) ELSE node' = AfterReading(n, <<i>>) /\ UNCHANGED memory

Next ==
    \/ \E index \in Indices : Address(index)
    \/ \E v \in Numbers \cup Texts : Assign(v) \/ AppendItem(v) \/ FindScalarItem(v)
    \/ Read
    \/ ClearMatrix

Spec == Init /\ [][Next]_vars

-----------------------------------------------------------------------------
(* Properties *)

\* Every text that is still referred to is in memory, and only once: a text is
\* neither used after it was released nor released twice (setValue(),
\* getBeforeLastLevel(), clearMatrix() and the destructors).
TextsOwned ==
    /\ \A q \in DOMAIN node : \A a \in TextsOf(node, q) : memory[a] # Free
    /\ \A q, r \in DOMAIN node : q # r => TextsOf(node, q) \cap TextsOf(node, r) = {}
    /\ \A q \in DOMAIN node :
         LET holds(a) == {i \in 0 .. node[q].vector.Length - 1 : Element(node, q, i) = Cell(a, "STRING")}
             scalar(a) == IF node[q].scalar = Cell(a, "STRING") THEN 1 ELSE 0
         IN  \A a \in Memory : Cardinality(holds(a)) + scalar(a) <= 1

\* The matrix keeps a value per position: storing one, making levels on the way
\* to another, reading, and removing a level touch no other position.
Places == INSTANCE IndexedValues WITH
    Positions <- Indices, Values <- Numbers \cup Texts,
    content <- [index \in Indices |-> ReadAt(node, memory, index)]

ImplementsIndexedValues == Places!Spec
=============================================================================
