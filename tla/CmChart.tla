------------------------------ MODULE CmChart ------------------------------
(***************************************************************************)
(* Charts: what an application draws is kept in the matrix of a CmValueFTL *)
(* at places both sides agree on (FTLight/CmValueFTL.cpp, "CmMatrixFTL     *)
(* application").  A chart is a collection of texts, of lines, or the      *)
(* background with its ranges.  Place () is true when drawing is enabled,  *)
(* (0, i) when item i is not; (k) has the k-th style of all items that do  *)
(* not choose their own at (k, i).                                         *)
(*                                                                         *)
(* Texts and colours are numbers here: where they lie is for CmMatrix.     *)
(***************************************************************************)
EXTENDS CmMatrix

CONSTANTS
    Styles,            \* what size, colour... can be chosen
    Default,           \* -1 or an empty text: the style of all items
    Standard,          \* styles of a chart that sets none
    MaxItem,           \* bound: the last item
    MaxPoints          \* bound: points of a line

\* A style, a point or a colour that is zero reads as one that was never set.
ASSUME ChartAssumption ==
    /\ MaxItem \in Nat /\ MaxPoints \in Nat
    /\ Styles \subseteq Nat \ {0} /\ Standard \in Nat \ {0}
    /\ Default # 0 /\ Nothing \notin Nat

VARIABLES
    kind,              \* "text", "line" or "background"
    chart,             \* its matrix
    defaults,          \* the styles for all: the standard, or what was set last (history)
    missed,            \* items were looked at before there were any (history)
    items,             \* style, state and points set for each item (history)
    drawing            \* whether drawing was enabled last (history)

charts == <<kind, chart, defaults, missed, items, drawing>>

Kinds == {"text", "line", "background"}

StylesAt == IF kind = "text" THEN 2 .. 6 ELSE 1 .. 5

NoRoom == <<>>         \* no text is kept

Store(n, index, v) ==
    SetValue(BeforeLastLevel(n, index, TRUE).node, NoRoom, index, Cell(v, "NUMBER")).node

\* writes: pairs of an index and a value, in the order of the code.  (There is
\* always the first matrix: asking for it makes TLC take one write at a time.)
StoreAll(n, writes) == FoldAlong(LAMBDA m, w : IF <<>> \in DOMAIN m THEN Store(m, w[1], w[2]) ELSE m, n, writes)

TouchAll(n, indices) == FoldAlong(LAMBDA m, index : IF <<>> \in DOMAIN m THEN AfterReading(m, index) ELSE m, n, indices)

ReadChart(index) == ReadAt(chart, NoRoom, index)

-----------------------------------------------------------------------------
(* Writing *)

\* setChartTextDefaults(), setChartLineDefaults()
WithDefaults(n, style) ==
    StoreAll(n, << <<(<<>>), 1>>, << <<0>>, 0>> >>
                \o [k \in 1 .. 5 |-> << <<Min(StylesAt) + k - 1>>, style>>])

\* Only a matrix whose first level has no elements yet gets the standard.
IsUntouched == VectorLength(chart, <<>>) = 0
Ready == IF IsUntouched THEN WithDefaults(chart, Standard) ELSE chart

\* From the first item on there shall always be styles for all, and drawing is
\* enabled with them.  They are missed once the application has counted, looked
\* up, enabled or disabled items before.
DefaultsNow == IF defaults = Nothing THEN Standard ELSE defaults
DrawingNow  == IF defaults = Nothing /\ ~missed THEN 1 ELSE drawing

WithFirstItem == defaults' = DefaultsNow /\ drawing' = DrawingNow /\ UNCHANGED missed

LookedAt == missed' = IF defaults = Nothing THEN TRUE ELSE missed

StylesOf(i, style) == [k \in 1 .. 5 |-> << <<Min(StylesAt) + k - 1, i>>, style>>]

SetTextAt(n, i, style) ==
    StoreAll(n, << << <<0, i>>, 0>>, << <<0, i, 0>>, i + 1>>, << <<0, i, 1>>, i + 1>>, << <<1, i>>, i + 1>> >>
                \o StylesOf(i, style))

SetTextAll(n, places, style) == FoldAlong(LAMBDA m, i : SetTextAt(m, i, style), n, places)

Item(style, points) == [style |-> style, isEnabled |-> TRUE, points |-> points]

\* setChartText(); setChartTextWrap() writes a text of each line.
SetChartText(i, lines, style) ==
    /\ kind = "text" /\ i + lines - 1 <= MaxItem
    /\ chart' = SetTextAll(Ready, [l \in 1 .. lines |-> i + l - 1], style)
    /\ WithFirstItem
    /\ items' = [j \in DOMAIN items \cup i .. i + lines - 1 |->
                   IF j \in i .. i + lines - 1 THEN Item(style, <<j + 1>>) ELSE items[j]]
    /\ UNCHANGED kind

\* X and Y of each of n points, in turn.
CoordinatesOf(i, n) == [k \in 1 .. 2 * n |-> <<0, i, (k - 1) % 2, (k - 1) \div 2>>]

PointsOf(i, n, p) == [k \in 1 .. 2 * n |-> <<CoordinatesOf(i, n)[k], p>>]

\* setChartLine(), setChartRectangle(): points of before, behind the new ones,
\* are not removed.
SetChartLine(i, n, p, style) ==
    /\ kind = "line"
    /\ chart' = StoreAll(Ready, PointsOf(i, n, p) \o StylesOf(i, style) \o << << <<0, i>>, 0>> >>)
    /\ WithFirstItem
    /\ items' = With(items, i, Item(style, [j \in 1 .. n |-> p]))
    /\ UNCHANGED kind

SetDefaults(style) ==
    /\ kind \in {"text", "line"}
    /\ chart' = WithDefaults(chart, style)
    /\ defaults' = style /\ missed' = FALSE /\ drawing' = 1
    /\ UNCHANGED <<kind, items>>

\* setDrawingEnabled(), setItemUpdated(), clearItemUpdated()
SetDrawingEnabled(v) ==
    /\ chart' = Store(chart, <<>>, v)
    /\ drawing' = v
    /\ UNCHANGED <<kind, defaults, missed, items>>

SetItemEnabled(i, isEnabled) ==
    /\ kind \in {"text", "line"}
    /\ chart' = Store(chart, <<0, i>>, IF isEnabled THEN 0 ELSE 1)
    /\ items' = [j \in DOMAIN items |-> IF j = i THEN [items[i] EXCEPT !.isEnabled = isEnabled] ELSE items[j]]
    /\ LookedAt
    /\ UNCHANGED <<kind, defaults, drawing>>

\* setChartBackground(), setRangeX(), setRangeY(): two neighbouring places.
SetBackground(at, v) ==
    /\ kind = "background"
    /\ chart' = StoreAll(chart, << << <<at>>, v>>, << <<at + 1>>, v>> >>)
    /\ items' = With(items, at, Item(v, <<>>))
    /\ UNCHANGED <<kind, defaults, missed, drawing>>

-----------------------------------------------------------------------------
(* Reading *)

\* getItemCount(), getItemEnabled() and getDrawingEnabled()
Look(index) ==
    /\ chart' = AfterReading(chart, index)
    /\ LookedAt
    /\ UNCHANGED <<kind, defaults, items, drawing>>

\* The style of an item, and what reading it leaves behind.
StyleAt(k, i) == IF ReadChart(<<k, i>>) = Default THEN ReadChart(<<k>>) ELSE ReadChart(<<k, i>>)

\* The places that getChartText() and getChartLine() read.
PlacesOf(i) ==
    (IF kind = "text" THEN << <<0, i, 0>>, <<0, i, 1>>, <<1, i>> >>
     ELSE << <<0, i, 0>> >> \o CoordinatesOf(i, VectorLength(chart, <<0, i, 0>>)))
    \o [k \in 1 .. 5 |-> <<Min(StylesAt) + k - 1, i>>]
    \o [k \in 1 .. 5 |-> <<Min(StylesAt) + k - 1>>]

\* getChartText(), getChartLine(), getChartBackground(), getRangeX() and Y
GetItem(i) ==
    /\ chart' = IF kind = "background" THEN TouchAll(chart, << <<i>>, <<i + 1>> >>) ELSE TouchAll(chart, PlacesOf(i))
    /\ LookedAt
    /\ UNCHANGED <<kind, defaults, items, drawing>>

NewChart == [q \in {<<>>} |-> NewMatrix(Cell(NULL, "NONE"))]

InitChart ==
    /\ kind \in Kinds
    /\ chart = NewChart
    /\ defaults = Nothing /\ missed = FALSE
    /\ items = <<>>
    /\ drawing = 0

NextChart ==
    \/ \E i \in 0 .. MaxItem, style \in Styles \cup {Default} :
         \/ \E lines \in 1 .. 2 : SetChartText(i, lines, style)
         \/ \E n \in 1 .. MaxPoints, p \in Styles : SetChartLine(i, n, p, style)
    \/ \E style \in Styles : SetDefaults(style)
    \/ \E v \in {0, 1} : SetDrawingEnabled(v)
    \/ \E i \in 0 .. MaxItem :
         \/ \E isEnabled \in BOOLEAN : SetItemEnabled(i, isEnabled)
         \/ GetItem(i)
         \/ Look(<<0, i>>)
    \/ \E at \in {0, 2, 4}, v \in Styles : SetBackground(at, v)
    \/ Look(<<0>>)

SpecChart == InitChart /\ [][NextChart]_charts

-----------------------------------------------------------------------------
(* Properties *)

\* The styles for all that are there: none when they were missed.
Available == IF missed THEN Nothing ELSE defaults

ItemShown(i) ==
    /\ (ReadChart(<<0, i>>) = Nothing) = items[i].isEnabled
    /\ \A k \in StylesAt : StyleAt(k, i) = IF items[i].style = Default THEN Available ELSE items[i].style
    /\ kind = "text" => ReadChart(<<1, i>>) = items[i].points[1]
    /\ kind = "line" => \A j \in DOMAIN items[i].points : ReadChart(<<0, i, 0, j - 1>>) = items[i].points[j]

\* What is drawn is what the application set last, with the styles set for all
\* where an item chooses none: though the flags, the styles for all and those of
\* the items share places that become levels when the first item comes, in
\* whatever order items and styles are set and looked at.  The styles for all are
\* the standard until others are set; in a chart whose items were counted, looked
\* up, enabled or disabled before the first one came there are none until then.
ChartShown ==
    /\ ReadChart(<<>>) = IF drawing = 1 THEN 1 ELSE Nothing
    /\ \A i \in DOMAIN items :
         IF kind = "background" THEN ReadChart(<<i>>) = items[i].style /\ ReadChart(<<i + 1>>) = items[i].style
         ELSE ItemShown(i)
=============================================================================
