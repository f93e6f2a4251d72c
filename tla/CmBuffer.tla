------------------------------ MODULE CmBuffer ------------------------------
(***************************************************************************)
(* The memory of texts: CmString of Services/Basic/CmString.cpp keeps its  *)
(* characters in a block of its own, one longer than the text, and books   *)
(* every block it takes and gives back, with the bytes it says it has.     *)
(***************************************************************************)
EXTENDS Integers, Sequences, FiniteSets

CONSTANTS
    Strings,           \* CmString objects
    MaxBlocks,         \* bound: blocks of memory
    MaxLength,         \* bound: characters of a text
    MaxOutlived,       \* bound: Unicode copies that are booked out wrongly
    WordSize           \* bytes of a number (8 in the code)

ASSUME BufferAssumption == {MaxBlocks, MaxLength, MaxOutlived, WordSize} \subseteq Nat \ {0}

VARIABLES
    heap,              \* the bytes in a block, Free when it is not taken
    ItemsUsed,         \* ItemsAllocated - ItemsReleased
    MemoryUsed,        \* MemoryAllocated - MemoryReleased
    string,            \* pText, Length and pUnicode of each object
    outlived,          \* history: Unicode copies released after their text got another length
    overrun            \* history: setAt() has written behind a text

buffers == <<heap, ItemsUsed, MemoryUsed, string, outlived, overrun>>

Free == <<>>
NULLpointer == 0
NUL == "NUL"
Characters == {"x", NUL}

Contents == UNION {[1 .. n -> Characters] : n \in 0 .. MaxLength}

Fresh == [pText |-> NULLpointer, Length |-> 0, pUnicode |-> NULLpointer]

-----------------------------------------------------------------------------
(* Memory *)

Now == [heap |-> heap, used |-> ItemsUsed, bytes |-> MemoryUsed, at |-> NULLpointer]

\* allocateMemory() and what is written to the block next.
Allocate(m, data) ==
    LET a == CHOOSE a \in DOMAIN m.heap : m.heap[a] = Free
    IN  [heap |-> [m.heap EXCEPT ![a] = data], used |-> m.used + 1, bytes |-> m.bytes + Len(data), at |-> a]

\* releaseMemory(): nothing to do for NULL.  The caller says how many bytes there
\* are.
Release(m, a, size) ==
    IF a = NULLpointer THEN m ELSE [m EXCEPT !.heap[a] = Free, !.used = @ - 1, !.bytes = @ - size]

HasBlocks == \E a \in DOMAIN heap : heap[a] = Free

\* A text is released with its length, and so is its Unicode copy: with the length
\* that the text has now.
TextSize(s)    == string[s].Length + 1
UnicodeSize(s) == 2 * (string[s].Length + 1)

\* The old text is released before the new one is taken...
Renewed(s, data) == Allocate(Release(Now, string[s].pText, TextSize(s)), Append(data, NUL))

\* Fault: the old text is released with the length of the new one.
MovedByNewLength(s, data) ==
    LET m == Allocate(Now, Append(data, NUL))
    IN  Release(m, string[s].pText, Len(data) + 1)

\* ...or after it was copied.
Moved(s, data) ==
    LET m == Allocate(Now, Append(data, NUL))
    IN  Release(m, string[s].pText, TextSize(s))

Book(m) == heap' = m.heap /\ ItemsUsed' = m.used /\ MemoryUsed' = m.bytes

Reassign(s, m, length) ==
    /\ Book(m)
    /\ string' = [string EXCEPT ![s].pText = m.at, ![s].Length = length]
    /\ UNCHANGED <<outlived, overrun>>

\* A text that ends with the first NUL.
CString(data) ==
    LET ends == {i \in DOMAIN data : data[i] = NUL}
    IN  IF ends = {} THEN data ELSE SubSeq(data, 1, (CHOOSE i \in ends : \A j \in ends : i <= j) - 1)

\* getText(), getBuffer() and getBinary()
GetText(s) == IF string[s].pText = NULLpointer THEN <<>> ELSE CString(heap[string[s].pText])
GetData(s) == IF string[s].pText = NULLpointer THEN <<>> ELSE SubSeq(heap[string[s].pText], 1, string[s].Length)

-----------------------------------------------------------------------------
(* The calls *)

\* setText(), operator= and the constructors with a text or with memory
SetText(s, data) == HasBlocks /\ Reassign(s, Renewed(s, data), Len(data))

\* From another object; one that is given to itself reads what it has released:
\* anything may be there.
Assign(s, t) ==
    \E data \in IF s = t THEN {CString(c) : c \in Contents} ELSE {GetText(t)} : SetText(s, data)

\* setText(NULL) and clear()
Clear(s) ==
    /\ Book(Release(Now, string[s].pText, TextSize(s)))
    /\ string' = [string EXCEPT ![s].pText = NULLpointer, ![s].Length = 0]
    /\ UNCHANGED <<outlived, overrun>>

\* setText(first, last) with a part of another text
SetRange(s, t, first, last) ==
    /\ s # t /\ last < string[t].Length
    /\ SetText(s, SubSeq(GetData(t), first + 1, last + 1))

\* setLength(), fill(): '0' in the code is NUL here and any other character x.
SetLengthOf(s, length, c) == SetText(s, [i \in 1 .. length |-> c])

\* adjustLength()
AdjustLength(s, length) ==
    /\ HasBlocks
    /\ Reassign(s, Moved(s, [i \in 1 .. length |-> IF i <= string[s].Length THEN GetData(s)[i] ELSE NUL]), length)

\* setAt() of a number with w bytes is given a position from which it fits...
Overwritten(block, pos, w, c) == [i \in DOMAIN block |-> IF i \in pos + 1 .. pos + w THEN c ELSE block[i]]

SetAt(s, pos, w, c) ==
    /\ pos + w <= string[s].Length
    /\ heap' = [heap EXCEPT ![string[s].pText] = Overwritten(@, pos, w, c)]
    /\ UNCHANGED <<ItemsUsed, MemoryUsed, string, outlived, overrun>>

\* ...or any position if the text is shorter than the number: Length - w is not
\* below zero.  What is behind the block is lost, and what follows is undefined.
SetAtBehind(s, pos, w, c) ==
    /\ string[s].Length < w
    /\ heap' = IF string[s].pText = NULLpointer THEN heap
               ELSE [heap EXCEPT ![string[s].pText] = Overwritten(@, pos, w, c)]
    /\ overrun' = TRUE
    /\ UNCHANGED <<ItemsUsed, MemoryUsed, string, outlived>>

\* setValue(): a word with the number in front.
SetNumberAt(s, w, c) ==
    SetText(s, [i \in 1 .. WordSize |-> IF i <= w THEN c ELSE NUL])

\* operator+= of a text, another object or itself
AddText(s, t) ==
    LET data == GetData(s) \o GetText(t)
    IN  HasBlocks /\ Len(data) <= MaxLength /\ Reassign(s, Moved(s, data), Len(data))

\* assignSubString(): a part that goes past the end is cut, and nothing is left
\* when the part is empty.
AssignPart(s, t, first, last) ==
    LET length == string[t].Length
        part   == IF first >= length THEN <<>>
                  ELSE SubSeq(GetData(t), first + 1, IF last < length THEN last + 1 ELSE length)
    IN  HasBlocks /\ Reassign(s, IF s = t /\ part # <<>> THEN Moved(s, part) ELSE Renewed(s, part), Len(part))

\* Two bytes for a character.
Unicode(data) == [i \in 1 .. 2 * (Len(data) + 1) |-> IF i % 2 = 1 /\ i < 2 * Len(data) THEN data[(i + 1) \div 2] ELSE NUL]

\* A copy is released that was made of a text of another length.
Outlives(s) == string[s].pUnicode # NULLpointer /\ Len(heap[string[s].pUnicode]) # UnicodeSize(s)

CountOutlived(s) ==
    /\ Outlives(s) => outlived < MaxOutlived
    /\ outlived' = IF Outlives(s) THEN outlived + 1 ELSE outlived
    /\ UNCHANGED overrun

\* getUnicode(): a copy in a second block, made anew with every call.
GetUnicode(s) ==
    /\ HasBlocks
    /\ LET m == Allocate(Release(Now, string[s].pUnicode, UnicodeSize(s)), Unicode(GetData(s)))
       IN  Book(m) /\ string' = [string EXCEPT ![s].pUnicode = m.at]
    /\ CountOutlived(s)

\* The destructor, and the next object in its place.
Destroy(s) ==
    /\ Book(Release(Release(Now, string[s].pText, TextSize(s)), string[s].pUnicode, UnicodeSize(s)))
    /\ string' = [string EXCEPT ![s] = Fresh]
    /\ CountOutlived(s)

InitBuffers ==
    /\ heap = [a \in 1 .. MaxBlocks |-> Free]
    /\ ItemsUsed = 0 /\ MemoryUsed = 0
    /\ string = [s \in Strings |-> Fresh]
    /\ outlived = 0 /\ overrun = FALSE

NextBuffers ==
    ~overrun /\ \E s \in Strings :
      \/ \E data \in Contents : SetText(s, data)
      \/ Clear(s) \/ GetUnicode(s) \/ Destroy(s)
      \/ \E n \in 0 .. MaxLength : AdjustLength(s, n) \/ \E c \in Characters : SetLengthOf(s, n, c)
      \/ \E pos \in 0 .. MaxLength - 1, w \in {1, WordSize}, c \in Characters :
           SetAt(s, pos, w, c) \/ SetAtBehind(s, pos, w, c)
      \/ \E w \in {1, WordSize}, c \in Characters : SetNumberAt(s, w, c)
      \/ \E t \in Strings :
           \/ Assign(s, t) \/ AddText(s, t)
           \/ \E first, last \in 0 .. MaxLength : SetRange(s, t, first, last) \/ AssignPart(s, t, first, last)

SpecBuffers == InitBuffers /\ [][NextBuffers]_buffers

-----------------------------------------------------------------------------
(* Properties *)

BufferType ==
    /\ heap \in [1 .. MaxBlocks -> Seq(Characters)]
    /\ ItemsUsed \in Nat /\ MemoryUsed \in Int
    /\ string \in [Strings -> [pText: 0 .. MaxBlocks, Length: Nat, pUnicode: 0 .. MaxBlocks]]
    /\ outlived \in Nat /\ overrun \in BOOLEAN

\* The blocks that are not free, and those that s points to.
Taken(h)  == {a \in 1 .. MaxBlocks : h[a] # Free}
Blocks(s) == {string[s].pText, string[s].pUnicode} \ {NULLpointer}

\* The bytes of a block, and of all blocks.
BytesOf(h, a) == {a} \X DOMAIN h[a]
Bytes(h)      == UNION {BytesOf(h, a) : a \in DOMAIN h}

\* A block is taken as long as an object points to it: one object, with one pointer.
TakenIfHeld == \A a \in 1 .. MaxBlocks : heap[a] # Free <=> \E s \in Strings : a \in Blocks(s)
HeldApart   == \A s, t \in Strings : s # t => Blocks(s) \cap Blocks(t) = {}
HeldOnce    == \A s \in Strings : string[s].pText = string[s].pUnicode => string[s].pText = NULLpointer
Counted     == ItemsUsed = Cardinality(Taken(heap))
Booked      == outlived = 0 => MemoryUsed = Cardinality(Bytes(heap))

\* A text fills its block and the NUL behind it; without a block it is empty.
TextFits ==
    \A s \in Strings :
        IF string[s].pText = NULLpointer THEN string[s].Length = 0
        ELSE LET block == heap[string[s].pText]
             IN  Len(block) = string[s].Length + 1 /\ (~overrun => block[Len(block)] = NUL)

\* The inductive invariant behind BuffersOwned.
BuffersInv == BufferType /\ TakenIfHeld /\ HeldApart /\ HeldOnce /\ Counted /\ Booked /\ TextFits

\* Whatever a text is made of, also of a part of itself: its block is one longer
\* than the text and ends with NUL, no two objects share a block, none is lost,
\* and the books count the blocks in use.  They count the bytes in use as long as
\* no Unicode copy was released after its text had got another length: it is
\* released with the length that the text has then.  After a number has been set
\* in a text that is shorter than the number nothing is promised.
BuffersOwned ==
    LET pointers == {string[s].pText : s \in Strings} \cup {string[s].pUnicode : s \in Strings}
        taken    == {a \in DOMAIN heap : heap[a] # Free}
        Owners(a) == {<<s, 1>> : s \in {s \in Strings : string[s].pText = a}}
                        \cup {<<s, 2>> : s \in {s \in Strings : string[s].pUnicode = a}}
    IN  ~overrun =>
        /\ pointers \ {NULLpointer} = taken
        /\ ItemsUsed = Cardinality(taken)
        /\ outlived = 0 => MemoryUsed = Cardinality(Bytes(heap))
        /\ \A a \in taken : Cardinality(Owners(a)) = 1
        /\ \A s \in Strings :
             string[s].pText # NULLpointer =>
               LET block == heap[string[s].pText] IN Len(block) = string[s].Length + 1 /\ block[Len(block)] = NUL
=============================================================================
