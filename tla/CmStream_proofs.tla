-------------------------- MODULE CmStream_proofs --------------------------
(***************************************************************************)
(* The circular window of CmStream keeps the bytes of every unread         *)
(* position, for every window size, every set of plain lines and every     *)
(* nesting of callbacks; and a stream with a receiver implements           *)
(* LineChannel, if the lines fit into the window: none is refused, lost,   *)
(* cut, doubled or overtaken.                                              *)
(***************************************************************************)
EXTENDS AttachedStream, SequenceTheorems, TLAPS

USE WindowAssumption, ByteAssumption, LineAssumption, NoneAssumption

-----------------------------------------------------------------------------
(* The window *)

\* memcpy() writes the bytes it is given and nothing else.
LEMMA MemcpyStores ==
    ASSUME NEW win \in [Address -> Byte], NEW to \in Int, NEW bytes \in Seq(Byte)
    PROVE  /\ Memcpy(win, to, bytes) \in [Address -> Byte]
           /\ \A a \in Address :
                Memcpy(win, to, bytes)[a] =
                    IF to <= a /\ a < to + Len(bytes) THEN bytes[a - to + 1] ELSE win[a]
<1>1. ASSUME NEW a \in Address, to <= a, a < to + Len(bytes)
      PROVE  bytes[a - to + 1] \in Byte
  BY <1>1 DEF Address
<1>2. ASSUME NEW a \in Address
      PROVE  (IF to <= a /\ a < to + Len(bytes) THEN bytes[a - to + 1] ELSE win[a]) \in Byte
  BY <1>1
<1> QED  BY <1>2 DEF Memcpy

\* Every position of one window's length from the read position has an
\* address, and no two have the same.
LEMMA AddressesDistinct ==
    ASSUME TypeOK, PositionsOrdered,
           NEW p \in readPos .. readPos + WindowSize - 1,
           NEW q \in readPos .. readPos + WindowSize - 1
    PROVE  /\ AddressOf(p) \in Address
           /\ AddressOf(p) = AddressOf(q) => p = q
  BY DEF TypeOK, PositionsOrdered, AddressOf, Address

\* The three situations of writeData() put the i-th byte at the address of the
\* i-th free position and leave the unread bytes alone.
LEMMA StoreKeepsUnread ==
    ASSUME TypeOK, PositionsOrdered,
           NEW bytes \in Seq(Byte), Len(bytes) <= WindowSize - (writePos - readPos)
    PROVE  /\ Stored(bytes) \in [Address -> Byte]
           /\ \A p \in readPos .. writePos - 1 : Stored(bytes)[AddressOf(p)] = window[AddressOf(p)]
           /\ \A p \in writePos .. writePos + Len(bytes) - 1 :
                Stored(bytes)[AddressOf(p)] = bytes[p - writePos + 1]
<1> DEFINE room == wrapPos - writePos
<1>1. room \in Int /\ window \in [Address -> Byte] /\ Len(bytes) \in Nat
  BY DEF TypeOK
<1>2. \A p \in readPos .. writePos + Len(bytes) - 1 : AddressOf(p) \in Address
  BY <1>1, AddressesDistinct DEF TypeOK, PositionsOrdered
<1>3. CASE writePos + Len(bytes) <= wrapPos
  <2>1. Stored(bytes) = Memcpy(window, WindowSize - room, bytes)
    BY <1>3 DEF Stored
  <2>2. /\ Stored(bytes) \in [Address -> Byte]
        /\ \A a \in Address : Stored(bytes)[a] =
             IF WindowSize - room <= a /\ a < WindowSize - room + Len(bytes)
             THEN bytes[a - (WindowSize - room) + 1] ELSE window[a]
    BY <1>1, <2>1, MemcpyStores
  <2>3. \A p \in readPos .. writePos + Len(bytes) - 1 : AddressOf(p) = WindowSize - room + (p - writePos)
    BY <1>3, <1>1 DEF TypeOK, PositionsOrdered, AddressOf
  <2>4. ASSUME NEW p \in readPos .. writePos - 1
        PROVE  Stored(bytes)[AddressOf(p)] = window[AddressOf(p)]
    <3>1. AddressOf(p) \in Address /\ AddressOf(p) < WindowSize - room
      BY <1>1, <1>2, <2>3 DEF TypeOK
    <3> QED  BY <1>1, <2>2, <3>1 DEF Address
  <2>5. ASSUME NEW p \in writePos .. writePos + Len(bytes) - 1
        PROVE  Stored(bytes)[AddressOf(p)] = bytes[p - writePos + 1]
    <3>1. AddressOf(p) \in Address /\ AddressOf(p) = WindowSize - room + (p - writePos)
      BY <1>1, <1>2, <2>3 DEF TypeOK, PositionsOrdered
    <3>2. AddressOf(p) - (WindowSize - room) + 1 = p - writePos + 1
      BY <1>1, <3>1 DEF TypeOK
    <3> QED  BY <1>1, <2>2, <3>1, <3>2 DEF TypeOK, Address
  <2> QED  BY <2>2, <2>4, <2>5
<1>4. CASE writePos + Len(bytes) > wrapPos /\ writePos < wrapPos
  <2> DEFINE head == SubSeq(bytes, 1, room)
             tail == SubSeq(bytes, room + 1, Len(bytes))
             first == Memcpy(window, WindowSize - room, head)
  <2>1. /\ head \in Seq(Byte) /\ Len(head) = room
        /\ \A i \in 1 .. room : head[i] = bytes[i]
    BY <1>1, <1>4, SubSeqProperties DEF TypeOK
  <2>2. /\ tail \in Seq(Byte) /\ Len(tail) = Len(bytes) - room
        /\ \A i \in 1 .. Len(bytes) - room : tail[i] = bytes[room + i]
    BY <1>1, <1>4, SubSeqProperties DEF TypeOK
  <2>3. Stored(bytes) = Memcpy(first, 0, tail)
    BY <1>4, <1>1 DEF Stored, TypeOK
  <2> HIDE DEF head, tail
  <2>4. /\ first \in [Address -> Byte]
        /\ \A a \in Address : first[a] =
             IF WindowSize - room <= a /\ a < WindowSize - room + room
             THEN head[a - (WindowSize - room) + 1] ELSE window[a]
    BY <1>1, <2>1, MemcpyStores, SMTT(30)
  <2> HIDE DEF first
  <2>5. /\ Stored(bytes) \in [Address -> Byte]
        /\ \A a \in Address : Stored(bytes)[a] =
             IF a < Len(bytes) - room THEN tail[a + 1] ELSE first[a]
    <3>1. /\ Memcpy(first, 0, tail) \in [Address -> Byte]
          /\ \A a \in Address : Memcpy(first, 0, tail)[a] =
               IF 0 <= a /\ a < 0 + Len(tail) THEN tail[a - 0 + 1] ELSE first[a]
      BY <2>2, <2>4, MemcpyStores
    <3> QED  BY <1>1, <2>2, <2>3, <3>1 DEF Address
  <2>6. ASSUME NEW p \in readPos .. writePos - 1
        PROVE  Stored(bytes)[AddressOf(p)] = window[AddressOf(p)]
    <3>1. AddressOf(p) = WindowSize - (wrapPos - p) /\ AddressOf(p) \in Address
      BY <1>1, <1>2, <1>4 DEF AddressOf, TypeOK, PositionsOrdered
    <3>2. AddressOf(p) >= Len(bytes) - room /\ AddressOf(p) < WindowSize - room
      BY <1>1, <1>4, <3>1 DEF TypeOK, PositionsOrdered
    <3> HIDE DEF room
    <3> QED  BY <1>1, <2>4, <2>5, <3>1, <3>2 DEF Address
  <2>7. ASSUME NEW p \in writePos .. writePos + Len(bytes) - 1
        PROVE  Stored(bytes)[AddressOf(p)] = bytes[p - writePos + 1]
    <3>0. AddressOf(p) \in Address
      BY <1>1, <1>2 DEF TypeOK, PositionsOrdered
    <3>1. CASE p < wrapPos
      <4>1. AddressOf(p) = WindowSize - room + (p - writePos)
        BY <1>1, <3>1 DEF AddressOf, TypeOK
      <4>2. AddressOf(p) >= Len(bytes) - room /\ AddressOf(p) < WindowSize
        BY <1>1, <1>4, <3>1, <4>1 DEF TypeOK, PositionsOrdered
      <4>3. AddressOf(p) - (WindowSize - room) + 1 = p - writePos + 1 /\ p - writePos + 1 \in 1 .. room
        BY <1>1, <3>1, <4>1 DEF TypeOK
      <4>4. Stored(bytes)[AddressOf(p)] = first[AddressOf(p)]
        BY <1>1, <2>5, <3>0, <4>2 DEF Address
      <4>5. first[AddressOf(p)] = head[p - writePos + 1]
        BY <1>1, <2>4, <3>0, <4>1, <4>2, <4>3 DEF Address, TypeOK
      <4> QED  BY <2>1, <4>3, <4>4, <4>5
    <3>2. CASE p >= wrapPos
      <4>1. AddressOf(p) = p - wrapPos
        BY <1>1, <3>2 DEF AddressOf, TypeOK
      <4>2. /\ AddressOf(p) < Len(bytes) - room /\ AddressOf(p) + 1 \in 1 .. Len(bytes) - room
            /\ room + (AddressOf(p) + 1) = p - writePos + 1
        BY <1>1, <1>4, <3>2, <4>1 DEF TypeOK, PositionsOrdered
      <4> QED  BY <2>2, <2>5, <3>0, <4>2
    <3> QED  BY <3>1, <3>2 DEF TypeOK
  <2> QED  BY <2>5, <2>6, <2>7
<1>5. CASE writePos + Len(bytes) > wrapPos /\ writePos >= wrapPos
  <2>1. Stored(bytes) = Memcpy(window, writePos - wrapPos, bytes)
    BY <1>5, <1>1 DEF Stored, TypeOK
  <2>2. /\ Stored(bytes) \in [Address -> Byte]
        /\ \A a \in Address : Stored(bytes)[a] =
             IF writePos - wrapPos <= a /\ a < writePos - wrapPos + Len(bytes)
             THEN bytes[a - (writePos - wrapPos) + 1] ELSE window[a]
    <3>1. writePos - wrapPos \in Int
      BY DEF TypeOK
    <3> QED  BY <1>1, <2>1, <3>1, MemcpyStores
  <2>3. \A p \in writePos .. writePos + Len(bytes) - 1 : AddressOf(p) = p - wrapPos
    BY <1>5, <1>1 DEF TypeOK, AddressOf
  <2>4. \A p \in readPos .. writePos - 1 :
            AddressOf(p) < writePos - wrapPos \/ AddressOf(p) >= writePos - wrapPos + Len(bytes)
    BY <1>5, <1>1 DEF TypeOK, PositionsOrdered, AddressOf
  <2>5. ASSUME NEW p \in readPos .. writePos - 1
        PROVE  Stored(bytes)[AddressOf(p)] = window[AddressOf(p)]
    <3>1. AddressOf(p) \in Address
      BY <1>1, <1>2 DEF TypeOK
    <3>2. AddressOf(p) < writePos - wrapPos \/ AddressOf(p) >= writePos - wrapPos + Len(bytes)
      BY <2>4
    <3>3. ~(writePos - wrapPos <= AddressOf(p) /\ AddressOf(p) < writePos - wrapPos + Len(bytes))
      BY <1>1, <3>1, <3>2 DEF TypeOK, Address
    <3> QED  BY <2>2, <3>1, <3>3
  <2>6. ASSUME NEW p \in writePos .. writePos + Len(bytes) - 1
        PROVE  Stored(bytes)[AddressOf(p)] = bytes[p - writePos + 1]
    <3>1. AddressOf(p) \in Address /\ AddressOf(p) = p - wrapPos
      BY <1>1, <1>2, <2>3 DEF TypeOK, PositionsOrdered
    <3>2. AddressOf(p) - (writePos - wrapPos) + 1 = p - writePos + 1
      BY <1>1, <3>1 DEF TypeOK
    <3> QED  BY <1>1, <2>2, <3>1, <3>2 DEF TypeOK, Address
  <2> QED  BY <2>2, <2>5, <2>6
<1> QED  BY <1>1, <1>3, <1>4, <1>5 DEF TypeOK

-----------------------------------------------------------------------------
(* The search for the next delimiter *)

\* A CR that memchr() finds at the address of the first unread CR is the next
\* delimiter: an LF has been stored behind it, at the next address.
LEMMA MarkFindsDelimiter ==
    ASSUME StreamInv, ~isNextNewLine,
           NEW base \in Int, NEW q \in newLinePos .. writePos - 1,
           AddressOf(q) = q - (wrapPos - WindowSize + base),
           window[AddressOf(q)] = CR,
           \A p \in newLinePos .. q - 1 : window[AddressOf(p)] # CR,
           Mark(AddressOf(q), base)
    PROVE  /\ isNextNewLine' = TRUE /\ newLinePos' = q
           /\ q + 2 <= writePos /\ log[q + 1] = CR /\ log[q + 2] = LF
           /\ \A p \in readPos .. q - 1 : log[p + 1] # CR
<1>0. /\ TypeOK /\ PositionsOrdered /\ UnreadBytesKept /\ DelimiterFound /\ DelimitersPaired
      /\ writePos \in Nat /\ readPos \in Nat /\ wrapPos \in Nat /\ newLinePos \in Nat
  BY DEF StreamInv, TypeOK
<1>1. \A p \in readPos .. writePos - 1 : window[AddressOf(p)] = log[p + 1]
  BY <1>0 DEF UnreadBytesKept
<1>9. q \in readPos .. writePos - 1 /\ newLinePos .. q - 1 \subseteq readPos .. writePos - 1
  BY <1>0 DEF PositionsOrdered
<1>2. log[q + 1] = CR
  BY <1>1, <1>9
<1>3. q + 2 <= writePos /\ log[q + 2] = LF
  <2>1. q + 1 \in 1 .. Len(log) /\ Len(log) = writePos
    BY <1>0, <1>9 DEF UnreadBytesKept
  <2>2. q + 1 + 1 <= Len(log) /\ log[q + 1 + 1] = LF
    BY <1>0, <1>2, <2>1 DEF DelimitersPaired
  <2>3. q + 1 + 1 = q + 2
    BY <1>0
  <2> QED  BY <2>1, <2>2, <2>3
<1>4. AddressOf(q + 1) = IF AddressOf(q) = WindowSize - 1 THEN 0 ELSE AddressOf(q) + 1
  BY <1>0, <1>9, <1>3 DEF AddressOf, PositionsOrdered
<1>5. q + 1 \in readPos .. writePos - 1 /\ window[AddressOf(q + 1)] = LF
  <2>1. q + 1 \in readPos .. writePos - 1 /\ (q + 1) + 1 = q + 2
    BY <1>0, <1>9, <1>3
  <2> QED  BY <1>1, <1>3, <2>1
<1>6. isNextNewLine' = TRUE
  BY <1>4, <1>5 DEF Mark
<1>7. newLinePos' = q
  <2>1. newLinePos' = wrapPos - WindowSize + base + AddressOf(q)
    BY <1>6 DEF Mark
  <2> QED  BY <1>0, <1>9, <2>1
<1>8. \A p \in readPos .. q - 1 : log[p + 1] # CR
  <2> TAKE p \in readPos .. q - 1
  <2>1. CASE p < newLinePos
    BY <1>0, <2>1 DEF DelimiterFound
  <2>2. CASE p >= newLinePos
    <3>1. p \in newLinePos .. q - 1 /\ p \in readPos .. writePos - 1
      BY <1>0, <1>9, <2>2
    <3> QED  BY <1>1, <3>1
  <2> QED  BY <1>0, <2>1, <2>2
<1> QED  BY <1>2, <1>3, <1>6, <1>7, <1>8

\* The address ranges of the search are the positions from the last search
\* position to the write position, in stream order.
LEMMA SearchRanges ==
    ASSUME TypeOK, PositionsOrdered, newLinePos < writePos
    PROVE  /\ Search1.base \in Int /\ Search2.base \in Int
           /\ \A a \in Search1.lo .. Search1.hi :
                LET q == wrapPos - WindowSize + Search1.base + a
                IN  /\ q \in newLinePos .. writePos - 1 /\ AddressOf(q) = a
                    /\ \A p \in newLinePos .. q - 1 : AddressOf(p) \in Search1.lo .. a - 1
           /\ isSearchWrap => \A a \in Search2.lo .. Search2.hi :
                LET q == wrapPos - WindowSize + Search2.base + a
                IN  /\ q \in newLinePos .. writePos - 1 /\ AddressOf(q) = a
                    /\ \A p \in newLinePos .. q - 1 :
                         \/ AddressOf(p) \in Search1.lo .. Search1.hi
                         \/ AddressOf(p) \in Search2.lo .. a - 1
           /\ \A p \in newLinePos .. writePos - 1 :
                 \/ AddressOf(p) \in Search1.lo .. Search1.hi
                 \/ isSearchWrap /\ AddressOf(p) \in Search2.lo .. Search2.hi
<1> USE DEF TypeOK, PositionsOrdered, AddressOf
<1>1. CASE writePos <= wrapPos
  BY <1>1 DEF Search1, Search2, isSearchWrap
<1>2. CASE writePos > wrapPos /\ newLinePos >= wrapPos
  BY <1>2 DEF Search1, Search2, isSearchWrap
<1>3. CASE writePos > wrapPos /\ newLinePos < wrapPos
  BY <1>3 DEF Search1, Search2, isSearchWrap
<1> QED  BY <1>1, <1>2, <1>3

\* isReadLine() returns true only in front of a whole delimiter.
LEMMA SearchSucceeds ==
    ASSUME StreamInv, IsReadLine(TRUE)
    PROVE  /\ isNextNewLine' = TRUE
           /\ newLinePos' \in newLinePos .. writePos - 2
           /\ log[newLinePos' + 1] = CR /\ log[newLinePos' + 2] = LF
           /\ \A p \in readPos .. newLinePos' - 1 : log[p + 1] # CR
<1> USE DEF StreamInv
<1>1. CASE isNextNewLine
  <2>1. UNCHANGED scan
    BY <1>1 DEF IsReadLine
  <2> QED  BY <1>1, <2>1 DEF scan, DelimiterFound, TypeOK
<1>2. CASE ~isNextNewLine
  <2>1. newLinePos < writePos
    BY <1>2 DEF IsReadLine
  <2>2. PICK a \in Address :
          \/ FirstCR(Search1.lo, Search1.hi, a) /\ Mark(a, Search1.base)
          \/ /\ isSearchWrap /\ NoCR(Search1.lo, Search1.hi)
             /\ FirstCR(Search2.lo, Search2.hi, a) /\ Mark(a, Search2.base)
    BY <1>2 DEF IsReadLine
  <2>3. CASE FirstCR(Search1.lo, Search1.hi, a) /\ Mark(a, Search1.base)
    <3> DEFINE q == wrapPos - WindowSize + Search1.base + a
    <3>1. /\ q \in newLinePos .. writePos - 1 /\ AddressOf(q) = a /\ Search1.base \in Int
          /\ \A p \in newLinePos .. q - 1 : AddressOf(p) \in Search1.lo .. a - 1
      BY <2>1, <2>3, SearchRanges DEF FirstCR
    <3>2. window[a] = CR /\ \A p \in newLinePos .. q - 1 : window[AddressOf(p)] # CR
      BY <2>3, <3>1 DEF FirstCR
    <3>3. a = q - (wrapPos - WindowSize + Search1.base)
      BY <3>1 DEF TypeOK, Address
    <3> HIDE DEF q
    <3>4. /\ isNextNewLine' = TRUE /\ newLinePos' = q
          /\ q + 2 <= writePos /\ log[q + 1] = CR /\ log[q + 2] = LF
          /\ \A p \in readPos .. q - 1 : log[p + 1] # CR
      BY <1>2, <2>3, <3>1, <3>2, <3>3, MarkFindsDelimiter
    <3> QED  BY <3>1, <3>4 DEF TypeOK
  <2>4. CASE /\ isSearchWrap /\ NoCR(Search1.lo, Search1.hi)
             /\ FirstCR(Search2.lo, Search2.hi, a) /\ Mark(a, Search2.base)
    <3> DEFINE q == wrapPos - WindowSize + Search2.base + a
    <3>1. /\ q \in newLinePos .. writePos - 1 /\ AddressOf(q) = a /\ Search2.base \in Int
          /\ \A p \in newLinePos .. q - 1 :
               AddressOf(p) \in Search1.lo .. Search1.hi \/ AddressOf(p) \in Search2.lo .. a - 1
      BY <2>1, <2>4, SearchRanges DEF FirstCR
    <3>2. window[a] = CR /\ \A p \in newLinePos .. q - 1 : window[AddressOf(p)] # CR
      BY <2>4, <3>1 DEF FirstCR, NoCR
    <3>3. a = q - (wrapPos - WindowSize + Search2.base)
      BY <3>1 DEF TypeOK, Address
    <3> HIDE DEF q
    <3>4. /\ isNextNewLine' = TRUE /\ newLinePos' = q
          /\ q + 2 <= writePos /\ log[q + 1] = CR /\ log[q + 2] = LF
          /\ \A p \in readPos .. q - 1 : log[p + 1] # CR
      BY <1>2, <2>4, <3>1, <3>2, <3>3, MarkFindsDelimiter
    <3> QED  BY <3>1, <3>4 DEF TypeOK
  <2> QED  BY <2>2, <2>3, <2>4
<1> QED  BY <1>1, <1>2

\* isReadLine() returns false only if no byte up to the write position is a CR.
LEMMA SearchFails ==
    ASSUME StreamInv, IsReadLine(FALSE)
    PROVE  /\ isNextNewLine' = isNextNewLine /\ isNextNewLine = FALSE
           /\ newLinePos' \in newLinePos .. writePos
           /\ \A p \in readPos .. newLinePos' - 1 : log[p + 1] # CR
<1>0. /\ TypeOK /\ PositionsOrdered /\ UnreadBytesKept /\ DelimiterFound
      /\ writePos \in Nat /\ readPos \in Nat /\ newLinePos \in Nat /\ isNextNewLine \in BOOLEAN
  BY DEF StreamInv, TypeOK
<1>1. isNextNewLine = FALSE /\ isNextNewLine' = isNextNewLine
  BY <1>0 DEF IsReadLine, scan
<1>2. CASE newLinePos >= writePos
  <2>1. newLinePos' = newLinePos
    BY <1>0, <1>2 DEF IsReadLine, scan
  <2> QED  BY <1>0, <1>1, <2>1 DEF DelimiterFound, PositionsOrdered
<1>3. CASE newLinePos < writePos
  <2>1. /\ NoCR(Search1.lo, Search1.hi)
        /\ isSearchWrap => NoCR(Search2.lo, Search2.hi)
        /\ newLinePos' = writePos
    <3>1. ~(newLinePos >= writePos)
      BY <1>0, <1>3
    <3> QED  BY <1>1, <3>1 DEF IsReadLine
  <2>2. \A p \in newLinePos .. writePos - 1 : window[AddressOf(p)] # CR
    <3> TAKE p \in newLinePos .. writePos - 1
    <3>1. \/ AddressOf(p) \in Search1.lo .. Search1.hi
          \/ isSearchWrap /\ AddressOf(p) \in Search2.lo .. Search2.hi
      BY <1>0, <1>3, SearchRanges
    <3> QED  BY <2>1, <3>1 DEF NoCR
  <2>3. \A p \in readPos .. writePos - 1 : log[p + 1] # CR
    <3> TAKE p \in readPos .. writePos - 1
    <3>1. CASE p < newLinePos
      BY <1>0, <3>1 DEF DelimiterFound
    <3>2. CASE p >= newLinePos
      <4>1. p \in newLinePos .. writePos - 1
        BY <1>0, <3>2
      <4> QED  BY <1>0, <2>2, <4>1 DEF UnreadBytesKept
    <3> QED  BY <1>0, <3>1, <3>2
  <2> QED  BY <1>0, <1>1, <1>3, <2>1, <2>3
<1>4. newLinePos >= writePos \/ newLinePos < writePos
  BY <1>0
<1> QED  BY <1>2, <1>3, <1>4

-----------------------------------------------------------------------------
(* The calls in progress *)

\* What the stack of calls keeps whatever a step does with it.
Nested(c) ==
    /\ c \in Seq(Frame)
    /\ \A i \in 1 .. Len(c) - 1 : c[i].pc = "handle"

LEMMA FrameFields ==
    ASSUME NEW l \in Line, NEW part \in Part, NEW pc \in Pc
    PROVE  [line |-> l, part |-> part, pc |-> pc] \in Frame
BY DEF Frame

LEMMA TopIsFrame ==
    ASSUME Nested(calls), calls # <<>>
    PROVE  /\ Len(calls) \in Nat \ {0} /\ Len(calls) \in 1 .. Len(calls)
           /\ Top \in Frame /\ Top.line \in Line /\ Top.part \in Part /\ Top.pc \in Pc
<1>1. calls \in Seq(Frame) /\ Len(calls) \in Nat \ {0}
  BY EmptySeq DEF Nested
<1>2. Top \in Frame
  BY <1>1 DEF Top
<1> QED  BY <1>1, <1>2 DEF Frame

\* Replacing the topmost call by one that is not about to read.
LEMMA ReplaceTop ==
    ASSUME Nested(calls), calls # <<>>, NEW f \in Frame,
           calls' = [calls EXCEPT ![Len(calls)] = f]
    PROVE  Nested(calls') /\ Top' = f /\ calls' # <<>>
<1>1. calls \in Seq(Frame) /\ Len(calls) \in 1 .. Len(calls) /\ Len(calls) \in Nat
  BY TopIsFrame DEF Nested
<1>2. /\ calls' \in Seq(Frame) /\ Len(calls') = Len(calls)
      /\ \A j \in 1 .. Len(calls) : calls'[j] = IF j = Len(calls) THEN f ELSE calls[j]
  BY <1>1, ExceptSeq
<1>3. \A i \in 1 .. Len(calls') - 1 : calls'[i].pc = "handle"
  <2>1. \A i \in 1 .. Len(calls) - 1 : calls[i].pc = "handle" /\ i # Len(calls)
    BY <1>1 DEF Nested
  <2> QED  BY <1>1, <1>2, <2>1
<1>4. Top' = f
  BY <1>1, <1>2 DEF Top
<1>5. calls' # <<>>
  BY <1>1, <1>2
<1> QED  BY <1>2, <1>3, <1>4, <1>5 DEF Nested

LEMMA GotoKeepsNesting ==
    ASSUME Nested(calls), calls # <<>>, NEW pc \in Pc, Goto(pc)
    PROVE  Nested(calls') /\ Top'.pc = pc /\ calls' # <<>>
<1> DEFINE f == [Top EXCEPT !.pc = pc]
<1>1. f \in Frame /\ f.pc = pc
  BY TopIsFrame DEF Frame
<1>2. calls' = [calls EXCEPT ![Len(calls)] = f]
  BY TopIsFrame DEF Goto, Top, Nested
<1> HIDE DEF f
<1>3. Nested(calls') /\ Top' = f /\ calls' # <<>>
  BY <1>1, <1>2, ReplaceTop
<1> QED  BY <1>1, <1>3

\* A call that returns leaves its caller in the middle of a callback, and the
\* other calls as they are.
LEMMA ReturnKeepsNesting ==
    ASSUME Nested(calls), calls # <<>>, Return
    PROVE  /\ Nested(calls') /\ ~Running("read")' /\ UserRuns'
           /\ Len(calls') = Len(calls) - 1
           /\ \A i \in 1 .. Len(calls) - 1 : calls'[i] = calls[i]
<1>1. calls \in Seq(Frame) /\ Len(calls) \in Nat \ {0}
  BY TopIsFrame DEF Nested
<1>2. /\ calls' \in Seq(Frame) /\ Len(calls') = Len(calls) - 1
      /\ \A i \in 1 .. Len(calls) - 1 : calls'[i] = calls[i]
  <2> DEFINE callers == SubSeq(calls, 1, Len(calls) - 1)
  <2>1. calls' = callers
    BY DEF Return
  <2>2. /\ callers \in Seq(Frame) /\ Len(callers) = Len(calls) - 1
        /\ \A i \in 1 .. Len(calls) - 1 : callers[i] = calls[i]
    <3>1. \A i \in 1 .. Len(calls) - 1 : calls[i] \in Frame
      BY <1>1
    <3>2. 1 \in Int /\ Len(calls) - 1 \in Int
      BY <1>1
    <3>3. /\ callers \in Seq(Frame)
          /\ Len(callers) = IF 1 <= Len(calls) - 1 THEN Len(calls) - 1 - 1 + 1 ELSE 0
          /\ \A i \in 1 .. Len(calls) - 1 - 1 + 1 : callers[i] = calls[1 + i - 1]
      BY <3>1, <3>2, SubSeqProperties
    <3> HIDE DEF callers
    <3>4. Len(callers) = Len(calls) - 1
      <4>1. \A n \in Nat \ {0} : (IF 1 <= n - 1 THEN n - 1 - 1 + 1 ELSE 0) = n - 1
        OBVIOUS
      <4> QED  BY <1>1, <3>3, <4>1
    <3>5. ASSUME NEW i \in 1 .. Len(calls) - 1
          PROVE  callers[i] = calls[i]
      <4>1. i \in 1 .. Len(calls) - 1 - 1 + 1 /\ 1 + i - 1 = i
        BY <1>1
      <4> QED  BY <3>3, <4>1
    <3> QED  BY <3>3, <3>4, <3>5
  <2> HIDE DEF callers
  <2> QED  BY <2>1, <2>2
<1>3. \A i \in 1 .. Len(calls') : calls'[i].pc = "handle"
  BY <1>1, <1>2 DEF Nested
<1>4. calls' # <<>> => Top'.pc = "handle"
  <2>1. calls' # <<>> => Len(calls') \in 1 .. Len(calls')
    BY <1>2, EmptySeq
  <2> QED  BY <1>3, <2>1 DEF Top
<1> QED  BY <1>1, <1>2, <1>3, <1>4 DEF Nested, Running, UserRuns

LEMMA AdvanceKeepsNesting ==
    ASSUME Nested(calls), calls # <<>>, Advance
    PROVE  Nested(calls') /\ ~Running("read")'
<1>1. CASE Top.part = "payload"
  <2> DEFINE f == [line |-> Top.line, part |-> "delimiter", pc |-> "store"]
  <2>1. f \in Frame /\ f.pc = "store"
    BY TopIsFrame, FrameFields DEF Part, Pc
  <2>2. calls' = [calls EXCEPT ![Len(calls)] = f]
    BY <1>1 DEF Advance
  <2> HIDE DEF f
  <2>3. Nested(calls') /\ Top' = f
    BY <2>1, <2>2, ReplaceTop
  <2> QED  BY <2>1, <2>3 DEF Running
<1>2. CASE Top.part # "payload"
  BY <1>2, ReturnKeepsNesting DEF Advance
<1> QED  BY <1>1, <1>2

LEMMA InvariantNests ==
    ASSUME StreamInv
    PROVE  Nested(calls)
BY DEF StreamInv, TypeOK, CallbacksNest, Nested

-----------------------------------------------------------------------------
(* The invariant *)

\* A stream just created satisfies the invariant, with or without a receiver.
LEMMA EmptyStreamInv ==
    ASSUME EmptyStream, commReceiver \in Receiver \cup {None}
    PROVE  StreamInv
<1> USE DEF EmptyStream
<1>1. TypeOK
  <2>1. window \in [Address -> Byte]
    BY DEF Address
  <2>2. calls \in Seq(Frame) /\ log \in Seq(Byte) /\ sent \in Seq(Line) /\ received \in Seq(Seq(Byte))
    BY EmptySeq
  <2>3. writePos \in Nat /\ readPos \in Nat /\ wrapPos \in Nat /\ newLinePos \in Nat
    OBVIOUS
  <2>4. isNextNewLine \in BOOLEAN /\ hasStreamReceiver \in BOOLEAN
    OBVIOUS
  <2> QED  BY <2>1, <2>2, <2>3, <2>4 DEF TypeOK
<1>2. PositionsOrdered /\ UnreadBytesKept /\ DelimiterFound /\ DelimitersPaired
  BY DEF PositionsOrdered, UnreadBytesKept, DelimiterFound, DelimitersPaired
<1>3. CallbacksNest
  BY DEF CallbacksNest, Running
<1> QED  BY <1>1, <1>2, <1>3 DEF StreamInv

\* What writeData() is called with: a line without CR, or a whole delimiter.
LEMMA DataIsPlain ==
    ASSUME StreamInv, PlainLines, calls # <<>>
    PROVE  /\ Data \in Seq(Byte) /\ Len(Data) \in Nat
           /\ \A i \in 1 .. Len(Data) :
                Data[i] = CR => i + 1 <= Len(Data) /\ Data[i + 1] = LF
<1>1. Top.line \in Line /\ Top.line \in Seq(Byte)
  BY InvariantNests, TopIsFrame
<1>2. Delimiter \in Seq(Byte) /\ Len(Delimiter) = 2 /\ Delimiter[1] = CR /\ Delimiter[2] = LF
  BY DEF Delimiter
<1>3. CASE Top.part = "payload"
  <2>1. Data = Top.line
    BY <1>3 DEF Data
  <2>2. \A i \in 1 .. Len(Top.line) : Top.line[i] # CR
    BY <1>1 DEF PlainLines
  <2> QED  BY <1>1, <2>1, <2>2
<1>4. CASE Top.part # "payload"
  <2>1. Data = Delimiter
    BY <1>4 DEF Data
  <2>2. \A i \in 1 .. 2 : Delimiter[i] = CR => i + 1 <= 2 /\ Delimiter[i + 1] = LF
    BY <1>2
  <2>3. /\ \A i \in 1 .. Len(Delimiter) :
             Delimiter[i] = CR => i + 1 <= Len(Delimiter) /\ Delimiter[i + 1] = LF
        /\ Len(Delimiter) \in Nat
    BY <1>2, <2>2
  <2> QED  BY <1>2, <2>1, <2>3
<1> QED  BY <1>3, <1>4

\* Storing bytes keeps what is unread, in the window and in the log.
LEMMA StoreKeepsInv ==
    ASSUME StreamInv, PlainLines, Store
    PROVE  StreamInv'
<1>0. /\ calls # <<>> /\ Len(Data) <= WindowSize - (writePos - readPos)
      /\ writePos \in Nat /\ readPos \in Nat /\ wrapPos \in Nat /\ newLinePos \in Nat
      /\ TypeOK /\ PositionsOrdered /\ Len(log) = writePos /\ log \in Seq(Byte)
      /\ Nested(calls)
  <2>1. calls # <<>> /\ TypeOK /\ PositionsOrdered /\ UnreadBytesKept
    BY DEF Store, Running, StreamInv
  <2>2. writePos \in Nat /\ readPos \in Nat /\ Len(Data) \in Nat
    BY <2>1, DataIsPlain DEF TypeOK
  <2>3. Len(Data) <= WindowSize - (writePos - readPos)
    BY <2>2 DEF Store
  <2> QED  BY <2>1, <2>2, <2>3, InvariantNests DEF TypeOK, UnreadBytesKept
<1>1. /\ Data \in Seq(Byte) /\ Len(Data) \in Nat
      /\ \A i \in 1 .. Len(Data) : Data[i] = CR => i + 1 <= Len(Data) /\ Data[i + 1] = LF
  BY <1>0, DataIsPlain
<1>2. /\ window' = Stored(Data) /\ writePos' = writePos + Len(Data) /\ log' = log \o Data
      /\ readPos' = readPos /\ wrapPos' = wrapPos
      /\ newLinePos' = newLinePos /\ isNextNewLine' = isNextNewLine
      /\ hasStreamReceiver' = hasStreamReceiver /\ commReceiver' = commReceiver
      /\ received' = received /\ Goto("check")
  BY DEF Store, scan, receivers
<1>3. /\ log' \in Seq(Byte) /\ Len(log') = writePos'
      /\ \A i \in 1 .. writePos : log'[i] = log[i]
      /\ \A i \in writePos + 1 .. writePos' : log'[i] = Data[i - writePos]
  <2> DEFINE longer == log \o Data
  <2>1. /\ longer \in Seq(Byte) /\ Len(longer) = Len(log) + Len(Data)
        /\ \A i \in 1 .. Len(log) + Len(Data) :
             longer[i] = IF i <= Len(log) THEN log[i] ELSE Data[i - Len(log)]
    BY <1>0, <1>1, ConcatProperties
  <2>2. log' = longer
    BY <1>2
  <2> HIDE DEF longer
  <2> QED  BY <1>0, <1>1, <1>2, <2>1, <2>2
<1>4. /\ window' \in [Address -> Byte]
      /\ \A p \in readPos .. writePos - 1 : window'[AddressOf(p)] = window[AddressOf(p)]
      /\ \A p \in writePos .. writePos' - 1 : window'[AddressOf(p)] = Data[p - writePos + 1]
  BY <1>0, <1>1, <1>2, StoreKeepsUnread
<1>5. Nested(calls') /\ ~Running("read")'
  <2>1. "check" \in Pc /\ "check" # "read"
    BY DEF Pc
  <2> QED  BY <1>0, <1>2, <2>1, GotoKeepsNesting DEF Running
<1>6. TypeOK'
  <2>1. sent' \in Seq(Line)
    BY <1>0, TopIsFrame DEF Store, TypeOK
  <2> QED  BY <1>0, <1>1, <1>2, <1>3, <1>4, <1>5, <2>1 DEF TypeOK, Nested, Address
<1>7. PositionsOrdered'
  BY <1>0, <1>1, <1>2 DEF PositionsOrdered
<1>8. UnreadBytesKept'
  <2>1. ASSUME NEW p \in readPos .. writePos' - 1
        PROVE  window'[AddressOf(p)] = log'[p + 1]
    <3>1. CASE p < writePos
      <4>1. p \in readPos .. writePos - 1 /\ p + 1 \in 1 .. writePos
        BY <1>0, <3>1
      <4> QED  BY <1>3, <1>4, <4>1 DEF StreamInv, UnreadBytesKept
    <3>2. CASE p >= writePos
      <4>1. /\ p \in writePos .. writePos' - 1 /\ p + 1 \in writePos + 1 .. writePos'
            /\ p - writePos + 1 = (p + 1) - writePos
        BY <1>0, <1>1, <1>2, <3>2
      <4>2. window'[AddressOf(p)] = Data[p - writePos + 1]
        BY <1>4, <4>1
      <4>3. log'[p + 1] = Data[(p + 1) - writePos]
        BY <1>3, <4>1
      <4> QED  BY <4>1, <4>2, <4>3
    <3> QED  BY <1>0, <3>1, <3>2
  <2>2. \A p : AddressOf(p)' = AddressOf(p)
    BY <1>2 DEF AddressOf
  <2> QED  BY <1>2, <1>3, <2>1, <2>2 DEF UnreadBytesKept
<1>9. DelimiterFound'
  <2>1. isNextNewLine => newLinePos + 1 \in 1 .. writePos /\ newLinePos + 2 \in 1 .. writePos
    BY <1>0 DEF StreamInv, DelimiterFound
  <2>2. \A p \in readPos .. newLinePos - 1 : p + 1 \in 1 .. writePos
    BY <1>0 DEF PositionsOrdered
  <2>3. isNextNewLine => newLinePos + 2 <= writePos'
    BY <1>0, <1>1, <1>2 DEF StreamInv, DelimiterFound
  <2> QED  BY <1>2, <1>3, <2>1, <2>2, <2>3 DEF StreamInv, DelimiterFound
<1>10. DelimitersPaired'
  <2>1. ASSUME NEW p \in 1 .. Len(log'), log'[p] = CR
        PROVE  p + 1 <= Len(log') /\ log'[p + 1] = LF
    <3>1. CASE p <= writePos
      <4>1. p \in 1 .. Len(log) /\ log[p] = CR
        BY <1>0, <1>3, <2>1, <3>1
      <4>2. p + 1 <= writePos /\ log[p + 1] = LF
        BY <1>0, <4>1 DEF StreamInv, DelimitersPaired
      <4>3. p + 1 \in 1 .. writePos /\ p + 1 <= writePos'
        BY <1>0, <1>1, <1>2, <4>1, <4>2
      <4> QED  BY <1>3, <4>2, <4>3
    <3>2. CASE p > writePos
      <4>1. p \in writePos + 1 .. writePos' /\ p - writePos \in 1 .. Len(Data)
        BY <1>0, <1>1, <1>2, <1>3, <3>2
      <4>2. p - writePos + 1 <= Len(Data) /\ Data[p - writePos + 1] = LF
        BY <1>1, <1>3, <2>1, <4>1
      <4>3. p + 1 \in writePos + 1 .. writePos' /\ (p + 1) - writePos = p - writePos + 1
        BY <1>0, <1>1, <1>2, <4>1, <4>2
      <4> QED  BY <1>0, <1>1, <1>2, <1>3, <4>2, <4>3
    <3> QED  BY <1>0, <1>3, <3>1, <3>2
  <2> QED  BY <2>1 DEF DelimitersPaired
<1>11. CallbacksNest'
  BY <1>5 DEF CallbacksNest, Nested
<1> QED  BY <1>6, <1>7, <1>8, <1>9, <1>10, <1>11 DEF StreamInv

\* readLine() steps over one delimiter and, when it passes the end of the
\* window, moves the wrap position without moving any unread address.
LEMMA ReadKeepsInv ==
    ASSUME StreamInv, ReadLine
    PROVE  StreamInv'
<1>0. /\ calls # <<>> /\ isNextNewLine = TRUE
      /\ writePos \in Nat /\ readPos \in Nat /\ wrapPos \in Nat /\ newLinePos \in Nat
      /\ TypeOK /\ PositionsOrdered /\ Len(log) = writePos /\ log \in Seq(Byte)
      /\ Nested(calls)
  BY InvariantNests DEF StreamInv, TypeOK, UnreadBytesKept, CallbacksNest, ReadLine, Running
<1>1. /\ newLinePos + 2 <= writePos /\ log[newLinePos + 1] = CR /\ log[newLinePos + 2] = LF
  BY <1>0 DEF StreamInv, DelimiterFound
<1>2. /\ newLinePos' = newLinePos + 2 /\ readPos' = newLinePos + 2 /\ isNextNewLine' = FALSE
      /\ wrapPos' = IF newLinePos + 2 >= wrapPos THEN wrapPos + WindowSize ELSE wrapPos
      /\ window' = window /\ writePos' = writePos /\ log' = log /\ sent' = sent
      /\ hasStreamReceiver' = hasStreamReceiver /\ commReceiver' = commReceiver
      /\ received' = Append(received, NextLine) /\ Goto("handle")
  <2>1. Len(Delimiter) = 2
    BY DEF Delimiter
  <2> QED  BY <2>1 DEF ReadLine, receivers
<1>3. PositionsOrdered'
  BY <1>0, <1>1, <1>2 DEF PositionsOrdered
<1>4. \A p \in readPos' .. writePos - 1 : AddressOf(p)' = AddressOf(p)
  BY <1>0, <1>1, <1>2 DEF PositionsOrdered, AddressOf
<1>5. UnreadBytesKept'
  <2>1. \A p \in readPos' .. writePos - 1 : p \in readPos .. writePos - 1
    BY <1>0, <1>2 DEF PositionsOrdered
  <2> QED  BY <1>0, <1>2, <1>4, <2>1 DEF StreamInv, UnreadBytesKept
<1>6. NextLine \in Seq(Byte)
  <2> DEFINE room == wrapPos - readPos
             byte(i) == IF i <= room THEN window[WindowSize - room + i - 1] ELSE window[i - room - 1]
  <2>1. newLinePos - readPos \in Nat /\ newLinePos - readPos < WindowSize
    BY <1>0, <1>1 DEF PositionsOrdered
  <2>2. ASSUME NEW i \in 1 .. newLinePos - readPos
        PROVE  byte(i) \in Byte
    <3>1. CASE i <= room
      <4>1. WindowSize - room + i - 1 \in Address
        BY <1>0, <3>1 DEF PositionsOrdered, Address
      <4> QED  BY <1>0, <3>1, <4>1 DEF TypeOK
    <3>2. CASE ~(i <= room)
      <4>1. i - room - 1 \in Address
        BY <1>0, <2>1, <3>2 DEF PositionsOrdered, Address
      <4> QED  BY <1>0, <3>2, <4>1 DEF TypeOK
    <3> QED  BY <3>1, <3>2
  <2>3. NextLine = [i \in 1 .. newLinePos - readPos |-> byte(i)]
    BY DEF NextLine
  <2> HIDE DEF byte
  <2> QED  BY <2>1, <2>2, <2>3, SeqDef
<1>7. Nested(calls') /\ ~Running("read")'
  <2>1. "handle" \in Pc /\ "handle" # "read"
    BY DEF Pc
  <2> QED  BY <1>0, <1>2, <2>1, GotoKeepsNesting DEF Running
<1>8. TypeOK'
  <2>1. received' \in Seq(Seq(Byte))
    BY <1>0, <1>2, <1>6 DEF TypeOK
  <2>2. wrapPos' \in Nat /\ readPos' \in Nat /\ newLinePos' \in Nat
    BY <1>0, <1>2
  <2> QED  BY <1>0, <1>2, <1>7, <2>1, <2>2 DEF TypeOK, Nested, Address
<1>9. DelimiterFound'
  BY <1>0, <1>2 DEF DelimiterFound
<1>10. DelimitersPaired'
  BY <1>2 DEF StreamInv, DelimitersPaired
<1>11. CallbacksNest'
  BY <1>7 DEF CallbacksNest, Nested
<1> QED  BY <1>3, <1>5, <1>8, <1>9, <1>10, <1>11 DEF StreamInv

\* A step that leaves the bytes and the positions alone keeps the invariant if
\* it keeps what is said of the search and of the calls.
LEMMA ControlKeepsInv ==
    ASSUME StreamInv, UNCHANGED <<window, positions, log>>,
           sent' \in Seq(Line), received' \in Seq(Seq(Byte)),
           hasStreamReceiver' \in BOOLEAN, commReceiver' \in Receiver \cup {None},
           isNextNewLine' \in BOOLEAN, newLinePos' \in newLinePos .. writePos,
           DelimiterFound', Nested(calls'), Running("read")' => isNextNewLine'
    PROVE  StreamInv'
<1>1. /\ window' = window /\ writePos' = writePos /\ readPos' = readPos
      /\ wrapPos' = wrapPos /\ log' = log
  BY DEF positions
<1>2. TypeOK /\ newLinePos \in Nat /\ writePos \in Nat /\ readPos \in Nat
  BY DEF StreamInv, TypeOK
<1>3. TypeOK'
  BY <1>1, <1>2 DEF TypeOK, Nested, Address
<1>4. PositionsOrdered'
  BY <1>1, <1>2 DEF StreamInv, PositionsOrdered
<1>5. UnreadBytesKept' /\ DelimitersPaired'
  BY <1>1 DEF StreamInv, UnreadBytesKept, DelimitersPaired, AddressOf
<1>6. CallbacksNest'
  BY DEF CallbacksNest, Nested
<1> QED  BY <1>3, <1>4, <1>5, <1>6 DEF StreamInv

\* Steps that do not search leave the search as it is.
LEMMA StackStepKeepsInv ==
    ASSUME StreamInv, UNCHANGED <<window, positions, scan, history>>,
           hasStreamReceiver' \in BOOLEAN, commReceiver' \in Receiver \cup {None},
           Nested(calls'), Running("read")' => isNextNewLine
    PROVE  StreamInv'
<1>1. /\ UNCHANGED <<window, positions, log>>
      /\ sent' = sent /\ received' = received
      /\ isNextNewLine' = isNextNewLine /\ newLinePos' = newLinePos
      /\ readPos' = readPos /\ writePos' = writePos /\ log' = log
  BY DEF scan, history, positions
<1>2. /\ sent' \in Seq(Line) /\ received' \in Seq(Seq(Byte)) /\ isNextNewLine' \in BOOLEAN
      /\ newLinePos' \in newLinePos .. writePos
  BY <1>1 DEF StreamInv, TypeOK, PositionsOrdered
<1>3. DelimiterFound'
  BY <1>1 DEF StreamInv, DelimiterFound
<1> QED  BY <1>1, <1>2, <1>3, ControlKeepsInv

\* isReadLine() at the end of writeData(), with or without a callback.
LEMMA CheckKeepsInv ==
    ASSUME StreamInv, CheckIdle \/ CheckCallback
    PROVE  StreamInv'
<1>0. /\ calls # <<>> /\ Nested(calls) /\ TypeOK /\ PositionsOrdered
      /\ writePos \in Nat /\ readPos \in Nat /\ newLinePos \in Nat
  BY InvariantNests DEF CheckIdle, CheckCallback, Running, StreamInv, TypeOK
<1>1. /\ UNCHANGED <<window, positions, log>> /\ UNCHANGED <<sent, received>>
      /\ hasStreamReceiver' = hasStreamReceiver /\ commReceiver' = commReceiver
      /\ readPos' = readPos /\ writePos' = writePos /\ log' = log
  BY DEF CheckIdle, CheckCallback, receivers, history, positions
<1>2. /\ sent' \in Seq(Line) /\ received' \in Seq(Seq(Byte))
      /\ hasStreamReceiver' \in BOOLEAN /\ commReceiver' \in Receiver \cup {None}
  BY <1>0, <1>1 DEF TypeOK
<1>3. ASSUME IsReadLine(TRUE)
      PROVE  /\ isNextNewLine' = TRUE /\ newLinePos' \in newLinePos .. writePos
             /\ DelimiterFound'
  <2>1. /\ isNextNewLine' = TRUE /\ newLinePos' \in newLinePos .. writePos - 2
        /\ log[newLinePos' + 1] = CR /\ log[newLinePos' + 2] = LF
        /\ \A p \in readPos .. newLinePos' - 1 : log[p + 1] # CR
    BY <1>3, SearchSucceeds
  <2>2. newLinePos' \in newLinePos .. writePos /\ newLinePos' + 2 <= writePos
    <3>1. \A n \in newLinePos .. writePos - 2 : n \in newLinePos .. writePos /\ n + 2 <= writePos
      BY <1>0
    <3> QED  BY <2>1, <3>1
  <2> QED  BY <1>1, <2>1, <2>2 DEF DelimiterFound
<1>4. ASSUME IsReadLine(FALSE)
      PROVE  /\ isNextNewLine' = FALSE /\ newLinePos' \in newLinePos .. writePos
             /\ DelimiterFound'
  <2>1. /\ isNextNewLine' = FALSE /\ newLinePos' \in newLinePos .. writePos
        /\ \A p \in readPos .. newLinePos' - 1 : log[p + 1] # CR
    BY <1>4, SearchFails
  <2> QED  BY <1>1, <2>1 DEF DelimiterFound
<1>5. CASE CheckCallback
  <2>1. Nested(calls')
    <3>1. "read" \in Pc
      BY DEF Pc
    <3> QED  BY <1>0, <1>5, <3>1, GotoKeepsNesting DEF CheckCallback
  <2>2. isNextNewLine' = TRUE /\ newLinePos' \in newLinePos .. writePos /\ DelimiterFound'
    BY <1>3, <1>5 DEF CheckCallback
  <2> QED  BY <1>1, <1>2, <2>1, <2>2, ControlKeepsInv
<1>6. CASE CheckIdle
  <2>1. Nested(calls') /\ ~Running("read")'
    BY <1>0, <1>6, AdvanceKeepsNesting DEF CheckIdle
  <2>2. CASE UNCHANGED scan
    <3>1. UNCHANGED <<window, positions, scan, history>>
      BY <1>6, <2>2 DEF CheckIdle
    <3> QED  BY <1>2, <2>1, <3>1, StackStepKeepsInv
  <2>3. CASE IsReadLine(TRUE) \/ IsReadLine(FALSE)
    <3>1. isNextNewLine' \in BOOLEAN /\ newLinePos' \in newLinePos .. writePos /\ DelimiterFound'
      BY <1>3, <1>4, <2>3
    <3> QED  BY <1>1, <1>2, <2>1, <3>1, ControlKeepsInv
  <2> QED  BY <1>6, <2>2, <2>3 DEF CheckIdle
<1> QED  BY <1>5, <1>6

\* A new call of writeLine() begins only where user code runs.
LEMMA WriteLineKeepsInv ==
    ASSUME StreamInv, NEW l \in Line, WriteLine(l)
    PROVE  StreamInv'
<1> DEFINE f == [line |-> l, part |-> "payload", pc |-> "store"]
<1>1. f \in Frame /\ f.pc = "store"
  BY FrameFields DEF Part, Pc
<1>2. calls' = Append(calls, f) /\ UNCHANGED <<window, positions, scan, receivers, history>>
  BY DEF WriteLine
<1> HIDE DEF f
<1>3. calls \in Seq(Frame) /\ Len(calls) \in Nat
  BY DEF StreamInv, TypeOK
<1>4. \A i \in 1 .. Len(calls) : calls[i].pc = "handle"
  <2>1. CASE calls = <<>>
    BY <2>1
  <2>2. CASE calls # <<>>
    <3>1. calls[Len(calls)].pc = "handle"
      BY <2>2 DEF WriteLine, UserRuns, Running, Top
    <3> QED  BY <1>3, <3>1, InvariantNests DEF Nested
  <2> QED  BY <2>1, <2>2
<1>5. /\ calls' \in Seq(Frame) /\ Len(calls') = Len(calls) + 1
      /\ \A i \in 1 .. Len(calls) : calls'[i] = calls[i]
      /\ calls'[Len(calls) + 1] = f
  BY <1>1, <1>2, <1>3
<1>6. Nested(calls') /\ ~Running("read")'
  BY <1>1, <1>3, <1>4, <1>5 DEF Nested, Running, Top
<1>7. hasStreamReceiver' \in BOOLEAN /\ commReceiver' \in Receiver \cup {None}
  BY <1>2 DEF receivers, StreamInv, TypeOK
<1> QED  BY <1>2, <1>6, <1>7, StackStepKeepsInv

\* No step of the stream or of its users breaks the invariant.
THEOREM StreamInvInductive ==
    ASSUME StreamInv, PlainLines, [Next]_vars
    PROVE  StreamInv'
<1>1. CASE Store
  BY <1>1, StoreKeepsInv
<1>2. CASE Reject
  <2>1. Nested(calls') /\ ~Running("read")'
    BY <1>2, InvariantNests, ReturnKeepsNesting DEF Reject, Running
  <2> QED  BY <1>2, <2>1, StackStepKeepsInv DEF Reject, receivers, StreamInv, TypeOK
<1>3. CASE CheckIdle \/ CheckCallback
  BY <1>3, CheckKeepsInv
<1>4. CASE ReadLine
  BY <1>4, ReadKeepsInv
<1>5. CASE CallbackReturns
  <2>1. Nested(calls') /\ ~Running("read")'
    BY <1>5, InvariantNests, AdvanceKeepsNesting DEF CallbackReturns, Running
  <2> QED  BY <1>5, <2>1, StackStepKeepsInv DEF CallbackReturns, receivers, StreamInv, TypeOK
<1>6. ASSUME NEW l \in Line, WriteLine(l)
      PROVE  StreamInv'
  BY <1>6, WriteLineKeepsInv
<1>7. CASE \/ \E r \in Receiver : RegisterCommunicationReceiver(r)
           \/ UnregisterCommunicationReceiver
           \/ UnregisterStreamReceiver
  <2>1. /\ UNCHANGED <<window, positions, scan, history>> /\ calls' = calls
        /\ hasStreamReceiver' \in BOOLEAN /\ commReceiver' \in Receiver \cup {None}
    BY <1>7 DEF RegisterCommunicationReceiver, UnregisterCommunicationReceiver,
                UnregisterStreamReceiver, StreamInv, TypeOK
  <2>2. Nested(calls') /\ (Running("read")' => isNextNewLine)
    BY <2>1, InvariantNests DEF StreamInv, CallbacksNest, Running, Top
  <2> QED  BY <2>1, <2>2, StackStepKeepsInv
<1>8. CASE UNCHANGED vars
  <2>1. /\ UNCHANGED <<window, positions, scan, history>> /\ calls' = calls
        /\ hasStreamReceiver' \in BOOLEAN /\ commReceiver' \in Receiver \cup {None}
    BY <1>8 DEF vars, receivers, StreamInv, TypeOK
  <2>2. Nested(calls') /\ (Running("read")' => isNextNewLine)
    BY <2>1, InvariantNests DEF StreamInv, CallbacksNest, Running, Top
  <2> QED  BY <2>1, <2>2, StackStepKeepsInv
<1> QED  BY <1>1, <1>2, <1>3, <1>4, <1>5, <1>6, <1>7, <1>8 DEF Next, Step

\* The bookkeeping and the content of the window are right in every state, for
\* every window size, if no line contains a CR of its own.
THEOREM StreamCorrect ==
    ASSUME PlainLines
    PROVE  Spec => [](StreamInv)
<1>1. Init => StreamInv
  BY EmptyStreamInv DEF Init
<1>2. StreamInv /\ [Next]_vars => StreamInv'
  BY StreamInvInductive
<1> QED  BY <1>1, <1>2, PTL DEF Spec

\* Types, and with them that every address the code computes is in the window.
THEOREM StreamTypeCorrect ==
    ASSUME PlainLines
    PROVE  Spec => []TypeOK
<1>1. StreamInv => TypeOK
  BY DEF StreamInv
<1> QED  BY <1>1, StreamCorrect, PTL

\* The read, search, write and wrap positions never overtake each other.
THEOREM PositionsStayOrdered ==
    ASSUME PlainLines
    PROVE  Spec => []PositionsOrdered
<1>1. StreamInv => PositionsOrdered
  BY DEF StreamInv
<1> QED  BY <1>1, StreamCorrect, PTL

\* No byte is overwritten before it is read, wherever the window wraps.
THEOREM UnreadBytesAreKept ==
    ASSUME PlainLines
    PROVE  Spec => []UnreadBytesKept
<1>1. StreamInv => UnreadBytesKept
  BY DEF StreamInv
<1> QED  BY <1>1, StreamCorrect, PTL

\* The cached search result always names the next whole unread delimiter.
THEOREM DelimiterIsFound ==
    ASSUME PlainLines
    PROVE  Spec => []DelimiterFound
<1>1. StreamInv => DelimiterFound
  BY DEF StreamInv
<1> QED  BY <1>1, StreamCorrect, PTL

\* The bytes readLine() copies are the bytes of the stream.
LEMMA NextLineIsInLog ==
    ASSUME StreamInv, newLinePos + 2 <= writePos
    PROVE  NextLine = SubSeq(log, readPos + 1, newLinePos)
<1> DEFINE room == wrapPos - readPos
           size == newLinePos - readPos
           line == SubSeq(log, readPos + 1, newLinePos)
<1>1. /\ writePos \in Nat /\ readPos \in Nat /\ wrapPos \in Nat /\ newLinePos \in Nat
      /\ PositionsOrdered /\ Len(log) = writePos /\ log \in Seq(Byte) /\ size \in Nat
  BY DEF StreamInv, TypeOK, UnreadBytesKept, PositionsOrdered
<1>2. line = [i \in 1 .. size |-> log[readPos + i]]
  <2>1. /\ line \in Seq(Byte) /\ Len(line) = size
        /\ \A i \in 1 .. size : line[i] = log[readPos + i]
    <3>1. \A i \in readPos + 1 .. newLinePos : log[i] \in Byte
      BY <1>1 DEF PositionsOrdered
    <3>2. /\ line \in Seq(Byte)
          /\ Len(line) = IF readPos + 1 <= newLinePos THEN newLinePos - (readPos + 1) + 1 ELSE 0
          /\ \A i \in 1 .. newLinePos - (readPos + 1) + 1 : line[i] = log[(readPos + 1) + i - 1]
      BY <1>1, <3>1, SubSeqProperties
    <3>3. /\ newLinePos - (readPos + 1) + 1 = size
          /\ (IF readPos + 1 <= newLinePos THEN size ELSE 0) = size
          /\ \A i \in 1 .. size : (readPos + 1) + i - 1 = readPos + i
      BY <1>1 DEF PositionsOrdered
    <3> HIDE DEF line, size
    <3> QED  BY <3>2, <3>3
  <2> HIDE DEF line
  <2> QED  BY <2>1, LenProperties
<1>3. ASSUME NEW i \in 1 .. size
      PROVE  (IF i <= room THEN window[WindowSize - room + i - 1] ELSE window[i - room - 1])
                 = log[readPos + i]
  <2> DEFINE p == readPos + i - 1
  <2>1. p \in readPos .. writePos - 1 /\ p + 1 = readPos + i
    BY <1>1
  <2>2. window[AddressOf(p)] = log[p + 1]
    BY <2>1 DEF StreamInv, UnreadBytesKept
  <2>3. AddressOf(p) = IF i <= room THEN WindowSize - room + i - 1 ELSE i - room - 1
    BY <1>1 DEF AddressOf
  <2> HIDE DEF p
  <2> QED  BY <2>1, <2>2, <2>3
<1>4. NextLine = [i \in 1 .. size |-> log[readPos + i]]
  BY <1>3 DEF NextLine
<1> QED  BY <1>2, <1>4

\* readLine() returns the stream up to the next delimiter, never more or less.
THEOREM EveryReadIsOneLine ==
    ASSUME PlainLines
    PROVE  Spec => ReadsOneLine
<1> DEFINE OneLine == \E q \in readPos .. writePos :
                         /\ NextDelimiter(readPos, q)
                         /\ received' = Append(received, SubSeq(log, readPos + 1, q))
                         /\ readPos' = q + 2
<1>1. ASSUME StreamInv, [Next]_vars, received' # received
      PROVE  OneLine
  <2>1. ReadLine
    BY <1>1 DEF Next, Step, Store, Reject, CheckIdle, CheckCallback, CallbackReturns, WriteLine,
                RegisterCommunicationReceiver, UnregisterCommunicationReceiver,
                UnregisterStreamReceiver, vars, history
  <2>2. /\ newLinePos + 2 <= writePos /\ log[newLinePos + 1] = CR /\ log[newLinePos + 2] = LF
        /\ \A p \in readPos .. newLinePos - 1 : log[p + 1] # CR
    BY <1>1, <2>1 DEF ReadLine, StreamInv, CallbacksNest, DelimiterFound
  <2>3. /\ writePos \in Nat /\ readPos \in Nat /\ newLinePos \in Nat /\ PositionsOrdered
        /\ Len(log) = writePos
    BY <1>1 DEF StreamInv, TypeOK, UnreadBytesKept
  <2>4. NextDelimiter(readPos, newLinePos)
    <3>1. ASSUME NEW i \in readPos + 1 .. newLinePos
          PROVE  log[i] # CR
      <4>1. i - 1 \in readPos .. newLinePos - 1 /\ (i - 1) + 1 = i
        BY <2>3
      <4> QED  BY <2>2, <4>1
    <3> QED  BY <2>2, <2>3, <3>1 DEF NextDelimiter
  <2>5. received' = Append(received, SubSeq(log, readPos + 1, newLinePos))
    BY <1>1, <2>1, <2>2, NextLineIsInLog DEF ReadLine
  <2>6. readPos' = newLinePos + 2
    BY <2>1 DEF ReadLine, Delimiter
  <2>7. newLinePos \in readPos .. writePos
    BY <2>3 DEF PositionsOrdered
  <2> QED  BY <2>4, <2>5, <2>6, <2>7
<1>2. StreamInv /\ [Next]_vars => [received' # received => OneLine]_vars
  BY <1>1
<1> QED  BY <1>2, StreamCorrect, PTL DEF ReadsOneLine, Spec

-----------------------------------------------------------------------------
(* A stream with a receiver: sequences                                     *)

\* What is behind position r of a sequence grows by what is appended.
LEMMA SubSeqOfConcat ==
    ASSUME NEW s \in Seq(Byte), NEW t \in Seq(Byte), NEW r \in 0 .. Len(s)
    PROVE  SubSeq(s \o t, r + 1, Len(s) + Len(t)) = SubSeq(s, r + 1, Len(s)) \o t
<1> DEFINE longer == s \o t
           rest == SubSeq(s, r + 1, Len(s))
           left == SubSeq(longer, r + 1, Len(s) + Len(t))
           right == rest \o t
<1>1. Len(s) \in Nat /\ Len(t) \in Nat /\ r \in Nat /\ r <= Len(s)
  BY LenProperties
<1>2. /\ longer \in Seq(Byte) /\ Len(longer) = Len(s) + Len(t)
      /\ \A i \in 1 .. Len(s) + Len(t) : longer[i] = IF i <= Len(s) THEN s[i] ELSE t[i - Len(s)]
  BY ConcatProperties
<1>3. /\ rest \in Seq(Byte) /\ Len(rest) = Len(s) - r
      /\ \A i \in 1 .. Len(s) - r : rest[i] = s[r + i]
  <2>1. \A i \in r + 1 .. Len(s) : s[i] \in Byte
    BY <1>1
  <2>2. /\ rest \in Seq(Byte)
        /\ Len(rest) = IF r + 1 <= Len(s) THEN Len(s) - (r + 1) + 1 ELSE 0
        /\ \A i \in 1 .. Len(s) - (r + 1) + 1 : rest[i] = s[(r + 1) + i - 1]
    BY <1>1, <2>1, SubSeqProperties
  <2> HIDE DEF rest
  <2> QED  BY <1>1, <2>2
<1>4. /\ left \in Seq(Byte) /\ Len(left) = Len(s) + Len(t) - r
      /\ \A i \in 1 .. Len(s) + Len(t) - r : left[i] = longer[r + i]
  <2> HIDE DEF longer
  <2>1. \A i \in r + 1 .. Len(s) + Len(t) : longer[i] \in Byte
    BY <1>1, <1>2
  <2>2. /\ left \in Seq(Byte)
        /\ Len(left) = IF r + 1 <= Len(s) + Len(t) THEN Len(s) + Len(t) - (r + 1) + 1 ELSE 0
        /\ \A i \in 1 .. Len(s) + Len(t) - (r + 1) + 1 : left[i] = longer[(r + 1) + i - 1]
    BY <1>1, <1>2, <2>1, SubSeqProperties
  <2> HIDE DEF left
  <2> QED  BY <1>1, <2>2
<1> HIDE DEF rest
<1>5. /\ right \in Seq(Byte) /\ Len(right) = Len(rest) + Len(t)
      /\ \A i \in 1 .. Len(rest) + Len(t) : right[i] = IF i <= Len(rest) THEN rest[i] ELSE t[i - Len(rest)]
  BY <1>3, ConcatProperties
<1> HIDE DEF longer, left, right
<1>6. Len(left) = Len(right)
  BY <1>1, <1>3, <1>4, <1>5
<1>7. ASSUME NEW i \in 1 .. Len(left)
      PROVE  left[i] = right[i]
  <2>1. i \in 1 .. Len(s) + Len(t) - r /\ left[i] = longer[r + i] /\ r + i \in 1 .. Len(s) + Len(t)
    BY <1>1, <1>4
  <2>2. CASE i <= Len(s) - r
    <3>1. i \in 1 .. Len(s) - r /\ r + i <= Len(s) /\ i \in 1 .. Len(rest) + Len(t)
      BY <1>1, <1>3, <2>1, <2>2
    <3> QED  BY <1>2, <1>3, <1>5, <2>1, <2>2, <3>1
  <2>3. CASE ~(i <= Len(s) - r)
    <3>1. /\ ~(r + i <= Len(s)) /\ i \in 1 .. Len(rest) + Len(t) /\ ~(i <= Len(rest))
          /\ (r + i) - Len(s) = i - Len(rest)
      BY <1>1, <1>3, <2>1, <2>3
    <3> QED  BY <1>2, <1>5, <2>1, <3>1
  <2> QED  BY <2>2, <2>3
<1>8. left = right
  BY <1>4, <1>5, <1>6, <1>7, SeqEqual
<1> QED  BY <1>8 DEF left, right, longer, rest

-----------------------------------------------------------------------------
(* The calls in progress *)

\* A call that goes on: the others stay as they are.
LEMMA TopGoesOn ==
    ASSUME Nested(calls), calls # <<>>, ReadsBehindDelimiter,
           NEW f \in Frame, f.pc \in {"read", "handle"} => f.part = "delimiter",
           calls' = [calls EXCEPT ![Len(calls)] = f]
    PROVE  Nested(calls') /\ calls' # <<>> /\ Top' = f /\ ReadsBehindDelimiter'
<1>1. calls \in Seq(Frame) /\ Len(calls) \in 1 .. Len(calls) /\ Len(calls) \in Nat
  BY TopIsFrame DEF Nested
<1>2. /\ calls' \in Seq(Frame) /\ Len(calls') = Len(calls)
      /\ \A j \in 1 .. Len(calls) : calls'[j] = IF j = Len(calls) THEN f ELSE calls[j]
  BY <1>1, ExceptSeq
<1>3. ReadsBehindDelimiter'
  BY <1>1, <1>2 DEF ReadsBehindDelimiter
<1> QED  BY <1>3, ReplaceTop

LEMMA GotoGoesOn ==
    ASSUME Nested(calls), calls # <<>>, ReadsBehindDelimiter, NEW pc \in Pc, Goto(pc),
           pc \in {"read", "handle"} => Top.part = "delimiter"
    PROVE  /\ Nested(calls') /\ calls' # <<>> /\ ReadsBehindDelimiter'
           /\ Top'.line = Top.line /\ Top'.part = Top.part /\ Top'.pc = pc
<1> DEFINE f == [Top EXCEPT !.pc = pc]
<1>1. f \in Frame /\ f.pc = pc /\ f.line = Top.line /\ f.part = Top.part
  BY TopIsFrame DEF Frame
<1>2. calls' = [calls EXCEPT ![Len(calls)] = f]
  BY TopIsFrame DEF Goto, Top, Nested
<1> HIDE DEF f
<1> QED  BY <1>1, <1>2, TopGoesOn

\* A call that returns: its callers stay as they are, and user code goes on.
LEMMA CallerGoesOn ==
    ASSUME Nested(calls), calls # <<>>, ReadsBehindDelimiter, Return
    PROVE  Nested(calls') /\ UserRuns' /\ ReadsBehindDelimiter'
<1>1. Len(calls) \in Nat \ {0}
  BY TopIsFrame
<1>2. Len(calls') = Len(calls) - 1 /\ \A i \in 1 .. Len(calls) - 1 : calls'[i] = calls[i]
  BY ReturnKeepsNesting
<1>3. ReadsBehindDelimiter'
  BY <1>1, <1>2 DEF ReadsBehindDelimiter
<1> QED  BY <1>3, ReturnKeepsNesting

-----------------------------------------------------------------------------
(* The unread bytes *)

LEMMA UnreadBytes ==
    ASSUME StreamInv
    PROVE  /\ Unread \in Seq(Byte) /\ Len(Unread) = writePos - readPos
           /\ \A i \in 1 .. writePos - readPos : Unread[i] = log[readPos + i]
           /\ readPos \in 0 .. Len(log) /\ Len(log) = writePos /\ log \in Seq(Byte)
           /\ writePos \in Nat /\ readPos \in Nat /\ newLinePos \in Nat
           /\ readPos <= newLinePos /\ newLinePos <= writePos
<1>1. /\ writePos \in Nat /\ readPos \in Nat /\ newLinePos \in Nat /\ log \in Seq(Byte)
      /\ Len(log) = writePos /\ readPos <= newLinePos /\ newLinePos <= writePos
  BY DEF StreamInv, TypeOK, PositionsOrdered, UnreadBytesKept
<1>2. \A i \in readPos + 1 .. writePos : log[i] \in Byte
  BY <1>1
<1>3. /\ Unread \in Seq(Byte)
      /\ Len(Unread) = IF readPos + 1 <= writePos THEN writePos - (readPos + 1) + 1 ELSE 0
      /\ \A i \in 1 .. writePos - (readPos + 1) + 1 : Unread[i] = log[(readPos + 1) + i - 1]
  BY <1>1, <1>2, SubSeqProperties DEF Unread
<1> QED  BY <1>1, <1>3

\* Of a whole line, only the last byte but one is a CR.
LEMMA WholeLineUnread ==
    ASSUME StreamInv, PlainLines, calls # <<>>, Unread = Top.line \o Delimiter
    PROVE  /\ writePos - 2 \in readPos .. writePos
           /\ log[writePos - 1] = CR
           /\ \A p \in readPos .. writePos - 3 : log[p + 1] # CR
           /\ SubSeq(log, readPos + 1, writePos - 2) = Top.line
<1> DEFINE line == Top.line
           whole == line \o Delimiter
<1>1. line \in Line /\ line \in Seq(Byte) /\ Len(line) \in Nat
  BY InvariantNests, TopIsFrame, LenProperties
<1>2. Delimiter \in Seq(Byte) /\ Len(Delimiter) = 2 /\ Delimiter[1] = CR
  BY DEF Delimiter
<1>3. /\ whole \in Seq(Byte) /\ Len(whole) = Len(line) + 2
      /\ \A i \in 1 .. Len(line) + 2 : whole[i] = IF i <= Len(line) THEN line[i] ELSE Delimiter[i - Len(line)]
  <2>1. /\ line \o Delimiter \in Seq(Byte) /\ Len(line \o Delimiter) = Len(line) + Len(Delimiter)
        /\ \A i \in 1 .. Len(line) + Len(Delimiter) : (line \o Delimiter)[i] =
             IF i <= Len(line) THEN line[i] ELSE Delimiter[i - Len(line)]
    BY <1>1, <1>2, ConcatProperties
  <2> HIDE DEF line
  <2> QED  BY <1>1, <1>2, <2>1
<1>4. Unread = whole
  OBVIOUS
<1>5. \A i \in 1 .. Len(line) : line[i] # CR
  BY <1>1 DEF PlainLines
<1> HIDE DEF line, whole
<1>6. /\ writePos - readPos = Len(line) + 2 /\ writePos \in Nat /\ readPos \in Nat
      /\ Len(log) = writePos /\ log \in Seq(Byte)
      /\ \A i \in 1 .. Len(line) + 2 : whole[i] = log[readPos + i]
  BY <1>3, <1>4, UnreadBytes
<1>7. log[writePos - 1] = CR
  <2>1. Len(line) + 1 \in 1 .. Len(line) + 2 /\ readPos + (Len(line) + 1) = writePos - 1
    BY <1>1, <1>6
  <2>2. ~(Len(line) + 1 <= Len(line)) /\ (Len(line) + 1) - Len(line) = 1
    BY <1>1
  <2> QED  BY <1>2, <1>3, <1>6, <2>1, <2>2
<1>8. \A i \in 1 .. Len(line) : log[readPos + i] = line[i]
  <2>1. \A i \in 1 .. Len(line) : i \in 1 .. Len(line) + 2 /\ i <= Len(line)
    BY <1>1
  <2> QED  BY <1>3, <1>6, <2>1
<1>9. ASSUME NEW p \in readPos .. writePos - 3
      PROVE  log[p + 1] # CR
  <2>1. p + 1 - readPos \in 1 .. Len(line) /\ readPos + (p + 1 - readPos) = p + 1
    BY <1>1, <1>6
  <2> QED  BY <1>5, <1>8, <2>1
<1>10. SubSeq(log, readPos + 1, writePos - 2) = line
  <2> DEFINE part == SubSeq(log, readPos + 1, writePos - 2)
  <2>1. \A i \in readPos + 1 .. writePos - 2 : log[i] \in Byte
    BY <1>6
  <2>2. /\ part \in Seq(Byte)
        /\ Len(part) = IF readPos + 1 <= writePos - 2 THEN writePos - 2 - (readPos + 1) + 1 ELSE 0
        /\ \A i \in 1 .. writePos - 2 - (readPos + 1) + 1 : part[i] = log[(readPos + 1) + i - 1]
    BY <1>6, <2>1, SubSeqProperties
  <2> HIDE DEF part
  <2>3. Len(part) = Len(line)
    BY <1>1, <1>6, <2>2
  <2>4. \A i \in 1 .. Len(part) : part[i] = line[i]
    <3>1. \A i \in 1 .. Len(line) : i \in 1 .. writePos - 2 - (readPos + 1) + 1 /\ (readPos + 1) + i - 1 = readPos + i
      BY <1>1, <1>6
    <3> QED  BY <1>8, <2>2, <2>3, <3>1
  <2>5. part = line
    BY <1>1, <2>2, <2>3, <2>4, SeqEqual
  <2> QED  BY <2>5 DEF part
<1>11. writePos - 2 \in readPos .. writePos
  BY <1>1, <1>6
<1> QED  BY <1>7, <1>9, <1>10, <1>11 DEF line

LEMMA PayloadUnread ==
    ASSUME StreamInv, PlainLines, calls # <<>>, Unread = Top.line
    PROVE  \A p \in readPos .. writePos - 1 : log[p + 1] # CR
<1>1. Top.line \in Line
  BY InvariantNests, TopIsFrame
<1>2. \A i \in 1 .. Len(Top.line) : Top.line[i] # CR
  BY <1>1 DEF PlainLines
<1>3. /\ Len(Top.line) = writePos - readPos /\ writePos \in Nat /\ readPos \in Nat
      /\ \A i \in 1 .. writePos - readPos : Top.line[i] = log[readPos + i]
  BY UnreadBytes
<1> TAKE p \in readPos .. writePos - 1
<1> DEFINE i == p + 1 - readPos
<1>4. i \in 1 .. writePos - readPos /\ readPos + i = p + 1
  BY <1>3
<1>5. i \in 1 .. Len(Top.line)
  BY <1>3, <1>4
<1> HIDE DEF i
<1>6. Top.line[i] # CR /\ Top.line[i] = log[readPos + i]
  BY <1>2, <1>3, <1>4, <1>5
<1> QED  BY <1>4, <1>6

\* What is unread and what is sent, by the place of the call in progress.
LEMMA ByPlace ==
    ASSUME StreamInv, AttachedInv
    PROVE  /\ UserRuns \/ (Running("store") /\ Top.part = "payload")
                 => Unread = <<>> /\ sent = received
           /\ (Running("store") /\ Top.part = "delimiter") \/ (Running("check") /\ Top.part = "payload")
                 => Unread = Top.line /\ sent = received
           /\ Running("read") \/ (Running("check") /\ Top.part = "delimiter")
                 => Unread = Top.line \o Delimiter /\ sent = Append(received, Top.line)
BY DEF AttachedInv, Pending, Delivering, UserRuns, Running

-----------------------------------------------------------------------------
(* The steps of the stream *)

\* Every call finds room: what is unread when it stores its delimiter is its
\* own payload, and nothing is unread before.
LEMMA RoomForEveryLine ==
    ASSUME StreamInv, AttachedInv, LinesFit
    PROVE  NeverRefused
<1> SUFFICES ASSUME Running("store")
             PROVE  Len(Data) <= WindowSize - (writePos - readPos)
  BY DEF NeverRefused
<1>1. /\ Top.line \in Line /\ Top.part \in Part /\ Len(Top.line) \in Nat
      /\ Len(Delimiter) = 2 /\ WindowSize \in Nat
  BY InvariantNests, TopIsFrame, LenProperties DEF Running, Delimiter
<1>2. Len(Top.line) + 2 <= WindowSize
  BY <1>1 DEF LinesFit
<1>3. Len(Unread) = writePos - readPos /\ writePos \in Nat /\ readPos \in Nat
  BY UnreadBytes
<1>4. CASE Top.part = "payload"
  <2>1. writePos - readPos = 0 /\ Data = Top.line
    BY <1>3, <1>4, ByPlace, EmptySeq DEF Data
  <2> QED  BY <1>1, <1>2, <1>3, <2>1
<1>5. CASE Top.part = "delimiter"
  <2>1. writePos - readPos = Len(Top.line) /\ Len(Data) = 2
    BY <1>1, <1>3, <1>5, ByPlace DEF Data
  <2> QED  BY <1>1, <1>2, <2>1
<1> QED  BY <1>1, <1>4, <1>5 DEF Part

LEMMA StoreKeepsAttached ==
    ASSUME StreamInv, AttachedInv, PlainLines, Store
    PROVE  AttachedInv'
<1>1. /\ calls # <<>> /\ Nested(calls) /\ ReadsBehindDelimiter /\ Running("store")
      /\ Top.part \in Part /\ Top.line \in Seq(Byte) /\ ~isNextNewLine
  BY InvariantNests, TopIsFrame DEF Store, Running, AttachedInv
<1>2. /\ Nested(calls') /\ calls' # <<>> /\ ReadsBehindDelimiter'
      /\ Top'.line = Top.line /\ Top'.part = Top.part /\ Top'.pc = "check"
  <2>1. "check" \in Pc
    BY DEF Pc
  <2> QED  BY <1>1, <2>1, GotoGoesOn DEF Store
<1>3. Unread' = Unread \o Data
  <2>1. Data \in Seq(Byte) /\ Len(log) = writePos /\ log \in Seq(Byte) /\ readPos \in 0 .. Len(log)
    BY <1>1, DataIsPlain, UnreadBytes
  <2>2. log' = log \o Data /\ readPos' = readPos /\ writePos' = Len(log) + Len(Data)
    BY <2>1 DEF Store
  <2> QED  BY <2>1, <2>2, SubSeqOfConcat DEF Unread
<1>4. hasStreamReceiver' /\ commReceiver' \in Receiver /\ ~isNextNewLine' /\ received' = received
  BY <1>1 DEF Store, receivers, scan, AttachedInv
<1>5. CASE Top.part = "payload"
  <2>1. Unread' = Top.line
    BY <1>1, <1>3, <1>5, ByPlace, ConcatEmptySeq DEF Data
  <2>2. sent' = received'
    BY <1>1, <1>4, <1>5, ByPlace DEF Store
  <2> QED  BY <1>2, <1>4, <1>5, <2>1, <2>2 DEF AttachedInv, Pending, Delivering, UserRuns, Running
<1>6. CASE Top.part = "delimiter"
  <2>1. Unread' = Top.line \o Delimiter
    BY <1>1, <1>3, <1>6, ByPlace DEF Data
  <2>2. sent' = Append(received', Top.line)
    BY <1>1, <1>4, <1>6, ByPlace DEF Store
  <2> QED  BY <1>2, <1>4, <1>6, <2>1, <2>2 DEF AttachedInv, Pending, Delivering, UserRuns, Running
<1> QED  BY <1>1, <1>5, <1>6 DEF Part

\* The search at the end of writeData() finds the delimiter and nothing else.
LEMMA CheckKeepsAttached ==
    ASSUME StreamInv, AttachedInv, PlainLines, CheckIdle \/ CheckCallback
    PROVE  AttachedInv'
<1>1. /\ calls # <<>> /\ Nested(calls) /\ ReadsBehindDelimiter /\ Running("check")
      /\ Top.part \in Part /\ Top.line \in Line
  BY InvariantNests, TopIsFrame DEF CheckIdle, CheckCallback, Running, AttachedInv
<1>2. hasStreamReceiver /\ commReceiver # None
  BY DEF AttachedInv
<1>3. /\ log' = log /\ readPos' = readPos /\ writePos' = writePos
      /\ sent' = sent /\ received' = received
      /\ hasStreamReceiver' = hasStreamReceiver /\ commReceiver' = commReceiver
  BY DEF CheckIdle, CheckCallback, positions, receivers, history
<1>4. hasStreamReceiver' /\ commReceiver' \in Receiver /\ Unread' = Unread
  BY <1>3 DEF AttachedInv, Unread
<1>5. writePos \in Nat /\ readPos \in Nat /\ newLinePos \in Nat /\ readPos <= newLinePos /\ newLinePos <= writePos
  BY UnreadBytes
<1>6. CASE CheckCallback
  <2>1. newLinePos' \in newLinePos .. writePos - 2 /\ log[newLinePos' + 1] = CR
    BY <1>6, SearchSucceeds DEF CheckCallback
  <2>2. newLinePos' \in readPos .. writePos - 1
    BY <1>5, <2>1
  <2>3. Top.part # "payload"
    BY <1>1, <2>1, <2>2, ByPlace, PayloadUnread
  <2>4. Top.part = "delimiter"
    BY <1>1, <2>3 DEF Part
  <2>5. /\ Nested(calls') /\ calls' # <<>> /\ ReadsBehindDelimiter'
        /\ Top'.line = Top.line /\ Top'.part = Top.part /\ Top'.pc = "read"
    <3>1. "read" \in Pc
      BY DEF Pc
    <3> QED  BY <1>1, <1>6, <2>4, <3>1, GotoGoesOn DEF CheckCallback
  <2>6. Unread' = Top.line \o Delimiter /\ sent' = Append(received', Top.line)
    BY <1>1, <1>3, <1>4, <2>4, ByPlace
  <2> QED  BY <1>4, <2>4, <2>5, <2>6 DEF AttachedInv, Pending, Delivering, UserRuns, Running
<1>7. CASE CheckIdle
  <2>1. IsReadLine(FALSE)
    BY <1>2, <1>7 DEF CheckIdle
  <2>2. isNextNewLine' = FALSE /\ \A p \in readPos .. newLinePos' - 1 : log[p + 1] # CR
    BY <2>1, SearchFails
  <2>3. newLinePos' = writePos
    BY <1>5, <2>1 DEF IsReadLine, scan
  <2>4. Top.part # "delimiter"
    <3> SUFFICES ASSUME Top.part = "delimiter"
                 PROVE  FALSE
      OBVIOUS
    <3>1. writePos - 2 \in readPos .. writePos /\ log[writePos - 1] = CR
      BY <1>1, ByPlace, WholeLineUnread
    <3> DEFINE p == writePos - 2
    <3>2. p \in readPos .. newLinePos' - 1 /\ p + 1 = writePos - 1
      BY <1>5, <2>3, <3>1
    <3> HIDE DEF p
    <3>3. log[p + 1] # CR
      BY <2>2, <3>2
    <3> QED  BY <3>1, <3>2, <3>3
  <2>5. Top.part = "payload"
    BY <1>1, <2>4 DEF Part
  <2> DEFINE f == [line |-> Top.line, part |-> "delimiter", pc |-> "store"]
  <2>6. calls' = [calls EXCEPT ![Len(calls)] = f]
    BY <1>7, <2>5 DEF CheckIdle, Advance
  <2>7. f \in Frame /\ f.pc = "store" /\ f.part = "delimiter" /\ f.line = Top.line
    BY <1>1, FrameFields DEF Part, Pc
  <2> HIDE DEF f
  <2>8. calls' # <<>> /\ Top' = f /\ ReadsBehindDelimiter'
    BY <1>1, <2>6, <2>7, TopGoesOn
  <2>9. Unread' = Top.line /\ sent' = received'
    BY <1>1, <1>3, <1>4, <2>5, ByPlace
  <2> QED  BY <1>4, <2>2, <2>7, <2>8, <2>9 DEF AttachedInv, Pending, Delivering, UserRuns, Running
<1> QED  BY <1>6, <1>7

\* readLine() returns the line of the call in progress, and nothing is left.
LEMMA LineIsRead ==
    ASSUME StreamInv, AttachedInv, PlainLines, ReadLine
    PROVE  /\ AttachedInv'
           /\ received' = Append(received, Top.line)
           /\ sent = Append(received, Top.line)
           /\ sent' = sent
<1>1. /\ calls # <<>> /\ Nested(calls) /\ ReadsBehindDelimiter /\ Running("read") /\ isNextNewLine
      /\ Len(calls) \in 1 .. Len(calls)
  BY InvariantNests, TopIsFrame DEF ReadLine, Running, AttachedInv, StreamInv, CallbacksNest
<1>2. Top.part = "delimiter"
  BY <1>1 DEF ReadsBehindDelimiter, Running, Top
<1>3. Unread = Top.line \o Delimiter /\ sent = Append(received, Top.line)
  BY <1>1, ByPlace
<1>4. /\ writePos - 2 \in readPos .. writePos
      /\ \A p \in readPos .. writePos - 3 : log[p + 1] # CR
      /\ SubSeq(log, readPos + 1, writePos - 2) = Top.line
  BY <1>1, <1>3, WholeLineUnread
<1>5. /\ writePos \in Nat /\ readPos \in Nat /\ newLinePos \in Nat
      /\ readPos <= newLinePos /\ newLinePos + 2 <= writePos /\ log[newLinePos + 1] = CR
  BY <1>1, UnreadBytes DEF StreamInv, DelimiterFound
<1>6. newLinePos = writePos - 2
  <2>1. ~(newLinePos \in readPos .. writePos - 3)
    BY <1>4, <1>5
  <2> QED  BY <1>5, <2>1
<1>7. NextLine = Top.line
  BY <1>4, <1>5, <1>6, NextLineIsInLog
<1>8. /\ received' = Append(received, Top.line) /\ sent' = sent /\ ~isNextNewLine'
      /\ hasStreamReceiver' /\ commReceiver' \in Receiver
      /\ readPos' = writePos /\ writePos' = writePos
  BY <1>5, <1>6, <1>7 DEF ReadLine, receivers, AttachedInv, Delimiter
<1>9. Unread' = <<>>
  <2>1. writePos + 1 \in Int /\ writePos \in Int /\ writePos < writePos + 1
    BY <1>5
  <2> QED  BY <1>8, <2>1, SubSeqEmpty DEF Unread
<1>10. calls' # <<>> /\ ReadsBehindDelimiter' /\ Top'.pc = "handle"
  <2>1. "handle" \in Pc
    BY DEF Pc
  <2> QED  BY <1>1, <1>2, <2>1, GotoGoesOn DEF ReadLine
<1>11. AttachedInv'
  BY <1>3, <1>8, <1>9, <1>10 DEF AttachedInv, Pending, Delivering, UserRuns, Running
<1> QED  BY <1>3, <1>8, <1>11

LEMMA ReturnKeepsAttached ==
    ASSUME StreamInv, AttachedInv, CallbackReturns
    PROVE  AttachedInv'
<1>1. /\ calls # <<>> /\ Nested(calls) /\ ReadsBehindDelimiter /\ Running("handle")
      /\ Len(calls) \in 1 .. Len(calls) /\ ~isNextNewLine
  BY InvariantNests, TopIsFrame DEF CallbackReturns, Running, AttachedInv
<1>2. Top.part = "delimiter"
  BY <1>1 DEF ReadsBehindDelimiter, Running, Top
<1>3. UserRuns' /\ ReadsBehindDelimiter'
  BY <1>1, <1>2, CallerGoesOn DEF CallbackReturns, Advance
<1>4. /\ hasStreamReceiver' /\ commReceiver' \in Receiver /\ ~isNextNewLine'
      /\ Unread' = Unread /\ sent' = sent /\ received' = received
  BY <1>1 DEF CallbackReturns, positions, scan, receivers, history, AttachedInv, Unread
<1>5. Unread' = <<>> /\ sent' = received'
  BY <1>1, <1>4, ByPlace DEF UserRuns
<1> QED  BY <1>3, <1>4, <1>5 DEF AttachedInv, Pending, Delivering, UserRuns, Running

LEMMA WriteLineKeepsAttached ==
    ASSUME StreamInv, AttachedInv, NEW l \in Line, WriteLine(l)
    PROVE  AttachedInv'
<1> DEFINE f == [line |-> l, part |-> "payload", pc |-> "store"]
<1>1. f \in Frame /\ f.pc = "store" /\ f.part = "payload"
  BY FrameFields DEF Part, Pc
<1>2. UserRuns /\ calls' = Append(calls, f) /\ UNCHANGED <<window, positions, scan, receivers, history>>
  BY DEF WriteLine
<1> HIDE DEF f
<1>3. calls \in Seq(Frame) /\ Len(calls) \in Nat /\ ReadsBehindDelimiter
  BY DEF StreamInv, TypeOK, AttachedInv
<1>4. /\ Len(calls') = Len(calls) + 1 /\ calls' # <<>>
      /\ \A i \in 1 .. Len(calls) : calls'[i] = calls[i]
      /\ Top' = f
  BY <1>1, <1>2, <1>3 DEF Top
<1>5. ReadsBehindDelimiter'
  <2> SUFFICES ASSUME NEW i \in 1 .. Len(calls'), calls'[i].pc \in {"read", "handle"}
               PROVE  calls'[i].part = "delimiter"
    BY DEF ReadsBehindDelimiter
  <2>1. CASE i \in 1 .. Len(calls)
    BY <1>3, <1>4, <2>1 DEF ReadsBehindDelimiter
  <2>2. CASE i = Len(calls')
    BY <1>1, <1>4, <2>2 DEF Top
  <2> QED  BY <1>3, <1>4, <2>1, <2>2
<1>6. /\ hasStreamReceiver' /\ commReceiver' \in Receiver /\ ~isNextNewLine'
      /\ Unread' = Unread /\ sent' = sent /\ received' = received
  BY <1>2 DEF positions, scan, receivers, history, AttachedInv, Unread, UserRuns, Running
<1>7. Unread' = <<>> /\ sent' = received'
  BY <1>2, <1>6, ByPlace
<1> QED  BY <1>1, <1>4, <1>5, <1>6, <1>7 DEF AttachedInv, Pending, Delivering, UserRuns, Running

-----------------------------------------------------------------------------
(* The channel *)

LEMMA AttachedStartsRight ==
    ASSUME AttachedInit
    PROVE  StreamInv /\ AttachedInv
<1>1. StreamInv
  BY EmptyStreamInv DEF AttachedInit
<1>2. Unread = <<>>
  BY SubSeqEmpty DEF AttachedInit, EmptyStream, Unread
<1>3. ReadsBehindDelimiter
  BY DEF AttachedInit, EmptyStream, ReadsBehindDelimiter
<1>4. AttachedInv
  BY <1>2, <1>3 DEF AttachedInit, EmptyStream, AttachedInv, Pending, Delivering, UserRuns, Running
<1> QED  BY <1>1, <1>4

\* No step of the stream or of its users breaks the invariant.
THEOREM AttachedInvInductive ==
    ASSUME StreamInv, AttachedInv, PlainLines, LinesFit, [AttachedNext]_vars
    PROVE  StreamInv' /\ AttachedInv'
<1>1. StreamInv'
  <2>1. [Next]_vars
    BY DEF AttachedNext, Next
  <2> QED  BY <2>1, StreamInvInductive
<1> SUFFICES AttachedInv'
  BY <1>1
<1>2. CASE Store
  BY <1>2, StoreKeepsAttached
<1>3. CASE Reject
  <2>1. writePos \in Nat /\ readPos \in Nat /\ Len(Data) \in Nat
    BY <1>3, UnreadBytes, DataIsPlain DEF Reject, Running
  <2> QED  BY <1>3, <2>1, RoomForEveryLine DEF Reject, NeverRefused
<1>4. CASE CheckIdle \/ CheckCallback
  BY <1>4, CheckKeepsAttached
<1>5. CASE ReadLine
  BY <1>5, LineIsRead
<1>6. CASE CallbackReturns
  BY <1>6, ReturnKeepsAttached
<1>7. ASSUME NEW l \in Line, WriteLine(l)
      PROVE  AttachedInv'
  BY <1>7, WriteLineKeepsAttached
<1>8. CASE UNCHANGED vars
  BY <1>8 DEF vars, positions, scan, receivers, history, AttachedInv, Unread, Pending, Delivering,
              ReadsBehindDelimiter, UserRuns, Running, Top
<1> QED  BY <1>2, <1>3, <1>4, <1>5, <1>6, <1>7, <1>8 DEF AttachedNext, Step

LEMMA AttachedCorrect ==
    ASSUME PlainLines, LinesFit
    PROVE  AttachedSpec => [](StreamInv /\ AttachedInv)
<1>1. AttachedInit => StreamInv /\ AttachedInv
  BY AttachedStartsRight
<1>2. StreamInv /\ AttachedInv /\ [AttachedNext]_vars => StreamInv' /\ AttachedInv'
  BY AttachedInvInductive
<1> QED  BY <1>1, <1>2, PTL DEF AttachedSpec

\* writeLine() never returns false while a receiver is registered and lines
\* fit, however deep the callbacks write.
THEOREM LinesNeverRefused ==
    ASSUME PlainLines, LinesFit
    PROVE  AttachedSpec => []NeverRefused
<1>1. StreamInv /\ AttachedInv => NeverRefused
  BY RoomForEveryLine
<1> QED  BY <1>1, AttachedCorrect, PTL

\* The receiver gets the lines that were accepted, whole, once and in order:
\* a step of the stream is a step of the channel or none.
THEOREM StreamImplementsChannel ==
    ASSUME PlainLines, LinesFit
    PROVE  AttachedSpec => ImplementsChannel
<1>1. AttachedInit => Channel!ChanInit
  BY DEF AttachedInit, EmptyStream, Channel!ChanInit
<1>2. ASSUME StreamInv, AttachedInv, [AttachedNext]_vars
      PROVE  [Channel!ChanNext]_(Channel!chanVars)
  <2>1. CASE Store
    <3>1. Top.line \in Line /\ received' = received
      BY <1>2, <2>1, InvariantNests, TopIsFrame DEF Store, Running
    <3>2. CASE Top.part = "delimiter"
      <4>1. sent' = Append(sent, Top.line)
        BY <2>1, <3>2 DEF Store
      <4> QED  BY <3>1, <4>1 DEF Channel!ChanNext, Channel!Send
    <3>3. CASE Top.part # "delimiter"
      <4>1. sent' = sent
        BY <2>1, <3>3 DEF Store
      <4> QED  BY <3>1, <4>1 DEF Channel!chanVars
    <3> QED  BY <3>2, <3>3
  <2>2. CASE ReadLine
    <3>1. /\ received' = Append(received, Top.line) /\ sent = Append(received, Top.line)
          /\ sent' = sent
      BY <1>2, <2>2, LineIsRead
    <3>2. received \in Seq(Seq(Byte)) /\ Len(received) \in Nat
      BY <1>2 DEF StreamInv, TypeOK
    <3>3. Len(sent) = Len(received) + 1 /\ sent[Len(received) + 1] = Top.line
      BY <3>1, <3>2
    <3> QED  BY <3>1, <3>2, <3>3 DEF Channel!ChanNext, Channel!Receive
  <2>3. CASE \/ Reject \/ CheckIdle \/ CheckCallback \/ CallbackReturns
             \/ (\E l \in Line : WriteLine(l)) \/ UNCHANGED vars
    <3>1. UNCHANGED history
      BY <2>3 DEF Reject, CheckIdle, CheckCallback, CallbackReturns, WriteLine, vars
    <3> QED  BY <3>1 DEF history, Channel!chanVars
  <2> QED  BY <1>2, <2>1, <2>2, <2>3 DEF AttachedNext, Step
<1> QED  BY <1>1, <1>2, AttachedCorrect, PTL DEF AttachedSpec, ImplementsChannel, Channel!ChanSpec
=============================================================================
