------------------------------ MODULE CmStream ------------------------------
(***************************************************************************)
(* Services/PlugNode/CmStream.cpp with the receiver registration of        *)
(* CmCommunication.cpp on top of it: one stream, that is, one direction of *)
(* a service connection.                                                   *)
(*                                                                         *)
(* Bytes live in a circular window.  Stream positions only grow; the wrap  *)
(* position says where the end of the window currently lies in the stream, *)
(* and turns a position into a window address.  writeLine() is two calls   *)
(* of writeData(), the payload and then the delimiter, and each of them    *)
(* runs the receiver's callback when a complete line is ahead.  The        *)
(* callback reads one line and may write further lines to the same stream, *)
(* register or unregister the receiver: the calls nest, on one thread.     *)
(***************************************************************************)
EXTENDS Integers, Sequences

CONSTANTS
    WindowSize,    \* bytes in DataWindow (128 KByte in the program)
    Byte,          \* byte values
    CR, LF,        \* 0x0D and 0x0A
    FreshByte,     \* what a byte of a window just allocated may hold
    Line,          \* the text lines users write
    Receiver,      \* objects that may register for received lines
    None,          \* a NULL receiver
    MaxPosition,   \* bound on stream positions (int64 in the program)
    MaxDepth       \* bound on nested writeLine() calls

ASSUME WindowAssumption == WindowSize \in Nat \ {0} /\ MaxPosition \in Nat /\ MaxDepth \in Nat
ASSUME ByteAssumption   == CR \in Byte /\ LF \in Byte /\ CR # LF /\ FreshByte \subseteq Byte
ASSUME LineAssumption   == Line \subseteq Seq(Byte)
ASSUME NoneAssumption   == None \notin Receiver

VARIABLES
    window,          \* DataWindow
    writePos,        \* WritePosition
    readPos,         \* ReadPosition
    wrapPos,         \* WrapPosition
    newLinePos,      \* NewLinePosition
    isNextNewLine,   \* whether newLinePos is known to be at a delimiter
    hasStreamReceiver, \* StreamReceiver: the object itself, or NULL
    commReceiver,    \* CommunicationReceiver
    calls,           \* writeLine() calls in progress, outermost first
    log,             \* history: every byte stored in the stream
    sent,            \* history: the lines whose writeLine() stored the delimiter
    received         \* history: the lines readLine() returned

positions == <<writePos, readPos, wrapPos>>
scan      == <<newLinePos, isNextNewLine>>
receivers == <<hasStreamReceiver, commReceiver>>
history   == <<log, sent, received>>
vars      == <<window, positions, scan, receivers, calls, history>>

Delimiter == <<CR, LF>>
Address   == 0 .. WindowSize - 1
Part      == {"payload", "delimiter"}
Pc        == {"store", "check", "read", "handle"}

-----------------------------------------------------------------------------
(* The call in progress. *)

Top == calls[Len(calls)]

Running(pc) == calls # <<>> /\ Top.pc = pc

\* Code outside of the stream runs: no call is in progress, or a callback has
\* read its line and now handles it.
UserRuns == calls = <<>> \/ Running("handle")

Goto(pc) == calls' = [calls EXCEPT ![Len(calls)].pc = pc]

Return == calls' = SubSeq(calls, 1, Len(calls) - 1)

\* After one writeData() has succeeded: the delimiter follows the payload.
Advance ==
    IF Top.part = "payload"
    THEN calls' = [calls EXCEPT ![Len(calls)] =
                       [line |-> Top.line, part |-> "delimiter", pc |-> "store"]]
    ELSE Return

Data == IF Top.part = "payload" THEN Top.line ELSE Delimiter

-----------------------------------------------------------------------------
(* The window. *)

\* The address of stream position p, 'wrapPos' being where the window ends.
AddressOf(p) == IF p < wrapPos THEN WindowSize - (wrapPos - p) ELSE p - wrapPos

\* memcpy() of bytes to address to.
Memcpy(win, to, bytes) ==
    [a \in Address |-> IF to <= a /\ a < to + Len(bytes) THEN bytes[a - to + 1] ELSE win[a]]

\* Fault: situation (1) without its test, over the end of the window.
StoredPastEnd(bytes) ==
    LET to == WindowSize - (wrapPos - writePos)
    IN  [a \in Address \cup (to .. to + Len(bytes) - 1) |->
            IF to <= a /\ a < to + Len(bytes) THEN bytes[a - to + 1] ELSE window[a]]

\* Fault: situation (2) copies the first bytes again behind the wrap.
StoredTwice(bytes) ==
    LET room == wrapPos - writePos
    IN  IF writePos + Len(bytes) <= wrapPos
        THEN Memcpy(window, WindowSize - room, bytes)
        ELSE IF writePos < wrapPos
        THEN Memcpy(Memcpy(window, WindowSize - room, SubSeq(bytes, 1, room)),
                    0, SubSeq(bytes, 1, Len(bytes) - room))
        ELSE Memcpy(window, writePos - wrapPos, bytes)

\* The three situations of writeData(): in front of the wrap position, across
\* it, or behind it.
Stored(bytes) ==
    LET room == wrapPos - writePos
    IN  IF writePos + Len(bytes) <= wrapPos
        THEN Memcpy(window, WindowSize - room, bytes)
        ELSE IF writePos < wrapPos
        THEN Memcpy(Memcpy(window, WindowSize - room, SubSeq(bytes, 1, room)),
                    0, SubSeq(bytes, room + 1, Len(bytes)))
        ELSE Memcpy(window, writePos - wrapPos, bytes)

\* Fault: the last byte in front of the wrap counts to the second piece.
NextLineSplitEarly ==
    LET room == wrapPos - readPos
    IN  [i \in 1 .. newLinePos - readPos |->
            IF i < room THEN window[WindowSize - room + i - 1]
                        ELSE window[IF i = room THEN 0 ELSE i - room - 1]]

\* The bytes readLine() copies, in one piece or in two around the wrap.
NextLine ==
    LET room == wrapPos - readPos
    IN  [i \in 1 .. newLinePos - readPos |->
            IF i <= room THEN window[WindowSize - room + i - 1] ELSE window[i - room - 1]]

-----------------------------------------------------------------------------
(* The search for the next delimiter. *)

\* memchr() for CR in addresses lo .. hi finds address a, or finds nothing.
FirstCR(lo, hi, a) ==
    /\ a \in lo .. hi
    /\ window[a] = CR
    /\ \A b \in lo .. a - 1 : window[b] # CR

NoCR(lo, hi) == \A a \in lo .. hi : window[a] # CR

\* Fault: a search that begins on the last byte of the window is not continued.
SearchWrapTooLate == writePos > wrapPos /\ newLinePos < wrapPos - 1

isSearchWrap == writePos > wrapPos /\ newLinePos < wrapPos

\* Fault: the search continues one byte behind the place where it stopped.
Search1StartsLate ==
    IF writePos <= wrapPos
    THEN [lo |-> WindowSize - (wrapPos - newLinePos) + 1,
          hi |-> WindowSize - (wrapPos - writePos) - 1, base |-> 0]
    ELSE IF newLinePos >= wrapPos
    THEN [lo |-> newLinePos - wrapPos + 1, hi |-> writePos - wrapPos - 1, base |-> WindowSize]
    ELSE [lo |-> WindowSize - (wrapPos - newLinePos) + 1, hi |-> WindowSize - 1, base |-> 0]

\* base is NewLineWindowPosition, what turns an address into a position again.
Search1 ==
    IF writePos <= wrapPos
    THEN [lo |-> WindowSize - (wrapPos - newLinePos),
          hi |-> WindowSize - (wrapPos - writePos) - 1, base |-> 0]
    ELSE IF newLinePos >= wrapPos
    THEN [lo |-> newLinePos - wrapPos, hi |-> writePos - wrapPos - 1, base |-> WindowSize]
    ELSE [lo |-> WindowSize - (wrapPos - newLinePos), hi |-> WindowSize - 1, base |-> 0]

Search2 == [lo |-> 0, hi |-> writePos - wrapPos - 1, base |-> WindowSize]

\* A CR was found at address a: is it followed by LF?  The position moves only
\* then, but isReadLine() returns true either way.
Mark(a, base) ==
    /\ isNextNewLine' = (window[IF a = WindowSize - 1 THEN 0 ELSE a + 1] = LF)
    /\ newLinePos' = IF isNextNewLine' THEN wrapPos - WindowSize + base + a ELSE newLinePos

\* isReadLine(), found being its result.
IsReadLine(found) ==
    \/ isNextNewLine /\ found /\ UNCHANGED scan
    \/ ~isNextNewLine /\ newLinePos >= writePos /\ ~found /\ UNCHANGED scan
    \/ /\ ~isNextNewLine /\ newLinePos < writePos /\ found
       /\ \E a \in Address :
            \/ FirstCR(Search1.lo, Search1.hi, a) /\ Mark(a, Search1.base)
            \/ /\ isSearchWrap /\ NoCR(Search1.lo, Search1.hi)
               /\ FirstCR(Search2.lo, Search2.hi, a) /\ Mark(a, Search2.base)
    \/ /\ ~isNextNewLine /\ newLinePos < writePos /\ ~found
       /\ NoCR(Search1.lo, Search1.hi)
       /\ isSearchWrap => NoCR(Search2.lo, Search2.hi)
       /\ newLinePos' = writePos
       /\ UNCHANGED isNextNewLine

-----------------------------------------------------------------------------
EmptyStream ==
    /\ window \in [Address -> FreshByte]
    /\ writePos = 0 /\ readPos = 0 /\ wrapPos = WindowSize
    /\ newLinePos = 0 /\ isNextNewLine = FALSE
    /\ hasStreamReceiver = TRUE
    /\ calls = <<>>
    /\ log = <<>> /\ sent = <<>> /\ received = <<>>

\* A stream nobody has registered for yet.
Init == EmptyStream /\ commReceiver = None

\* A user calls writeLine(l), from outside or from within a callback.
WriteLine(l) ==
    /\ UserRuns
    /\ Len(calls) < MaxDepth
    /\ Len(log) + Len(l) + Len(Delimiter) <= MaxPosition
    /\ calls' = Append(calls, [line |-> l, part |-> "payload", pc |-> "store"])
    /\ UNCHANGED <<window, positions, scan, receivers, history>>

\* Fault: the check of the free buffer is off by one.
StoreOneTooMany ==
    /\ Running("store")
    /\ WindowSize - (writePos - readPos) + 1 >= Len(Data)
    /\ window' = Stored(Data)
    /\ writePos' = writePos + Len(Data)
    /\ log' = log \o Data
    /\ sent' = IF Top.part = "delimiter" THEN Append(sent, Top.line) ELSE sent
    /\ Goto("check")
    /\ UNCHANGED <<readPos, wrapPos, scan, receivers, received>>

\* writeData() up to the callback: the data fits and is stored.
Store ==
    /\ Running("store")
    /\ WindowSize - (writePos - readPos) >= Len(Data)
    /\ window' = Stored(Data)
    /\ writePos' = writePos + Len(Data)
    /\ log' = log \o Data
    /\ sent' = IF Top.part = "delimiter" THEN Append(sent, Top.line) ELSE sent
    /\ Goto("check")
    /\ UNCHANGED <<readPos, wrapPos, scan, receivers, received>>

\* writeData() does not fit: it returns false and writeLine() returns false,
\* whichever part failed.
Reject ==
    /\ Running("store")
    /\ WindowSize - (writePos - readPos) < Len(Data)
    /\ Return
    /\ UNCHANGED <<window, positions, scan, receivers, history>>

\* The end of writeData() without a line for a receiver.  A missing stream
\* receiver leaves the search undone; the stream object without a
\* communication receiver leaves the line where it is.
CheckIdle ==
    /\ Running("check")
    /\ \/ ~hasStreamReceiver /\ UNCHANGED scan
       \/ hasStreamReceiver /\ IsReadLine(FALSE)
       \/ hasStreamReceiver /\ commReceiver = None /\ IsReadLine(TRUE)
    /\ Advance
    /\ UNCHANGED <<window, positions, receivers, history>>

\* The end of writeData() with a line: the receiver's processMessage() runs.
CheckCallback ==
    /\ Running("check")
    /\ hasStreamReceiver /\ commReceiver # None
    /\ IsReadLine(TRUE)
    /\ Goto("read")
    /\ UNCHANGED <<window, positions, receivers, history>>

\* Fault: the wrap position moves one byte too late.
ReadLineWrapsLate ==
    /\ Running("read")
    /\ received' = Append(received, NextLine)
    /\ newLinePos' = newLinePos + Len(Delimiter)
    /\ readPos' = newLinePos'
    /\ isNextNewLine' = FALSE
    /\ wrapPos' = IF readPos' > wrapPos THEN wrapPos + WindowSize ELSE wrapPos
    /\ Goto("handle")
    /\ UNCHANGED <<window, writePos, receivers, log, sent>>

\* readLine(), the first thing every receiver does in its callback.
ReadLine ==
    /\ Running("read")
    /\ received' = Append(received, NextLine)
    /\ newLinePos' = newLinePos + Len(Delimiter)
    /\ readPos' = newLinePos'
    /\ isNextNewLine' = FALSE
    /\ wrapPos' = IF readPos' >= wrapPos THEN wrapPos + WindowSize ELSE wrapPos
    /\ Goto("handle")
    /\ UNCHANGED <<window, writePos, receivers, log, sent>>

\* The callback returns into writeData().
CallbackReturns ==
    /\ Running("handle")
    /\ Advance
    /\ UNCHANGED <<window, positions, scan, receivers, history>>

\* registerCommunicationReceiver(); a receiver registered before is replaced.
RegisterCommunicationReceiver(r) ==
    /\ UserRuns
    /\ hasStreamReceiver' = TRUE
    /\ commReceiver' = r
    /\ UNCHANGED <<window, positions, scan, calls, history>>

\* unregisterCommunicationReceiver() by the receiver that is registered.
UnregisterCommunicationReceiver ==
    /\ UserRuns
    /\ commReceiver # None
    /\ commReceiver' = None
    /\ UNCHANGED <<window, positions, scan, hasStreamReceiver, calls, history>>

\* unregisterStreamReceiver() with the object itself.
UnregisterStreamReceiver ==
    /\ UserRuns
    /\ hasStreamReceiver
    /\ hasStreamReceiver' = FALSE
    /\ UNCHANGED <<window, positions, scan, commReceiver, calls, history>>

\* The steps of a call in progress.
Step == Store \/ Reject \/ CheckIdle \/ CheckCallback \/ ReadLine \/ CallbackReturns

Next ==
    \/ Step
    \/ \E l \in Line : WriteLine(l)
    \/ \E r \in Receiver : RegisterCommunicationReceiver(r)
    \/ UnregisterCommunicationReceiver
    \/ UnregisterStreamReceiver

Spec == Init /\ [][Next]_vars

-----------------------------------------------------------------------------
(* Properties *)

Frame == [line : Line, part : Part, pc : Pc]

\* Every variable has its type; the addresses the code computes stay in the
\* window because the window keeps its domain.
TypeOK ==
    /\ window \in [Address -> Byte]
    /\ writePos \in Nat /\ readPos \in Nat /\ wrapPos \in Nat /\ newLinePos \in Nat
    /\ isNextNewLine \in BOOLEAN /\ hasStreamReceiver \in BOOLEAN
    /\ commReceiver \in Receiver \cup {None}
    /\ calls \in Seq(Frame)
    /\ log \in Seq(Byte) /\ sent \in Seq(Line) /\ received \in Seq(Seq(Byte))

\* The bookkeeping of the window (CmStream.cpp:47-51): the reader never
\* overtakes the search, the search never overtakes the writer, at most one
\* window of bytes is unread, and the wrap position is the first one after the
\* read position, so that FreeBuffer and the three situations of writeData()
\* mean what the comment at CmStream.cpp:110-121 says.
PositionsOrdered ==
    /\ readPos <= newLinePos
    /\ newLinePos <= writePos
    /\ writePos <= readPos + WindowSize
    /\ wrapPos - WindowSize <= readPos
    /\ readPos < wrapPos

\* No byte is overwritten, moved or lost before it has been read: the window
\* holds the bytes of the stream at every unread position, wherever the
\* positions have wrapped.
UnreadBytesKept ==
    /\ Len(log) = writePos
    /\ \A p \in readPos .. writePos - 1 : window[AddressOf(p)] = log[p + 1]

\* The cached result of the search (isNextNewLine, CmStream.cpp:224) is never
\* stale: it names a whole delimiter that has been written and not yet read,
\* and no delimiter in front of it was missed, whatever was stored since.
DelimiterFound ==
    /\ isNextNewLine => /\ newLinePos + 2 <= writePos
                        /\ log[newLinePos + 1] = CR /\ log[newLinePos + 2] = LF
    /\ \A p \in readPos .. newLinePos - 1 : log[p + 1] # CR

\* Only delimiters contain a CR, and they are stored in one piece.
DelimitersPaired ==
    \A p \in 1 .. Len(log) : log[p] = CR => p + 1 <= Len(log) /\ log[p + 1] = LF

\* Calls nest in callbacks only, and a callback begins with a line to read.
CallbacksNest ==
    /\ \A i \in 1 .. Len(calls) - 1 : calls[i].pc = "handle"
    /\ Running("read") => isNextNewLine

\* The inductive invariant of streams of plain lines.
StreamInv ==
    /\ TypeOK /\ PositionsOrdered /\ UnreadBytesKept
    /\ DelimiterFound /\ DelimitersPaired /\ CallbacksNest

\* No line contains a CR of its own.
PlainLines == \A l \in Line : \A i \in 1 .. Len(l) : l[i] # CR

\* What readLine() returns is the bytes of the stream from the read position
\* to the next delimiter, and it steps exactly behind that delimiter.
NextDelimiter(p, q) ==
    /\ q + 2 <= Len(log) /\ log[q + 1] = CR /\ log[q + 2] = LF
    /\ \A i \in p + 1 .. q : log[i] # CR
ReadsOneLine ==
    [][received' # received =>
         \E q \in readPos .. writePos :
            /\ NextDelimiter(readPos, q)
            /\ received' = Append(received, SubSeq(log, readPos + 1, q))
            /\ readPos' = q + 2]_vars
=============================================================================
