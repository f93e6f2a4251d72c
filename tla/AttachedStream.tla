--------------------------- MODULE AttachedStream ---------------------------
(***************************************************************************)
(* The stream of a connection that is up: a receiver is registered before  *)
(* the first line and stays, as between CmServiceAccess::openConnection()  *)
(* and CmServiceConnection::disconnect(), and no line is longer than the   *)
(* window less its delimiter.  Lines then pass as through a LineChannel,   *)
(* although callbacks write to the stream they are called from.            *)
(***************************************************************************)
EXTENDS CmStream

AttachedInit == EmptyStream /\ commReceiver \in Receiver

AttachedNext == Step \/ \E l \in Line : WriteLine(l)

\* The thread that has entered writeLine() goes on until the call returns.
AttachedSpec == AttachedInit /\ [][AttachedNext]_vars /\ WF_vars(Step)

\* A line counts as sent when its writeLine() returns true, and as received
\* when readLine() has returned it.
Channel == INSTANCE LineChannel WITH Line <- Line, sent <- sent, received <- received

\* Every step of the stream is a Send, a Receive or none of the two: lines
\* arrive whole and in the order in which their calls completed
\* (CmStream.h:42-45, 61-65).
ImplementsChannel == Channel!ChanSpec

\* A line whose writeLine() stored the delimiter is handed over: the search,
\* its cache and the callback never leave the last line behind.
EveryLineArrives ==
    \A n \in 1 .. MaxPosition : Len(sent) = n ~> Len(received) >= n

-----------------------------------------------------------------------------
(* Why it is so: while a receiver is registered, no more than the line of    *)
(* the call in progress is ever unread.                                      *)

Unread == SubSeq(log, readPos + 1, writePos)

\* What the call in progress has stored and nobody has read: a callback that
\* handles its line, and a call that begins, find the stream empty.
Pending ==
    IF UserRuns \/ (Running("store") /\ Top.part = "payload") THEN <<>>
    ELSE IF Running("store") \/ (Running("check") /\ Top.part = "payload") THEN Top.line
    ELSE Top.line \o Delimiter

\* The line of a call that has stored its delimiter is sent and not received.
Delivering == Running("read") \/ (Running("check") /\ Top.part = "delimiter")

\* Only a call that has stored its delimiter calls back.
ReadsBehindDelimiter ==
    \A i \in 1 .. Len(calls) : calls[i].pc \in {"read", "handle"} => calls[i].part = "delimiter"

AttachedInv ==
    /\ hasStreamReceiver /\ commReceiver \in Receiver
    /\ Unread = Pending
    /\ sent = IF Delivering THEN Append(received, Top.line) ELSE received
    /\ isNextNewLine => Running("read")
    /\ ReadsBehindDelimiter

\* A line is never refused, not even in the middle of a callback.
NeverRefused == Running("store") => Len(Data) <= WindowSize - (writePos - readPos)

\* No line is longer than the window less its delimiter.
LinesFit == \A l \in Line : Len(l) + Len(Delimiter) <= WindowSize
=============================================================================
