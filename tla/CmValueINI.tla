----------------------------- MODULE CmValueINI -----------------------------
(***************************************************************************)
(* Settings, FTLight/CmValueFTL.cpp: a list of CmValueINI items gives each *)
(* item an address in a hierarchy and writes the text of that hierarchy,   *)
(* StringINI, line by line.  With it the settings are written to a file    *)
(* and read from it (CmValueFTL::writeInfoFTL, readInfoFTL).               *)
(*                                                                         *)
(* The first item is a UURI.  An address is the sequence of its numbers    *)
(* without the leading 0.  LogLevel, Message and Context of the result are *)
(* kept in another list (CmFileFTL: getReturn()); of these only the level  *)
(* decides anything.                                                       *)
(***************************************************************************)
EXTENDS FTLightTree

CONSTANTS
    UURI,              \* text of the first item
    NewTexts,          \* what settings are changed to
    MaxItems,          \* bound: items behind the first
    MaxNewer,          \* bound: items a newer version has more
    MaxChanges         \* bound: changes of a setting

ASSUME ValueINIAssumption == MaxItems \in Nat /\ MaxNewer \in Nat /\ MaxChanges \in Nat

VARIABLES
    items,             \* CmValueFTL: address and text of each
    MatrixINI,         \* elements on each level, isExtended in place (0, 0)
    StringINI,
    file,              \* the settings on the disk
    LogLevel,          \* of the list that returns results
    saved,             \* the texts when the file was written (history)
    changes            \* made so far

settings == <<items, MatrixINI, StringINI, file, LogLevel, saved, changes>>

None == <<>>           \* no file

-----------------------------------------------------------------------------
(* CmValueINI::CmValueINI(): "<control>name:value" *)

\* Fault: the counter of a level below a value starts at the value.
DownOnValue(M, n) == M.count \o [i \in 1 .. n |-> 0]

\* '>': a level that holds a value already begins behind it.
Down(M, n) ==
    LET count == M.count \o [i \in 1 .. n |-> 0]
    IN  IF n <= M.isExtended THEN [count EXCEPT ![Len(count)] = @ + 1] ELSE count

\* '<': not above the first level.
Up(M, n) ==
    LET count == IF Len(M.count) > n THEN SubSeq(M.count, 1, Len(M.count) - n) ELSE M.count
    IN  [count EXCEPT ![Len(count)] = @ + 1]

\* '/': the next element of the first level.
NextTop(M) == IF M.count = <<>> THEN <<0>> ELSE <<M.count[1] + 1>>

Navigated(M, control, n) ==
    CASE control = "/" -> NextTop(M)
      [] control = ">" -> Down(M, n)
      [] control = "<" -> Up(M, n)
      [] OTHER         -> Up(M, 0)

\* A line of StringINI
LineINI(level, name, value) ==
    [i \in 1 .. level |-> ","] \o (IF name = <<>> THEN <<" ">> ELSE name)
        \o (IF value = <<>> THEN <<>> ELSE <<":">> \o value) \o <<"LF">>

-----------------------------------------------------------------------------
(* The list and a hierarchy *)

Processed(text) == ProcessStringFTL(Empty, text)

At0(s, address) == FindPosition(s.node, Start(s.node, s.X), address)

\* Fault: an item whose address is missing takes the text of the node where the
\* search for it has ended.
UpdateSettingsUnchecked(list, s) ==
    [ok   |-> TRUE,
     list |-> [i \in DOMAIN list |-> [list[i] EXCEPT !.text = s.node[At0(s, list[i].address).at].text]]]

\* updateSettings(): up to the first address that is missing.
UpdateSettings(list, s) ==
    FoldAlong(LAMBDA u, item :
               LET at == At0(s, item.address)
               IN  [ok   |-> u.ok /\ at.found,
                    list |-> Append(u.list, IF u.ok /\ at.found THEN [item EXCEPT !.text = s.node[at.at].text]
                                            ELSE item)],
             [ok |-> TRUE, list |-> <<>>], list)

Updated(list, text) == UpdateSettings(list, Processed(text))

\* syncSettings()
SyncSettings(list, s) ==
    [s EXCEPT !.node = FoldAlong(LAMBDA t, item :
                                  LET at == FindPosition(t, Start(t, s.X), item.address)
                                  IN  IF at.found THEN Stored(t, at.at, item.text) ELSE t,
                                s.node, list)]

\* serializeStringFTL(): dates the hierarchy at 0-0.
Dated(s) == LET at == At0(s, <<0, 0>>) IN IF at.found THEN Stored(s.node, at.at, Timestamp) ELSE s.node

-----------------------------------------------------------------------------
(* The calls *)

InitSettings ==
    /\ items = << [address |-> <<0>>, text |-> UURI] >>
    /\ MatrixINI = [count |-> <<>>, isExtended |-> 0]
    /\ StringINI = Append(UURI, "LF")
    /\ file = None /\ LogLevel = "None" /\ saved = <<>> /\ changes = 0

\* A further item of the list, also by a newer version of the program.  The
\* documented forms (CmValueFTL.h): the first one begins with '/', and '>>'
\* follows a value.
AddItem(control, n, name, value) ==
    LET count == Navigated(MatrixINI, control, n)
        hasValue == IF value = <<>> THEN 0 ELSE 1
    IN  /\ Len(items) <= MaxItems /\ (file # None => Len(items) < Len(saved) + MaxNewer)
        /\ MatrixINI.count = <<>> => control = "/"
        /\ control = ">" => n <= 1 + MatrixINI.isExtended
        /\ MatrixINI' = [count |-> count, isExtended |-> hasValue]
        /\ StringINI' = StringINI \o LineINI(Len(count), name, value)
        /\ items' = Append(items, IF value = <<>> THEN [address |-> <<0>> \o count, text |-> name]
                                  ELSE [address |-> <<0>> \o count \o <<0>>, text |-> value])
        /\ UNCHANGED <<file, LogLevel, saved, changes>>

\* operator=() of a setting
ChangeSetting(i, text) ==
    /\ changes < MaxChanges /\ i \in 2 .. Len(items)
    /\ items' = [items EXCEPT ![i].text = text]
    /\ changes' = changes + 1
    /\ UNCHANGED <<MatrixINI, StringINI, file, LogLevel, saved>>

\* setDefaultInfoFTL()
SetDefault ==
    /\ LogLevel # "Error" /\ changes > 0
    /\ items' = Updated(items, StringINI).list
    /\ UNCHANGED <<MatrixINI, StringINI, file, LogLevel, saved, changes>>

\* writeInfoFTL(): refused while an error is pending.
WriteInfo ==
    /\ LogLevel # "Error"
    /\ file' = Serialized(Dated(SyncSettings(items, Processed(StringINI))))
    /\ saved' = [i \in DOMAIN items |-> items[i].text]
    /\ UNCHANGED <<items, MatrixINI, StringINI, LogLevel, changes>>

\* No path, or the file cannot be written.
FailToWriteInfo ==
    /\ LogLevel # "Error" /\ LogLevel' = "Error"
    /\ UNCHANGED <<items, MatrixINI, StringINI, file, saved, changes>>

\* readInfoFTL(): the settings before a missing address are read.
ReadInfo ==
    /\ LogLevel # "Error" /\ file # None
    /\ \E u \in {Updated(items, file)} :
         /\ items' = u.list
         /\ LogLevel' = IF u.ok THEN "None" ELSE "Error"
    /\ UNCHANGED <<MatrixINI, StringINI, file, saved, changes>>

\* clearLogLevel()
ClearLogLevel ==
    /\ LogLevel = "Error" /\ LogLevel' = "None"
    /\ UNCHANGED <<items, MatrixINI, StringINI, file, saved, changes>>

Steps(control) == IF control \in {">", "<"} THEN 1 .. 2 ELSE {0}

\* Each item has its own name and value, as long as there are items.
NextSettings ==
    \/ \E control \in {"/", "", ">", "<"} : \E n \in Steps(control) :
         LET name  == [i \in 1 .. Len(items) |-> "t"]
             value == name \o <<"+">>
         IN  \/ AddItem(control, n, name, <<>>)
             \/ AddItem(control, n, name, value)
             \/ AddItem(control, n, <<>>, value)
    \/ \E i \in 2 .. MaxItems + 1, text \in NewTexts : ChangeSetting(i, text)
    \/ SetDefault \/ WriteInfo \/ FailToWriteInfo \/ ReadInfo \/ ClearLogLevel

-----------------------------------------------------------------------------
(* Properties *)

\* Every item finds its own text at its address in the hierarchy that the list
\* describes, whatever way the list takes through the levels ('/', '>', '>>',
\* '<' and none, with and without a value), and no two items share an address.
SettingsFound ==
    \E u \in {Updated(items, StringINI)} :
        /\ \A i, j \in DOMAIN items : i # j => items[i].address # items[j].address
        /\ u.ok
        /\ changes = 0 /\ file = None => u.list = items

\* Settings that were written are read as they were, all of them but the one at
\* 0-0, which is dated; a list that has become longer since fails at its first
\* new item, and keeps the texts of these.
SettingsRestored ==
    file # None =>
        \E u \in {Updated(items, file)} :
            /\ u.ok <=> Len(items) = Len(saved)
            /\ \A i \in DOMAIN items :
                 IF i <= Len(saved) THEN items[i].address = <<0, 0>> \/ u.list[i].text = saved[i]
                 ELSE u.list[i] = items[i]
=============================================================================
