# A verification development for FTLight

TLA+ modules of the program under `src/`: what they model, what TLC checks on
small instances, and what TLAPS proves for every value of the constants. All
line numbers are those of the files in `src/`.

## 1. The system

FTLight is a C++ library for Windows: "PlugNodes" (service objects) find each
other in one program, exchange text lines over streams, and reach other programs
through TCP gateways; FTLight is also the text format of the data they exchange,
keep in matrices, draw as charts and write to files. There is one example
application with a user interface.

### Inventory

| Component | Sources | State | Operations | Hard about it |
|---|---|---|---|---|
| **CmStream** | `Services/PlugNode/CmStream.*` | a circular window of bytes; write, read, wrap and search position; cached search result | `writeData`, `writeLine`, `isReadLine`, `readLine`, (un)register | addresses at the wrap; callbacks run inside a write and write again |
| **CmCommunication** | `CmCommunication.*` | the registered receiver | register, unregister, `processMessage` | a receiver comes or goes while lines wait |
| **CmServiceConnection** | `CmServiceConnection.*` | state IDLE/CHECKIN/CONNECT/CONFIRM/DISCONNECT, peer's address, stream in each direction | `openConnection`, `sendCommand`, `disconnect`, `switchToIdle` | a command is answered inside the call that sends it |
| **CmServiceAccess** | `CmServiceAccess.*` | four connections, one that is being switched, count of peers, search token, list of connections to delete | `joinNetwork`, `maintainNetwork` (CHECKIN, CONNECT, CONFIRM, SWITCH, CONTACT, DISCONNECT), `disconnectFromPeers`, `findServiceUURI`, `sendInfo` | nested handlers change the connections the outer ones use; searches of several threads |
| **CmPlugNode** | `CmPlugNode.*` | the contact PlugNode of the program, counter of contact IDs | creation with check-in at the contact, deletion | the contact itself may be deleted first |
| **CmParallelFTL** | `FTLight/CmStringFTL.cpp:55-345` | thread handle, three flags, critical section; a global logger | `startParallel`, `stopParallel`, `isRunningParallel`, `enter/leaveSerialize`, `log`, `writeLog` | flags and handle are shared without a lock; timeouts |
| **CmGateway** | `CmGateway.*`, `CmGatewayLAN.*` | list of gateway connections under one lock, sockets, recipient of the last query | `sendInfo`, `sendInfoToGateway`, accept thread, connection threads, clean-up, shutdown | connections are deleted while others use them; threads block in `accept` and `recv` |
| **FTLight codec** | `FTLight/CmStringFTL.*` | a hierarchy of nodes in rings; the path the last line has left | lines in, text and XML out, addresses that find or create, escapes, BinX, BinMCL, BinDIF | what a line means depends on the ones before it; lengths that coincide |
| **FTLight values** | `FTLight/CmValueFTL.*` | matrices of any depth that own texts; one value in the format it was last read in | `setValue`, `getValue`, `clearMatrix`, conversions, charts, long numbers, lists of settings | a level replaces a value; texts are released by hand; a read converts in place |
| **CmFileFTL** | `FTLight/CmFileFTL.*` | the open file, its period, number and header; a stream of files | `writeData`, `readData`, `getNextFileFTL`, settings | folders that cannot be created; boundaries of periods; restart |
| **CmString**, **CmVector**, **CmUURI** | `Services/Basic/CmString.*`, `CmTypes.*` | text, a Unicode copy, counters of memory in use | assign, append, insert, cut; numbers, lines, words, UURIs | a text made of a part of itself |
| **CmDateTime**, **CmTimestamp** | `Services/Basic/CmTime.*` | - | time to text and back, dates | calendar |
| **CmBots** | `Bots/CmBots.*` | lazily created provider | service functions forwarded to the provider | pairing and order of locks |
| **CmEvent**, **CmException**, **CmReturn** | `Services/Basic/*` | - | - | - |
| **Drawing**, **AppCm** | `Services/Drawing/*`, `Apps/*` | - | charts, user interface | presentation |

How they interact: a PlugNode *is* a CmServiceAccess, which is a receiver
(CmCommunication) of the streams its CmServiceConnections own. A connection
writes to its own stream; the peer's connection is registered as receiver of that
stream. Everything in the local network is synchronous calls: `sendCommand` writes
a line, `writeLine` calls the receiver, the receiver sends commands in turn, and
all of this before the first call returns. Threads come in with CmParallelFTL: the
gateway's listener and one thread per gateway connection, which search the local
network (`findServiceUURI`) at the same time as the program's own thread.

The data side is sequential. A line of FTLight text becomes nodes of a hierarchy
(CmStringFTL); a CmValueFTL converts an item to a number and back, keeps values in
a matrix, gives settings an address in a hierarchy and writes that hierarchy to a
file; CmFileFTL appends rows of text to files named by time. All of them are made
of CmString, CmVector and CmTime.

### What makes each component correct

- CmStream: no byte is overwritten before it is read; every line is handed over
  once, whole and in order; the cached delimiter is never stale.
- Network of PlugNodes: links have two ends; the count of peers is the number of
  links; everybody is found from everywhere, whoever leaves; no call uses a
  deleted object; calls come to an end.
- Search: it finds exactly what links lead to, and ends.
- CmParallelFTL: a successful stop leaves nobody at work; a thread that is told to
  go down does.
- CmGateway: the list holds living connections only; a connection at work is not
  deleted and one that has finished is; the lock is never held for good; an
  information reaches the one it is for.
- Codec: every node is reached by its rings and by its address; what is written is
  read as it was, on each level of the conversion.
- Values: a matrix is a map from positions to values; a text is released once and
  not used after it; reading does not change what is read.
- CmFileFTL: an accepted row is on the disk once, where its time says; a stream of
  files leaves out none.
- Text and time: what is written of a number, an address or a time is read as it
  was; a text made of itself keeps its memory.

## 2. Modules and how they correspond to the code

| Module | Code | Used by |
|---|---|---|
| `LineChannel`, `CmStream`, `AttachedStream` | one stream and its receiver | `MCCmStream`, `MCAttachedStream`, `CmStream_proofs` |
| `PlugNodeNetwork` | joining, switching, leaving | itself, `PlugNodeStages` |
| `PlugNodeStages` | none: how far a call stack of the network is; its types | `PlugNodeNetwork_proofs` |
| `CmNetworkSearch` | `findServiceUURI()` | itself, `CmNetworkSearch_proofs` |
| `CmParallelFTL` | lifecycle of a thread | `ThreadsAndTexts_proofs` |
| `CmGateway` | list of connections, threads, shutdown | itself, `CmGateway_proofs` |
| `CmString`, `CmTime`, `CmBigNumber` | functions on text, time, long numbers | `MCText` |
| `CmBuffer` | memory of texts | `MCText`, `ThreadsAndTexts_proofs` |
| `FTLightLine`, `BinX` | items of a line; binary formats | `MCCodec` (part of `MCText`), `FTLightTree`, `ThreadsAndTexts_proofs` (texts of items) |
| `FTLightTree`, `CmValueINI` | hierarchy of nodes; settings | `MCTree`, `ThreadsAndTexts_proofs` (the hierarchy) |
| `CmVector`, `IndexedValues`, `CmMatrix` | vectors, matrix and what it implements | `CmChart`, `CmValueFTL_proofs` |
| `CmChart`, `CmValueFTL` | chart in a matrix; value converted in place | `MCMatrix`, `CmValueFTL_proofs` |
| `CmFileFTL` | data files | `MCFile`, `CmFileFTL_proofs` |
| `LeftFold` | none: a left fold that TLC evaluates in linear time | the modules on text, hierarchies and matrices |
| `NumberInduction` | none: induction over numbers, for the proofs | `ThreadsAndTexts_proofs`, `CmFileFTL_proofs`, `CmNetworkSearch_proofs`, `CmValueFTL_proofs`, `PlugNodeNetwork_proofs` |

### CmStream, LineChannel, AttachedStream

`CmStream` is one stream with the receiver registration of CmCommunication. The
variables have the names of the members (`DataWindow` is `window`; a position is
an integer, an address is `AddressOf(position)`). One call of `writeLine()` is a
frame of `calls` that goes through payload and delimiter, each of them
`Store`/`Reject` (`writeData()` up to its callback), `CheckIdle`/`CheckCallback`
(`isReadLine()` and who is registered), `ReadLine`, and `CallbackReturns`. A frame
at `handle` is a callback that has read its line: there `WriteLine` and the
registrations may happen, which is how calls nest. The three copy situations of
`writeData()`, the two pieces of `readLine()` and the two searches of
`isReadLine()` are operators of the same shape (`Stored`, `NextLine`, `Search1`,
`Search2`). Every receiver in the repository reads exactly one line first, so
`ReadLine` is part of the callback. A byte is a member of a small set, in which
`CR` and `LF` are the delimiter's.

`log`, `sent` and `received` are history variables: all bytes ever stored, the
lines whose delimiter was stored, the lines that were read.

`LineChannel` is the abstract promise: lines go in, the same lines come out in
order. `AttachedStream` is a CmStream whose receiver is registered from the start,
as between `openConnection()` and `disconnect()`; it implements `LineChannel` with
the two histories as refinement mapping.

### PlugNodeNetwork

All PlugNodes of a program with their connections. Objects are records in two
sequences in the order of their creation, pointers are indices and 0 is NULL; a
deleted object keeps its record with `isAlive = FALSE`, so that a use after
deletion can be seen. `todo` is the call stack: what remains to be done, the
innermost call first. An action takes the innermost call, does what the code does
up to the next call it makes, and pushes that call. So `JoinNetwork` is
`joinNetwork()` up to `switchServiceAccess()`; `SendCommand`, `WritePayload` and
`WriteLine` are `sendCommand()` with the two writes of `writeLine()`; the
`Receive...` actions are the branches of `maintainNetwork()`. A stream is
abstracted to its waiting lines (what CmStream is shown to do), and a line to
its command with the address it carries. The list `ShutDownConnections` is a
sequence, and `Kept` is what a walk leaves of it.

`crowded` is a history: more than five PlugNodes have lived at once. `Uncrowded`,
its contrary, is the condition under which no PlugNode has ever had to switch.
`PlugNodeStages` names the stages a call stack goes through as long as that holds:
at rest, at `joinNetwork()`, seven stages of a link in the making, two of a
CONTACT, ten of the destructors' calls and six of a link that is undone. Each says
what is on the stack and that everything else is settled; `NetworkInv` says that
the network is at one of them. `TypedInv`, at the end of that module, does without
the condition: it gives the types of members, pointers and calls.

### CmNetworkSearch

`findServiceUURI()` over the links of a network at rest: every symmetric graph on
the nodes, connected or not (that links have two ends is `LinksSymmetric` of
PlugNodeNetwork). Each thread has its nested calls; a step is one access to a
`SearchToken`: `Compare`, `Store`, `Ask` (which reads the member again, as line
608 does). The clock is later for every search.

### CmParallelFTL

One object, its owner and the threads it starts. Each step is one access to the
shared members, or several that nobody can tell apart from one. `at` of a thread
is its place in `StaticThreadStart()`; `isRunningParallel()` is two steps, handle
with exit code and then the flags, for the owner (`AskHandle`, `AskFlags`) as for
the thread itself (`CheckHandle`, `CheckFlags`). The flags nobody initialises have
any value at the start. `runParallel()` is the derived class's: it returns true,
returns false, or never returns.

### CmGateway

The list of connections, the one lock in front of it, and everybody who uses it
(`Worker`): senders in `sendInfoToGateway()`, the listening thread and the
destructor. `KeepList` is what all of them do with a new connection: create its
thread, store the handle, walk the list and delete what has finished
(`EnterCleanup`, `ExamineConnection`, `DeleteConnection`, `LeaveCleanup`), add it.
`RunParallel` is the thread of a connection, with the places of CmParallelFTL that
matter to the list. What `recv()`, `accept()`, `select()` and `send()` return is
any of what they may return. `client_socket` and `RecipientUURI` are the shared
members they are. `examined` (where a thread was when it was given up)
is a history.

### FTLightLine, BinX, FTLightTree

`FTLightLine` takes items from a line and escapes them; `BinX` is the conversion of
bytes and numbers to characters (31 bits in four characters, with base 216 for
groups) and of series to differences, where a character is its code. Both are
functions. `FTLightTree` is the object: nodes are records with `Parent`, `Child`
and `Sibling` as in the code, a pointer is an index; `ProcessStringFTL` takes a line
item by item with the same three pointers of `NaviX`; `GetPosition` creates what
an address names, `FindPosition` does not; `Serialized` and `XML` write, and `Serialize` leaves the
nodes it has encoded as `encodeTextX()` does, so that a later read does not convert
them. A loop of the code over a line is a fold over that line.

### CmValueINI

A list of settings counts their addresses while it is made (`AddItem` is the
constructor with its control characters), writes the text that describes the
hierarchy, and reads (`Updated`) and writes (`SyncSettings`) through a hierarchy
of `FTLightTree`.

### CmVector, CmMatrix, IndexedValues, CmChart, CmValueFTL

`CmVector` is what the template does to its elements when it grows, what the memory
behind its length held included. `CmMatrix` is a node with a scalar and a vector,
elements of which may be nodes: `SetValue`, `BeforeLastLevel`, `ClearMatrix`.
Texts are addresses in `memory`, so that a release and a use after it can be seen.
`IndexedValues` is the abstract promise, a map from positions to values, and
`ReadAt` of every position is the refinement mapping. `CmChart` is what the chart
functions store where in such a matrix; its history `missed` says that items were
looked at, or one was read, before the defaults were set. `CmValueFTL` is one value with
`DataFormat`, `TextX` and the number, which each read converts in place.

### CmString, CmTime, CmBigNumber, CmBuffer

Functions: numbers, addresses of the internet, lines, words, order, UURIs; time
as text, the calendar being the C library's; long decimal numbers as texts of
digits. `CmBuffer` is the memory of texts: `heap` are the blocks of `CmMemory`, a
text is `pText`, `Length` and `pUnicode`, and each call is one action that
allocates, copies and releases in the code's order. A release books out the bytes
that its caller says the block has: for a text and for its Unicode copy, those of the
text's length at that time. Two histories mark what the code gets wrong: `outlived`
(a Unicode copy was released after the text had got another length) and `overrun`
(`setAt()` has written behind a text shorter than the number). A text that is NULL
is `NoText` in `CmString`, which the comparisons tell from an empty one.

### CmFileFTL

The disk is a set of folders and the lines of each file; the object has the
provider's members. `Write` is `writeData()` of a row: which file is current, the
folders entered or created as far as `obstacle` lets them, identification line,
header, row. `Extended` are the file names with an extension: only these take a
sequence number, in other names `FileNumber` is 0. `GetNextFileFTL` walks the periods. `Restart` keeps the disk only.

### Modules for model checking

`MCText`, `MCTree` and `MCMatrix` hold parts that share no state. In each of them
one part moves at a time: their states are those of the parts, side by side, and
not their product. Nothing is lost, for the parts do not interact.

### Fault operators

A definition whose comment begins with "Fault:" is not part of a specification. It
is a version of the definition behind it as a plausible bug would have it; each
property is shown to be violated when the definition is replaced by its fault, so
no property holds by the shape of the model.

## 3. What is checked

| Run | Instance | Shows |
|---|---|---|
| `stream_window` | MCCmStream.cfg: window of 6 bytes, lines of 0, 1, 3 and 5 bytes, 16 bytes in all, 2 nested calls, receivers come and go | `TypeOK`, `PositionsOrdered`, `UnreadBytesKept`, `DelimiterFound`, `ReadsOneLine` |
| `stream_attached` | MCAttachedStream.cfg: window of 7 bytes, 20 bytes in all, 3 nested calls | `ImplementsChannel` (refinement), `EveryLineArrives` (liveness) |
| `network` | MCPlugNodeNetwork.cfg: up to 6 PlugNodes, created and deleted in every order; up to 14 while none leaves | `LinksSymmetric`, `OnlyLivingUsed`, `CommandsStayWhole`, `EveryCallReturns` (liveness); as long as never more than five have lived at once also `PeersCountedUncrowded`, `AddressesValidUncrowded`, `AllFoundUncrowded`; while none leaves `StaysConnected` |
| `search` | MCSearch.cfg: every graph on 4 nodes, 2 searches of one thread | `FoundIfConnected`, `SearchReturns` (liveness) |
| `parallel` | MCParallel.cfg: 3 starts, timeout of 2 steps, endless loop or 2 turns | `TypeOK`, `WorkerHasHandle`, `GoesDown` (liveness) |
| `gateway` | MCGateway.cfg: a sender, the listener and the destructor, 2 connections, any content of uninitialised flags | `ListAlive`, `RemovedOnlyIfFinished`, `IdleRemoved`, `LockFreed` (liveness) |
| `gateway_recipient` | MCGatewayRecipient.cfg | violation of `ForwardedToAddressee`: two connections that receive at once exchange their recipients |
| `text` | MCText.cfg: see bounds | `NumbersRead`, `PartsFound`, `ArithmeticAgrees`, `BuffersOwned`, `ItemSurvives`, `SeriesSurvives` |
| `text_quotient` | MCTextQuotient.cfg | violation of `QuotientAgrees`: 1000 / 1 is 1009 |
| `tree` | MCTree.cfg: 4 calls, the identification included, with 10 kinds of line and 3 addresses; 3 settings, a newer version with one more | `Navigable`, `Written`, `SettingsFound`, `SettingsRestored` |
| `matrix` | MCMatrix.cfg: three levels, a number and a text, memory for two texts; charts of two items | `TextsOwned`, `ImplementsIndexedValues` (refinement), `ChartShown`, `ReadsAgree` |
| `files` | MCFile.cfg: two levels of folders, one period, a name with an extension and one without, 2 rows, failures at the data folder, at the upper folder and at the file | `FilesWhole`, `StreamComplete` |

The two violations are behaviours of the code that a comment or a test of the
repository contradicts; `PROJECT.json` quotes them.

### Bounds

- *Stream.* Only offsets modulo the window matter to the addresses. 16 and 20
  bytes go round a window of 6 and 7 more than twice, so every operation meets
  every offset, with full, empty and nearly full windows; lines shorter than, as
  long as and longer than the free space occur. Two nested calls let a callback
  write while the outer delimiter is still to come, which is the only order in
  which nesting matters. The proofs (below) do away with these bounds for the
  stream's safety.
- *Network.* The contact has four connections, so the sixth PlugNode is the first
  that forces a switch. Six with deletions in every order covers each pattern of
  one switch with departures before and after it; fourteen without deletions has
  repeated and cascading switches, and from the ninth newcomer on they repeat:
  the four from the ninth to the twelfth are one round, and the next begins. The properties that end in `Uncrowded` are
  those that the first switch breaks; with twelve and more PlugNodes over time,
  six or more of them at once, others fail too (known deviations, below). Until
  the first switch the proofs do away with these bounds, and for the types without
  that condition.
- *Search.* Four nodes are the least with two circles that share a link; the second
  search meets the tokens of the first.
- *Threads.* Three starts give a former thread's flags twice; a timeout of two steps
  lets a thread finish before, between and after the looks of `stopParallel()`.
- *Gateway.* Two sockets give a connection that is added while the other is at any
  place of its thread, and a walk of the list that deletes its first, its last and
  both members. `MaxTrials = 0` retries a connection once.
- *Text.* Every text is made character by character, so all texts up to the bound
  occur: words of 6 characters (the fewest with two delimiters in a row between two
  parts and at both ends), names of 3 in three texts, components of a UURI of 2
  (each with its delimiters), numbers below `UINT64` = 4096, standing for 2^64, in
  blocks of one digit (`NumBillion` = 10, standing for 10^9), so that one, two and
  three blocks occur as they do in 20 digits. Long numbers have 4 and 2 digits of
  0, 1, 4 and 9, which is the least dividend whose rest is too short. Five steps of
  time reach leap years, month ends and both halves of a day.
- *Binary formats.* Fields of 8 bytes, which is a 64-bit number and twice the four
  characters of BinX with each remainder; series of 10 values with an absolute
  value after every `InsertAbsolute` = 4 differences, so that two of them are inserted;
  a group of 15 words, the only length there is.
- *Memory of texts.* Two texts of at most two characters, 4 blocks: as many as two
  texts with their Unicode copies need while one is replaced; `MaxOutlived` = 1 Unicode
  copy that outlives its length, for what is promised afterwards does not depend on how
  many there were. The two texts are alike (symmetry).
- *Tree.* Four calls, the first of which is the identification if there is to be a
  root: then a collection or an item, a line that continues, a call by address or the
  writing. The lines are one of each kind.
- *Matrix.* Two elements on the first level, one on each further one: enough for a
  value to become a scalar, a level to be entered and cleared, and a neighbour to
  stay. *Chart*: two items, each with or without its own style, in every order.
- *Files.* Two rows in the same or in different periods of two seconds, which is the
  only period (it can be set anew); tables with rows without a time; two levels of folders,
  of four seconds and of one; two names of which one has an extension; two numbers; a
  failure at the data folder, at the upper folder and at the file. The start and the end
  of a stream are set one by one, in every order. More levels, several periods, failures
  at the lowest folder, and a start or an end that moves the other one by the length of
  the stream are left to the proofs (below).

`CHECK_DEADLOCK FALSE` stands where the instance runs out of its bounds or the
program has nothing to do.

### Restrictions in properties

Some properties hold under a condition, which their comments give:

- `ItemSurvives` excludes line ends inside an item, at which the line is cut even
  if they are escaped, and a backslash at the end, which escapes the delimiter.
- `WrittenIsRead` (in `Written`) is for one identifier with paths, collections, comments and
  values (`Consists`). The code says of the writer "ToDo: complete all variants".
- `ArithmeticAgrees` divides only if `RestIsLong`; `QuotientAgrees` says it for all
  numbers, and is violated.
- `ReadsAgree` is for the reads a caller may rely on (`IsPromised`): not for a number
  that was assigned in another format and is read as 'uint64', nor for a text of a node
  while an older `TextX` is left. What is written of a value (`asStringFTL()`) is what was
  stored unless it is a float, which is written as nothing, or a uint64, which is written
  as hexadecimal digits (known deviations).
- `BuffersOwned` counts bytes as long as no Unicode copy has been released with another
  length than it was taken with, and promises nothing once `setAt()` has written behind
  a text.
- `PartsFound` states the order of texts for texts that are not NULL.
- `RowsFiled` (in `FilesWhole`): rows of all numbers share a file if its name has no
  extension.
- `ChartShown`: styles for all are shown if they were set, or if the defaults were set,
  which calls that look at the items earlier prevent (known deviations).
- `HeaderFirst` (in `FilesWhole`) is for rows in the order of their times with the
  same settings. A stream of files (`StreamComplete`) promises the rows that were
  there, of its own settings, when it began, in the levels that could be created.
- `TimesRead` and `DatesKept` (in `NumbersRead`) are for a machine in Central European
  Time, whose hour `getNanoSec()` adds.
- `RemovedOnlyIfFinished` lets a connection be given up before its thread begins.

### Fairness, and why the code justifies it

- `WF_vars(Step)` in AttachedStream and `WF_network(Step)` in PlugNodeNetwork (all
  variables but the history): once a thread has entered a call it goes on; nothing
  in these calls waits. Users are never obliged to call.
- `WF_vars(FindServiceUURI(s))`: each searching thread is scheduled.
- CmParallelFTL: the owner goes on with a call it has begun, and the operating
  system runs every thread. The return of `runParallel()` has *no* fairness,
  because `accept()` and `recv()` may block for ever; `GoesDown` has that case.
- `WF_vars(GoOn(w))` in CmGateway: whoever is inside the list or opens a connection
  goes on, for `select()` has a timeout. `SendLocked` is left out: `send()` waits for a
  peer that reads, with the lock held. `LockFreed` names that case.

### What the model of the threads assumes

`Overlaps = FALSE`: a thread is started only when the former ones have exited.
With two living threads of one object the flags of one are taken for the other's
and `WorkerHasHandle` does not hold; nothing in the repository says what a second
start means.

## 4. What is proved

Every theorem below holds for every value of the constants, under the assumptions
named. `PROJECT.json` lists them with the property of the runs that each states.

### The stream (`CmStream_proofs`)

For every window size, every set of bytes and lines, and every nesting depth, under
the assumption `PlainLines`: no line contains a CR (without it the code does not
keep its promise, see the known deviations).

- `StreamTypeCorrect`, `PositionsStayOrdered`, `UnreadBytesAreKept`,
  `DelimiterIsFound`: invariants; `EveryReadIsOneLine`: the action property.
- The inductive invariant is `StreamInv` in `CmStream.tla`. `UnreadBytesKept` needs
  `PositionsOrdered`, because only positions less than a window apart have
  different addresses (lemma `AddressesDistinct`); that the read position never
  passes the search position needs `DelimiterFound`; that a search which finds a CR
  has found a delimiter needs `DelimitersPaired`, which is where `PlainLines`
  comes in; and a callback has a line to read because of `CallbacksNest`.
- The argument is about three lemmas: `StoreKeepsUnread` (the three situations of
  `writeData()`), `SearchSucceeds`/`SearchFails` (the two searches around the wrap)
  and the two pieces of `readLine()`; every other step leaves the window alone.
- `StreamImplementsChannel`: a stream whose receiver is registered and whose lines
  fit into the window (`LinesFit`) implements `LineChannel`, initial states and each
  step. `LinesNeverRefused`: then `writeLine()` never fails, however deep the
  callbacks write. Both follow from `AttachedInv`: what is unread is what the calls
  in progress have stored, so a line is read before the next one is stored. The
  fairness of `LineChannel` stays with TLC (`EveryLineArrives`).

### The network (`PlugNodeNetwork_proofs`)

For any number of PlugNodes that are created and destroyed in any order, the
contact included, as long as never more than five live at once (`Uncrowded`):

- `NetworkInvInductive`: the invariant `NetworkInv` of `PlugNodeStages`. No property
  of the network between calls is inductive, because commands are answered inside
  the calls that send them: in between, a link has one end, a peer is counted on
  one side, and the stack holds the calls that will put this right. `NetworkInv`
  therefore says which calls remain. Five is what it needs: whoever joins has a
  free slot (lemma `FreeSlotExists`), because its confirmed connections have
  different peers (`Distinct`) and only three others are left.
- `PeersAlwaysCounted`, `LinksAlwaysSymmetric`, `AddressesAlwaysValid`,
  `AllAlwaysFound`: what holds when all calls have returned. The last one is about
  `Star`: every PlugNode that came after the contact has it as a peer, so a search
  finds the contact in its first round and everybody in its second.
- `OnlyLivingAlwaysUsed`, `CommandsAlwaysWhole`: what holds at every step, at any
  depth of calls.
- The argument has one lemma for each stage and step, in the order of the code:
  what a step leaves alone (`SettledKept`, `StarKept`, `CountedChange`), sending,
  writing and reading a line (`SendEffect`, `TellEffect`, `ReadEffect`), the
  making of a link, `joinNetwork()`, the undoing of a link, the destructors.

For any number of PlugNodes at once, switches included:

- `NetworkAlwaysTyped`: the type invariant. `NullAlwaysAvoided`: no call follows a
  NULL pointer, and a receiver that is called finds a line, its own connection and its
  PlugNode; beyond five at once these may have been deleted (known deviations), but
  they were created. Neither is in a run: the theorems say more.
- Types alone are not inductive here either: `processMessage()` reads the first line of
  its stream and `maintainNetwork()` sends on the connection it is registered with,
  and nothing in either's type says that there is one. `TypedInv` therefore says
  that a receiver is only ever called as the next thing, while the stream has a line
  and a registration; every other call on the stack needs nothing but its type.

### The search (`CmNetworkSearch_proofs`)

- `SearchFinds`: one thread that searches finds the service exactly if links lead to
  it, in a network of every size and shape, whatever tokens earlier searches have
  left. The assumption `OneSearcher` is what the code has left to do ("ToDo: serialize
  network search/maintenance", `CmServiceAccess.cpp:41`); without it the searches
  disturb each other, see the known deviations.
- `SearchInv` says that a node whose token is set has been compared, and that its
  peers have been seen or will be asked by a call that is still open. At the end no
  call is open, so what has been seen is closed under peers, and `Reached()` is the
  least such set (lemma `ReachedRounds` and those around it).

### Threads (`ThreadsAndTexts_proofs`)

For every number of starts, every timeout and every set of loop counts, if threads
do not overlap:

- `ParallelTypeCorrect` and `WorkersKeepHandles`, from the inductive invariant
  `ParallelInv`: only the last thread lives; outside of `startParallel()` the handle
  is its handle or none; a thread in its loop finds the flags it has reset itself;
  behind its test of the handle it has the handle; and `stopParallel()` closes no
  handle while a thread is behind its test of the shutdown flag. The last part
  holds because the flag is set before the handle is looked at.

### The gateway (`CmGateway_proofs`)

For every number of senders, sockets and information items:

- `ListAlwaysAlive`, `WorkingNotRemoved`, `FinishedRemoved`, from `GatewayInv`: who
  walks the list has the lock; a connection is in the list once, or is its
  creator's; and of the connections a walk found finished, those it has not passed
  yet are ahead of it in the list and still finished. That the deletion of one
  element moves the others up is lemma `RemoveAtProperties`.

### The data files (`CmFileFTL_proofs`)

For all units of folders, times, names, headers, failures of the disk and numbers
of rows:

- `FilesStayWhole` (every accepted row is on the disk once, in the file of its time and,
  if the name has an extension, of its number), `StreamsAreComplete` and the types (`FileTypes`), under
  `PeriodsApart`: the periods that one provider is used with name their files at
  different levels, and no two of them give the same number to the times of two
  rows. That is what a provider with one period does, and one with hours and days and
  times of the Unix era (days are below 30000, hours above 300000). Without it the
  code writes a row into the file of another period, see the known deviations.
- `CmFileAssumption` says of the units what the tables of `CmFileFTL.cpp:43-51` have:
  no unit is longer than its period, and the last period is one second.
- `FileInv` has three parts. `FilesOk` and `Places`: each file has the name that the
  period and the time of its first line give, each of its rows belongs there, no line
  is in two places. `OpenOk`: the file that is open is one that `TimeIndex`
  names, and it holds the last row; therefore the header that was written last
  (`Announced`) is the last one in that file. `StreamOk`: what a stream owes and has not
  read is in a file whose period is still ahead.
- A file has its name from the time even if a folder could not be made: then its
  prefix is one level deeper than its folder (`IsFileOf`), so it cannot be taken for a
  file in its right place. Which row a name belongs to is lemma
  `FileOfIs` and those around it (`UnitTellsApart`, `WholeFileOf`); `writeData()` is taken apart into two
  outcomes, nothing opened, or one row more at the end of one file.

### The matrix (`CmValueFTL_proofs`)

For every set of numbers, texts and indices, and levels of any depth. Assumed
(`MatrixAssumption`): stored numbers are not zero, which a matrix does not tell from
no value; no text has the address NULL; an index is empty before one was given, and
`findScalarItem()` addresses the first level.

- `TextsAreOwned`: no text is used after its release, none has two owners.
- `MatrixKeepsAValuePerPosition`: the matrix implements `IndexedValues`, each step
  being a store at one position, the removal of a level, or no change.
- The inductive invariant `MatrixInv` is about the shape of the tree and whose the
  texts are. `IsTree`: an element has format "MATRIX" exactly if there is a level at
  its position, every level hangs on another, the memory behind the length of a vector
  has no values (`IsVector`), and a vector is not longer than that of its formats.
  `Owned`: each position has a text of its own.
- The argument goes by `Held(n, p)`, the cell that has the value of position p: the
  scalar of the level at p, else an element one level up. `NewLevelIs` says that a
  value keeps its position when its element becomes a level, `TouchIs` that reading
  moves none, `SetValueIs` that a store moves no other, `ClearIs` what clearing takes
  away. `BeforeLastLevelIs` goes down the levels by induction over their number.
  `StepTaken` sums a step up as one of three outcomes, from which both theorems
  follow.

### Charts (`CmValueFTL_proofs`)

For every set of styles and any number of items and points. Assumed
(`ChartAssumption`): styles and points are not zero, which a chart does not tell from
one never set, and a style for all differs from "nothing".

- `ChartIsShown`: a reader finds the flags, styles and points that were set last. The
  styles for all are there exactly if they were set, or if the defaults were; that these
  are missed is known from the history `missed` alone, which the invariant ties to the
  first level: without styles for all it has elements exactly if items were looked at.
- `ChartInv` says place by place what is there (`AllHeld`: the flag of the drawing at
  the root, the styles for all one level down; `ItemHeld`: flag, styles, text and
  points of an item, two levels down and more), again by `Held`. So it does not
  matter whether a place has become a level since.
- `StorePuts` is `SetValueIs` with the levels on the way made first.
  `StoreAllWrites` sums up a list of stores, by induction over its length: each place
  has one of the values stored there, or the old one if there are none. What the
  calls write then follows from which places are equal (`DefaultsWritten`,
  `TextWritten`, `TextsWritten`, `LineWritten`, `BackgroundWritten`). Reading only
  makes levels (`ReadingGrows`).

### Memory of texts (`ThreadsAndTexts_proofs`), converted values (`CmValueFTL_proofs`)

- `BuffersAlwaysOwned`: for any number of texts and blocks and texts of any length,
  no two texts share a block, none is lost, and the books count the blocks in use. They
  count the bytes too until a Unicode copy outlives the length of its text; nothing is
  promised after a `setAt()` behind a text. `BuffersInv` says the same pointer by pointer,
  with cardinalities only in the books: of the blocks that are taken, and of their bytes
  as pairs of block and place.
- `ReadsAlwaysAgree`: for every set of numbers, a read gives the conversion of what
  was stored, however often the value has been converted in place, and what is written
  is what was stored, but for floats and uint64. `ConversionInv`
  adds that what a read leaves in the value is enough for every later read.
- These and the theorems about charts and the hierarchy are of the part's own
  specification (`SpecBuffers`, `SpecValue`, `SpecChart`, `SpecTree`); the runs check
  the same properties with the parts side by side in `MCText`, `MCMatrix` and
  `MCTree`, where each step is a step of one part or leaves it alone.

### The hierarchy of nodes (`ThreadsAndTexts_proofs`)

For every set of lines of the model's characters that end at their only LF, every
set of addresses and any number of calls (`TreeAssumption`):

- `HierarchyAlwaysNavigable`: what `addChild()`, `getChild()` and `findChild()` walk
  is closed and has every node; what `getPosition()` has made `findPosition()` finds
  at the same node; and what is found is not made again.
- The inductive invariant `TreeInv` has two parts. `IsHierarchy`: the links of the
  children of each node form a `Ring`, which `Children()` lists; every node but the
  first has a parent. `IsNavi`: the pointers of the navigation are nodes or none, the
  root is below the first node, and what it counts with are numbers.
- `RingIsChildren` says that a walk along a ring lists it, by induction over its
  steps; `AddChildOneMore` that a new node is the last of one ring and no other ring
  is touched. From then on only `Grown` is used: every node keeps its parent and its
  list of children becomes at most longer. So a place found earlier in a call stays.
- Addresses: `GetChildIs` is one level, `GetPositionIs` all of them; `MadeIsFound`
  and `FoundIsThere` compare both ways level by level (`WaysAgree`).
- Lines: each step of `receiveLineX()` keeps both parts (`CheckIs`, `RunIs`,
  `PutChildIs`, `ReceiveItemIs`), also when an item sends the navigation to a place
  that the line before has left; `NextItemIs` says that an item and the rest of the
  line are again characters, so this holds for a whole line (`ReceiveLineIs`).

### The text of an item (`ThreadsAndTexts_proofs`)

- `EveryTextSurvives`: a text of the model's characters, of any length, that is
  escaped by `encodeTextX()`, put between two delimiters, taken out of the line by
  `getNextItemX()` and decoded by `decodeTextX()` is what it was, and the delimiter is
  left over. The restrictions are those of `ItemSurvives`, of which this is the first
  part (`TextSurvives`).
- Encoder, decoder and reader are three folds. `EncodedChars` says where the encoder
  puts the character j of a text; `EncodedIsDecoded` and `TextIsRead` say, by
  induction over j, where the other two stand behind it: the decoder has written the
  first j characters, the reader has taken all that stands for them, has not stopped,
  and takes the next character as escaped only if the last one was a backslash. That is
  why a text that ends with one does not survive.

### How recursion is proved about

The prover cannot instantiate the library's induction theorems. `NumberInduction`
states induction about sets of numbers instead (`AllNumbers`, from the library's
fact that the order of the numbers is well-founded) and that a function can be
defined by recursion (`NumberRecursion`). So the rounds of `Reached`, the list that
`Kept` leaves and the end of a C string (`CString`) could be proved about. A fold
(`FoldAlong`) is a function chosen by its recursion: for each one a proof needs, a
lemma of its own shows that there is one (`RingwalkExists`, `ReaderExists`, ...).

### What is only model-checked

- Liveness (`EveryLineArrives`, `EveryCallReturns`, `SearchReturns`, `GoesDown`,
  `LockFreed`), because the prover does neither fairness nor `ENABLED`.
- The network once a PlugNode has had to switch: there most properties do not hold
  without bounds (known deviations); `StaysConnected`.
- `Written` of `FTLightTree`, `CmValueINI`, the binary and number formats and the
  functions on text and time: what is written, character by character, and read again.
  RECURSIVE operators are declared in `CmBigNumber` only, which no proof reaches.
- Data files where the periods of one provider are not apart: there `FilesWhole`
  does not hold (known deviations).

## 5. Known deviations

What the modelling has met. The first two are the violations among the runs;
the others can be seen by relaxing the named guard or condition.

- *Recipient of an information.* `RecipientUURI` is shared by the connection threads
  (`CmGateway.cpp:164`); run `gateway_recipient`.
- *Quotient.* A rest with fewer digits than zeros are left to append is taken for
  negative (`CmValueFTL.cpp:2599`), 1000 / 1 is 1009; run `text_quotient`. Division by
  zero is not refused.
- *Stream.* A single CR inside a line is taken for a delimiter, so the line does not
  arrive as written. A line whose payload fits and whose delimiter does not is
  rejected, its payload stays (`CmStream.cpp:172`) and is joined to the next line.
- *Network.* From the sixth PlugNode on, the first switch uses the newcomer's only
  connection twice and peers are counted wrongly (`CmServiceAccess.cpp:775`); after
  a switch and two departures a PlugNode may not be found. Random walks beyond the
  run's bounds (`MaxNodes` and `MaxGrown` 14) show two more: the contact hands on an
  address that a connection has kept from a deleted peer, which the newcomer then asks
  to join (`OnlyLivingUsed`; twelve PlugNodes over time: 2 to 5 join, 5 leaves, 6 to
  9 join, 8 leaves, 10 joins, 3 leaves, 11 joins, 6 leaves, 12 joins and is handed to
  3), and a confirmed connection whose peer has turned away (`LinksSymmetric`,
  fourteen).
- *Search.* Two threads that search at once overwrite each other's token
  (`CmServiceAccess.cpp:595-608`): one of them may miss what is there.
- *Threads.* A thread that runs before its handle is stored takes itself for stopped
  and never calls `runParallel()` (`CmStringFTL.cpp:95`). The three flags are not
  initialised, and a connection of the gateway may be deleted before its thread has
  reset them (`CmGateway.cpp:247`); what that thread then does with the object is
  undefined and not modelled.
- *Logger.* `log()` creates the global logger after an unlocked test
  (`CmStringFTL.cpp:244`) and keeps the lock at an early return (291); `writeLog()`
  deletes the logger without the lock (329).
- *Hierarchy.* The first item of a binary collection is written behind `=` and
  read as a checksum (`CmStringFTL.cpp:2275`, 4014). An item with an escaped line end
  is cut there. Writing calls `encodeTextX()` on the nodes, which resets their
  `DataFormat` (`CmStringFTL.cpp:912`): a node that was written is not converted when it
  is read as a number afterwards.
- *Texts.* `CmString(Length, Init)` has no NUL at its end; the memory pool tests
  `isInitMemory` without a lock (`CmString.h:276`); `a = a` reads memory it has
  released. `<`, `<=`, `>` and `>=` are false if the text or the argument is NULL
  (`CmString.cpp:1164`, 1187, 1210, 1233): a text that was never set is not below or equal
  to any text, and no text is above or equal to it, although an empty one that was set is
  in order. A Unicode copy is released with the length its text has then
  (`CmString.cpp:390`, 579) and not with its own: after a change of the length the books
  are wrong, and `releaseMemory()` may choose between `delete` and `delete[]` wrongly.
  `setAt()` and `getAt()` compare with `Length - sizeof(T)` (`CmString.cpp:740`), which is
  not below zero: in a text shorter than the number they write and read behind it.
- *Values.* `getValue()` of a text as a number clears the text. `asStringFTL()` writes
  nothing for a float (`CmValueFTL.cpp:2157`), so neither does `syncSettings()` (1600); a
  uint32 is written by way of int32 (2155), so numbers from 2^31 on become negative; a
  uint64 is written as hexadecimal digits.
- *Charts.* Comments promise that styles for all and flags are "always available"
  (`CmValueFTL.cpp:3004`, 3022, 3099). The defaults are set if the vector of the chart is
  empty; after `getItemCount()`, `getItemEnabled()`, `setItemEnabled()` or a read of an item it is
  not, and they never are: the drawing is not enabled and there are no styles for all until
  they are set.
- *Gateway.* `send()` waits under the lock of the list for a peer that does not read
  (`CmGatewayLAN.cpp:189`). A sender uses its new connection after it has put it on the
  list without the lock (261): another thread's clean-up may have deleted it.
- *Files.* A sequence number goes into a file name in front of its extension; without
  one all numbers share a file (`CmFileFTL.cpp:1002-1025`). `StreamLength_s` is initialised
  in nanoseconds (160-162) and multiplied by nanoseconds again where the other end of the
  stream is adjusted (820, 829): with that length the other end is years away on either
  side. (The model takes any length, positive or negative.) `putFTLightData()` drops the data set that opens a new period
  (`CmFileFTL.cpp:485-500`). An early return leaves the working directory inside the
  hierarchy. A row that goes back to an older file gets that file's header.
  `setFilePeriod()` (`CmFileFTL.cpp:560`) leaves the file open and `TimeIndex` as it
  is: a row whose time divided by the new period gives the same number is appended to
  the file of the old one. With `DefaultPeriod` 2 and times 1004 and 2008: write 1004,
  set the period to 4, write 2008, which goes behind 1004.

## 6. What is not modelled

- The logger, the providers of CmBots, the handing on of a query to another program.
- In the network: connections to other programs, the START command (nobody sends
  it), `reconnectNetwork()` (nobody calls it), and threads that join at the same
  time as others (the code's own note at `CmPlugNode.cpp:420`).
- The deletion of a CmParallelFTL object whose thread did not go down: what the
  thread does with it then has no defined outcome.
- Files: the working directory, a failing write, `getStartFiles()`,
  `putFTLightData()`, configuration files.
- Codec: checksums and the diagnosis of lines. Time zones other than Central European Time.
- Drawing and the application's user interface: presentation. CmEvent: a template
  that no code instantiates.

## 7. Plan

Done: the modules above; the proofs of the stream and its refinement, the network
until the first switch, the search of one thread, the threads, the gateway, the
memory of texts, the hierarchy of nodes, the text of an item, the values and the
data files; the types of the network for any number of PlugNodes. Left, most
important first:

1. The logger and the provider's locks as one more module.
2. Acquisition periods of `putFTLightData()`.

## 8. Running

    tlc -config MCCmStream.cfg MCCmStream.tla
    tlapm CmStream_proofs.tla

`PROJECT.json` lists the configuration and module of every run, the lines each
definition models, and the hazards the properties are for.
