------------------------------ MODULE CmFileFTL ------------------------------
(***************************************************************************)
(* The data files of PROVIDER_CmFileFTL (FTLight/CmFileFTL.cpp): rows of   *)
(* data are appended to the file of their time period, in a hierarchy of   *)
(* folders, and the files between two times are read again one by one.     *)
(*                                                                         *)
(* Folders and files are named by times: level i of a name is the number   *)
(* of units of that level that have passed.  The working directory, which  *)
(* an early return leaves inside the hierarchy, is not modelled: the path  *)
(* the program starts from is absolute.                                    *)
(***************************************************************************)
EXTENDS Integers, FiniteSets, Sequences

CONSTANTS
    Units,             \* of the levels of TimePeriodHierarchy, in seconds
    LevelPeriods,      \* a file of this period or a longer one is in this level
    DefaultPeriod,     \* of a file, if none has been set
    Times,             \* of the rows, in seconds
    FileNames, FilePeriods, SeqNums, Headers,
    Extended,          \* the names that have an extension
    Now,               \* the time at which a provider is created
    StreamLengths,     \* for setStartTime() and setEndTime() with adjustment;
                       \* 0: without
    Obstacles,         \* on the disk, see below
    None,
    MaxRows

ASSUME CmFileAssumption ==
    /\ Times \subseteq Nat \ {0} /\ Times # {}
    /\ FilePeriods \subseteq Nat /\ DefaultPeriod \in Nat \ {0} /\ SeqNums \subseteq Nat
    /\ Units \in Seq(Nat \ {0}) /\ LevelPeriods \in Seq(Nat) /\ Len(LevelPeriods) = Len(Units)
    /\ \A i \in DOMAIN Units : Units[i] <= LevelPeriods[i]
    /\ Units # <<>> /\ LevelPeriods[Len(Units)] = 1
    /\ None \notin Headers /\ Obstacles \subseteq 0 .. Len(Units) + 2
    /\ None \notin [dir : Seq(Nat), prefix : Seq(Nat), name : FileNames, seq : Nat]
    /\ Now \in Nat /\ StreamLengths \subseteq Int /\ MaxRows \in Nat
    /\ Extended \subseteq FileNames

VARIABLES
    disk,              \* the folders and the lines of the files
    object,            \* the members of the provider
    stream,            \* StartTime, EndTime and FileTime; what is due and what has been read
    rows               \* the rows for which writeData() has returned true

vars == <<disk, object, stream, rows>>

-----------------------------------------------------------------------------
(* Names *)

Path(time, k) == [i \in 1 .. k |-> time \div Units[i]]

\* enterSubDirectory() goes on while the files' period is shorter than the level's.
Depth(period) ==
    CHOOSE i \in DOMAIN LevelPeriods : /\ LevelPeriods[i] <= period
                                       /\ \A j \in 1 .. i - 1 : period < LevelPeriods[j]

\* What can go wrong on the disk: the data folder or a level cannot be created,
\* the file cannot be opened, or nothing.
Opening == Len(Units) + 1
Nothing == Len(Units) + 2

\* How many levels are entered: the result of enterSubDirectory() is ignored.
Entered(dirs, time, depth, isCreated, obstacle) ==
    CHOOSE k \in 0 .. depth :
        /\ \A i \in 1 .. k : Path(time, i) \in dirs \/ (isCreated /\ i # obstacle)
        /\ k < depth => Path(time, k + 1) \notin dirs /\ (isCreated => k + 1 = obstacle)

\* A sequence number is put in front of the extension of a name; a name without
\* one stays as it is.
FileNumber(name, seqNum) == IF name \in Extended THEN seqNum ELSE 0

\* The file of a period: its name has the part of the level that was not entered.
\* (No name of FileNames is that of another one with a number.)
FileAt(time, entered, depth, name, seqNum) ==
    [dir    |-> Path(time, entered),
     prefix |-> Path(time, IF entered < depth THEN entered + 1 ELSE depth),
     name   |-> name,
     seq    |-> FileNumber(name, seqNum)]

PeriodOf(o) == IF o.FilePeriod = 0 THEN DefaultPeriod ELSE o.FilePeriod

Aligned(time, period) == time - (time % period)

-----------------------------------------------------------------------------
(* Writing: a state is [disk, object, ok] *)

HeaderLine(header) == IF header = None THEN <<>> ELSE <<[kind |-> "header", header |-> header]>>

IdLine(time, period) == [kind |-> "id", time |-> Aligned(time, period), duration |-> period]

\* openTimePeriodFile() with _fCreate
OpenForWriting(s, time, seqNum, obstacle) ==
    LET period  == PeriodOf(s.object)
        start   == Aligned(time, period)
        depth   == Depth(period)
        entered == Entered(s.disk.dirs, start, depth, TRUE, obstacle)
        file    == FileAt(start, entered, depth, s.object.FileName, seqNum)
        dirs    == s.disk.dirs \cup {Path(start, i) : i \in 0 .. entered}
        set     == [s EXCEPT !.object.FilePeriod = period]
    IN  CASE <<>> \notin s.disk.dirs /\ obstacle = 0 -> [set EXCEPT !.ok = FALSE]
          [] ~(<<>> \notin s.disk.dirs /\ obstacle = 0) /\ obstacle = Opening ->
               [set EXCEPT !.disk.dirs = dirs, !.object.data_fd = None, !.ok = FALSE]
          [] ~(<<>> \notin s.disk.dirs /\ obstacle = 0) /\ obstacle # Opening ->
               LET opened == [set EXCEPT !.disk.dirs = dirs, !.object.data_fd = file,
                                         !.object.TimeIndex = start \div period]
                   lines  == <<IdLine(time, period)>> \o HeaderLine(s.object.ParentCollection)
               IN  IF file \in DOMAIN s.disk.files THEN opened
                   ELSE [opened EXCEPT !.disk.files = [f \in DOMAIN @ \cup {file} |-> IF f = file THEN lines ELSE @[f]],
                                       !.object.isNewHeader = FALSE]

\* Fault: the sequence number is not compared.
IsCurrentAnySeq(o, time, seqNum) == o.FilePeriod # 0 /\ o.TimeIndex = time \div o.FilePeriod

IsCurrent(o, time, seqNum) ==
    o.FilePeriod # 0 /\ o.TimeIndex = time \div o.FilePeriod /\ o.FileSeqNum = seqNum

NewHeader(o) == IF o.isNewHeader THEN HeaderLine(o.ParentCollection) ELSE <<>>

\* writeData() of a row
Write(s, time, seqNum, obstacle) ==
    LET ready  == IF IsCurrent(s.object, time, seqNum)
                  THEN IF s.object.data_fd # None THEN s ELSE OpenForWriting(s, time, seqNum, obstacle)
                  ELSE OpenForWriting([s EXCEPT !.object.FileSeqNum = seqNum, !.object.data_fd = None],
                                      time, seqNum, obstacle)
        file   == ready.object.data_fd
        header == NewHeader(ready.object)
        row    == [time |-> time, seq |-> seqNum, name |-> ready.object.FileName, period |-> ready.object.FilePeriod,
                   header |-> ready.object.ParentCollection, whole |-> Len(file.dir) = Len(file.prefix)]
    IN  IF ~ready.ok \/ file = None THEN [ready EXCEPT !.ok = FALSE]
        ELSE [ready EXCEPT !.disk.files[file] = @ \o header \o <<[kind |-> "row", n |-> 1 + Len(ready.rows)]>>,
                           !.object.isNewHeader = FALSE,
                           !.rows = Append(@, row)]

Current == [disk |-> disk, object |-> object, rows |-> rows, ok |-> TRUE]

Becomes(s) == disk' = s.disk /\ object' = s.object /\ rows' = s.rows

WriteData(time, seqNum, obstacle) ==
    /\ Len(rows) < MaxRows
    /\ Becomes(Write(Current, time, seqNum, obstacle))
    /\ UNCHANGED stream

\* writeData() of a matrix: rows without a time are left out, the first row that
\* cannot be written ends it.
WriteTable(header, times, obstacle) ==
    /\ Len(rows) + Cardinality({i \in DOMAIN times : times[i] # 0}) <= MaxRows
    /\ LET begun == IF header = None THEN Current
                    ELSE [Current EXCEPT !.object.ParentCollection = header, !.object.isNewHeader = TRUE]
           all[i \in 0 .. Len(times)] ==
               IF i = 0 THEN begun
               ELSE IF ~all[i - 1].ok \/ times[i] = 0 THEN all[i - 1] ELSE Write(all[i - 1], times[i], 0, obstacle)
       IN  Becomes(all[Len(times)])
    /\ UNCHANGED stream

CloseFTLightFile ==
    /\ object' = [object EXCEPT !.data_fd = None]
    /\ UNCHANGED <<disk, stream, rows>>

-----------------------------------------------------------------------------
(* Reading *)

\* The file of a time, if its folders and the file exist.
Found(time) ==
    LET period == PeriodOf(object)
        start  == Aligned(time, period)
        depth  == Depth(period)
        file   == FileAt(start, Entered(disk.dirs, start, depth, FALSE, Nothing), depth, object.FileName, 0)
    IN  IF <<>> \in disk.dirs /\ file \in DOMAIN disk.files THEN {file} ELSE {}

RowsIn(file) == {n \in DOMAIN rows : \E k \in DOMAIN disk.files[file] :
                                        disk.files[file][k] = [kind |-> "row", n |-> n]}

\* What readData() leaves behind, also of a file that was open for writing.
AfterReading(o, time) ==
    LET period == PeriodOf(o)
    IN  CASE <<>> \notin disk.dirs -> [o EXCEPT !.FilePeriod = period]
          [] <<>> \in disk.dirs /\ Found(time) = {} -> [o EXCEPT !.FilePeriod = period, !.data_fd = None]
          [] OTHER -> [o EXCEPT !.FilePeriod = period, !.data_fd = None, !.TimeIndex = time \div period]

ReadData(time) ==
    /\ object' = AfterReading(object, time)
    /\ UNCHANGED <<disk, stream, rows>>

\* What a stream of the files between two times is to return: the rows written
\* before, with the present settings, where they belong and without a number.
Due(start, end) ==
    {n \in DOMAIN rows : /\ rows[n].time \in start .. end /\ rows[n].whole
                         /\ rows[n].period = object.FilePeriod
                         /\ \E f \in DOMAIN disk.files :
                               f.name = object.FileName /\ f.seq = 0 /\ n \in RowsIn(f)}

Begin(start, end) ==
    stream' = [StartTime |-> start, EndTime |-> end, due |-> Due(start, end), read |-> {}, isEnd |-> FALSE,
               FileTime |-> IF object.FilePeriod > 0 THEN Aligned(start, object.FilePeriod) ELSE start]

\* setStartTime() and setEndTime(): with adjustment the other end moves too.  By
\* the length the application has set; the one it finds is in nanoseconds, which
\* are made again of it: what remains of the product in 64 bits, in seconds of 32
\* bits, puts the other end years away on either side.
SetStartTime(time, length) ==
    /\ Begin(time, IF length = 0 THEN stream.EndTime ELSE time + length)
    /\ UNCHANGED <<disk, object, rows>>

SetEndTime(time, length) ==
    /\ Begin(IF length = 0 THEN stream.StartTime ELSE time - length, time)
    /\ UNCHANGED <<disk, object, rows>>

\* Fault: the stream ends when the time behind the file has passed the end.
IsBehindEnd(fileTime, endTime, period) == fileTime > endTime

IsBehind(fileTime, endTime, period) == fileTime > endTime + period

\* getNextFileFTL(): the time is a period ahead of the file that has been read.
\* A period has been set: without one the time would not move.
GetNextFileFTL ==
    LET period == object.FilePeriod
        steps  == {k \in 0 .. (stream.EndTime + object.FilePeriod - stream.FileTime) \div period :
                     stream.FileTime + k * period <= stream.EndTime + object.FilePeriod}
        hits   == {k \in steps : Found(stream.FileTime + k * period) # {}}
        last   == IF hits # {} THEN CHOOSE k \in hits : \A j \in hits : k <= j
                  ELSE CHOOSE k \in steps : \A j \in steps : j <= k
        time   == stream.FileTime + last * period
        next   == IF steps = {} THEN stream.FileTime ELSE time + period
        isEnd  == IsBehind(next, stream.EndTime, object.FilePeriod)
    IN  /\ object.FilePeriod # 0
        /\ object' = IF steps = {} THEN object ELSE AfterReading(object, time)
        /\ stream' = [stream EXCEPT !.FileTime = next, !.isEnd = isEnd,
                                    !.read = IF isEnd THEN @ ELSE @ \cup UNION {RowsIn(f) : f \in Found(time)}]
        /\ UNCHANGED <<disk, rows>>

-----------------------------------------------------------------------------
(* Settings: a file that is open stays open, and a stream under way promises *)
(* nothing any more. *)

SetFileName(name) ==
    /\ object' = [object EXCEPT !.FileName = name]
    /\ stream' = [stream EXCEPT !.due = {}]
    /\ UNCHANGED <<disk, rows>>

SetFilePeriod(period) ==
    /\ object' = [object EXCEPT !.FilePeriod = period]
    /\ stream' = [stream EXCEPT !.due = {}]
    /\ UNCHANGED <<disk, rows>>

\* A provider: isNewHeader is not initialised.
NewObject(name, isNewHeader) ==
    [FileName |-> name, FilePeriod |-> DefaultPeriod, FileSeqNum |-> 0, TimeIndex |-> 0, data_fd |-> None,
     ParentCollection |-> None, isNewHeader |-> isNewHeader]

NewStream == [StartTime |-> Now, EndTime |-> Now, FileTime |-> Now, due |-> {}, read |-> {}, isEnd |-> FALSE]

\* The program ends and is started again.
Restart ==
    /\ \E name \in FileNames, isNewHeader \in BOOLEAN :
          object' = NewObject(name, isNewHeader) /\ stream' = NewStream
    /\ UNCHANGED <<disk, rows>>

Init ==
    /\ disk = [dirs |-> {}, files |-> <<>>] /\ rows = <<>>
    /\ \E name \in FileNames, isNewHeader \in BOOLEAN :
          object = NewObject(name, isNewHeader) /\ stream = NewStream

Next ==
    \/ \E t \in Times, seqNum \in SeqNums, o \in Obstacles : WriteData(t, seqNum, o)
    \/ \E h \in Headers \cup {None}, t \in Times, u \in Times \cup {0}, o \in Obstacles : WriteTable(h, <<t, u>>, o)
    \/ CloseFTLightFile
    \/ \E t \in Times : ReadData(t)
    \/ \E t \in Times, l \in StreamLengths \cup {0} : SetStartTime(t, l) \/ SetEndTime(t, l)
    \/ GetNextFileFTL
    \/ \E name \in FileNames : SetFileName(name)
    \/ \E period \in FilePeriods : SetFilePeriod(period)
    \/ Restart

Spec == Init /\ [][Next]_vars

-----------------------------------------------------------------------------
(* Properties *)

TypeOK ==
    /\ object.FilePeriod \in FilePeriods \cup {DefaultPeriod} /\ object.isNewHeader \in BOOLEAN
    /\ object.data_fd \in DOMAIN disk.files \cup {None} /\ object.ParentCollection \in Headers \cup {None}
    /\ Len(rows) <= MaxRows /\ stream.read \subseteq DOMAIN rows /\ stream.due \subseteq DOMAIN rows

\* A row that was accepted is on the disk once, in a file whose name covers its
\* time and has the number asked for, if it has an extension (rows of all numbers
\* share a file without one); the file begins with its only identification line,
\* which covers the time too unless a folder could not be created.  So it is
\* whatever was read, renamed, lost or restarted in between.
RowsFiled ==
    \A n \in DOMAIN rows :
        LET places == {p \in {<<f, k>> : f \in DOMAIN disk.files, k \in 1 .. 3 * MaxRows + 1} :
                          /\ p[2] \in DOMAIN disk.files[p[1]]
                          /\ disk.files[p[1]][p[2]] = [kind |-> "row", n |-> n]}
        IN  /\ Cardinality(places) = 1
            /\ \A p \in places :
                  LET file == p[1]
                      id   == disk.files[file][1]
                  IN  /\ file.prefix = Path(Aligned(rows[n].time, rows[n].period), Len(file.prefix))
                      /\ file.seq = FileNumber(file.name, rows[n].seq)
                      /\ id.kind = "id"
                      /\ \A k \in 2 .. Len(disk.files[file]) : disk.files[file][k].kind # "id"
                      /\ rows[n].whole => rows[n].time \in id.time .. id.time + id.duration - 1

\* A stream that has ended has returned every row that was there between its
\* start and its end when it began: the one at the very end is not left out.
StreamComplete == stream.isEnd => stream.due \subseteq stream.read

InOrder ==
    \A i \in DOMAIN rows, j \in DOMAIN rows :
        /\ i < j => rows[i].time <= rows[j].time
        /\ rows[i].whole
        /\ rows[i].period = rows[j].period /\ rows[i].name = rows[j].name /\ rows[i].seq = rows[j].seq

\* The header in force when a row was written is the last one in front of it in
\* its file, also behind a change of the file, an open that failed and a
\* restart, if the rows are written in the order of their times with the same
\* settings.  (A row that goes back to an older file gets the header of that
\* file: a new header is written to one file only.)
HeaderFirst ==
    InOrder =>
        \A file \in DOMAIN disk.files : \A k \in DOMAIN disk.files[file] :
            LET lines == disk.files[file]
            IN  lines[k].kind = "row" /\ rows[lines[k].n].header # None =>
                    \E j \in 1 .. k : /\ lines[j] = [kind |-> "header", header |-> rows[lines[k].n].header]
                                      /\ \A i \in j + 1 .. k : lines[i].kind # "header"

\* The data files hold every accepted row once, where its time, its header and,
\* in a name with an extension, its number say.
FilesWhole == RowsFiled /\ HeaderFirst
=============================================================================
