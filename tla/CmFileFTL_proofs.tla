-------------------------- MODULE CmFileFTL_proofs --------------------------
(***************************************************************************)
(* Data files stay whole and streams of them are complete, for all units   *)
(* of folders, periods, times, names, headers and failures of the disk.    *)
(*                                                                         *)
(* First arithmetic of times, then what names a period gives to files,     *)
(* then writeData() as an operation on the parts of a state, taken apart   *)
(* into its outcomes: nothing is opened, or one row becomes the last line  *)
(* of one file.  Each part of the invariant follows from that outcome; the *)
(* other actions change the object or the stream only.                     *)
(***************************************************************************)
EXTENDS CmFileFTL, NumberInduction, SequenceTheorems, FiniteSetTheorems, TLAPS

-----------------------------------------------------------------------------
(* What is assumed of the use of a provider *)

Periods == (FilePeriods \ {0}) \cup {DefaultPeriod}

\* The periods a provider is used with name their files at different levels, and
\* no two of them give the same number to the times of two rows.  (A file that is
\* open stays open when setFilePeriod() is called, and is taken for the file of
\* the new period where the numbers agree.)
PeriodsApart ==
    \A p, q \in Periods :
        p # q => Depth(p) # Depth(q) /\ \A t, u \in Times : t \div p # u \div q

-----------------------------------------------------------------------------
(* Types *)

Name == [dir : Seq(Nat), prefix : Seq(Nat), name : FileNames, seq : Nat]

HeaderOf(h) == [kind |-> "header", header |-> h]

RowLine(n) == [kind |-> "row", n |-> n]

IdLines == [kind : {"id"}, time : Nat, duration : Nat]
HeaderLines == [kind : {"header"}, header : Headers]
RowLines == [kind : {"row"}, n : Nat]

Line == IdLines \cup HeaderLines \cup RowLines

Row == [time : Times, seq : Nat, name : FileNames, period : Periods,
        header : Headers \cup {None}, whole : BOOLEAN]

Object == [FileName : FileNames, FilePeriod : FilePeriods \cup {DefaultPeriod}, FileSeqNum : Nat,
           TimeIndex : Int, data_fd : Name \cup {None}, ParentCollection : Headers \cup {None},
           isNewHeader : BOOLEAN]

IsFiles(fs) == DOMAIN fs \subseteq Name /\ fs \in [DOMAIN fs -> Seq(Line)]

-----------------------------------------------------------------------------
(* The invariant of the files *)

\* The file f has the name that a row of time t gets in a file of period p,
\* though folders may be missing.
IsFileOf(f, t, p) ==
    \E e \in 0 .. Depth(p) :
        /\ f.dir = Path(Aligned(t, p), e)
        /\ f.prefix = Path(Aligned(t, p), IF e < Depth(p) THEN e + 1 ELSE Depth(p))

Upto(path, i) == [j \in 1 .. i |-> path[j]]

\* Row r belongs into the file f that begins with id.
Filed(f, id, r) ==
    /\ IsFileOf(f, r.time, r.period) /\ f.seq = FileNumber(f.name, r.seq)
    /\ r.whole = (Len(f.dir) = Len(f.prefix))
    /\ r.whole => id = IdLine(r.time, r.period)

Identified(f, lines) == \E t \in Times, p \in Periods : IsFileOf(f, t, p) /\ lines[1] = IdLine(t, p)

FileOk(f, lines, rs, dirs) ==
    /\ Identified(f, lines)
    /\ Len(lines) >= 2 /\ Len(lines) <= 1 + 2 * Len(rs)
    /\ \A k \in 2 .. Len(lines) : lines[k].kind # "id"
    /\ \A k \in 1 .. Len(lines) : lines[k].kind = "row" => lines[k].n \in DOMAIN rs /\ Filed(f, lines[1], rs[lines[k].n])
    /\ \E k \in 1 .. Len(lines) : lines[k].kind = "row" /\ rs[lines[k].n].name = f.name
    /\ \A i \in 0 .. Len(f.dir) : Upto(f.dir, i) \in dirs

FilesOk(fs, rs, dirs) == \A f \in DOMAIN fs : FileOk(f, fs[f], rs, dirs)

Placed(fs, n) == \E f \in DOMAIN fs : \E k \in 1 .. Len(fs[f]) : fs[f][k] = RowLine(n)

PlacedOnce(fs, n) ==
    \A f, g \in DOMAIN fs : \A k \in 1 .. Len(fs[f]), j \in 1 .. Len(fs[g]) :
        fs[f][k] = RowLine(n) /\ fs[g][j] = RowLine(n) => f = g /\ k = j

Places(fs, rs) == \A n \in DOMAIN rs : Placed(fs, n) /\ PlacedOnce(fs, n)

\* The file that is open is the one of the last row.
HoldsLast(lines, rs) == rs # <<>> /\ \E k \in 1 .. Len(lines) : lines[k] = RowLine(Len(rs))

OpenOk(o, fs, rs) ==
    o.data_fd # None =>
        /\ o.data_fd \in DOMAIN fs /\ o.data_fd.seq = FileNumber(o.data_fd.name, o.FileSeqNum)
        /\ \E t \in Times, p \in Periods : IsFileOf(o.data_fd, t, p) /\ o.TimeIndex = t \div p
        /\ HoldsLast(fs[o.data_fd], rs)

-----------------------------------------------------------------------------
(* The invariant of the headers *)

Ordered(rs) ==
    \A i \in DOMAIN rs, j \in DOMAIN rs :
        /\ i < j => rs[i].time <= rs[j].time
        /\ rs[i].whole
        /\ rs[i].period = rs[j].period /\ rs[i].name = rs[j].name /\ rs[i].seq = rs[j].seq

\* h is the last header among the first k lines.
LastHeader(lines, k, h) ==
    \E j \in 1 .. k : lines[j] = HeaderOf(h) /\ \A i \in j + 1 .. k : lines[i].kind # "header"

Headed(lines, rs) ==
    \A k \in 1 .. Len(lines) :
        lines[k].kind = "row" /\ rs[lines[k].n].header # None => LastHeader(lines, k, rs[lines[k].n].header)

HeadersOk(fs, rs) == \A f \in DOMAIN fs : Headed(fs[f], rs)

\* A header that need not be written any more is the last one in the file of
\* the last row.
Announced(o, fs, rs) ==
    o.ParentCollection # None /\ ~o.isNewHeader =>
        /\ rs # <<>>
        /\ \A f \in DOMAIN fs : HoldsLast(fs[f], rs) => LastHeader(fs[f], Len(fs[f]), o.ParentCollection)

Good(dirs, fs, o, rs) ==
    /\ IsFiles(fs) /\ o \in Object /\ rs \in Seq(Row)
    /\ FilesOk(fs, rs, dirs)
    /\ Places(fs, rs)
    /\ OpenOk(o, fs, rs)
    /\ Ordered(rs) => HeadersOk(fs, rs) /\ Announced(o, fs, rs)

GoodDisk == disk = [dirs |-> disk.dirs, files |-> disk.files] /\ Good(disk.dirs, disk.files, object, rows)

-----------------------------------------------------------------------------
(* The invariant of the stream *)

Ahead(n) ==
    /\ rows[n].period = object.FilePeriod /\ rows[n].whole
    /\ rows[n].time <= stream.EndTime
    /\ \E f \in DOMAIN disk.files : f.name = object.FileName /\ f.seq = 0 /\ n \in RowsIn(f)
    /\ n \in stream.read \/ Aligned(rows[n].time, object.FilePeriod) >= stream.FileTime

StreamTyped ==
    /\ stream.StartTime \in Int /\ stream.EndTime \in Int /\ stream.FileTime \in Int
    /\ stream.isEnd \in BOOLEAN /\ stream.due \subseteq DOMAIN rows /\ stream.read \subseteq DOMAIN rows
    /\ stream = [StartTime |-> stream.StartTime, EndTime |-> stream.EndTime, due |-> stream.due,
                 read |-> stream.read, isEnd |-> stream.isEnd, FileTime |-> stream.FileTime]

StreamOk ==
    /\ StreamTyped
    /\ stream.due # {} => object.FilePeriod # 0 /\ stream.FileTime % object.FilePeriod = 0
    /\ \A n \in stream.due : Ahead(n)
    /\ stream.isEnd => stream.due \subseteq stream.read

FileInv == GoodDisk /\ StreamOk /\ Len(rows) <= MaxRows
-----------------------------------------------------------------------------
(* Numbers *)

LEMMA Division ==
    ASSUME NEW t \in Int, NEW p \in Nat \ {0}
    PROVE  /\ t \div p \in Int /\ t % p \in 0 .. p - 1
           /\ t = p * (t \div p) + (t % p)
OBVIOUS

LEMMA DivisionOfNat ==
    ASSUME NEW t \in Nat, NEW p \in Nat \ {0}
    PROVE  t \div p \in Nat
OBVIOUS

LEMMA OneQuotient ==
    ASSUME NEW p \in Nat \ {0}, NEW a \in Int, NEW b \in Int, NEW r \in 0 .. p - 1, NEW s \in 0 .. p - 1,
           p * a + r = p * b + s
    PROVE  a = b /\ r = s
OBVIOUS

\* A number has one quotient and one rest.
LEMMA QuotientIs ==
    \A p \in Nat \ {0} : \A a, t \in Int : \A r \in 0 .. p - 1 :
        t = p * a + r => t \div p = a /\ t % p = r
<1> SUFFICES ASSUME NEW p \in Nat \ {0}, NEW a \in Int, NEW t \in Int, NEW r \in 0 .. p - 1, t = p * a + r
             PROVE  t \div p = a /\ t % p = r
  OBVIOUS
<1>1. /\ t \div p \in Int /\ t % p \in 0 .. p - 1
      /\ t = p * (t \div p) + (t % p)
  BY Division
<1> QED  BY <1>1, OneQuotient

LEMMA Multiple ==
    \A p \in Nat \ {0} : \A a \in Int : p * a \in Int /\ (p * a) \div p = a /\ (p * a) % p = 0
<1> SUFFICES ASSUME NEW p \in Nat \ {0}, NEW a \in Int
             PROVE  p * a \in Int /\ (p * a) \div p = a /\ (p * a) % p = 0
  OBVIOUS
<1>1. p * a \in Int /\ p * a = p * a + 0 /\ 0 \in 0 .. p - 1
  OBVIOUS
<1> QED  BY <1>1, QuotientIs

LEMMA LargerQuotient ==
    ASSUME NEW t \in Int, NEW u \in Int, t <= u, NEW p \in Nat \ {0}
    PROVE  t \div p <= u \div p
OBVIOUS

\* Aligned() gives the last multiple of the period.
LEMMA AlignedIs ==
    ASSUME NEW t \in Int, NEW p \in Nat \ {0}
    PROVE  /\ Aligned(t, p) \in Int /\ Aligned(t, p) <= t /\ t < Aligned(t, p) + p
           /\ Aligned(t, p) = p * (t \div p)
           /\ Aligned(t, p) % p = 0 /\ Aligned(t, p) \div p = t \div p
<1>1. /\ t \div p \in Int /\ t % p \in 0 .. p - 1
      /\ t = p * (t \div p) + (t % p)
  BY Division
<1> PICK q, r : q = t \div p /\ r = t % p
  OBVIOUS
<1>2. q \in Int /\ r \in 0 .. p - 1 /\ t = p * q + r
  BY <1>1
<1>3. p * q \in Int
  BY <1>2
<1>4. Aligned(t, p) = t - r
  BY DEF Aligned
<1>5. Aligned(t, p) = p * q
  BY <1>2, <1>3, <1>4
<1>6. (p * q) \div p = q /\ (p * q) % p = 0
  BY <1>2, Multiple
<1>7. Aligned(t, p) % p = 0 /\ Aligned(t, p) \div p = q
  BY <1>5, <1>6
<1>8. Aligned(t, p) \in Int /\ Aligned(t, p) <= t /\ t < Aligned(t, p) + p
  BY <1>2, <1>4
<1> QED  BY <1>5, <1>7, <1>8

LEMMA AlignedNat ==
    ASSUME NEW t \in Nat, NEW p \in Nat \ {0}
    PROVE  Aligned(t, p) \in Nat
<1>0. t \in Int
  OBVIOUS
<1>1. t % p \in 0 .. p - 1 /\ t \div p \in Nat /\ t = p * (t \div p) + (t % p)
  BY <1>0, Division, DivisionOfNat
<1> PICK q, r : q = t \div p /\ r = t % p
  OBVIOUS
<1>2. q \in Nat /\ r \in 0 .. p - 1 /\ t = p * q + r
  BY <1>1
<1>3. p * q \in Nat
  BY <1>2
<1>4. Aligned(t, p) = t - r
  BY DEF Aligned
<1> QED  BY <1>2, <1>3, <1>4

\* Two times of the same period, when the quotients by it agree.
LEMMA SameAligned ==
    ASSUME NEW t \in Int, NEW u \in Int, NEW p \in Nat \ {0}, t \div p = u \div p
    PROVE  Aligned(t, p) = Aligned(u, p)
BY AlignedIs

\* Two times aligned to a period are the same or at least a period apart.
LEMMA AlignedApart ==
    ASSUME NEW t \in Int, NEW u \in Int, NEW p \in Nat \ {0}, t % p = 0, u % p = 0
    PROVE  t = u \/ t + p <= u \/ u + p <= t
<1>1. /\ t \div p \in Int /\ t = p * (t \div p) + 0 /\ u \div p \in Int /\ u = p * (u \div p) + 0
  BY Division
<1> PICK a, b : a = t \div p /\ b = u \div p
  OBVIOUS
<1>2. a \in Int /\ b \in Int /\ t = p * a /\ u = p * b
  BY <1>1
<1>3. CASE a = b
  BY <1>2, <1>3
<1>4. CASE a + 1 <= b
  <2>1. PICK d \in Nat : b = a + 1 + d
    <3>1. b - a - 1 \in Nat /\ b = a + 1 + (b - a - 1)
      BY <1>2, <1>4
    <3> QED  BY <3>1
  <2>2. p * b = p * a + p + p * d /\ p * d \in Nat
    BY <1>2, <2>1
  <2> QED  BY <1>2, <2>2
<1>5. CASE b + 1 <= a
  <2>1. PICK d \in Nat : a = b + 1 + d
    <3>1. a - b - 1 \in Nat /\ a = b + 1 + (a - b - 1)
      BY <1>2, <1>5
    <3> QED  BY <3>1
  <2>2. p * a = p * b + p + p * d /\ p * d \in Nat
    BY <1>2, <2>1
  <2> QED  BY <1>2, <2>2
<1> QED  BY <1>2, <1>3, <1>4, <1>5

\* A unit that is not longer than the period tells aligned times apart.
LEMMA UnitTellsApart ==
    ASSUME NEW t \in Int, NEW u \in Int, NEW p \in Nat \ {0}, t % p = 0, u % p = 0,
           NEW q \in Nat \ {0}, q <= p, t \div q = u \div q
    PROVE  t = u
<1>1. t \div q \in Int /\ t % q \in 0 .. q - 1 /\ u % q \in 0 .. q - 1
      /\ t = q * (t \div q) + (t % q) /\ u = q * (u \div q) + (u % q)
  BY Division
<1> PICK m, a, b : m = q * (t \div q) /\ a = t % q /\ b = u % q
  OBVIOUS
<1>2. m \in Int /\ a \in 0 .. q - 1 /\ b \in 0 .. q - 1 /\ t = m + a /\ u = m + b
  BY <1>1
<1>3. t = u \/ t + p <= u \/ u + p <= t
  BY AlignedApart
<1> QED  BY <1>2, <1>3

\* The multiples of the period behind an aligned time.
LEMMA AlignedStep ==
    ASSUME NEW t \in Int, NEW p \in Nat \ {0}, t % p = 0, NEW k \in Int
    PROVE  (t + k * p) % p = 0 /\ t + k * p \in Int
<1>1. t \div p \in Int /\ t = p * (t \div p) + 0
  BY Division
<1> PICK a : a = t \div p
  OBVIOUS
<1>2. a \in Int /\ t = p * a
  BY <1>1
<1>3. t + k * p = p * (a + k) /\ a + k \in Int /\ t + k * p \in Int
  BY <1>2
<1>4. (p * (a + k)) % p = 0
  BY <1>3, Multiple
<1> QED  BY <1>3, <1>4

LEMMA AlignedAhead ==
    ASSUME NEW t \in Int, NEW u \in Int, NEW p \in Nat \ {0}, t % p = 0, u % p = 0, t <= u
    PROVE  \E k \in Nat : u = t + k * p
<1>1. /\ t \div p \in Int /\ t = p * (t \div p) + 0 /\ u \div p \in Int /\ u = p * (u \div p) + 0
  BY Division
<1>2. t \div p <= u \div p
  BY LargerQuotient
<1> PICK a, b : a = t \div p /\ b = u \div p
  OBVIOUS
<1>3. a \in Int /\ b \in Int /\ t = p * a /\ u = p * b /\ a <= b
  BY <1>1, <1>2
<1> PICK k : k = b - a
  OBVIOUS
<1>4. k \in Nat /\ b = a + k
  BY <1>3
<1>5. u = t + k * p
  BY <1>3, <1>4
<1> QED  BY <1>4, <1>5

-----------------------------------------------------------------------------
(* Names *)

LEMMA PeriodIs ==
    ASSUME NEW p \in Periods
    PROVE  p \in Nat \ {0}
BY CmFileAssumption DEF Periods

LEMMA UnitIs ==
    ASSUME NEW i \in 1 .. Len(Units)
    PROVE  Units[i] \in Nat \ {0} /\ LevelPeriods[i] \in Nat /\ Units[i] <= LevelPeriods[i]
           /\ i \in DOMAIN Units /\ i \in DOMAIN LevelPeriods
<1>1. DOMAIN Units = 1 .. Len(Units) /\ DOMAIN LevelPeriods = 1 .. Len(Units)
  BY CmFileAssumption
<1> QED  BY <1>1, CmFileAssumption

\* Every period has a level, the unit of which is not longer.
LEMMA DepthIs ==
    ASSUME NEW p \in Nat \ {0}
    PROVE  Depth(p) \in 1 .. Len(Units) /\ Units[Depth(p)] \in Nat \ {0} /\ Units[Depth(p)] <= p
<1> DEFINE N == {i \in DOMAIN LevelPeriods : LevelPeriods[i] <= p}
<1>1. DOMAIN LevelPeriods = 1 .. Len(Units) /\ Len(Units) \in Nat \ {0} /\ \A i \in 1 .. Len(Units) : LevelPeriods[i] \in Nat
  BY CmFileAssumption, UnitIs
<1>2. N \in SUBSET Nat /\ Len(Units) \in N
  BY <1>1, CmFileAssumption
<1>3. PICK i \in N : \A j \in N : i <= j
  BY <1>2, FirstOfNumbers
<1>4. i \in DOMAIN LevelPeriods /\ LevelPeriods[i] <= p /\ \A j \in 1 .. i - 1 : p < LevelPeriods[j]
  <2>1. ASSUME NEW j \in 1 .. i - 1
        PROVE  p < LevelPeriods[j]
    <3>1. j \in 1 .. Len(Units) /\ j \notin N
      BY <1>1, <1>3
    <3> QED  BY <1>1, <3>1
  <2> QED  BY <1>3, <2>1
<1>5. Depth(p) \in DOMAIN LevelPeriods /\ LevelPeriods[Depth(p)] <= p
  BY <1>4 DEF Depth
<1> PICK d : d = Depth(p)
  OBVIOUS
<1>6. Units[d] \in Nat \ {0} /\ LevelPeriods[d] \in Nat /\ Units[d] <= LevelPeriods[d]
  BY <1>1, <1>5, UnitIs
<1> QED  BY <1>1, <1>5, <1>6

LEMMA PathIs ==
    ASSUME NEW t \in Nat, NEW k \in 0 .. Len(Units)
    PROVE  /\ Path(t, k) \in Seq(Nat) /\ Len(Path(t, k)) = k
           /\ \A i \in 1 .. k : Path(t, k)[i] = t \div Units[i]
           /\ \A i \in 0 .. k : Upto(Path(t, k), i) = Path(t, i)
<1>1. \A i \in 1 .. k : t \div Units[i] \in Nat
  <2> TAKE i \in 1 .. k
  <2>1. Units[i] \in Nat \ {0}
    BY CmFileAssumption, UnitIs
  <2> QED  BY <2>1, DivisionOfNat
<1>2. k \in Nat
  BY CmFileAssumption
<1>3. Path(t, k) = [i \in 1 .. k |-> t \div Units[i]]
  BY DEF Path
<1>4. Path(t, k) \in [1 .. k -> Nat]
  BY <1>1, <1>3
<1>5. Path(t, k) \in Seq(Nat) /\ Len(Path(t, k)) = k
  BY <1>2, <1>4
<1>6. ASSUME NEW i \in 0 .. k
      PROVE  Upto(Path(t, k), i) = Path(t, i)
  BY <1>2, <1>3 DEF Upto, Path
<1> QED  BY <1>3, <1>5, <1>6

LEMMA EnteredIs ==
    ASSUME NEW dirs, NEW t, NEW d \in Nat, NEW c \in BOOLEAN, NEW o
    PROVE  /\ Entered(dirs, t, d, c, o) \in 0 .. d
           /\ \A i \in 1 .. Entered(dirs, t, d, c, o) : Path(t, i) \in dirs \/ (c /\ i # o)
           /\ Entered(dirs, t, d, c, o) < d => Path(t, Entered(dirs, t, d, c, o) + 1) \notin dirs
<1> DEFINE N == {k \in 0 .. d : k < d => Path(t, k + 1) \notin dirs /\ (c => k + 1 = o)}
<1>1. N \in SUBSET Nat /\ d \in N
  OBVIOUS
<1>2. PICK k \in N : \A j \in N : k <= j
  BY <1>1, FirstOfNumbers
<1>3. k \in 0 .. d
  OBVIOUS
<1>4. ASSUME NEW i \in 1 .. k
      PROVE  Path(t, i) \in dirs \/ (c /\ i # o)
  <2>1. i - 1 \in 0 .. d /\ i - 1 < d /\ i - 1 \notin N /\ i - 1 + 1 = i
    BY <1>2, <1>3
  <2> QED  BY <2>1
<1>5. k < d => Path(t, k + 1) \notin dirs /\ (c => k + 1 = o)
  BY <1>2
<1>6. \E j \in 0 .. d : /\ \A i \in 1 .. j : Path(t, i) \in dirs \/ (c /\ i # o)
                        /\ j < d => Path(t, j + 1) \notin dirs /\ (c => j + 1 = o)
  BY <1>3, <1>4, <1>5
<1> QED  BY <1>6 DEF Entered

\* A hierarchy that is there is entered to its end.
LEMMA EnteredAll ==
    ASSUME NEW dirs, NEW t, NEW d \in Nat, \A i \in 1 .. d : Path(t, i) \in dirs
    PROVE  Entered(dirs, t, d, FALSE, Nothing) = d
<1> DEFINE k == Entered(dirs, t, d, FALSE, Nothing)
<1>1. k \in 0 .. d /\ (k < d => Path(t, k + 1) \notin dirs)
  BY EnteredIs
<1> HIDE DEF k
<1>2. k < d => k + 1 \in 1 .. d
  BY <1>1
<1>3. ~ (k < d)
  BY <1>1, <1>2
<1>4. k = d
  BY <1>1, <1>3
<1> QED  BY <1>4 DEF k

LEMMA FileAtIs ==
    ASSUME NEW t \in Nat, NEW p \in Nat \ {0}, NEW e \in 0 .. Depth(p), NEW name \in FileNames, NEW q \in Nat
    PROVE  LET f == FileAt(Aligned(t, p), e, Depth(p), name, q)
           IN  /\ f \in Name /\ f # None /\ IsFileOf(f, t, p) /\ f.name = name /\ f.seq = FileNumber(name, q)
               /\ f.dir = Path(Aligned(t, p), e) /\ Len(f.dir) = e
               /\ e = Depth(p) => f.prefix = f.dir
<1> DEFINE a == Aligned(t, p)
           m == IF e < Depth(p) THEN e + 1 ELSE Depth(p)
           f == FileAt(a, e, Depth(p), name, q)
<1>1. a \in Nat /\ Depth(p) \in 1 .. Len(Units) /\ Len(Units) \in Nat
  <2>1. a \in Nat
    BY AlignedNat
  <2>2. Depth(p) \in 1 .. Len(Units)
    BY DepthIs
  <2> QED  BY <2>1, <2>2, CmFileAssumption
<1>2. m \in 0 .. Len(Units) /\ e \in 0 .. Len(Units)
  BY <1>1
<1>3. f = [dir |-> Path(a, e), prefix |-> Path(a, m), name |-> name, seq |-> FileNumber(name, q)]
  BY DEF FileAt
<1> HIDE DEF a, m, f
<1>4. Path(a, e) \in Seq(Nat) /\ Path(a, m) \in Seq(Nat) /\ Len(Path(a, e)) = e
  BY <1>1, <1>2, PathIs
<1>5. f \in Name
  <2>1. FileNumber(name, q) \in Nat
    BY DEF FileNumber
  <2> QED  BY <1>3, <1>4, <2>1 DEF Name
<1>6. f # None
  BY <1>5, CmFileAssumption DEF Name
<1>7. IsFileOf(f, t, p)
  BY <1>3 DEF IsFileOf, a, m
<1>8. e = Depth(p) => m = e
  BY <1>1 DEF m
<1> QED  BY <1>3, <1>4, <1>5, <1>6, <1>7, <1>8 DEF a, f

LEMMA FileOfIs ==
    ASSUME NEW f, NEW t \in Nat, NEW p \in Nat \ {0}, IsFileOf(f, t, p)
    PROVE  /\ Len(f.prefix) \in 0 .. Len(Units) /\ f.prefix = Path(Aligned(t, p), Len(f.prefix))
           /\ Len(f.dir) = Len(f.prefix) => f.dir = Path(Aligned(t, p), Depth(p)) /\ f.prefix = f.dir
                                            /\ Len(f.dir) = Depth(p)
<1>1. PICK e \in 0 .. Depth(p) :
         /\ f.dir = Path(Aligned(t, p), e)
         /\ f.prefix = Path(Aligned(t, p), IF e < Depth(p) THEN e + 1 ELSE Depth(p))
  BY DEF IsFileOf
<1> PICK a, m, d : a = Aligned(t, p) /\ m = (IF e < Depth(p) THEN e + 1 ELSE Depth(p)) /\ d = Depth(p)
  OBVIOUS
<1>2. a \in Nat /\ d \in 1 .. Len(Units) /\ Len(Units) \in Nat
  BY AlignedNat, DepthIs, CmFileAssumption
<1>3. m \in 0 .. Len(Units) /\ e \in 0 .. Len(Units) /\ (m = e => e = d)
  BY <1>2
<1>4. Len(Path(a, e)) = e /\ Len(Path(a, m)) = m
  BY <1>2, <1>3, PathIs
<1> QED  BY <1>1, <1>3, <1>4

\* A file below all its folders is of one period and of one span of time.
LEMMA WholeFileOf ==
    ASSUME PeriodsApart, NEW f, NEW t \in Nat, NEW p \in Periods, IsFileOf(f, t, p),
           NEW u \in Nat, NEW q \in Periods, IsFileOf(f, u, q), Len(f.dir) = Len(f.prefix)
    PROVE  p = q /\ Aligned(t, p) = Aligned(u, q)
<1>1. p \in Nat \ {0} /\ q \in Nat \ {0}
  BY PeriodIs
<1>2. f.dir = Path(Aligned(t, p), Depth(p)) /\ Len(f.dir) = Depth(p)
  BY <1>1, FileOfIs
<1>3. f.dir = Path(Aligned(u, q), Depth(q)) /\ Len(f.dir) = Depth(q)
  BY <1>1, FileOfIs
<1>4. p = q
  BY <1>2, <1>3 DEF PeriodsApart
<1> PICK a, b, d : a = Aligned(t, p) /\ b = Aligned(u, p) /\ d = Depth(p)
  OBVIOUS
<1>5. /\ a \in Nat /\ b \in Nat /\ a \in Int /\ b \in Int /\ d \in 1 .. d /\ d \in 0 .. Len(Units)
      /\ Units[d] \in Nat \ {0} /\ Units[d] <= p
  <2>1. a \in Nat /\ b \in Nat
    BY <1>1, AlignedNat
  <2>2. d \in 1 .. Len(Units) /\ Units[d] \in Nat \ {0} /\ Units[d] <= p
    BY <1>1, DepthIs
  <2>3. Len(Units) \in Nat
    BY CmFileAssumption
  <2> QED  BY <2>1, <2>2, <2>3
<1>6. t \in Int /\ u \in Int
  OBVIOUS
<1>7. a % p = 0 /\ b % p = 0
  BY <1>1, <1>6, AlignedIs
<1>8. Path(a, d)[d] = a \div Units[d] /\ Path(b, d)[d] = b \div Units[d]
  BY <1>5, PathIs
<1>9. a \div Units[d] = b \div Units[d]
  BY <1>2, <1>3, <1>4, <1>8
<1>10. a = b
  BY <1>1, <1>5, <1>7, <1>9, UnitTellsApart
<1> QED  BY <1>4, <1>10

-----------------------------------------------------------------------------
(* The effect of writeData() *)

State(dirs, files, o, rs, ok) ==
    [disk |-> [dirs |-> dirs, files |-> files], object |-> o, rows |-> rs, ok |-> ok]

FailedState(dirs, files, o, rs) == State(dirs, files, o, rs, FALSE)

SetPeriod(s, p) == [s EXCEPT !.object.FilePeriod = p]

SetRetry(s, q) == [s EXCEPT !.object.FileSeqNum = q, !.object.data_fd = None]

SetFailed(s) == [s EXCEPT !.ok = FALSE]

SetClosed(s, dirs) == [s EXCEPT !.disk.dirs = dirs, !.object.data_fd = None, !.ok = FALSE]

SetOpened(s, dirs, file, i) == [s EXCEPT !.disk.dirs = dirs, !.object.data_fd = file, !.object.TimeIndex = i]

SetFile(s, file, lines) ==
    [s EXCEPT !.disk.files = [f \in DOMAIN @ \cup {file} |-> IF f = file THEN lines ELSE @[f]],
              !.object.isNewHeader = FALSE]

SetRow(s, file, head, line, row) ==
    [s EXCEPT !.disk.files[file] = @ \o head \o line, !.object.isNewHeader = FALSE, !.rows = Append(@, row)]

WithPeriod(o, p) == [o EXCEPT !.FilePeriod = p]

Closed(o) == [o EXCEPT !.data_fd = None]

Opened(o, file, i) == [o EXCEPT !.data_fd = file, !.TimeIndex = i]

Retried(o, q) == [o EXCEPT !.FileSeqNum = q, !.data_fd = None]

NoNewHeader(o) == [o EXCEPT !.isNewHeader = FALSE]

With(F, file, lines) == [f \in DOMAIN F \cup {file} |-> IF f = file THEN lines ELSE F[f]]

Lengthened(F, file, head, line) == [F EXCEPT ![file] = F[file] \o head \o line]

LEMMA StateParts ==
    ASSUME NEW D, NEW F, NEW o, NEW rs, NEW ok, NEW s, s = State(D, F, o, rs, ok)
    PROVE  s.disk.dirs = D /\ s.disk.files = F /\ s.object = o /\ s.rows = rs /\ s.ok = ok
BY DEF State

LEMMA SetOne ==
    \A D, F, o, rs, ok, v :
        LET s == State(D, F, o, rs, ok)
        IN  /\ [s EXCEPT !.disk.dirs = v] = State(v, F, o, rs, ok)
            /\ [s EXCEPT !.disk.files = v] = State(D, v, o, rs, ok)
            /\ [s EXCEPT !.rows = v] = State(D, F, o, v, ok)
            /\ [s EXCEPT !.ok = v] = State(D, F, o, rs, v)
<1> TAKE D, F, o, rs, ok, v
<1>1. [State(D, F, o, rs, ok) EXCEPT !.disk.dirs = v] = State(v, F, o, rs, ok)
  BY DEF State
<1>2. [State(D, F, o, rs, ok) EXCEPT !.disk.files = v] = State(D, v, o, rs, ok)
  BY DEF State
<1>3. [State(D, F, o, rs, ok) EXCEPT !.rows = v] = State(D, F, o, v, ok)
  BY DEF State
<1>4. [State(D, F, o, rs, ok) EXCEPT !.ok = v] = State(D, F, o, rs, v)
  BY DEF State
<1> QED  BY <1>1, <1>2, <1>3, <1>4

LEMMA SetMember ==
    \A D, F, o, rs, ok, v :
        LET s == State(D, F, o, rs, ok)
        IN  /\ [s EXCEPT !.object.FilePeriod = v] = State(D, F, [o EXCEPT !.FilePeriod = v], rs, ok)
            /\ [s EXCEPT !.object.data_fd = v] = State(D, F, [o EXCEPT !.data_fd = v], rs, ok)
            /\ [s EXCEPT !.object.TimeIndex = v] = State(D, F, [o EXCEPT !.TimeIndex = v], rs, ok)
            /\ [s EXCEPT !.object.FileSeqNum = v] = State(D, F, [o EXCEPT !.FileSeqNum = v], rs, ok)
            /\ [s EXCEPT !.object.isNewHeader = v] = State(D, F, [o EXCEPT !.isNewHeader = v], rs, ok)
            /\ [s EXCEPT !.object.ParentCollection = v] = State(D, F, [o EXCEPT !.ParentCollection = v], rs, ok)
<1> TAKE D, F, o, rs, ok, v
<1>1. [State(D, F, o, rs, ok) EXCEPT !.object.FilePeriod = v] = State(D, F, [o EXCEPT !.FilePeriod = v], rs, ok)
  BY DEF State
<1>2. [State(D, F, o, rs, ok) EXCEPT !.object.data_fd = v] = State(D, F, [o EXCEPT !.data_fd = v], rs, ok)
  BY DEF State
<1>3. [State(D, F, o, rs, ok) EXCEPT !.object.TimeIndex = v] = State(D, F, [o EXCEPT !.TimeIndex = v], rs, ok)
  BY DEF State
<1>4. [State(D, F, o, rs, ok) EXCEPT !.object.FileSeqNum = v] = State(D, F, [o EXCEPT !.FileSeqNum = v], rs, ok)
  BY DEF State
<1>5. [State(D, F, o, rs, ok) EXCEPT !.object.isNewHeader = v] = State(D, F, [o EXCEPT !.isNewHeader = v], rs, ok)
  BY DEF State
<1>6. [State(D, F, o, rs, ok) EXCEPT !.object.ParentCollection = v]
          = State(D, F, [o EXCEPT !.ParentCollection = v], rs, ok)
  BY DEF State
<1> QED  BY <1>1, <1>2, <1>3, <1>4, <1>5, <1>6

LEMMA ClosedIs ==
    ASSUME NEW D, NEW F, NEW o, NEW rs, NEW ok, NEW dirs
    PROVE  SetClosed(State(D, F, o, rs, ok), dirs)
               = FailedState(dirs, F, Closed(o), rs)
<1> DEFINE s == State(D, F, o, rs, ok)
           m == [o EXCEPT !.data_fd = None]
<1>1. [s EXCEPT !.disk.dirs = dirs] = State(dirs, F, o, rs, ok)
  BY SetOne
<1>2. [State(dirs, F, o, rs, ok) EXCEPT !.object.data_fd = None] = State(dirs, F, m, rs, ok)
  BY SetMember
<1> HIDE DEF s, m
<1>3. [State(dirs, F, m, rs, ok) EXCEPT !.ok = FALSE] = State(dirs, F, m, rs, FALSE)
  <2>1. ASSUME NEW no
        PROVE  [State(dirs, F, m, rs, ok) EXCEPT !.ok = no] = State(dirs, F, m, rs, no)
    BY SetOne
  <2> QED  BY <2>1, Zenon
<1>4. [s EXCEPT !.disk.dirs = dirs, !.object.data_fd = None, !.ok = FALSE]
          = [[[s EXCEPT !.disk.dirs = dirs] EXCEPT !.object.data_fd = None] EXCEPT !.ok = FALSE]
  OBVIOUS
<1>5. [s EXCEPT !.disk.dirs = dirs, !.object.data_fd = None, !.ok = FALSE]
          = State(dirs, F, m, rs, FALSE)
  BY <1>1, <1>2, <1>3, <1>4, Zenon
<1> QED  BY <1>5, Zenon DEF s, m, SetClosed, Closed, FailedState

LEMMA OpenedIs ==
    ASSUME NEW D, NEW F, NEW o, NEW rs, NEW ok, NEW dirs, NEW file, NEW i
    PROVE  SetOpened(State(D, F, o, rs, ok), dirs, file, i)
               = State(dirs, F, Opened(o, file, i), rs, ok)
<1> DEFINE s == State(D, F, o, rs, ok)
           m == [o EXCEPT !.data_fd = file]
<1>1. [s EXCEPT !.disk.dirs = dirs] = State(dirs, F, o, rs, ok)
  BY SetOne
<1>2. [State(dirs, F, o, rs, ok) EXCEPT !.object.data_fd = file] = State(dirs, F, m, rs, ok)
  BY SetMember
<1>3. [o EXCEPT !.data_fd = file, !.TimeIndex = i] = [m EXCEPT !.TimeIndex = i]
  OBVIOUS
<1> HIDE DEF s, m
<1>4. [State(dirs, F, m, rs, ok) EXCEPT !.object.TimeIndex = i] = State(dirs, F, [m EXCEPT !.TimeIndex = i], rs, ok)
  BY SetMember
<1>5. [s EXCEPT !.disk.dirs = dirs, !.object.data_fd = file, !.object.TimeIndex = i]
          = [[[s EXCEPT !.disk.dirs = dirs] EXCEPT !.object.data_fd = file] EXCEPT !.object.TimeIndex = i]
  OBVIOUS
<1>6. [s EXCEPT !.disk.dirs = dirs, !.object.data_fd = file, !.object.TimeIndex = i]
          = State(dirs, F, [m EXCEPT !.TimeIndex = i], rs, ok)
  BY <1>1, <1>2, <1>4, <1>5, Zenon
<1> QED  BY <1>3, <1>6, Zenon DEF s, SetOpened, Opened

LEMMA FileIs ==
    ASSUME NEW D, NEW F, NEW o, NEW rs, NEW ok, NEW file, NEW lines
    PROVE  SetFile(State(D, F, o, rs, ok), file, lines)
               = State(D, With(F, file, lines), NoNewHeader(o), rs, ok)
<1> DEFINE s == State(D, F, o, rs, ok)
           v == [f \in DOMAIN F \cup {file} |-> IF f = file THEN lines ELSE F[f]]
           m == [o EXCEPT !.isNewHeader = FALSE]
           w == [f \in DOMAIN s.disk.files \cup {file} |-> IF f = file THEN lines ELSE s.disk.files[f]]
<1>1. w = v
  BY StateParts
<1> HIDE DEF v, w
<1>2. [s EXCEPT !.disk.files = v] = State(D, v, o, rs, ok)
  BY SetOne
<1>3. [State(D, v, o, rs, ok) EXCEPT !.object.isNewHeader = FALSE] = State(D, v, m, rs, ok)
  <2>1. ASSUME NEW no
        PROVE  [State(D, v, o, rs, ok) EXCEPT !.object.isNewHeader = no]
                   = State(D, v, [o EXCEPT !.isNewHeader = no], rs, ok)
    BY SetMember
  <2> QED  BY <2>1, Zenon DEF m
<1> HIDE DEF s, m
<1>4. [s EXCEPT !.disk.files = v, !.object.isNewHeader = FALSE]
          = [[s EXCEPT !.disk.files = v] EXCEPT !.object.isNewHeader = FALSE]
  OBVIOUS
<1>5. [s EXCEPT !.disk.files = w, !.object.isNewHeader = FALSE] = State(D, v, m, rs, ok)
  BY <1>1, <1>2, <1>3, <1>4, Zenon
<1> QED  BY <1>5, Zenon DEF s, v, w, m, SetFile, With, NoNewHeader

LEMMA RowIs ==
    ASSUME NEW D, NEW F, NEW o, NEW rs, NEW ok, NEW file, NEW head, NEW line, NEW row
    PROVE  SetRow(State(D, F, o, rs, ok), file, head, line, row)
               = State(D, Lengthened(F, file, head, line), NoNewHeader(o), Append(rs, row), ok)
<1> DEFINE s == State(D, F, o, rs, ok)
           v == [F EXCEPT ![file] = F[file] \o head \o line]
           m == [o EXCEPT !.isNewHeader = FALSE]
           w == Append(rs, row)
<1>1. s.disk.files = F /\ s.rows = rs
  BY StateParts
<1> HIDE DEF v, w
<1>2. [s EXCEPT !.disk.files = v] = State(D, v, o, rs, ok)
  BY SetOne
<1>3. [State(D, v, o, rs, ok) EXCEPT !.object.isNewHeader = FALSE] = State(D, v, m, rs, ok)
  <2>1. ASSUME NEW no
        PROVE  [State(D, v, o, rs, ok) EXCEPT !.object.isNewHeader = no]
                   = State(D, v, [o EXCEPT !.isNewHeader = no], rs, ok)
    BY SetMember
  <2> QED  BY <2>1, Zenon DEF m
<1> HIDE DEF s, m
<1>4. [State(D, v, m, rs, ok) EXCEPT !.rows = w] = State(D, v, m, w, ok)
  BY SetOne
<1>5. [s EXCEPT !.disk.files[file] = @ \o head \o line, !.object.isNewHeader = FALSE, !.rows = Append(@, row)]
          = [[[s EXCEPT !.disk.files = v] EXCEPT !.object.isNewHeader = FALSE] EXCEPT !.rows = w]
  BY <1>1 DEF v, w
<1>6. [s EXCEPT !.disk.files[file] = @ \o head \o line, !.object.isNewHeader = FALSE, !.rows = Append(@, row)]
          = State(D, v, m, w, ok)
  BY <1>2, <1>3, <1>4, <1>5, Zenon
<1> QED  BY <1>6, Zenon DEF s, v, m, w, SetRow, Lengthened, NoNewHeader

LEMMA FailedIs ==
    ASSUME NEW D, NEW F, NEW o, NEW rs, NEW ok
    PROVE  SetFailed(State(D, F, o, rs, ok)) = FailedState(D, F, o, rs)
<1>1. ASSUME NEW no
      PROVE  [State(D, F, o, rs, ok) EXCEPT !.ok = no] = State(D, F, o, rs, no)
  BY SetOne
<1> QED  BY <1>1, Zenon DEF SetFailed, FailedState

LEMMA PeriodSet ==
    ASSUME NEW D, NEW F, NEW o, NEW rs, NEW ok, NEW p
    PROVE  SetPeriod(State(D, F, o, rs, ok), p) = State(D, F, WithPeriod(o, p), rs, ok)
BY DEF SetPeriod, State, WithPeriod

LEMMA RetryIs ==
    ASSUME NEW D, NEW F, NEW o, NEW rs, NEW ok, NEW q
    PROVE  SetRetry(State(D, F, o, rs, ok), q)
               = State(D, F, Retried(o, q), rs, ok)
<1> DEFINE s == State(D, F, o, rs, ok)
           m == [o EXCEPT !.FileSeqNum = q]
<1>1. [s EXCEPT !.object.FileSeqNum = q] = State(D, F, m, rs, ok)
  BY SetMember
<1>2. [o EXCEPT !.FileSeqNum = q, !.data_fd = None] = [m EXCEPT !.data_fd = None]
  OBVIOUS
<1> HIDE DEF s, m
<1>3. [State(D, F, m, rs, ok) EXCEPT !.object.data_fd = None] = State(D, F, [m EXCEPT !.data_fd = None], rs, ok)
  <2>1. ASSUME NEW v
        PROVE  [State(D, F, m, rs, ok) EXCEPT !.object.data_fd = v] = State(D, F, [m EXCEPT !.data_fd = v], rs, ok)
    BY DEF State
  <2> QED  BY <2>1, Zenon
<1>4. [s EXCEPT !.object.FileSeqNum = q, !.object.data_fd = None]
          = [[s EXCEPT !.object.FileSeqNum = q] EXCEPT !.object.data_fd = None]
  OBVIOUS
<1>5. [s EXCEPT !.object.FileSeqNum = q, !.object.data_fd = None] = State(D, F, [m EXCEPT !.data_fd = None], rs, ok)
  BY <1>1, <1>3, <1>4, Zenon
<1> QED  BY <1>2, <1>5, Zenon DEF s, SetRetry, Retried

\* What openTimePeriodFile() can do: nothing, close the file or open one, that is
\* there or not.
LEMMA OpenSplit ==
    ASSUME NEW s, NEW t, NEW q, NEW obstacle
    PROVE  LET p      == PeriodOf(s.object)
               start  == Aligned(t, p)
               e      == Entered(s.disk.dirs, start, Depth(p), TRUE, obstacle)
               file   == FileAt(start, e, Depth(p), s.object.FileName, q)
               dirs   == s.disk.dirs \cup {Path(start, i) : i \in 0 .. e}
               lines  == <<IdLine(t, p)>> \o HeaderLine(s.object.ParentCollection)
               opened == SetOpened(SetPeriod(s, p), dirs, file, start \div p)
               r      == OpenForWriting(s, t, q, obstacle)
           IN  \/ r = SetFailed(SetPeriod(s, p))
               \/ r = SetClosed(SetPeriod(s, p), dirs)
               \/ file \in DOMAIN s.disk.files /\ r = opened
               \/ file \notin DOMAIN s.disk.files /\ r = SetFile(opened, file, lines)
<1> DEFINE p      == PeriodOf(s.object)
           start  == Aligned(t, p)
           e      == Entered(s.disk.dirs, start, Depth(p), TRUE, obstacle)
           file   == FileAt(start, e, Depth(p), s.object.FileName, q)
           dirs   == s.disk.dirs \cup {Path(start, i) : i \in 0 .. e}
           lines  == <<IdLine(t, p)>> \o HeaderLine(s.object.ParentCollection)
           opened == SetOpened(SetPeriod(s, p), dirs, file, start \div p)
           r      == OpenForWriting(s, t, q, obstacle)
           r1     == SetFailed(SetPeriod(s, p))
           r2     == SetClosed(SetPeriod(s, p), dirs)
           r3     == SetFile(opened, file, lines)
           bad    == <<>> \notin s.disk.dirs /\ obstacle = 0
<1>1. r = CASE bad -> r1
            [] ~bad /\ obstacle = Opening -> r2
            [] ~bad /\ obstacle # Opening -> IF file \in DOMAIN s.disk.files THEN opened ELSE r3
  BY Zenon DEF OpenForWriting, SetPeriod, SetFailed, SetClosed, SetOpened, SetFile
<1> HIDE DEF opened, r, r1, r2, r3, bad, file
<1>2. r = r1 \/ r = r2 \/ (file \in DOMAIN s.disk.files /\ r = opened) \/ (file \notin DOMAIN s.disk.files /\ r = r3)
  BY <1>1
<1> QED  BY <1>2, Zenon DEF opened, r, r1, r2, r3, file

EnteredFor(D, o, t, obstacle) == Entered(D, Aligned(t, PeriodOf(o)), Depth(PeriodOf(o)), TRUE, obstacle)

FileFor(D, o, t, q, obstacle) ==
    FileAt(Aligned(t, PeriodOf(o)), EnteredFor(D, o, t, obstacle), Depth(PeriodOf(o)), o.FileName, q)

DirsFor(D, o, t, obstacle) == D \cup {Path(Aligned(t, PeriodOf(o)), i) : i \in 0 .. EnteredFor(D, o, t, obstacle)}

FirstLines(o, t) == <<IdLine(t, PeriodOf(o))>> \o HeaderLine(o.ParentCollection)

LEMMA OpenCases ==
    ASSUME NEW D, NEW F, NEW o, NEW rs, NEW ok, NEW s, s = State(D, F, o, rs, ok), NEW t, NEW q, NEW obstacle,
           NEW r, r = OpenForWriting(s, t, q, obstacle), NEW p, p = PeriodOf(o),
           NEW i, i = Aligned(t, p) \div p, NEW file, file = FileFor(D, o, t, q, obstacle),
           NEW dirs, dirs = DirsFor(D, o, t, obstacle)
    PROVE  \/ r = FailedState(D, F, WithPeriod(o, p), rs)
           \/ r = FailedState(dirs, F, Closed(WithPeriod(o, p)), rs)
           \/ file \in DOMAIN F /\ r = State(dirs, F, Opened(WithPeriod(o, p), file, i), rs, ok)
           \/ /\ file \notin DOMAIN F
              /\ r = State(dirs, With(F, file, FirstLines(o, t)), NoNewHeader(Opened(WithPeriod(o, p), file, i)), rs, ok)
<1>1. s.disk.dirs = D /\ s.disk.files = F /\ s.object = o
  BY StateParts
<1> DEFINE lines  == FirstLines(o, t)
           set    == WithPeriod(o, p)
           open   == Opened(set, file, i)
           opened == SetOpened(SetPeriod(s, p), dirs, file, i)
<1>2. \/ r = SetFailed(SetPeriod(s, p))
      \/ r = SetClosed(SetPeriod(s, p), dirs)
      \/ file \in DOMAIN F /\ r = opened
      \/ file \notin DOMAIN F /\ r = SetFile(opened, file, lines)
  BY <1>1, OpenSplit, ZenonT(40) DEF EnteredFor, FileFor, DirsFor, FirstLines
<1> HIDE DEF lines
<1>3. SetPeriod(s, p) = State(D, F, set, rs, ok)
  BY PeriodSet
<1> HIDE DEF set
<1>4. SetFailed(State(D, F, set, rs, ok)) = FailedState(D, F, set, rs)
  BY FailedIs
<1>5. SetClosed(State(D, F, set, rs, ok), dirs) = FailedState(dirs, F, Closed(set), rs)
  BY ClosedIs
<1>6. opened = State(dirs, F, open, rs, ok)
  BY <1>3, OpenedIs
<1> HIDE DEF opened, open
<1>7. SetFile(State(dirs, F, open, rs, ok), file, lines)
          = State(dirs, With(F, file, lines), NoNewHeader(open), rs, ok)
  BY FileIs
<1>8. \/ r = FailedState(D, F, set, rs)
      \/ r = FailedState(dirs, F, Closed(set), rs)
      \/ file \in DOMAIN F /\ r = State(dirs, F, open, rs, ok)
      \/ file \notin DOMAIN F /\ r = State(dirs, With(F, file, lines), NoNewHeader(open), rs, ok)
  BY <1>2, <1>3, <1>4, <1>5, <1>6, <1>7, Zenon
<1> QED  BY <1>8, Zenon DEF lines, set, open

RowOf(o, t, q) ==
    [time |-> t, seq |-> q, name |-> o.FileName, period |-> o.FilePeriod,
     header |-> o.ParentCollection, whole |-> Len(o.data_fd.dir) = Len(o.data_fd.prefix)]

LEMMA WriteSplit ==
    ASSUME NEW s, NEW t, NEW q, NEW obstacle
    PROVE  LET ready == IF IsCurrent(s.object, t, q)
                        THEN IF s.object.data_fd # None THEN s ELSE OpenForWriting(s, t, q, obstacle)
                        ELSE OpenForWriting(SetRetry(s, q), t, q, obstacle)
               r     == Write(s, t, q, obstacle)
           IN  \/ (~ready.ok \/ ready.object.data_fd = None) /\ r = SetFailed(ready)
               \/ /\ ~(~ready.ok \/ ready.object.data_fd = None)
                  /\ r = SetRow(ready, ready.object.data_fd, NewHeader(ready.object), <<RowLine(1 + Len(ready.rows))>>,
                                RowOf(ready.object, t, q))
<1> DEFINE ready == IF IsCurrent(s.object, t, q)
                    THEN IF s.object.data_fd # None THEN s ELSE OpenForWriting(s, t, q, obstacle)
                    ELSE OpenForWriting(SetRetry(s, q), t, q, obstacle)
           r     == Write(s, t, q, obstacle)
           r1    == SetFailed(ready)
           r2    == SetRow(ready, ready.object.data_fd, NewHeader(ready.object), <<RowLine(1 + Len(ready.rows))>>,
                           RowOf(ready.object, t, q))
           bad   == ~ready.ok \/ ready.object.data_fd = None
<1>1. r = IF bad THEN r1 ELSE r2
  BY Zenon DEF Write, SetRetry, SetFailed, SetRow, RowOf, RowLine
<1> HIDE DEF r, r1, r2, bad
<1>2. (bad /\ r = r1) \/ (~bad /\ r = r2)
  BY <1>1
<1> QED  BY <1>2, Zenon DEF r, r1, r2, bad

LEMMA WithPeriodIs ==
    ASSUME NEW o \in Object, NEW p \in Periods, NEW n, n = WithPeriod(o, p)
    PROVE  /\ n \in Object /\ n.FileName = o.FileName /\ n.ParentCollection = o.ParentCollection
           /\ n.FilePeriod = p /\ n.FileSeqNum = o.FileSeqNum /\ n.data_fd = o.data_fd
           /\ n.isNewHeader = o.isNewHeader
BY DEF Object, WithPeriod, Periods

LEMMA ClosedObjectIs ==
    ASSUME NEW o \in Object, NEW n, n = Closed(o)
    PROVE  /\ n \in Object /\ n.FileName = o.FileName /\ n.ParentCollection = o.ParentCollection
           /\ n.FilePeriod = o.FilePeriod /\ n.data_fd = None /\ n.isNewHeader = o.isNewHeader
BY DEF Object, Closed

LEMMA OpenedObjectIs ==
    ASSUME NEW o \in Object, NEW f \in Name, NEW i \in Int, NEW n, n = Opened(o, f, i)
    PROVE  /\ n \in Object /\ n.FileName = o.FileName /\ n.ParentCollection = o.ParentCollection
           /\ n.FilePeriod = o.FilePeriod /\ n.FileSeqNum = o.FileSeqNum /\ n.TimeIndex = i /\ n.data_fd = f
           /\ n.isNewHeader = o.isNewHeader
BY DEF Object, Opened

LEMMA RetriedIs ==
    ASSUME NEW o \in Object, NEW q \in Nat, NEW n, n = Retried(o, q)
    PROVE  /\ n \in Object /\ n.FileName = o.FileName /\ n.ParentCollection = o.ParentCollection
           /\ n.FilePeriod = o.FilePeriod /\ n.FileSeqNum = q /\ n.data_fd = None
           /\ n.isNewHeader = o.isNewHeader
BY DEF Object, Retried

LEMMA NoNewHeaderIs ==
    ASSUME NEW o \in Object, NEW n, n = NoNewHeader(o)
    PROVE  /\ n \in Object /\ n.FileName = o.FileName /\ n.ParentCollection = o.ParentCollection
           /\ n.FilePeriod = o.FilePeriod /\ n.FileSeqNum = o.FileSeqNum /\ n.TimeIndex = o.TimeIndex
           /\ n.data_fd = o.data_fd /\ n.isNewHeader = FALSE
BY DEF Object, NoNewHeader

\* What a row does not change of the object o.
Kept(n, o) ==
    /\ n.FileName = o.FileName /\ n.ParentCollection = o.ParentCollection
    /\ o.FilePeriod # 0 => n.FilePeriod = o.FilePeriod

\* No file has been opened.
NotOpened(D, F, o, rs, r) ==
    \E dirs : \E n \in Object :
        /\ r = FailedState(dirs, F, n, rs) /\ D \subseteq dirs
        /\ n.data_fd = None /\ Kept(n, o) /\ n.isNewHeader = o.isNewHeader

\* The file f is open for a row of time t.
IsOpenFor(n, f, t, q, D) ==
    /\ n.data_fd = f /\ f \in Name /\ f # None /\ n.FilePeriod \in Periods
    /\ IsFileOf(f, t, n.FilePeriod) /\ f.seq = FileNumber(f.name, q)
    /\ n.FileSeqNum = q /\ n.TimeIndex = t \div n.FilePeriod
    /\ \A i \in 0 .. Len(f.dir) : Upto(f.dir, i) \in D

IsOpened(D, F, o, rs, ok, t, q, r) ==
    \E dirs, G, f : \E n \in Object :
        /\ r = State(dirs, G, n, rs, ok) /\ D \subseteq dirs
        /\ IsOpenFor(n, f, t, q, dirs) /\ f.name = o.FileName /\ Kept(n, o)
        /\ \/ f \in DOMAIN F /\ G = F /\ n.isNewHeader = o.isNewHeader
           \/ /\ f \notin DOMAIN F /\ n.isNewHeader = FALSE
              /\ G = With(F, f, <<IdLine(t, n.FilePeriod)>> \o HeaderLine(o.ParentCollection))

LEMMA OpenOutcome ==
    ASSUME NEW D, NEW F, NEW o \in Object, NEW rs, NEW ok, NEW s, s = State(D, F, o, rs, ok), o.data_fd = None,
           NEW t \in Times, NEW q \in Nat, o.FileSeqNum = q, NEW obstacle
    PROVE  LET r == OpenForWriting(s, t, q, obstacle)
           IN  NotOpened(D, F, o, rs, r) \/ IsOpened(D, F, o, rs, ok, t, q, r)
<1> PICK r, p, start, e, file, dirs, i :
        /\ r = OpenForWriting(s, t, q, obstacle) /\ p = PeriodOf(o) /\ start = Aligned(t, p)
        /\ e = EnteredFor(D, o, t, obstacle) /\ file = FileFor(D, o, t, q, obstacle)
        /\ dirs = DirsFor(D, o, t, obstacle) /\ i = start \div p
  OBVIOUS
<1> PICK set, closed, open, done :
        /\ set = WithPeriod(o, p) /\ closed = Closed(set) /\ open = Opened(set, file, i) /\ done = NoNewHeader(open)
  OBVIOUS
<1>1. \/ r = FailedState(D, F, set, rs)
      \/ r = FailedState(dirs, F, closed, rs)
      \/ file \in DOMAIN F /\ r = State(dirs, F, open, rs, ok)
      \/ file \notin DOMAIN F /\ r = State(dirs, With(F, file, FirstLines(o, t)), done, rs, ok)
  BY OpenCases
<1>2. p \in Periods /\ p \in Nat \ {0} /\ t \in Nat /\ t \in Int /\ (o.FilePeriod # 0 => p = o.FilePeriod)
  <2>1. p \in Periods
    BY CmFileAssumption DEF PeriodOf, Object, Periods
  <2>2. o.FilePeriod # 0 => p = o.FilePeriod
    BY DEF PeriodOf
  <2> QED  BY <2>1, <2>2, PeriodIs, CmFileAssumption
<1>3. start \in Nat /\ i = t \div p /\ i \in Nat
  <2>1. start \in Nat
    BY <1>2, AlignedNat
  <2>2. start \div p = t \div p
    BY <1>2, AlignedIs
  <2>3. t \div p \in Nat
    BY <1>2, DivisionOfNat
  <2> QED  BY <2>1, <2>2, <2>3
<1>4. Depth(p) \in 1 .. Len(Units) /\ Len(Units) \in Nat
  <2>1. Depth(p) \in 1 .. Len(Units)
    BY <1>2, DepthIs
  <2> QED  BY <2>1, CmFileAssumption
<1>5. e \in 0 .. Depth(p)
  <2>1. Depth(p) \in Nat
    BY <1>4
  <2> QED  BY <2>1, EnteredIs DEF EnteredFor
<1>6. o.FileName \in FileNames
  BY DEF Object
<1>7. /\ file \in Name /\ file # None /\ IsFileOf(file, t, p) /\ file.name = o.FileName /\ file.seq = FileNumber(o.FileName, q)
      /\ file.dir = Path(start, e) /\ Len(file.dir) = e
  <2>1. file = FileAt(Aligned(t, p), e, Depth(p), o.FileName, q)
    BY DEF FileFor
  <2> QED  BY <1>2, <1>5, <1>6, <2>1, FileAtIs
<1>8. D \subseteq dirs /\ \A k \in 0 .. Len(file.dir) : Upto(file.dir, k) \in dirs
  <2>1. e \in 0 .. Len(Units)
    BY <1>4, <1>5
  <2>2. \A k \in 0 .. e : Upto(Path(start, e), k) = Path(start, k)
    BY <1>3, <2>1, PathIs
  <2>3. D \subseteq dirs /\ \A k \in 0 .. e : Path(start, k) \in dirs
    BY DEF DirsFor
  <2> QED  BY <1>7, <2>2, <2>3
<1>9. /\ set \in Object /\ set.FileName = o.FileName /\ set.ParentCollection = o.ParentCollection
      /\ set.FilePeriod = p /\ set.FileSeqNum = o.FileSeqNum /\ set.data_fd = o.data_fd
      /\ set.isNewHeader = o.isNewHeader
  BY <1>2, WithPeriodIs
<1>10. /\ closed \in Object /\ closed.FileName = o.FileName /\ closed.ParentCollection = o.ParentCollection
       /\ closed.FilePeriod = p /\ closed.data_fd = None /\ closed.isNewHeader = o.isNewHeader
  BY <1>9, ClosedObjectIs
<1>11. /\ open \in Object /\ open.FileName = o.FileName /\ open.ParentCollection = o.ParentCollection
       /\ open.FilePeriod = p /\ open.FileSeqNum = q /\ open.TimeIndex = t \div p
       /\ open.data_fd = file /\ open.isNewHeader = o.isNewHeader
  <2>1. set \in Object /\ file \in Name /\ i \in Int /\ open = Opened(set, file, i)
    BY <1>3, <1>7, <1>9
  <2>2. /\ open \in Object /\ open.FileName = set.FileName /\ open.ParentCollection = set.ParentCollection
        /\ open.FilePeriod = set.FilePeriod /\ open.FileSeqNum = set.FileSeqNum /\ open.TimeIndex = i
        /\ open.data_fd = file /\ open.isNewHeader = set.isNewHeader
    BY <2>1, OpenedObjectIs
  <2> QED  BY <1>3, <1>9, <2>2
<1>12. /\ done \in Object /\ done.FileName = o.FileName /\ done.ParentCollection = o.ParentCollection
       /\ done.FilePeriod = p /\ done.FileSeqNum = q /\ done.TimeIndex = t \div p
       /\ done.data_fd = file /\ done.isNewHeader = FALSE
  <2>1. open \in Object /\ done = NoNewHeader(open)
    BY <1>11
  <2>2. /\ done \in Object /\ done.FileName = open.FileName /\ done.ParentCollection = open.ParentCollection
        /\ done.FilePeriod = open.FilePeriod /\ done.FileSeqNum = open.FileSeqNum /\ done.TimeIndex = open.TimeIndex
        /\ done.data_fd = open.data_fd /\ done.isNewHeader = FALSE
    BY <2>1, NoNewHeaderIs, Zenon
  <2> QED  BY <1>11, <2>2
<1>13. CASE r = FailedState(D, F, set, rs)
  <2>1. NotOpened(D, F, o, rs, r)
    BY <1>2, <1>9, <1>13 DEF NotOpened, Kept
  <2> QED  BY <2>1 
<1>14. CASE r = FailedState(dirs, F, closed, rs)
  <2>1. NotOpened(D, F, o, rs, r)
    BY <1>2, <1>8, <1>10, <1>14 DEF NotOpened, Kept
  <2> QED  BY <2>1 
<1>15. CASE file \in DOMAIN F /\ r = State(dirs, F, open, rs, ok)
  <2>1. IsOpenFor(open, file, t, q, dirs)
    BY <1>2, <1>7, <1>8, <1>11 DEF IsOpenFor
  <2>2. IsOpened(D, F, o, rs, ok, t, q, r)
    BY <1>2, <1>7, <1>8, <1>11, <1>15, <2>1 DEF IsOpened, Kept
  <2> QED  BY <2>2 
<1>16. CASE file \notin DOMAIN F /\ r = State(dirs, With(F, file, FirstLines(o, t)), done, rs, ok)
  <2>1. IsOpenFor(done, file, t, q, dirs)
    BY <1>2, <1>7, <1>8, <1>12 DEF IsOpenFor
  <2>2. With(F, file, FirstLines(o, t)) = With(F, file, <<IdLine(t, done.FilePeriod)>> \o HeaderLine(o.ParentCollection))
    BY <1>12 DEF FirstLines
  <2>3. IsOpened(D, F, o, rs, ok, t, q, r)
    BY <1>2, <1>7, <1>8, <1>12, <1>16, <2>1, <2>2 DEF IsOpened, Kept
  <2> QED  BY <2>3
<1> QED  BY <1>1, <1>13, <1>14, <1>15, <1>16

\* A file that is open for the time of a row is the one to write it to.
LEMMA CurrentIsOpen ==
    ASSUME PeriodsApart, NEW D, NEW F, NEW o \in Object, NEW rs, IsFiles(F), FilesOk(F, rs, D), OpenOk(o, F, rs),
           NEW t \in Times, NEW q \in Nat, IsCurrent(o, t, q), o.data_fd # None
    PROVE  IsOpenFor(o, o.data_fd, t, q, D) /\ o.data_fd \in DOMAIN F
<1> PICK f, p : f = o.data_fd /\ p = o.FilePeriod
  OBVIOUS
<1>1. p \in Periods /\ p \in Nat \ {0} /\ o.TimeIndex = t \div p /\ o.FileSeqNum = q
  <2>1. p # 0 /\ o.TimeIndex = t \div p /\ o.FileSeqNum = q /\ p \in FilePeriods \cup {DefaultPeriod}
    BY DEF IsCurrent, Object
  <2>2. p \in Periods
    BY <2>1 DEF Periods
  <2> QED  BY <2>1, <2>2, PeriodIs
<1>2. f \in DOMAIN F /\ f.seq = FileNumber(f.name, q) /\ f \in Name /\ f # None
  BY <1>1 DEF OpenOk, Object
<1>3. PICK u \in Times, p2 \in Periods : IsFileOf(f, u, p2) /\ o.TimeIndex = u \div p2
  BY DEF OpenOk
<1>4. p2 = p
  BY <1>1, <1>3 DEF PeriodsApart
<1>5. t \in Int /\ u \in Int
  BY CmFileAssumption
<1>6. Aligned(t, p) = Aligned(u, p)
  BY <1>1, <1>3, <1>4, <1>5, SameAligned
<1>7. IsFileOf(f, t, p)
  BY <1>3, <1>4, <1>6 DEF IsFileOf
<1>8. \A i \in 0 .. Len(f.dir) : Upto(f.dir, i) \in D
  BY <1>2 DEF FilesOk, FileOk
<1> QED  BY <1>1, <1>2, <1>7, <1>8 DEF IsOpenFor

LEMMA HeaderLineIs ==
    ASSUME NEW h \in Headers \cup {None}
    PROVE  HeaderLine(h) \in Seq(Line) /\ HeaderLine(h) = (IF h = None THEN <<>> ELSE <<HeaderOf(h)>>)
<1>1. HeaderLine(h) = (IF h = None THEN <<>> ELSE <<HeaderOf(h)>>)
  BY DEF HeaderLine, HeaderOf
<1>2. h # None => HeaderOf(h) \in Line
  BY DEF HeaderOf, Line, HeaderLines
<1> QED  BY <1>1, <1>2

LEMMA IdLineIs ==
    ASSUME NEW t \in Times, NEW p \in Periods
    PROVE  IdLine(t, p) \in Line /\ IdLine(t, p).kind = "id" /\ IdLine(t, p).time = Aligned(t, p)
           /\ IdLine(t, p).duration = p
<1>1. Aligned(t, p) \in Nat /\ p \in Nat
  <2>1. t \in Nat /\ p \in Nat \ {0}
    BY PeriodIs, CmFileAssumption
  <2> QED  BY <2>1, AlignedNat
<1> QED  BY <1>1 DEF IdLine, Line, IdLines

\* The lines of the file f before a row is written, and the header that is
\* written then.
Before(F, f, t, p) == IF f \in DOMAIN F THEN F[f] ELSE <<IdLine(t, p)>>

Heading(F, f, o) == IF f \in DOMAIN F /\ ~o.isNewHeader THEN <<>> ELSE HeaderLine(o.ParentCollection)

LinesAfter(F, f, o, rs, t, p) == Before(F, f, t, p) \o Heading(F, f, o) \o <<RowLine(1 + Len(rs))>>

Wrote(D, F, o, rs, ok, t, q, r) ==
    \E dirs, f : \E n \in Object :
        /\ r = State(dirs, With(F, f, LinesAfter(F, f, o, rs, t, n.FilePeriod)), n, Append(rs, RowOf(n, t, q)), ok)
        /\ D \subseteq dirs /\ IsOpenFor(n, f, t, q, dirs) /\ Kept(n, o) /\ n.isNewHeader = FALSE
        /\ f \in DOMAIN F \/ f.name = o.FileName

\* A row has been added to the file that is open.
LEMMA RowAdded ==
    ASSUME NEW dirs, NEW F, NEW G, NEW n \in Object, NEW o \in Object, NEW rs, NEW ok, NEW f, NEW t \in Times, NEW q \in Nat,
           NEW D, IsFiles(F), D \subseteq dirs, IsOpenFor(n, f, t, q, dirs), Kept(n, o), f \in DOMAIN F \/ f.name = o.FileName,
           \/ f \in DOMAIN F /\ G = F /\ n.isNewHeader = o.isNewHeader
           \/ /\ f \notin DOMAIN F /\ n.isNewHeader = FALSE
              /\ G = With(F, f, <<IdLine(t, n.FilePeriod)>> \o HeaderLine(o.ParentCollection)),
           NEW s, s = State(dirs, G, n, rs, ok),
           NEW r, r = SetRow(s, f, NewHeader(n), <<RowLine(1 + Len(rs))>>, RowOf(n, t, q))
    PROVE  Wrote(D, F, o, rs, ok, t, q, r)
<1> PICK m, row, h, line, p : /\ m = NoNewHeader(n) /\ row = RowOf(n, t, q) /\ h = NewHeader(n)
                              /\ line = <<RowLine(1 + Len(rs))>> /\ p = n.FilePeriod
  OBVIOUS
<1>1. r = State(dirs, Lengthened(G, f, h, line), m, Append(rs, row), ok)
  BY RowIs
<1>2. /\ m \in Object /\ m.FileName = n.FileName /\ m.ParentCollection = n.ParentCollection
      /\ m.FilePeriod = n.FilePeriod /\ m.FileSeqNum = n.FileSeqNum /\ m.TimeIndex = n.TimeIndex
      /\ m.data_fd = n.data_fd /\ m.isNewHeader = FALSE
  BY NoNewHeaderIs, Zenon
<1>3. RowOf(m, t, q) = row
  BY <1>2 DEF RowOf
<1>4. IsOpenFor(m, f, t, q, dirs) /\ Kept(m, o)
  BY <1>2 DEF IsOpenFor, Kept
<1>5. p \in Periods /\ f \in Name /\ o.ParentCollection \in Headers \cup {None} /\ n.ParentCollection = o.ParentCollection
  BY DEF IsOpenFor, Object, Kept
<1>6. Lengthened(G, f, h, line) = With(F, f, LinesAfter(F, f, o, rs, t, p))
  <2>1. CASE f \in DOMAIN F /\ G = F /\ n.isNewHeader = o.isNewHeader
    <3>1. h = Heading(F, f, o) /\ Before(F, f, t, p) = F[f]
      BY <1>5, <2>1 DEF Heading, NewHeader, Before
    <3>2. LinesAfter(F, f, o, rs, t, p) = F[f] \o h \o line
      BY <3>1 DEF LinesAfter
    <3>3. [F EXCEPT ![f] = F[f] \o h \o line] = With(F, f, F[f] \o h \o line)
      BY <2>1 DEF With, IsFiles
    <3> QED  BY <2>1, <3>2, <3>3 DEF Lengthened
  <2>2. CASE /\ f \notin DOMAIN F /\ n.isNewHeader = FALSE
             /\ G = With(F, f, <<IdLine(t, p)>> \o HeaderLine(o.ParentCollection))
    <3> PICK first : first = <<IdLine(t, p)>> \o HeaderLine(o.ParentCollection)
      OBVIOUS
    <3>1. h = <<>> /\ Heading(F, f, o) = HeaderLine(o.ParentCollection) /\ Before(F, f, t, p) = <<IdLine(t, p)>>
      BY <2>2 DEF Heading, NewHeader, Before
    <3>2. first \in Seq(Line)
      BY <1>5, IdLineIs, HeaderLineIs
    <3>3. LinesAfter(F, f, o, rs, t, p) = first \o h \o line
      <4>1. first \o h = first
        BY <3>1, <3>2
      <4> QED  BY <3>1, <4>1 DEF LinesAfter
    <3>4. G[f] = first /\ DOMAIN G = DOMAIN F \cup {f}
      BY <2>2 DEF With
    <3>5. \A g \in DOMAIN F : g # f => G[g] = F[g]
      BY <2>2 DEF With
    <3>6. G = [g \in DOMAIN G |-> G[g]]
      BY <2>2 DEF With
    <3> PICK x : x = first \o h \o line
      OBVIOUS
    <3>7. [G EXCEPT ![f] = x] = With(F, f, x)
      BY <3>4, <3>5, <3>6 DEF With
    <3> QED  BY <3>3, <3>4, <3>7 DEF Lengthened
  <2> QED  BY <2>1, <2>2
<1>7. r = State(dirs, With(F, f, LinesAfter(F, f, o, rs, t, m.FilePeriod)), m, Append(rs, RowOf(m, t, q)), ok)
  BY <1>1, <1>2, <1>3, <1>6
<1> QED  BY <1>2, <1>4, <1>7 DEF Wrote

IsTrue(ok) == ok = TRUE

LEMMA WriteOutcome ==
    ASSUME PeriodsApart, NEW D, NEW F, NEW o \in Object, NEW rs, NEW ok, IsTrue(ok), NEW s, s = State(D, F, o, rs, ok),
           IsFiles(F), FilesOk(F, rs, D), OpenOk(o, F, rs),
           NEW t \in Times, NEW q \in Nat, NEW obstacle, NEW r, r = Write(s, t, q, obstacle)
    PROVE  NotOpened(D, F, o, rs, r) \/ Wrote(D, F, o, rs, ok, t, q, r)
<1> DEFINE s1 == SetRetry(s, q)
<1> PICK o1 : o1 = Retried(o, q)
  OBVIOUS
<1>1. s1 = State(D, F, o1, rs, ok)
  <2>1. SetRetry(State(D, F, o, rs, ok), q) = State(D, F, Retried(o, q), rs, ok)
    BY RetryIs
  <2> QED  BY <2>1
<1>2. /\ o1 \in Object /\ o1.FileName = o.FileName /\ o1.ParentCollection = o.ParentCollection
      /\ o1.FilePeriod = o.FilePeriod /\ o1.FileSeqNum = q /\ o1.data_fd = None /\ o1.isNewHeader = o.isNewHeader
  BY RetriedIs
<1> PICK ready : ready = IF IsCurrent(s.object, t, q)
                         THEN IF s.object.data_fd # None THEN s ELSE OpenForWriting(s, t, q, obstacle)
                         ELSE OpenForWriting(s1, t, q, obstacle)
  OBVIOUS
<1>3. \/ (~ready.ok \/ ready.object.data_fd = None) /\ r = SetFailed(ready)
      \/ /\ ~(~ready.ok \/ ready.object.data_fd = None)
         /\ r = SetRow(ready, ready.object.data_fd, NewHeader(ready.object), <<RowLine(1 + Len(ready.rows))>>,
                       RowOf(ready.object, t, q))
  BY WriteSplit, ZenonT(40)
<1> HIDE DEF s1
<1>4. s.object = o
  BY StateParts
<1>5. ASSUME NEW n \in Object, Kept(n, o), n.isNewHeader = o.isNewHeader, NotOpened(D, F, n, rs, ready)
      PROVE  NotOpened(D, F, o, rs, r)
  <2>1. PICK dirs : \E m \in Object : /\ ready = FailedState(dirs, F, m, rs) /\ D \subseteq dirs
                                      /\ m.data_fd = None /\ Kept(m, n) /\ m.isNewHeader = n.isNewHeader
    BY <1>5 DEF NotOpened
  <2>2. PICK m \in Object : /\ ready = FailedState(dirs, F, m, rs) /\ D \subseteq dirs
                            /\ m.data_fd = None /\ Kept(m, n) /\ m.isNewHeader = n.isNewHeader
    BY <2>1
  <2>3. ready = State(dirs, F, m, rs, FALSE)
    BY <2>2 DEF FailedState
  <2>4. ready.object.data_fd = None
    <3>1. ASSUME NEW no, ready = State(dirs, F, m, rs, no)
          PROVE  ready.object = m
      BY <3>1, StateParts
    <3>2. ready.object = m
      BY <2>3, <3>1, Zenon
    <3> QED  BY <2>2, <3>2
  <2>5. r = SetFailed(ready)
    BY <1>3, <2>4
  <2>6. SetFailed(State(dirs, F, m, rs, FALSE)) = FailedState(dirs, F, m, rs)
    BY FailedIs
  <2>7. r = FailedState(dirs, F, m, rs)
    BY <2>3, <2>5, <2>6, Zenon
  <2> QED  BY <1>5, <2>2, <2>7 DEF NotOpened, Kept
<1>6. ASSUME NEW dirs, NEW G, NEW f, NEW n \in Object, ready = State(dirs, G, n, rs, ok), D \subseteq dirs,
             IsOpenFor(n, f, t, q, dirs), Kept(n, o), f \in DOMAIN F \/ f.name = o.FileName,
             \/ f \in DOMAIN F /\ G = F /\ n.isNewHeader = o.isNewHeader
             \/ /\ f \notin DOMAIN F /\ n.isNewHeader = FALSE
                /\ G = With(F, f, <<IdLine(t, n.FilePeriod)>> \o HeaderLine(o.ParentCollection))
      PROVE  Wrote(D, F, o, rs, ok, t, q, r)
  <2>1. ready.ok = ok /\ ready.object = n /\ ready.rows = rs
    BY <1>6, StateParts
  <2>2. n.data_fd = f /\ f # None
    BY <1>6 DEF IsOpenFor
  <2>3. r = SetRow(ready, f, NewHeader(n), <<RowLine(1 + Len(rs))>>, RowOf(n, t, q))
    BY <1>3, <2>1, <2>2 DEF IsTrue
  <2> QED  BY <1>6, <2>3, RowAdded
<1>7. ASSUME NEW n \in Object, Kept(n, o), n.isNewHeader = o.isNewHeader, IsOpened(D, F, n, rs, ok, t, q, ready)
      PROVE  Wrote(D, F, o, rs, ok, t, q, r)
  <2>1. PICK dirs, G, f : \E m \in Object :
            /\ ready = State(dirs, G, m, rs, ok) /\ D \subseteq dirs
            /\ IsOpenFor(m, f, t, q, dirs) /\ f.name = n.FileName /\ Kept(m, n)
            /\ \/ f \in DOMAIN F /\ G = F /\ m.isNewHeader = n.isNewHeader
               \/ /\ f \notin DOMAIN F /\ m.isNewHeader = FALSE
                  /\ G = With(F, f, <<IdLine(t, m.FilePeriod)>> \o HeaderLine(n.ParentCollection))
    BY <1>7 DEF IsOpened
  <2>2. PICK m \in Object :
            /\ ready = State(dirs, G, m, rs, ok) /\ D \subseteq dirs
            /\ IsOpenFor(m, f, t, q, dirs) /\ f.name = n.FileName /\ Kept(m, n)
            /\ \/ f \in DOMAIN F /\ G = F /\ m.isNewHeader = n.isNewHeader
               \/ /\ f \notin DOMAIN F /\ m.isNewHeader = FALSE
                  /\ G = With(F, f, <<IdLine(t, m.FilePeriod)>> \o HeaderLine(n.ParentCollection))
    BY <2>1
  <2>3. Kept(m, o) /\ f.name = o.FileName /\ n.ParentCollection = o.ParentCollection
    BY <1>7, <2>2 DEF Kept
  <2>4. \/ f \in DOMAIN F /\ G = F /\ m.isNewHeader = o.isNewHeader
        \/ /\ f \notin DOMAIN F /\ m.isNewHeader = FALSE
           /\ G = With(F, f, <<IdLine(t, m.FilePeriod)>> \o HeaderLine(o.ParentCollection))
    BY <1>7, <2>2, <2>3
  <2> QED  BY <1>6, <2>2, <2>3, <2>4
<1>8. CASE ~IsCurrent(o, t, q)
  <2>1. ready = OpenForWriting(s1, t, q, obstacle)
    BY <1>4, <1>8
  <2>2. NotOpened(D, F, o1, rs, ready) \/ IsOpened(D, F, o1, rs, ok, t, q, ready)
    BY <1>1, <1>2, <2>1, OpenOutcome
  <2> QED  BY <1>2, <1>5, <1>7, <2>2 DEF Kept
<1>9. CASE IsCurrent(o, t, q) /\ o.data_fd = None
  <2>1. ready = OpenForWriting(s, t, q, obstacle)
    BY <1>4, <1>9
  <2>2. o.FileSeqNum = q
    BY <1>9 DEF IsCurrent
  <2>3. NotOpened(D, F, o, rs, ready) \/ IsOpened(D, F, o, rs, ok, t, q, ready)
    BY <1>9, <2>1, <2>2, OpenOutcome
  <2> QED  BY <1>5, <1>7, <2>3 DEF Kept
<1>10. CASE IsCurrent(o, t, q) /\ o.data_fd # None
  <2>1. ready = s
    BY <1>4, <1>10
  <2>2. IsOpenFor(o, o.data_fd, t, q, D) /\ o.data_fd \in DOMAIN F
    BY <1>10, CurrentIsOpen
  <2>3. ready = State(D, F, o, rs, ok) /\ D \subseteq D /\ Kept(o, o) /\ o.isNewHeader = o.isNewHeader
    BY <2>1 DEF Kept
  <2> QED  BY <1>6, <2>2, <2>3
<1> QED  BY <1>8, <1>9, <1>10
-----------------------------------------------------------------------------
(* A row that is not written *)

LEMMA GoodWhenFailed ==
    ASSUME NEW D, NEW F, NEW o, NEW rs, Good(D, F, o, rs), NEW r, NotOpened(D, F, o, rs, r)
    PROVE  \E dirs, n : r = FailedState(dirs, F, n, rs) /\ Good(dirs, F, n, rs) /\ Kept(n, o)
<1>1. PICK dirs : \E n \in Object : /\ r = FailedState(dirs, F, n, rs) /\ D \subseteq dirs
                                    /\ n.data_fd = None /\ Kept(n, o) /\ n.isNewHeader = o.isNewHeader
  BY DEF NotOpened
<1>2. PICK n \in Object : /\ r = FailedState(dirs, F, n, rs) /\ D \subseteq dirs
                          /\ n.data_fd = None /\ Kept(n, o) /\ n.isNewHeader = o.isNewHeader
  BY <1>1
<1>3. FilesOk(F, rs, dirs)
  BY <1>2 DEF Good, FilesOk, FileOk
<1>4. OpenOk(n, F, rs)
  BY <1>2 DEF OpenOk
<1>5. Announced(o, F, rs) => Announced(n, F, rs)
  BY <1>2 DEF Announced, Kept
<1>6. Good(dirs, F, n, rs)
  BY <1>3, <1>4, <1>5 DEF Good
<1> QED  BY <1>2, <1>6

-----------------------------------------------------------------------------
(* A row that is written *)

LEMMA LinesAre ==
    ASSUME NEW B \in Seq(Line), NEW H \in Seq(Line), NEW x \in Line
    PROVE  LET L == B \o H \o <<x>>
           IN  /\ L \in Seq(Line) /\ Len(L) = Len(B) + Len(H) + 1
               /\ \A k \in 1 .. Len(B) : L[k] = B[k]
               /\ \A k \in 1 .. Len(H) : L[Len(B) + k] = H[k]
               /\ L[Len(L)] = x
<1> PICK L, C : C = B \o H /\ L = C \o <<x>>
  OBVIOUS
<1>1. C \in Seq(Line) /\ Len(C) = Len(B) + Len(H) /\ Len(B) \in Nat /\ Len(H) \in Nat
      /\ \A k \in 1 .. Len(C) : C[k] = IF k <= Len(B) THEN B[k] ELSE H[k - Len(B)]
  OBVIOUS
<1>2. L \in Seq(Line) /\ Len(L) = Len(C) + 1
      /\ (\A k \in 1 .. Len(C) : L[k] = C[k]) /\ L[Len(C) + 1] = x
  BY <1>1
<1>3. \A k \in 1 .. Len(B) : L[k] = B[k]
  BY <1>1, <1>2
<1>4. \A k \in 1 .. Len(H) : L[Len(B) + k] = H[k]
  BY <1>1, <1>2
<1> QED  BY <1>1, <1>2, <1>3, <1>4

\* The lines of the file of a row, after it has been written: those before, a
\* header at most, and the row.
IsWritten(L, F, f, o, rs, t, p) ==
    LET B == Before(F, f, t, p)
        H == Heading(F, f, o)
    IN  /\ B \in Seq(Line) /\ Len(B) >= 1 /\ Len(H) \in 0 .. 1 /\ L \in Seq(Line)
        /\ Len(L) = Len(B) + Len(H) + 1
        /\ \A k \in 1 .. Len(B) : L[k] = B[k]
        /\ L[Len(L)] = RowLine(Len(rs) + 1)
        /\ Len(H) = 1 => L[Len(B) + 1] = HeaderOf(o.ParentCollection)
        /\ Len(H) = 0 /\ o.ParentCollection # None => f \in DOMAIN F /\ ~o.isNewHeader

LEMMA WrittenIs ==
    ASSUME NEW D, NEW F, NEW o, NEW rs, Good(D, F, o, rs), NEW f, NEW t \in Times, NEW p \in Periods
    PROVE  IsWritten(LinesAfter(F, f, o, rs, t, p), F, f, o, rs, t, p)
<1> PICK B, H, x, L : /\ B = Before(F, f, t, p) /\ H = Heading(F, f, o) /\ x = RowLine(Len(rs) + 1)
                      /\ L = LinesAfter(F, f, o, rs, t, p)
  OBVIOUS
<1>1. o.ParentCollection \in Headers \cup {None} /\ Len(rs) \in Nat
  BY DEF Good, Object
<1>2. B \in Seq(Line) /\ Len(B) >= 1
  <2>1. CASE f \in DOMAIN F
    BY <2>1 DEF Before, Good, FilesOk, FileOk, IsFiles
  <2>2. CASE f \notin DOMAIN F
    BY <2>2, IdLineIs DEF Before
  <2> QED  BY <2>1, <2>2
<1>3. /\ H \in Seq(Line) /\ Len(H) \in 0 .. 1 /\ (Len(H) = 1 => H[1] = HeaderOf(o.ParentCollection))
      /\ Len(H) = 0 /\ o.ParentCollection # None => f \in DOMAIN F /\ ~o.isNewHeader
  BY <1>1, HeaderLineIs DEF Heading
<1>4. x \in Line
  BY <1>1 DEF RowLine, Line, RowLines
<1>5. L = B \o H \o <<x>>
  BY <1>1 DEF LinesAfter
<1>6. /\ L \in Seq(Line) /\ Len(L) = Len(B) + Len(H) + 1
      /\ \A k \in 1 .. Len(B) : L[k] = B[k]
      /\ \A k \in 1 .. Len(H) : L[Len(B) + k] = H[k]
      /\ L[Len(L)] = x
  BY <1>2, <1>3, <1>4, <1>5, LinesAre
<1>7. Len(H) = 1 => L[Len(B) + 1] = HeaderOf(o.ParentCollection)
  BY <1>3, <1>6
<1> QED  BY <1>2, <1>3, <1>6, <1>7 DEF IsWritten

\* Below, a row is written into the file f of the object n.
Writes(D, F, o, rs, t, q, dirs, f, n, L, row) ==
    /\ Good(D, F, o, rs) /\ n \in Object /\ D \subseteq dirs /\ IsOpenFor(n, f, t, q, dirs) /\ Kept(n, o)
    /\ n.isNewHeader = FALSE /\ (f \in DOMAIN F \/ f.name = o.FileName)
    /\ L = LinesAfter(F, f, o, rs, t, n.FilePeriod) /\ row = RowOf(n, t, q)

LEMMA RowIsTyped ==
    ASSUME NEW D, NEW F, NEW o, NEW rs, NEW t \in Times, NEW q \in Nat, NEW dirs, NEW f, NEW n, NEW L, NEW row,
           Writes(D, F, o, rs, t, q, dirs, f, n, L, row)
    PROVE  /\ row \in Row /\ row.time = t /\ row.seq = q /\ row.name = o.FileName /\ row.period = n.FilePeriod
           /\ row.header = o.ParentCollection /\ row.whole = (Len(f.dir) = Len(f.prefix))
           /\ rs \in Seq(Row) /\ Append(rs, row) \in Seq(Row) /\ Len(Append(rs, row)) = Len(rs) + 1 /\ Len(rs) \in Nat
           /\ (\A i \in DOMAIN rs : i \in DOMAIN Append(rs, row) /\ Append(rs, row)[i] = rs[i])
           /\ Append(rs, row)[Len(rs) + 1] = row
           /\ DOMAIN rs = 1 .. Len(rs) /\ DOMAIN Append(rs, row) = 1 .. Len(rs) + 1
<1>1. n \in Object /\ n.data_fd = f /\ n.FilePeriod \in Periods /\ n.FileName = o.FileName
      /\ n.ParentCollection = o.ParentCollection /\ row = RowOf(n, t, q) /\ rs \in Seq(Row)
  BY DEF Writes, IsOpenFor, Kept, Good
<1>2. /\ row.time = t /\ row.seq = q /\ row.name = o.FileName /\ row.period = n.FilePeriod
      /\ row.header = o.ParentCollection /\ row.whole = (Len(f.dir) = Len(f.prefix))
  BY <1>1 DEF RowOf
<1>3. row \in Row
  BY <1>1 DEF RowOf, Row, Object
<1>4. /\ Append(rs, row) \in Seq(Row) /\ Len(Append(rs, row)) = Len(rs) + 1 /\ Len(rs) \in Nat
      /\ (\A i \in DOMAIN rs : i \in DOMAIN Append(rs, row) /\ Append(rs, row)[i] = rs[i])
      /\ Append(rs, row)[Len(rs) + 1] = row
      /\ DOMAIN rs = 1 .. Len(rs) /\ DOMAIN Append(rs, row) = 1 .. Len(rs) + 1
  BY <1>1, <1>3
<1> QED  BY <1>1, <1>2, <1>3, <1>4

LEMMA Kinds ==
    /\ \A n : RowLine(n).kind = "row" /\ RowLine(n).n = n
    /\ \A h : HeaderOf(h).kind = "header" /\ HeaderOf(h).header = h
    /\ \A x \in Line : x.kind = "row" => x = RowLine(x.n) /\ x.n \in Nat
    /\ \A x \in Line : x.kind = "header" => x = HeaderOf(x.header)
BY DEF RowLine, HeaderOf, Line, IdLines, HeaderLines, RowLines

\* The files G after a row has become the last line of L in the file f: the
\* lines of the files F are where they were, and there is no other row.
IsAfter(F, G, f, L, rs) ==
    /\ IsFiles(G) /\ DOMAIN G = DOMAIN F \cup {f} /\ G[f] = L
    /\ \A g \in DOMAIN F : g # f => G[g] = F[g]
    /\ \A g \in DOMAIN F : /\ Len(F[g]) \in Nat /\ Len(G[g]) \in Nat /\ Len(F[g]) <= Len(G[g])
                           /\ \A k \in 1 .. Len(F[g]) : G[g][k] = F[g][k]
    /\ \A g \in DOMAIN G : \A k \in 1 .. Len(G[g]) : G[g][k].kind = "row" =>
          \/ g \in DOMAIN F /\ k \in 1 .. Len(F[g]) /\ F[g][k].kind = "row" /\ F[g][k].n \in DOMAIN rs
          \/ g = f /\ k = Len(L) /\ G[g][k] = RowLine(Len(rs) + 1)

LEMMA FilesAfter ==
    ASSUME NEW D, NEW F, NEW o, NEW rs, NEW t \in Times, NEW q \in Nat, NEW dirs, NEW f, NEW n, NEW L, NEW row,
           Writes(D, F, o, rs, t, q, dirs, f, n, L, row), NEW G, G = With(F, f, L)
    PROVE  IsAfter(F, G, f, L, rs)
<1> PICK p : p = n.FilePeriod
  OBVIOUS
<1>1. /\ Good(D, F, o, rs) /\ p \in Periods /\ f \in Name /\ L = LinesAfter(F, f, o, rs, t, p) /\ IsFiles(F)
      /\ \A g \in DOMAIN F : F[g] \in Seq(Line)
      /\ \A g \in DOMAIN F : \A k \in 1 .. Len(F[g]) : F[g][k].kind = "row" => F[g][k].n \in DOMAIN rs
  BY DEF Writes, IsOpenFor, Good, IsFiles, FilesOk, FileOk
<1>2. IsWritten(L, F, f, o, rs, t, p)
  BY <1>1, WrittenIs
<1> PICK B, H : B = Before(F, f, t, p) /\ H = Heading(F, f, o)
  OBVIOUS
<1>3. /\ B \in Seq(Line) /\ Len(B) \in Nat \ {0} /\ Len(H) \in 0 .. 1 /\ L \in Seq(Line)
      /\ Len(L) = Len(B) + Len(H) + 1
      /\ \A k \in 1 .. Len(B) : L[k] = B[k]
      /\ L[Len(L)] = RowLine(Len(rs) + 1)
      /\ Len(H) = 1 => L[Len(B) + 1] = HeaderOf(o.ParentCollection)
  BY <1>2 DEF IsWritten
<1>4. DOMAIN G = DOMAIN F \cup {f} /\ G[f] = L /\ \A g \in DOMAIN F : g # f => G[g] = F[g]
  BY DEF With
<1>5. IsFiles(G)
  <2>1. G \in [DOMAIN G -> Seq(Line)]
    <3>1. \A g \in DOMAIN G : G[g] \in Seq(Line)
      BY <1>1, <1>3, <1>4
    <3>2. G = [g \in DOMAIN G |-> G[g]]
      BY DEF With
    <3> QED  BY <3>1, <3>2
  <2>2. DOMAIN G \subseteq Name
    BY <1>1, <1>4 DEF IsFiles
  <2> QED  BY <2>1, <2>2 DEF IsFiles
<1>6. ASSUME NEW g \in DOMAIN F
      PROVE  /\ Len(F[g]) \in Nat /\ Len(G[g]) \in Nat /\ Len(F[g]) <= Len(G[g])
             /\ \A k \in 1 .. Len(F[g]) : G[g][k] = F[g][k]
  <2>1. CASE g # f
    BY <1>1, <1>4, <2>1
  <2>2. CASE g = f
    <3>1. B = F[g] /\ G[g] = L
      BY <1>4, <2>2 DEF Before
    <3> QED  BY <1>3, <3>1
  <2> QED  BY <2>1, <2>2
<1>7. ASSUME NEW g \in DOMAIN G, NEW k \in 1 .. Len(G[g]), G[g][k].kind = "row"
      PROVE  \/ g \in DOMAIN F /\ k \in 1 .. Len(F[g]) /\ F[g][k].kind = "row" /\ F[g][k].n \in DOMAIN rs
             \/ g = f /\ k = Len(L) /\ G[g][k] = RowLine(Len(rs) + 1)
  <2>1. CASE g # f
    <3>1. g \in DOMAIN F /\ G[g] = F[g]
      BY <1>4, <2>1
    <3> QED  BY <1>1, <1>7, <3>1
  <2>2. CASE g = f
    <3>1. G[g] = L /\ k \in Nat
      BY <1>4, <2>2
    <3>2. CASE k <= Len(B)
      <4>1. k \in 1 .. Len(B) /\ B[k].kind = "row"
        BY <1>3, <1>7, <3>1, <3>2
      <4>2. f \in DOMAIN F
        <5>1. SUFFICES ASSUME f \notin DOMAIN F
                       PROVE  FALSE
          OBVIOUS
        <5>2. B = <<IdLine(t, p)>>
          BY <5>1 DEF Before
        <5>3. IdLine(t, p).kind = "id"
          BY <1>1, IdLineIs
        <5> QED  BY <4>1, <5>2, <5>3
      <4>3. B = F[g]
        BY <2>2, <4>2 DEF Before
      <4> QED  BY <1>1, <2>2, <4>1, <4>2, <4>3
    <3>3. CASE k > Len(B) /\ k # Len(L)
      <4>1. Len(H) = 1 /\ k = Len(B) + 1
        <5>1. k \in 1 .. Len(L)
          BY <3>1
        <5>2. CASE Len(H) = 0
          BY <1>3, <3>1, <3>3, <5>1, <5>2
        <5>3. CASE Len(H) = 1
          BY <1>3, <3>1, <3>3, <5>1, <5>3
        <5> QED  BY <1>3, <5>2, <5>3
      <4>2. L[k] = HeaderOf(o.ParentCollection)
        BY <1>3, <4>1
      <4>3. L[k].kind = "header"
        BY <4>2, Kinds
      <4> QED  BY <1>7, <3>1, <4>3
    <3>4. CASE k = Len(L)
      BY <1>3, <2>2, <3>1, <3>4
    <3> QED  BY <1>3, <3>1, <3>2, <3>3, <3>4
  <2> QED  BY <2>1, <2>2
<1> QED  BY <1>4, <1>5, <1>6, <1>7 DEF IsAfter

LEMMA PlacesAfter ==
    ASSUME NEW D, NEW F, NEW o, NEW rs, NEW t \in Times, NEW q \in Nat, NEW dirs, NEW f, NEW n, NEW L, NEW row,
           Writes(D, F, o, rs, t, q, dirs, f, n, L, row), NEW G, G = With(F, f, L)
    PROVE  Places(G, Append(rs, row))
<1> PICK N : N = Len(rs)
  OBVIOUS
<1>1. N \in Nat /\ DOMAIN rs = 1 .. N /\ DOMAIN Append(rs, row) = 1 .. N + 1
  BY RowIsTyped
<1>2. Places(F, rs)
  BY DEF Writes, Good
<1>3. /\ DOMAIN G = DOMAIN F \cup {f} /\ G[f] = L
      /\ \A g \in DOMAIN F : /\ Len(F[g]) \in Nat /\ Len(G[g]) \in Nat /\ Len(F[g]) <= Len(G[g])
                             /\ \A k \in 1 .. Len(F[g]) : G[g][k] = F[g][k]
      /\ \A g \in DOMAIN G : \A k \in 1 .. Len(G[g]) : G[g][k].kind = "row" =>
            \/ g \in DOMAIN F /\ k \in 1 .. Len(F[g]) /\ F[g][k].kind = "row" /\ F[g][k].n \in DOMAIN rs
            \/ g = f /\ k = Len(L) /\ G[g][k] = RowLine(N + 1)
  <2>1. IsAfter(F, G, f, L, rs)
    BY FilesAfter
  <2> QED  BY <2>1 DEF IsAfter
<1>4. L \in Seq(Line) /\ Len(L) \in Nat \ {0} /\ L[Len(L)] = RowLine(N + 1)
  <2>1. n.FilePeriod \in Periods /\ Good(D, F, o, rs) /\ L = LinesAfter(F, f, o, rs, t, n.FilePeriod)
    BY DEF Writes, IsOpenFor
  <2>2. IsWritten(L, F, f, o, rs, t, n.FilePeriod)
    BY <2>1, WrittenIs
  <2> QED  BY <2>2 DEF IsWritten
<1>5. ASSUME NEW i \in 1 .. N, NEW g \in DOMAIN G, NEW k \in 1 .. Len(G[g]), G[g][k] = RowLine(i)
      PROVE  g \in DOMAIN F /\ k \in 1 .. Len(F[g]) /\ F[g][k] = RowLine(i)
  <2>1. G[g][k].kind = "row" /\ G[g][k].n = i /\ RowLine(N + 1).n = N + 1
    BY <1>5, Kinds
  <2>2. G[g][k] # RowLine(N + 1)
    BY <1>1, <2>1
  <2> QED  BY <1>3, <1>5, <2>1, <2>2
<1>6. ASSUME NEW g \in DOMAIN G, NEW k \in 1 .. Len(G[g]), G[g][k] = RowLine(N + 1)
      PROVE  g = f /\ k = Len(L)
  <2>1. G[g][k].kind = "row" /\ G[g][k].n = N + 1
    BY <1>6, Kinds
  <2>2. ASSUME g \in DOMAIN F, k \in 1 .. Len(F[g]), F[g][k].n \in DOMAIN rs
        PROVE  FALSE
    <3>1. F[g][k] = G[g][k]
      BY <1>3, <2>2
    <3> QED  BY <1>1, <2>1, <2>2, <3>1
  <2> QED  BY <1>3, <2>1, <2>2
<1>7. ASSUME NEW i \in 1 .. N
      PROVE  Placed(G, i) /\ PlacedOnce(G, i)
  <2>1. Placed(F, i) /\ PlacedOnce(F, i)
    BY <1>1, <1>2 DEF Places
  <2>2. PICK g \in DOMAIN F : \E k \in 1 .. Len(F[g]) : F[g][k] = RowLine(i)
    BY <2>1 DEF Placed
  <2>3. PICK k \in 1 .. Len(F[g]) : F[g][k] = RowLine(i)
    BY <2>2
  <2>4. g \in DOMAIN G /\ k \in 1 .. Len(G[g]) /\ G[g][k] = RowLine(i)
    BY <1>3, <2>3
  <2>5. Placed(G, i)
    BY <2>4 DEF Placed
  <2>6. PlacedOnce(G, i)
    BY <1>5, <2>1 DEF PlacedOnce
  <2> QED  BY <2>5, <2>6
<1>8. Placed(G, N + 1) /\ PlacedOnce(G, N + 1)
  <2>1. f \in DOMAIN G /\ Len(L) \in 1 .. Len(G[f]) /\ G[f][Len(L)] = RowLine(N + 1)
    BY <1>3, <1>4
  <2>2. Placed(G, N + 1)
    BY <2>1 DEF Placed
  <2>3. PlacedOnce(G, N + 1)
    BY <1>6 DEF PlacedOnce
  <2> QED  BY <2>2, <2>3
<1>9. \A i \in 1 .. N + 1 : i \in 1 .. N \/ i = N + 1
  BY <1>1
<1> QED  BY <1>1, <1>7, <1>8, <1>9 DEF Places

\* Row i of the file g belongs there, before and after row number N + 1 has been added.
LEMMA FileOkLater ==
    ASSUME NEW g, NEW lines, NEW rs \in Seq(Row), NEW row \in Row, NEW D, NEW dirs, D \subseteq dirs, FileOk(g, lines, rs, D)
    PROVE  FileOk(g, lines, Append(rs, row), dirs)
<1> PICK rs2 : rs2 = Append(rs, row)
  OBVIOUS
<1>1. Len(rs) \in Nat /\ Len(rs2) = Len(rs) + 1 /\ \A i \in DOMAIN rs : i \in DOMAIN rs2 /\ rs2[i] = rs[i]
  OBVIOUS
<1>2. Identified(g, lines) /\ Len(lines) >= 2 /\ \A k \in 2 .. Len(lines) : lines[k].kind # "id"
  BY DEF FileOk
<1>3. Len(lines) <= 1 + 2 * Len(rs2)
  BY <1>1 DEF FileOk
<1>4. \A k \in 1 .. Len(lines) : lines[k].kind = "row" => lines[k].n \in DOMAIN rs2 /\ Filed(g, lines[1], rs2[lines[k].n])
  BY <1>1 DEF FileOk
<1>5. \E k \in 1 .. Len(lines) : lines[k].kind = "row" /\ rs2[lines[k].n].name = g.name
  <2>1. PICK k \in 1 .. Len(lines) : lines[k].kind = "row" /\ rs[lines[k].n].name = g.name
    BY DEF FileOk
  <2>2. lines[k].n \in DOMAIN rs
    BY <2>1 DEF FileOk
  <2> QED  BY <1>1, <2>1, <2>2
<1>6. \A i \in 0 .. Len(g.dir) : Upto(g.dir, i) \in dirs
  BY DEF FileOk
<1> QED  BY <1>2, <1>3, <1>4, <1>5, <1>6 DEF FileOk

LEMMA FilesOkAfter ==
    ASSUME PeriodsApart,
           NEW D, NEW F, NEW o, NEW rs, NEW t \in Times, NEW q \in Nat, NEW dirs, NEW f, NEW n, NEW L, NEW row,
           Writes(D, F, o, rs, t, q, dirs, f, n, L, row), NEW G, G = With(F, f, L)
    PROVE  FilesOk(G, Append(rs, row), dirs)
<1> PICK N, rs2, p : N = Len(rs) /\ rs2 = Append(rs, row) /\ p = n.FilePeriod
  OBVIOUS
<1>1. /\ row \in Row /\ row.time = t /\ row.seq = q /\ row.name = o.FileName /\ row.period = p
      /\ row.whole = (Len(f.dir) = Len(f.prefix))
      /\ rs \in Seq(Row) /\ Len(rs2) = N + 1 /\ N \in Nat /\ rs2[N + 1] = row
      /\ DOMAIN rs = 1 .. N /\ DOMAIN rs2 = 1 .. N + 1
  BY RowIsTyped
<1>2. /\ IsAfter(F, G, f, L, rs) /\ Good(D, F, o, rs) /\ FilesOk(F, rs, D) /\ D \subseteq dirs /\ p \in Periods /\ f \in Name
      /\ L = LinesAfter(F, f, o, rs, t, p) /\ IsFileOf(f, t, p) /\ f.seq = FileNumber(f.name, q)
      /\ (\A i \in 0 .. Len(f.dir) : Upto(f.dir, i) \in dirs) /\ (f \in DOMAIN F \/ f.name = o.FileName)
  BY FilesAfter DEF Writes, IsOpenFor, Good
<1>3. ASSUME NEW g \in DOMAIN F
      PROVE  FileOk(g, F[g], rs2, dirs)
  <2>1. FileOk(g, F[g], rs, D)
    BY <1>2 DEF FilesOk
  <2> QED  BY <1>1, <1>2, <2>1, FileOkLater
<1>4. IsWritten(L, F, f, o, rs, t, p)
  BY <1>2, WrittenIs
<1> PICK B, H : B = Before(F, f, t, p) /\ H = Heading(F, f, o)
  OBVIOUS
<1>5. /\ B \in Seq(Line) /\ Len(B) \in Nat \ {0} /\ Len(H) \in 0 .. 1 /\ L \in Seq(Line)
      /\ Len(L) = Len(B) + Len(H) + 1
      /\ \A k \in 1 .. Len(B) : L[k] = B[k]
      /\ L[Len(L)] = RowLine(N + 1)
      /\ Len(H) = 1 => L[Len(B) + 1] = HeaderOf(o.ParentCollection)
  BY <1>4 DEF IsWritten
<1>11. /\ Len(L) \in Nat /\ Len(L) >= 2 /\ Len(L) <= Len(B) + 2
       /\ 1 \in 1 .. Len(B) /\ Len(L) \in 1 .. Len(L) /\ 1 .. Len(B) \subseteq 1 .. Len(L)
       /\ \A k \in 1 .. Len(L) : k \in 1 .. Len(B) \/ k = Len(L) \/ (Len(H) = 1 /\ k = Len(B) + 1)
       /\ \A k \in 2 .. Len(L) : k \in 2 .. Len(B) \/ k = Len(L) \/ (Len(H) = 1 /\ k = Len(B) + 1)
  <2>5. PICK b, h, l : b = Len(B) /\ h = Len(H) /\ l = Len(L)
    OBVIOUS
  <2>1. b \in Nat \ {0} /\ h \in 0 .. 1 /\ l = b + h + 1
    BY <1>5, <2>5
  <2>2. l \in Nat /\ l >= 2 /\ l <= b + 2 /\ 1 \in 1 .. b /\ l \in 1 .. l /\ 1 .. b \subseteq 1 .. l
    BY <2>1
  <2>3. ASSUME NEW k \in 1 .. l, ~(k \in 1 .. b), k # l
        PROVE  h = 1 /\ k = b + 1
    BY <2>1, <2>3
  <2>4. ASSUME NEW k \in 2 .. l, ~(k \in 2 .. b), k # l
        PROVE  h = 1 /\ k = b + 1
    BY <2>1, <2>4
  <2> QED  BY <2>2, <2>3, <2>4, <2>5
<1>6. Len(L) \in 1 .. Len(L) /\ L[Len(L)].kind = "row" /\ L[Len(L)].n = N + 1
  BY <1>5, <1>11, Kinds
<1>7. t \in Nat /\ p \in Nat \ {0}
  BY <1>2, PeriodIs, CmFileAssumption
<1>8. ASSUME f \notin DOMAIN F
      PROVE  FileOk(f, L, rs2, dirs)
  <2>1. B = <<IdLine(t, p)>> /\ Len(B) = 1 /\ L[1] = IdLine(t, p)
    BY <1>5, <1>8 DEF Before
  <2>2. Identified(f, L)
    BY <1>2, <2>1 DEF Identified
  <2>3. Len(L) >= 2 /\ Len(L) <= 1 + 2 * Len(rs2)
    <3> PICK l, m : l = Len(L) /\ m = Len(rs2)
      OBVIOUS
    <3>1. m = N + 1 /\ N \in Nat /\ l \in Nat /\ l >= 2 /\ l <= 1 + 2
      BY <1>1, <1>11, <2>1
    <3>2. l >= 2 /\ l <= 1 + 2 * m
      BY <3>1
    <3> QED  BY <3>2
  <2>4. ASSUME NEW k \in 2 .. Len(L)
        PROVE  L[k].kind # "id"
    <3>1. k = Len(L) \/ (Len(H) = 1 /\ k = Len(B) + 1)
      <4>1. k \notin 2 .. 1
        OBVIOUS
      <4> QED  BY <1>11, <2>1, <4>1
    <3>2. HeaderOf(o.ParentCollection).kind = "header"
      BY Kinds
    <3> QED  BY <1>5, <1>6, <3>1, <3>2
  <2>5. ASSUME NEW k \in 1 .. Len(L), L[k].kind = "row"
        PROVE  L[k].n \in DOMAIN rs2 /\ Filed(f, L[1], rs2[L[k].n])
    <3>1. k = Len(L)
      BY <1>2, <1>8, <2>5 DEF IsAfter
    <3>2. Filed(f, L[1], row)
      BY <1>1, <1>2, <2>1 DEF Filed
    <3> QED  BY <1>1, <1>6, <3>1, <3>2
  <2>6. rs2[L[Len(L)].n].name = f.name
    BY <1>1, <1>2, <1>6, <1>8
  <2>7. \A i \in 0 .. Len(f.dir) : Upto(f.dir, i) \in dirs
    BY <1>2
  <2>8. \E k \in 1 .. Len(L) : L[k].kind = "row" /\ rs2[L[k].n].name = f.name
    BY <1>6, <2>6
  <2>9. (\A k \in 2 .. Len(L) : L[k].kind # "id")
        /\ \A k \in 1 .. Len(L) : L[k].kind = "row" => L[k].n \in DOMAIN rs2 /\ Filed(f, L[1], rs2[L[k].n])
    BY <2>4, <2>5
  <2>10. FileOk(f, L, rs2, dirs)
    BY <2>2, <2>3, <2>7, <2>8, <2>9, Zenon DEF FileOk
  <2> QED  BY <2>10
<1>9. ASSUME f \in DOMAIN F
      PROVE  FileOk(f, L, rs2, dirs)
  <2>1. B = F[f] /\ L[1] = F[f][1]
    <3>1. B = F[f]
      BY <1>9 DEF Before
    <3>2. L[1] = B[1]
      BY <1>5, <1>11
    <3> QED  BY <3>1, <3>2
  <2>2. /\ FileOk(f, F[f], rs2, dirs) /\ FileOk(f, F[f], rs, D)
    BY <1>2, <1>3, <1>9 DEF FilesOk
  <2>3. Identified(f, L)
    BY <2>1, <2>2 DEF Identified, FileOk
  <2>4. Len(B) >= 2 /\ Len(B) <= 1 + 2 * N
    BY <2>1, <2>2 DEF FileOk
  <2>5. Len(L) >= 2 /\ Len(L) <= 1 + 2 * Len(rs2)
    <3> PICK l, m, b : l = Len(L) /\ m = Len(rs2) /\ b = Len(B)
      OBVIOUS
    <3>1. m = N + 1 /\ N \in Nat /\ l \in Nat /\ l >= 2 /\ l <= b + 2 /\ b \in Nat /\ b <= 1 + 2 * N
      BY <1>1, <1>5, <1>11, <2>4
    <3>2. l >= 2 /\ l <= 1 + 2 * m
      BY <3>1
    <3> QED  BY <3>2
  <2>6. ASSUME NEW k \in 2 .. Len(L)
        PROVE  L[k].kind # "id"
    <3>1. k \in 2 .. Len(B) \/ k = Len(L) \/ (Len(H) = 1 /\ k = Len(B) + 1)
      BY <1>11
    <3>2. HeaderOf(o.ParentCollection).kind = "header"
      BY Kinds
    <3>3. CASE k \in 2 .. Len(B)
      <4>1. B[k].kind # "id"
        BY <2>1, <2>2, <3>3 DEF FileOk
      <4>2. L[k] = B[k]
        <5>1. k \in 1 .. Len(B)
          BY <3>3
        <5> QED  BY <1>5, <5>1
      <4> QED  BY <4>1, <4>2
    <3> QED  BY <1>5, <1>6, <3>1, <3>2, <3>3
  <2>7. Filed(f, L[1], row)
    <3>1. PICK u \in Times, p2 \in Periods : IsFileOf(f, u, p2) /\ L[1] = IdLine(u, p2)
      BY <2>3 DEF Identified
    <3>2. ASSUME row.whole
          PROVE  L[1] = IdLine(t, p)
      <4>1. u \in Nat /\ Len(f.dir) = Len(f.prefix)
        BY <1>1, <3>2, CmFileAssumption
      <4>2. p = p2 /\ Aligned(t, p) = Aligned(u, p2)
        BY <1>2, <1>7, <3>1, <4>1, WholeFileOf
      <4> QED  BY <3>1, <4>2 DEF IdLine
    <3> QED  BY <1>1, <1>2, <3>2 DEF Filed
  <2>8. ASSUME NEW k \in 1 .. Len(L), L[k].kind = "row"
        PROVE  L[k].n \in DOMAIN rs2 /\ Filed(f, L[1], rs2[L[k].n])
    <3>1. CASE k \in 1 .. Len(B)
      <4>1. B[k].kind = "row" /\ L[k] = B[k]
        BY <1>5, <2>8, <3>1
      <4> QED  BY <2>1, <2>2, <3>1, <4>1 DEF FileOk
    <3>2. CASE k = Len(L)
      BY <1>1, <1>6, <2>7, <3>2
    <3>3. G[f] = L
      BY <1>2 DEF IsAfter
    <3> QED  BY <1>2, <1>9, <2>1, <2>8, <3>1, <3>2, <3>3 DEF IsAfter
  <2>9. \E k \in 1 .. Len(L) : L[k].kind = "row" /\ rs2[L[k].n].name = f.name
    <3>1. PICK k \in 1 .. Len(B) : B[k].kind = "row" /\ rs2[B[k].n].name = f.name
      BY <2>1, <2>2 DEF FileOk
    <3>2. k \in 1 .. Len(L) /\ L[k] = B[k]
      BY <1>5
    <3> QED  BY <3>1, <3>2
  <2>10. \A i \in 0 .. Len(f.dir) : Upto(f.dir, i) \in dirs
    BY <1>2
  <2>11. (\A k \in 2 .. Len(L) : L[k].kind # "id")
         /\ \A k \in 1 .. Len(L) : L[k].kind = "row" => L[k].n \in DOMAIN rs2 /\ Filed(f, L[1], rs2[L[k].n])
    BY <2>6, <2>8
  <2>12. FileOk(f, L, rs2, dirs)
    BY <2>3, <2>5, <2>9, <2>10, <2>11, Zenon DEF FileOk
  <2> QED  BY <2>12
<1>10. ASSUME NEW g \in DOMAIN G
       PROVE  FileOk(g, G[g], rs2, dirs)
  <2>1. CASE g = f
    <3>1. G[g] = L
      BY <1>2, <2>1 DEF IsAfter
    <3>2. FileOk(f, L, rs2, dirs)
      BY <1>8, <1>9
    <3> QED  BY <2>1, <3>1, <3>2
  <2>2. CASE g # f
    <3>1. g \in DOMAIN F /\ G[g] = F[g]
      BY <1>2, <2>2 DEF IsAfter
    <3> QED  BY <1>3, <3>1
  <2> QED  BY <2>1, <2>2
<1> QED  BY <1>10 DEF FilesOk

LEMMA OpenOkAfter ==
    ASSUME NEW D, NEW F, NEW o, NEW rs, NEW t \in Times, NEW q \in Nat, NEW dirs, NEW f, NEW n, NEW L, NEW row,
           Writes(D, F, o, rs, t, q, dirs, f, n, L, row), NEW G, G = With(F, f, L)
    PROVE  OpenOk(n, G, Append(rs, row)) /\ HoldsLast(L, Append(rs, row)) /\ Append(rs, row) # <<>>
<1> PICK rs2, p : rs2 = Append(rs, row) /\ p = n.FilePeriod
  OBVIOUS
<1>1. Len(rs2) = Len(rs) + 1 /\ Len(rs) \in Nat
  BY RowIsTyped
<1>2. /\ IsAfter(F, G, f, L, rs) /\ Good(D, F, o, rs) /\ p \in Periods
      /\ L = LinesAfter(F, f, o, rs, t, p) /\ IsFileOf(f, t, p) /\ f.seq = FileNumber(f.name, q)
      /\ n.data_fd = f /\ n.FileSeqNum = q /\ n.TimeIndex = t \div p
  BY FilesAfter DEF Writes, IsOpenFor
<1>3. IsWritten(L, F, f, o, rs, t, p)
  BY <1>2, WrittenIs
<1>4. Len(L) \in Nat \ {0} /\ L[Len(L)] = RowLine(Len(rs) + 1)
  BY <1>3 DEF IsWritten
<1>5. HoldsLast(L, rs2) /\ rs2 # <<>>
  <2>1. Len(L) \in 1 .. Len(L)
    BY <1>4
  <2>2. L[Len(L)] = RowLine(Len(rs2))
    BY <1>1, <1>4
  <2>3. rs2 # <<>>
    BY <1>1
  <2> QED  BY <2>1, <2>2, <2>3 DEF HoldsLast
<1>6. f \in DOMAIN G /\ G[f] = L
  BY <1>2 DEF IsAfter
<1> QED  BY <1>2, <1>5, <1>6 DEF OpenOk

\* In order, a file that is written to again is the file of the last row.
LEMMA LastFile ==
    ASSUME PeriodsApart,
           NEW D, NEW F, NEW o, NEW rs, NEW t \in Times, NEW q \in Nat, NEW dirs, NEW f, NEW n, NEW L, NEW row,
           Writes(D, F, o, rs, t, q, dirs, f, n, L, row), Ordered(Append(rs, row)), rs # <<>>, f \in DOMAIN F
    PROVE  HoldsLast(F[f], rs)
<1> PICK N, rs2, p : N = Len(rs) /\ rs2 = Append(rs, row) /\ p = n.FilePeriod
  OBVIOUS
<1>1. /\ row \in Row /\ row.time = t /\ row.seq = q /\ row.period = p
      /\ row.whole = (Len(f.dir) = Len(f.prefix))
      /\ rs \in Seq(Row) /\ N \in Nat /\ rs2[N + 1] = row
      /\ DOMAIN rs = 1 .. N /\ DOMAIN rs2 = 1 .. N + 1 /\ \A i \in DOMAIN rs : rs2[i] = rs[i]
  BY RowIsTyped
<1>2. N \in 1 .. N /\ N \in Nat \ {0}
  BY <1>1
<1>3. Good(D, F, o, rs) /\ p \in Periods /\ f \in Name /\ IsFileOf(f, t, p) /\ f.seq = FileNumber(f.name, q)
  BY DEF Writes, IsOpenFor
<1>4. row.whole
  <2>1. N + 1 \in DOMAIN rs2
    BY <1>1
  <2> QED  BY <1>1, <2>1 DEF Ordered
<1>5. \A i \in 1 .. N : rs[i].time <= t /\ rs[i].period = p /\ rs[i].seq = q /\ rs[i].whole /\ rs[i].time \in Times
  <2> TAKE i \in 1 .. N
  <2>1. i \in DOMAIN rs2 /\ N + 1 \in DOMAIN rs2 /\ i < N + 1 /\ rs2[i] = rs[i]
    BY <1>1
  <2>2. rs[i] \in Row
    BY <1>1
  <2>3. /\ rs2[i].time <= rs2[N + 1].time /\ rs2[i].whole
        /\ rs2[i].period = rs2[N + 1].period /\ rs2[i].seq = rs2[N + 1].seq
    BY <2>1 DEF Ordered
  <2>4. rs[i].time \in Times
    BY <2>2 DEF Row
  <2> QED  BY <1>1, <2>1, <2>3, <2>4
<1>6. \A i \in 1 .. N, j \in 1 .. N : rs[i].name = rs[j].name /\ (i < j => rs[i].time <= rs[j].time)
  <2> TAKE i \in 1 .. N, j \in 1 .. N
  <2>1. i \in DOMAIN rs2 /\ j \in DOMAIN rs2 /\ rs2[i] = rs[i] /\ rs2[j] = rs[j]
    BY <1>1
  <2> QED  BY <2>1 DEF Ordered
<1>7. FileOk(f, F[f], rs, D)
  BY <1>3 DEF Good, FilesOk
<1>8. PICK k \in 1 .. Len(F[f]) : F[f][k].kind = "row" /\ rs[F[f][k].n].name = f.name
  BY <1>7 DEF FileOk
<1> PICK a : a = F[f][k].n
  OBVIOUS
<1>9. a \in 1 .. N /\ Filed(f, F[f][1], rs[a]) /\ rs[a].name = f.name
  BY <1>1, <1>7, <1>8 DEF FileOk
<1>10. PICK g \in DOMAIN F : \E j \in 1 .. Len(F[g]) : F[g][j] = RowLine(N)
  BY <1>1, <1>2, <1>3 DEF Good, Places, Placed
<1>11. PICK j \in 1 .. Len(F[g]) : F[g][j] = RowLine(N)
  BY <1>10
<1>12. F[g][j].kind = "row" /\ F[g][j].n = N
  BY <1>11, Kinds
<1>13. FileOk(g, F[g], rs, D)
  BY <1>3 DEF Good, FilesOk
<1>14. Filed(g, F[g][1], rs[N])
  BY <1>12, <1>13 DEF FileOk
<1>15. PICK i \in 1 .. Len(F[g]) : F[g][i].kind = "row" /\ rs[F[g][i].n].name = g.name
  BY <1>13 DEF FileOk
<1>16. F[g][i].n \in 1 .. N
  BY <1>1, <1>13, <1>15 DEF FileOk
<1>17. g.name = f.name
  BY <1>6, <1>9, <1>15, <1>16
<1> PICK u, z : u = rs[a].time /\ z = rs[N].time
  OBVIOUS
<1>18. u \in Times /\ z \in Times /\ u \in Nat /\ z \in Nat /\ t \in Nat /\ p \in Nat \ {0} /\ u \in Int /\ z \in Int /\ t \in Int
  <2>1. u \in Times /\ z \in Times
    BY <1>2, <1>5, <1>9
  <2>2. p \in Nat \ {0}
    BY <1>3, PeriodIs
  <2>3. \A x \in Times : x \in Nat /\ x \in Int
    BY CmFileAssumption
  <2> QED  BY <2>1, <2>2, <2>3
<1>19. u <= z /\ z <= t
  <2>1. a \in 1 .. N /\ N \in 1 .. N /\ (a = N \/ a < N)
    BY <1>2, <1>9
  <2>2. z <= t
    BY <1>5, <2>1
  <2>3. a < N => u <= z
    BY <1>6, <2>1
  <2>4. a = N => u = z
    OBVIOUS
  <2> QED  BY <1>18, <2>1, <2>2, <2>3, <2>4
<1>20. IsFileOf(f, u, p) /\ IsFileOf(g, z, p) /\ g.seq = FileNumber(g.name, q)
  BY <1>2, <1>5, <1>9, <1>14 DEF Filed
<1>21. Len(f.dir) = Len(f.prefix) /\ Len(g.dir) = Len(g.prefix)
  BY <1>1, <1>2, <1>4, <1>5, <1>14 DEF Filed
<1>22. Aligned(u, p) = Aligned(t, p)
  <2>1. IsFileOf(f, t, p) /\ p \in Periods
    BY <1>3
  <2>2. IsFileOf(f, u, p) /\ Len(f.dir) = Len(f.prefix) /\ u \in Nat /\ t \in Nat
    BY <1>18, <1>20, <1>21
  <2> QED  BY <2>1, <2>2, WholeFileOf, ZenonT(30)
<1>23. Aligned(z, p) = Aligned(t, p)
  <2>1. u \div p <= z \div p /\ z \div p <= t \div p
    BY <1>18, <1>19, LargerQuotient
  <2>2. Aligned(u, p) \div p = u \div p /\ Aligned(t, p) \div p = t \div p
    BY <1>18, AlignedIs
  <2>3. u \div p \in Int /\ z \div p \in Int /\ t \div p \in Int
    BY <1>18, Division
  <2>4. z \div p = t \div p
    BY <1>22, <2>1, <2>2, <2>3
  <2> QED  BY <1>18, <2>4, SameAligned
<1>24. f.dir = g.dir /\ f.prefix = g.prefix
  <2>1. f.dir = Path(Aligned(t, p), Depth(p)) /\ f.prefix = f.dir
    BY <1>3, <1>18, <1>21, FileOfIs
  <2>2. g.dir = Path(Aligned(z, p), Depth(p)) /\ g.prefix = g.dir
    BY <1>18, <1>20, <1>21, FileOfIs
  <2> QED  BY <1>23, <2>1, <2>2
<1>25. g \in Name
  BY <1>3 DEF Good, IsFiles
<1>26. f = g
  <2>1. f \in Name /\ g \in Name /\ f.seq = g.seq /\ f.name = g.name
    BY <1>3, <1>17, <1>20, <1>25
  <2>2. /\ f = [dir |-> f.dir, prefix |-> f.prefix, name |-> f.name, seq |-> f.seq]
        /\ g = [dir |-> g.dir, prefix |-> g.prefix, name |-> g.name, seq |-> g.seq]
    BY <2>1 DEF Name
  <2> QED  BY <1>24, <2>1, <2>2
<1> QED  BY <1>11, <1>26 DEF HoldsLast

LEMMA OrderedBefore ==
    ASSUME NEW rs \in Seq(Row), NEW row \in Row, Ordered(Append(rs, row))
    PROVE  Ordered(rs)
<1>1. \A i \in DOMAIN rs : i \in DOMAIN Append(rs, row) /\ Append(rs, row)[i] = rs[i]
  OBVIOUS
<1> PICK rs2 : rs2 = Append(rs, row)
  OBVIOUS
<1>2. \A i \in DOMAIN rs : i \in DOMAIN rs2 /\ rs2[i] = rs[i]
  BY <1>1
<1>3. \A i \in DOMAIN rs2, j \in DOMAIN rs2 :
         /\ i < j => rs2[i].time <= rs2[j].time
         /\ rs2[i].whole
         /\ rs2[i].period = rs2[j].period /\ rs2[i].name = rs2[j].name /\ rs2[i].seq = rs2[j].seq
  BY DEF Ordered
<1> QED  BY <1>2, <1>3 DEF Ordered

LEMMA LastHeaderLater ==
    ASSUME NEW L, NEW M, NEW k \in Nat, \A i \in 1 .. k : M[i] = L[i], NEW h, LastHeader(L, k, h)
    PROVE  LastHeader(M, k, h)
<1>1. PICK j \in 1 .. k : L[j] = HeaderOf(h) /\ \A i \in j + 1 .. k : L[i].kind # "header"
  BY DEF LastHeader
<1>2. \A i \in j + 1 .. k : i \in 1 .. k
  OBVIOUS
<1> QED  BY <1>1, <1>2 DEF LastHeader

\* A row does not change which header is the last.
LEMMA LastHeaderNext ==
    ASSUME NEW L, NEW k \in Nat, NEW h, LastHeader(L, k, h), L[k + 1].kind # "header"
    PROVE  LastHeader(L, k + 1, h)
<1>1. PICK j \in 1 .. k : L[j] = HeaderOf(h) /\ \A i \in j + 1 .. k : L[i].kind # "header"
  BY DEF LastHeader
<1>2. j \in 1 .. k + 1 /\ \A i \in j + 1 .. k + 1 : i \in j + 1 .. k \/ i = k + 1
  OBVIOUS
<1> QED  BY <1>1, <1>2 DEF LastHeader

LEMMA HeaderOfRow ==
    ASSUME PeriodsApart,
           NEW D, NEW F, NEW o, NEW rs, NEW t \in Times, NEW q \in Nat, NEW dirs, NEW f, NEW n, NEW L, NEW row,
           Writes(D, F, o, rs, t, q, dirs, f, n, L, row), Ordered(Append(rs, row)), o.ParentCollection # None
    PROVE  LastHeader(L, Len(L), o.ParentCollection)
<1> PICK h, p, B, H : h = o.ParentCollection /\ p = n.FilePeriod /\ B = Before(F, f, t, p) /\ H = Heading(F, f, o)
  OBVIOUS
<1>1. /\ Good(D, F, o, rs) /\ p \in Periods /\ L = LinesAfter(F, f, o, rs, t, p)
  BY DEF Writes, IsOpenFor
<1>2. IsWritten(L, F, f, o, rs, t, p)
  BY <1>1, WrittenIs
<1>3. /\ B \in Seq(Line) /\ Len(B) \in Nat \ {0} /\ Len(H) \in 0 .. 1 /\ Len(L) = Len(B) + Len(H) + 1
      /\ \A k \in 1 .. Len(B) : L[k] = B[k]
      /\ L[Len(L)] = RowLine(Len(rs) + 1)
      /\ Len(H) = 1 => L[Len(B) + 1] = HeaderOf(h)
      /\ Len(H) = 0 => f \in DOMAIN F /\ ~o.isNewHeader
  BY <1>2 DEF IsWritten
<1>4. L[Len(L)].kind = "row"
  BY <1>3, Kinds
<1>5. PICK l, b : l = Len(L) /\ b = Len(B)
  OBVIOUS
<1>6. CASE Len(H) = 1
  <2>1. b \in Nat \ {0} /\ l = b + 2 /\ L[b + 1] = HeaderOf(h) /\ L[l].kind = "row"
    BY <1>3, <1>4, <1>5, <1>6
  <2>2. b + 1 \in 1 .. b + 1 /\ \A i \in b + 1 + 1 .. b + 1 : L[i].kind # "header"
    BY <2>1
  <2>3. LastHeader(L, b + 1, h)
    BY <2>1, <2>2 DEF LastHeader
  <2>4. b + 1 \in Nat /\ b + 1 + 1 = l
    BY <2>1
  <2>5. LastHeader(L, l, h)
    BY <2>1, <2>3, <2>4, LastHeaderNext
  <2> QED  BY <1>5, <2>5
<1>7. CASE Len(H) = 0
  <2>1. b \in Nat /\ l = b + 1 /\ L[l].kind = "row" /\ \A k \in 1 .. b : L[k] = B[k]
    BY <1>3, <1>4, <1>5, <1>7
  <2>2. f \in DOMAIN F /\ B = F[f] /\ ~o.isNewHeader
    BY <1>3, <1>7 DEF Before
  <2>3. /\ row \in Row /\ rs \in Seq(Row)
    BY RowIsTyped
  <2>4. Announced(o, F, rs)
    BY <1>1, <2>3, OrderedBefore DEF Good
  <2>5. rs # <<>> /\ \A g \in DOMAIN F : HoldsLast(F[g], rs) => LastHeader(F[g], Len(F[g]), h)
    BY <2>2, <2>4 DEF Announced
  <2>6. HoldsLast(F[f], rs)
    BY <2>2, <2>5, LastFile
  <2>7. LastHeader(B, b, h)
    BY <1>5, <2>2, <2>5, <2>6
  <2>8. LastHeader(L, b, h)
    BY <2>1, <2>7, LastHeaderLater
  <2>9. LastHeader(L, l, h)
    BY <2>1, <2>8, LastHeaderNext
  <2> QED  BY <1>5, <2>9
<1> QED  BY <1>3, <1>6, <1>7

LEMMA HeadersAfter ==
    ASSUME PeriodsApart,
           NEW D, NEW F, NEW o, NEW rs, NEW t \in Times, NEW q \in Nat, NEW dirs, NEW f, NEW n, NEW L, NEW row,
           Writes(D, F, o, rs, t, q, dirs, f, n, L, row), NEW G, G = With(F, f, L), Ordered(Append(rs, row))
    PROVE  HeadersOk(G, Append(rs, row)) /\ Announced(n, G, Append(rs, row))
<1> PICK N, rs2, h : N = Len(rs) /\ rs2 = Append(rs, row) /\ h = o.ParentCollection
  OBVIOUS
<1>1. /\ row \in Row /\ rs \in Seq(Row) /\ row.header = h /\ N \in Nat /\ rs2[N + 1] = row
      /\ Len(rs2) = N + 1
      /\ DOMAIN rs = 1 .. N /\ DOMAIN rs2 = 1 .. N + 1 /\ \A i \in DOMAIN rs : rs2[i] = rs[i]
  BY RowIsTyped
<1>2. /\ IsAfter(F, G, f, L, rs) /\ Good(D, F, o, rs) /\ n.ParentCollection = h
      /\ n.FilePeriod \in Periods /\ L = LinesAfter(F, f, o, rs, t, n.FilePeriod)
  BY FilesAfter DEF Writes, Kept, IsOpenFor
<1>3. /\ DOMAIN G = DOMAIN F \cup {f} /\ G[f] = L
      /\ \A g \in DOMAIN F : /\ Len(F[g]) \in Nat /\ Len(G[g]) \in Nat /\ Len(F[g]) <= Len(G[g])
                             /\ \A k \in 1 .. Len(F[g]) : G[g][k] = F[g][k]
      /\ \A g \in DOMAIN G : \A k \in 1 .. Len(G[g]) : G[g][k].kind = "row" =>
            \/ g \in DOMAIN F /\ k \in 1 .. Len(F[g]) /\ F[g][k].kind = "row" /\ F[g][k].n \in DOMAIN rs
            \/ g = f /\ k = Len(L) /\ G[g][k] = RowLine(N + 1)
  BY <1>2 DEF IsAfter
<1>4. HeadersOk(F, rs)
  BY <1>1, <1>2, OrderedBefore DEF Good
<1>5. IsWritten(L, F, f, o, rs, t, n.FilePeriod)
  BY <1>2, WrittenIs
<1>6. L[Len(L)] = RowLine(N + 1) /\ RowLine(N + 1).n = N + 1 /\ RowLine(N + 1).kind = "row" /\ Len(L) \in Nat \ {0}
  BY <1>5, Kinds DEF IsWritten
<1>7. h # None => LastHeader(L, Len(L), h)
  BY HeaderOfRow
<1>8. ASSUME NEW g \in DOMAIN G, NEW k \in 1 .. Len(G[g]), G[g][k].kind = "row", rs2[G[g][k].n].header # None
      PROVE  LastHeader(G[g], k, rs2[G[g][k].n].header)
  <2>1. CASE g \in DOMAIN F /\ k \in 1 .. Len(F[g]) /\ F[g][k].kind = "row" /\ F[g][k].n \in DOMAIN rs
    <3> PICK i : i = F[g][k].n
      OBVIOUS
    <3>1. G[g][k] = F[g][k] /\ rs2[i] = rs[i]
      BY <1>1, <1>3, <2>1
    <3>2. LastHeader(F[g], k, rs[i].header)
      BY <1>4, <1>8, <2>1, <3>1 DEF HeadersOk, Headed
    <3>3. k \in Nat /\ \A j \in 1 .. k : G[g][j] = F[g][j]
      <4>1. \A j \in 1 .. k : j \in 1 .. Len(F[g])
        BY <1>3, <2>1
      <4>2. k \in Nat
        BY <2>1
      <4> QED  BY <1>3, <2>1, <4>1, <4>2
    <3>4. LastHeader(G[g], k, rs[i].header)
      BY <3>2, <3>3, LastHeaderLater
    <3> QED  BY <3>1, <3>4
  <2>2. CASE g = f /\ k = Len(L) /\ G[g][k] = RowLine(N + 1)
    <3>1. rs2[G[g][k].n] = row /\ G[g] = L
      BY <1>1, <1>3, <1>6, <2>2
    <3> QED  BY <1>1, <1>7, <1>8, <2>2, <3>1
  <2> QED  BY <1>3, <1>8, <2>1, <2>2
<1>9. HeadersOk(G, rs2)
  BY <1>8 DEF HeadersOk, Headed
<1>10. ASSUME NEW g \in DOMAIN G, HoldsLast(G[g], rs2)
       PROVE  g = f
  <2>1. PICK k \in 1 .. Len(G[g]) : G[g][k] = RowLine(N + 1)
    BY <1>1, <1>10 DEF HoldsLast
  <2>2. G[g][k].kind = "row" /\ G[g][k].n = N + 1
    BY <1>6, <2>1
  <2>3. ASSUME g \in DOMAIN F, k \in 1 .. Len(F[g]), F[g][k].n \in DOMAIN rs
        PROVE  FALSE
    <3>1. F[g][k] = G[g][k]
      BY <1>3, <2>3
    <3> QED  BY <1>1, <2>2, <2>3, <3>1
  <2> QED  BY <1>3, <2>2, <2>3
<1>11. Announced(n, G, rs2)
  <2>1. rs2 # <<>>
    BY <1>1
  <2> QED  BY <1>2, <1>3, <1>7, <1>10, <2>1 DEF Announced
<1> QED  BY <1>9, <1>11

\* Nothing that has been written is lost, and the settings are kept.
Later(F, rs, o, G, rs2, n) ==
    /\ \A i \in DOMAIN rs : i \in DOMAIN rs2 /\ rs2[i] = rs[i]
    /\ \A g \in DOMAIN F : g \in DOMAIN G /\ \A k \in 1 .. Len(F[g]) : k \in 1 .. Len(G[g]) /\ G[g][k] = F[g][k]
    /\ n.FileName = o.FileName
    /\ o.FilePeriod # 0 => n.FilePeriod = o.FilePeriod

LEMMA LaterLater ==
    ASSUME NEW F, NEW rs, NEW o, NEW G, NEW rs2, NEW n, NEW H, NEW rs3, NEW m,
           Later(F, rs, o, G, rs2, n), Later(G, rs2, n, H, rs3, m)
    PROVE  Later(F, rs, o, H, rs3, m)
BY DEF Later

\* The state r is good, and there are at most c rows more than in rs.
IsGoodState(r, F, o, rs, c) ==
    \E dirs, G, n, rs2 :
        /\ Good(dirs, G, n, rs2) /\ Later(F, rs, o, G, rs2, n) /\ Len(rs2) <= Len(rs) + c
        /\ r = FailedState(dirs, G, n, rs2) \/ \E ok : IsTrue(ok) /\ r = State(dirs, G, n, rs2, ok)

\* writeData() keeps what is good: of a row that is written or not.
LEMMA WriteIsGood ==
    ASSUME PeriodsApart, NEW D, NEW F, NEW o, NEW rs, Good(D, F, o, rs), NEW ok, IsTrue(ok), NEW s, s = State(D, F, o, rs, ok),
           NEW t \in Times, NEW q \in Nat, NEW obstacle, NEW r, r = Write(s, t, q, obstacle)
    PROVE  IsGoodState(r, F, o, rs, 1)
<1>1. o \in Object /\ IsFiles(F) /\ FilesOk(F, rs, D) /\ OpenOk(o, F, rs) /\ rs \in Seq(Row)
  BY DEF Good
<1>2. NotOpened(D, F, o, rs, r) \/ Wrote(D, F, o, rs, ok, t, q, r)
  BY <1>1, WriteOutcome
<1>3. CASE NotOpened(D, F, o, rs, r)
  <2>1. PICK dirs, n : r = FailedState(dirs, F, n, rs) /\ Good(dirs, F, n, rs) /\ Kept(n, o)
    BY <1>3, GoodWhenFailed
  <2>2. Later(F, rs, o, F, rs, n)
    BY <2>1 DEF Later, Kept
  <2>3. Len(rs) <= Len(rs) + 1
    BY <1>1
  <2> QED  BY <2>1, <2>2, <2>3 DEF IsGoodState
<1>4. CASE Wrote(D, F, o, rs, ok, t, q, r)
  <2>1. PICK dirs, f : \E n \in Object :
           /\ r = State(dirs, With(F, f, LinesAfter(F, f, o, rs, t, n.FilePeriod)), n, Append(rs, RowOf(n, t, q)), ok)
           /\ D \subseteq dirs /\ IsOpenFor(n, f, t, q, dirs) /\ Kept(n, o) /\ n.isNewHeader = FALSE
           /\ f \in DOMAIN F \/ f.name = o.FileName
    BY <1>4 DEF Wrote
  <2>2. PICK n \in Object :
           /\ r = State(dirs, With(F, f, LinesAfter(F, f, o, rs, t, n.FilePeriod)), n, Append(rs, RowOf(n, t, q)), ok)
           /\ D \subseteq dirs /\ IsOpenFor(n, f, t, q, dirs) /\ Kept(n, o) /\ n.isNewHeader = FALSE
           /\ f \in DOMAIN F \/ f.name = o.FileName
    BY <2>1
  <2> PICK L, row, G : L = LinesAfter(F, f, o, rs, t, n.FilePeriod) /\ row = RowOf(n, t, q) /\ G = With(F, f, L)
    OBVIOUS
  <2>3. Writes(D, F, o, rs, t, q, dirs, f, n, L, row)
    BY <2>2 DEF Writes
  <2> PICK rs2 : rs2 = Append(rs, row)
    OBVIOUS
  <2>4. /\ rs2 \in Seq(Row) /\ Len(rs2) = Len(rs) + 1 /\ Len(rs) \in Nat
        /\ \A i \in DOMAIN rs : i \in DOMAIN rs2 /\ rs2[i] = rs[i]
    BY <2>3, RowIsTyped
  <2>5. IsAfter(F, G, f, L, rs)
    BY <2>3, FilesAfter
  <2>6. IsFiles(G) /\ \A g \in DOMAIN F : g \in DOMAIN G /\ \A k \in 1 .. Len(F[g]) : k \in 1 .. Len(G[g]) /\ G[g][k] = F[g][k]
    BY <2>5 DEF IsAfter
  <2>7. FilesOk(G, rs2, dirs)
    BY <2>3, FilesOkAfter
  <2>8. Places(G, rs2)
    BY <2>3, PlacesAfter
  <2>9. OpenOk(n, G, rs2)
    BY <2>3, OpenOkAfter
  <2>10. Ordered(rs2) => HeadersOk(G, rs2) /\ Announced(n, G, rs2)
    BY <2>3, HeadersAfter
  <2>11. Good(dirs, G, n, rs2)
    BY <2>4, <2>6, <2>7, <2>8, <2>9, <2>10 DEF Good
  <2>12. Later(F, rs, o, G, rs2, n)
    BY <2>2, <2>4, <2>6 DEF Later, Kept
  <2>13. Len(rs2) <= Len(rs) + 1
    BY <2>4
  <2> QED  BY <2>2, <2>11, <2>12, <2>13 DEF IsGoodState
<1> QED  BY <1>2, <1>3, <1>4

-----------------------------------------------------------------------------
(* Objects *)

\* What an object may become while the files stay as they are: the file that is
\* open is closed or stays open, the header is the same or is still to be written.
LEMMA GoodObject ==
    ASSUME NEW D, NEW F, NEW o, NEW rs, Good(D, F, o, rs), NEW n \in Object,
           n.data_fd = None \/ (n.data_fd = o.data_fd /\ n.FileSeqNum = o.FileSeqNum /\ n.TimeIndex = o.TimeIndex),
           \/ n.ParentCollection = None \/ n.isNewHeader
           \/ n.ParentCollection = o.ParentCollection /\ n.isNewHeader = o.isNewHeader
    PROVE  Good(D, F, n, rs)
<1>1. OpenOk(n, F, rs)
  <2>1. OpenOk(o, F, rs)
    BY DEF Good
  <2> QED  BY <2>1 DEF OpenOk
<1>2. Announced(o, F, rs) => Announced(n, F, rs)
  BY DEF Announced
<1> QED  BY <1>1, <1>2 DEF Good

LEMMA GoodDiskIs ==
    ASSUME GoodDisk
    PROVE  /\ disk = [dirs |-> disk.dirs, files |-> disk.files] /\ Good(disk.dirs, disk.files, object, rows)
           /\ object \in Object /\ rows \in Seq(Row) /\ IsFiles(disk.files) /\ Len(rows) \in Nat
           /\ DOMAIN rows = 1 .. Len(rows) /\ \A i \in DOMAIN rows : rows[i] \in Row
           /\ \A f \in DOMAIN disk.files : DOMAIN disk.files[f] = 1 .. Len(disk.files[f])
<1>1. object \in Object /\ rows \in Seq(Row) /\ IsFiles(disk.files)
  BY DEF GoodDisk, Good
<1>2. \A f \in DOMAIN disk.files : disk.files[f] \in Seq(Line)
  BY <1>1 DEF IsFiles
<1> QED  BY <1>1, <1>2 DEF GoodDisk

LEMMA CurrentState ==
    ASSUME GoodDisk
    PROVE  \E ok : IsTrue(ok) /\ Current = State(disk.dirs, disk.files, object, rows, ok)
<1>1. PICK ok : ok = TRUE
  OBVIOUS
<1>2. [disk |-> disk, object |-> object, rows |-> rows, ok |-> ok] = State(disk.dirs, disk.files, object, rows, ok)
  BY DEF State, GoodDisk
<1>3. Current = [disk |-> disk, object |-> object, rows |-> rows, ok |-> ok]
  BY <1>1, Zenon DEF Current
<1>4. IsTrue(ok)
  BY <1>1, Zenon DEF IsTrue
<1> QED  BY <1>2, <1>3, <1>4

\* writeData() and what it leaves behind.
LEMMA BecomesGood ==
    ASSUME GoodDisk, NEW r, NEW c, IsGoodState(r, disk.files, object, rows, c), Becomes(r)
    PROVE  /\ GoodDisk' /\ Later(disk.files, rows, object, disk.files', rows', object')
           /\ Len(rows') <= Len(rows) + c
<1>1. PICK dirs, G, n, rs2 :
        /\ Good(dirs, G, n, rs2) /\ Later(disk.files, rows, object, G, rs2, n) /\ Len(rs2) <= Len(rows) + c
        /\ r = FailedState(dirs, G, n, rs2) \/ \E ok : IsTrue(ok) /\ r = State(dirs, G, n, rs2, ok)
  BY DEF IsGoodState
<1>2. \E ok : r = State(dirs, G, n, rs2, ok)
  BY <1>1, Zenon DEF FailedState
<1>3. r.disk = [dirs |-> dirs, files |-> G] /\ r.object = n /\ r.rows = rs2
  BY <1>2 DEF State
<1>4. disk' = [dirs |-> dirs, files |-> G] /\ object' = n /\ rows' = rs2
  BY <1>3 DEF Becomes
<1>5. disk'.dirs = dirs /\ disk'.files = G
  BY <1>4
<1>6. GoodDisk'
  BY <1>1, <1>4, <1>5 DEF GoodDisk
<1> QED  BY <1>1, <1>4, <1>5, <1>6

LEMMA WriteDataIsGood ==
    ASSUME PeriodsApart, GoodDisk, Len(rows) <= MaxRows,
           NEW t \in Times, NEW q \in SeqNums, NEW obstacle, WriteData(t, q, obstacle)
    PROVE  /\ GoodDisk' /\ Later(disk.files, rows, object, disk.files', rows', object')
           /\ Len(rows') <= MaxRows
<1>1. PICK ok : IsTrue(ok) /\ Current = State(disk.dirs, disk.files, object, rows, ok)
  BY CurrentState
<1> PICK s, r : s = Current /\ r = Write(Current, t, q, obstacle)
  OBVIOUS
<1>2. q \in Nat
  BY CmFileAssumption
<1>3. IsGoodState(r, disk.files, object, rows, 1)
  <2>1. s = State(disk.dirs, disk.files, object, rows, ok) /\ r = Write(s, t, q, obstacle)
    BY <1>1
  <2> QED  BY <1>1, <1>2, <2>1, GoodDiskIs, WriteIsGood
<1>4. Becomes(r) /\ Len(rows) < MaxRows
  BY DEF WriteData
<1>5. /\ GoodDisk' /\ Later(disk.files, rows, object, disk.files', rows', object')
      /\ Len(rows') <= Len(rows) + 1
  BY <1>3, <1>4, BecomesGood
<1>6. Len(rows) \in Nat /\ Len(rows') \in Nat /\ MaxRows \in Nat
  <2>1. rows' \in Seq(Row)
    BY <1>5 DEF GoodDisk, Good
  <2> QED  BY <2>1, GoodDiskIs, CmFileAssumption
<1> QED  BY <1>4, <1>5, <1>6

SetHeader(s, h) == [s EXCEPT !.object.ParentCollection = h, !.object.isNewHeader = TRUE]

WithHeader(o, h) == [o EXCEPT !.ParentCollection = h, !.isNewHeader = TRUE]

LEMMA HeaderIs ==
    ASSUME NEW D, NEW F, NEW o, NEW rs, NEW ok, NEW h
    PROVE  SetHeader(State(D, F, o, rs, ok), h) = State(D, F, WithHeader(o, h), rs, ok)
<1> DEFINE s == State(D, F, o, rs, ok)
           m == [o EXCEPT !.ParentCollection = h]
<1>1. ASSUME NEW yes
      PROVE  [s EXCEPT !.object.ParentCollection = h, !.object.isNewHeader = yes]
                 = State(D, F, [o EXCEPT !.ParentCollection = h, !.isNewHeader = yes], rs, ok)
  <2>1. [s EXCEPT !.object.ParentCollection = h] = State(D, F, m, rs, ok)
    BY SetMember
  <2>2. [o EXCEPT !.ParentCollection = h, !.isNewHeader = yes] = [m EXCEPT !.isNewHeader = yes]
    OBVIOUS
  <2> HIDE DEF s, m
  <2>3. [State(D, F, m, rs, ok) EXCEPT !.object.isNewHeader = yes] = State(D, F, [m EXCEPT !.isNewHeader = yes], rs, ok)
    BY SetMember, SMTT(30)
  <2>4. [s EXCEPT !.object.ParentCollection = h, !.object.isNewHeader = yes]
            = [[s EXCEPT !.object.ParentCollection = h] EXCEPT !.object.isNewHeader = yes]
    OBVIOUS
  <2> QED  BY <2>1, <2>2, <2>3, <2>4, Zenon
<1> HIDE DEF s
<1> QED  BY <1>1, Zenon DEF s, SetHeader, WithHeader

LEMMA WithHeaderIs ==
    ASSUME NEW o \in Object, NEW h \in Headers
    PROVE  /\ WithHeader(o, h) \in Object /\ WithHeader(o, h).FileName = o.FileName
           /\ WithHeader(o, h).FilePeriod = o.FilePeriod /\ WithHeader(o, h).FileSeqNum = o.FileSeqNum
           /\ WithHeader(o, h).TimeIndex = o.TimeIndex /\ WithHeader(o, h).data_fd = o.data_fd
           /\ WithHeader(o, h).isNewHeader
BY DEF Object, WithHeader

\* A new header is to be written in front of the next row.
LEMMA BegunIsGood ==
    ASSUME GoodDisk, NEW h \in Headers, NEW r, r = SetHeader(Current, h)
    PROVE  IsGoodState(r, disk.files, object, rows, 0)
<1> PICK n : n = WithHeader(object, h)
  OBVIOUS
<1>1. PICK ok : IsTrue(ok) /\ Current = State(disk.dirs, disk.files, object, rows, ok)
  BY CurrentState
<1>2. r = State(disk.dirs, disk.files, n, rows, ok)
  BY <1>1, HeaderIs
<1>3. object \in Object /\ Good(disk.dirs, disk.files, object, rows) /\ Len(rows) \in Nat
      /\ \A f \in DOMAIN disk.files : DOMAIN disk.files[f] = 1 .. Len(disk.files[f])
  BY GoodDiskIs
<1>4. /\ n \in Object /\ n.FileName = object.FileName /\ n.FilePeriod = object.FilePeriod
      /\ n.FileSeqNum = object.FileSeqNum /\ n.TimeIndex = object.TimeIndex /\ n.data_fd = object.data_fd
      /\ n.isNewHeader
  BY <1>3, WithHeaderIs
<1>5. Good(disk.dirs, disk.files, n, rows)
  BY <1>3, <1>4, GoodObject
<1>6. Later(disk.files, rows, object, disk.files, rows, n)
  BY <1>4 DEF Later
<1>7. Len(rows) <= Len(rows) + 0
  BY <1>3
<1> QED  BY <1>1, <1>2, <1>5, <1>6, <1>7 DEF IsGoodState

LEMMA CurrentIsGood ==
    ASSUME GoodDisk
    PROVE  IsGoodState(Current, disk.files, object, rows, 0)
<1>1. PICK ok : IsTrue(ok) /\ Current = State(disk.dirs, disk.files, object, rows, ok)
  BY CurrentState
<1>2. Good(disk.dirs, disk.files, object, rows) /\ Len(rows) \in Nat
  BY GoodDiskIs
<1>3. Later(disk.files, rows, object, disk.files, rows, object)
  BY DEF Later
<1>4. Len(rows) <= Len(rows) + 0
  BY <1>2
<1> QED  BY <1>1, <1>2, <1>3, <1>4 DEF IsGoodState

\* One row of a matrix: nothing is done behind a row that could not be written.
TableStep(r, t, obstacle) == IF ~r.ok \/ t = 0 THEN r ELSE Write(r, t, 0, obstacle)

LEMMA TableStepIsGood ==
    ASSUME PeriodsApart, NEW F, NEW o, NEW rs, Len(rs) \in Nat, NEW c \in Nat, NEW r, IsGoodState(r, F, o, rs, c),
           NEW t \in Times \cup {0}, NEW obstacle, NEW x, x = TableStep(r, t, obstacle)
    PROVE  IsGoodState(x, F, o, rs, IF t = 0 THEN c ELSE c + 1)
<1>1. PICK dirs, G, n, rs2 :
        /\ Good(dirs, G, n, rs2) /\ Later(F, rs, o, G, rs2, n) /\ Len(rs2) <= Len(rs) + c
        /\ r = FailedState(dirs, G, n, rs2) \/ \E ok : IsTrue(ok) /\ r = State(dirs, G, n, rs2, ok)
  BY DEF IsGoodState
<1>2. Len(rs2) \in Nat
  BY <1>1 DEF Good
<1>3. CASE x = r
  <2>1. Len(rs2) <= Len(rs) + (IF t = 0 THEN c ELSE c + 1)
    BY <1>1, <1>2
  <2> QED  BY <1>1, <1>3, <2>1 DEF IsGoodState
<1>4. CASE x # r
  <2>1. r.ok /\ t \in Times /\ t # 0 /\ x = Write(r, t, 0, obstacle)
    BY <1>4 DEF TableStep
  <2>2. r # FailedState(dirs, G, n, rs2)
    <3>1. ASSUME NEW no, r = State(dirs, G, n, rs2, no)
          PROVE  r.ok = no
      BY <3>1, StateParts
    <3> QED  BY <2>1, <3>1, Zenon DEF FailedState
  <2>3. PICK ok : IsTrue(ok) /\ r = State(dirs, G, n, rs2, ok)
    BY <1>1, <2>2
  <2>4. IsGoodState(x, G, n, rs2, 1)
    BY <1>1, <2>1, <2>3, WriteIsGood
  <2>5. PICK dirs3, H, m, rs3 :
          /\ Good(dirs3, H, m, rs3) /\ Later(G, rs2, n, H, rs3, m) /\ Len(rs3) <= Len(rs2) + 1
          /\ x = FailedState(dirs3, H, m, rs3) \/ \E yes : IsTrue(yes) /\ x = State(dirs3, H, m, rs3, yes)
    BY <2>4 DEF IsGoodState
  <2>6. Later(F, rs, o, H, rs3, m)
    BY <1>1, <2>5, LaterLater
  <2>7. Len(rs3) <= Len(rs) + (IF t = 0 THEN c ELSE c + 1)
    <3>1. Len(rs3) \in Nat
      BY <2>5 DEF Good
    <3> QED  BY <1>1, <1>2, <2>1, <2>5, <3>1
  <2> QED  BY <2>5, <2>6, <2>7 DEF IsGoodState
<1> QED  BY <1>3, <1>4

\* The rows of a matrix of two rows are written one after the other.
LEMMA TableIs ==
    ASSUME NEW h, NEW t, NEW u, NEW obstacle, WriteTable(h, <<t, u>>, obstacle)
    PROVE  LET begun == IF h = None THEN Current ELSE SetHeader(Current, h)
           IN  Becomes(TableStep(TableStep(begun, t, obstacle), u, obstacle))
<1> DEFINE times == <<t, u>>
           begun == IF h = None THEN Current
                    ELSE [Current EXCEPT !.object.ParentCollection = h, !.object.isNewHeader = TRUE]
           all[i \in 0 .. Len(times)] ==
               IF i = 0 THEN begun
               ELSE IF ~all[i - 1].ok \/ times[i] = 0 THEN all[i - 1] ELSE Write(all[i - 1], times[i], 0, obstacle)
           body(f) == [i \in 0 .. Len(times) |->
                          IF i = 0 THEN begun
                          ELSE IF ~f[i - 1].ok \/ times[i] = 0 THEN f[i - 1] ELSE Write(f[i - 1], times[i], 0, obstacle)]
<1>1. Becomes(all[Len(times)])
  BY Zenon DEF WriteTable
<1>2. all = CHOOSE f : f = body(f)
  OBVIOUS
<1>3. begun = (IF h = None THEN Current ELSE SetHeader(Current, h))
  BY Zenon DEF SetHeader
<1> HIDE DEF begun, all
<1> PICK x, y : x = TableStep(begun, t, obstacle) /\ y = TableStep(x, u, obstacle)
  OBVIOUS
<1> DEFINE w == [i \in 0 .. 2 |-> IF i = 0 THEN begun ELSE IF i = 1 THEN x ELSE y]
<1>4. Len(times) = 2 /\ times[1] = t /\ times[2] = u
  OBVIOUS
<1>5. w = body(w)
  BY <1>4 DEF TableStep
<1>6. all = body(all)
  <2> HIDE DEF w, body
  <2> QED  BY <1>2, <1>5
<1>7. \A i \in 0 .. 2 : all[i] = IF i = 0 THEN begun ELSE TableStep(all[i - 1], times[i], obstacle)
  BY <1>4, <1>6 DEF TableStep
<1>8. all[0] = begun /\ all[1] = x /\ all[2] = y
  BY <1>4, <1>7
<1> QED  BY <1>1, <1>3, <1>4, <1>8

LEMMA WriteTableIsGood ==
    ASSUME PeriodsApart, GoodDisk, Len(rows) <= MaxRows,
           NEW h \in Headers \cup {None}, NEW t \in Times, NEW u \in Times \cup {0}, NEW obstacle,
           WriteTable(h, <<t, u>>, obstacle)
    PROVE  /\ GoodDisk' /\ Later(disk.files, rows, object, disk.files', rows', object')
           /\ Len(rows') <= MaxRows
<1> PICK r, x, y : /\ r = (IF h = None THEN Current ELSE SetHeader(Current, h))
                   /\ x = TableStep(r, t, obstacle) /\ y = TableStep(x, u, obstacle)
  OBVIOUS
<1>1. Becomes(y)
  BY TableIs
<1>2. IsGoodState(r, disk.files, object, rows, 0)
  BY BegunIsGood, CurrentIsGood
<1>3. Len(rows) \in Nat /\ t # 0
  BY GoodDiskIs, CmFileAssumption
<1>4. IsGoodState(x, disk.files, object, rows, 0 + 1)
  <2>1. IsGoodState(x, disk.files, object, rows, IF t = 0 THEN 0 ELSE 0 + 1)
    BY <1>2, <1>3, TableStepIsGood
  <2> QED  BY <1>3, <2>1
<1> PICK c : c = IF u = 0 THEN 1 ELSE 2
  OBVIOUS
<1>5. IsGoodState(y, disk.files, object, rows, c)
  <2>1. IsGoodState(y, disk.files, object, rows, IF u = 0 THEN 1 ELSE 1 + 1)
    BY <1>3, <1>4, TableStepIsGood
  <2> QED  BY <2>1
<1>6. /\ GoodDisk' /\ Later(disk.files, rows, object, disk.files', rows', object')
      /\ Len(rows') <= Len(rows) + c
  BY <1>1, <1>5, BecomesGood
<1>7. Len(rows) + c <= MaxRows
  <2>1. Len(rows) + Cardinality({i \in DOMAIN <<t, u>> : <<t, u>>[i] # 0}) <= MaxRows
    BY DEF WriteTable
  <2>2. {i \in DOMAIN <<t, u>> : <<t, u>>[i] # 0} = (IF u = 0 THEN {1} ELSE {1, 2})
    BY <1>3
  <2>3. Cardinality({1}) = 1
    BY FS_Singleton
  <2>4. Cardinality({1, 2}) = 2
    <3>1. Cardinality({1} \cup {2}) = Cardinality({1}) + 1
      <4> PICK one, two : one = {1} /\ two = 2
        OBVIOUS
      <4>1. IsFiniteSet(one)
        BY FS_Singleton
      <4>2. two \notin one
        OBVIOUS
      <4>3. Cardinality(one \cup {two}) = Cardinality(one) + 1
        BY <4>1, <4>2, FS_AddElement
      <4> QED  BY <4>3
    <3>2. {1, 2} = {1} \cup {2}
      OBVIOUS
    <3>3. Cardinality({1, 2}) = 1 + 1
      BY <2>3, <3>1, <3>2, Zenon
    <3> QED  BY <3>3
  <2> QED  BY <2>1, <2>2, <2>3, <2>4
<1>8. Len(rows') \in Nat /\ MaxRows \in Nat
  <2>1. rows' \in Seq(Row)
    BY <1>6 DEF GoodDisk, Good
  <2> QED  BY <2>1, CmFileAssumption
<1> QED  BY <1>3, <1>6, <1>7, <1>8

-----------------------------------------------------------------------------
(* The stream *)

\* Rows that have been written later leave what is due where it is.
LEMMA StreamLater ==
    ASSUME GoodDisk, GoodDisk', StreamOk, UNCHANGED stream, Later(disk.files, rows, object, disk.files', rows', object')
    PROVE  StreamOk'
<1> PICK s : s = stream
  OBVIOUS
<1>1. stream = s /\ stream' = s
  OBVIOUS
<1>2. \A n \in DOMAIN rows : n \in DOMAIN rows' /\ rows'[n] = rows[n]
  BY DEF Later
<1>3. StreamTyped'
  <2>1. s.due \subseteq DOMAIN rows /\ s.read \subseteq DOMAIN rows
    BY <1>1 DEF StreamOk, StreamTyped
  <2>2. s.due \subseteq DOMAIN rows' /\ s.read \subseteq DOMAIN rows'
    BY <1>2, <2>1
  <2> QED  BY <1>1, <2>2 DEF StreamOk, StreamTyped
<1>4. s.due # {} => object'.FilePeriod = object.FilePeriod /\ object.FilePeriod # 0
  BY <1>1 DEF StreamOk, Later
<1>5. object'.FileName = object.FileName
  BY DEF Later
<1>6. ASSUME NEW n \in s.due
      PROVE  Ahead(n)'
  <2>1. Ahead(n) /\ n \in DOMAIN rows
    BY <1>1, <1>6 DEF StreamOk, StreamTyped
  <2>2. rows'[n] = rows[n] /\ n \in DOMAIN rows' /\ object'.FilePeriod = object.FilePeriod
    BY <1>2, <1>4, <1>6, <2>1
  <2>3. PICK f \in DOMAIN disk.files : f.name = object.FileName /\ f.seq = 0 /\ n \in RowsIn(f)
    BY <2>1 DEF Ahead
  <2>4. f \in DOMAIN disk'.files /\ f.name = object'.FileName /\ f.seq = 0 /\ n \in RowsIn(f)'
    <3>1. PICK k \in DOMAIN disk.files[f] : disk.files[f][k] = [kind |-> "row", n |-> n]
      BY <2>3 DEF RowsIn
    <3>2. k \in 1 .. Len(disk.files[f])
      BY <3>1, GoodDiskIs
    <3>3. f \in DOMAIN disk'.files /\ k \in 1 .. Len(disk'.files[f]) /\ disk'.files[f][k] = disk.files[f][k]
      BY <2>3, <3>2 DEF Later
    <3>4. DOMAIN disk'.files[f] = 1 .. Len(disk'.files[f])
      <4>1. disk'.files[f] \in Seq(Line)
        BY <3>3 DEF GoodDisk, Good, IsFiles
      <4> QED  BY <4>1
    <3> QED  BY <1>5, <2>2, <2>3, <3>1, <3>3, <3>4 DEF RowsIn
  <2> QED  BY <1>1, <2>1, <2>2, <2>4 DEF Ahead
<1> QED  BY <1>1, <1>3, <1>4, <1>6 DEF StreamOk

\* A row that is due is in the file that is looked for at its time.
LEMMA DueIsFound ==
    ASSUME PeriodsApart, GoodDisk, NEW p \in Periods, p = object.FilePeriod, NEW n \in DOMAIN rows,
           rows[n].period = p, rows[n].whole,
           NEW f \in DOMAIN disk.files, f.name = object.FileName, f.seq = 0, n \in RowsIn(f)
    PROVE  Found(Aligned(rows[n].time, p)) = {f}
<1> PICK t, a, d : t = rows[n].time /\ a = Aligned(t, p) /\ d = Depth(p)
  OBVIOUS
<1>1. p \in Nat \ {0} /\ t \in Times /\ t \in Nat /\ t \in Int
  <2>1. t \in Times
    BY GoodDiskIs DEF Row
  <2> QED  BY <2>1, PeriodIs, CmFileAssumption
<1>2. PICK k \in 1 .. Len(disk.files[f]) : disk.files[f][k] = RowLine(n)
  BY GoodDiskIs DEF RowsIn, RowLine
<1>3. FileOk(f, disk.files[f], rows, disk.dirs)
  BY DEF GoodDisk, Good, FilesOk
<1>4. Filed(f, disk.files[f][1], rows[n])
  <2>1. disk.files[f][k].kind = "row" /\ disk.files[f][k].n = n
    BY <1>2, Kinds
  <2> QED  BY <1>2, <1>3, <2>1 DEF FileOk
<1>5. IsFileOf(f, t, p) /\ Len(f.dir) = Len(f.prefix)
  BY <1>4 DEF Filed
<1>6. f.dir = Path(a, d) /\ f.prefix = Path(a, d) /\ Len(f.dir) = d
  <2>1. f.dir = Path(Aligned(t, p), Depth(p)) /\ f.prefix = f.dir /\ Len(f.dir) = Depth(p)
    BY <1>1, <1>5, FileOfIs
  <2> QED  BY <2>1
<1>7. a \in Nat /\ a \in Int /\ d \in 1 .. Len(Units) /\ Len(Units) \in Nat
  <2>1. a \in Nat /\ d \in 1 .. Len(Units)
    BY <1>1, AlignedNat, DepthIs
  <2> QED  BY <2>1, CmFileAssumption
<1>8. d \in Nat /\ d \in 0 .. Len(Units)
  BY <1>7
<1>9. \A i \in 0 .. d : Path(a, i) \in disk.dirs
  <2>1. \A i \in 0 .. d : Upto(f.dir, i) \in disk.dirs
    BY <1>3, <1>6 DEF FileOk
  <2>2. \A i \in 0 .. d : Upto(Path(a, d), i) = Path(a, i)
    BY <1>7, <1>8, PathIs
  <2> QED  BY <1>6, <2>1, <2>2
<1>10. <<>> \in disk.dirs
  <2>1. Path(a, 0) = <<>>
    BY DEF Path
  <2>2. 0 \in 0 .. d
    BY <1>8
  <2> QED  BY <1>9, <2>1, <2>2
<1>11. Aligned(a, p) = a
  <2>1. a % p = 0
    BY <1>1, AlignedIs
  <2> QED  BY <1>7, <2>1 DEF Aligned
<1>12. Entered(disk.dirs, a, d, FALSE, Nothing) = d
  <2>1. \A i \in 1 .. d : Path(a, i) \in disk.dirs
    BY <1>8, <1>9
  <2> QED  BY <1>8, <2>1, EnteredAll
<1>13. PeriodOf(object) = p
  BY <1>1 DEF PeriodOf
<1>14. f = [dir |-> f.dir, prefix |-> f.prefix, name |-> f.name, seq |-> f.seq]
  BY GoodDiskIs DEF IsFiles, Name
<1>15. FileAt(a, d, d, object.FileName, 0) = f
  <2>1. ~(d < d)
    BY <1>8
  <2>2. FileNumber(object.FileName, 0) = 0
    BY DEF FileNumber
  <2> QED  BY <1>6, <1>14, <2>1, <2>2 DEF FileAt
<1>16. Found(a) = IF <<>> \in disk.dirs /\ f \in DOMAIN disk.files THEN {f} ELSE {}
  <2>1. FileAt(Aligned(a, PeriodOf(object)),
               Entered(disk.dirs, Aligned(a, PeriodOf(object)), Depth(PeriodOf(object)), FALSE, Nothing),
               Depth(PeriodOf(object)), object.FileName, 0) = f
    BY <1>11, <1>12, <1>13, <1>15, Zenon
  <2> QED  BY <2>1, Zenon DEF Found
<1> QED  BY <1>10, <1>16

LEMMA StepBefore ==
    ASSUME NEW p \in Nat \ {0}, NEW i \in Int, NEW k \in Int, i < k
    PROVE  i * p + p <= k * p
<1>1. PICK d \in Nat : k = i + 1 + d
  <2>1. k - i - 1 \in Nat /\ k = i + 1 + (k - i - 1)
    OBVIOUS
  <2> QED  BY <2>1
<1>2. k * p = i * p + p + d * p /\ d * p \in Nat
  BY <1>1
<1> QED  BY <1>2

LEMMA AlignedNotBefore ==
    ASSUME NEW t \in Int, NEW u \in Int, t <= u, NEW p \in Nat \ {0}
    PROVE  Aligned(t, p) <= Aligned(u, p)
<1>1. Aligned(t, p) = p * (t \div p) /\ Aligned(u, p) = p * (u \div p)
  BY AlignedIs
<1> PICK a, b : a = t \div p /\ b = u \div p
  OBVIOUS
<1>2. a \in Int /\ b \in Int /\ a <= b
  BY LargerQuotient
<1>3. p * a = a * p /\ p * b = b * p /\ p * a \in Int /\ p * b \in Int
  BY <1>2
<1>4. CASE a < b
  <2>1. a * p + p <= b * p
    BY <1>2, <1>4, StepBefore
  <2> QED  BY <1>1, <1>3, <2>1
<1>5. CASE a = b
  BY <1>1, <1>3, <1>5
<1> QED  BY <1>2, <1>4, <1>5

\* The stream begins with what is due ahead of it.
LEMMA BeginIsGood ==
    ASSUME GoodDisk, NEW start \in Int, NEW end \in Int, Begin(start, end), UNCHANGED <<disk, object, rows>>
    PROVE  StreamOk'
<1> PICK p : p = object.FilePeriod
  OBVIOUS
<1>1. /\ stream'.StartTime = start /\ stream'.EndTime = end /\ stream'.due = Due(start, end) /\ stream'.read = {}
      /\ stream'.isEnd = FALSE
      /\ stream'.FileTime = IF p > 0 THEN Aligned(start, p) ELSE start
      /\ stream' = [StartTime |-> stream'.StartTime, EndTime |-> stream'.EndTime, due |-> stream'.due,
                    read |-> stream'.read, isEnd |-> stream'.isEnd, FileTime |-> stream'.FileTime]
  BY DEF Begin
<1>2. p \in Nat
  BY GoodDiskIs, CmFileAssumption DEF Object
<1>3. stream'.FileTime \in Int
  BY <1>1, <1>2, AlignedIs
<1>4. Due(start, end) \subseteq DOMAIN rows
  BY DEF Due
<1>5. StreamTyped'
  BY <1>1, <1>3, <1>4 DEF StreamTyped
<1>6. ASSUME NEW n \in Due(start, end)
      PROVE  /\ n \in DOMAIN rows /\ rows[n].time \in start .. end /\ rows[n].whole
             /\ rows[n].period = p /\ p \in Nat \ {0} /\ rows[n].time \in Int
             /\ \E f \in DOMAIN disk.files : f.name = object.FileName /\ f.seq = 0 /\ n \in RowsIn(f)
  <2>1. /\ n \in DOMAIN rows /\ rows[n].time \in start .. end /\ rows[n].whole
        /\ rows[n].period = p
        /\ \E f \in DOMAIN disk.files : f.name = object.FileName /\ f.seq = 0 /\ n \in RowsIn(f)
    BY DEF Due
  <2>2. rows[n] \in Row
    BY <2>1, GoodDiskIs
  <2>3. p \in Periods
    BY <2>1, <2>2 DEF Row
  <2> QED  BY <2>1, <2>3, PeriodIs
<1>7. ASSUME NEW n \in Due(start, end)
      PROVE  Ahead(n)'
  <2>1. Aligned(rows[n].time, p) >= Aligned(start, p)
    <3>1. start <= rows[n].time /\ p \in Nat \ {0} /\ rows[n].time \in Int
      BY <1>6
    <3>2. Aligned(start, p) <= Aligned(rows[n].time, p)
      BY <3>1, AlignedNotBefore
    <3> QED  BY <3>2
  <2>2. stream'.FileTime = Aligned(start, p) /\ rows[n].time <= end
    BY <1>1, <1>6
  <2>3. Aligned(rows[n].time, p) >= stream'.FileTime
    BY <2>1, <2>2
  <2>4. rows' = rows /\ object' = object /\ disk' = disk
    OBVIOUS
  <2>5. PICK f \in DOMAIN disk.files : f.name = object.FileName /\ f.seq = 0 /\ n \in RowsIn(f)
    BY <1>6
  <2>6. n \in RowsIn(f)'
    BY <2>4, <2>5 DEF RowsIn
  <2> QED  BY <1>1, <1>6, <2>2, <2>3, <2>4, <2>5, <2>6 DEF Ahead
<1>8. stream'.due # {} => object'.FilePeriod # 0 /\ stream'.FileTime % object'.FilePeriod = 0
  <2>1. ASSUME stream'.due # {}
        PROVE  p \in Nat \ {0}
    <3>1. PICK n : n \in Due(start, end)
      BY <1>1, <2>1
    <3> QED  BY <1>6, <3>1
  <2>2. ASSUME p \in Nat \ {0}
        PROVE  Aligned(start, p) % p = 0 /\ stream'.FileTime = Aligned(start, p)
    BY <1>1, <2>2, AlignedIs
  <2> QED  BY <2>1, <2>2
<1> QED  BY <1>1, <1>5, <1>7, <1>8 DEF StreamOk

\* readData() of the file of a time: it is closed again.
LEMMA ReadingIsGood ==
    ASSUME GoodDisk, NEW t \in Int, object' = AfterReading(object, t), UNCHANGED <<disk, rows>>
    PROVE  GoodDisk' /\ Later(disk.files, rows, object, disk.files', rows', object')
<1> PICK o, n, p : o = object /\ n = object' /\ p = PeriodOf(object)
  OBVIOUS
<1>1. o \in Object /\ Good(disk.dirs, disk.files, o, rows) /\ (o.FilePeriod # 0 => p = o.FilePeriod)
  BY GoodDiskIs DEF PeriodOf
<1>2. p \in FilePeriods \cup {DefaultPeriod} /\ p \in Nat \ {0}
  BY <1>1, CmFileAssumption DEF PeriodOf, Object
<1>3. t \div p \in Int
  BY <1>2, Division
<1>4. /\ n \in Object /\ n.FileName = o.FileName /\ n.FilePeriod = p
      /\ n.ParentCollection = o.ParentCollection /\ n.isNewHeader = o.isNewHeader
      /\ n.data_fd = None \/ (n.data_fd = o.data_fd /\ n.FileSeqNum = o.FileSeqNum /\ n.TimeIndex = o.TimeIndex)
  <2>1. \/ n = [o EXCEPT !.FilePeriod = p]
        \/ n = [o EXCEPT !.FilePeriod = p, !.data_fd = None]
        \/ n = [o EXCEPT !.FilePeriod = p, !.data_fd = None, !.TimeIndex = t \div p]
    BY DEF AfterReading
  <2>2. CASE n = [o EXCEPT !.FilePeriod = p]
    BY <1>1, <1>2, <2>2 DEF Object
  <2>3. CASE n = [o EXCEPT !.FilePeriod = p, !.data_fd = None]
    BY <1>1, <1>2, <2>3 DEF Object
  <2>4. CASE n = [o EXCEPT !.FilePeriod = p, !.data_fd = None, !.TimeIndex = t \div p]
    BY <1>1, <1>2, <1>3, <2>4 DEF Object
  <2> QED  BY <2>1, <2>2, <2>3, <2>4
<1>5. Good(disk.dirs, disk.files, n, rows)
  BY <1>1, <1>4, GoodObject
<1>6. GoodDisk'
  BY <1>5, GoodDiskIs DEF GoodDisk
<1>7. Later(disk.files, rows, object, disk.files', rows', object')
  <2>1. \A f \in DOMAIN disk.files : \A k \in 1 .. Len(disk.files[f]) : k \in 1 .. Len(disk.files'[f])
    OBVIOUS
  <2> QED  BY <1>1, <1>4, <2>1 DEF Later
<1> QED  BY <1>6, <1>7

\* The k-th file of the stream.
Step(k) == stream.FileTime + k * object.FilePeriod

Steps == {k \in 0 .. (stream.EndTime + object.FilePeriod - stream.FileTime) \div object.FilePeriod :
             Step(k) <= stream.EndTime + object.FilePeriod}

Hits == {k \in Steps : Found(Step(k)) # {}}

LastStep ==
    IF Hits # {} THEN CHOOSE k \in Hits : \A j \in Hits : k <= j
    ELSE CHOOSE k \in Steps : \A j \in Steps : j <= k

NextTime == IF Steps = {} THEN stream.FileTime ELSE Step(LastStep) + object.FilePeriod

LEMMA NextFileIs ==
    ASSUME GetNextFileFTL
    PROVE  LET isEnd == IsBehind(NextTime, stream.EndTime, object.FilePeriod)
           IN  /\ object.FilePeriod # 0
               /\ object' = IF Steps = {} THEN object ELSE AfterReading(object, Step(LastStep))
               /\ stream' = [stream EXCEPT !.FileTime = NextTime, !.isEnd = isEnd,
                                    !.read = IF isEnd THEN @ ELSE @ \cup UNION {RowsIn(f) : f \in Found(Step(LastStep))}]
               /\ UNCHANGED <<disk, rows>>
BY Zenon DEF GetNextFileFTL, Step, Steps, Hits, LastStep, NextTime

LEMMA StepsAre ==
    ASSUME GoodDisk, StreamTyped, object.FilePeriod # 0
    PROVE  /\ object.FilePeriod \in Nat \ {0} /\ object.FilePeriod \in Periods
           /\ stream.FileTime \in Int /\ stream.EndTime \in Int
           /\ \A k \in Int : Step(k) \in Int
           /\ \A i, k \in Int : i < k => Step(i) + object.FilePeriod <= Step(k)
           /\ Steps \subseteq Nat
           /\ \A k \in Nat : Step(k) <= stream.EndTime => k \in Steps
           /\ stream.FileTime <= stream.EndTime + object.FilePeriod => Steps # {}
<1> PICK p, a, e : p = object.FilePeriod /\ a = stream.FileTime /\ e = stream.EndTime
  OBVIOUS
<1>1. p \in Nat \ {0} /\ a \in Int /\ e \in Int /\ p \in Periods
  BY GoodDiskIs, CmFileAssumption DEF Object, StreamTyped, Periods
<1>2. \A k : Step(k) = a + k * p
  BY DEF Step
<1>3. \A k \in Int : k * p \in Int /\ Step(k) \in Int
  BY <1>1, <1>2
<1>4. ASSUME NEW i \in Int, NEW k \in Int, i < k
      PROVE  Step(i) + p <= Step(k)
  <2>1. i * p + p <= k * p
    BY <1>1, <1>4, StepBefore
  <2> PICK x, y : x = i * p /\ y = k * p
    OBVIOUS
  <2>2. x + p <= y /\ x \in Int /\ y \in Int /\ Step(i) = a + x /\ Step(k) = a + y
    BY <1>2, <1>3, <2>1
  <2> QED  BY <1>1, <2>2
<1>5. Steps \subseteq Nat
  BY DEF Steps
<1>6. ASSUME NEW k \in Nat, Step(k) <= e + p
      PROVE  k \in Steps
  <2> PICK x, m : x = k * p /\ m = (e + p - a) \div p
    OBVIOUS
  <2>1. x \in Int /\ x <= e + p - a /\ e + p - a \in Int
    <3>1. x \in Int /\ Step(k) = a + x
      BY <1>2, <1>3
    <3> QED  BY <1>1, <1>6, <3>1
  <2>2. x \div p <= (e + p - a) \div p
    BY <1>1, <2>1, LargerQuotient
  <2>3. x \div p = k
    <3>1. x = p * k
      BY <1>1
    <3> QED  BY <1>1, <3>1, Multiple
  <2>4. m \in Int /\ k <= m
    BY <1>1, <2>1, <2>2, <2>3, Division
  <2>5. k \in 0 .. m
    BY <2>4
  <2> QED  BY <1>6, <2>5 DEF Steps
<1>7. ASSUME NEW k \in Nat, Step(k) <= e
      PROVE  k \in Steps
  <2>1. Step(k) <= e + p
    BY <1>1, <1>3, <1>7
  <2> QED  BY <1>6, <2>1
<1>8. ASSUME a <= e + p
      PROVE  Steps # {}
  <2>1. Step(0) = a
    BY <1>1, <1>2
  <2> QED  BY <1>6, <1>8, <2>1
<1> QED  BY <1>1, <1>3, <1>4, <1>5, <1>7, <1>8

\* One file is read, the first that is there, or the last one that is looked for.
LEMMA LastStepIs ==
    ASSUME GoodDisk, StreamTyped, object.FilePeriod # 0, Steps # {}
    PROVE  LastStep \in Steps /\ \A k \in Hits : LastStep <= k
<1> PICK p, m : p = object.FilePeriod /\ m = (stream.EndTime + object.FilePeriod - stream.FileTime) \div object.FilePeriod
  OBVIOUS
<1>1. p \in Nat \ {0} /\ stream.FileTime \in Int /\ stream.EndTime \in Int /\ Steps \subseteq Nat
  BY StepsAre
<1>2. CASE Hits # {}
  <2>1. Hits \in SUBSET Nat
    BY <1>1 DEF Hits
  <2>2. PICK k \in Hits : \A j \in Hits : k <= j
    BY <1>2, <2>1, FirstOfNumbers
  <2>3. LastStep = CHOOSE i \in Hits : \A j \in Hits : i <= j
    BY <1>2 DEF LastStep
  <2>4. LastStep \in Hits /\ \A j \in Hits : LastStep <= j
    BY <2>2, <2>3
  <2> QED  BY <2>4 DEF Hits
<1>3. CASE Hits = {}
  <2>1. m \in Int
    <3>1. stream.EndTime + p - stream.FileTime \in Int
      BY <1>1
    <3> QED  BY <1>1, <3>1, Division
  <2>2. \A k \in Steps : k \in 0 .. m
    BY DEF Steps
  <2> DEFINE N == {i \in Nat : m - i \in Steps}
  <2>3. N \in SUBSET Nat /\ N # {}
    <3>1. PICK k \in Steps : TRUE
      OBVIOUS
    <3>2. m - k \in Nat /\ m - (m - k) = k
      BY <2>1, <2>2
    <3> QED  BY <3>1, <3>2
  <2>4. PICK i \in N : \A j \in N : i <= j
    BY <2>3, FirstOfNumbers
  <2>5. \A j \in Steps : j <= m - i
    <3> TAKE j \in Steps
    <3>1. m - j \in Nat /\ m - (m - j) = j
      BY <2>1, <2>2
    <3>2. i <= m - j
      BY <2>4, <3>1
    <3> QED  BY <1>1, <2>1, <2>4, <3>2
  <2>6. m - i \in Steps
    BY <2>4
  <2>7. LastStep = CHOOSE k \in Steps : \A j \in Steps : j <= k
    BY <1>3 DEF LastStep
  <2>8. LastStep \in Steps
    BY <2>5, <2>6, <2>7
  <2> QED  BY <1>3, <2>8
<1> QED  BY <1>2, <1>3

LEMMA StepAfter ==
    ASSUME NEW a \in Int, NEW p \in Int, NEW l \in Int
    PROVE  a + (l + 1) * p = a + l * p + p
OBVIOUS

\* What is due is ahead of the next file or has been read, and it is not behind
\* the end.
LEMMA NextFileIsGood ==
    ASSUME PeriodsApart, GoodDisk, StreamOk, GetNextFileFTL
    PROVE  GoodDisk' /\ StreamOk'
<1> PICK p, s, E : p = object.FilePeriod /\ s = stream /\ E = stream.EndTime
  OBVIOUS
<1> DEFINE isEnd == IsBehind(NextTime, E, p)
           found == UNION {RowsIn(f) : f \in Found(Step(LastStep))}
<1>1. /\ p # 0
      /\ object' = IF Steps = {} THEN object ELSE AfterReading(object, Step(LastStep))
      /\ stream' = [stream EXCEPT !.FileTime = NextTime, !.isEnd = isEnd,
                                  !.read = IF isEnd THEN @ ELSE @ \cup found]
      /\ disk' = disk /\ rows' = rows
  BY NextFileIs, Zenon
<1> HIDE DEF isEnd, found
<1>2. StreamTyped /\ GoodDisk
  BY DEF StreamOk
<1>3. /\ p \in Nat \ {0} /\ p \in Periods /\ stream.FileTime \in Int /\ E \in Int
      /\ \A k \in Int : Step(k) \in Int
      /\ \A i, k \in Int : i < k => Step(i) + p <= Step(k)
      /\ Steps \subseteq Nat
      /\ \A k \in Nat : Step(k) <= E => k \in Steps
      /\ stream.FileTime <= E + p => Steps # {}
  BY <1>1, <1>2, StepsAre
<1>4. Steps # {} => LastStep \in Nat /\ \A k \in Hits : LastStep <= k
  BY <1>1, <1>2, <1>3, LastStepIs
<1>5. GoodDisk' /\ Later(disk.files, rows, object, disk.files', rows', object')
  <2>1. CASE Steps = {}
    <3>1. object' = object
      BY <1>1, <2>1
    <3>2. GoodDisk'
      BY <1>1, <3>1 DEF GoodDisk
    <3> QED  BY <1>1, <3>1, <3>2 DEF Later
  <2>2. CASE Steps # {}
    <3>1. Step(LastStep) \in Int /\ object' = AfterReading(object, Step(LastStep))
      BY <1>1, <1>3, <1>4, <2>2
    <3> QED  BY <1>1, <3>1, ReadingIsGood
  <2> QED  BY <2>1, <2>2
<1>6. object'.FilePeriod = p /\ object'.FileName = object.FileName
  BY <1>1, <1>5 DEF Later
<1>7. NextTime \in Int /\ (isEnd <=> NextTime > E + p)
  BY <1>3, <1>4 DEF NextTime, IsBehind, isEnd
<1>8. /\ stream'.EndTime = E /\ stream'.due = s.due /\ stream'.FileTime = NextTime /\ stream'.isEnd = isEnd
      /\ stream'.read = IF isEnd THEN s.read ELSE s.read \cup found
      /\ stream'.StartTime = s.StartTime
      /\ stream' = [StartTime |-> stream'.StartTime, EndTime |-> stream'.EndTime, due |-> stream'.due,
                    read |-> stream'.read, isEnd |-> stream'.isEnd, FileTime |-> stream'.FileTime]
  <2>1. s = [StartTime |-> s.StartTime, EndTime |-> s.EndTime, due |-> s.due,
             read |-> s.read, isEnd |-> s.isEnd, FileTime |-> s.FileTime]
    BY <1>2 DEF StreamTyped
  <2> QED  BY <1>1, <2>1
<1>9. found \subseteq DOMAIN rows
  BY DEF found, RowsIn
<1>10. StreamTyped'
  <2>1. s.due \subseteq DOMAIN rows /\ s.read \subseteq DOMAIN rows /\ s.StartTime \in Int
    BY <1>2 DEF StreamTyped
  <2>2. stream'.read \subseteq DOMAIN rows /\ rows' = rows
    BY <1>1, <1>8, <1>9, <2>1
  <2>3. isEnd \in BOOLEAN
    BY DEF isEnd, IsBehind
  <2> QED  BY <1>3, <1>7, <1>8, <2>1, <2>2, <2>3 DEF StreamTyped
\* A row that is due and has not been read.
<1>11. ASSUME NEW n \in s.due, n \notin s.read
       PROVE  /\ Steps # {} /\ NextTime <= E + p
              /\ n \in found \/ NextTime <= Aligned(rows[n].time, p)
  <2>1. Ahead(n) /\ n \in DOMAIN rows
    BY <1>11, <1>2 DEF StreamOk, StreamTyped
  <2> PICK t, a : t = rows[n].time /\ a = Aligned(t, p)
    OBVIOUS
  <2>2. /\ rows[n].period = p /\ rows[n].whole /\ t <= E /\ a >= stream.FileTime
        /\ \E f \in DOMAIN disk.files : f.name = object.FileName /\ f.seq = 0 /\ n \in RowsIn(f)
    BY <1>11, <2>1 DEF Ahead
  <2>3. PICK f \in DOMAIN disk.files : f.name = object.FileName /\ f.seq = 0 /\ n \in RowsIn(f)
    BY <2>2
  <2>4. Found(a) = {f}
    BY <1>2, <1>3, <2>1, <2>2, <2>3, DueIsFound
  <2>5. t \in Int
    BY <2>1, GoodDiskIs, CmFileAssumption DEF Row
  <2>6. a \in Int /\ a <= t /\ a % p = 0
    BY <1>3, <2>5, AlignedIs
  <2>7. stream.FileTime % p = 0
    BY <1>11 DEF StreamOk
  <2>8. stream.FileTime <= a
    BY <1>3, <2>2, <2>6
  <2>9. PICK k \in Nat : a = stream.FileTime + k * p
    <3>1. stream.FileTime \in Int /\ a \in Int /\ p \in Nat \ {0}
      BY <1>3, <2>6
    <3> QED  BY <2>6, <2>7, <2>8, <3>1, AlignedAhead, Zenon
  <2>10. Step(k) = a
    BY <2>9 DEF Step
  <2> HIDE <2>9
  <2>11. Step(k) <= E
    BY <1>3, <2>2, <2>5, <2>6, <2>10
  <2>12. k \in Steps
    BY <1>3, <2>11
  <2>13. k \in Hits
    BY <2>4, <2>10, <2>12 DEF Hits
  <2>14. LastStep \in Nat /\ LastStep <= k
    BY <1>4, <2>12, <2>13
  <2>15. NextTime = Step(LastStep) + p
    BY <2>12 DEF NextTime
  <2>16. CASE LastStep = k
    <3>1. found = RowsIn(f)
      BY <2>4, <2>10, <2>16 DEF found
    <3>2. NextTime = a + p
      BY <2>10, <2>15, <2>16
    <3>3. NextTime <= E + p
      BY <1>3, <2>6, <2>10, <2>11, <3>2
    <3> QED  BY <2>3, <2>12, <3>1, <3>3
  <2>17. CASE LastStep < k
    <3>1. Step(LastStep) + p <= Step(k)
      BY <1>3, <2>14, <2>17
    <3>2. NextTime <= a
      BY <2>10, <2>15, <3>1
    <3>3. NextTime <= E + p
      BY <1>3, <1>7, <2>6, <2>10, <2>11, <3>2
    <3> QED  BY <2>12, <3>2, <3>3
  <2> QED  BY <2>14, <2>16, <2>17
<1>12. isEnd => s.due \subseteq s.read
  BY <1>3, <1>7, <1>11
<1>13. ASSUME NEW n \in s.due
       PROVE  Ahead(n)'
  <2>1. Ahead(n)
    BY <1>13 DEF StreamOk
  <2>2. n \in stream'.read \/ NextTime <= Aligned(rows[n].time, p)
    BY <1>8, <1>11, <1>12, <1>13
  <2>3. n \in stream'.read \/ Aligned(rows[n].time, p) >= NextTime
    <3>1. rows[n].time \in Int
      BY <1>2, <1>13, GoodDiskIs, CmFileAssumption DEF Row, StreamTyped
    <3>2. Aligned(rows[n].time, p) \in Int
      BY <1>3, <3>1, AlignedIs
    <3> QED  BY <1>7, <2>2, <3>2
  <2>4. PICK f \in DOMAIN disk.files : f.name = object.FileName /\ f.seq = 0 /\ n \in RowsIn(f)
    BY <2>1 DEF Ahead
  <2>5. n \in RowsIn(f)'
    BY <1>1, <2>4 DEF RowsIn
  <2>6. \E g \in DOMAIN disk'.files : g.name = object'.FileName /\ g.seq = 0 /\ n \in RowsIn(g)'
    BY <1>1, <1>6, <2>4, <2>5
  <2> QED  BY <1>1, <1>6, <1>8, <2>1, <2>3, <2>6 DEF Ahead
<1>14. stream'.due # {} => object'.FilePeriod # 0 /\ stream'.FileTime % object'.FilePeriod = 0
  <2>1. ASSUME s.due # {}
        PROVE  NextTime % p = 0
    <3>1. stream.FileTime % p = 0
      BY <2>1 DEF StreamOk
    <3>2. CASE Steps = {}
      BY <3>1, <3>2 DEF NextTime
    <3>3. CASE Steps # {}
      <4>1. LastStep \in Nat /\ LastStep + 1 \in Int
        BY <1>4, <3>3
      <4>2. (stream.FileTime + (LastStep + 1) * p) % p = 0
        <5>1. stream.FileTime \in Int /\ LastStep + 1 \in Int /\ p \in Nat \ {0}
          BY <1>3, <4>1
        <5> QED  BY <3>1, <5>1, AlignedStep, Zenon
      <4>3. NextTime = stream.FileTime + (LastStep + 1) * p
        <5>1. NextTime = stream.FileTime + LastStep * p + p
          BY <3>3 DEF NextTime, Step
        <5>2. stream.FileTime + (LastStep + 1) * p = stream.FileTime + LastStep * p + p
          <6>1. stream.FileTime \in Int /\ p \in Int /\ LastStep \in Int
            BY <1>3, <4>1
          <6> QED  BY <6>1, StepAfter, Zenon
        <5> QED  BY <5>1, <5>2, Zenon
      <4> QED  BY <4>2, <4>3
    <3> QED  BY <3>2, <3>3
  <2> QED  BY <1>1, <1>6, <1>8, <2>1
<1>15. stream'.isEnd => stream'.due \subseteq stream'.read
  BY <1>8, <1>12
<1>16. StreamOk'
  BY <1>8, <1>10, <1>13, <1>14, <1>15 DEF StreamOk
<1> QED  BY <1>5, <1>16

-----------------------------------------------------------------------------
(* The invariant holds *)

LEMMA NewObjectIs ==
    ASSUME NEW name \in FileNames, NEW b \in BOOLEAN
    PROVE  /\ NewObject(name, b) \in Object /\ NewObject(name, b).data_fd = None
           /\ NewObject(name, b).ParentCollection = None
BY CmFileAssumption DEF NewObject, Object

LEMMA NothingDue ==
    ASSUME stream.due = {}, StreamTyped
    PROVE  StreamOk
BY DEF StreamOk

LEMMA NewStreamIs ==
    ASSUME stream = NewStream
    PROVE  StreamOk
<1>1. StreamTyped /\ stream.due = {}
  BY CmFileAssumption DEF NewStream, StreamTyped
<1> QED  BY <1>1, NothingDue

\* A program that is started on an empty disk has nothing to keep.
LEMMA InitIsGood == Init => FileInv
<1> SUFFICES ASSUME Init
             PROVE  FileInv
  OBVIOUS
<1>1. PICK name \in FileNames, b \in BOOLEAN : object = NewObject(name, b) /\ stream = NewStream
  BY DEF Init
<1>2. disk = [dirs |-> {}, files |-> <<>>] /\ rows = <<>> /\ disk.dirs = {} /\ disk.files = <<>>
  BY DEF Init
<1>3. object \in Object /\ object.data_fd = None /\ object.ParentCollection = None
  BY <1>1, NewObjectIs
<1> PICK F, rs, D : F = disk.files /\ rs = rows /\ D = disk.dirs
  OBVIOUS
<1>4. DOMAIN F = {} /\ DOMAIN rs = {} /\ rs \in Seq(Row) /\ Len(rs) = 0
  BY <1>2
<1>5. IsFiles(F)
  <2>1. F \in [{} -> Seq(Line)]
    BY <1>2
  <2> QED  BY <1>4, <2>1 DEF IsFiles
<1>6. FilesOk(F, rs, D) /\ Places(F, rs) /\ HeadersOk(F, rs)
  BY <1>4 DEF FilesOk, Places, HeadersOk
<1>7. OpenOk(object, F, rs) /\ Announced(object, F, rs)
  BY <1>3 DEF OpenOk, Announced
<1>8. Good(D, F, object, rs)
  BY <1>3, <1>4, <1>5, <1>6, <1>7 DEF Good
<1>9. GoodDisk
  BY <1>2, <1>8 DEF GoodDisk
<1>10. Len(rows) <= MaxRows
  BY <1>4, CmFileAssumption
<1> QED  BY <1>1, <1>9, <1>10, NewStreamIs DEF FileInv

\* A setting: the file that is open stays open, and nothing is due any more.
LEMMA SettingsKeep ==
    ASSUME GoodDisk, StreamOk, object' \in Object,
           object'.ParentCollection = object.ParentCollection, object'.isNewHeader = object.isNewHeader,
           object'.data_fd = object.data_fd, object'.FileSeqNum = object.FileSeqNum, object'.TimeIndex = object.TimeIndex,
           stream' = [stream EXCEPT !.due = {}], UNCHANGED <<disk, rows>>
    PROVE  GoodDisk' /\ StreamOk'
<1> PICK n : n = object'
  OBVIOUS
<1>1. Good(disk.dirs, disk.files, n, rows)
  BY GoodDiskIs, GoodObject
<1>2. GoodDisk'
  BY <1>1, GoodDiskIs DEF GoodDisk
<1>3. StreamTyped' /\ stream'.due = {}
  BY DEF StreamOk, StreamTyped
<1>4. StreamOk'
  BY <1>3 DEF StreamOk
<1> QED  BY <1>2, <1>4

LEMMA NextIsGood == ASSUME PeriodsApart PROVE FileInv /\ [Next]_vars => FileInv'
<1> SUFFICES ASSUME FileInv, [Next]_vars
             PROVE  FileInv'
  OBVIOUS
<1>1. GoodDisk /\ StreamOk /\ Len(rows) <= MaxRows
  BY DEF FileInv
<1>2. ASSUME GoodDisk', Later(disk.files, rows, object, disk.files', rows', object'), UNCHANGED stream, Len(rows') <= MaxRows
      PROVE  FileInv'
  BY <1>1, <1>2, StreamLater DEF FileInv
<1>3. ASSUME NEW t \in Times, NEW q \in SeqNums, NEW obstacle, WriteData(t, q, obstacle)
      PROVE  FileInv'
  <2>1. UNCHANGED stream
    BY <1>3 DEF WriteData
  <2> QED  BY <1>1, <1>2, <1>3, <2>1, WriteDataIsGood
<1>4. ASSUME NEW h \in Headers \cup {None}, NEW t \in Times, NEW u \in Times \cup {0}, NEW obstacle,
             WriteTable(h, <<t, u>>, obstacle)
      PROVE  FileInv'
  <2>1. UNCHANGED stream
    BY <1>4 DEF WriteTable
  <2> QED  BY <1>1, <1>2, <1>4, <2>1, WriteTableIsGood
<1>5. CASE CloseFTLightFile
  <2> PICK o, n : o = object /\ n = object'
    OBVIOUS
  <2>1. n = [o EXCEPT !.data_fd = None] /\ UNCHANGED <<disk, stream, rows>>
    BY <1>5 DEF CloseFTLightFile
  <2>2. o \in Object /\ Good(disk.dirs, disk.files, o, rows)
    BY <1>1, GoodDiskIs
  <2>3. /\ n \in Object /\ n.data_fd = None /\ n.ParentCollection = o.ParentCollection
        /\ n.isNewHeader = o.isNewHeader /\ n.FileName = o.FileName /\ n.FilePeriod = o.FilePeriod
    BY <2>1, <2>2 DEF Object
  <2>4. Good(disk.dirs, disk.files, n, rows)
    BY <2>2, <2>3, GoodObject
  <2>5. GoodDisk'
    BY <1>1, <2>1, <2>4 DEF GoodDisk
  <2>6. Later(disk.files, rows, object, disk.files', rows', object')
    BY <2>1, <2>3 DEF Later
  <2> QED  BY <1>1, <1>2, <2>1, <2>5, <2>6
<1>6. ASSUME NEW t \in Times, ReadData(t)
      PROVE  FileInv'
  <2>1. object' = AfterReading(object, t) /\ UNCHANGED <<disk, rows>> /\ UNCHANGED stream
    BY <1>6 DEF ReadData
  <2>2. t \in Int
    BY CmFileAssumption
  <2> QED  BY <1>1, <1>2, <2>1, <2>2, ReadingIsGood
<1>7. ASSUME NEW t \in Times, NEW l \in StreamLengths \cup {0}, SetStartTime(t, l) \/ SetEndTime(t, l)
      PROVE  FileInv'
  <2>1. t \in Int /\ l \in Int
    BY CmFileAssumption
  <2>2. stream.StartTime \in Int /\ stream.EndTime \in Int
    BY <1>1 DEF StreamOk, StreamTyped
  <2>3. \E start, end \in Int : Begin(start, end)
    <3>1. CASE SetStartTime(t, l)
      <4> PICK end : end = IF l = 0 THEN stream.EndTime ELSE t + l
        OBVIOUS
      <4>1. end \in Int /\ Begin(t, end)
        BY <2>1, <2>2, <3>1 DEF SetStartTime
      <4> QED  BY <2>1, <4>1
    <3>2. CASE SetEndTime(t, l)
      <4> PICK start : start = IF l = 0 THEN stream.StartTime ELSE t - l
        OBVIOUS
      <4>1. start \in Int /\ Begin(start, t)
        BY <2>1, <2>2, <3>2 DEF SetEndTime
      <4> QED  BY <2>1, <4>1
    <3> QED  BY <1>7, <3>1, <3>2
  <2>4. UNCHANGED <<disk, object, rows>>
    BY <1>7 DEF SetStartTime, SetEndTime
  <2>5. StreamOk'
    BY <1>1, <2>3, <2>4, BeginIsGood
  <2>6. GoodDisk'
    BY <1>1, <2>4 DEF GoodDisk
  <2> QED  BY <1>1, <2>4, <2>5, <2>6 DEF FileInv
<1>8. CASE GetNextFileFTL
  <2>1. UNCHANGED rows
    BY <1>8, NextFileIs
  <2> QED  BY <1>1, <1>8, <2>1, NextFileIsGood DEF FileInv
<1>9. ASSUME NEW name \in FileNames, SetFileName(name)
      PROVE  FileInv'
  <2>1. /\ object' = [object EXCEPT !.FileName = name]
        /\ stream' = [stream EXCEPT !.due = {}] /\ UNCHANGED <<disk, rows>>
    BY <1>9 DEF SetFileName
  <2> PICK o, n : o = object /\ n = object'
    OBVIOUS
  <2>2. o \in Object /\ n = [o EXCEPT !.FileName = name]
    BY <1>1, <2>1, GoodDiskIs
  <2>3. /\ n \in Object /\ n.ParentCollection = o.ParentCollection /\ n.isNewHeader = o.isNewHeader
        /\ n.data_fd = o.data_fd /\ n.FileSeqNum = o.FileSeqNum /\ n.TimeIndex = o.TimeIndex
    BY <2>2 DEF Object
  <2> QED  BY <1>1, <2>1, <2>3, SettingsKeep DEF FileInv
<1>10. ASSUME NEW period \in FilePeriods, SetFilePeriod(period)
       PROVE  FileInv'
  <2>1. /\ object' = [object EXCEPT !.FilePeriod = period]
        /\ stream' = [stream EXCEPT !.due = {}] /\ UNCHANGED <<disk, rows>>
    BY <1>10 DEF SetFilePeriod
  <2> PICK o, n : o = object /\ n = object'
    OBVIOUS
  <2>2. o \in Object /\ n = [o EXCEPT !.FilePeriod = period]
    BY <1>1, <2>1, GoodDiskIs
  <2>3. /\ n \in Object /\ n.ParentCollection = o.ParentCollection /\ n.isNewHeader = o.isNewHeader
        /\ n.data_fd = o.data_fd /\ n.FileSeqNum = o.FileSeqNum /\ n.TimeIndex = o.TimeIndex
    BY <2>2 DEF Object
  <2> QED  BY <1>1, <2>1, <2>3, SettingsKeep DEF FileInv
<1>11. CASE Restart
  <2>1. PICK name \in FileNames, b \in BOOLEAN : object' = NewObject(name, b) /\ stream' = NewStream
    BY <1>11 DEF Restart
  <2>2. UNCHANGED <<disk, rows>>
    BY <1>11 DEF Restart
  <2>3. object' \in Object /\ object'.data_fd = None /\ object'.ParentCollection = None
    BY <2>1, NewObjectIs
  <2>4. Good(disk.dirs, disk.files, object', rows)
    BY <1>1, <2>3, GoodDiskIs, GoodObject
  <2>5. GoodDisk'
    BY <1>1, <2>2, <2>4 DEF GoodDisk
  <2>6. StreamTyped' /\ stream'.due = {}
    BY <2>1, CmFileAssumption DEF NewStream, StreamTyped
  <2>7. StreamOk'
    BY <2>6 DEF StreamOk
  <2> QED  BY <1>1, <2>2, <2>5, <2>7 DEF FileInv
<1>12. CASE UNCHANGED vars
  <2>1. disk' = disk /\ object' = object /\ stream' = stream /\ rows' = rows
    BY <1>12 DEF vars
  <2>2. GoodDisk'
    BY <1>1, <2>1 DEF GoodDisk
  <2>3. Later(disk.files, rows, object, disk.files', rows', object')
    BY <2>1 DEF Later
  <2> QED  BY <1>1, <1>2, <2>1, <2>2, <2>3
<1>13. CASE Next
  BY <1>3, <1>4, <1>5, <1>6, <1>7, <1>8, <1>9, <1>10, <1>11, <1>13 DEF Next
<1> QED  BY <1>12, <1>13

-----------------------------------------------------------------------------
(* What follows from the invariant *)

\* Where row n is, as RowsFiled looks for it.
PlacesOf(n) ==
    {p \in {<<f, k>> : f \in DOMAIN disk.files, k \in 1 .. 3 * MaxRows + 1} :
        /\ p[2] \in DOMAIN disk.files[p[1]]
        /\ disk.files[p[1]][p[2]] = [kind |-> "row", n |-> n]}

LEMMA PlacesAre ==
    ASSUME FileInv, NEW n \in DOMAIN rows
    PROVE  \E f \in DOMAIN disk.files : \E k \in 1 .. Len(disk.files[f]) :
               PlacesOf(n) = {<<f, k>>} /\ disk.files[f][k] = RowLine(n)
<1> PICK F, N : F = disk.files /\ N = Len(rows)
  OBVIOUS
<1>1. /\ Places(F, rows) /\ FilesOk(F, rows, disk.dirs) /\ N \in Nat /\ N <= MaxRows /\ MaxRows \in Nat
      /\ \A f \in DOMAIN F : DOMAIN F[f] = 1 .. Len(F[f]) /\ Len(F[f]) \in Nat
  <2>1. GoodDisk /\ N <= MaxRows
    BY DEF FileInv
  <2>2. Places(F, rows) /\ FilesOk(F, rows, disk.dirs)
    BY <2>1 DEF GoodDisk, Good
  <2>3. \A f \in DOMAIN F : DOMAIN F[f] = 1 .. Len(F[f]) /\ Len(F[f]) \in Nat
    <3>1. IsFiles(F)
      BY <2>1, GoodDiskIs
    <3> QED  BY <3>1 DEF IsFiles
  <2> QED  BY <2>1, <2>2, <2>3, GoodDiskIs, CmFileAssumption
<1>2. PICK f \in DOMAIN F : \E k \in 1 .. Len(F[f]) : F[f][k] = RowLine(n)
  BY <1>1 DEF Places, Placed
<1>3. PICK k \in 1 .. Len(F[f]) : F[f][k] = RowLine(n)
  BY <1>2
<1>4. ASSUME NEW g \in DOMAIN F, NEW j \in 1 .. Len(F[g]), F[g][j] = RowLine(n)
      PROVE  g = f /\ j = k
  BY <1>1, <1>3, <1>4 DEF Places, PlacedOnce
<1>5. k \in 1 .. 3 * MaxRows + 1
  <2> PICK l : l = Len(F[f])
    OBVIOUS
  <2>1. l <= 1 + 2 * N /\ l \in Nat
    BY <1>1 DEF FilesOk, FileOk
  <2> QED  BY <1>1, <1>3, <2>1
<1>6. <<f, k>> \in PlacesOf(n)
  BY <1>1, <1>3, <1>5 DEF RowLine, PlacesOf
<1>7. ASSUME NEW p \in PlacesOf(n)
      PROVE  p = <<f, k>>
  <2>1. PICK g \in DOMAIN F, j \in 1 .. 3 * MaxRows + 1 : p = <<g, j>>
    BY DEF PlacesOf
  <2>2. j \in 1 .. Len(F[g]) /\ F[g][j] = RowLine(n)
    BY <1>1, <2>1 DEF RowLine, PlacesOf
  <2> QED  BY <1>4, <2>1, <2>2
<1>8. PlacesOf(n) = {<<f, k>>}
  BY <1>6, <1>7
<1> QED  BY <1>3, <1>8

LEMMA RowsAreFiled == FileInv => RowsFiled
<1> SUFFICES ASSUME FileInv, NEW n \in DOMAIN rows
             PROVE  /\ Cardinality(PlacesOf(n)) = 1
                    /\ \A p \in PlacesOf(n) :
                          LET file == p[1]
                              id   == disk.files[file][1]
                          IN  /\ file.prefix = Path(Aligned(rows[n].time, rows[n].period), Len(file.prefix))
                              /\ file.seq = FileNumber(file.name, rows[n].seq)
                              /\ id.kind = "id"
                              /\ \A k \in 2 .. Len(disk.files[file]) : disk.files[file][k].kind # "id"
                              /\ rows[n].whole => rows[n].time \in id.time .. id.time + id.duration - 1
  BY DEF RowsFiled, PlacesOf
<1> PICK places : places = PlacesOf(n)
  OBVIOUS
<1>1. PICK f \in DOMAIN disk.files : \E k \in 1 .. Len(disk.files[f]) : places = {<<f, k>>} /\ disk.files[f][k] = RowLine(n)
  BY PlacesAre
<1>2. PICK k \in 1 .. Len(disk.files[f]) : places = {<<f, k>>} /\ disk.files[f][k] = RowLine(n)
  BY <1>1
<1>3. Cardinality(places) = 1
  BY <1>2, FS_Singleton
<1> PICK lines, r, t, p : lines = disk.files[f] /\ r = rows[n] /\ t = rows[n].time /\ p = rows[n].period
  OBVIOUS
<1>4. GoodDisk
  BY DEF FileInv
<1>5. t \in Times /\ p \in Periods /\ t \in Nat /\ t \in Int /\ p \in Nat \ {0}
  <2>1. t \in Times /\ p \in Periods
    BY <1>4, GoodDiskIs DEF Row
  <2> QED  BY <2>1, PeriodIs, CmFileAssumption
<1>6. FileOk(f, lines, rows, disk.dirs)
  BY <1>4 DEF GoodDisk, Good, FilesOk
<1>7. lines[k].kind = "row" /\ lines[k].n = n
  BY <1>2, Kinds
<1>8. Filed(f, lines[1], r)
  BY <1>6, <1>7 DEF FileOk
<1>9. f.prefix = Path(Aligned(t, p), Len(f.prefix)) /\ f.seq = FileNumber(f.name, r.seq)
  BY <1>5, <1>8, FileOfIs DEF Filed
<1>10. lines[1].kind = "id"
  <2>1. PICK u \in Times, q \in Periods : lines[1] = IdLine(u, q)
    BY <1>6 DEF FileOk, Identified
  <2> QED  BY <2>1, IdLineIs
<1>11. \A i \in 2 .. Len(lines) : lines[i].kind # "id"
  BY <1>6 DEF FileOk
<1>12. r.whole => t \in lines[1].time .. lines[1].time + lines[1].duration - 1
  <2>1. Aligned(t, p) \in Int /\ Aligned(t, p) <= t /\ t < Aligned(t, p) + p
    BY <1>5, AlignedIs
  <2>2. r.whole => lines[1].time = Aligned(t, p) /\ lines[1].duration = p
    BY <1>5, <1>8, IdLineIs DEF Filed
  <2> QED  BY <1>5, <2>1, <2>2
<1>13. \A x \in places : x[1] = f
  BY <1>2
<1>14. \A x \in places :
          LET file == x[1]
              id   == disk.files[file][1]
          IN  /\ file.prefix = Path(Aligned(rows[n].time, rows[n].period), Len(file.prefix))
              /\ file.seq = FileNumber(file.name, rows[n].seq)
              /\ id.kind = "id"
              /\ \A i \in 2 .. Len(disk.files[file]) : disk.files[file][i].kind # "id"
              /\ rows[n].whole => rows[n].time \in id.time .. id.time + id.duration - 1
  BY <1>9, <1>10, <1>11, <1>12, <1>13
<1> QED  BY <1>3, <1>14

LEMMA HeadersAreFirst == FileInv => HeaderFirst
<1> SUFFICES ASSUME FileInv, InOrder, NEW f \in DOMAIN disk.files, NEW k \in DOMAIN disk.files[f],
                    disk.files[f][k].kind = "row", rows[disk.files[f][k].n].header # None
             PROVE  \E j \in 1 .. k :
                        /\ disk.files[f][j] = [kind |-> "header", header |-> rows[disk.files[f][k].n].header]
                        /\ \A i \in j + 1 .. k : disk.files[f][i].kind # "header"
  BY DEF HeaderFirst
<1>1. Ordered(rows)
  BY DEF InOrder, Ordered
<1>2. GoodDisk
  BY DEF FileInv
<1>3. HeadersOk(disk.files, rows)
  BY <1>1, <1>2 DEF GoodDisk, Good
<1>4. k \in 1 .. Len(disk.files[f])
  BY <1>2, GoodDiskIs
<1>5. LastHeader(disk.files[f], k, rows[disk.files[f][k].n].header)
  BY <1>3, <1>4 DEF HeadersOk, Headed
<1> QED  BY <1>5 DEF LastHeader, HeaderOf

-----------------------------------------------------------------------------

\* The members of the provider are of their types, and the file that is open is
\* one of those on the disk (CmFileFTL.h:60-130).
LEMMA TypesAreCorrect == FileInv => TypeOK
<1> SUFFICES ASSUME FileInv
             PROVE  TypeOK
  OBVIOUS
<1>1. GoodDisk /\ StreamTyped /\ Len(rows) <= MaxRows
  BY DEF FileInv, StreamOk
<1>2. object \in Object
  BY <1>1, GoodDiskIs
<1>3. object.data_fd \in DOMAIN disk.files \cup {None}
  BY <1>1 DEF GoodDisk, Good, OpenOk
<1> QED  BY <1>1, <1>2, <1>3 DEF Object, StreamTyped, TypeOK

LEMMA FilesInvariant == ASSUME PeriodsApart PROVE Spec => []FileInv
<1>1. Init => FileInv
  BY InitIsGood
<1>2. FileInv /\ [Next]_vars => FileInv'
  BY NextIsGood
<1> QED  BY <1>1, <1>2, PTL DEF Spec

\* The data files hold every accepted row once, in the file that its time and
\* its number say and behind the header in force, whatever fails, is read,
\* renamed or restarted in between: for all units of folders, periods, times,
\* names, headers and obstacles.
THEOREM FilesStayWhole == ASSUME PeriodsApart PROVE Spec => []FilesWhole
<1>1. FileInv => FilesWhole
  BY RowsAreFiled, HeadersAreFirst DEF FilesWhole
<1>2. Spec => []FileInv
  BY FilesInvariant
<1> QED  BY <1>1, <1>2, PTL

\* A stream of the files of a provider that has ended has returned every row
\* that was there between its start and its end when it began.
THEOREM StreamsAreComplete == ASSUME PeriodsApart PROVE Spec => []StreamComplete
<1>1. FileInv => StreamComplete
  BY DEF FileInv, StreamOk, StreamComplete
<1>2. Spec => []FileInv
  BY FilesInvariant
<1> QED  BY <1>1, <1>2, PTL

\* The type invariant of the provider and its files.
THEOREM FileTypes == ASSUME PeriodsApart PROVE Spec => []TypeOK
<1>1. Spec => []FileInv
  BY FilesInvariant
<1> QED  BY <1>1, TypesAreCorrect, PTL
=============================================================================
