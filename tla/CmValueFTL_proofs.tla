-------------------------- MODULE CmValueFTL_proofs --------------------------
(***************************************************************************)
(* CmValueFTL.cpp, for every set of numbers, texts and indices.  The       *)
(* matrix keeps one value per position and owns its texts; a chart in it   *)
(* shows what was set last; a value that is converted in place agrees with *)
(* what was stored.                                                        *)
(***************************************************************************)
EXTENDS CmChart, CmValueFTL, NumberInduction, SequenceTheorems, FiniteSetTheorems, TLAPS

-----------------------------------------------------------------------------
(* Vectors *)

IsVector(v, S, zero) ==
    /\ v = [data |-> v.data, Length |-> v.Length] /\ v.data \in Seq(S)
    /\ v.Length \in 0 .. Len(v.data)
    /\ \A j \in v.Length + 1 .. Len(v.data) : v.data[j] = zero

\* What the element j is, or would be if the vector were read there.
Get(v, j, zero) == IF j < v.Length THEN v.data[j + 1] ELSE zero

\* The length after an access to the element i.
Longer(length, i) == IF length < i + 1 THEN i + 1 ELSE length

LEMMA GetIs ==
    ASSUME NEW S, NEW zero \in S, NEW v, IsVector(v, S, zero), NEW j \in Nat
    PROVE  /\ Get(v, j, zero) \in S
           /\ j < Len(v.data) => Get(v, j, zero) = v.data[j + 1]
  BY DEF IsVector, Get

LEMMA NewSizeIs ==
    ASSUME NEW length \in Nat
    PROVE  NewSize(length) \in Nat /\ length <= NewSize(length)
<1> PICK s, x : s = Size4k /\ x = (16 * length) \div 10
  OBVIOUS
<1>1. s \in Nat \ {0} /\ x \in Nat /\ length <= x
  BY VectorAssumption
<1>2. NewSize(length) = s * (1 + IF x = 0 THEN 0 ELSE (x - 1) \div s)
  BY DEF NewSize
<1>3. CASE x = 0
  <2>1. NewSize(length) = s
    BY <1>1, <1>2, <1>3
  <2> QED  BY <1>1, <1>3, <2>1
<1>4. CASE x # 0
  <2> PICK y, d : y = x - 1 /\ d = y \div s
    OBVIOUS
  <2>1. y \in Nat /\ d \in Nat /\ y = s * d + (y % s) /\ y % s \in 0 .. s - 1
    BY <1>1, <1>4
  <2>2. NewSize(length) = s * (1 + d)
    BY <1>2, <1>4
  <2>3. s * (1 + d) = s + s * d /\ s * d \in Nat
    BY <1>1, <2>1
  <2> PICK z : z = s * d
    OBVIOUS
  <2>4. z \in Nat /\ y = z + (y % s) /\ NewSize(length) = s + z
    BY <2>1, <2>2, <2>3
  <2> QED  BY <1>1, <2>1, <2>4
<1> QED  BY <1>3, <1>4

LEMMA AdjustIs ==
    ASSUME NEW S, NEW zero \in S, NEW v, IsVector(v, S, zero), NEW length \in Nat,
           NEW w, w = AdjustSize(v, length, zero)
    PROVE  /\ IsVector(w, S, zero) /\ w.Length = length
           /\ \A j \in Nat : Get(w, j, zero) = IF j < length THEN Get(v, j, zero) ELSE zero
<1>0. PICK kept, size, n : kept = (IF v.Length < length THEN v.Length ELSE length)
                            /\ size = NewSize(length) /\ n = size - kept
  OBVIOUS
<1>1. kept \in 0 .. v.Length /\ v.Length \in 0 .. Len(v.data) /\ Len(v.data) \in Nat /\ kept <= length
      /\ (kept < length => kept = v.Length)
  BY <1>0 DEF IsVector
<1>2. n \in Nat /\ kept + n >= length /\ kept \in Nat
  <2>1. size \in Nat /\ length <= size
    BY <1>0, NewSizeIs
  <2> QED  BY <1>0, <1>1, <2>1
<1> PICK a, b : a = SubSeq(v.data, 1, kept) /\ b = Zeros(n, zero)
  OBVIOUS
<1>3. a \in Seq(S) /\ Len(a) = kept /\ \A j \in 1 .. kept : a[j] = v.data[j]
  <2>1. v.data \in Seq(S)
    BY DEF IsVector
  <2> QED  BY <1>1, <2>1
<1>4. b \in Seq(S) /\ Len(b) = n /\ \A j \in 1 .. n : b[j] = zero
  <2>1. b = [j \in 1 .. n |-> zero]
    BY DEF Zeros
  <2> QED  BY <1>2, <2>1, IsASeq
<1>5. w = [data |-> a \o b, Length |-> length]
  BY <1>0 DEF AdjustSize
<1>6. /\ a \o b \in Seq(S) /\ Len(a \o b) = kept + n
      /\ \A j \in 1 .. kept + n : (a \o b)[j] = IF j <= kept THEN v.data[j] ELSE zero
  <2>1. /\ a \o b \in Seq(S) /\ Len(a \o b) = Len(a) + Len(b)
        /\ \A j \in 1 .. Len(a) + Len(b) : (a \o b)[j] = IF j <= Len(a) THEN a[j] ELSE b[j - Len(a)]
    BY <1>3, <1>4, ConcatProperties
  <2> QED  BY <1>2, <1>3, <1>4, <2>1
<1> PICK c : c = a \o b
  OBVIOUS
<1>7. /\ w = [data |-> w.data, Length |-> w.Length] /\ w.data = c /\ w.Length = length
      /\ c \in Seq(S) /\ Len(c) = kept + n /\ \A j \in 1 .. kept + n : c[j] = IF j <= kept THEN v.data[j] ELSE zero
  BY <1>5, <1>6
<1>8. IsVector(w, S, zero)
  BY <1>1, <1>2, <1>7 DEF IsVector
<1>9. ASSUME NEW j \in Nat
      PROVE  Get(w, j, zero) = IF j < length THEN Get(v, j, zero) ELSE zero
  BY <1>1, <1>2, <1>7 DEF Get
<1> QED  BY <1>7, <1>8, <1>9

\* Whoever reads behind the length makes the vector longer and changes nothing.
LEMMA AtIs ==
    ASSUME NEW S, NEW zero \in S, NEW v, IsVector(v, S, zero), NEW i \in Nat, NEW w, w = At(v, i, zero)
    PROVE  /\ IsVector(w, S, zero) /\ w.Length = Longer(v.Length, i)
           /\ \A j \in Nat : Get(w, j, zero) = Get(v, j, zero)
<1> PICK u : u = IF Len(v.data) < i + 1 THEN AdjustSize(v, i + 1, zero) ELSE v
  OBVIOUS
<1>0. v.Length \in 0 .. Len(v.data) /\ Len(v.data) \in Nat
  BY DEF IsVector
<1>1. /\ IsVector(u, S, zero) /\ i + 1 <= Len(u.data) /\ (u.Length < i + 1 => u = v) /\ u.Length \in Nat
      /\ u.Length = (IF Len(v.data) < i + 1 THEN i + 1 ELSE v.Length)
      /\ \A j \in Nat : Get(u, j, zero) = Get(v, j, zero)
  <2>1. CASE Len(v.data) < i + 1
    <3>1. u = AdjustSize(v, i + 1, zero)
      BY <2>1
    <3>2. /\ IsVector(u, S, zero) /\ u.Length = i + 1
          /\ \A j \in Nat : Get(u, j, zero) = IF j < i + 1 THEN Get(v, j, zero) ELSE zero
      BY <3>1, AdjustIs
    <3>3. \A j \in Nat : ~(j < i + 1) => Get(v, j, zero) = zero
      BY <1>0, <2>1 DEF Get
    <3>4. i + 1 <= Len(u.data)
      BY <3>2 DEF IsVector
    <3> QED  BY <2>1, <3>2, <3>3, <3>4
  <2>2. CASE ~(Len(v.data) < i + 1)
    BY <1>0, <2>2 DEF IsVector
  <2> QED  BY <2>1, <2>2
<1>2. w = IF u.Length < i + 1 THEN [u EXCEPT !.Length = i + 1] ELSE u
  BY DEF At
<1>3. CASE u.Length < i + 1
  <2>1. w = [data |-> v.data, Length |-> i + 1] /\ w.data = v.data /\ w.Length = i + 1 /\ u = v
    BY <1>1, <1>2, <1>3 DEF IsVector
  <2> PICK d, l, n : d = v.data /\ l = v.Length /\ n = Len(v.data)
    OBVIOUS
  <2>2. d \in Seq(S) /\ n = Len(d) /\ n \in Nat /\ l \in 0 .. n /\ i + 1 <= n /\ l < i + 1
        /\ \A j \in l + 1 .. n : d[j] = zero
    <3>1. v.data \in Seq(S) /\ \A j \in v.Length + 1 .. Len(v.data) : v.data[j] = zero
      BY DEF IsVector
    <3> QED  BY <1>0, <1>1, <1>3, <2>1, <3>1
  <2>3. w.data = d /\ w.Length = i + 1 /\ w = [data |-> w.data, Length |-> w.Length]
    BY <2>1
  <2>4. IsVector(w, S, zero)
    BY <2>2, <2>3 DEF IsVector
  <2>5. \A j \in Nat : Get(w, j, zero) = Get(v, j, zero)
    <3>1. \A j \in Nat : Get(v, j, zero) = IF j < l THEN d[j + 1] ELSE zero
      BY DEF Get
    <3>2. \A j \in Nat : Get(w, j, zero) = IF j < i + 1 THEN d[j + 1] ELSE zero
      BY <2>3 DEF Get
    <3> TAKE j \in Nat
    <3>3. CASE j < l
      <4>1. j < i + 1
        BY <2>2, <3>3
      <4> QED  BY <3>1, <3>2, <3>3, <4>1
    <3>4. CASE ~(j < l) /\ j < i + 1
      <4>1. j + 1 \in l + 1 .. n
        BY <2>2, <3>4
      <4>2. d[j + 1] = zero
        BY <2>2, <4>1
      <4> QED  BY <3>1, <3>2, <3>4, <4>2
    <3>5. CASE ~(j < i + 1)
      BY <2>2, <3>1, <3>2, <3>5
    <3> QED  BY <3>3, <3>4, <3>5
  <2>6. w.Length = Longer(v.Length, i)
    BY <1>0, <1>1, <1>3, <2>1 DEF Longer
  <2> QED  BY <2>4, <2>5, <2>6
<1>4. CASE ~(u.Length < i + 1)
  BY <1>0, <1>1, <1>2, <1>4 DEF Longer
<1> QED  BY <1>3, <1>4

LEMMA PutIs ==
    ASSUME NEW S, NEW zero \in S, NEW v, IsVector(v, S, zero), NEW i \in Nat, NEW x \in S,
           NEW w, w = Put(v, i, x, zero)
    PROVE  /\ IsVector(w, S, zero) /\ w.Length = Longer(v.Length, i)
           /\ \A j \in Nat : Get(w, j, zero) = IF j = i THEN x ELSE Get(v, j, zero)
<1>0. PICK u : u = At(v, i, zero)
  OBVIOUS
<1>1. /\ IsVector(u, S, zero) /\ u.Length = Longer(v.Length, i)
      /\ \A j \in Nat : Get(u, j, zero) = Get(v, j, zero)
  BY <1>0, AtIs
<1>2. v.Length \in Nat /\ u.Length \in 0 .. Len(u.data) /\ Len(u.data) \in Nat /\ u.data \in Seq(S)
      /\ u = [data |-> u.data, Length |-> u.Length]
  BY <1>1 DEF IsVector
<1>5. i + 1 <= u.Length /\ i + 1 \in 1 .. Len(u.data)
  BY <1>1, <1>2 DEF Longer
<1> PICK d : d = [u.data EXCEPT ![i + 1] = x]
  OBVIOUS
<1>3. d \in Seq(S) /\ Len(d) = Len(u.data) /\ \A j \in 1 .. Len(d) : d[j] = IF j = i + 1 THEN x ELSE u.data[j]
  <2> PICK e : e = u.data
    OBVIOUS
  <2>1. e \in Seq(S) /\ d = [e EXCEPT ![i + 1] = x]
    BY <1>2
  <2>3. DOMAIN e = 1 .. Len(e) /\ Len(e) \in Nat
    BY <2>1
  <2>4. d = [j \in 1 .. Len(e) |-> IF j = i + 1 THEN x ELSE e[j]]
    BY <2>1, <2>3
  <2>5. d \in Seq(S) /\ Len(d) = Len(e)
    BY <1>5, <2>1, ExceptSeq
  <2> QED  BY <2>3, <2>4, <2>5
<1>4. w = [data |-> d, Length |-> u.Length] /\ w.data = d /\ w.Length = u.Length
  BY <1>0, <1>2 DEF Put
<1>6. IsVector(w, S, zero)
  BY <1>1, <1>2, <1>3, <1>4, <1>5 DEF IsVector
<1>7. \A j \in Nat : Get(w, j, zero) = IF j = i THEN x ELSE Get(u, j, zero)
  BY <1>2, <1>3, <1>4, <1>5 DEF Get
<1> QED  BY <1>1, <1>4, <1>6, <1>7

LEMMA EmptiedIs ==
    ASSUME NEW S, NEW zero \in S, NEW v, IsVector(v, S, zero), NEW w, w = SetLength(v, 0, zero)
    PROVE  IsVector(w, S, zero) /\ w.Length = 0 /\ \A j \in Nat : Get(w, j, zero) = zero
<1>0. v.Length \in 0 .. Len(v.data) /\ Len(v.data) \in Nat
  BY DEF IsVector
<1>1. CASE 0 < v.Length
  <2>1. w = AdjustSize(v, 0, zero)
    BY <1>1 DEF SetLength
  <2> QED  BY <2>1, AdjustIs
<1>2. CASE ~(0 < v.Length)
  <2>1. w = v /\ v.Length = 0
    BY <1>0, <1>2 DEF SetLength, IsVector
  <2> QED  BY <2>1 DEF Get
<1> QED  BY <1>1, <1>2

LEMMA NewVectorIs ==
    ASSUME NEW S, NEW zero \in S
    PROVE  IsVector(NewVector, S, zero) /\ NewVector.Length = 0 /\ \A j \in Nat : Get(NewVector, j, zero) = zero
  BY DEF NewVector, IsVector, Get

-----------------------------------------------------------------------------
(* Positions *)

Position == Seq(Nat)

\* p is at a level below q.
Under(q, p) == Len(q) < Len(p) /\ SubSeq(p, 1, Len(q)) = q

LEMMA FrontLast ==
    ASSUME NEW p \in Position, p # <<>>
    PROVE  /\ Front(p) \in Position /\ Last(p) \in Nat /\ p = Append(Front(p), Last(p))
           /\ Len(Front(p)) = Len(p) - 1 /\ Len(p) \in Nat \ {0}
<1>1. p \in Seq(Nat) /\ Len(p) \in Nat \ {0}
  BY DEF Position
<1> PICK f, l, n : f = Front(p) /\ l = Last(p) /\ n = Len(p)
  OBVIOUS
<1>2. f = SubSeq(p, 1, n - 1) /\ l = p[n]
  BY DEF Front, Last
<1>3. f \in Seq(Nat) /\ Len(f) = n - 1 /\ \A j \in 1 .. n - 1 : f[j] = p[j]
  BY <1>1, <1>2
<1>4. l \in Nat
  BY <1>1, <1>2
<1>5. Append(f, l) \in Seq(Nat) /\ Len(Append(f, l)) = n /\ \A j \in 1 .. n : Append(f, l)[j] = p[j]
  BY <1>1, <1>2, <1>3, <1>4
<1>6. Append(f, l) = p
  BY <1>1, <1>5, SeqEqual
<1> QED  BY <1>1, <1>3, <1>4, <1>6 DEF Position

LEMMA AppendIs ==
    ASSUME NEW q \in Position, NEW i \in Nat, NEW p, p = Append(q, i)
    PROVE  /\ p \in Position /\ p # <<>> /\ Front(p) = q /\ Last(p) = i
           /\ Len(p) = Len(q) + 1 /\ Len(q) \in Nat /\ p # q
<1>1. q \in Seq(Nat) /\ Len(q) \in Nat
  BY DEF Position
<1>2. p \in Seq(Nat) /\ Len(p) = Len(q) + 1 /\ p[Len(q) + 1] = i /\ \A j \in 1 .. Len(q) : p[j] = q[j]
  BY <1>1
<1>3. p # <<>> /\ p # q
  BY <1>1, <1>2
<1>4. Last(p) = i
  BY <1>1, <1>2 DEF Last
<1>5. Front(p) = q
  <2> PICK f, n : f = SubSeq(p, 1, n) /\ n = Len(p) - 1
    OBVIOUS
  <2>1. f = Front(p)
    BY DEF Front
  <2>2. f \in Seq(Nat) /\ Len(f) = Len(q) /\ \A j \in 1 .. Len(q) : f[j] = q[j]
    BY <1>1, <1>2
  <2> QED  BY <1>1, <2>1, <2>2, SeqEqual
<1> QED  BY <1>1, <1>2, <1>3, <1>4, <1>5 DEF Position

LEMMA UnderIs ==
    ASSUME NEW q \in Position, NEW r \in Position, NEW i \in Nat, NEW p, p = Append(r, i)
    PROVE  Under(q, p) <=> r = q \/ Under(q, r)
<1>1. q \in Seq(Nat) /\ r \in Seq(Nat) /\ Len(q) \in Nat /\ Len(r) \in Nat
  BY DEF Position
<1>2. p \in Seq(Nat) /\ Len(p) = Len(r) + 1 /\ \A j \in 1 .. Len(r) : p[j] = r[j]
  BY <1>1
<1>3. CASE Len(q) > Len(r)
  BY <1>1, <1>2, <1>3 DEF Under
<1>4. CASE Len(q) <= Len(r)
  <2> PICK a, b : a = SubSeq(p, 1, Len(q)) /\ b = SubSeq(r, 1, Len(q))
    OBVIOUS
  <2>1. a \in Seq(Nat) /\ Len(a) = Len(q) /\ \A j \in 1 .. Len(q) : a[j] = r[j]
    BY <1>1, <1>2, <1>4
  <2>2. b \in Seq(Nat) /\ Len(b) = Len(q) /\ \A j \in 1 .. Len(q) : b[j] = r[j]
    BY <1>1, <1>4
  <2>3. a = b
    BY <2>1, <2>2, SeqEqual
  <2>4. Len(q) = Len(r) => b = r
    BY <1>1, <2>2, SeqEqual
  <2>5. Under(q, p) <=> a = q
    BY <1>1, <1>2, <1>4 DEF Under
  <2>6. Len(q) < Len(r) => (Under(q, r) <=> b = q)
    BY DEF Under
  <2>7. Under(q, r) => Len(q) < Len(r)
    BY DEF Under
  <2>8. Len(q) < Len(r) => r # q
    BY <1>1
  <2>9. CASE Len(q) < Len(r)
    BY <2>3, <2>5, <2>6, <2>8, <2>9
  <2>10. CASE Len(q) = Len(r)
    BY <1>1, <2>3, <2>4, <2>5, <2>7, <2>10
  <2> QED  BY <1>1, <1>4, <2>9, <2>10
<1> QED  BY <1>1, <1>3, <1>4

LEMMA NotUnder ==
    ASSUME NEW q \in Position
    PROVE  ~Under(q, <<>>) /\ ~Under(q, q)
<1>1. Len(q) \in Nat
  BY DEF Position
<1> QED  BY <1>1 DEF Under

-----------------------------------------------------------------------------
(* Matrices and what they hold *)

\* What an element of a matrix may be.
Vals == Nat \cup Memory \cup Styles \cup {Default, Standard}

Formats == {"NONE", "NUMBER", "STRING", "MATRIX"}

IsCell(c) ==
    /\ c = Cell(c.value, c.format) /\ c.value \in Vals /\ c.format \in Formats
    /\ c.format = "STRING" => c.value \in Memory
    /\ c.format \in {"NONE", "MATRIX"} => c.value = NULL

None == Cell(NULL, "NONE")

\* A cell as a reader sees it: without a value it is none.
Plain(c) == IF c.value = NULL THEN None ELSE c

MatrixOf(v, f, s) == [vector |-> v, DataFormat |-> f, scalar |-> s]

\* The element i, also where the vector does not reach.
CellAt(M, i) == Cell(Get(M.vector, i, NULL), Get(M.DataFormat, i, "NONE"))

IsMatrix(M) ==
    /\ M = MatrixOf(M.vector, M.DataFormat, M.scalar)
    /\ IsVector(M.vector, Vals, NULL) /\ IsVector(M.DataFormat, Formats, "NONE")
    /\ M.vector.Length <= M.DataFormat.Length
    /\ IsCell(M.scalar) /\ M.scalar.format # "MATRIX"
    /\ \A i \in Nat : IsCell(CellAt(M, i))
    /\ \A i \in Nat : CellAt(M, i).format = "MATRIX" => i < M.vector.Length

\* The matrices are a tree, in which an element is a level exactly if its format
\* says so.
IsTree(n) ==
    /\ n = [q \in DOMAIN n |-> n[q]] /\ DOMAIN n \subseteq Position /\ <<>> \in DOMAIN n
    /\ \A q \in DOMAIN n : IsMatrix(n[q])
    /\ \A q \in DOMAIN n : \A i \in Nat : CellAt(n[q], i).format = "MATRIX" <=> Append(q, i) \in DOMAIN n
    /\ \A p \in DOMAIN n : p # <<>> => Front(p) \in DOMAIN n

\* The cell with the value of position p: the scalar of the level there, or the
\* element of the level above.
Held(n, p) ==
    Plain(IF p \in DOMAIN n THEN n[p].scalar
          ELSE IF Front(p) \in DOMAIN n THEN CellAt(n[Front(p)], Last(p)) ELSE None)

LEMMA CellIs ==
    ASSUME NEW v, NEW f
    PROVE  Cell(v, f).value = v /\ Cell(v, f).format = f
  BY DEF Cell

LEMMA MatrixOfIs ==
    ASSUME NEW v, NEW f, NEW s
    PROVE  MatrixOf(v, f, s).vector = v /\ MatrixOf(v, f, s).DataFormat = f /\ MatrixOf(v, f, s).scalar = s
  BY DEF MatrixOf

LEMMA NoneIs == IsCell(None) /\ Plain(None) = None /\ None.format = "NONE" /\ None.value = NULL
  BY CellIs DEF None, IsCell, Plain, Vals, Formats, NULL

LEMMA PlainIs ==
    ASSUME NEW c, IsCell(c)
    PROVE  /\ IsCell(Plain(c)) /\ Plain(Plain(c)) = Plain(c)
           /\ Plain(c).format = "STRING" => Plain(c) = c
           /\ c.format = "STRING" => Plain(c) = c
           /\ c.format \in {"NONE", "MATRIX"} => Plain(c) = None
<1>1. Plain(c) = c \/ (Plain(c) = None /\ c.value = NULL)
  BY DEF Plain
<1>2. c.format = "STRING" => c.value # NULL
  BY MatrixAssumption DEF IsCell, NULL
<1>3. c.format \in {"NONE", "MATRIX"} => c.value = NULL
  BY DEF IsCell
<1> QED  BY <1>1, <1>2, <1>3, NoneIs DEF Plain

LEMMA ElementIs ==
    ASSUME NEW n, NEW q, IsMatrix(n[q]), NEW i \in Nat, i < n[q].vector.Length
    PROVE  Element(n, q, i) = CellAt(n[q], i)
<1> PICK M : M = n[q]
  OBVIOUS
<1>1. i < M.vector.Length /\ M.vector.Length \in Nat /\ M.DataFormat.Length \in Nat /\ i < M.DataFormat.Length
  BY DEF IsMatrix, IsVector
<1>2. Get(M.vector, i, NULL) = M.vector.data[i + 1] /\ Get(M.DataFormat, i, "NONE") = M.DataFormat.data[i + 1]
  BY <1>1 DEF Get
<1> QED  BY <1>2 DEF Element, CellAt

LEMMA HeldIsCell ==
    ASSUME NEW n, IsTree(n), NEW p \in Position
    PROVE  IsCell(Held(n, p)) /\ Held(n, p).format # "MATRIX"
<1> PICK c : c = IF p \in DOMAIN n THEN n[p].scalar
                 ELSE IF Front(p) \in DOMAIN n THEN CellAt(n[Front(p)], Last(p)) ELSE None
  OBVIOUS
<1>1. Held(n, p) = Plain(c)
  BY DEF Held
<1>2. IsCell(c)
  <2>1. CASE p \in DOMAIN n
    BY <2>1 DEF IsTree, IsMatrix
  <2>2. CASE p \notin DOMAIN n /\ Front(p) \in DOMAIN n
    <3>1. p # <<>>
      BY <2>2 DEF IsTree
    <3>2. Last(p) \in Nat
      BY <3>1, FrontLast
    <3> QED  BY <2>2, <3>2 DEF IsTree, IsMatrix
  <2>3. CASE p \notin DOMAIN n /\ Front(p) \notin DOMAIN n
    BY <2>3, NoneIs
  <2> QED  BY <2>1, <2>2, <2>3
<1>3. IsCell(Plain(c)) /\ Plain(Plain(c)) = Plain(c)
  BY <1>2, PlainIs
<1>4. Plain(c).format # "MATRIX"
  BY <1>2, <1>3, PlainIs, NoneIs
<1> QED  BY <1>1, <1>3, <1>4

-----------------------------------------------------------------------------
(* One matrix of the tree is another one *)

Replaced(n, q, M) == [r \in DOMAIN n |-> IF r = q THEN M ELSE n[r]]

LEMMA ReplacedIs ==
    ASSUME NEW n, IsTree(n), NEW q \in DOMAIN n, NEW M, IsMatrix(M),
           \A i \in Nat : CellAt(M, i).format = "MATRIX" <=> CellAt(n[q], i).format = "MATRIX",
           NEW t, t = Replaced(n, q, M)
    PROVE  /\ IsTree(t) /\ DOMAIN t = DOMAIN n /\ t[q] = M
           /\ \A p \in Position :
                 Held(t, p) = IF p = q THEN Plain(M.scalar)
                              ELSE IF p \notin DOMAIN n /\ Front(p) = q THEN Plain(CellAt(M, Last(p)))
                              ELSE Held(n, p)
<1>1. DOMAIN t = DOMAIN n /\ t[q] = M /\ (\A r \in DOMAIN n : r # q => t[r] = n[r]) /\ t = [r \in DOMAIN t |-> t[r]]
  BY DEF Replaced
<1>2. IsTree(t)
  <2>1. \A r \in DOMAIN t : IsMatrix(t[r])
    BY <1>1 DEF IsTree
  <2>2. ASSUME NEW r \in DOMAIN t, NEW i \in Nat
        PROVE  CellAt(t[r], i).format = "MATRIX" <=> Append(r, i) \in DOMAIN t
    <3>1. CellAt(t[r], i).format = "MATRIX" <=> CellAt(n[r], i).format = "MATRIX"
      BY <1>1
    <3>2. CellAt(n[r], i).format = "MATRIX" <=> Append(r, i) \in DOMAIN n
      BY <1>1 DEF IsTree
    <3> QED  BY <1>1, <3>1, <3>2
  <2>3. DOMAIN t \subseteq Position /\ <<>> \in DOMAIN t /\ \A p \in DOMAIN t : p # <<>> => Front(p) \in DOMAIN t
    BY <1>1 DEF IsTree
  <2> QED  BY <1>1, <2>1, <2>2, <2>3 DEF IsTree
<1>3. ASSUME NEW p \in Position
      PROVE  Held(t, p) = IF p = q THEN Plain(M.scalar)
                          ELSE IF p \notin DOMAIN n /\ Front(p) = q THEN Plain(CellAt(M, Last(p)))
                          ELSE Held(n, p)
  BY <1>1 DEF Held
<1> QED  BY <1>1, <1>2, <1>3

\* The first level has elements.
IsBegun(n) == n[<<>>].vector.Length # 0

\* n has become t, with more levels perhaps and the same values.
Grown(n, t) ==
    /\ IsTree(t) /\ DOMAIN n \subseteq DOMAIN t
    /\ \A p \in Position : Held(t, p) = Held(n, p)
    /\ IsBegun(n) => IsBegun(t)

LEMMA GrownTwice ==
    ASSUME NEW n, NEW t, NEW u, Grown(n, t), Grown(t, u)
    PROVE  Grown(n, u)
  BY DEF Grown

LEMMA FormatReplaced ==
    ASSUME NEW v, NEW b, NEW s, NEW f, NEW w, w = [vector |-> v, DataFormat |-> b, scalar |-> s]
    PROVE  [w EXCEPT !.DataFormat = f] = MatrixOf(v, f, s)
  BY DEF MatrixOf

LEMMA VectorReplaced ==
    ASSUME NEW v, NEW b, NEW s, NEW f, NEW w, w = [vector |-> v, DataFormat |-> b, scalar |-> s]
    PROVE  [w EXCEPT !.vector = f] = [vector |-> f, DataFormat |-> b, scalar |-> s]
OBVIOUS

Both(n, q, v, f) == [n EXCEPT ![q].vector = v, ![q].DataFormat = f]

LEMMA BothReplaced ==
    ASSUME NEW n, IsTree(n), NEW q \in DOMAIN n, NEW v, NEW f
    PROVE  Both(n, q, v, f) = Replaced(n, q, MatrixOf(v, f, n[q].scalar))
<1>0. PICK a, b, s : n[q] = [vector |-> a, DataFormat |-> b, scalar |-> s] /\ n[q].scalar = s
  BY DEF IsTree, IsMatrix, MatrixOf
<1>10. n = [r \in DOMAIN n |-> n[r]]
  BY DEF IsTree
<1>1. PICK m : m = [n EXCEPT ![q].vector = v]
  OBVIOUS
<1>2. PICK w : w = [vector |-> v, DataFormat |-> b, scalar |-> s]
  OBVIOUS
<1>3. m[q] = w /\ DOMAIN m = DOMAIN n /\ m = [r \in DOMAIN m |-> m[r]] /\ \A r \in DOMAIN n : r # q => m[r] = n[r]
  <2>1. m = [n EXCEPT ![q] = [n[q] EXCEPT !.vector = v]]
    BY <1>1, <1>10
  <2>2. [n[q] EXCEPT !.vector = v] = w
    BY <1>0, <1>2, VectorReplaced
  <2>3. m = [n EXCEPT ![q] = w]
    BY <2>1, <2>2
  <2> QED  BY <1>10, <2>3
<1>4. [m EXCEPT ![q].DataFormat = f] = Replaced(n, q, MatrixOf(v, f, s))
  <2>1. [m EXCEPT ![q].DataFormat = f] = [m EXCEPT ![q] = [m[q] EXCEPT !.DataFormat = f]]
    OBVIOUS
  <2>2. [m[q] EXCEPT !.DataFormat = f] = MatrixOf(v, f, s)
    BY <1>2, <1>3, FormatReplaced
  <2>3. [m EXCEPT ![q].DataFormat = f] = [m EXCEPT ![q] = MatrixOf(v, f, s)]
    BY <2>1, <2>2
  <2>4. [m EXCEPT ![q] = MatrixOf(v, f, s)] = Replaced(n, q, MatrixOf(v, f, s))
    BY <1>3 DEF Replaced
  <2> QED  BY <2>3, <2>4
<1> QED  BY <1>0, <1>1, <1>4 DEF Both

LEMMA TouchIs ==
    ASSUME NEW n, IsTree(n), NEW q \in DOMAIN n, NEW i \in Nat, NEW t, t = Touch(n, q, i)
    PROVE  /\ Grown(n, t) /\ DOMAIN t = DOMAIN n /\ i < t[q].vector.Length
           /\ \A j \in Nat : CellAt(t[q], j) = CellAt(n[q], j)
<1> PICK M, v, f, s : M = n[q] /\ v = At(M.vector, i, NULL) /\ f = At(M.DataFormat, i, "NONE") /\ s = M.scalar
  OBVIOUS
<1> PICK N : N = MatrixOf(v, f, s)
  OBVIOUS
<1>1. IsMatrix(M) /\ M = MatrixOf(M.vector, M.DataFormat, M.scalar)
  BY DEF IsTree, IsMatrix
<1>2. t = Replaced(n, q, N)
  <2>1. n = [r \in DOMAIN n |-> n[r]]
    BY DEF IsTree
  <2>2. M = [vector |-> M.vector, DataFormat |-> M.DataFormat, scalar |-> s]
    BY <1>1 DEF MatrixOf
  <2>3. t = Both(n, q, v, f)
    BY <2>1, <2>2 DEF Touch, Both
  <2>5. Both(n, q, v, f) = Replaced(n, q, MatrixOf(v, f, M.scalar))
    BY BothReplaced
  <2> QED  BY <2>3, <2>5
<1>3. /\ IsVector(v, Vals, NULL) /\ v.Length = Longer(M.vector.Length, i)
      /\ \A j \in Nat : Get(v, j, NULL) = Get(M.vector, j, NULL)
  <2>1. IsVector(M.vector, Vals, NULL) /\ NULL \in Vals
    BY <1>1 DEF IsMatrix, Vals, NULL
  <2> QED  BY <2>1, AtIs
<1>4. /\ IsVector(f, Formats, "NONE") /\ f.Length = Longer(M.DataFormat.Length, i)
      /\ \A j \in Nat : Get(f, j, "NONE") = Get(M.DataFormat, j, "NONE")
  <2>1. IsVector(M.DataFormat, Formats, "NONE") /\ "NONE" \in Formats
    BY <1>1 DEF IsMatrix, Formats
  <2> QED  BY <2>1, AtIs
<1>5. N.vector = v /\ N.DataFormat = f /\ N.scalar = s
  BY MatrixOfIs
<1>6. \A j \in Nat : CellAt(N, j) = CellAt(M, j)
  BY <1>3, <1>4, <1>5 DEF CellAt
<1>7. M.vector.Length <= v.Length /\ i < v.Length /\ v.Length <= f.Length /\ M.vector.Length \in Nat /\ v.Length \in Nat
  <2>1. M.vector.Length \in Nat /\ M.DataFormat.Length \in Nat /\ M.vector.Length <= M.DataFormat.Length
    BY <1>1 DEF IsMatrix, IsVector
  <2> QED  BY <1>3, <1>4, <2>1 DEF Longer
<1>8. IsMatrix(N)
  <2>1. IsCell(s) /\ s.format # "MATRIX" /\ \A j \in Nat : IsCell(CellAt(M, j))
    BY <1>1 DEF IsMatrix
  <2>2. \A j \in Nat : CellAt(M, j).format = "MATRIX" => j < v.Length
    <3>1. \A j \in Nat : CellAt(M, j).format = "MATRIX" => j < M.vector.Length
      BY <1>1 DEF IsMatrix
    <3>2. \A j \in Nat : j < M.vector.Length => j < v.Length
      BY <1>7
    <3> QED  BY <3>1, <3>2
  <2> QED  BY <1>3, <1>4, <1>5, <1>6, <1>7, <2>1, <2>2 DEF IsMatrix
<1>9. /\ IsTree(t) /\ DOMAIN t = DOMAIN n /\ t[q] = N
      /\ \A p \in Position :
            Held(t, p) = IF p = q THEN Plain(N.scalar)
                         ELSE IF p \notin DOMAIN n /\ Front(p) = q THEN Plain(CellAt(N, Last(p)))
                         ELSE Held(n, p)
  BY <1>2, <1>6, <1>8, ReplacedIs
<1>10. ASSUME NEW p \in Position
       PROVE  Held(t, p) = Held(n, p)
  <2>1. CASE p = q
    BY <1>5, <1>9, <2>1 DEF Held
  <2>2. CASE p \notin DOMAIN n /\ Front(p) = q /\ p # q
    <3>1. p # <<>>
      BY <2>2 DEF IsTree
    <3>2. Last(p) \in Nat
      BY <3>1, FrontLast
    <3>3. CellAt(N, Last(p)) = CellAt(n[q], Last(p))
      BY <1>6, <3>2
    <3> QED  BY <1>9, <2>2, <3>3 DEF Held
  <2> QED  BY <1>9, <2>1, <2>2
<1>11. IsBegun(n) => IsBegun(t)
  <2>1. CASE q = <<>>
    BY <1>5, <1>7, <1>9, <2>1 DEF IsBegun
  <2>2. CASE q # <<>>
    <3>1. t[<<>>] = n[<<>>]
      BY <1>2, <2>2 DEF Replaced, IsTree
    <3> QED  BY <3>1 DEF IsBegun
  <2> QED  BY <2>1, <2>2
<1> QED  BY <1>5, <1>6, <1>7, <1>9, <1>10, <1>11 DEF Grown

\* An element within the vector, that is no level, becomes another one: what
\* the matrix then is.
LEMMA PutMatrix ==
    ASSUME NEW M, IsMatrix(M), NEW i \in Nat, i < M.vector.Length, NEW c, IsCell(c),
           NEW v, v = Put(M.vector, i, c.value, NULL), NEW f, f = Put(M.DataFormat, i, c.format, "NONE"),
           NEW N, N = MatrixOf(v, f, M.scalar)
    PROVE  IsMatrix(N) /\ N.scalar = M.scalar /\ \A j \in Nat : CellAt(N, j) = IF j = i THEN c ELSE CellAt(M, j)
<1>1. c = Cell(c.value, c.format) /\ c.value \in Vals /\ c.format \in Formats
  BY DEF IsCell
<1>2. /\ IsVector(v, Vals, NULL) /\ v.Length = Longer(M.vector.Length, i)
      /\ \A j \in Nat : Get(v, j, NULL) = IF j = i THEN c.value ELSE Get(M.vector, j, NULL)
  <2>1. IsVector(M.vector, Vals, NULL) /\ NULL \in Vals
    BY DEF IsMatrix, Vals, NULL
  <2> QED  BY <1>1, <2>1, PutIs
<1>3. /\ IsVector(f, Formats, "NONE") /\ f.Length = Longer(M.DataFormat.Length, i)
      /\ \A j \in Nat : Get(f, j, "NONE") = IF j = i THEN c.format ELSE Get(M.DataFormat, j, "NONE")
  <2>1. IsVector(M.DataFormat, Formats, "NONE") /\ "NONE" \in Formats
    BY DEF IsMatrix, Formats
  <2> QED  BY <1>1, <2>1, PutIs
<1>4. N.vector = v /\ N.DataFormat = f /\ N.scalar = M.scalar
  BY MatrixOfIs
<1>5. \A j \in Nat : CellAt(N, j) = IF j = i THEN c ELSE CellAt(M, j)
  BY <1>1, <1>2, <1>3, <1>4 DEF CellAt
<1>6. v.Length = M.vector.Length /\ v.Length <= f.Length
  <2>1. M.vector.Length \in Nat /\ M.DataFormat.Length \in Nat /\ M.vector.Length <= M.DataFormat.Length
    BY DEF IsMatrix, IsVector
  <2> QED  BY <1>2, <1>3, <2>1 DEF Longer
<1>7. IsMatrix(N)
  <2>1. IsCell(M.scalar) /\ M.scalar.format # "MATRIX" /\ \A j \in Nat : IsCell(CellAt(N, j))
    BY <1>5 DEF IsMatrix
  <2>2. \A j \in Nat : CellAt(N, j).format = "MATRIX" => j < v.Length
    BY <1>5, <1>6 DEF IsMatrix
  <2> QED  BY <1>2, <1>3, <1>4, <1>6, <2>1, <2>2 DEF IsMatrix
<1> QED  BY <1>4, <1>5, <1>7

LEMMA PutElementIs ==
    ASSUME NEW n, IsTree(n), NEW q \in DOMAIN n, NEW i \in Nat, i < n[q].vector.Length, NEW c, IsCell(c)
    PROVE  \E N : /\ PutElement(n, q, i, c) = Replaced(n, q, N)
                  /\ IsMatrix(N) /\ N.scalar = n[q].scalar
                  /\ \A j \in Nat : CellAt(N, j) = IF j = i THEN c ELSE CellAt(n[q], j)
<1> PICK M, v, f, t : M = n[q] /\ v = Put(M.vector, i, c.value, NULL) /\ f = Put(M.DataFormat, i, c.format, "NONE")
                      /\ t = PutElement(n, q, i, c)
  OBVIOUS
<1> PICK N : N = MatrixOf(v, f, M.scalar)
  OBVIOUS
<1>1. IsMatrix(M) /\ M = MatrixOf(M.vector, M.DataFormat, M.scalar)
  BY DEF IsTree, IsMatrix
<1>2. t = Replaced(n, q, N)
  <2>1. n = [r \in DOMAIN n |-> n[r]]
    BY DEF IsTree
  <2>2. M = [vector |-> M.vector, DataFormat |-> M.DataFormat, scalar |-> M.scalar]
    BY <1>1 DEF MatrixOf
  <2>3. t = Both(n, q, v, f)
    BY <2>1, <2>2 DEF PutElement, Both
  <2>5. Both(n, q, v, f) = Replaced(n, q, MatrixOf(v, f, M.scalar))
    BY BothReplaced
  <2> QED  BY <2>3, <2>5
<1>3. IsMatrix(N) /\ N.scalar = M.scalar /\ \A j \in Nat : CellAt(N, j) = IF j = i THEN c ELSE CellAt(M, j)
  BY <1>1, PutMatrix
<1> QED  BY <1>2, <1>3

-----------------------------------------------------------------------------
(* The levels on the way to a position *)

LEMMA NewMatrixIs ==
    ASSUME NEW c, IsCell(c), c.format # "MATRIX", NEW N, N = NewMatrix(c)
    PROVE  IsMatrix(N) /\ N.scalar = c /\ \A j \in Nat : CellAt(N, j) = None
<1>1. N = MatrixOf(NewVector, NewVector, c)
  BY DEF NewMatrix, MatrixOf
<1>2. N.vector = NewVector /\ N.DataFormat = NewVector /\ N.scalar = c
  BY <1>1, MatrixOfIs
<1>3. IsVector(NewVector, Vals, NULL) /\ NewVector.Length = 0 /\ \A j \in Nat : Get(NewVector, j, NULL) = NULL
  <2>1. NULL \in Vals
    BY DEF Vals, NULL
  <2> QED  BY <2>1, NewVectorIs
<1>4. IsVector(NewVector, Formats, "NONE") /\ \A j \in Nat : Get(NewVector, j, "NONE") = "NONE"
  <2>1. "NONE" \in Formats
    BY DEF Formats
  <2> QED  BY <2>1, NewVectorIs
<1>5. \A j \in Nat : CellAt(N, j) = None
  BY <1>2, <1>3, <1>4 DEF CellAt, None
<1> QED  BY <1>1, <1>2, <1>3, <1>4, <1>5, NoneIs DEF IsMatrix

\* The element i of q is in the vector and no level.
IsLeaf(n, q, i) ==
    q \in DOMAIN n /\ i \in Nat /\ i < n[q].vector.Length /\ CellAt(n[q], i).format # "MATRIX"

LEMMA NewLevelIs ==
    ASSUME NEW n, IsTree(n), NEW q, NEW i, IsLeaf(n, q, i), NEW t, t = NewLevel(n, q, i)
    PROVE  Grown(n, t) /\ DOMAIN t = DOMAIN n \cup {Append(q, i)}
<1> PICK b : b = Append(q, i)
  OBVIOUS
<1>0. q \in DOMAIN n /\ i \in Nat /\ i < n[q].vector.Length /\ CellAt(n[q], i).format # "MATRIX"
  BY DEF IsLeaf
<1> PICK e, c : e = CellAt(n[q], i) /\ c = Cell(NULL, "MATRIX")
  OBVIOUS
<1>1. IsMatrix(n[q]) /\ q \in Position /\ DOMAIN n \subseteq Position /\ <<>> \in DOMAIN n
  BY <1>0 DEF IsTree
<1>2. IsCell(e) /\ e = Element(n, q, i) /\ e.format # "MATRIX"
  BY <1>0, <1>1, ElementIs DEF IsMatrix
<1>3. IsCell(c) /\ c.format = "MATRIX"
  BY CellIs DEF IsCell, Vals, Formats, NULL
<1>4. PICK N : /\ PutElement(n, q, i, c) = Replaced(n, q, N)
               /\ IsMatrix(N) /\ N.scalar = n[q].scalar
               /\ \A j \in Nat : CellAt(N, j) = IF j = i THEN c ELSE CellAt(n[q], j)
  BY <1>0, <1>3, PutElementIs
<1> PICK L : L = NewMatrix(e)
  OBVIOUS
<1>5. IsMatrix(L) /\ L.scalar = e /\ \A j \in Nat : CellAt(L, j) = None
  BY <1>2, NewMatrixIs
<1>6. b \notin DOMAIN n /\ b # q /\ b \in Position /\ b # <<>> /\ Front(b) = q /\ Last(b) = i
  BY <1>0, <1>1, AppendIs DEF IsTree
<1>7. t = [r \in DOMAIN n \cup {b} |-> IF r = b THEN L ELSE IF r = q THEN N ELSE n[r]]
  <2>1. t = With(Replaced(n, q, N), b, L)
    BY <1>2, <1>4 DEF NewLevel
  <2> QED  BY <1>6, <2>1 DEF Replaced, With
<1>8. /\ DOMAIN t = DOMAIN n \cup {b} /\ t[b] = L /\ t[q] = N /\ t = [r \in DOMAIN t |-> t[r]]
      /\ \A r \in DOMAIN n : r # q => t[r] = n[r]
  BY <1>0, <1>6, <1>7
<1>9. IsTree(t)
  <2>1. \A r \in DOMAIN t : IsMatrix(t[r])
    BY <1>4, <1>5, <1>8 DEF IsTree
  <2>2. \A p \in DOMAIN t : p # <<>> => Front(p) \in DOMAIN t
    BY <1>0, <1>6, <1>8 DEF IsTree
  <2>3. ASSUME NEW r \in DOMAIN t, NEW j \in Nat
        PROVE  CellAt(t[r], j).format = "MATRIX" <=> Append(r, j) \in DOMAIN t
    <3> PICK p : p = Append(r, j)
      OBVIOUS
    <3>1. r \in Position /\ Front(p) = r /\ Last(p) = j
      BY <1>1, <1>6, <1>8, AppendIs
    <3>2. p = b => r = q /\ j = i
      BY <1>6, <3>1
    <3>3. CASE r = b
      <4>1. CellAt(t[r], j).format = "NONE"
        BY <1>5, <1>8, <3>3, NoneIs
      <4>2. p \notin DOMAIN n /\ p # b
        <5>1. p \in DOMAIN n => r \in DOMAIN n
          <6>1. p # <<>>
            BY <3>1, AppendIs
          <6> QED  BY <3>1, <6>1 DEF IsTree
        <5> QED  BY <1>6, <3>2, <3>3, <5>1
      <4> QED  BY <1>8, <4>1, <4>2
    <3>4. CASE r = q
      <4>1. CellAt(t[r], j) = IF j = i THEN c ELSE CellAt(n[q], j)
        BY <1>4, <1>8, <3>4
      <4>2. CellAt(n[q], j).format = "MATRIX" <=> p \in DOMAIN n
        BY <1>0, <3>4 DEF IsTree
      <4>3. j = i <=> p = b
        BY <3>2, <3>4
      <4> QED  BY <1>3, <1>8, <4>1, <4>2, <4>3
    <3>5. CASE r # b /\ r # q
      <4>1. t[r] = n[r] /\ r \in DOMAIN n
        BY <1>8, <3>5
      <4>2. CellAt(n[r], j).format = "MATRIX" <=> p \in DOMAIN n
        BY <4>1 DEF IsTree
      <4> QED  BY <1>8, <3>2, <3>5, <4>1, <4>2
    <3> QED  BY <3>3, <3>4, <3>5
  <2> QED  BY <1>1, <1>6, <1>8, <2>1, <2>2, <2>3 DEF IsTree
<1>10. ASSUME NEW p \in Position
       PROVE  Held(t, p) = Held(n, p)
  <2>1. CASE p = b
    BY <1>0, <1>5, <1>6, <1>8, <2>1 DEF Held
  <2>2. CASE p \in DOMAIN n
    <3>1. t[p].scalar = n[p].scalar /\ p \in DOMAIN t
      BY <1>4, <1>6, <1>8, <2>2
    <3> QED  BY <2>2, <3>1 DEF Held
  <2>3. CASE p \notin DOMAIN n /\ p # b
    <3>1. p \notin DOMAIN t /\ p # <<>> /\ Last(p) \in Nat /\ p = Append(Front(p), Last(p))
      BY <1>1, <1>8, <2>3, FrontLast
    <3>2. CASE Front(p) = b
      <4>1. CellAt(t[Front(p)], Last(p)) = None /\ Front(p) \in DOMAIN t /\ Front(p) \notin DOMAIN n
        BY <1>5, <1>6, <1>8, <3>1, <3>2
      <4> QED  BY <2>3, <3>1, <4>1 DEF Held
    <3>3. CASE Front(p) = q
      <4>1. Last(p) # i
        BY <2>3, <3>1, <3>3
      <4>2. CellAt(N, Last(p)) = CellAt(n[q], Last(p))
        BY <1>4, <3>1, <4>1
      <4> QED  BY <1>8, <2>3, <3>1, <3>3, <4>2 DEF Held
    <3>4. CASE Front(p) # q /\ Front(p) # b
      <4>1. Front(p) \in DOMAIN t <=> Front(p) \in DOMAIN n
        BY <1>8, <3>4
      <4>2. Front(p) \in DOMAIN n => t[Front(p)] = n[Front(p)]
        BY <1>8, <3>4
      <4> QED  BY <2>3, <3>1, <4>1, <4>2 DEF Held
    <3> QED  BY <3>2, <3>3, <3>4
  <2> QED  BY <2>1, <2>2, <2>3
<1>11. IsBegun(n) => IsBegun(t)
  <2>1. CASE q = <<>>
    <3>1. CellAt(N, i).format = "MATRIX" /\ N.vector.Length \in Nat
      BY <1>0, <1>3, <1>4 DEF IsMatrix, IsVector
    <3>2. i < N.vector.Length
      BY <1>0, <1>4, <3>1 DEF IsMatrix
    <3> QED  BY <1>0, <1>8, <2>1, <3>1, <3>2 DEF IsBegun
  <2>2. CASE q # <<>>
    <3>1. t[<<>>] = n[<<>>]
      BY <1>1, <1>8, <2>2
    <3> QED  BY <3>1 DEF IsBegun
  <2> QED  BY <2>1, <2>2
<1> QED  BY <1>8, <1>9, <1>10, <1>11 DEF Grown

\* One level further on the way to index.
Further(p, index, k, isCreateNextLevel) ==
    IF ~p.found THEN p
    ELSE OneLevel(Touch(p.node, p.at, index[k]), p.at, index[k], k > 1 \/ isCreateNextLevel)

LEMMA FurtherIs ==
    ASSUME NEW p, p.found, IsTree(p.node), p.at \in DOMAIN p.node, NEW index, NEW k \in Nat, index[k] \in Nat,
           NEW isCreateNextLevel, NEW o, o = Further(p, index, k, isCreateNextLevel)
    PROVE  /\ Grown(p.node, o.node) /\ o.at \in DOMAIN o.node
           /\ k > 1 \/ isCreateNextLevel => o.found
           /\ o.at = IF o.found THEN Append(p.at, index[k]) ELSE p.at
           /\ \A r \in DOMAIN o.node : r \in DOMAIN p.node \/ r = Append(p.at, index[k])
           /\ IsBegun(p.node) \/ p.at = <<>> => IsBegun(o.node)
<1> PICK b : b = Append(p.at, index[k])
  OBVIOUS
<1>0. PICK n, q, i, t : n = p.node /\ q = p.at /\ i = index[k] /\ t = Touch(n, q, i)
  OBVIOUS
<1>1. Grown(n, t) /\ DOMAIN t = DOMAIN n /\ i < t[q].vector.Length /\ i \in Nat /\ q \in DOMAIN n /\ IsTree(n)
  BY <1>0, TouchIs
<1>2. IsTree(t) /\ q \in DOMAIN t /\ IsMatrix(t[q])
  BY <1>1 DEF Grown, IsTree
<1>8. IsBegun(p.node) \/ p.at = <<>> => IsBegun(t)
  <2>1. q = <<>> => t[<<>>].vector.Length \in Nat /\ i < t[<<>>].vector.Length
    BY <1>1, <1>2 DEF IsMatrix, IsVector
  <2>2. q = <<>> => IsBegun(t)
    BY <1>1, <2>1 DEF IsBegun
  <2> QED  BY <1>0, <1>1, <2>2 DEF Grown
<1>3. Element(t, q, i) = CellAt(t[q], i)
  BY <1>1, <1>2, ElementIs
<1>4. CellAt(t[q], i).format = "MATRIX" <=> b \in DOMAIN t
  BY <1>0, <1>1, <1>2 DEF IsTree
<1>5. CASE b \in DOMAIN t
  <2>1. o.node = t /\ o.at = b /\ o.found
    BY <1>0, <1>3, <1>4, <1>5 DEF Further, OneLevel
  <2> QED  BY <1>0, <1>1, <1>5, <1>8, <2>1
<1>6. CASE b \notin DOMAIN t /\ (k > 1 \/ isCreateNextLevel)
  <2>1. o.node = NewLevel(t, q, i) /\ o.at = b /\ o.found
    BY <1>0, <1>3, <1>4, <1>6 DEF Further, OneLevel
  <2>2. Grown(t, o.node) /\ DOMAIN o.node = DOMAIN t \cup {b}
    <3>1. IsLeaf(t, q, i)
      BY <1>0, <1>1, <1>2, <1>4, <1>6 DEF IsLeaf
    <3>2. Grown(t, NewLevel(t, q, i)) /\ DOMAIN NewLevel(t, q, i) = DOMAIN t \cup {Append(q, i)}
      BY <1>2, <3>1, NewLevelIs
    <3>3. b = Append(q, i)
      BY <1>0
    <3> QED  BY <2>1, <3>2, <3>3
  <2>3. Grown(n, o.node)
    BY <1>1, <2>2, GrownTwice
  <2>4. IsBegun(t) => IsBegun(o.node)
    BY <2>2 DEF Grown
  <2> QED  BY <1>0, <1>1, <1>8, <2>1, <2>2, <2>3, <2>4
<1>7. CASE b \notin DOMAIN t /\ ~(k > 1 \/ isCreateNextLevel)
  <2>1. o.node = t /\ o.at = q /\ ~o.found
    BY <1>0, <1>3, <1>4, <1>7 DEF Further, OneLevel
  <2> QED  BY <1>0, <1>1, <1>7, <1>8, <2>1
<1> QED  BY <1>5, <1>6, <1>7

Steps(index) == IF index = <<>> THEN 0 ELSE Len(index) - 1

Way(f, n, index, isCreateNextLevel, m) ==
    /\ f[0] = [node |-> n, at |-> <<>>, found |-> TRUE]
    /\ \A k \in 1 .. m : f[k] = Further(f[k - 1], index, k, isCreateNextLevel)

LEMMA WayExists ==
    ASSUME NEW n, NEW index, NEW isCreateNextLevel, NEW m \in Nat
    PROVE  \E f : f = [k \in 0 .. m |-> f[k]] /\ Way(f, n, index, isCreateNextLevel, m)
<1> PICK first : first = [node |-> n, at |-> <<>>, found |-> TRUE]
  OBVIOUS
<1> DEFINE K == {j \in Nat : \E f : f = [k \in 0 .. j |-> f[k]] /\ f[0] = first
                                    /\ \A k \in 1 .. j : f[k] = Further(f[k - 1], index, k, isCreateNextLevel)}
<1>1. 0 \in K
  <2> DEFINE f == [k \in 0 .. 0 |-> first]
  <2>1. f = [k \in 0 .. 0 |-> f[k]] /\ f[0] = first /\ \A k \in 1 .. 0 : f[k] = Further(f[k - 1], index, k, isCreateNextLevel)
    OBVIOUS
  <2> QED  BY <2>1
<1>2. ASSUME NEW j \in Nat, j \in K
      PROVE  j + 1 \in K
  <2>1. PICK f : f = [k \in 0 .. j |-> f[k]] /\ f[0] = first
                 /\ \A k \in 1 .. j : f[k] = Further(f[k - 1], index, k, isCreateNextLevel)
    BY <1>2
  <2>2. PICK next : next = Further(f[j], index, j + 1, isCreateNextLevel)
    OBVIOUS
  <2>3. PICK h : h = [k \in 0 .. j + 1 |-> IF k = j + 1 THEN next ELSE f[k]]
    OBVIOUS
  <2>4. h = [k \in 0 .. j + 1 |-> h[k]] /\ h[j + 1] = next /\ \A k \in 0 .. j : h[k] = f[k]
    BY <2>3
  <2>5. ASSUME NEW k \in 1 .. j + 1
        PROVE  h[k] = Further(h[k - 1], index, k, isCreateNextLevel)
    <3>1. CASE k = j + 1
      <4>1. h[k - 1] = f[j]
        BY <2>4, <3>1
      <4> QED  BY <2>2, <2>4, <3>1, <4>1
    <3>2. CASE k # j + 1
      <4>1. k \in 1 .. j /\ k \in 0 .. j /\ k - 1 \in 0 .. j
        BY <3>2
      <4> QED  BY <2>1, <2>4, <4>1
    <3> QED  BY <3>1, <3>2
  <2>6. h[0] = first /\ j + 1 \in Nat
    <3>1. 0 \in 0 .. j
      BY <1>2
    <3>2. h[0] = f[0]
      BY <2>4, <3>1
    <3> QED  BY <1>2, <2>1, <3>2
  <2> QED  BY <2>4, <2>5, <2>6
<1>3. K \in SUBSET Nat
  OBVIOUS
<1> HIDE DEF K
<1>4. K = Nat
  BY <1>1, <1>2, <1>3, AllNumbers
<1>5. m \in K
  BY <1>4
<1> QED  BY <1>5 DEF K, Way

LEMMA BeforeLastLevelWay ==
    ASSUME NEW n, NEW index \in Position, NEW isCreateNextLevel
    PROVE  \E f : Way(f, n, index, isCreateNextLevel, Steps(index))
                  /\ BeforeLastLevel(n, index, isCreateNextLevel) = f[Steps(index)]
<1>1. PICK m, seq : m = Steps(index) /\ seq = [k \in 1 .. m |-> k]
  OBVIOUS
<1>2. m \in Nat /\ Len(seq) = m /\ \A k \in 1 .. m : seq[k] = k
  <2>1. m \in Nat
    <3>1. index # <<>> => Len(index) \in Nat \ {0}
      BY FrontLast
    <3> QED  BY <1>1, <3>1 DEF Steps
  <2>2. seq \in Seq(Nat)
    BY <1>1, <2>1
  <2> QED  BY <1>1, <2>1, <2>2
<1> DEFINE body(up) == [k \in 0 .. m |-> IF k = 0 THEN [node |-> n, at |-> <<>>, found |-> TRUE]
                                          ELSE Further(up[k - 1], index, seq[k], isCreateNextLevel)]
           all == CHOOSE up : up = body(up)
<1>3. BeforeLastLevel(n, index, isCreateNextLevel) = all[m]
  BY <1>1, <1>2 DEF BeforeLastLevel, FoldAlong, Further, Steps
<1>4. \E up : up = body(up)
  <2>1. PICK f : f = [k \in 0 .. m |-> f[k]] /\ Way(f, n, index, isCreateNextLevel, m)
    BY <1>2, WayExists
  <2>2. f = body(f)
    BY <1>2, <2>1 DEF Way
  <2> QED  BY <2>2
<1>5. all = body(all)
  BY <1>4
<1> HIDE DEF all
<1>6. all[0] = [node |-> n, at |-> <<>>, found |-> TRUE]
  BY <1>2, <1>5
<1>7. ASSUME NEW k \in 1 .. m
      PROVE  all[k] = Further(all[k - 1], index, k, isCreateNextLevel)
  <2>1. k \in 0 .. m /\ k # 0 /\ seq[k] = k
    BY <1>2
  <2> QED  BY <1>5, <2>1
<1>8. Way(all, n, index, isCreateNextLevel, m)
  BY <1>6, <1>7 DEF Way
<1> QED  BY <1>1, <1>3, <1>8

\* How far the levels are after k indices.
OnWay(p, n, index, k, isCreateNextLevel) ==
    /\ Grown(n, p.node) /\ p.at \in DOMAIN p.node
    /\ isCreateNextLevel => p.found
    /\ p.found => p.at = SubSeq(index, 1, k)
    /\ Len(p.at) <= k
    /\ \A r \in DOMAIN p.node : r \in DOMAIN n \/ Len(r) <= k
    /\ IsBegun(p.node) \/ (p.found /\ p.at = <<>>)

LEMMA OnWayFirst ==
    ASSUME NEW n, IsTree(n), NEW index \in Position, NEW isCreateNextLevel,
           NEW p, p = [node |-> n, at |-> <<>>, found |-> TRUE]
    PROVE  OnWay(p, n, index, 0, isCreateNextLevel)
<1>1. p.node = n /\ p.at = <<>> /\ p.found
  OBVIOUS
<1>2. Grown(n, n) /\ <<>> \in DOMAIN n
  BY DEF Grown, IsTree
<1>3. SubSeq(index, 1, 0) = <<>>
  BY DEF Position
<1> QED  BY <1>1, <1>2, <1>3 DEF OnWay

LEMMA OnWayNext ==
    ASSUME NEW n, NEW index \in Position, NEW k \in Nat, k < Len(index), NEW isCreateNextLevel,
           NEW p, OnWay(p, n, index, k, isCreateNextLevel), NEW o, o = Further(p, index, k + 1, isCreateNextLevel)
    PROVE  OnWay(o, n, index, k + 1, isCreateNextLevel)
<1>1. index \in Seq(Nat) /\ Len(index) \in Nat /\ index[k + 1] \in Nat
  BY DEF Position
<1>2. Grown(n, p.node) /\ p.at \in DOMAIN p.node /\ IsTree(p.node) /\ p.at \in Position /\ Len(p.at) \in Nat
  BY DEF OnWay, Grown, IsTree, Position
<1>3. \A r \in Position : Len(r) \in Nat
  BY DEF Position
<1>4. CASE ~p.found
  <2>1. o = p
    BY <1>4 DEF Further
  <2>2. \A l \in Nat : l <= k => l <= k + 1
    OBVIOUS
  <2>3. Len(p.at) <= k + 1
    BY <1>2, <2>2 DEF OnWay
  <2>4. \A r \in DOMAIN p.node : r \in DOMAIN n \/ Len(r) <= k + 1
    BY <1>2, <1>3, <2>2 DEF OnWay, IsTree
  <2> QED  BY <1>4, <2>1, <2>3, <2>4 DEF OnWay
<1>5. CASE p.found
  <2> PICK b : b = Append(p.at, index[k + 1])
    OBVIOUS
  <2>1. /\ Grown(p.node, o.node) /\ o.at \in DOMAIN o.node
        /\ isCreateNextLevel => o.found
        /\ o.at = IF o.found THEN b ELSE p.at
        /\ \A r \in DOMAIN o.node : r \in DOMAIN p.node \/ r = b
        /\ IsBegun(p.node) \/ p.at = <<>> => IsBegun(o.node)
    <3> PICK j : j = k + 1
      OBVIOUS
    <3>1. j \in Nat /\ index[j] \in Nat /\ o = Further(p, index, j, isCreateNextLevel)
      BY <1>1
    <3>2. /\ Grown(p.node, o.node) /\ o.at \in DOMAIN o.node
          /\ isCreateNextLevel => o.found
          /\ o.at = IF o.found THEN Append(p.at, index[j]) ELSE p.at
          /\ \A r \in DOMAIN o.node : r \in DOMAIN p.node \/ r = Append(p.at, index[j])
          /\ IsBegun(p.node) \/ p.at = <<>> => IsBegun(o.node)
      BY <1>2, <1>5, <3>1, FurtherIs
    <3> QED  BY <3>2
  <2>2. Grown(n, o.node)
    BY <1>2, <2>1, GrownTwice
  <2>3. p.at = SubSeq(index, 1, k) /\ Len(p.at) <= k
    BY <1>5 DEF OnWay
  <2>4. b = SubSeq(index, 1, k + 1)
    <3> PICK a, d : a = SubSeq(index, 1, k) /\ d = SubSeq(index, 1, k + 1)
      OBVIOUS
    <3>1. a \in Seq(Nat) /\ Len(a) = k /\ \A j \in 1 .. k : a[j] = index[j]
      BY <1>1
    <3>2. d \in Seq(Nat) /\ Len(d) = k + 1 /\ \A j \in 1 .. k + 1 : d[j] = index[j]
      BY <1>1
    <3>3. b \in Seq(Nat) /\ Len(b) = k + 1 /\ \A j \in 1 .. k + 1 : b[j] = index[j]
      BY <1>1, <2>3, <3>1
    <3> QED  BY <3>2, <3>3, SeqEqual
  <2>5. Len(b) = Len(p.at) + 1
    BY <1>1, <1>2, AppendIs
  <2>6. Len(o.at) <= k + 1 /\ Len(b) <= k + 1
    <3>1. Len(b) <= k + 1 /\ Len(p.at) <= k + 1
      BY <1>2, <2>3, <2>5
    <3> QED  BY <2>1, <3>1
  <2>7. ASSUME NEW r \in DOMAIN o.node
        PROVE  r \in DOMAIN n \/ Len(r) <= k + 1
    <3>1. CASE r = b
      BY <2>6, <3>1
    <3>2. CASE r \in DOMAIN p.node
      <4>1. r \in DOMAIN n \/ Len(r) <= k
        BY <3>2 DEF OnWay
      <4>2. Len(r) \in Nat
        BY <1>2, <1>3, <3>2 DEF IsTree
      <4> QED  BY <4>1, <4>2
    <3> QED  BY <2>1, <3>1, <3>2
  <2> QED  BY <2>1, <2>2, <2>4, <2>6, <2>7 DEF OnWay
<1> QED  BY <1>4, <1>5

\* getBeforeLastLevel() changes no value, and finds the level above the position
\* if it may create it.
LEMMA BeforeLastLevelIs ==
    ASSUME NEW n, IsTree(n), NEW index \in Position, NEW isCreateNextLevel,
           NEW w, w = BeforeLastLevel(n, index, isCreateNextLevel)
    PROVE  /\ Grown(n, w.node) /\ w.at \in DOMAIN w.node
           /\ isCreateNextLevel => w.found
           /\ w.found /\ index # <<>> => w.at = Front(index)
           /\ index # <<>> => \A p \in DOMAIN w.node : p \in DOMAIN n \/ Len(p) < Len(index)
           /\ index = <<>> => w.node = n
           /\ IsBegun(w.node) \/ (w.found /\ w.at = <<>>)
<1>0. PICK m : m = Steps(index)
  OBVIOUS
<1>1. PICK f : Way(f, n, index, isCreateNextLevel, m) /\ w = f[m]
  BY <1>0, BeforeLastLevelWay
<1>2. m \in Nat /\ (index # <<>> => m = Len(index) - 1) /\ (index = <<>> => m = 0) /\ Len(index) \in Nat
      /\ (m # 0 => m < Len(index))
  <2>1. index # <<>> => Len(index) \in Nat \ {0}
    BY FrontLast
  <2>2. Len(index) \in Nat
    BY DEF Position
  <2> QED  BY <1>0, <2>1, <2>2 DEF Steps
<1> DEFINE K == {k \in Nat : k <= m => OnWay(f[k], n, index, k, isCreateNextLevel)}
<1>3. 0 \in K
  <2>1. OnWay(f[0], n, index, 0, isCreateNextLevel)
    BY <1>1, OnWayFirst DEF Way
  <2> QED  BY <2>1
<1>4. ASSUME NEW k \in Nat, k \in K
      PROVE  k + 1 \in K
  <2> SUFFICES ASSUME k + 1 <= m
               PROVE  OnWay(f[k + 1], n, index, k + 1, isCreateNextLevel)
    OBVIOUS
  <2>1. OnWay(f[k], n, index, k, isCreateNextLevel) /\ k < Len(index)
    BY <1>2, <1>4
  <2>2. f[k + 1] = Further(f[k], index, k + 1, isCreateNextLevel)
    <3>1. k + 1 \in 1 .. m /\ k + 1 - 1 = k
      BY <1>2
    <3> QED  BY <1>1, <3>1 DEF Way
  <2> QED  BY <2>1, <2>2, OnWayNext
<1>5. K \in SUBSET Nat
  OBVIOUS
<1> HIDE DEF K
<1>6. K = Nat
  BY <1>3, <1>4, <1>5, AllNumbers
<1>7. OnWay(w, n, index, m, isCreateNextLevel)
  <2>1. m \in K
    BY <1>2, <1>6
  <2> QED  BY <1>1, <1>2, <2>1 DEF K
<1>8. index # <<>> => SubSeq(index, 1, m) = Front(index)
  BY <1>2 DEF Front
<1>9. ASSUME index # <<>>, NEW p \in DOMAIN w.node
      PROVE  p \in DOMAIN n \/ Len(p) < Len(index)
  <2>1. p \in DOMAIN n \/ Len(p) <= m
    BY <1>7 DEF OnWay
  <2>2. Len(p) \in Nat
    BY <1>7 DEF OnWay, Grown, IsTree, Position
  <2> QED  BY <1>2, <1>9, <2>1, <2>2
<1>10. index = <<>> => w.node = n
  BY <1>1, <1>2 DEF Way
<1> QED  BY <1>7, <1>8, <1>9, <1>10 DEF OnWay

LEMMA LevelsOnWay ==
    ASSUME NEW n, IsTree(n), NEW index \in Position, NEW w, w = BeforeLastLevel(n, index, FALSE), index # <<>>
    PROVE  \A p \in DOMAIN w.node : p \in DOMAIN n \/ Len(p) < Len(index)
<1> PICK isCreateNextLevel : isCreateNextLevel = FALSE
  OBVIOUS
<1>1. w = BeforeLastLevel(n, index, isCreateNextLevel)
  OBVIOUS
<1> QED  BY <1>1, BeforeLastLevelIs, Zenon

LEMMA NoWay ==
    ASSUME NEW n, NEW isCreateNextLevel
    PROVE  BeforeLastLevel(n, <<>>, isCreateNextLevel).node = n
<1> PICK p : p = <<>>
  OBVIOUS
<1>1. p \in Position /\ Steps(p) = 0
  BY DEF Position, Steps
<1>2. PICK f : Way(f, n, p, isCreateNextLevel, Steps(p)) /\ BeforeLastLevel(n, p, isCreateNextLevel) = f[Steps(p)]
  BY <1>1, BeforeLastLevelWay
<1> QED  BY <1>1, <1>2 DEF Way

LEMMA AfterReadingIs ==
    ASSUME NEW n, IsTree(n), NEW index \in Position, NEW t, t = AfterReading(n, index)
    PROVE  /\ Grown(n, t) /\ (index \in DOMAIN t => index \in DOMAIN n)
           /\ index # <<>> => IsBegun(t)
<1>1. PICK w : w = BeforeLastLevel(n, index, FALSE)
  OBVIOUS
<1>2. /\ Grown(n, w.node) /\ w.at \in DOMAIN w.node
      /\ index # <<>> => \A p \in DOMAIN w.node : p \in DOMAIN n \/ Len(p) < Len(index)
      /\ index = <<>> => w.node = n
  <2>1. Grown(n, w.node) /\ w.at \in DOMAIN w.node
    BY <1>1, BeforeLastLevelIs, Zenon
  <2>2. index # <<>> => \A p \in DOMAIN w.node : p \in DOMAIN n \/ Len(p) < Len(index)
    BY <1>1, LevelsOnWay
  <2>3. index = <<>> => w.node = n
    BY <1>1, NoWay
  <2> QED  BY <2>1, <2>2, <2>3
<1>7. IsBegun(w.node) \/ (w.found /\ w.at = <<>>)
  BY <1>1, BeforeLastLevelIs, Zenon
<1>3. t = IF index = <<>> \/ ~w.found THEN w.node ELSE Touch(w.node, w.at, Last(index))
  BY <1>1 DEF AfterReading, ReadElement
<1>4. index \in DOMAIN w.node => index \in DOMAIN n
  <2>1. Len(index) \in Nat
    BY DEF Position
  <2>2. ~(Len(index) < Len(index))
    BY <2>1
  <2> QED  BY <1>2, <2>2
<1>5. CASE index = <<>> \/ ~w.found
  BY <1>2, <1>3, <1>4, <1>5, <1>7
<1>6. CASE ~(index = <<>> \/ ~w.found)
  <2>1. Last(index) \in Nat /\ t = Touch(w.node, w.at, Last(index)) /\ IsTree(w.node)
    BY <1>2, <1>3, <1>6, FrontLast DEF Grown
  <2>2. Grown(w.node, t) /\ DOMAIN t = DOMAIN w.node /\ Last(index) < t[w.at].vector.Length
    BY <1>2, <2>1, TouchIs
  <2>3. IsBegun(t)
    <3>1. IsBegun(w.node) => IsBegun(t)
      BY <2>2 DEF Grown
    <3>2. IsMatrix(t[w.at])
      BY <1>2, <2>2 DEF Grown, IsTree
    <3>4. t[w.at].vector.Length \in Nat
      BY <3>2 DEF IsMatrix, IsVector
    <3>3. w.at = <<>> => IsBegun(t)
      BY <2>1, <2>2, <3>4 DEF IsBegun
    <3> QED  BY <1>7, <3>1, <3>3
  <2> QED  BY <1>2, <1>4, <2>2, <2>3, GrownTwice
<1> QED  BY <1>5, <1>6

-----------------------------------------------------------------------------
(* Storing a value *)

\* t holds the value c at p, and everything else as n does.
StoredAt(t, n, p, c) ==
    /\ IsTree(t) /\ DOMAIN t = DOMAIN n
    /\ \A r \in Position : Held(t, r) = IF r = p THEN Plain(c) ELSE Held(n, r)

LEMMA StoredLater ==
    ASSUME NEW n, NEW t, NEW u, Grown(n, t), NEW p, NEW c, StoredAt(u, t, p, c)
    PROVE  /\ IsTree(u) /\ \A r \in Position : Held(u, r) = IF r = p THEN Plain(c) ELSE Held(n, r)
           /\ DOMAIN n \subseteq DOMAIN u
  BY DEF Grown, StoredAt

WithScalar(n, q, c) == [n EXCEPT ![q].scalar = c]

LEMMA ScalarReplaced ==
    ASSUME NEW v, NEW f, NEW s, NEW c, NEW M, M = MatrixOf(v, f, s)
    PROVE  [M EXCEPT !.scalar = c] = MatrixOf(v, f, c)
  BY DEF MatrixOf

LEMMA WithScalarIs ==
    ASSUME NEW n, IsTree(n), NEW q \in DOMAIN n, NEW c, IsCell(c), c.format # "MATRIX"
    PROVE  StoredAt(WithScalar(n, q, c), n, q, c)
<1>1. PICK M, N, t : M = n[q] /\ N = MatrixOf(M.vector, M.DataFormat, c) /\ t = WithScalar(n, q, c)
  OBVIOUS
<1>2. IsMatrix(M) /\ M = MatrixOf(M.vector, M.DataFormat, M.scalar) /\ n = [r \in DOMAIN n |-> n[r]]
  BY <1>1 DEF IsTree, IsMatrix
<1>3. t = Replaced(n, q, N)
  <2>1. t = [n EXCEPT ![q] = [n[q] EXCEPT !.scalar = c]]
    BY <1>1, <1>2 DEF WithScalar
  <2>2. [n[q] EXCEPT !.scalar = c] = N
    BY <1>1, <1>2, ScalarReplaced
  <2>3. t = [n EXCEPT ![q] = N]
    BY <2>1, <2>2
  <2> QED  BY <1>2, <2>3 DEF Replaced
<1>4. N.vector = M.vector /\ N.DataFormat = M.DataFormat /\ N.scalar = c
  BY <1>1, MatrixOfIs
<1>5. \A j \in Nat : CellAt(N, j) = CellAt(M, j)
  BY <1>4 DEF CellAt
<1>6. IsMatrix(N)
  BY <1>1, <1>2, <1>4, <1>5 DEF IsMatrix
<1>7. /\ IsTree(t) /\ DOMAIN t = DOMAIN n
      /\ \A p \in Position :
            Held(t, p) = IF p = q THEN Plain(N.scalar)
                         ELSE IF p \notin DOMAIN n /\ Front(p) = q THEN Plain(CellAt(N, Last(p)))
                         ELSE Held(n, p)
  <2>1. \A j \in Nat : CellAt(N, j).format = "MATRIX" <=> CellAt(n[q], j).format = "MATRIX"
    BY <1>1, <1>5
  <2> QED  BY <1>3, <1>6, <2>1, ReplacedIs
<1>8. ASSUME NEW p \in Position
      PROVE  Held(t, p) = IF p = q THEN Plain(c) ELSE Held(n, p)
  <2>1. CASE p = q
    BY <1>4, <1>7, <2>1
  <2>2. CASE p \notin DOMAIN n /\ Front(p) = q /\ p # q
    <3>1. p # <<>>
      BY <2>2 DEF IsTree
    <3>2. Last(p) \in Nat
      BY <3>1, FrontLast
    <3>3. CellAt(N, Last(p)) = CellAt(n[q], Last(p))
      BY <1>1, <1>5, <3>2
    <3> QED  BY <1>7, <2>2, <3>3 DEF Held
  <2> QED  BY <1>7, <2>1, <2>2
<1>9. StoredAt(t, n, q, c)
  BY <1>7, <1>8 DEF StoredAt
<1> QED  BY <1>1, <1>9

LEMMA LeafPut ==
    ASSUME NEW n, IsTree(n), NEW q, NEW i, IsLeaf(n, q, i), NEW c, IsCell(c), c.format # "MATRIX"
    PROVE  StoredAt(PutElement(n, q, i, c), n, Append(q, i), c)
<1>1. PICK b, t : b = Append(q, i) /\ t = PutElement(n, q, i, c)
  OBVIOUS
<1>2. q \in DOMAIN n /\ i \in Nat /\ i < n[q].vector.Length /\ CellAt(n[q], i).format # "MATRIX" /\ q \in Position
  BY DEF IsLeaf, IsTree
<1>3. b \in Position /\ b # <<>> /\ Front(b) = q /\ Last(b) = i /\ b \notin DOMAIN n /\ b # q
  BY <1>1, <1>2, AppendIs DEF IsTree
<1>4. PICK N : /\ t = Replaced(n, q, N)
               /\ IsMatrix(N) /\ N.scalar = n[q].scalar
               /\ \A j \in Nat : CellAt(N, j) = IF j = i THEN c ELSE CellAt(n[q], j)
  BY <1>1, <1>2, PutElementIs
<1>5. \A j \in Nat : CellAt(N, j).format = "MATRIX" <=> CellAt(n[q], j).format = "MATRIX"
  BY <1>2, <1>4
<1>6. /\ IsTree(t) /\ DOMAIN t = DOMAIN n
      /\ \A p \in Position :
            Held(t, p) = IF p = q THEN Plain(N.scalar)
                         ELSE IF p \notin DOMAIN n /\ Front(p) = q THEN Plain(CellAt(N, Last(p)))
                         ELSE Held(n, p)
  BY <1>2, <1>4, <1>5, ReplacedIs
<1>7. ASSUME NEW p \in Position
      PROVE  Held(t, p) = IF p = b THEN Plain(c) ELSE Held(n, p)
  <2>1. CASE p = q
    BY <1>2, <1>3, <1>4, <1>6, <2>1 DEF Held
  <2>2. CASE p = b
    BY <1>2, <1>3, <1>4, <1>6, <2>2
  <2>3. CASE p \notin DOMAIN n /\ Front(p) = q /\ p # q /\ p # b
    <3>1. p # <<>>
      BY <2>3 DEF IsTree
    <3>2. Last(p) \in Nat /\ p = Append(Front(p), Last(p))
      BY <3>1, FrontLast
    <3>3. Last(p) # i
      BY <1>1, <2>3, <3>2
    <3>4. CellAt(N, Last(p)) = CellAt(n[q], Last(p))
      BY <1>4, <3>2, <3>3
    <3> QED  BY <1>2, <1>6, <2>3, <3>4 DEF Held
  <2>4. CASE p # q /\ p # b /\ ~(p \notin DOMAIN n /\ Front(p) = q)
    BY <1>6, <2>4
  <2> QED  BY <2>1, <2>2, <2>3, <2>4
<1>8. StoredAt(t, n, b, c)
  BY <1>6, <1>7 DEF StoredAt
<1> QED  BY <1>1, <1>8

\* What becomes of the memory of texts: the text of c is released or none is.
Released(m, w, c) == w = m \/ (c.format = "STRING" /\ w = [m EXCEPT ![c.value] = Free])

LEMMA SetElementIs ==
    ASSUME NEW n, IsTree(n), NEW q \in DOMAIN n, NEW i \in Nat, i < n[q].vector.Length, NEW c, IsCell(c),
           c.format # "MATRIX", NEW m, NEW w, w = SetElement(n, m, q, i, c)
    PROVE  StoredAt(w.node, n, Append(q, i), c) /\ Released(m, w.memory, Held(n, Append(q, i)))
<1>1. PICK b, e : b = Append(q, i) /\ e = CellAt(n[q], i)
  OBVIOUS
<1>2. IsMatrix(n[q]) /\ q \in Position
  BY DEF IsTree
<1>3. Element(n, q, i) = e
  BY <1>1, <1>2, ElementIs
<1>4. e.format = "MATRIX" <=> b \in DOMAIN n
  BY <1>1 DEF IsTree
<1>5. CASE e.format = "MATRIX"
  <2>1. w.node = WithScalar(n, b, c) /\ w.memory = m
    BY <1>1, <1>3, <1>5 DEF SetElement, WithScalar
  <2>2. StoredAt(WithScalar(n, b, c), n, b, c)
    BY <1>4, <1>5, WithScalarIs
  <2> QED  BY <1>1, <2>1, <2>2 DEF Released
<1>6. CASE e.format # "MATRIX"
  <2>1. w.node = PutElement(n, q, i, c)
        /\ w.memory = IF e.format = "STRING" /\ e.value # NULL THEN [m EXCEPT ![e.value] = Free] ELSE m
    BY <1>1, <1>3, <1>6 DEF SetElement
  <2>2. IsLeaf(n, q, i)
    BY <1>1, <1>6 DEF IsLeaf
  <2>3. StoredAt(PutElement(n, q, i, c), n, Append(q, i), c)
    BY <2>2, LeafPut
  <2>4. e.format = "STRING" => Held(n, b) = e
    <3>1. b # <<>> /\ Front(b) = q /\ Last(b) = i
      BY <1>1, <1>2, AppendIs
    <3>2. Held(n, b) = Plain(e)
      BY <1>1, <1>4, <1>6, <3>1 DEF Held
    <3>3. IsCell(e)
      BY <1>1, <1>2 DEF IsMatrix
    <3> QED  BY <3>2, <3>3, PlainIs
  <2>5. Released(m, w.memory, Held(n, b))
    BY <2>1, <2>4 DEF Released
  <2> QED  BY <1>1, <2>1, <2>3, <2>5
<1> QED  BY <1>5, <1>6

\* setValue() stores a value at its position, and releases no other text than
\* the one that was there.
LEMMA SetValueIs ==
    ASSUME NEW n, IsTree(n), NEW index \in Position, index # <<>> => Front(index) \in DOMAIN n,
           NEW c, IsCell(c), c.format # "MATRIX", NEW m, NEW w, w = SetValue(n, m, index, c)
    PROVE  /\ IsTree(w.node) /\ (\A p \in Position : Held(w.node, p) = IF p = index THEN Plain(c) ELSE Held(n, p))
           /\ Released(m, w.memory, Held(n, index)) /\ DOMAIN n \subseteq DOMAIN w.node
<1>1. CASE index = <<>>
  <2>1. w.node = WithScalar(n, index, c) /\ w.memory = m
    BY <1>1 DEF SetValue, WithScalar
  <2>2. StoredAt(WithScalar(n, index, c), n, index, c)
    BY <1>1, WithScalarIs DEF IsTree
  <2> QED  BY <2>1, <2>2 DEF StoredAt, Released
<1>2. CASE index # <<>>
  <2>1. PICK q, i, t : q = Front(index) /\ i = Last(index) /\ t = Touch(n, q, i)
    OBVIOUS
  <2>2. q \in DOMAIN n /\ i \in Nat /\ index = Append(q, i)
    BY <1>2, <2>1, FrontLast
  <2>3. Grown(n, t) /\ DOMAIN t = DOMAIN n /\ i < t[q].vector.Length
    BY <2>1, <2>2, TouchIs
  <2>4. w = SetElement(t, m, q, i, c)
    BY <1>2, <2>1 DEF SetValue
  <2>5. IsTree(t) /\ q \in DOMAIN t /\ Held(t, index) = Held(n, index)
    BY <2>2, <2>3 DEF Grown
  <2>6. StoredAt(w.node, t, Append(q, i), c) /\ Released(m, w.memory, Held(t, Append(q, i)))
    BY <2>2, <2>3, <2>4, <2>5, SetElementIs
  <2>7. StoredAt(w.node, t, index, c) /\ Released(m, w.memory, Held(n, index))
    BY <2>2, <2>5, <2>6
  <2>8. /\ IsTree(w.node) /\ DOMAIN n \subseteq DOMAIN w.node
        /\ \A r \in Position : Held(w.node, r) = IF r = index THEN Plain(c) ELSE Held(n, r)
    BY <2>3, <2>7, StoredLater
  <2> QED  BY <2>7, <2>8
<1> QED  BY <1>1, <1>2

-----------------------------------------------------------------------------
(* Removing a level *)

Text(a) == Cell(a, "STRING")

LEMMA TextIs ==
    ASSUME NEW c, IsCell(c), NEW a
    PROVE  /\ Plain(c) = Text(a) => c = Text(a)
           /\ c = Text(a) => a \in Memory /\ a # NULL /\ Plain(c) = c
           /\ c.format = "STRING" => c = Text(c.value)
<1>1. Text(a).format = "STRING" /\ Text(a).value = a
  BY CellIs DEF Text
<1>2. c = Text(a) => a \in Memory /\ a # NULL /\ Plain(c) = c
  BY <1>1, PlainIs, MatrixAssumption DEF IsCell, NULL
<1>3. Plain(c) = Text(a) => c = Text(a)
  BY <1>1, PlainIs
<1>4. c.format = "STRING" => c = Text(c.value)
  BY DEF IsCell, Text
<1> QED  BY <1>2, <1>3, <1>4

\* The position whose value is in the matrix r, in its scalar or in an element.
IsAt(n, p, r) == p = r \/ (p \notin DOMAIN n /\ p # <<>> /\ Front(p) = r)

LEMMA TextsAre ==
    ASSUME NEW n, IsTree(n), NEW r \in DOMAIN n, NEW a
    PROVE  a \in TextsOf(n, r) <=> \E p \in Position : Held(n, p) = Text(a) /\ IsAt(n, p, r)
<1>1. IsMatrix(n[r]) /\ r \in Position /\ n[r].vector.Length \in Nat /\ IsCell(n[r].scalar)
  BY DEF IsTree, IsMatrix, IsVector
<1> PICK l : l = n[r].vector.Length
  OBVIOUS
<1>2. \A i \in 0 .. l - 1 : Element(n, r, i) = CellAt(n[r], i) /\ IsCell(CellAt(n[r], i))
  BY <1>1, ElementIs DEF IsMatrix
<1>3. a \in TextsOf(n, r) <=> n[r].scalar = Text(a) \/ \E i \in 0 .. l - 1 : CellAt(n[r], i) = Text(a)
  <2>1. ASSUME NEW c, IsCell(c)
        PROVE  (c.format = "STRING" /\ c.value # NULL /\ c.value = a) <=> c = Text(a)
    BY <2>1, TextIs, CellIs DEF Text
  <2>2. a \in TextsOf(n, r) <=> \/ n[r].scalar.format = "STRING" /\ n[r].scalar.value # NULL /\ n[r].scalar.value = a
                               \/ \E i \in 0 .. l - 1 : /\ Element(n, r, i).format = "STRING"
                                                        /\ Element(n, r, i).value # NULL /\ Element(n, r, i).value = a
    BY DEF TextsOf
  <2> QED  BY <1>1, <1>2, <2>1, <2>2
<1>4. n[r].scalar = Text(a) <=> Held(n, r) = Text(a)
  BY <1>1, TextIs DEF Held
<1>5. ASSUME NEW p \in Position, p \notin DOMAIN n, p # <<>>, Front(p) = r, Held(n, p) = Text(a)
      PROVE  \E i \in 0 .. l - 1 : CellAt(n[r], i) = Text(a)
  <2>1. Last(p) \in Nat
    BY <1>5, FrontLast
  <2> PICK i : i = Last(p)
    OBVIOUS
  <2>2. IsCell(CellAt(n[r], i)) /\ Held(n, p) = Plain(CellAt(n[r], i))
    BY <1>1, <1>5, <2>1 DEF Held, IsMatrix
  <2>3. CellAt(n[r], i) = Text(a) /\ a # NULL
    BY <1>5, <2>2, TextIs
  <2>4. Get(n[r].vector, i, NULL) = a
    BY <2>3, CellIs DEF CellAt, Text
  <2>5. i < l
    BY <2>3, <2>4 DEF Get
  <2>6. i \in 0 .. l - 1
    BY <1>1, <2>1, <2>5
  <2> QED  BY <2>3, <2>6
<1>6. ASSUME NEW i \in 0 .. l - 1, CellAt(n[r], i) = Text(a)
      PROVE  \E p \in Position : Held(n, p) = Text(a) /\ p \notin DOMAIN n /\ p # <<>> /\ Front(p) = r
  <2>1. i \in Nat
    BY <1>1
  <2> PICK p : p = Append(r, i)
    OBVIOUS
  <2>2. p \in Position /\ p # <<>> /\ Front(p) = r /\ Last(p) = i
    BY <1>1, <2>1, AppendIs
  <2>3. CellAt(n[r], i).format = "STRING"
    BY <1>6, CellIs DEF Text
  <2>4. p \notin DOMAIN n
    BY <2>1, <2>3 DEF IsTree
  <2>5. Held(n, p) = Plain(CellAt(n[r], i))
    BY <2>2, <2>4 DEF Held
  <2>6. Held(n, p) = Text(a)
    BY <1>2, <1>6, <2>5, TextIs
  <2> QED  BY <2>2, <2>4, <2>6
<1> QED  BY <1>1, <1>3, <1>4, <1>5, <1>6 DEF IsAt

Fields(M, d, u, z) == [M EXCEPT !.DataFormat.data = d, !.vector = u, !.scalar = z]

LEMMA FieldsReplaced ==
    ASSUME NEW v, NEW s, NEW x, NEW l, NEW d, NEW u, NEW z,
           NEW M, M = [vector |-> v, DataFormat |-> [data |-> x, Length |-> l], scalar |-> s]
    PROVE  Fields(M, d, u, z) = MatrixOf(u, [data |-> d, Length |-> l], z)
<1>1. PICK A, B : A = [M EXCEPT !.DataFormat.data = d] /\ B = [A EXCEPT !.vector = u]
  OBVIOUS
<1>2. A = [vector |-> v, DataFormat |-> [data |-> d, Length |-> l], scalar |-> s]
  <2>1. A = [M EXCEPT !.DataFormat = [M.DataFormat EXCEPT !.data = d]]
    BY <1>1
  <2>2. [M.DataFormat EXCEPT !.data = d] = [data |-> d, Length |-> l]
    OBVIOUS
  <2>3. A = [M EXCEPT !.DataFormat = [data |-> d, Length |-> l]]
    BY <2>1, <2>2
  <2> QED  BY <2>3
<1>3. B = [vector |-> u, DataFormat |-> [data |-> d, Length |-> l], scalar |-> s]
  BY <1>1, <1>2
<1>4. [B EXCEPT !.scalar = z] = MatrixOf(u, [data |-> d, Length |-> l], z)
  BY <1>3 DEF MatrixOf
<1>5. Fields(M, d, u, z) = [B EXCEPT !.scalar = z]
  BY <1>1 DEF Fields
<1> QED  BY <1>4, <1>5

\* clearMatrix(): no element has a value and no text stays in the scalar.
LEMMA EmptyIs ==
    ASSUME NEW n, NEW q, IsMatrix(n[q]), NEW E, E = Empty(n, q)
    PROVE  /\ IsMatrix(E) /\ (\A j \in Nat : Plain(CellAt(E, j)) = None /\ CellAt(E, j).format # "MATRIX")
           /\ E.scalar = IF n[q].scalar.format = "STRING" THEN None ELSE n[q].scalar
<1>0. PICK M, v, f, s : M = n[q] /\ v = M.vector /\ f = M.DataFormat /\ s = M.scalar
  OBVIOUS
<1>1. /\ M = [vector |-> v, DataFormat |-> f, scalar |-> s] /\ IsMatrix(M)
      /\ f = [data |-> f.data, Length |-> f.Length] /\ f.data \in Seq(Formats)
  BY <1>0 DEF IsMatrix, MatrixOf, IsVector
<1>2. PICK d : d = [i \in DOMAIN f.data |-> IF i <= v.Length /\ f.data[i] \in {"STRING", "MATRIX"}
                                            THEN "NONE" ELSE f.data[i]]
  OBVIOUS
<1>3. PICK g, u, z : /\ g = [data |-> d, Length |-> f.Length]
                     /\ u = SetLength(v, 0, NULL)
                     /\ z = IF s.format \in {"STRING", "MATRIX"} THEN None ELSE s
  OBVIOUS
<1>4. E.vector = u /\ E.DataFormat = g /\ E.scalar = z /\ E = MatrixOf(u, g, z)
  <2>1. E = Fields(M, d, u, z)
    BY <1>0, <1>1, <1>2, <1>3 DEF Empty, None, Fields
  <2>2. M = [vector |-> v, DataFormat |-> [data |-> f.data, Length |-> f.Length], scalar |-> s]
    BY <1>1
  <2>3. E = MatrixOf(u, g, z)
    <3>1. Fields(M, d, u, z) = MatrixOf(u, [data |-> d, Length |-> f.Length], z)
      BY <2>2, FieldsReplaced
    <3> QED  BY <1>3, <2>1, <3>1
  <2> QED  BY <2>3, MatrixOfIs
<1>5. IsVector(u, Vals, NULL) /\ u.Length = 0 /\ \A j \in Nat : Get(u, j, NULL) = NULL
  <2>1. IsVector(v, Vals, NULL) /\ NULL \in Vals
    BY <1>0, <1>1 DEF IsMatrix, Vals, NULL
  <2> QED  BY <1>3, <2>1, EmptiedIs
<1> PICK l : l = Len(f.data)
  OBVIOUS
<1>6. /\ IsVector(f, Formats, "NONE") /\ f.Length \in 0 .. l /\ l \in Nat /\ DOMAIN f.data = 1 .. l
      /\ v.Length \in Nat /\ \A j \in f.Length + 1 .. l : f.data[j] = "NONE"
  BY <1>0, <1>1 DEF IsMatrix, IsVector
<1>7. /\ d \in Seq(Formats) /\ Len(d) = l
      /\ \A i \in 1 .. l : d[i] = IF i <= v.Length /\ f.data[i] \in {"STRING", "MATRIX"} THEN "NONE" ELSE f.data[i]
  <2>1. \A i \in 1 .. l : (IF i <= v.Length /\ f.data[i] \in {"STRING", "MATRIX"} THEN "NONE" ELSE f.data[i]) \in Formats
    BY <1>1, <1>6 DEF Formats
  <2>2. d = [i \in 1 .. l |-> IF i <= v.Length /\ f.data[i] \in {"STRING", "MATRIX"} THEN "NONE" ELSE f.data[i]]
    BY <1>2, <1>6
  <2>3. \A i \in 1 .. l : d[i] \in Formats
    BY <2>1, <2>2
  <2>4. d = [i \in 1 .. l |-> d[i]]
    BY <2>2
  <2> QED  BY <1>6, <2>2, <2>3, <2>4
<1>8. g.data = d /\ g.Length = f.Length /\ g = [data |-> g.data, Length |-> g.Length]
  BY <1>3
<1>9. IsVector(g, Formats, "NONE")
  <2>1. \A j \in f.Length + 1 .. l : d[j] = "NONE"
    BY <1>6, <1>7
  <2> QED  BY <1>6, <1>7, <1>8, <2>1 DEF IsVector
<1>10. ASSUME NEW j \in Nat
       PROVE  Get(g, j, "NONE") \notin {"STRING", "MATRIX"} /\ Get(g, j, "NONE") \in Formats
  <2>1. CASE j >= f.Length
    BY <1>6, <1>8, <2>1 DEF Get, Formats
  <2>2. CASE j < f.Length
    <3>1. j + 1 \in 1 .. l /\ Get(g, j, "NONE") = d[j + 1] /\ Get(f, j, "NONE") = f.data[j + 1]
      BY <1>6, <1>8, <2>2 DEF Get
    <3>2. CASE j + 1 <= v.Length
      BY <1>1, <1>6, <1>7, <3>1, <3>2 DEF Formats
    <3>3. CASE ~(j + 1 <= v.Length)
      <4>1. Get(v, j, NULL) = NULL /\ CellAt(M, j).value = NULL /\ CellAt(M, j).format = f.data[j + 1]
        BY <1>0, <1>6, <3>1, <3>3, CellIs DEF Get, CellAt
      <4>2. IsCell(CellAt(M, j)) /\ (CellAt(M, j).format = "MATRIX" => j < v.Length)
        BY <1>0, <1>1 DEF IsMatrix
      <4>3. f.data[j + 1] \notin {"STRING", "MATRIX"}
        BY <1>6, <3>3, <4>1, <4>2, MatrixAssumption DEF IsCell, NULL
      <4> QED  BY <1>1, <1>7, <3>1, <4>3
    <3> QED  BY <3>2, <3>3
  <2> QED  BY <1>6, <2>1, <2>2
<1>11. ASSUME NEW j \in Nat
       PROVE  IsCell(CellAt(E, j)) /\ Plain(CellAt(E, j)) = None /\ CellAt(E, j).format # "MATRIX"
  <2>1. CellAt(E, j) = Cell(NULL, Get(g, j, "NONE"))
    BY <1>4, <1>5 DEF CellAt
  <2> QED  BY <1>10, <2>1, CellIs DEF IsCell, Plain, Vals, NULL
<1>12. z = (IF s.format = "STRING" THEN None ELSE s) /\ IsCell(z) /\ z.format # "MATRIX"
  BY <1>0, <1>1, <1>3, NoneIs DEF IsMatrix
<1>13. IsMatrix(E)
  BY <1>4, <1>5, <1>6, <1>8, <1>9, <1>11, <1>12 DEF IsMatrix
<1> QED  BY <1>0, <1>4, <1>11, <1>12, <1>13

\* Where there is no value any more when the level q was cleared.
Gone(n, q, p) == Under(q, p) \/ (p = q /\ Held(n, q).format = "STRING")

LEMMA HeldSomewhere ==
    ASSUME NEW n, IsTree(n), NEW p \in Position, NEW a, Held(n, p) = Text(a), p \notin DOMAIN n
    PROVE  p # <<>> /\ Front(p) \in DOMAIN n
<1>1. p # <<>>
  BY DEF IsTree
<1>2. Text(a) # None
  BY CellIs, NoneIs DEF Text
<1> QED  BY <1>1, <1>2, NoneIs DEF Held

LEMMA PrefixedAre ==
    ASSUME NEW n, NEW q, NEW r
    PROVE  r \in Prefixed(n, q) <=> r \in DOMAIN n /\ Under(q, r)
  BY DEF Prefixed, Under

LEMMA ReleasedAre ==
    ASSUME NEW n, IsTree(n), NEW q \in DOMAIN n, NEW a
    PROVE  a \in UNION {TextsOf(n, r) : r \in Prefixed(n, q) \cup {q}}
             <=> \E p \in Position : (p = q \/ Under(q, p)) /\ Held(n, p) = Text(a)
<1>1. q \in Position /\ DOMAIN n \subseteq Position
  BY DEF IsTree
<1>2. a \in UNION {TextsOf(n, r) : r \in Prefixed(n, q) \cup {q}}
        <=> \E r \in DOMAIN n : (r = q \/ Under(q, r)) /\ a \in TextsOf(n, r)
  BY PrefixedAre
<1>3. ASSUME NEW r \in DOMAIN n, r = q \/ Under(q, r), a \in TextsOf(n, r)
      PROVE  \E p \in Position : (p = q \/ Under(q, p)) /\ Held(n, p) = Text(a)
  <2>1. PICK p \in Position : Held(n, p) = Text(a) /\ IsAt(n, p, r)
    BY <1>3, TextsAre
  <2>2. CASE p = r
    BY <1>3, <2>1, <2>2
  <2>3. CASE p # <<>> /\ Front(p) = r
    <3>1. Last(p) \in Nat /\ p = Append(r, Last(p))
      BY <2>3, FrontLast
    <3>2. Under(q, p)
      BY <1>1, <1>3, <3>1, UnderIs
    <3> QED  BY <2>1, <3>2
  <2> QED  BY <2>1, <2>2, <2>3 DEF IsAt
<1>4. ASSUME NEW p \in Position, p = q \/ Under(q, p), Held(n, p) = Text(a)
      PROVE  \E r \in DOMAIN n : (r = q \/ Under(q, r)) /\ a \in TextsOf(n, r)
  <2>1. CASE p \in DOMAIN n
    <3>1. a \in TextsOf(n, p)
      BY <1>4, <2>1, TextsAre DEF IsAt
    <3> QED  BY <1>4, <2>1, <3>1
  <2>2. CASE p \notin DOMAIN n
    <3>1. p # <<>> /\ Front(p) \in DOMAIN n
      BY <1>4, <2>2, HeldSomewhere
    <3>2. Last(p) \in Nat /\ p = Append(Front(p), Last(p)) /\ Front(p) \in Position
      BY <3>1, FrontLast
    <3>3. Front(p) = q \/ Under(q, Front(p))
      BY <1>1, <1>4, <2>2, <3>2, UnderIs
    <3>4. IsAt(n, p, Front(p))
      BY <2>2, <3>1 DEF IsAt
    <3>5. a \in TextsOf(n, Front(p))
      BY <1>4, <3>1, <3>4, TextsAre
    <3> QED  BY <3>1, <3>3, <3>5
  <2> QED  BY <2>1, <2>2
<1> QED  BY <1>2, <1>3, <1>4

\* clearMatrix() takes the values below a level and the text in its scalar away,
\* and releases their texts and no other.
LEMMA ClearIs ==
    ASSUME NEW n, IsTree(n), NEW q \in DOMAIN n, NEW m, NEW w, w = Clear(n, m, q)
    PROVE  /\ IsTree(w.node)
           /\ \A p \in Position : Held(w.node, p) = IF Gone(n, q, p) THEN None ELSE Held(n, p)
           /\ w.memory = [a \in DOMAIN m |->
                            IF \E p \in Position : (p = q \/ Under(q, p)) /\ Held(n, p) = Text(a) THEN Free ELSE m[a]]
<1>0. PICK t, E : t = w.node /\ E = Empty(n, q)
  OBVIOUS
<1>1. /\ IsMatrix(E) /\ (\A j \in Nat : Plain(CellAt(E, j)) = None /\ CellAt(E, j).format # "MATRIX")
      /\ E.scalar = IF n[q].scalar.format = "STRING" THEN None ELSE n[q].scalar
  BY <1>0, EmptyIs DEF IsTree
<1>2. DOMAIN n \subseteq Position /\ q \in Position /\ <<>> \in DOMAIN n
  BY DEF IsTree
<1>3. /\ t = [r \in DOMAIN t |-> t[r]] /\ t[q] = E
      /\ \A r : r \in DOMAIN t <=> r \in DOMAIN n /\ ~Under(q, r)
      /\ \A r \in DOMAIN t : r # q => t[r] = n[r]
  <2>1. t = [r \in DOMAIN n \ Prefixed(n, q) |-> IF r = q THEN E ELSE n[r]]
    BY <1>0 DEF Clear
  <2>2. q \notin Prefixed(n, q)
    BY <1>2, NotUnder, PrefixedAre
  <2> QED  BY <2>1, <2>2, PrefixedAre
<1>4. \A p \in Position : p # <<>> => (Under(q, p) <=> Front(p) = q \/ Under(q, Front(p)))
  <2> SUFFICES ASSUME NEW p \in Position, p # <<>>
               PROVE  Under(q, p) <=> Front(p) = q \/ Under(q, Front(p))
    OBVIOUS
  <2>1. Last(p) \in Nat /\ p = Append(Front(p), Last(p)) /\ Front(p) \in Position
    BY FrontLast
  <2> QED  BY <1>2, <2>1, UnderIs
<1>5. ~Under(q, <<>>) /\ ~Under(q, q)
  BY <1>2, NotUnder
<1>6. IsTree(t)
  <2>1. \A r \in DOMAIN t : IsMatrix(t[r])
    BY <1>1, <1>3 DEF IsTree
  <2>2. ASSUME NEW r \in DOMAIN t, NEW i \in Nat
        PROVE  CellAt(t[r], i).format = "MATRIX" <=> Append(r, i) \in DOMAIN t
    <3>1. r \in Position /\ r \in DOMAIN n /\ ~Under(q, r)
      BY <1>2, <1>3
    <3>2. Under(q, Append(r, i)) <=> r = q \/ Under(q, r)
      BY <1>2, <3>1, UnderIs
    <3>3. CASE r = q
      BY <1>1, <1>3, <3>2, <3>3
    <3>4. CASE r # q
      <4>1. CellAt(n[r], i).format = "MATRIX" <=> Append(r, i) \in DOMAIN n
        BY <3>1 DEF IsTree
      <4> QED  BY <1>3, <3>1, <3>2, <3>4, <4>1
    <3> QED  BY <3>3, <3>4
  <2>3. \A p \in DOMAIN t : p # <<>> => Front(p) \in DOMAIN t
    BY <1>2, <1>3, <1>4 DEF IsTree
  <2> QED  BY <1>2, <1>3, <1>5, <2>1, <2>2, <2>3 DEF IsTree
<1>7. ASSUME NEW p \in Position
      PROVE  Held(t, p) = IF Gone(n, q, p) THEN None ELSE Held(n, p)
  <2>1. CASE Under(q, p)
    <3>1. p \notin DOMAIN t /\ p # <<>> /\ Last(p) \in Nat
      BY <1>3, <1>5, <2>1, FrontLast
    <3>2. Front(p) = q \/ Front(p) \notin DOMAIN t
      BY <1>3, <1>4, <2>1, <3>1
    <3>3. Held(t, p) = None
      BY <1>1, <1>3, <3>1, <3>2, NoneIs DEF Held
    <3> QED  BY <2>1, <3>3 DEF Gone
  <2>2. CASE p = q
    <3>1. IsCell(n[q].scalar) /\ q \in DOMAIN t
      BY <1>3, <1>5 DEF IsTree, IsMatrix
    <3>2. Held(n, q) = Plain(n[q].scalar) /\ Held(t, q) = Plain(E.scalar)
      BY <1>3, <3>1 DEF Held
    <3>3. Held(n, q).format = "STRING" <=> n[q].scalar.format = "STRING"
      <4>1. Plain(n[q].scalar) = n[q].scalar \/ Plain(n[q].scalar) = None
        BY DEF Plain
      <4> QED  BY <3>1, <3>2, <4>1, PlainIs, NoneIs
    <3> QED  BY <1>1, <1>5, <2>2, <3>2, <3>3, NoneIs DEF Gone
  <2>3. CASE ~Under(q, p) /\ p # q
    <3>1. p \in DOMAIN t <=> p \in DOMAIN n
      BY <1>3, <2>3
    <3>2. CASE p \in DOMAIN n
      <4>1. t[p] = n[p]
        BY <1>3, <2>3, <3>1, <3>2
      <4> QED  BY <2>3, <3>1, <3>2, <4>1 DEF Held, Gone
    <3>3. CASE p \notin DOMAIN n
      <4>1. p # <<>>
        BY <1>2, <3>3
      <4>2. Front(p) # q /\ ~Under(q, Front(p))
        BY <1>4, <2>3, <4>1
      <4>3. (Front(p) \in DOMAIN t <=> Front(p) \in DOMAIN n) /\ (Front(p) \in DOMAIN t => t[Front(p)] = n[Front(p)])
        BY <1>3, <4>2
      <4> QED  BY <2>3, <3>1, <3>3, <4>3 DEF Held, Gone
    <3> QED  BY <3>2, <3>3
  <2> QED  BY <2>1, <2>2, <2>3
<1>8. w.memory = [a \in DOMAIN m |->
                    IF \E p \in Position : (p = q \/ Under(q, p)) /\ Held(n, p) = Text(a) THEN Free ELSE m[a]]
  <2>1. w.memory = [a \in DOMAIN m |-> IF a \in UNION {TextsOf(n, r) : r \in Prefixed(n, q) \cup {q}} THEN Free ELSE m[a]]
    BY DEF Clear
  <2> QED  BY <2>1, ReleasedAre
<1> QED  BY <1>0, <1>6, <1>7, <1>8

-----------------------------------------------------------------------------
(* Whose the texts are *)

Texture == [Memory -> Texts \cup {Free}]

\* Every text that a position has is in memory, and no other position has it.
Owned(n, m) ==
    \A p \in Position : Held(n, p).format = "STRING" =>
        m[Held(n, p).value] \in Texts /\ \A r \in Position : Held(n, r) = Held(n, p) => r = p

LEMMA OwnedText ==
    ASSUME NEW n, IsTree(n), NEW m, Owned(n, m), NEW p \in Position, NEW a, Held(n, p) = Text(a)
    PROVE  a \in Memory /\ m[a] \in Texts /\ \A r \in Position : Held(n, r) = Text(a) => r = p
<1>1. Held(n, p).format = "STRING" /\ Held(n, p).value = a
  BY CellIs DEF Text
<1>2. IsCell(Held(n, p))
  BY HeldIsCell
<1> QED  BY <1>1, <1>2 DEF Owned, IsCell

LEMMA OwnedIs ==
    ASSUME NEW n, IsTree(n), NEW m,
           \A p \in Position : \A a \in Memory : Held(n, p) = Text(a) =>
              m[a] \in Texts /\ \A r \in Position : Held(n, r) = Text(a) => r = p
    PROVE  Owned(n, m)
<1> SUFFICES ASSUME NEW p \in Position, Held(n, p).format = "STRING"
             PROVE  m[Held(n, p).value] \in Texts /\ \A r \in Position : Held(n, r) = Held(n, p) => r = p
  BY DEF Owned
<1>1. IsCell(Held(n, p))
  BY HeldIsCell
<1>2. Held(n, p) = Text(Held(n, p).value) /\ Held(n, p).value \in Memory
  BY <1>1, TextIs DEF IsCell
<1> PICK a : a = Held(n, p).value
  OBVIOUS
<1> QED  BY <1>2

LEMMA OwnedLater ==
    ASSUME NEW n, NEW t, Grown(n, t), NEW m, Owned(n, m)
    PROVE  Owned(t, m)
  BY DEF Owned, Grown

LEMMA ContentIs ==
    ASSUME NEW c, NEW m
    PROVE  Content(Plain(c), m) = Content(c, m) /\ Content(None, m) = Nothing
<1>1. Content(None, m) = Nothing
  BY NoneIs DEF Content
<1>2. c.value = NULL => Content(c, m) = Nothing
  BY DEF Content, NULL
<1> QED  BY <1>1, <1>2 DEF Plain

\* What the texts that positions have look like stays, wherever no text of a
\* position is released.
LEMMA SameContent ==
    ASSUME NEW c, IsCell(c), NEW m, NEW w, c.format = "STRING" => w[c.value] = m[c.value]
    PROVE  Content(c, w) = Content(c, m)
  BY DEF Content

\* The value c is stored at a position: its text was put where there was none,
\* and the text that was there before is released.
LEMMA StoreIs ==
    ASSUME NEW n, IsTree(n), NEW m \in Texture, Owned(n, m), NEW index \in Position,
           NEW c, IsCell(c), c.format # "MATRIX",
           NEW k \in Texture, \A a \in Memory : m[a] # Free => k[a] = m[a],
           c.format = "STRING" => m[c.value] = Free /\ k[c.value] \in Texts,
           NEW u, IsTree(u), \A p \in Position : Held(u, p) = IF p = index THEN Plain(c) ELSE Held(n, p),
           NEW w, Released(k, w, Held(n, index))
    PROVE  /\ Owned(u, w) /\ w \in Texture
           /\ \A p \in Position : Content(Held(u, p), w) = IF p = index THEN Content(c, k) ELSE Content(Held(n, p), m)
<1> PICK h : h = Held(n, index)
  OBVIOUS
<1>1. IsCell(h)
  BY HeldIsCell
<1>2. h.format = "STRING" => h = Text(h.value) /\ h.value \in Memory
  BY <1>1, TextIs DEF IsCell
<1>3. w \in Texture /\ \A a \in Memory : ~(h.format = "STRING" /\ a = h.value) => w[a] = k[a]
  BY <1>2 DEF Released, Texture
<1>4. ASSUME NEW p \in Position, p # index, NEW a \in Memory, Held(n, p) = Text(a)
      PROVE  m[a] \in Texts /\ m[a] # Free /\ w[a] = m[a]
  <2>1. m[a] \in Texts
    BY <1>4, OwnedText
  <2>2. m[a] # Free
    BY <2>1, MatrixAssumption
  <2>3. ~(h.format = "STRING" /\ a = h.value)
    <3> SUFFICES ASSUME h.format = "STRING", a = h.value
                 PROVE  FALSE
      OBVIOUS
    <3>1. Held(n, index) = Text(a)
      BY <1>2
    <3> QED  BY <1>4, <3>1, OwnedText
  <2> QED  BY <1>3, <2>1, <2>2, <2>3
<1>5. ASSUME NEW a \in Memory, c = Text(a)
      PROVE  /\ c.format = "STRING" /\ w[a] = k[a] /\ k[a] \in Texts
             /\ \A r \in Position : Held(n, r) # Text(a)
  <2>1. c.format = "STRING" /\ c.value = a
    BY <1>5, CellIs DEF Text
  <2>2. m[a] = Free
    BY <2>1
  <2>3. \A r \in Position : Held(n, r) # Text(a)
    BY <2>2, OwnedText, MatrixAssumption
  <2>4. ~(h.format = "STRING" /\ a = h.value)
    BY <1>2, <2>3
  <2> QED  BY <1>3, <2>1, <2>3, <2>4
<1>6. Owned(u, w)
  <2> SUFFICES ASSUME NEW p \in Position, NEW a \in Memory, Held(u, p) = Text(a)
               PROVE  w[a] \in Texts /\ \A r \in Position : Held(u, r) = Text(a) => r = p
    BY OwnedIs
  <2>1. CASE p = index
    <3>1. c = Text(a)
      BY <2>1, TextIs
    <3> QED  BY <1>5, <2>1, <3>1
  <2>2. CASE p # index
    <3>1. Held(n, p) = Text(a)
      BY <2>2
    <3>2. Plain(c) # Text(a)
      <4>1. c # Text(a)
        BY <1>5, <3>1
      <4> QED  BY <4>1, TextIs
    <3>3. \A r \in Position : Held(n, r) = Text(a) => r = p
      BY <3>1, OwnedText
    <3> QED  BY <1>4, <2>2, <3>1, <3>2, <3>3
  <2> QED  BY <2>1, <2>2
<1>7. ASSUME NEW p \in Position
      PROVE  Content(Held(u, p), w) = IF p = index THEN Content(c, k) ELSE Content(Held(n, p), m)
  <2>1. CASE p = index
    <3>1. c.format = "STRING" => w[c.value] = k[c.value]
      <4>1. c.format = "STRING" => c = Text(c.value) /\ c.value \in Memory
        BY TextIs DEF IsCell
      <4> QED  BY <1>5, <4>1
    <3>2. Content(c, w) = Content(c, k)
      BY <3>1, SameContent
    <3> QED  BY <2>1, <3>2, ContentIs
  <2>2. CASE p # index
    <3> PICK d : d = Held(n, p)
      OBVIOUS
    <3>1. IsCell(d) /\ Held(u, p) = d
      BY <2>2, HeldIsCell
    <3>2. d.format = "STRING" => w[d.value] = m[d.value]
      <4>1. d.format = "STRING" => d = Text(d.value) /\ d.value \in Memory
        BY <3>1, TextIs DEF IsCell
      <4> QED  BY <1>4, <2>2, <4>1
    <3> QED  BY <2>2, <3>1, <3>2, SameContent
  <2> QED  BY <2>1, <2>2
<1> QED  BY <1>3, <1>6, <1>7

\* What is read at a position is the cell that holds its value.
LEMMA ReadAtIs ==
    ASSUME NEW n, IsTree(n), NEW m, NEW index \in Position
    PROVE  ReadAt(n, m, index) = Content(Held(n, index), m)
<1> PICK q, i : q = Front(index) /\ i = Last(index)
  OBVIOUS
<1>1. CASE index \in DOMAIN n
  <2>1. ReadAt(n, m, index) = Content(n[index].scalar, m)
    BY <1>1 DEF ReadAt
  <2> QED  BY <1>1, <2>1, ContentIs DEF Held
<1>2. CASE index \notin DOMAIN n /\ q \in DOMAIN n
  <2>1. i \in Nat /\ IsMatrix(n[q])
    BY <1>2, FrontLast DEF IsTree
  <2>2. Held(n, index) = Plain(CellAt(n[q], i))
    BY <1>2 DEF Held
  <2>3. CASE i < n[q].vector.Length
    <3>1. ReadAt(n, m, index) = Content(Element(n, q, i), m)
      BY <1>2, <2>3 DEF ReadAt
    <3> QED  BY <2>1, <2>2, <2>3, <3>1, ElementIs, ContentIs
  <2>4. CASE ~(i < n[q].vector.Length)
    <3>1. ReadAt(n, m, index) = Content(None, m)
      BY <1>2, <2>4 DEF ReadAt, None
    <3>2. CellAt(n[q], i).value = NULL
      BY <2>4, CellIs DEF CellAt, Get
    <3> QED  BY <2>2, <3>1, <3>2, ContentIs DEF Plain
  <2> QED  BY <2>3, <2>4
<1>3. CASE index \notin DOMAIN n /\ q \notin DOMAIN n
  <2>1. ReadAt(n, m, index) = Content(None, m)
    BY <1>3 DEF ReadAt, None
  <2> QED  BY <1>3, <2>1, NoneIs DEF Held
<1> QED  BY <1>1, <1>2, <1>3

LEMMA IndexIsPosition == Indices \subseteq Position /\ <<>> \in Indices
<1>1. 0 .. MaxIndex \subseteq Nat /\ Indices \subseteq Seq(0 .. MaxIndex) /\ <<>> \in Indices
  BY MatrixAssumption
<1> QED  BY <1>1, SeqMonotonic DEF Position

MatrixInv == IsTree(node) /\ memory \in Texture /\ Owned(node, memory) /\ Index \in Indices

\* The values are the same but for the one at index.
IsStored(index, v, n, m) ==
    /\ IsTree(n) /\ m \in Texture /\ Owned(n, m)
    /\ \A p \in Position : Content(Held(n, p), m) = IF p = index THEN v ELSE Content(Held(node, p), memory)

LEMMA LevelFound ==
    ASSUME NEW n, IsTree(n), NEW index \in Position, NEW isCreateNextLevel,
           NEW w, w = BeforeLastLevel(n, index, isCreateNextLevel)
    PROVE  w.found /\ index # <<>> => w.at = Front(index)
  BY BeforeLastLevelIs

\* Writing finds the level above the position, made if need be.
LEMMA LevelCreated ==
    ASSUME NEW n, IsTree(n), NEW index \in Position, NEW t, t = BeforeLastLevel(n, index, TRUE).node
    PROVE  Grown(n, t) /\ (index # <<>> => Front(index) \in DOMAIN t)
<1>0. PICK w : w = BeforeLastLevel(n, index, TRUE)
  OBVIOUS
<1>1. Grown(n, w.node)
  BY <1>0, BeforeLastLevelIs, Zenon
<1>3. w.at \in DOMAIN w.node
  BY <1>0, BeforeLastLevelIs, Zenon
<1>4. w.found /\ index # <<>> => w.at = Front(index)
  BY <1>0, LevelFound, Zenon
<1>2. TRUE => w.found
  BY <1>0, BeforeLastLevelIs, Zenon
<1> QED  BY <1>0, <1>1, <1>2, <1>3, <1>4

LEMMA WrittenIs ==
    ASSUME MatrixInv, NEW index \in Position, NEW v \in Numbers \cup Texts, HasRoom(v)
    PROVE  IsStored(index, v, Written(index, v).node, Written(index, v).memory)
<1>a. PICK room, n : room = (CHOOSE a \in Memory : memory[a] = Free) /\ n = BeforeLastLevel(node, index, TRUE).node
  OBVIOUS
<1>0. PICK k, c : /\ k = IF v \in Texts THEN [memory EXCEPT ![room] = v] ELSE memory
                  /\ c = IF v \in Texts THEN Cell(room, "STRING") ELSE Cell(v, "NUMBER")
  OBVIOUS
<1>b. PICK w : w = SetValue(n, k, index, c)
  OBVIOUS
<1>1. w = Written(index, v)
  BY <1>a, <1>0, <1>b DEF Written
<1>2. IsTree(node) /\ memory \in Texture /\ Owned(node, memory)
  BY DEF MatrixInv
<1>3. Grown(node, n) /\ (index # <<>> => Front(index) \in DOMAIN n)
  BY <1>a, <1>2, LevelCreated
<1>4. v \in Texts => room \in Memory /\ memory[room] = Free
  BY <1>a DEF HasRoom
<1>5. IsCell(c) /\ c.format # "MATRIX" /\ (c.format = "STRING" => v \in Texts /\ c.value = room)
  <2>1. CASE v \in Texts
    BY <1>0, <1>4, <2>1, CellIs DEF IsCell, Vals, Formats
  <2>2. CASE v \notin Texts
    <3>1. v \in Nat /\ c = Cell(v, "NUMBER")
      BY <1>0, <2>2, MatrixAssumption
    <3> QED  BY <3>1, CellIs DEF IsCell, Vals, Formats
  <2> QED  BY <2>1, <2>2
<1>6. /\ k \in Texture /\ \A a \in Memory : memory[a] # Free => k[a] = memory[a]
      /\ c.format = "STRING" => memory[c.value] = Free /\ k[c.value] \in Texts
  <2>1. CASE v \in Texts
    BY <1>0, <1>2, <1>4, <1>5, <2>1 DEF Texture
  <2>2. CASE v \notin Texts
    BY <1>0, <1>2, <1>5, <2>2
  <2> QED  BY <2>1, <2>2
<1>7. Content(c, k) = v
  <2>1. CASE v \in Texts
    <3>1. c.format = "STRING" /\ c.value = room /\ room # NULL /\ k[room] = v
      BY <1>0, <1>2, <1>4, <2>1, CellIs, MatrixAssumption DEF Texture, NULL
    <3> QED  BY <3>1 DEF Content
  <2>2. CASE v \notin Texts
    <3>1. c.format = "NUMBER" /\ c.value = v /\ v # 0
      BY <1>0, <2>2, CellIs, MatrixAssumption
    <3> QED  BY <3>1 DEF Content
  <2> QED  BY <2>1, <2>2
<1>8. /\ IsTree(w.node) /\ (\A p \in Position : Held(w.node, p) = IF p = index THEN Plain(c) ELSE Held(n, p))
      /\ Released(k, w.memory, Held(n, index))
  <2>1. IsTree(n) /\ (index # <<>> => Front(index) \in DOMAIN n)
    BY <1>3 DEF Grown
  <2>2. IsCell(c) /\ c.format # "MATRIX"
    BY <1>5
  <2> QED  BY <1>b, <2>1, <2>2, SetValueIs
<1>9. \A p \in Position : Held(n, p) = Held(node, p)
  BY <1>3 DEF Grown
<1>10. /\ Owned(w.node, w.memory) /\ w.memory \in Texture
       /\ \A p \in Position : Content(Held(w.node, p), w.memory) = IF p = index THEN Content(c, k) ELSE Content(Held(node, p), memory)
  <2>1. \A p \in Position : Held(w.node, p) = IF p = index THEN Plain(c) ELSE Held(node, p)
    BY <1>8, <1>9
  <2>2. Released(k, w.memory, Held(node, index))
    BY <1>8, <1>9
  <2> HIDE <1>8, <1>9
  <2>3. IsTree(w.node)
    BY <1>8
  <2> QED  BY <1>2, <1>5, <1>6, <2>1, <2>2, <2>3, StoreIs
<1> QED  BY <1>1, <1>7, <1>8, <1>10 DEF IsStored

\* What a read leaves behind has the values of before.
IsRead(n, m) ==
    /\ IsTree(n) /\ m \in Texture /\ Owned(n, m)
    /\ \A p \in Position : Content(Held(n, p), m) = Content(Held(node, p), memory)

LEMMA GrownIsRead ==
    ASSUME MatrixInv, NEW n, Grown(node, n)
    PROVE  IsRead(n, memory)
<1>1. IsTree(n) /\ \A p \in Position : Held(n, p) = Held(node, p)
  BY DEF Grown
<1>2. Owned(n, memory)
  BY OwnedLater DEF MatrixInv
<1> QED  BY <1>1, <1>2 DEF MatrixInv, IsRead

\* The values below q are gone, and the text that q itself had.
IsCleared(q, n, m) ==
    /\ IsTree(n) /\ m \in Texture /\ Owned(n, m)
    /\ \E all \in BOOLEAN : \A p \in Position :
          Content(Held(n, p), m) = IF Under(q, p) \/ (p = q /\ all) THEN Nothing ELSE Content(Held(node, p), memory)

LEMMA ClearedIs ==
    ASSUME MatrixInv, NEW n, Grown(node, n), NEW q \in DOMAIN n, NEW w, w = Clear(n, memory, q)
    PROVE  IsCleared(q, w.node, w.memory)
<1>1. IsTree(n) /\ \A p \in Position : Held(n, p) = Held(node, p)
  BY DEF Grown
<1>2. Owned(n, memory) /\ memory \in Texture
  BY OwnedLater DEF MatrixInv
<1>3. /\ IsTree(w.node)
      /\ \A p \in Position : Held(w.node, p) = IF Gone(n, q, p) THEN None ELSE Held(n, p)
      /\ w.memory = [a \in DOMAIN memory |->
                       IF \E p \in Position : (p = q \/ Under(q, p)) /\ Held(n, p) = Text(a) THEN Free ELSE memory[a]]
  BY <1>1, ClearIs
<1>4. w.memory \in Texture
  BY <1>2, <1>3 DEF Texture
<1>5. ASSUME NEW p \in Position, NEW a \in Memory, Held(n, p) = Text(a), ~Gone(n, q, p)
      PROVE  w.memory[a] = memory[a] /\ memory[a] \in Texts
  <2>1. memory[a] \in Texts /\ \A r \in Position : Held(n, r) = Text(a) => r = p
    BY <1>1, <1>2, <1>5, OwnedText
  <2>2. Text(a).format = "STRING"
    BY CellIs DEF Text
  <2>3. ~(p = q \/ Under(q, p))
    BY <1>5, <2>2 DEF Gone
  <2>4. ~ \E r \in Position : (r = q \/ Under(q, r)) /\ Held(n, r) = Text(a)
    BY <2>1, <2>3
  <2>5. a \in DOMAIN memory
    BY <1>2 DEF Texture
  <2> QED  BY <1>3, <2>1, <2>4, <2>5
<1>6. Owned(w.node, w.memory)
  <2> SUFFICES ASSUME NEW p \in Position, NEW a \in Memory, Held(w.node, p) = Text(a)
               PROVE  w.memory[a] \in Texts /\ \A r \in Position : Held(w.node, r) = Text(a) => r = p
    BY <1>3, OwnedIs
  <2>1. Text(a) # None
    BY CellIs, NoneIs DEF Text
  <2>2. \A r \in Position : Held(w.node, r) = Text(a) => ~Gone(n, q, r) /\ Held(n, r) = Text(a)
    BY <1>3, <2>1
  <2>3. ~Gone(n, q, p) /\ Held(n, p) = Text(a)
    BY <2>2
  <2>4. w.memory[a] \in Texts
    BY <1>5, <2>3
  <2>5. \A r \in Position : Held(n, r) = Text(a) => r = p
    BY <1>1, <1>2, <2>3, OwnedText
  <2> QED  BY <2>2, <2>4, <2>5
<1>7. PICK all \in BOOLEAN : all <=> Held(n, q).format = "STRING"
  OBVIOUS
<1>8. ASSUME NEW p \in Position
      PROVE  Content(Held(w.node, p), w.memory) =
                IF Under(q, p) \/ (p = q /\ all) THEN Nothing ELSE Content(Held(node, p), memory)
  <2>1. Gone(n, q, p) <=> Under(q, p) \/ (p = q /\ all)
    BY <1>7 DEF Gone
  <2>2. CASE Gone(n, q, p)
    <3>1. Held(w.node, p) = None
      BY <1>3, <2>2
    <3> QED  BY <2>1, <2>2, <3>1, ContentIs
  <2>3. CASE ~Gone(n, q, p)
    <3> PICK d : d = Held(n, p)
      OBVIOUS
    <3>1. Held(w.node, p) = d /\ d = Held(node, p) /\ IsCell(d)
      BY <1>1, <1>3, <2>3, HeldIsCell
    <3>2. d.format = "STRING" => w.memory[d.value] = memory[d.value]
      <4>1. d.format = "STRING" => d = Text(d.value) /\ d.value \in Memory
        BY <3>1, TextIs DEF IsCell
      <4> QED  BY <1>5, <2>3, <4>1
    <3>3. Content(d, w.memory) = Content(d, memory)
      BY <3>1, <3>2, SameContent
    <3> QED  BY <2>1, <2>3, <3>1, <3>3
  <2> QED  BY <2>2, <2>3
<1> QED  BY <1>3, <1>4, <1>6, <1>8 DEF IsCleared

LEMMA FirstSameIs ==
    ASSUME NEW n, NEW index, NEW length \in Nat, NEW v
    PROVE  FirstSame(n, index, length, v) \in 0 .. length
<1>0. PICK same : same = {i \in 0 .. length - 1 : ReadAt(n, memory, Append(index, i)) = v}
  OBVIOUS
<1>1. same \in SUBSET Nat /\ same \subseteq 0 .. length
  BY <1>0
<1>2. CASE same = {}
  BY <1>0, <1>2 DEF FirstSame
<1>3. CASE same # {}
  <2>1. \E i \in same : \A j \in same : i <= j
    BY <1>1, <1>3, FirstOfNumbers
  <2>2. Min(same) \in same
    BY <2>1 DEF Min
  <2>3. FirstSame(n, index, length, v) = Min(same)
    BY <1>0, <1>3 DEF FirstSame
  <2> QED  BY <1>1, <2>2, <2>3
<1> QED  BY <1>2, <1>3

LEMMA VectorLengthIs ==
    ASSUME NEW n, IsTree(n), NEW index \in Position
    PROVE  VectorLength(n, index) \in Nat
<1>1. index \in DOMAIN AfterReading(n, index) => index \in DOMAIN n
  BY AfterReadingIs
<1>2. <<>> \in DOMAIN n /\ \A q \in DOMAIN n : IsMatrix(n[q])
  BY DEF IsTree
<1>3. ASSUME NEW q \in DOMAIN n
      PROVE  n[q].vector.Length \in Nat
  <2>1. IsVector(n[q].vector, Vals, NULL)
    BY <1>2 DEF IsMatrix
  <2> QED  BY <2>1 DEF IsVector
<1> QED  BY <1>1, <1>2, <1>3 DEF VectorLength

\* What a step may do: store one value, leave all values, or clear one level.
Done ==
    /\ Index' \in Indices
    /\ \/ \E index \in Indices, v \in Numbers \cup Texts : IsStored(index, v, node', memory')
       \/ IsRead(node', memory')
       \/ \E q \in Indices : IsCleared(q, node', memory')

LEMMA WriteIs ==
    ASSUME MatrixInv, NEW index \in Indices, NEW v \in Numbers \cup Texts, HasRoom(v), Write(index, v)
    PROVE  IsStored(index, v, node', memory')
  BY WrittenIs, IndexIsPosition DEF Write

LEMMA ReadIs ==
    ASSUME MatrixInv, NEW index \in Position
    PROVE  Grown(node, AfterReading(node, index)) /\ IsRead(AfterReading(node, index), memory)
<1>1. Grown(node, AfterReading(node, index))
  BY AfterReadingIs DEF MatrixInv
<1> QED  BY <1>1, GrownIsRead

LEMMA Unchanged == MatrixInv => IsRead(node, memory)
  BY DEF MatrixInv, IsRead

LEMMA FirstLevel ==
    ASSUME NEW i \in Nat, i <= MaxIndex
    PROVE  <<i>> \in Indices /\ <<i>> \in Position
  BY MatrixAssumption, IndexIsPosition

LEMMA StepTaken ==
    ASSUME MatrixInv, [Next]_vars
    PROVE  Done
<1>0. Index \in Indices /\ Index \in Position /\ Indices \subseteq Position
  BY IndexIsPosition DEF MatrixInv
<1>1. ASSUME NEW index \in Indices, Address(index)
      PROVE  Done
  BY <1>1, Unchanged DEF Address, Done
<1>2. ASSUME NEW v \in Numbers \cup Texts, Assign(v)
      PROVE  Done
  BY <1>0, <1>2, WriteIs DEF Assign, Done
<1>3. ASSUME NEW v \in Numbers \cup Texts, AppendItem(v)
      PROVE  Done
  <2>1. PICK n, length, i :
          /\ n = AfterReading(node, Index)
          /\ Append(Index, i) \in Indices /\ HasRoom(v) /\ Index' = Append(Index, i)
          /\ IF i = length THEN Write(Append(Index, i), v) ELSE node' = n /\ UNCHANGED memory
    BY <1>3 DEF AppendItem
  <2>2. CASE i = length
    BY <2>1, <2>2, WriteIs DEF Done
  <2>3. CASE i # length
    BY <1>0, <2>1, <2>3, ReadIs DEF Done
  <2> QED  BY <2>2, <2>3
<1>4. ASSUME NEW v \in Numbers \cup Texts, FindScalarItem(v)
      PROVE  Done
  <2>1. PICK n, length, i :
          /\ n = AfterReading(node, <<0>>) /\ length = VectorLength(n, <<0>>)
          /\ i = FirstSame(n, <<>>, length, v) /\ length <= MaxIndex
          /\ HasRoom(v) /\ Index' = <<i>>
          /\ IF i = length THEN Write(<<i>>, v) ELSE node' = AfterReading(n, <<i>>) /\ UNCHANGED memory
    BY <1>4 DEF FindScalarItem
  <2>2. <<0>> \in Position
    BY DEF Position
  <2>3. Grown(node, n)
    BY <2>1, <2>2, ReadIs
  <2>4. length \in Nat
    BY <2>1, <2>2, <2>3, VectorLengthIs DEF Grown
  <2>5. i \in Nat /\ i <= MaxIndex
    <3>1. i \in 0 .. length
      BY <2>1, <2>4, FirstSameIs
    <3> QED  BY <2>1, <2>4, <3>1, MatrixAssumption
  <2>6. <<i>> \in Indices /\ <<i>> \in Position
    BY <2>5, FirstLevel
  <2>7. CASE i = length
    <3>1. IsStored(<<i>>, v, node', memory')
      BY <2>1, <2>6, <2>7, WriteIs
    <3> QED  BY <2>1, <2>6, <3>1 DEF Done
  <2>8. CASE i # length
    <3>1. Grown(n, AfterReading(n, <<i>>))
      BY <2>3, <2>6, AfterReadingIs DEF Grown
    <3>2. Grown(node, AfterReading(n, <<i>>))
      BY <2>3, <3>1, GrownTwice
    <3>3. IsRead(AfterReading(n, <<i>>), memory)
      BY <3>2, GrownIsRead
    <3> QED  BY <2>1, <2>6, <2>8, <3>3 DEF Done
  <2> QED  BY <2>7, <2>8
<1>5. ASSUME Read
      PROVE  Done
  BY <1>0, <1>5, ReadIs DEF Read, Done
<1>6. ASSUME ClearMatrix
      PROVE  Done
  <2>1. PICK n : /\ n = AfterReading(node, Index) /\ Index' = Index
                 /\ IF Index \in DOMAIN n
                    THEN \E c \in {Clear(n, memory, Index)} : node' = c.node /\ memory' = c.memory
                    ELSE node' = n /\ UNCHANGED memory
    BY <1>6 DEF ClearMatrix
  <2>2. Grown(node, n) /\ IsRead(n, memory)
    BY <1>0, <2>1, ReadIs
  <2>3. CASE Index \in DOMAIN n
    <3>1. IsCleared(Index, Clear(n, memory, Index).node, Clear(n, memory, Index).memory)
      BY <2>2, <2>3, ClearedIs
    <3>2. IsCleared(Index, node', memory')
      BY <2>1, <2>3, <3>1
    <3> QED  BY <1>0, <2>1, <3>2 DEF Done
  <2>4. CASE Index \notin DOMAIN n
    BY <1>0, <2>1, <2>2, <2>4 DEF Done
  <2> QED  BY <2>3, <2>4
<1>7. ASSUME UNCHANGED vars
      PROVE  Done
  BY <1>0, <1>7, Unchanged DEF vars, Done
<1> QED  BY <1>1, <1>2, <1>3, <1>4, <1>5, <1>6, <1>7 DEF Next

LEMMA FirstMatrixIs ==
    ASSUME NEW n, n = [q \in {<<>>} |-> NewMatrix(None)]
    PROVE  IsTree(n) /\ \A p \in Position : Held(n, p) = None
<1>1. PICK N : N = NewMatrix(None)
  OBVIOUS
<1>2. IsMatrix(N) /\ N.scalar = None /\ \A j \in Nat : CellAt(N, j) = None
  BY <1>1, NewMatrixIs, NoneIs
<1>3. DOMAIN n = {<<>>} /\ n[<<>>] = N /\ n = [q \in DOMAIN n |-> n[q]]
  BY <1>1
<1>4. <<>> \in Position
  BY DEF Position
<1>5. IsTree(n)
  <2>1. ASSUME NEW q \in DOMAIN n, NEW i \in Nat
        PROVE  CellAt(n[q], i).format = "MATRIX" <=> Append(q, i) \in DOMAIN n
    <3>1. q = <<>> /\ q \in Position /\ CellAt(n[q], i).format = "NONE"
      BY <1>2, <1>3, <1>4, NoneIs
    <3>2. Append(q, i) # <<>>
      BY <3>1, AppendIs
    <3> QED  BY <1>3, <3>1, <3>2
  <2> QED  BY <1>2, <1>3, <1>4, <2>1 DEF IsTree
<1>6. ASSUME NEW p \in Position
      PROVE  Held(n, p) = None
  <2>1. p # <<>> => Last(p) \in Nat
    BY FrontLast
  <2> QED  BY <1>2, <1>3, <2>1, NoneIs DEF Held
<1> QED  BY <1>5, <1>6

LEMMA InitIs ==
    ASSUME Init
    PROVE  MatrixInv /\ \A p \in Position : Held(node, p) = None
<1>1. IsTree(node) /\ \A p \in Position : Held(node, p) = None
  BY FirstMatrixIs DEF Init, None
<1>2. memory = [a \in Memory |-> Free] /\ Index = <<>>
  BY DEF Init
<1>3. Owned(node, memory)
  BY <1>1, NoneIs DEF Owned
<1>4. memory \in Texture
  BY <1>2 DEF Texture
<1> QED  BY <1>1, <1>2, <1>3, <1>4, IndexIsPosition DEF MatrixInv

LEMMA MatrixInvariant == Spec => []MatrixInv
<1>1. Init => MatrixInv
  BY InitIs
<1>2. MatrixInv /\ [Next]_vars => MatrixInv'
  <2> SUFFICES ASSUME MatrixInv, [Next]_vars
               PROVE  MatrixInv'
    OBVIOUS
  <2>1. Done
    BY StepTaken
  <2> QED  BY <2>1 DEF Done, IsStored, IsRead, IsCleared, MatrixInv
<1> QED  BY <1>1, <1>2, PTL DEF Spec

LEMMA OneHolder ==
    ASSUME MatrixInv, NEW q \in DOMAIN node, NEW a \in Memory,
           NEW holds, holds = {i \in 0 .. node[q].vector.Length - 1 : Element(node, q, i) = Cell(a, "STRING")},
           NEW scalar, scalar = IF node[q].scalar = Cell(a, "STRING") THEN 1 ELSE 0
    PROVE  Cardinality(holds) + scalar <= 1
<1>1. IsTree(node) /\ Owned(node, memory) /\ q \in Position /\ IsMatrix(node[q]) /\ node[q].vector.Length \in Nat
  BY DEF MatrixInv, IsTree, IsMatrix, IsVector
<1>2. ASSUME NEW i \in holds
      PROVE  i \in Nat /\ Append(q, i) \in Position /\ Held(node, Append(q, i)) = Text(a)
  <2>1. i \in Nat /\ i < node[q].vector.Length
    BY <1>1
  <2>2. CellAt(node[q], i) = Text(a) /\ IsCell(CellAt(node[q], i))
    BY <1>1, <2>1, ElementIs DEF Text, IsMatrix
  <2>3. CellAt(node[q], i).format # "MATRIX"
    BY <2>2, CellIs DEF Text
  <2> PICK b : b = Append(q, i)
    OBVIOUS
  <2>4. b \in Position /\ b # <<>> /\ Front(b) = q /\ Last(b) = i /\ b \notin DOMAIN node
    BY <1>1, <2>1, <2>3, AppendIs DEF IsTree
  <2>5. Held(node, b) = Plain(CellAt(node[q], i))
    BY <2>4 DEF Held
  <2> QED  BY <2>1, <2>2, <2>4, <2>5, TextIs
<1>3. \A i, j \in holds : i = j
  <2> SUFFICES ASSUME NEW i \in holds, NEW j \in holds
               PROVE  i = j
    OBVIOUS
  <2>1. Append(q, i) = Append(q, j)
    BY <1>1, <1>2, OwnedText
  <2> QED  BY <1>1, <1>2, <2>1, AppendIs
<1>4. scalar = 1 => Held(node, q) = Text(a)
  <2>1. scalar = 1 => node[q].scalar = Text(a) /\ IsCell(node[q].scalar)
    BY <1>1 DEF Text, IsMatrix
  <2> QED  BY <2>1, TextIs DEF Held
<1>5. CASE holds = {}
  <2>1. Cardinality(holds) = 0 /\ scalar \in {0, 1}
    BY <1>5, FS_EmptySet
  <2> QED  BY <2>1
<1>6. CASE holds # {}
  <2>1. PICK i : holds = {i}
    BY <1>3, <1>6
  <2>2. Cardinality(holds) = 1
    BY <2>1, FS_Singleton
  <2>3. scalar # 1
    <3> SUFFICES ASSUME scalar = 1 PROVE FALSE
      OBVIOUS
    <3>1. Held(node, q) = Text(a) /\ Held(node, Append(q, i)) = Text(a) /\ Append(q, i) \in Position /\ i \in Nat
      BY <1>2, <1>4, <2>1
    <3>2. Append(q, i) = q
      BY <1>1, <3>1, OwnedText
    <3> QED  BY <1>1, <3>1, <3>2, AppendIs
  <2> QED  BY <2>2, <2>3
<1> QED  BY <1>5, <1>6

\* Whatever is stored, read, attached and cleared, a text is neither used after
\* it was released nor released twice.
THEOREM TextsAreOwned == Spec => []TextsOwned
<1>1. MatrixInv => TextsOwned
  <2> SUFFICES ASSUME MatrixInv
               PROVE  TextsOwned
    OBVIOUS
  <2>1. IsTree(node) /\ Owned(node, memory)
    BY DEF MatrixInv
  <2>2. ASSUME NEW q \in DOMAIN node, NEW a \in TextsOf(node, q)
        PROVE  memory[a] # Free /\ \A r \in DOMAIN node : a \in TextsOf(node, r) => r = q
    <3>1. PICK p \in Position : Held(node, p) = Text(a) /\ IsAt(node, p, q)
      BY <2>1, <2>2, TextsAre
    <3>2. memory[a] \in Texts /\ \A s \in Position : Held(node, s) = Text(a) => s = p
      BY <2>1, <3>1, OwnedText
    <3>3. ASSUME NEW r \in DOMAIN node, a \in TextsOf(node, r)
          PROVE  r = q
      <4>1. PICK s \in Position : Held(node, s) = Text(a) /\ IsAt(node, s, r)
        BY <2>1, <3>3, TextsAre
      <4> QED  BY <3>1, <3>2, <4>1 DEF IsAt
    <3> QED  BY <3>2, <3>3, MatrixAssumption
  <2>3. \A q \in DOMAIN node :
          LET holds(a) == {i \in 0 .. node[q].vector.Length - 1 : Element(node, q, i) = Cell(a, "STRING")}
              scalar(a) == IF node[q].scalar = Cell(a, "STRING") THEN 1 ELSE 0
          IN  \A a \in Memory : Cardinality(holds(a)) + scalar(a) <= 1
    BY OneHolder
  <2> QED  BY <2>2, <2>3 DEF TextsOwned
<1> QED  BY <1>1, MatrixInvariant, PTL

-----------------------------------------------------------------------------
(* One value per position *)

Values(n, m) == [index \in Indices |-> ReadAt(n, m, index)]

Changed(c, p, v) == [c EXCEPT ![p] = v]

LEMMA ValuesAre ==
    ASSUME NEW n, IsTree(n), NEW m, NEW index \in Indices
    PROVE  Values(n, m)[index] = Content(Held(n, index), m) /\ Values(n, m) = [i \in Indices |-> Values(n, m)[i]]
  BY ReadAtIs, IndexIsPosition DEF Values

\* Whatever the depth of a position, and whether it is an element or a level by
\* now: storing a value changes that position only, reading changes none, and
\* clearing takes away what is below (and a text at the level itself).
THEOREM MatrixKeepsAValuePerPosition == Spec => ImplementsIndexedValues
<1>1. Init => Places!Init
  <2> SUFFICES ASSUME Init
               PROVE  Values(node, memory) = [p \in Indices |-> Nothing]
    BY DEF Places!Init, Values
  <2>1. IsTree(node) /\ \A p \in Position : Held(node, p) = None
    BY InitIs DEF MatrixInv
  <2>2. \A p \in Indices : Values(node, memory)[p] = Nothing
    BY <2>1, ValuesAre, ContentIs, IndexIsPosition
  <2> QED  BY <2>2 DEF Values
<1>2. MatrixInv /\ [Next]_vars => [Places!Next]_[index \in Indices |-> ReadAt(node, memory, index)]
  <2> SUFFICES ASSUME MatrixInv, [Next]_vars
               PROVE  [Places!Next]_[index \in Indices |-> ReadAt(node, memory, index)]
    OBVIOUS
  <2>1. PICK c, d : c = Values(node, memory) /\ d = Values(node', memory')
    OBVIOUS
  <2>2. IsTree(node) /\ IsTree(node')
    BY StepTaken DEF Done, IsStored, IsRead, IsCleared, MatrixInv
  <2>3. /\ c = [p \in Indices |-> c[p]] /\ d = [p \in Indices |-> d[p]]
        /\ \A p \in Indices : c[p] = Content(Held(node, p), memory) /\ d[p] = Content(Held(node', p), memory')
    BY <2>1, <2>2, ValuesAre DEF Values
  <2>4. CASE \E index \in Indices, v \in Numbers \cup Texts : IsStored(index, v, node', memory')
    <3>1. PICK index \in Indices, v \in Numbers \cup Texts : IsStored(index, v, node', memory')
      BY <2>4
    <3>2. \A p \in Indices : d[p] = IF p = index THEN v ELSE c[p]
      BY <2>3, <3>1, IndexIsPosition DEF IsStored
    <3>3. d = Changed(c, index, v)
      BY <2>3, <3>2 DEF Changed
    <3>4. d \in Places!Stored(c)
      <4>1. Places!Stored(c) = {Changed(c, p, u) : p \in Indices, u \in Numbers \cup Texts}
        BY DEF Places!Stored, Changed
      <4> QED  BY <3>3, <4>1
    <3> QED  BY <2>1, <3>4 DEF Places!Next, Values
  <2>5. CASE IsRead(node', memory')
    <3>1. \A p \in Indices : d[p] = c[p]
      BY <2>3, <2>5, IndexIsPosition DEF IsRead
    <3>2. d = c
      BY <2>3, <3>1
    <3> QED  BY <2>1, <3>2 DEF Values
  <2>6. CASE \E q \in Indices : IsCleared(q, node', memory')
    <3>1. PICK q \in Indices : IsCleared(q, node', memory')
      BY <2>6
    <3>2. PICK all \in BOOLEAN : \A p \in Indices : d[p] = IF Under(q, p) \/ (p = q /\ all) THEN Nothing ELSE c[p]
      BY <2>3, <3>1, IndexIsPosition DEF IsCleared
    <3>3. d = [p \in Indices |-> IF Places!Below(q, p) \/ (p = q /\ all) THEN Nothing ELSE c[p]]
      BY <2>3, <3>2 DEF Places!Below, Under
    <3>4. d \in Places!Removed(c)
      BY <3>3 DEF Places!Removed
    <3> QED  BY <2>1, <3>4 DEF Places!Next, Values
  <2>7. Done
    BY StepTaken
  <2> QED  BY <2>4, <2>5, <2>6, <2>7 DEF Done
<1> QED  BY <1>1, <1>2, MatrixInvariant, PTL DEF Spec, ImplementsIndexedValues, Places!Spec

-----------------------------------------------------------------------------
(* A chart: one store after the other *)

\* A number as it is kept.
Number(v) == Plain(Cell(v, "NUMBER"))

LEMMA NumberIs ==
    ASSUME NEW v \in Vals, NEW m
    PROVE  Number(v) = (IF v = 0 THEN None ELSE Cell(v, "NUMBER")) /\ (v # 0 => Content(Number(v), m) = v)
  BY CellIs DEF Number, Plain, NULL, Content

\* t has the value v at index, and everything else as n.
IsPut(n, t, index, v) ==
    IsTree(t) /\ \A p \in Position : Held(t, p) = IF p = index THEN Number(v) ELSE Held(n, p)

LEMMA StorePuts ==
    ASSUME NEW n, IsTree(n), NEW index \in Position, NEW v \in Vals, NEW t, t = Store(n, index, v)
    PROVE  IsPut(n, t, index, v)
<1>1. PICK c, b : c = Cell(v, "NUMBER") /\ b = BeforeLastLevel(n, index, TRUE).node
  OBVIOUS
<1>2. PICK w : w = SetValue(b, NoRoom, index, c)
  OBVIOUS
<1>3. t = w.node
  BY <1>1, <1>2 DEF Store
<1>4. Grown(n, b) /\ (index # <<>> => Front(index) \in DOMAIN b)
  BY <1>1, LevelCreated
<1>5. IsCell(c) /\ c.format # "MATRIX"
  BY <1>1, CellIs DEF IsCell, Formats
<1>6. IsTree(b) /\ \A p \in Position : Held(b, p) = Held(n, p)
  BY <1>4 DEF Grown
<1>7. IsTree(w.node) /\ (\A p \in Position : Held(w.node, p) = IF p = index THEN Plain(c) ELSE Held(b, p))
  BY <1>2, <1>4, <1>5, <1>6, SetValueIs
<1> QED  BY <1>1, <1>3, <1>6, <1>7 DEF IsPut, Number

-----------------------------------------------------------------------------
(* Many stores *)

\* What is done to a chart for one element of a list: a store, a read, or all
\* stores of a text.
OneMore(mode, x, n, w) ==
    CASE mode = "store" -> IF <<>> \in DOMAIN n THEN Store(n, w[1], w[2]) ELSE n
      [] mode = "read"  -> IF <<>> \in DOMAIN n THEN AfterReading(n, w) ELSE n
      [] mode = "text"  -> SetTextAt(n, w, x)

\* The charts f on the way from n, for each element of the list.
Stages(f, mode, x, n, list) ==
    f[0] = n /\ \A k \in 1 .. Len(list) : f[k] = OneMore(mode, x, f[k - 1], list[k])

LEMMA StagesExist ==
    ASSUME NEW mode, NEW x, NEW n, NEW list, Len(list) \in Nat
    PROVE  \E f : f = [k \in 0 .. Len(list) |-> f[k]] /\ Stages(f, mode, x, n, list)
<1>0. PICK m : m = Len(list)
  OBVIOUS
<1> DEFINE K == {j \in Nat : \E f : f = [k \in 0 .. j |-> f[k]] /\ f[0] = n
                                    /\ \A k \in 1 .. j : f[k] = OneMore(mode, x, f[k - 1], list[k])}
<1>1. 0 \in K
  <2> DEFINE f == [k \in 0 .. 0 |-> n]
  <2>1. f = [k \in 0 .. 0 |-> f[k]] /\ f[0] = n /\ \A k \in 1 .. 0 : f[k] = OneMore(mode, x, f[k - 1], list[k])
    OBVIOUS
  <2> QED  BY <2>1
<1>2. ASSUME NEW j \in Nat, j \in K
      PROVE  j + 1 \in K
  <2>1. PICK f : f = [k \in 0 .. j |-> f[k]] /\ f[0] = n
                 /\ \A k \in 1 .. j : f[k] = OneMore(mode, x, f[k - 1], list[k])
    BY <1>2
  <2>2. PICK next : next = OneMore(mode, x, f[j], list[j + 1])
    OBVIOUS
  <2>3. PICK h : h = [k \in 0 .. j + 1 |-> IF k = j + 1 THEN next ELSE f[k]]
    OBVIOUS
  <2>4. h = [k \in 0 .. j + 1 |-> h[k]] /\ h[j + 1] = next /\ \A k \in 0 .. j : h[k] = f[k]
    BY <2>3
  <2>5. ASSUME NEW k \in 1 .. j + 1
        PROVE  h[k] = OneMore(mode, x, h[k - 1], list[k])
    <3>1. CASE k = j + 1
      <4>1. h[k - 1] = f[j]
        BY <2>4, <3>1
      <4> QED  BY <2>2, <2>4, <3>1, <4>1
    <3>2. CASE k # j + 1
      <4>1. k \in 1 .. j /\ k \in 0 .. j /\ k - 1 \in 0 .. j
        BY <3>2
      <4> QED  BY <2>1, <2>4, <4>1
    <3> QED  BY <3>1, <3>2
  <2>6. h[0] = n /\ j + 1 \in Nat
    <3>1. 0 \in 0 .. j
      BY <1>2
    <3>2. h[0] = f[0]
      BY <2>4, <3>1
    <3> QED  BY <1>2, <2>1, <3>2
  <2> QED  BY <2>4, <2>5, <2>6
<1>3. K \in SUBSET Nat
  OBVIOUS
<1> HIDE DEF K
<1>4. K = Nat
  BY <1>1, <1>2, <1>3, AllNumbers
<1>5. m \in K
  BY <1>0, <1>4
<1> QED  BY <1>0, <1>5 DEF K, Stages

\* The three folds of the model go through such charts.
LEMMA StoreAllStages ==
    ASSUME NEW n, NEW list, Len(list) \in Nat, NEW x
    PROVE  \E f : Stages(f, "store", x, n, list) /\ StoreAll(n, list) = f[Len(list)]
<1>1. PICK m : m = Len(list)
  OBVIOUS
<1> DEFINE body(up) == [k \in 0 .. m |-> IF k = 0 THEN n
                           ELSE IF <<>> \in DOMAIN up[k - 1] THEN Store(up[k - 1], list[k][1], list[k][2]) ELSE up[k - 1]]
           all == CHOOSE up : up = body(up)
<1>2. StoreAll(n, list) = all[m]
  BY <1>1 DEF StoreAll, FoldAlong
<1>3. \E up : up = body(up)
  <2>1. PICK f : f = [k \in 0 .. m |-> f[k]] /\ Stages(f, "store", x, n, list)
    BY <1>1, StagesExist
  <2>2. f = body(f)
    BY <1>1, <2>1 DEF Stages, OneMore
  <2> QED  BY <2>2
<1>4. all = body(all)
  BY <1>3
<1> HIDE DEF all
<1>5. Stages(all, "store", x, n, list)
  BY <1>1, <1>4 DEF Stages, OneMore
<1> QED  BY <1>1, <1>2, <1>5

LEMMA TouchAllStages ==
    ASSUME NEW n, NEW list, Len(list) \in Nat, NEW x
    PROVE  \E f : Stages(f, "read", x, n, list) /\ TouchAll(n, list) = f[Len(list)]
<1>1. PICK m : m = Len(list)
  OBVIOUS
<1> DEFINE body(up) == [k \in 0 .. m |-> IF k = 0 THEN n
                           ELSE IF <<>> \in DOMAIN up[k - 1] THEN AfterReading(up[k - 1], list[k]) ELSE up[k - 1]]
           all == CHOOSE up : up = body(up)
<1>2. TouchAll(n, list) = all[m]
  BY <1>1 DEF TouchAll, FoldAlong
<1>3. \E up : up = body(up)
  <2>1. PICK f : f = [k \in 0 .. m |-> f[k]] /\ Stages(f, "read", x, n, list)
    BY <1>1, StagesExist
  <2>2. f = body(f)
    BY <1>1, <2>1 DEF Stages, OneMore
  <2> QED  BY <2>2
<1>4. all = body(all)
  BY <1>3
<1> HIDE DEF all
<1>5. Stages(all, "read", x, n, list)
  BY <1>1, <1>4 DEF Stages, OneMore
<1> QED  BY <1>1, <1>2, <1>5

LEMMA ReadingGrows ==
    ASSUME NEW n, IsTree(n), NEW list, Len(list) \in Nat, \A k \in 1 .. Len(list) : list[k] \in Position
    PROVE  Grown(n, TouchAll(n, list)) /\ (Len(list) # 0 /\ list[1] # <<>> => IsBegun(TouchAll(n, list)))
<1>1. PICK m : m = Len(list)
  OBVIOUS
<1>2. PICK f : Stages(f, "read", 0, n, list) /\ TouchAll(n, list) = f[m]
  BY <1>1, TouchAllStages
<1> DEFINE K == {j \in Nat : j <= m => Grown(n, f[j]) /\ (j # 0 /\ list[1] # <<>> => IsBegun(f[j]))}
<1>3. 0 \in K
  BY <1>2 DEF Stages, Grown
<1>4. ASSUME NEW j \in Nat, j \in K
      PROVE  j + 1 \in K
  <2> SUFFICES ASSUME j + 1 <= m
               PROVE  Grown(n, f[j + 1]) /\ (list[1] # <<>> => IsBegun(f[j + 1]))
    OBVIOUS
  <2>1. j + 1 \in 1 .. Len(list) /\ j + 1 - 1 = j /\ Grown(n, f[j]) /\ (j # 0 /\ list[1] # <<>> => IsBegun(f[j]))
    BY <1>1, <1>4
  <2>2. f[j + 1] = AfterReading(f[j], list[j + 1])
    <3>1. <<>> \in DOMAIN f[j]
      BY <2>1 DEF Grown, IsTree
    <3>2. f[j + 1] = OneMore("read", 0, f[j], list[j + 1])
      BY <1>2, <2>1 DEF Stages
    <3> QED  BY <3>1, <3>2 DEF OneMore
  <2>3. IsTree(f[j]) /\ list[j + 1] \in Position
    BY <2>1 DEF Grown
  <2>4. Grown(f[j], f[j + 1]) /\ (list[j + 1] # <<>> => IsBegun(f[j + 1]))
    BY <2>2, <2>3, AfterReadingIs
  <2>5. list[1] # <<>> => IsBegun(f[j + 1])
    <3>1. CASE j = 0
      BY <2>4, <3>1
    <3>2. CASE j # 0
      BY <2>1, <2>4, <3>2 DEF Grown
    <3> QED  BY <3>1, <3>2
  <2>6. Grown(n, f[j + 1])
    BY <2>1, <2>4, GrownTwice
  <2> QED  BY <2>5, <2>6
<1>5. K \in SUBSET Nat
  OBVIOUS
<1> HIDE DEF K
<1>6. K = Nat
  BY <1>3, <1>4, <1>5, AllNumbers
<1>7. m \in K
  BY <1>1, <1>6
<1> QED  BY <1>1, <1>2, <1>7 DEF K

Members(list) == {list[k] : k \in 1 .. Len(list)}

Puts == Position \X Vals

\* t is n with the stores of the set M made, of which no two are at one place
\* with different values (else: one of the values is there).
IsWritten(n, t, M) ==
    /\ IsTree(t)
    /\ \A p \in Position : \/ Held(t, p) = Held(n, p) /\ \A w \in M : w[1] # p
                           \/ \E w \in M : w[1] = p /\ Held(t, p) = Number(w[2])

LEMMA AnotherPut ==
    ASSUME NEW n, NEW t, NEW M, IsWritten(n, t, M), NEW index, NEW v, NEW u, IsPut(t, u, index, v)
    PROVE  IsWritten(n, u, M \cup {<<index, v>>})
<1> PICK w : w = <<index, v>>
  OBVIOUS
<1>1. w[1] = index /\ w[2] = v
  OBVIOUS
<1> SUFFICES IsWritten(n, u, M \cup {w})
  OBVIOUS
<1>2. ASSUME NEW p \in Position
      PROVE  \/ Held(u, p) = Held(n, p) /\ \A y \in M \cup {w} : y[1] # p
             \/ \E y \in M \cup {w} : y[1] = p /\ Held(u, p) = Number(y[2])
  BY <1>1 DEF IsWritten, IsPut
<1> QED  BY <1>2 DEF IsWritten, IsPut

LEMMA OneMember ==
    ASSUME NEW list, NEW j \in Nat
    PROVE  {list[k] : k \in 1 .. j + 1} = {list[k] : k \in 1 .. j} \cup {list[j + 1]}
<1>1. 1 .. j + 1 = (1 .. j) \cup {j + 1}
  OBVIOUS
<1> QED  BY <1>1

LEMMA StoreAllWrites ==
    ASSUME NEW n, IsTree(n), NEW list \in Seq(Puts)
    PROVE  IsWritten(n, StoreAll(n, list), Members(list))
<1>1. PICK m : m = Len(list)
  OBVIOUS
<1>2. m \in Nat /\ \A k \in 1 .. m : list[k] \in Puts
  BY <1>1
<1>3. PICK f : Stages(f, "store", 0, n, list) /\ StoreAll(n, list) = f[m]
  BY <1>1, <1>2, StoreAllStages
<1> DEFINE Before(j) == {list[k] : k \in 1 .. j}
           K == {j \in Nat : j <= m => IsWritten(n, f[j], Before(j))}
<1>4. 0 \in K
  <2>1. f[0] = n /\ Before(0) = {}
    BY <1>3 DEF Stages
  <2> QED  BY <2>1 DEF IsWritten
<1>5. ASSUME NEW j \in Nat, j \in K
      PROVE  j + 1 \in K
  <2> SUFFICES ASSUME j + 1 <= m
               PROVE  IsWritten(n, f[j + 1], Before(j + 1))
    OBVIOUS
  <2>1. j + 1 \in 1 .. m /\ j + 1 - 1 = j /\ IsWritten(n, f[j], Before(j))
    BY <1>2, <1>5
  <2>2. PICK index \in Position, v \in Vals : list[j + 1] = <<index, v>>
    BY <1>2, <2>1 DEF Puts
  <2>3. IsTree(f[j])
    BY <2>1 DEF IsWritten
  <2>4. f[j + 1] = Store(f[j], index, v)
    <3>1. <<>> \in DOMAIN f[j]
      BY <2>3 DEF IsTree
    <3>2. f[j + 1] = OneMore("store", 0, f[j], list[j + 1])
      BY <1>1, <1>3, <2>1 DEF Stages
    <3> QED  BY <2>2, <3>1, <3>2 DEF OneMore
  <2>5. IsPut(f[j], f[j + 1], index, v)
    BY <2>3, <2>4, StorePuts
  <2>6. Before(j + 1) = Before(j) \cup {<<index, v>>}
    BY <1>5, <2>2, OneMember
  <2> HIDE DEF Before
  <2> QED  BY <2>1, <2>5, <2>6, AnotherPut
<1>6. K \in SUBSET Nat
  OBVIOUS
<1> HIDE DEF K
<1>7. K = Nat
  BY <1>4, <1>5, <1>6, AllNumbers
<1>8. m \in K
  BY <1>2, <1>7
<1> QED  BY <1>1, <1>2, <1>3, <1>8 DEF K, Members

LEMMA MembersConcat ==
    ASSUME NEW S, NEW a \in Seq(S), NEW b \in Seq(S)
    PROVE  a \o b \in Seq(S) /\ Members(a \o b) = Members(a) \cup Members(b)
<1>1. PICK c : c = a \o b
  OBVIOUS
<1>2. /\ Len(a) \in Nat /\ Len(b) \in Nat /\ c \in Seq(S) /\ Len(c) = Len(a) + Len(b)
      /\ \A k \in 1 .. Len(c) : c[k] = IF k <= Len(a) THEN a[k] ELSE b[k - Len(a)]
  BY <1>1
<1>3. ASSUME NEW x \in Members(c)
      PROVE  x \in Members(a) \cup Members(b)
  <2>1. PICK k \in 1 .. Len(c) : x = c[k]
    BY DEF Members
  <2>2. CASE k <= Len(a)
    <3>1. k \in 1 .. Len(a) /\ x = a[k]
      BY <1>2, <2>1, <2>2
    <3> QED  BY <3>1 DEF Members
  <2>3. CASE ~(k <= Len(a))
    <3>1. k - Len(a) \in 1 .. Len(b) /\ x = b[k - Len(a)]
      BY <1>2, <2>1, <2>3
    <3> QED  BY <3>1 DEF Members
  <2> QED  BY <2>2, <2>3
<1>4. ASSUME NEW k \in 1 .. Len(a)
      PROVE  a[k] \in Members(c)
  <2>1. k \in 1 .. Len(c) /\ c[k] = a[k]
    BY <1>2
  <2> QED  BY <2>1 DEF Members
<1>5. ASSUME NEW k \in 1 .. Len(b)
      PROVE  b[k] \in Members(c)
  <2>1. k + Len(a) \in 1 .. Len(c) /\ ~(k + Len(a) <= Len(a)) /\ k + Len(a) - Len(a) = k
    BY <1>2
  <2>2. c[k + Len(a)] = b[k]
    BY <1>2, <2>1
  <2> QED  BY <2>1, <2>2 DEF Members
<1>6. Members(c) = Members(a) \cup Members(b)
  BY <1>3, <1>4, <1>5 DEF Members
<1> QED  BY <1>1, <1>2, <1>6

-----------------------------------------------------------------------------
(* The places of a chart *)

LEMMA ListIs ==
    ASSUME NEW S, NEW m \in Nat, NEW list \in [1 .. m -> S]
    PROVE  list \in Seq(S) /\ Len(list) = m /\ Members(list) = {list[k] : k \in 1 .. m}
<1>1. list \in Seq(S) /\ Len(list) = m
  OBVIOUS
<1> QED  BY <1>1 DEF Members

LEMMA PairIs ==
    ASSUME NEW S, NEW a \in S, NEW b \in S
    PROVE  <<a, b>> \in Seq(S) /\ Members(<<a, b>>) = {a, b}
<1>1. PICK l : l = <<a, b>>
  OBVIOUS
<1>2. l \in Seq(S) /\ Len(l) = 2 /\ l[1] = a /\ l[2] = b
  BY <1>1
<1>3. Members(l) = {a, b}
  <2>1. 1 .. 2 = {1, 2}
    OBVIOUS
  <2> QED  BY <1>2, <2>1 DEF Members
<1> QED  BY <1>1, <1>2, <1>3

\* Places, and a store at one, named so that their parts are facts.
One(a) == <<a>>
Two(a, b) == <<a, b>>
Three(a, b, c) == <<a, b, c>>
Four(a, b, c, d) == <<a, b, c, d>>
Put1(index, v) == <<index, v>>

LEMMA RootIs == <<>> \in Position /\ Len(<<>>) = 0
  BY DEF Position

LEMMA OneIs ==
    ASSUME NEW a \in Nat
    PROVE  One(a) \in Position /\ Len(One(a)) = 1 /\ One(a)[1] = a
  BY DEF Position, One

LEMMA TwoIs ==
    ASSUME NEW a \in Nat, NEW b \in Nat
    PROVE  Two(a, b) \in Position /\ Len(Two(a, b)) = 2 /\ Two(a, b)[1] = a /\ Two(a, b)[2] = b
  BY DEF Position, Two

LEMMA ThreeIs ==
    ASSUME NEW a \in Nat, NEW b \in Nat, NEW c \in Nat
    PROVE  Three(a, b, c) \in Position /\ Len(Three(a, b, c)) = 3 /\ Three(a, b, c)[2] = b
  BY DEF Position, Three

LEMMA FourIs ==
    ASSUME NEW a \in Nat, NEW b \in Nat, NEW c \in Nat, NEW d \in Nat
    PROVE  /\ Four(a, b, c, d) \in Position /\ Len(Four(a, b, c, d)) = 4
           /\ Four(a, b, c, d)[2] = b /\ Four(a, b, c, d)[3] = c /\ Four(a, b, c, d)[4] = d
  BY DEF Position, Four

LEMMA PutIsOne ==
    ASSUME NEW index \in Position, NEW v \in Vals
    PROVE  Put1(index, v) \in Puts /\ Put1(index, v)[1] = index /\ Put1(index, v)[2] = v
  BY DEF Puts, Put1

LEMMA FirstStyle ==
    /\ kind = "text" => Min(StylesAt) = 2 /\ StylesAt = 2 .. 6
    /\ kind = "line" => Min(StylesAt) = 1 /\ StylesAt = 1 .. 5
<1>1. Min(2 .. 6) = 2 /\ Min(1 .. 5) = 1
  BY DEF Min
<1> QED  BY <1>1 DEF StylesAt

LEMMA StylesAre ==
    ASSUME kind \in {"text", "line"}
    PROVE  /\ StylesAt \subseteq Nat \ {0} /\ (kind = "text" => 1 \notin StylesAt) /\ Min(StylesAt) \in Nat
           /\ \A k \in 1 .. 5 : Min(StylesAt) + k - 1 \in StylesAt
           /\ \A k \in StylesAt : \E l \in 1 .. 5 : k = Min(StylesAt) + l - 1
<1>1. PICK s : s = Min(StylesAt)
  OBVIOUS
<1>2. s \in {1, 2} /\ StylesAt = s .. s + 4 /\ (kind = "text" => s = 2)
  <2>1. CASE kind = "text"
    BY <1>1, <2>1, FirstStyle
  <2>2. CASE kind = "line"
    BY <1>1, <2>2, FirstStyle
  <2> QED  BY <2>1, <2>2
<1>3. \A k \in 1 .. 5 : s + k - 1 \in StylesAt
  BY <1>2
<1>4. ASSUME NEW k \in StylesAt
      PROVE  \E l \in 1 .. 5 : k = s + l - 1
  <2>1. k - s + 1 \in 1 .. 5 /\ k = s + (k - s + 1) - 1
    BY <1>2
  <2> QED  BY <2>1
<1> QED  BY <1>1, <1>2, <1>3, <1>4

ChartVals == Nat \cup Styles \cup {Default, Standard}

LEMMA ChartValsIs == ChartVals \subseteq Vals /\ 0 \in ChartVals /\ 1 \in ChartVals
  BY DEF ChartVals, Vals

\* What setting the styles for all leaves behind.
LEMMA DefaultsWritten ==
    ASSUME NEW n, IsTree(n), kind \in {"text", "line"}, NEW style \in ChartVals, NEW t, t = WithDefaults(n, style)
    PROVE  /\ IsTree(t) /\ Held(t, <<>>) = Number(1)
           /\ \A k \in StylesAt : Held(t, One(k)) = Number(style)
           /\ \A p \in Position : Len(p) \notin {0, 1} => Held(t, p) = Held(n, p)
<1>1. PICK s, a, b : s = Min(StylesAt) /\ a = Put1(<<>>, 1) /\ b = Put1(One(0), 0)
  OBVIOUS
<1>2. PICK f : f = [k \in 1 .. 5 |-> Put1(One(s + k - 1), style)]
  OBVIOUS
<1>3. s \in Nat /\ \A k \in 1 .. 5 : s + k - 1 \in StylesAt /\ s + k - 1 \in Nat \ {0}
  BY <1>1, StylesAre
<1>4. a \in Puts /\ b \in Puts /\ a[1] = <<>> /\ a[2] = 1 /\ b[1] = One(0) /\ Len(One(0)) = 1 /\ One(0)[1] = 0
  <2>1. <<>> \in Position /\ One(0) \in Position /\ Len(One(0)) = 1 /\ One(0)[1] = 0 /\ 0 \in Vals /\ 1 \in Vals
    BY RootIs, OneIs, ChartValsIs
  <2>2. a \in Puts /\ a[1] = <<>> /\ a[2] = 1
    BY <1>1, <2>1, PutIsOne
  <2>3. b \in Puts /\ b[1] = One(0)
    BY <1>1, <2>1, PutIsOne
  <2> QED  BY <2>1, <2>2, <2>3
<1>5. ASSUME NEW k \in 1 .. 5
      PROVE  f[k] \in Puts /\ f[k][1] = One(s + k - 1) /\ f[k][2] = style
             /\ Len(One(s + k - 1)) = 1 /\ One(s + k - 1)[1] = s + k - 1
  <2>1. One(s + k - 1) \in Position /\ style \in Vals /\ f[k] = Put1(One(s + k - 1), style)
        /\ Len(One(s + k - 1)) = 1 /\ One(s + k - 1)[1] = s + k - 1
    BY <1>2, <1>3, OneIs, ChartValsIs
  <2> QED  BY <2>1, PutIsOne
<1>6. f \in Seq(Puts) /\ Members(f) = {f[k] : k \in 1 .. 5}
  <2>1. f \in [1 .. 5 -> Puts]
    BY <1>2, <1>5
  <2> QED  BY <2>1, ListIs
<1>7. <<a, b>> \in Seq(Puts) /\ Members(<<a, b>>) = {a, b}
  BY <1>4, PairIs
<1>8. PICK M : M = {a, b} \cup {f[k] : k \in 1 .. 5}
  OBVIOUS
<1>9. IsWritten(n, t, M)
  <2>1. t = StoreAll(n, <<a, b>> \o f)
    BY <1>1, <1>2 DEF WithDefaults, One, Put1
  <2> PICK c : c = <<a, b>>
    OBVIOUS
  <2>2. c \in Seq(Puts) /\ f \in Seq(Puts)
    BY <1>6, <1>7
  <2>3. c \o f \in Seq(Puts) /\ Members(c \o f) = Members(c) \cup Members(f)
    BY <2>2, MembersConcat
  <2>4. Members(c \o f) = M
    BY <1>6, <1>7, <1>8, <2>3
  <2>5. IsWritten(n, StoreAll(n, c \o f), Members(c \o f))
    BY <2>3, StoreAllWrites
  <2> QED  BY <2>1, <2>4, <2>5
<1>10. \A w \in M : w = a \/ w = b \/ \E k \in 1 .. 5 : w = f[k]
  BY <1>8
<1>11. Held(t, <<>>) = Number(1)
  <2>1. a \in M
    BY <1>8
  <2>2. ASSUME NEW w \in M, w # a
        PROVE  w[1] # <<>>
    <3>1. \E d \in Nat : w[1] = One(d) /\ Len(One(d)) = 1
      BY <1>3, <1>4, <1>5, <1>10, <2>2
    <3> QED  BY <3>1, RootIs
  <2> QED  BY <1>4, <1>9, <2>1, <2>2, RootIs DEF IsWritten
<1>12. ASSUME NEW l \in StylesAt
       PROVE  Held(t, One(l)) = Number(style)
  <2>1. PICK k \in 1 .. 5 : l = s + k - 1
    BY <1>1, StylesAre
  <2>2. f[k] \in M /\ f[k][1] = One(l) /\ One(l) \in Position /\ l # 0 /\ Len(One(l)) = 1 /\ One(l)[1] = l
    BY <1>3, <1>5, <1>8, <2>1, OneIs
  <2>3. ASSUME NEW w \in M, w[1] = One(l)
        PROVE  w[2] = style
    <3>1. w # a /\ w # b
      BY <1>4, <2>2, <2>3, RootIs
    <3> QED  BY <1>5, <1>10, <3>1
  <2> QED  BY <1>9, <2>2, <2>3 DEF IsWritten
<1>13. ASSUME NEW p \in Position, Len(p) \notin {0, 1}
       PROVE  Held(t, p) = Held(n, p)
  <2>1. ASSUME NEW w \in M
        PROVE  w[1] # p
    <3>1. w[1] = <<>> \/ \E d \in Nat : w[1] = One(d) /\ Len(One(d)) = 1
      BY <1>3, <1>4, <1>5, <1>10
    <3>2. Len(w[1]) \in {0, 1}
      BY <3>1, RootIs
    <3> QED  BY <1>13, <3>2
  <2> QED  BY <1>9, <2>1 DEF IsWritten
<1> QED  BY <1>9, <1>11, <1>12, <1>13 DEF IsWritten

LEMMA StylesOfAre ==
    ASSUME kind \in {"text", "line"}, NEW i \in Nat, NEW style \in ChartVals
    PROVE  /\ StylesOf(i, style) \in Seq(Puts)
           /\ \A w : w \in Members(StylesOf(i, style)) <=> \E k \in StylesAt : w = Put1(Two(k, i), style)
<1>1. PICK s, f : s = Min(StylesAt) /\ f = StylesOf(i, style)
  OBVIOUS
<1>2. f = [k \in 1 .. 5 |-> Put1(Two(s + k - 1, i), style)]
  BY <1>1 DEF StylesOf, Put1, Two
<1>3. \A k \in 1 .. 5 : s + k - 1 \in StylesAt /\ s + k - 1 \in Nat
  BY <1>1, StylesAre
<1>4. f \in [1 .. 5 -> Puts]
  <2> SUFFICES ASSUME NEW k \in 1 .. 5
               PROVE  Put1(Two(s + k - 1, i), style) \in Puts
    BY <1>2
  <2>1. Two(s + k - 1, i) \in Position /\ style \in Vals
    BY <1>3, TwoIs, ChartValsIs
  <2> QED  BY <2>1, PutIsOne
<1>5. f \in Seq(Puts) /\ Members(f) = {f[k] : k \in 1 .. 5}
  <2>1. PICK five \in Nat : five = 5
    OBVIOUS
  <2>2. f \in [1 .. five -> Puts]
    BY <1>4, <2>1
  <2>3. f \in Seq(Puts) /\ Members(f) = {f[k] : k \in 1 .. five}
    BY <2>2, ListIs
  <2> QED  BY <2>1, <2>3
<1>6. ASSUME NEW w, w \in Members(f)
      PROVE  \E k \in StylesAt : w = Put1(Two(k, i), style)
  <2>1. PICK k \in 1 .. 5 : w = Put1(Two(s + k - 1, i), style)
    BY <1>2, <1>5, <1>6
  <2> QED  BY <1>3, <2>1
<1>7. ASSUME NEW k \in StylesAt
      PROVE  Put1(Two(k, i), style) \in Members(f)
  <2>1. PICK l \in 1 .. 5 : k = s + l - 1
    BY <1>1, StylesAre
  <2>2. f[l] = Put1(Two(k, i), style)
    BY <1>2, <2>1
  <2> QED  BY <1>5, <2>2
<1> QED  BY <1>1, <1>5, <1>6, <1>7

LEMMA FourAre ==
    ASSUME NEW S, NEW a \in S, NEW b \in S, NEW c \in S, NEW d \in S
    PROVE  <<a, b, c, d>> \in Seq(S) /\ Members(<<a, b, c, d>>) = {a, b, c, d}
<1>1. PICK l : l = <<a, b, c, d>>
  OBVIOUS
<1>2. l \in Seq(S) /\ Len(l) = 4 /\ l[1] = a /\ l[2] = b /\ l[3] = c /\ l[4] = d
  BY <1>1
<1>3. Members(l) = {a, b, c, d}
  <2>1. 1 .. 4 = {1, 2, 3, 4}
    OBVIOUS
  <2> QED  BY <1>2, <2>1 DEF Members
<1> QED  BY <1>1, <1>2, <1>3

\* p is not a place of an item of I.
Apart(p, I) == Len(p) \in {0, 1} \/ p[2] \notin I

TextHeld(t, j, style) ==
    /\ Held(t, Two(0, j)) = None /\ Held(t, Two(1, j)) = Number(j + 1)
    /\ \A k \in StylesAt : Held(t, Two(k, j)) = Number(style)

LEMMA TextWritten ==
    ASSUME NEW n, IsTree(n), kind = "text", NEW i \in Nat, NEW style \in ChartVals, NEW t, t = SetTextAt(n, i, style)
    PROVE  /\ IsTree(t) /\ TextHeld(t, i, style)
           /\ \A p \in Position : Apart(p, {i}) => Held(t, p) = Held(n, p)
<1>1. PICK a, b, c, d : a = Put1(Two(0, i), 0) /\ b = Put1(Three(0, i, 0), i + 1) /\ c = Put1(Three(0, i, 1), i + 1)
                        /\ d = Put1(Two(1, i), i + 1)
  OBVIOUS
<1>2. i + 1 \in Vals /\ 0 \in Vals /\ style \in Vals
  BY ChartValsIs DEF ChartVals
<1>3. a \in Puts /\ a[1] = Two(0, i) /\ a[2] = 0 /\ d \in Puts /\ d[1] = Two(1, i) /\ d[2] = i + 1
  <2>1. Two(0, i) \in Position /\ Two(1, i) \in Position
    BY TwoIs
  <2> QED  BY <1>1, <1>2, <2>1, PutIsOne
<1>4. b \in Puts /\ b[1] = Three(0, i, 0) /\ c \in Puts /\ c[1] = Three(0, i, 1)
  <2>1. Three(0, i, 0) \in Position /\ Three(0, i, 1) \in Position
    BY ThreeIs
  <2> QED  BY <1>1, <1>2, <2>1, PutIsOne
<1>5. PICK f : f = StylesOf(i, style)
  OBVIOUS
<1>6. f \in Seq(Puts) /\ \A w : w \in Members(f) <=> \E k \in StylesAt : w = Put1(Two(k, i), style)
  BY <1>5, StylesOfAre
<1>7. PICK M : M = {a, b, c, d} \cup Members(f)
  OBVIOUS
<1>8. IsWritten(n, t, M)
  <2>1. t = StoreAll(n, <<a, b, c, d>> \o f)
    BY <1>1, <1>5 DEF SetTextAt, Two, Three, Put1
  <2> PICK e : e = <<a, b, c, d>>
    OBVIOUS
  <2>2. e \in Seq(Puts) /\ Members(e) = {a, b, c, d}
    BY <1>3, <1>4, FourAre
  <2>3. e \o f \in Seq(Puts) /\ Members(e \o f) = Members(e) \cup Members(f)
    BY <1>6, <2>2, MembersConcat
  <2>4. Members(e \o f) = M
    BY <1>7, <2>2, <2>3
  <2>5. IsWritten(n, StoreAll(n, e \o f), Members(e \o f))
    BY <2>3, StoreAllWrites
  <2> QED  BY <2>1, <2>4, <2>5
<1>9. ASSUME NEW k \in StylesAt
      PROVE  /\ Put1(Two(k, i), style) \in Puts /\ Put1(Two(k, i), style)[1] = Two(k, i) /\ Put1(Two(k, i), style)[2] = style
             /\ k \in Nat /\ k # 0 /\ k # 1 /\ Two(k, i) \in Position
  <2>1. k \in Nat /\ k # 0 /\ k # 1 /\ Two(k, i) \in Position
    BY StylesAre, TwoIs
  <2> QED  BY <1>2, <2>1, PutIsOne
<1>10. \A w \in M : w = a \/ w = b \/ w = c \/ w = d \/ \E k \in StylesAt : w = Put1(Two(k, i), style)
  BY <1>6, <1>7
<1>11. ASSUME NEW w \in M
       PROVE  \/ w = a \/ w = d \/ (Len(w[1]) = 3 /\ w[1][2] = i)
              \/ \E k \in StylesAt : w[1] = Two(k, i) /\ w[2] = style
  <2>1. Len(Three(0, i, 0)) = 3 /\ Three(0, i, 0)[2] = i /\ Len(Three(0, i, 1)) = 3 /\ Three(0, i, 1)[2] = i
    BY ThreeIs
  <2> QED  BY <1>4, <1>9, <1>10, <2>1
<1>12. ASSUME NEW k \in Nat
       PROVE  Two(k, i) \in Position /\ Len(Two(k, i)) = 2 /\ Two(k, i)[2] = i
              /\ \A l \in Nat : Two(k, i) = Two(l, i) => k = l
  <2>1. ASSUME NEW l \in Nat, Two(k, i) = Two(l, i)
        PROVE  k = l
    <3>1. Two(k, i)[1] = k /\ Two(l, i)[1] = l
      BY TwoIs
    <3> QED  BY <2>1, <3>1
  <2> QED  BY <2>1, TwoIs
<1>13. Held(t, Two(0, i)) = None
  <2>1. a \in M /\ Two(0, i) \in Position
    BY <1>7, <1>12
  <2>2. ASSUME NEW w \in M, w[1] = Two(0, i)
        PROVE  w = a
    <3>1. Two(0, i) # Two(1, i) /\ Len(Two(0, i)) = 2 /\ \A k \in StylesAt : Two(0, i) # Two(k, i)
      BY <1>9, <1>12
    <3> QED  BY <1>3, <1>11, <2>2, <3>1
  <2>3. Held(t, Two(0, i)) = Number(0)
    BY <1>3, <1>8, <2>1, <2>2 DEF IsWritten
  <2> QED  BY <1>2, <2>3, NumberIs
<1>14. Held(t, Two(1, i)) = Number(i + 1)
  <2>1. d \in M /\ Two(1, i) \in Position
    BY <1>7, <1>12
  <2>2. ASSUME NEW w \in M, w[1] = Two(1, i)
        PROVE  w = d
    <3>1. Two(0, i) # Two(1, i) /\ Len(Two(1, i)) = 2 /\ \A k \in StylesAt : Two(1, i) # Two(k, i)
      BY <1>9, <1>12
    <3> QED  BY <1>3, <1>11, <2>2, <3>1
  <2> QED  BY <1>3, <1>8, <2>1, <2>2 DEF IsWritten
<1>15. ASSUME NEW k \in StylesAt
       PROVE  Held(t, Two(k, i)) = Number(style)
  <2>1. PICK y : y = Put1(Two(k, i), style)
    OBVIOUS
  <2>2. y \in M /\ y[1] = Two(k, i) /\ Two(k, i) \in Position
    BY <1>6, <1>7, <1>9, <2>1
  <2>3. ASSUME NEW w \in M, w[1] = Two(k, i)
        PROVE  w[2] = style
    <3>1. Two(k, i) # Two(0, i) /\ Two(k, i) # Two(1, i) /\ Len(Two(k, i)) = 2
      BY <1>9, <1>12
    <3> QED  BY <1>3, <1>11, <2>3, <3>1
  <2> QED  BY <1>8, <2>2, <2>3 DEF IsWritten
<1>16. ASSUME NEW p \in Position, Apart(p, {i})
       PROVE  Held(t, p) = Held(n, p)
  <2>1. ASSUME NEW w \in M
        PROVE  Len(w[1]) \in {2, 3} /\ w[1][2] = i
    BY <1>3, <1>9, <1>11, <1>12
  <2>2. \A w \in M : w[1] # p
    BY <1>16, <2>1 DEF Apart
  <2> QED  BY <1>8, <2>2 DEF IsWritten
<1> QED  BY <1>8, <1>13, <1>14, <1>15, <1>16 DEF IsWritten, TextHeld

LEMMA OneText ==
    ASSUME NEW style, NEW n, NEW i
    PROVE  OneMore("text", style, n, i) = SetTextAt(n, i, style)
  BY DEF OneMore

LEMMA TextStages ==
    ASSUME NEW n, NEW list, Len(list) \in Nat, NEW style
    PROVE  \E f : Stages(f, "text", style, n, list) /\ SetTextAll(n, list, style) = f[Len(list)]
<1>1. PICK m : m = Len(list)
  OBVIOUS
<1> DEFINE body(up) == [k \in 0 .. m |-> IF k = 0 THEN n ELSE SetTextAt(up[k - 1], list[k], style)]
           all == CHOOSE up : up = body(up)
<1>2. SetTextAll(n, list, style) = all[m]
  BY <1>1 DEF SetTextAll, FoldAlong
<1>3. \E up : up = body(up)
  <2>1. PICK f : f = [k \in 0 .. m |-> f[k]] /\ Stages(f, "text", style, n, list)
    BY <1>1, StagesExist
  <2>2. f[0] = n /\ \A k \in 1 .. m : f[k] = SetTextAt(f[k - 1], list[k], style)
    BY <1>1, <2>1, OneText DEF Stages
  <2>3. \A k \in 0 .. m : f[k] = IF k = 0 THEN n ELSE SetTextAt(f[k - 1], list[k], style)
    <3>1. m \in Nat /\ \A k \in 0 .. m : k = 0 \/ k \in 1 .. m
      BY <1>1
    <3> QED  BY <2>2, <3>1
  <2>4. f = body(f)
    BY <2>1, <2>3
  <2> QED  BY <2>4
<1>4. all = body(all)
  BY <1>3
<1> HIDE DEF all
<1>5. Stages(all, "text", style, n, list)
  <2>1. all[0] = n /\ \A k \in 1 .. m : all[k] = SetTextAt(all[k - 1], list[k], style)
    BY <1>1, <1>4
  <2> QED  BY <1>1, <2>1, OneText DEF Stages
<1> QED  BY <1>1, <1>2, <1>5

\* What writing the texts of the items I leaves behind.
TextsHeld(n, t, I, style) ==
    /\ IsTree(t)
    /\ \A j \in I : TextHeld(t, j, style)
    /\ \A p \in Position : Apart(p, I) => Held(t, p) = Held(n, p)

LEMMA OneMoreText ==
    ASSUME NEW n, NEW t, NEW I \in SUBSET Nat, NEW style \in ChartVals, TextsHeld(n, t, I, style),
           kind = "text", NEW a \in Nat, NEW u, u = SetTextAt(t, a, style)
    PROVE  TextsHeld(n, u, I \cup {a}, style)
<1>1. IsTree(u) /\ TextHeld(u, a, style) /\ \A p \in Position : Apart(p, {a}) => Held(u, p) = Held(t, p)
  <2>1. IsTree(t)
    BY DEF TextsHeld
  <2> QED  BY <2>1, TextWritten
<1>2. ASSUME NEW j \in I, j # a
      PROVE  TextHeld(u, j, style)
  <2>1. TextHeld(t, j, style)
    BY DEF TextsHeld
  <2>2. ASSUME NEW k \in Nat
        PROVE  Held(u, Two(k, j)) = Held(t, Two(k, j))
    <3>1. Two(k, j) \in Position /\ Two(k, j)[2] = j
      BY TwoIs
    <3>2. Apart(Two(k, j), {a})
      BY <1>2, <3>1 DEF Apart
    <3> QED  BY <1>1, <3>1, <3>2
  <2>3. StylesAt \subseteq Nat
    BY StylesAre
  <2> QED  BY <2>1, <2>2, <2>3 DEF TextHeld
<1>3. ASSUME NEW p \in Position, Apart(p, I \cup {a})
      PROVE  Held(u, p) = Held(n, p)
  <2>1. Apart(p, {a}) /\ Apart(p, I)
    BY <1>3 DEF Apart
  <2> QED  BY <1>1, <2>1 DEF TextsHeld
<1> QED  BY <1>1, <1>2, <1>3 DEF TextsHeld

LEMMA TextsWritten ==
    ASSUME NEW n, IsTree(n), NEW list \in Seq(Nat), NEW style \in ChartVals, kind = "text"
    PROVE  TextsHeld(n, SetTextAll(n, list, style), Members(list), style)
<1>1. PICK m : m = Len(list)
  OBVIOUS
<1>2. m \in Nat /\ \A k \in 1 .. m : list[k] \in Nat
  BY <1>1
<1>3. PICK f : Stages(f, "text", style, n, list) /\ SetTextAll(n, list, style) = f[m]
  BY <1>1, <1>2, TextStages
<1> DEFINE Before(j) == {list[k] : k \in 1 .. j}
           K == {j \in Nat : j <= m => TextsHeld(n, f[j], Before(j), style)}
<1>4. 0 \in K
  <2>1. f[0] = n /\ Before(0) = {}
    BY <1>3 DEF Stages
  <2> QED  BY <2>1 DEF TextsHeld
<1>5. ASSUME NEW j \in Nat, j \in K
      PROVE  j + 1 \in K
  <2> SUFFICES ASSUME j + 1 <= m
               PROVE  TextsHeld(n, f[j + 1], Before(j + 1), style)
    OBVIOUS
  <2>1. j + 1 \in 1 .. m /\ j + 1 - 1 = j /\ TextsHeld(n, f[j], Before(j), style)
    BY <1>2, <1>5
  <2>2. PICK a \in Nat : a = list[j + 1]
    BY <1>2, <2>1
  <2>3. f[j + 1] = SetTextAt(f[j], a, style)
    <3>1. f[j + 1] = OneMore("text", style, f[j], list[j + 1])
      BY <1>1, <1>3, <2>1 DEF Stages
    <3> QED  BY <2>2, <3>1 DEF OneMore
  <2>4. Before(j + 1) = Before(j) \cup {a}
    BY <1>5, <2>2, OneMember
  <2>5. Before(j) \in SUBSET Nat
    <3>1. \A k \in 1 .. j : k \in 1 .. m
      BY <1>2, <2>1
    <3> QED  BY <1>2, <3>1
  <2> HIDE DEF Before
  <2> QED  BY <2>1, <2>3, <2>4, <2>5, OneMoreText
<1>6. K \in SUBSET Nat
  OBVIOUS
<1> HIDE DEF K
<1>7. K = Nat
  BY <1>4, <1>5, <1>6, AllNumbers
<1>8. m \in K
  BY <1>2, <1>7
<1> QED  BY <1>1, <1>2, <1>3, <1>8 DEF K, Members

-----------------------------------------------------------------------------
(* Lines *)

LEMMA PointsAre ==
    ASSUME NEW i \in Nat, NEW m \in Nat, NEW v \in ChartVals
    PROVE  /\ PointsOf(i, m, v) \in Seq(Puts)
           /\ \A w \in Members(PointsOf(i, m, v)) : \E c, j \in Nat : w = Put1(Four(0, i, c, j), v)
           /\ \A j \in 1 .. m : Put1(Four(0, i, 0, j - 1), v) \in Members(PointsOf(i, m, v))
<1>1. PICK f : f = PointsOf(i, m, v)
  OBVIOUS
<1>2. f = [k \in 1 .. 2 * m |-> Put1(Four(0, i, (k - 1) % 2, (k - 1) \div 2), v)]
  BY <1>1 DEF PointsOf, CoordinatesOf, Put1, Four
<1>3. \A k \in 1 .. 2 * m : (k - 1) % 2 \in Nat /\ (k - 1) \div 2 \in Nat
  OBVIOUS
<1>4. f \in [1 .. 2 * m -> Puts]
  <2> SUFFICES ASSUME NEW k \in 1 .. 2 * m
               PROVE  Put1(Four(0, i, (k - 1) % 2, (k - 1) \div 2), v) \in Puts
    BY <1>2
  <2>1. Four(0, i, (k - 1) % 2, (k - 1) \div 2) \in Position /\ v \in Vals
    BY <1>3, FourIs, ChartValsIs
  <2> QED  BY <2>1, PutIsOne
<1>5. f \in Seq(Puts) /\ Members(f) = {f[k] : k \in 1 .. 2 * m}
  <2>1. PICK l \in Nat : l = 2 * m
    OBVIOUS
  <2>2. f \in [1 .. l -> Puts]
    BY <1>4, <2>1
  <2>3. f \in Seq(Puts) /\ Members(f) = {f[k] : k \in 1 .. l}
    BY <2>2, ListIs
  <2> QED  BY <2>1, <2>3
<1>6. \A w \in Members(f) : \E c, j \in Nat : w = Put1(Four(0, i, c, j), v)
  BY <1>2, <1>3, <1>5
<1>7. ASSUME NEW j \in 1 .. m
      PROVE  Put1(Four(0, i, 0, j - 1), v) \in Members(f)
  <2>1. PICK k \in 1 .. 2 * m : k = 2 * j - 1
    OBVIOUS
  <2>2. (k - 1) % 2 = 0 /\ (k - 1) \div 2 = j - 1
    BY <2>1
  <2>3. f[k] = Put1(Four(0, i, 0, j - 1), v)
    BY <1>2, <2>2
  <2> QED  BY <1>5, <2>3
<1> QED  BY <1>1, <1>5, <1>6, <1>7

AfterLine(n, i, m, v, style) ==
    StoreAll(n, PointsOf(i, m, v) \o StylesOf(i, style) \o << <<Two(0, i), 0>> >>)

\* What writing a line of m points at v leaves behind.
LineHeld(n, t, i, m, v, style) ==
    /\ IsTree(t) /\ Held(t, Two(0, i)) = None
    /\ \A k \in StylesAt : Held(t, Two(k, i)) = Number(style)
    /\ \A j \in 1 .. m : Held(t, Four(0, i, 0, j - 1)) = Number(v)
    /\ \A p \in Position : Apart(p, {i}) => Held(t, p) = Held(n, p)

FourStored(i, c, j, v) ==
    /\ Put1(Four(0, i, c, j), v)[1] = Four(0, i, c, j) /\ Put1(Four(0, i, c, j), v)[2] = v
    /\ Four(0, i, c, j) \in Position /\ Len(Four(0, i, c, j)) = 4 /\ Four(0, i, c, j)[2] = i

LEMMA FourStore ==
    ASSUME NEW i \in Nat, NEW c \in Nat, NEW j \in Nat, NEW v \in Vals
    PROVE  FourStored(i, c, j, v)
<1>1. Four(0, i, c, j) \in Position /\ Len(Four(0, i, c, j)) = 4 /\ Four(0, i, c, j)[2] = i
  BY FourIs
<1> QED  BY <1>1, PutIsOne DEF FourStored

LEMMA LineWritten ==
    ASSUME NEW n, IsTree(n), kind = "line", NEW i \in Nat, NEW m \in Nat, NEW v \in ChartVals, NEW style \in ChartVals,
           NEW t, t = AfterLine(n, i, m, v, style)
    PROVE  LineHeld(n, t, i, m, v, style)
<1>1. PICK f, g, a : f = PointsOf(i, m, v) /\ g = StylesOf(i, style) /\ a = Put1(Two(0, i), 0)
  OBVIOUS
<1>2. /\ f \in Seq(Puts)
      /\ \A w \in Members(f) : \E c, j \in Nat : w = Put1(Four(0, i, c, j), v)
      /\ \A j \in 1 .. m : Put1(Four(0, i, 0, j - 1), v) \in Members(f)
  BY <1>1, PointsAre
<1>3. g \in Seq(Puts) /\ \A w : w \in Members(g) <=> \E k \in StylesAt : w = Put1(Two(k, i), style)
  BY <1>1, StylesOfAre
<1>4. 0 \in Vals /\ style \in Vals /\ v \in Vals
  BY ChartValsIs
<1>5. a \in Puts /\ a[1] = Two(0, i) /\ a[2] = 0
  <2>1. Two(0, i) \in Position
    BY TwoIs
  <2> QED  BY <1>1, <1>4, <2>1, PutIsOne
<1>6. <<a>> \in Seq(Puts) /\ Members(<<a>>) = {a}
  <2>1. PICK l : l = <<a>>
    OBVIOUS
  <2>2. l \in Seq(Puts) /\ Len(l) = 1 /\ l[1] = a
    BY <1>5, <2>1
  <2>3. 1 .. 1 = {1}
    OBVIOUS
  <2>4. Members(l) = {a}
    BY <2>2, <2>3 DEF Members
  <2> QED  BY <2>1, <2>2, <2>4
<1>7. PICK M : M = Members(f) \cup Members(g) \cup {a}
  OBVIOUS
<1>8. IsWritten(n, t, M)
  <2>0. PICK e, h : e = <<a>> /\ h = f \o g
    OBVIOUS
  <2>1. t = StoreAll(n, h \o e)
    BY <1>1, <2>0 DEF AfterLine, Put1
  <2>2. h \in Seq(Puts) /\ Members(h) = Members(f) \cup Members(g)
    BY <1>2, <1>3, <2>0, MembersConcat
  <2>3. e \in Seq(Puts) /\ Members(e) = {a}
    BY <1>6, <2>0
  <2>4. h \o e \in Seq(Puts) /\ Members(h \o e) = Members(h) \cup Members(e)
    BY <2>2, <2>3, MembersConcat
  <2>5. Members(h \o e) = M
    BY <1>7, <2>2, <2>3, <2>4
  <2>6. IsWritten(n, StoreAll(n, h \o e), Members(h \o e))
    BY <2>4, StoreAllWrites
  <2> QED  BY <2>1, <2>5, <2>6
<1>9. ASSUME NEW k \in StylesAt
      PROVE  /\ Put1(Two(k, i), style)[1] = Two(k, i) /\ Put1(Two(k, i), style)[2] = style
             /\ k \in Nat /\ k # 0 /\ Two(k, i) \in Position
  <2>1. k \in Nat /\ k # 0 /\ Two(k, i) \in Position
    BY StylesAre, TwoIs
  <2> QED  BY <1>4, <2>1, PutIsOne
<1>10. ASSUME NEW c \in Nat, NEW j \in Nat
       PROVE  /\ Put1(Four(0, i, c, j), v)[1] = Four(0, i, c, j) /\ Put1(Four(0, i, c, j), v)[2] = v
              /\ Four(0, i, c, j) \in Position /\ Len(Four(0, i, c, j)) = 4 /\ Four(0, i, c, j)[2] = i
  <2>1. FourStored(i, c, j, v)
    BY <1>4, FourStore
  <2> QED  BY <2>1 DEF FourStored
<1>11. ASSUME NEW w \in M
       PROVE  \/ w = a \/ (Len(w[1]) = 4 /\ w[1][2] = i /\ w[2] = v)
              \/ \E k \in StylesAt : w[1] = Two(k, i) /\ w[2] = style
  <2>1. CASE w \in Members(f)
    <3>1. PICK c \in Nat, j \in Nat : w = Put1(Four(0, i, c, j), v)
      BY <1>2, <2>1
    <3> QED  BY <1>10, <3>1
  <2>2. CASE w \in Members(g)
    BY <1>3, <1>9, <2>2
  <2> QED  BY <1>7, <2>1, <2>2
<1>12. ASSUME NEW k \in Nat
       PROVE  Two(k, i) \in Position /\ Len(Two(k, i)) = 2 /\ Two(k, i)[2] = i
              /\ \A l \in Nat : Two(k, i) = Two(l, i) => k = l
  <2>1. ASSUME NEW l \in Nat, Two(k, i) = Two(l, i)
        PROVE  k = l
    <3>1. Two(k, i)[1] = k /\ Two(l, i)[1] = l
      BY TwoIs
    <3> QED  BY <2>1, <3>1
  <2> QED  BY <2>1, TwoIs
<1>13. Held(t, Two(0, i)) = None
  <2>1. a \in M /\ Two(0, i) \in Position
    BY <1>7, <1>12
  <2>2. ASSUME NEW w \in M, w[1] = Two(0, i)
        PROVE  w = a
    <3>1. Len(Two(0, i)) = 2 /\ \A k \in StylesAt : Two(0, i) # Two(k, i)
      BY <1>9, <1>12
    <3> QED  BY <1>11, <2>2, <3>1
  <2>3. Held(t, Two(0, i)) = Number(0)
    BY <1>5, <1>8, <2>1, <2>2 DEF IsWritten
  <2> QED  BY <1>4, <2>3, NumberIs
<1>14. ASSUME NEW k \in StylesAt
       PROVE  Held(t, Two(k, i)) = Number(style)
  <2>1. PICK y : y = Put1(Two(k, i), style)
    OBVIOUS
  <2>2. y \in M /\ y[1] = Two(k, i) /\ Two(k, i) \in Position
    BY <1>3, <1>7, <1>9, <2>1
  <2>3. ASSUME NEW w \in M, w[1] = Two(k, i)
        PROVE  w[2] = style
    <3>1. Two(k, i) # Two(0, i) /\ Len(Two(k, i)) = 2
      BY <1>9, <1>12
    <3> QED  BY <1>5, <1>11, <2>3, <3>1
  <2> QED  BY <1>8, <2>2, <2>3 DEF IsWritten
<1>15. ASSUME NEW j \in 1 .. m
       PROVE  Held(t, Four(0, i, 0, j - 1)) = Number(v)
  <2>1. PICK p, y : p = Four(0, i, 0, j - 1) /\ y = Put1(Four(0, i, 0, j - 1), v)
    OBVIOUS
  <2>2. y \in M /\ y[1] = p /\ p \in Position /\ Len(p) = 4
    BY <1>2, <1>7, <1>10, <2>1
  <2>3. ASSUME NEW w \in M, w[1] = p
        PROVE  w[2] = v
    <3>1. Len(Two(0, i)) = 2 /\ \A k \in StylesAt : Len(Two(k, i)) = 2
      BY <1>9, <1>12
    <3> QED  BY <1>5, <1>11, <2>2, <2>3, <3>1
  <2>4. Held(t, p) = Number(v)
    BY <1>8, <2>2, <2>3 DEF IsWritten
  <2> QED  BY <2>1, <2>4
<1>16. ASSUME NEW p \in Position, Apart(p, {i})
       PROVE  Held(t, p) = Held(n, p)
  <2>1. ASSUME NEW w \in M
        PROVE  Len(w[1]) \in {2, 4} /\ w[1][2] = i
    BY <1>5, <1>9, <1>11, <1>12
  <2>2. \A w \in M : w[1] # p
    BY <1>16, <2>1 DEF Apart
  <2> QED  BY <1>8, <2>2 DEF IsWritten
<1> QED  BY <1>8, <1>13, <1>14, <1>15, <1>16 DEF IsWritten, LineHeld

\* What setting two neighbouring places of a background leaves behind.
LEMMA BackgroundWritten ==
    ASSUME NEW n, IsTree(n), NEW i \in Nat, NEW v \in ChartVals,
           NEW t, t = StoreAll(n, << <<One(i), v>>, <<One(i + 1), v>> >>)
    PROVE  /\ IsTree(t) /\ Held(t, One(i)) = Number(v) /\ Held(t, One(i + 1)) = Number(v)
           /\ \A p \in Position : p # One(i) /\ p # One(i + 1) => Held(t, p) = Held(n, p)
<1>1. PICK a, b : a = Put1(One(i), v) /\ b = Put1(One(i + 1), v)
  OBVIOUS
<1>2. PICK list : list = <<a, b>>
  OBVIOUS
<1>3. One(i) \in Position /\ One(i + 1) \in Position /\ v \in Vals
  BY OneIs, ChartValsIs
<1>4. a \in Puts /\ a[1] = One(i) /\ a[2] = v /\ b \in Puts /\ b[1] = One(i + 1) /\ b[2] = v
  BY <1>1, <1>3, PutIsOne
<1>5. list \in Seq(Puts) /\ Members(list) = {a, b}
  BY <1>2, <1>4, PairIs
<1>6. t = StoreAll(n, list)
  BY <1>1, <1>2 DEF Put1
<1>7. IsWritten(n, t, {a, b})
  BY <1>5, <1>6, StoreAllWrites
<1> QED  BY <1>3, <1>4, <1>7 DEF IsWritten

-----------------------------------------------------------------------------
(* What a chart has at its places *)

ItemOf(style, isEnabled, points) == [style |-> style, isEnabled |-> isEnabled, points |-> points]

IsItem(it) ==
    /\ it = ItemOf(it.style, it.isEnabled, it.points)
    /\ it.style \in Styles \cup {Default} /\ it.isEnabled \in BOOLEAN
    /\ kind = "text" => it.points[1] \in Nat \ {0}
    /\ kind = "line" => DOMAIN it.points \subseteq Nat \ {0} /\ \A l \in DOMAIN it.points : it.points[l] \in Styles

LEMMA ItemIs ==
    ASSUME NEW style \in Styles \cup {Default}, NEW isEnabled \in BOOLEAN, NEW points,
           NEW it, it = ItemOf(style, isEnabled, points),
           kind = "text" => points[1] \in Nat \ {0},
           kind = "line" => DOMAIN points \subseteq Nat \ {0} /\ \A l \in DOMAIN points : points[l] \in Styles
    PROVE  IsItem(it) /\ it.style = style /\ it.isEnabled = isEnabled /\ it.points = points
<1>1. it.style = style /\ it.isEnabled = isEnabled /\ it.points = points
  BY DEF ItemOf
<1> QED  BY <1>1 DEF IsItem

ItemHeld(t, j, it) ==
    /\ Held(t, Two(0, j)) = Number(IF it.isEnabled THEN 0 ELSE 1)
    /\ \A k \in StylesAt : Held(t, Two(k, j)) = Number(it.style)
    /\ kind = "text" => Held(t, Two(1, j)) = Number(it.points[1])
    /\ kind = "line" => \A l \in DOMAIN it.points : Held(t, Four(0, j, 0, l - 1)) = Number(it.points[l])

\* The flag of the drawing and the styles for all.
AllHeld(t, d, enabled) ==
    /\ enabled \in {0, 1} /\ Held(t, <<>>) = Number(enabled)
    /\ d \in Styles \cup {Standard, Nothing}
    /\ kind \in {"text", "line"} =>
         \A k \in StylesAt : Held(t, One(k)) = IF d = Nothing THEN None ELSE Number(d)

ItemsHeld(t, its) ==
    /\ DOMAIN its \subseteq Nat
    /\ kind \in {"text", "line"} => \A j \in DOMAIN its : IsItem(its[j]) /\ ItemHeld(t, j, its[j])
    /\ kind = "background" =>
         \A j \in DOMAIN its : /\ j \in {0, 2, 4} /\ its[j].style \in Styles
                               /\ Held(t, One(j)) = Number(its[j].style) /\ Held(t, One(j + 1)) = Number(its[j].style)

ChartHeld(t, d, its, enabled) == IsTree(t) /\ AllHeld(t, d, enabled) /\ ItemsHeld(t, its)

\* The first level has elements once styles for all were set or items looked at.
Told(t, d, isMissed) ==
    /\ isMissed \in BOOLEAN /\ d \in Styles \cup {Standard, Nothing}
    /\ kind \in {"text", "line"} => (IsBegun(t) <=> isMissed \/ d # Nothing)

ChartInv == kind \in Kinds /\ Told(chart, defaults, missed) /\ ChartHeld(chart, Available, items, drawing)

AvailableNow == IF missed THEN Nothing ELSE DefaultsNow

\* A place that has a value has a level it is in.
LEMMA BegunByPlace ==
    ASSUME NEW t, IsTree(t), NEW i \in Nat, One(i) \in DOMAIN t \/ Held(t, One(i)) # None
    PROVE  IsBegun(t)
<1>1. PICK p, M : p = One(i) /\ M = t[<<>>]
  OBVIOUS
<1>2. p = Append(<<>>, i)
  BY <1>1 DEF One
<1>3. p \in Position /\ p # <<>> /\ Front(p) = <<>> /\ Last(p) = i
  BY <1>2, RootIs, AppendIs
<1>4. IsMatrix(M) /\ M.vector.Length \in Nat /\ <<>> \in DOMAIN t
  BY <1>1 DEF IsTree, IsMatrix, IsVector
<1>5. CASE p \in DOMAIN t
  <2>1. CellAt(M, i).format = "MATRIX"
    BY <1>1, <1>2, <1>4, <1>5 DEF IsTree
  <2>2. i < M.vector.Length
    BY <1>4, <2>1 DEF IsMatrix
  <2> QED  BY <1>1, <1>4, <2>2 DEF IsBegun
<1>6. CASE p \notin DOMAIN t
  <2>1. Held(t, p) = Plain(CellAt(M, i)) /\ Held(t, p) # None
    BY <1>1, <1>3, <1>4, <1>6 DEF Held
  <2>2. CellAt(M, i).value # NULL
    BY <2>1 DEF Plain
  <2>3. Get(M.vector, i, NULL) # NULL
    BY <2>2, CellIs DEF CellAt
  <2>4. i < M.vector.Length
    BY <2>3 DEF Get
  <2> QED  BY <1>1, <1>4, <2>4 DEF IsBegun
<1> QED  BY <1>5, <1>6

LEMMA NotNone ==
    ASSUME NEW v \in Vals, v # 0
    PROVE  Number(v) # None
<1>1. Number(v) = Cell(v, "NUMBER") /\ None = Cell(NULL, "NONE")
  BY NumberIs DEF None
<1>2. Cell(v, "NUMBER").format = "NUMBER" /\ Cell(NULL, "NONE").format = "NONE"
  BY CellIs
<1> QED  BY <1>1, <1>2

LEMMA BegunByStyles ==
    ASSUME NEW t, NEW d, NEW its, NEW enabled, ChartHeld(t, d, its, enabled), kind \in {"text", "line"}, d # Nothing
    PROVE  IsBegun(t)
<1>1. PICK k \in StylesAt : k \in Nat
  BY StylesAre
<1>2. Held(t, One(k)) = Number(d) /\ d \in ChartVals /\ d # 0
  BY ChartAssumption DEF ChartHeld, AllHeld, ChartVals
<1>3. d \in Vals
  BY <1>2, ChartValsIs
<1>4. Number(d) # None
  BY <1>2, <1>3, NotNone
<1> QED  BY <1>1, <1>2, <1>4, BegunByPlace DEF ChartHeld

LEMMA BegunByItem ==
    ASSUME NEW t, NEW d, NEW its, NEW enabled, ChartHeld(t, d, its, enabled), kind \in {"text", "line"},
           NEW j \in DOMAIN its
    PROVE  IsBegun(t)
<1>1. PICK k \in StylesAt : k \in Nat
  BY StylesAre
<1>2. PICK it, p : it = its[j] /\ p = Two(k, j)
  OBVIOUS
<1>3. j \in Nat /\ IsItem(it) /\ ItemHeld(t, j, it) /\ IsTree(t)
  BY <1>2 DEF ChartHeld, ItemsHeld
<1>4. Held(t, p) = Number(it.style) /\ it.style \in Vals /\ it.style # 0
  BY <1>2, <1>3, ChartAssumption DEF ItemHeld, IsItem, Vals
<1>5. Held(t, p) # None
  BY <1>4, NotNone
<1>6. p = Append(One(k), j) /\ One(k) \in Position
  BY <1>1, <1>2, OneIs DEF One, Two
<1>7. p # <<>> /\ Front(p) = One(k)
  BY <1>3, <1>6, AppendIs
<1>8. One(k) \in DOMAIN t
  <2>1. p \in DOMAIN t => Front(p) \in DOMAIN t
    BY <1>3, <1>7 DEF IsTree
  <2>2. p \notin DOMAIN t /\ Front(p) \notin DOMAIN t => Held(t, p) = Plain(None)
    BY DEF Held
  <2>3. Plain(None) = None
    BY DEF Plain
  <2> QED  BY <1>5, <1>7, <2>1, <2>2, <2>3
<1> QED  BY <1>1, <1>3, <1>8, BegunByPlace

\* What the stores of a flag leave of the first level.
LEMMA RootStored ==
    ASSUME NEW n, IsTree(n), NEW v
    PROVE  IsBegun(Store(n, <<>>, v)) <=> IsBegun(n)
<1>1. PICK w : w = BeforeLastLevel(n, <<>>, TRUE)
  OBVIOUS
<1>2. w.node = n
  BY <1>1, NoWay
<1>3. Store(n, <<>>, v) = [n EXCEPT ![<<>>].scalar = Cell(v, "NUMBER")]
  BY <1>1, <1>2 DEF Store, SetValue
<1>4. Store(n, <<>>, v)[<<>>].vector = n[<<>>].vector
  <2>1. PICK M, c : M = n[<<>>] /\ c = Cell(v, "NUMBER")
    OBVIOUS
  <2>2. [M EXCEPT !.scalar = c] = MatrixOf(M.vector, M.DataFormat, c)
    BY <2>1, ScalarReplaced DEF IsTree, IsMatrix
  <2>3. Store(n, <<>>, v)[<<>>] = [M EXCEPT !.scalar = c]
    BY <1>3, <2>1 DEF IsTree
  <2> QED  BY <2>1, <2>2, <2>3, MatrixOfIs
<1> QED  BY <1>4 DEF IsBegun

LEMMA FlagStored ==
    ASSUME NEW n, IsTree(n), NEW i \in Nat, NEW v \in {0, 1}, NEW u, u = Store(n, Two(0, i), v)
    PROVE  IsBegun(u)
<1>1. PICK p, c, b : p = Two(0, i) /\ c = Cell(v, "NUMBER") /\ b = BeforeLastLevel(n, Two(0, i), TRUE).node
  OBVIOUS
<1>2. p = Append(One(0), i) /\ One(0) \in Position /\ p \in Position
  BY <1>1, OneIs, TwoIs DEF One, Two
<1>3. p # <<>> /\ Front(p) = One(0)
  BY <1>2, AppendIs
<1>4. Grown(n, b) /\ Front(p) \in DOMAIN b
  BY <1>1, <1>2, <1>3, LevelCreated
<1>5. IsCell(c) /\ c.format # "MATRIX"
  BY <1>1, CellIs, ChartValsIs DEF IsCell, Formats
<1>6. PICK w : w = SetValue(b, NoRoom, p, c)
  OBVIOUS
<1>7. IsTree(w.node) /\ DOMAIN b \subseteq DOMAIN w.node
  BY <1>2, <1>4, <1>5, <1>6, SetValueIs DEF Grown
<1>8. u = w.node
  BY <1>1, <1>6 DEF Store
<1> QED  BY <1>3, <1>4, <1>7, <1>8, BegunByPlace

\* An item is as before when its places are.
LEMMA ItemKept ==
    ASSUME NEW t, NEW u, NEW j \in Nat, NEW it, kind \in {"text", "line"}, IsItem(it), ItemHeld(t, j, it),
           \A p \in Position : Len(p) \in {2, 4} /\ p[2] = j => Held(u, p) = Held(t, p)
    PROVE  ItemHeld(u, j, it)
<1>1. ASSUME NEW k \in Nat
      PROVE  Held(u, Two(k, j)) = Held(t, Two(k, j))
  <2>1. Two(k, j) \in Position /\ Len(Two(k, j)) = 2 /\ Two(k, j)[2] = j
    BY TwoIs
  <2> QED  BY <2>1
<1>2. ASSUME NEW l \in Nat \ {0}
      PROVE  Held(u, Four(0, j, 0, l - 1)) = Held(t, Four(0, j, 0, l - 1))
  <2>1. PICK m \in Nat : m = l - 1
    OBVIOUS
  <2>2. Four(0, j, 0, m) \in Position /\ Len(Four(0, j, 0, m)) = 4 /\ Four(0, j, 0, m)[2] = j
    BY FourIs
  <2> QED  BY <2>1, <2>2
<1>3. StylesAt \subseteq Nat
  BY StylesAre
<1>4. \A k \in StylesAt : Held(u, Two(k, j)) = Number(it.style)
  BY <1>1, <1>3 DEF ItemHeld
<1>5. kind = "line" => \A l \in DOMAIN it.points : Held(u, Four(0, j, 0, l - 1)) = Number(it.points[l])
  BY <1>2 DEF ItemHeld, IsItem
<1>6. Held(u, Two(0, j)) = Number(IF it.isEnabled THEN 0 ELSE 1)
      /\ (kind = "text" => Held(u, Two(1, j)) = Number(it.points[1]))
  BY <1>1 DEF ItemHeld
<1> QED  BY <1>4, <1>5, <1>6 DEF ItemHeld

\* The styles for all and the flag are as before when their places are.
LEMMA AllKept ==
    ASSUME NEW t, NEW u, NEW d, NEW enabled, AllHeld(t, d, enabled),
           \A p \in Position : Len(p) \in {0, 1} => Held(u, p) = Held(t, p)
    PROVE  AllHeld(u, d, enabled)
<1>1. Held(u, <<>>) = Held(t, <<>>)
  BY RootIs
<1>2. ASSUME NEW k \in StylesAt, kind \in {"text", "line"}
      PROVE  Held(u, One(k)) = Held(t, One(k))
  <2>1. k \in Nat
    BY <1>2, StylesAre
  <2>2. One(k) \in Position /\ Len(One(k)) = 1
    BY <2>1, OneIs
  <2> QED  BY <2>2
<1> QED  BY <1>1, <1>2 DEF AllHeld

LEMMA ReadingKeeps ==
    ASSUME NEW t, NEW u, Grown(t, u), NEW d, NEW its, NEW enabled, ChartHeld(t, d, its, enabled)
    PROVE  ChartHeld(u, d, its, enabled)
<1>1. IsTree(u) /\ \A p \in Position : Held(u, p) = Held(t, p)
  BY DEF Grown
<1>2. AllHeld(u, d, enabled)
  BY <1>1, AllKept DEF ChartHeld
<1>3. kind \in {"text", "line"} => \A j \in DOMAIN its : IsItem(its[j]) /\ ItemHeld(u, j, its[j])
  <2> SUFFICES ASSUME kind \in {"text", "line"}, NEW j \in DOMAIN its
               PROVE  IsItem(its[j]) /\ ItemHeld(u, j, its[j])
    OBVIOUS
  <2>1. j \in Nat /\ IsItem(its[j]) /\ ItemHeld(t, j, its[j])
    BY DEF ChartHeld, ItemsHeld
  <2> PICK it : it = its[j]
    OBVIOUS
  <2>2. ItemHeld(u, j, it)
    BY <1>1, <2>1, ItemKept
  <2> QED  BY <2>1, <2>2
<1>4. \A j \in {0, 2, 4} : Held(u, One(j)) = Held(t, One(j)) /\ Held(u, One(j + 1)) = Held(t, One(j + 1))
  BY <1>1, OneIs
<1> QED  BY <1>1, <1>2, <1>3, <1>4 DEF ChartHeld, ItemsHeld

LEMMA DefaultsKeep ==
    ASSUME NEW t, NEW d, NEW its, NEW enabled, ChartHeld(t, d, its, enabled),
           kind \in {"text", "line"}, NEW style \in Styles \cup {Standard}, NEW u, u = WithDefaults(t, style)
    PROVE  ChartHeld(u, style, its, 1)
<1>1. /\ IsTree(u) /\ Held(u, <<>>) = Number(1)
      /\ \A k \in StylesAt : Held(u, One(k)) = Number(style)
      /\ \A p \in Position : Len(p) \notin {0, 1} => Held(u, p) = Held(t, p)
  <2>1. IsTree(t) /\ style \in ChartVals
    BY DEF ChartHeld, ChartVals
  <2> QED  BY <2>1, DefaultsWritten
<1>2. AllHeld(u, style, 1)
  <2>1. style # Nothing
    BY ChartAssumption
  <2> QED  BY <1>1, <2>1 DEF AllHeld
<1>3. \A j \in DOMAIN its : IsItem(its[j]) /\ ItemHeld(u, j, its[j])
  <2> SUFFICES ASSUME NEW j \in DOMAIN its
               PROVE  IsItem(its[j]) /\ ItemHeld(u, j, its[j])
    OBVIOUS
  <2>1. j \in Nat /\ IsItem(its[j]) /\ ItemHeld(t, j, its[j])
    BY DEF ChartHeld, ItemsHeld
  <2> PICK it : it = its[j]
    OBVIOUS
  <2>2. \A p \in Position : Len(p) \in {2, 4} /\ p[2] = j => Held(u, p) = Held(t, p)
    BY <1>1
  <2>3. ItemHeld(u, j, it)
    BY <2>1, <2>2, ItemKept
  <2> QED  BY <2>1, <2>3
<1> QED  BY <1>1, <1>2, <1>3 DEF ChartHeld, ItemsHeld

\* A chart that a text or a line is about to be written to.
LEMMA ReadyIs ==
    ASSUME ChartInv, kind \in {"text", "line"}
    PROVE  ChartHeld(Ready, AvailableNow, items, DrawingNow)
<1>0. IsUntouched <=> ~IsBegun(chart)
  BY DEF IsUntouched, VectorLength, IsBegun
<1>1. CASE IsUntouched
  <2>1. ~missed /\ defaults = Nothing
    BY <1>0, <1>1 DEF ChartInv, Told
  <2>2. Ready = WithDefaults(chart, Standard) /\ AvailableNow = Standard /\ DrawingNow = 1
    BY <1>1, <2>1 DEF Ready, AvailableNow, DefaultsNow, DrawingNow
  <2> QED  BY <2>2, DefaultsKeep DEF ChartInv
<1>2. CASE ~IsUntouched
  <2>1. missed \/ defaults # Nothing
    BY <1>0, <1>2 DEF ChartInv, Told
  <2>2. Ready = chart /\ AvailableNow = Available /\ DrawingNow = drawing
    BY <1>2, <2>1 DEF Ready, AvailableNow, DefaultsNow, DrawingNow, Available
  <2> QED  BY <2>2 DEF ChartInv
<1> QED  BY <1>1, <1>2

-----------------------------------------------------------------------------
(* The calls of a chart *)

LEMMA SetChartTextKeeps ==
    ASSUME ChartInv, NEW i \in Nat, NEW lines \in Nat, NEW style \in Styles \cup {Default}, SetChartText(i, lines, style)
    PROVE  ChartHeld(chart', Available', items', drawing')
<1> PICK t, d, r, u, its : t = Ready /\ d = AvailableNow /\ r = DrawingNow /\ u = chart' /\ its = items'
  OBVIOUS
<1> PICK I : I = i .. i + lines - 1
  OBVIOUS
<1>1. kind = "text" /\ ChartHeld(t, d, items, r)
  BY ReadyIs DEF SetChartText
<1>2. I \in SUBSET Nat
  OBVIOUS
<1>3. TextsHeld(t, u, I, style)
  <2>1. PICK list : list = [l \in 1 .. lines |-> i + l - 1]
    OBVIOUS
  <2>2. list \in [1 .. lines -> Nat]
    BY <2>1
  <2>3. list \in Seq(Nat) /\ Members(list) = {list[k] : k \in 1 .. lines}
    BY <2>2, ListIs
  <2>4. Members(list) = I
    <3>1. ASSUME NEW j \in I
          PROVE  \E k \in 1 .. lines : j = i + k - 1
      <4>1. j - i + 1 \in 1 .. lines /\ j = i + (j - i + 1) - 1
        OBVIOUS
      <4> QED  BY <4>1
    <3>2. \A k \in 1 .. lines : list[k] \in I
      BY <2>1
    <3>3. \A j \in I : \E k \in 1 .. lines : j = list[k]
      BY <2>1, <3>1
    <3> QED  BY <2>3, <3>2, <3>3
  <2>5. u = SetTextAll(t, list, style)
    BY <2>1 DEF SetChartText
  <2>6. IsTree(t) /\ style \in ChartVals
    BY <1>1 DEF ChartHeld, ChartVals
  <2> QED  BY <1>1, <2>3, <2>4, <2>5, <2>6, TextsWritten
<1>4. AllHeld(u, d, r)
  <2>1. \A p \in Position : Len(p) \in {0, 1} => Held(u, p) = Held(t, p)
    BY <1>3 DEF TextsHeld, Apart
  <2> QED  BY <1>1, <2>1, AllKept DEF ChartHeld
<1>5. DOMAIN its = DOMAIN items \cup I
      /\ \A j \in DOMAIN its : its[j] = IF j \in I THEN Item(style, <<j + 1>>) ELSE items[j]
  BY DEF SetChartText
<1>6. ASSUME NEW j \in I
      PROVE  IsItem(its[j]) /\ ItemHeld(u, j, its[j])
  <2>1. PICK it, p : it = its[j] /\ p = <<j + 1>>
    OBVIOUS
  <2>2. j \in Nat /\ it = ItemOf(style, TRUE, p)
    BY <1>2, <1>5, <2>1 DEF Item, ItemOf
  <2>3. PICK e \in BOOLEAN : e = TRUE
    OBVIOUS
  <2>4. p[1] = j + 1
    BY <2>1
  <2>5. IsItem(it) /\ it.style = style /\ it.isEnabled = e /\ it.points = p
    <3>1. it = ItemOf(style, e, p) /\ p[1] \in Nat \ {0}
      BY <2>2, <2>3, <2>4
    <3> QED  BY <1>1, <3>1, ItemIs
  <2>6. TextHeld(u, j, style)
    BY <1>3 DEF TextsHeld
  <2>7. Number(0) = None
    BY NumberIs, ChartValsIs
  <2>8. ItemHeld(u, j, it)
    BY <1>1, <2>3, <2>4, <2>5, <2>6, <2>7 DEF ItemHeld, TextHeld
  <2> QED  BY <2>1, <2>5, <2>8
<1>7. ASSUME NEW j \in DOMAIN its, j \notin I
      PROVE  j \in Nat /\ IsItem(its[j]) /\ ItemHeld(u, j, its[j])
  <2>1. PICK it : it = items[j]
    OBVIOUS
  <2>2. its[j] = it /\ j \in Nat /\ IsItem(it) /\ ItemHeld(t, j, it)
    BY <1>1, <1>5, <1>7, <2>1 DEF ChartHeld, ItemsHeld
  <2>3. \A p \in Position : Len(p) \in {2, 4} /\ p[2] = j => Held(u, p) = Held(t, p)
    BY <1>3, <1>7 DEF TextsHeld, Apart
  <2>4. ItemHeld(u, j, it)
    BY <1>1, <2>2, <2>3, ItemKept
  <2> QED  BY <2>2, <2>4
<1>8. ItemsHeld(u, its)
  BY <1>1, <1>2, <1>5, <1>6, <1>7 DEF ItemsHeld
<1>9. ChartHeld(u, d, its, r) /\ Available' = d
  BY <1>3, <1>4, <1>8 DEF ChartHeld, TextsHeld, SetChartText, WithFirstItem, Available, AvailableNow
<1> QED  BY <1>9 DEF SetChartText, WithFirstItem

LEMMA SetChartLineKeeps ==
    ASSUME ChartInv, NEW i \in Nat, NEW m \in Nat, NEW v \in Styles, NEW style \in Styles \cup {Default},
           SetChartLine(i, m, v, style)
    PROVE  ChartHeld(chart', Available', items', drawing')
<1> PICK t, d, r, u, its : t = Ready /\ d = AvailableNow /\ r = DrawingNow /\ u = chart' /\ its = items'
  OBVIOUS
<1>0. PICK p, it : p = [j \in 1 .. m |-> v] /\ it = ItemOf(style, TRUE, [j \in 1 .. m |-> v])
  OBVIOUS
<1>1. kind = "line" /\ ChartHeld(t, d, items, r)
  BY ReadyIs DEF SetChartLine
<1>2. /\ IsTree(u) /\ Held(u, Two(0, i)) = None
      /\ \A k \in StylesAt : Held(u, Two(k, i)) = Number(style)
      /\ \A j \in 1 .. m : Held(u, Four(0, i, 0, j - 1)) = Number(v)
      /\ \A q \in Position : Apart(q, {i}) => Held(u, q) = Held(t, q)
  <2>1. IsTree(t) /\ style \in ChartVals /\ v \in ChartVals
    BY <1>1 DEF ChartHeld, ChartVals
  <2>2. u = AfterLine(t, i, m, v, style)
    BY DEF SetChartLine, AfterLine, Two
  <2>3. LineHeld(t, u, i, m, v, style)
    BY <1>1, <2>1, <2>2, LineWritten
  <2> QED  BY <2>3 DEF LineHeld
<1>3. AllHeld(u, d, r)
  <2>1. \A q \in Position : Len(q) \in {0, 1} => Held(u, q) = Held(t, q)
    BY <1>2 DEF Apart
  <2> QED  BY <1>1, <2>1, AllKept DEF ChartHeld
<1>4. its = With(items, i, it)
  BY <1>0 DEF SetChartLine, Item, ItemOf
<1>5. DOMAIN its = DOMAIN items \cup {i} /\ its[i] = it /\ \A j \in DOMAIN its : j # i => its[j] = items[j]
  BY <1>4 DEF With
<1>6. IsItem(it) /\ ItemHeld(u, i, it)
  <2>1. PICK e \in BOOLEAN : e = TRUE
    OBVIOUS
  <2>2. DOMAIN p = 1 .. m /\ \A j \in 1 .. m : p[j] = v
    BY <1>0
  <2>3. Number(0) = None
    BY NumberIs, ChartValsIs
  <2>4. it = ItemOf(style, e, p)
    BY <1>0, <2>1
  <2>5. IsItem(it) /\ it.style = style /\ it.isEnabled = e /\ it.points = p
    BY <1>1, <2>2, <2>4, ItemIs
  <2>6. ItemHeld(u, i, it)
    BY <1>1, <1>2, <2>1, <2>2, <2>3, <2>5 DEF ItemHeld
  <2> QED  BY <2>5, <2>6
<1>7. ASSUME NEW j \in DOMAIN its, j # i
      PROVE  j \in Nat /\ IsItem(its[j]) /\ ItemHeld(u, j, its[j])
  <2>1. PICK x : x = items[j]
    OBVIOUS
  <2>2. its[j] = x /\ j \in Nat /\ IsItem(x) /\ ItemHeld(t, j, x)
    BY <1>1, <1>5, <1>7, <2>1 DEF ChartHeld, ItemsHeld
  <2>3. \A q \in Position : Len(q) \in {2, 4} /\ q[2] = j => Held(u, q) = Held(t, q)
    BY <1>2, <1>7 DEF Apart
  <2>4. ItemHeld(u, j, x)
    BY <1>1, <2>2, <2>3, ItemKept
  <2> QED  BY <2>2, <2>4
<1>8. ItemsHeld(u, its)
  BY <1>1, <1>5, <1>6, <1>7 DEF ItemsHeld
<1>9. ChartHeld(u, d, its, r) /\ Available' = d
  BY <1>2, <1>3, <1>8 DEF ChartHeld, SetChartLine, WithFirstItem, Available, AvailableNow
<1> QED  BY <1>9 DEF SetChartLine, WithFirstItem

\* The styles for all that are there stay when none are set.
LEMMA AvailableKept ==
    ASSUME ChartInv, defaults' = defaults, LookedAt \/ missed' = missed
    PROVE  Available' = Available
<1>1. missed \in BOOLEAN
  BY DEF ChartInv, Told
<1>2. Available' = IF missed' THEN Nothing ELSE defaults
  BY DEF Available
<1>3. CASE LookedAt
  <2>1. CASE defaults = Nothing
    BY <1>2, <2>1 DEF Available
  <2>2. CASE defaults # Nothing
    <3>1. missed' = missed
      BY <1>3, <2>2 DEF LookedAt
    <3> QED  BY <1>2, <3>1 DEF Available
  <2> QED  BY <2>1, <2>2
<1>4. CASE missed' = missed
  BY <1>2, <1>4 DEF Available
<1> QED  BY <1>3, <1>4

LEMMA SetDrawingEnabledKeeps ==
    ASSUME ChartInv, NEW v \in {0, 1}, SetDrawingEnabled(v)
    PROVE  ChartHeld(chart', Available', items', drawing')
<1> PICK t, u : t = chart /\ u = chart'
  OBVIOUS
<1>1. ChartHeld(t, Available, items, drawing)
  BY DEF ChartInv
<1>2. IsPut(t, u, <<>>, v)
  <2>1. <<>> \in Position /\ v \in Vals /\ u = Store(t, <<>>, v) /\ IsTree(t)
    BY <1>1, RootIs, ChartValsIs DEF SetDrawingEnabled, ChartHeld
  <2> QED  BY <2>1, StorePuts
<1>3. IsTree(u) /\ Held(u, <<>>) = Number(v) /\ \A p \in Position : Len(p) # 0 => Held(u, p) = Held(t, p)
  BY <1>2, RootIs DEF IsPut
<1>4. AllHeld(u, Available, v)
  <2>1. ASSUME NEW k \in StylesAt, kind \in {"text", "line"}
        PROVE  Held(u, One(k)) = Held(t, One(k))
    <3>1. k \in Nat
      BY <2>1, StylesAre
    <3>2. One(k) \in Position /\ Len(One(k)) = 1
      BY <3>1, OneIs
    <3> QED  BY <1>3, <3>2
  <2> QED  BY <1>1, <1>3, <2>1 DEF AllHeld, ChartHeld
<1>5. kind \in {"text", "line"} => \A j \in DOMAIN items : IsItem(items[j]) /\ ItemHeld(u, j, items[j])
  <2> SUFFICES ASSUME kind \in {"text", "line"}, NEW j \in DOMAIN items
               PROVE  IsItem(items[j]) /\ ItemHeld(u, j, items[j])
    OBVIOUS
  <2> PICK it : it = items[j]
    OBVIOUS
  <2>1. j \in Nat /\ IsItem(it) /\ ItemHeld(t, j, it)
    BY <1>1 DEF ChartHeld, ItemsHeld
  <2>2. ItemHeld(u, j, it)
    <3>1. \A p \in Position : Len(p) \in {2, 4} /\ p[2] = j => Held(u, p) = Held(t, p)
      BY <1>3
    <3> QED  BY <2>1, <3>1, ItemKept
  <2> QED  BY <2>1, <2>2
<1>6. \A j \in {0, 2, 4} : Held(u, One(j)) = Held(t, One(j)) /\ Held(u, One(j + 1)) = Held(t, One(j + 1))
  BY <1>3, OneIs
<1>7. ChartHeld(u, Available, items, v)
  BY <1>1, <1>3, <1>4, <1>5, <1>6 DEF ChartHeld, ItemsHeld
<1> QED  BY AvailableKept, <1>7 DEF SetDrawingEnabled

LEMMA SetItemEnabledKeeps ==
    ASSUME ChartInv, NEW i \in Nat, NEW isEnabled \in BOOLEAN, SetItemEnabled(i, isEnabled)
    PROVE  ChartHeld(chart', Available', items', drawing')
<1>0. PICK t, u, its, v : t = chart /\ u = chart' /\ its = items' /\ v = IF isEnabled THEN 0 ELSE 1
  OBVIOUS
<1>1. ChartHeld(t, Available, items, drawing) /\ kind \in {"text", "line"} /\ v \in {0, 1}
  BY <1>0 DEF ChartInv, SetItemEnabled
<1>2. IsPut(t, u, Two(0, i), v)
  <2>1. Two(0, i) \in Position /\ v \in Vals
    BY <1>1, TwoIs, ChartValsIs
  <2>2. u = Store(t, Two(0, i), v) /\ IsTree(t)
    BY <1>0, <1>1 DEF SetItemEnabled, ChartHeld, Two
  <2> QED  BY <2>1, <2>2, StorePuts
<1>3. /\ IsTree(u) /\ Held(u, Two(0, i)) = Number(v)
      /\ \A p \in Position : p # Two(0, i) => Held(u, p) = Held(t, p)
      /\ Len(Two(0, i)) = 2 /\ Two(0, i)[1] = 0 /\ Two(0, i)[2] = i
  BY <1>2, TwoIs DEF IsPut
<1>4. AllHeld(u, Available, drawing)
  <2>1. \A p \in Position : Len(p) \in {0, 1} => Held(u, p) = Held(t, p)
    BY <1>3
  <2> QED  BY <1>1, <2>1, AllKept DEF ChartHeld
<1>5. DOMAIN its = DOMAIN items
      /\ \A j \in DOMAIN items : its[j] = IF j = i THEN [items[i] EXCEPT !.isEnabled = isEnabled] ELSE items[j]
  BY <1>0 DEF SetItemEnabled
<1>6. ASSUME NEW j \in DOMAIN items
      PROVE  j \in Nat /\ IsItem(items[j]) /\ ItemHeld(t, j, items[j])
  BY <1>1 DEF ChartHeld, ItemsHeld
<1>7. ASSUME NEW j \in DOMAIN items, j # i
      PROVE  IsItem(its[j]) /\ ItemHeld(u, j, its[j])
  <2>1. PICK it : it = items[j]
    OBVIOUS
  <2>2. its[j] = it /\ j \in Nat /\ IsItem(it) /\ ItemHeld(t, j, it)
    BY <1>5, <1>6, <1>7, <2>1
  <2>3. \A p \in Position : Len(p) \in {2, 4} /\ p[2] = j => Held(u, p) = Held(t, p)
    BY <1>3, <1>7
  <2> QED  BY <1>1, <2>2, <2>3, ItemKept
<1>8. ASSUME i \in DOMAIN items
      PROVE  IsItem(its[i]) /\ ItemHeld(u, i, its[i])
  <2>1. PICK it, x : it = items[i] /\ x = [items[i] EXCEPT !.isEnabled = isEnabled]
    OBVIOUS
  <2>2. its[i] = x /\ IsItem(it) /\ ItemHeld(t, i, it)
    BY <1>5, <1>6, <1>8, <2>1
  <2>3. x = ItemOf(it.style, isEnabled, it.points)
    BY <2>1, <2>2 DEF IsItem, ItemOf
  <2>4. IsItem(x) /\ x.style = it.style /\ x.isEnabled = isEnabled /\ x.points = it.points
    <3>1. PICK style, points : style = it.style /\ points = it.points
      OBVIOUS
    <3>2. /\ style \in Styles \cup {Default} /\ (kind = "text" => points[1] \in Nat \ {0})
          /\ kind = "line" => DOMAIN points \subseteq Nat \ {0} /\ \A l \in DOMAIN points : points[l] \in Styles
      BY <2>2, <3>1 DEF IsItem
    <3>3. x = ItemOf(style, isEnabled, points)
      BY <2>3, <3>1
    <3>4. IsItem(x) /\ x.style = style /\ x.isEnabled = isEnabled /\ x.points = points
      BY <3>2, <3>3, ItemIs
    <3> QED  BY <3>1, <3>4
  <2>5. ASSUME NEW k \in StylesAt
        PROVE  Held(u, Two(k, i)) = Number(it.style)
    <3>1. k \in Nat \ {0}
      BY <1>1, StylesAre
    <3>2. Two(k, i) \in Position /\ Two(k, i)[1] # 0
      BY <3>1, TwoIs
    <3> QED  BY <1>3, <2>2, <3>2 DEF ItemHeld
  <2>6. kind = "text" => Held(u, Two(1, i)) = Number(it.points[1])
    <3>1. Two(1, i) \in Position /\ Two(1, i)[1] = 1
      BY TwoIs
    <3> QED  BY <1>3, <2>2, <3>1 DEF ItemHeld
  <2>7. kind = "line" => \A l \in DOMAIN it.points : Held(u, Four(0, i, 0, l - 1)) = Number(it.points[l])
    <3> SUFFICES ASSUME kind = "line", NEW l \in DOMAIN it.points
                 PROVE  Held(u, Four(0, i, 0, l - 1)) = Number(it.points[l])
      OBVIOUS
    <3>1. l \in Nat \ {0}
      BY <2>2 DEF IsItem
    <3>2. PICK m \in Nat : m = l - 1
      BY <3>1
    <3>3. Four(0, i, 0, m) \in Position /\ Len(Four(0, i, 0, m)) = 4
      BY <3>2, FourIs
    <3>4. Four(0, i, 0, m) # Two(0, i)
      BY <1>3, <3>3
    <3>5. Held(t, Four(0, i, 0, m)) = Number(it.points[l])
      BY <2>2, <3>2 DEF ItemHeld
    <3>6. Held(u, Four(0, i, 0, m)) = Number(it.points[l])
      BY <1>3, <3>3, <3>4, <3>5
    <3> QED  BY <3>2, <3>6
  <2>8. Held(u, Two(0, i)) = Number(IF x.isEnabled THEN 0 ELSE 1)
    BY <1>0, <1>3, <2>4
  <2>9. ItemHeld(u, i, x)
    BY <2>4, <2>5, <2>6, <2>7, <2>8 DEF ItemHeld
  <2> QED  BY <2>2, <2>4, <2>9
<1>9. ItemsHeld(u, its)
  BY <1>1, <1>5, <1>6, <1>7, <1>8 DEF ItemsHeld
<1>10. ChartHeld(u, Available, its, drawing)
  BY <1>3, <1>4, <1>9 DEF ChartHeld
<1> QED  BY AvailableKept, <1>0, <1>10 DEF SetItemEnabled

LEMMA SetBackgroundKeeps ==
    ASSUME ChartInv, NEW i \in {0, 2, 4}, NEW v \in Styles, SetBackground(i, v)
    PROVE  ChartHeld(chart', Available', items', drawing')
<1>0. PICK t, u, its, it : t = chart /\ u = chart' /\ its = items' /\ it = Item(v, <<>>)
  OBVIOUS
<1>1. ChartHeld(t, Available, items, drawing) /\ kind = "background" /\ i \in Nat /\ i + 1 \in Nat
  BY <1>0 DEF ChartInv, SetBackground
<1>2. /\ IsTree(u) /\ Held(u, One(i)) = Number(v) /\ Held(u, One(i + 1)) = Number(v)
      /\ \A p \in Position : p # One(i) /\ p # One(i + 1) => Held(u, p) = Held(t, p)
  <2>1. u = StoreAll(t, << <<One(i), v>>, <<One(i + 1), v>> >>)
    BY <1>0 DEF SetBackground, One
  <2>2. v \in ChartVals /\ IsTree(t)
    BY <1>1 DEF ChartVals, ChartHeld
  <2> QED  BY <1>1, <2>1, <2>2, BackgroundWritten
<1>3. ASSUME NEW k \in Nat, NEW l \in Nat, k # l
      PROVE  One(k) # One(l)
  BY <1>3, OneIs
<1>4. AllHeld(u, Available, drawing)
  <2>1. <<>> # One(i) /\ <<>> # One(i + 1) /\ <<>> \in Position
    BY <1>1, OneIs, RootIs
  <2>2. Held(u, <<>>) = Held(t, <<>>)
    BY <1>2, <2>1, Zenon
  <2> QED  BY <1>1, <2>2 DEF ChartHeld, AllHeld
<1>5. its = With(items, i, it)
  BY <1>0 DEF SetBackground
<1>6. DOMAIN its = DOMAIN items \cup {i} /\ its[i] = it /\ \A j \in DOMAIN its : j # i => its[j] = items[j]
  BY <1>5 DEF With
<1>7. it.style = v
  BY <1>0 DEF Item
<1>8. ASSUME NEW j \in DOMAIN its, j # i
      PROVE  /\ j \in {0, 2, 4} /\ its[j].style \in Styles
             /\ Held(u, One(j)) = Number(its[j].style) /\ Held(u, One(j + 1)) = Number(its[j].style)
  <2>1. PICK x : x = items[j]
    OBVIOUS
  <2>2. /\ its[j] = x /\ j \in {0, 2, 4} /\ x.style \in Styles
        /\ Held(t, One(j)) = Number(x.style) /\ Held(t, One(j + 1)) = Number(x.style)
    BY <1>1, <1>6, <1>8, <2>1 DEF ChartHeld, ItemsHeld
  <2>3. j \in Nat /\ j + 1 \in Nat /\ j # i + 1 /\ j + 1 # i /\ j + 1 # i + 1
    BY <1>8, <2>2
  <2>4. One(j) \in Position /\ One(j + 1) \in Position
    BY <2>3, OneIs
  <2>5. One(j) # One(i) /\ One(j) # One(i + 1) /\ One(j + 1) # One(i) /\ One(j + 1) # One(i + 1)
    BY <1>1, <1>3, <1>8, <2>3
  <2>6. Held(u, One(j)) = Held(t, One(j)) /\ Held(u, One(j + 1)) = Held(t, One(j + 1))
    BY <1>2, <2>4, <2>5
  <2> QED  BY <2>2, <2>6
<1>9. ItemsHeld(u, its)
  BY <1>1, <1>2, <1>6, <1>7, <1>8 DEF ItemsHeld
<1>10. ChartHeld(u, Available, its, drawing)
  BY <1>2, <1>4, <1>9 DEF ChartHeld
<1> QED  BY AvailableKept, <1>0, <1>10 DEF SetBackground

\* What a reader looks at: GetItem(), Look().
LEMMA LookKeeps ==
    ASSUME ChartInv, NEW index \in Position, Look(index)
    PROVE  ChartHeld(chart', Available', items', drawing')
<1>1. ChartHeld(chart, Available, items, drawing) /\ IsTree(chart)
  BY DEF ChartInv, ChartHeld
<1>2. Grown(chart, chart')
  BY <1>1, AfterReadingIs DEF Look
<1>3. ChartHeld(chart', Available, items, drawing)
  BY <1>1, <1>2, ReadingKeeps
<1> QED  BY AvailableKept, <1>3 DEF Look

LEMMA Joined ==
    ASSUME NEW a \in Seq(Position), NEW b \in Seq(Position), Len(a) # 0, NEW c, c = a \o b
    PROVE  c \in Seq(Position) /\ Len(c) \in Nat \ {0} /\ c[1] = a[1]
<1>1. Len(a) \in Nat \ {0} /\ Len(b) \in Nat /\ Len(c) = Len(a) + Len(b)
  OBVIOUS
<1>2. 1 \in 1 .. Len(c) /\ 1 <= Len(a)
  BY <1>1
<1>3. c[1] = a[1]
  BY <1>1, <1>2
<1> QED  BY <1>1, <1>3

LEMMA PlacesAre ==
    ASSUME IsTree(chart), kind \in {"text", "line"}, NEW i \in Nat
    PROVE  PlacesOf(i) \in Seq(Position) /\ Len(PlacesOf(i)) \in Nat \ {0} /\ PlacesOf(i)[1] = Three(0, i, 0)
<1>1. PICK s, b, c : /\ s = Min(StylesAt)
                     /\ b = [k \in 1 .. 5 |-> Two(s + k - 1, i)]
                     /\ c = [k \in 1 .. 5 |-> One(s + k - 1)]
  OBVIOUS
<1>2. PICK a : a = IF kind = "text" THEN <<Three(0, i, 0), Three(0, i, 1), Two(1, i)>>
                   ELSE <<Three(0, i, 0)>> \o CoordinatesOf(i, VectorLength(chart, Three(0, i, 0)))
  OBVIOUS
<1>3. PlacesOf(i) = (a \o b) \o c
  BY <1>1, <1>2 DEF PlacesOf, One, Two, Three
<1>4. b \in Seq(Position) /\ c \in Seq(Position)
  <2>1. \A k \in 1 .. 5 : s + k - 1 \in Nat
    BY <1>1, StylesAre
  <2>2. \A k \in 1 .. 5 : Two(s + k - 1, i) \in Position /\ One(s + k - 1) \in Position
    BY <2>1, OneIs, TwoIs
  <2>3. b \in [1 .. 5 -> Position] /\ c \in [1 .. 5 -> Position]
    BY <1>1, <2>2
  <2> QED  BY <2>3, ListIs
<1>5. Three(0, i, 0) \in Position /\ Three(0, i, 1) \in Position /\ Two(1, i) \in Position
  BY TwoIs, ThreeIs
<1>6. a \in Seq(Position) /\ Len(a) \in Nat \ {0} /\ a[1] = Three(0, i, 0)
  <2>1. CASE kind = "text"
    BY <1>2, <1>5, <2>1
  <2>2. CASE kind = "line"
    <3>1. PICK n : n = VectorLength(chart, Three(0, i, 0))
      OBVIOUS
    <3>2. n \in Nat
      <4>1. PICK q, t : q = Three(0, i, 0) /\ t = AfterReading(chart, Three(0, i, 0))
        OBVIOUS
      <4>2. q \in Position /\ q # <<>>
        <5>1. <<0, i, 0>> # <<>>
          OBVIOUS
        <5> QED  BY <1>5, <4>1, <5>1 DEF Three
      <4>3. q \in DOMAIN t => q \in DOMAIN chart
        BY <4>1, <4>2, AfterReadingIs
      <4>4. q \in DOMAIN chart => chart[q].vector.Length \in Nat
        <5>1. ASSUME q \in DOMAIN chart
              PROVE  IsVector(chart[q].vector, Vals, NULL)
          BY <5>1 DEF IsTree, IsMatrix
        <5> QED  BY <5>1 DEF IsVector
      <4>5. n = IF q \in DOMAIN t THEN chart[q].vector.Length ELSE 0
        BY <3>1, <4>1, <4>2 DEF VectorLength
      <4> QED  BY <4>3, <4>4, <4>5
    <3>3. PICK l \in Nat : l = 2 * n
      BY <3>2
    <3>4. PICK d : d = CoordinatesOf(i, n)
      OBVIOUS
    <3>5. d \in Seq(Position)
      <4>1. d = [k \in 1 .. l |-> Four(0, i, (k - 1) % 2, (k - 1) \div 2)]
        BY <3>3, <3>4 DEF CoordinatesOf, Four
      <4>2. ASSUME NEW k \in 1 .. l
            PROVE  Four(0, i, (k - 1) % 2, (k - 1) \div 2) \in Position
        <5>1. (k - 1) % 2 \in Nat /\ (k - 1) \div 2 \in Nat
          OBVIOUS
        <5> QED  BY <5>1, FourIs
      <4>3. d \in [1 .. l -> Position]
        BY <4>1, <4>2
      <4> QED  BY <3>3, <4>3, ListIs
    <3>6. PICK e : e = <<Three(0, i, 0)>>
      OBVIOUS
    <3>7. e \in Seq(Position)
      BY <1>5, <3>6
    <3>8. a = e \o d
      BY <1>2, <2>2, <3>1, <3>4, <3>6
    <3>9. Len(e) = 1 /\ e[1] = Three(0, i, 0)
      BY <3>6
    <3>10. Len(e) # 0
      BY <3>9
    <3>11. a \in Seq(Position) /\ Len(a) \in Nat \ {0} /\ a[1] = e[1]
      BY <3>5, <3>7, <3>8, <3>10, Joined
    <3> QED  BY <3>9, <3>11
  <2> QED  BY <2>1, <2>2
<1>7. PICK e : e = a \o b
  OBVIOUS
<1>8. e \in Seq(Position) /\ Len(e) \in Nat \ {0} /\ e[1] = a[1]
  BY <1>4, <1>6, <1>7, Joined
<1>9. PICK r : r = e \o c
  OBVIOUS
<1>10. r \in Seq(Position) /\ Len(r) \in Nat \ {0} /\ r[1] = e[1]
  BY <1>4, <1>8, <1>9, Joined
<1> QED  BY <1>3, <1>6, <1>7, <1>8, <1>9, <1>10

LEMMA GetItemKeeps ==
    ASSUME ChartInv, NEW i \in Nat, GetItem(i)
    PROVE  ChartHeld(chart', Available', items', drawing')
<1>1. ChartHeld(chart, Available, items, drawing) /\ IsTree(chart) /\ kind \in {"text", "line", "background"}
  BY DEF ChartInv, ChartHeld, Kinds
<1>2. PICK list : list = IF kind = "background" THEN <<One(i), One(i + 1)>> ELSE PlacesOf(i)
  OBVIOUS
<1>3. list \in Seq(Position)
  <2>1. CASE kind = "background"
    <3>1. One(i) \in Position /\ One(i + 1) \in Position
      BY OneIs
    <3> QED  BY <1>2, <2>1, <3>1
  <2>2. CASE kind \in {"text", "line"}
    BY <1>1, <1>2, <2>2, PlacesAre
  <2> QED  BY <1>1, <2>1, <2>2
<1>4. chart' = TouchAll(chart, list)
  BY <1>2 DEF GetItem, One
<1>5. Grown(chart, chart')
  <2>1. Len(list) \in Nat /\ \A k \in 1 .. Len(list) : list[k] \in Position
    BY <1>3
  <2> QED  BY <1>1, <1>4, <2>1, ReadingGrows
<1>6. ChartHeld(chart', Available, items, drawing)
  BY <1>1, <1>5, ReadingKeeps
<1> QED  BY AvailableKept, <1>6 DEF GetItem

\* The first place of an item that is read makes the first level longer.
LEMMA ItemBegins ==
    ASSUME ChartInv, NEW i \in Nat, GetItem(i), kind \in {"text", "line"}
    PROVE  IsBegun(chart')
<1>1. IsTree(chart)
  BY DEF ChartInv, ChartHeld
<1>2. PICK list : list = PlacesOf(i)
  OBVIOUS
<1>3. list \in Seq(Position) /\ chart' = TouchAll(chart, list)
  BY <1>1, <1>2, PlacesAre DEF GetItem
<1>4. Len(list) \in Nat \ {0} /\ list[1] = Three(0, i, 0)
  BY <1>1, <1>2, PlacesAre
<1>5. Three(0, i, 0) # <<>>
  BY DEF Three
<1>6. \A k \in 1 .. Len(list) : list[k] \in Position
  BY <1>3
<1> QED  BY <1>1, <1>3, <1>4, <1>5, <1>6, ReadingGrows

-----------------------------------------------------------------------------
(* What is drawn *)

LEMMA ChartRead ==
    ASSUME NEW p \in Position, NEW v \in Vals, IsTree(chart), Held(chart, p) = Number(v)
    PROVE  ReadChart(p) = IF v = 0 THEN Nothing ELSE v
<1>1. ReadChart(p) = Content(Number(v), NoRoom)
  BY ReadAtIs DEF ReadChart
<1>2. Content(None, NoRoom) = Nothing
  BY CellIs DEF None, Content
<1> QED  BY <1>1, <1>2, NumberIs

LEMMA ItemIsShown ==
    ASSUME ChartInv, kind \in {"text", "line"}, NEW i \in DOMAIN items
    PROVE  ItemShown(i)
<1>1. PICK it : it = items[i]
  OBVIOUS
<1>2. i \in Nat /\ IsItem(it) /\ ItemHeld(chart, i, it) /\ IsTree(chart) /\ AllHeld(chart, Available, drawing)
  BY <1>1 DEF ChartInv, ChartHeld, ItemsHeld
<1>3. (ReadChart(Two(0, i)) = Nothing) = it.isEnabled
  <2>1. Two(0, i) \in Position /\ 0 \in Vals /\ 1 \in Vals
    BY <1>2, TwoIs, ChartValsIs
  <2>2. CASE it.isEnabled
    <3>1. Held(chart, Two(0, i)) = Number(0)
      BY <1>2, <2>2 DEF ItemHeld
    <3>2. ReadChart(Two(0, i)) = Nothing
      BY <1>2, <2>1, <3>1, ChartRead
    <3> QED  BY <1>2, <2>2, <3>2 DEF IsItem
  <2>3. CASE ~it.isEnabled
    <3>1. Held(chart, Two(0, i)) = Number(1)
      BY <1>2, <2>3 DEF ItemHeld
    <3>2. ReadChart(Two(0, i)) = 1
      BY <1>2, <2>1, <3>1, ChartRead
    <3>3. 1 # Nothing
      BY ChartAssumption
    <3> QED  BY <1>2, <2>3, <3>2, <3>3 DEF IsItem
  <2> QED  BY <2>2, <2>3
<1>4. ASSUME NEW k \in StylesAt
      PROVE  StyleAt(k, i) = IF it.style = Default THEN Available ELSE it.style
  <2>1. k \in Nat /\ One(k) \in Position /\ Two(k, i) \in Position
    BY <1>2, StylesAre, OneIs, TwoIs
  <2>2. ReadChart(Two(k, i)) = it.style
    <3>1. it.style \in Vals /\ it.style # 0
      BY <1>2, ChartAssumption DEF IsItem, Vals
    <3>2. Held(chart, Two(k, i)) = Number(it.style)
      BY <1>2 DEF ItemHeld
    <3> QED  BY <1>2, <2>1, <3>1, <3>2, ChartRead
  <2>3. ReadChart(One(k)) = Available
    <3>1. CASE Available = Nothing
      <4>1. Held(chart, One(k)) = Number(0) /\ 0 \in Vals
        BY <1>2, <3>1, NumberIs, ChartValsIs DEF AllHeld
      <4> QED  BY <1>2, <2>1, <3>1, <4>1, ChartRead
    <3>2. CASE Available # Nothing
      <4>1. Held(chart, One(k)) = Number(Available)
        BY <1>2, <3>2 DEF AllHeld
      <4>2. Available \in Vals /\ Available # 0
        BY <1>2, <3>2, ChartAssumption DEF AllHeld, Vals
      <4> QED  BY <1>2, <2>1, <4>1, <4>2, ChartRead
    <3> QED  BY <3>1, <3>2
  <2> QED  BY <2>2, <2>3 DEF StyleAt, One, Two
<1>5. kind = "text" => ReadChart(Two(1, i)) = it.points[1]
  <2> SUFFICES ASSUME kind = "text"
               PROVE  ReadChart(Two(1, i)) = it.points[1]
    OBVIOUS
  <2>1. PICK v : v = it.points[1]
    OBVIOUS
  <2>2. v \in Vals /\ v # 0 /\ Held(chart, Two(1, i)) = Number(v) /\ Two(1, i) \in Position
    BY <1>2, <2>1, TwoIs DEF IsItem, ItemHeld, Vals
  <2> QED  BY <1>2, <2>1, <2>2, ChartRead
<1>6. kind = "line" => \A j \in DOMAIN it.points : ReadChart(Four(0, i, 0, j - 1)) = it.points[j]
  <2> SUFFICES ASSUME kind = "line", NEW j \in DOMAIN it.points
               PROVE  ReadChart(Four(0, i, 0, j - 1)) = it.points[j]
    OBVIOUS
  <2>1. PICK v : v = it.points[j]
    OBVIOUS
  <2>2. v \in Vals /\ v # 0 /\ Held(chart, Four(0, i, 0, j - 1)) = Number(v)
    BY <1>2, <2>1, ChartAssumption DEF IsItem, ItemHeld, Vals
  <2>3. PICK m \in Nat : m = j - 1
    BY <1>2 DEF IsItem
  <2>4. Four(0, i, 0, m) \in Position
    BY <1>2, <2>3, FourIs
  <2>5. ReadChart(Four(0, i, 0, m)) = v
    BY <1>2, <2>2, <2>3, <2>4, ChartRead
  <2> QED  BY <2>1, <2>3, <2>5
<1> QED  BY <1>1, <1>3, <1>4, <1>5, <1>6 DEF ItemShown, Two, Four

LEMMA InvIsShown == ChartInv => ChartShown
<1> SUFFICES ASSUME ChartInv
             PROVE  ChartShown
  OBVIOUS
<1>1. ChartHeld(chart, Available, items, drawing) /\ IsTree(chart) /\ kind \in {"text", "line", "background"}
  BY DEF ChartInv, ChartHeld, Kinds
<1>2. ReadChart(<<>>) = IF drawing = 1 THEN 1 ELSE Nothing
  <2>1. drawing \in {0, 1} /\ Held(chart, <<>>) = Number(drawing) /\ drawing \in Vals /\ <<>> \in Position
    BY <1>1, ChartValsIs, RootIs DEF ChartHeld, AllHeld
  <2>2. ReadChart(<<>>) = IF drawing = 0 THEN Nothing ELSE drawing
    BY <1>1, <2>1, ChartRead
  <2> QED  BY <2>1, <2>2
<1>3. ASSUME NEW i \in DOMAIN items, kind = "background"
      PROVE  ReadChart(<<i>>) = items[i].style /\ ReadChart(<<i + 1>>) = items[i].style
  <2>1. PICK v : v = items[i].style
    OBVIOUS
  <2>2. i \in Nat /\ i + 1 \in Nat /\ v \in Styles /\ Held(chart, One(i)) = Number(v) /\ Held(chart, One(i + 1)) = Number(v)
    BY <1>1, <1>3, <2>1 DEF ChartHeld, ItemsHeld
  <2>3. v \in Vals /\ v # 0 /\ One(i) \in Position /\ One(i + 1) \in Position
    BY <2>2, ChartAssumption, OneIs DEF Vals
  <2>4. ReadChart(One(i)) = v /\ ReadChart(One(i + 1)) = v
    BY <1>1, <2>2, <2>3, ChartRead
  <2> QED  BY <2>1, <2>4 DEF One
<1>4. ASSUME NEW i \in DOMAIN items, kind # "background"
      PROVE  ItemShown(i)
  BY <1>1, <1>4, ItemIsShown
<1> QED  BY <1>2, <1>3, <1>4 DEF ChartShown

LEMMA ChartStarts == InitChart => ChartInv
<1> SUFFICES ASSUME InitChart
             PROVE  ChartInv
  OBVIOUS
<1>1. IsTree(chart) /\ \A p \in Position : Held(chart, p) = None
  BY FirstMatrixIs DEF InitChart, NewChart, None
<1>4. Told(chart, defaults, missed) /\ Available = Nothing
  <2>1. chart[<<>>].vector.Length = 0
    BY MatrixOfIs DEF InitChart, NewChart, NewMatrix, NewVector, MatrixOf
  <2> QED  BY <2>1 DEF InitChart, Told, IsBegun, Available
<1>2. AllHeld(chart, Available, drawing)
  <2>1. Held(chart, <<>>) = Number(0) /\ 0 \in Vals
    BY <1>1, RootIs, NumberIs, ChartValsIs
  <2>2. kind \in {"text", "line"} => \A k \in StylesAt : Held(chart, One(k)) = None
    BY <1>1, StylesAre, OneIs
  <2> QED  BY <1>4, <2>1, <2>2 DEF InitChart, AllHeld
<1>3. ItemsHeld(chart, items)
  BY DEF InitChart, ItemsHeld
<1> QED  BY <1>1, <1>2, <1>3, <1>4 DEF InitChart, ChartInv, ChartHeld

\* The state after a call is told by its parts.
LEMMA ChartAfter ==
    ASSUME ChartInv, kind' = kind, ChartHeld(chart', Available', items', drawing'), Told(chart', defaults', missed')
    PROVE  ChartInv'
  BY DEF ChartInv, Told, IsBegun, ChartHeld, AllHeld, ItemsHeld, IsItem, ItemHeld, StylesAt

\* Looking at items leaves elements behind.
LEMMA ToldOfLooking ==
    ASSUME ChartInv, LookedAt, defaults' = defaults, kind \in {"text", "line"} => IsBegun(chart')
    PROVE  Told(chart', defaults', missed')
  BY DEF ChartInv, Told, LookedAt

\* So do items, and styles for all.
LEMMA ToldOfItems ==
    ASSUME ChartInv, WithFirstItem, IsBegun(chart')
    PROVE  Told(chart', defaults', missed')
  BY ChartAssumption DEF ChartInv, Told, WithFirstItem, DefaultsNow

LEMMA ChartGoesOn == ChartInv /\ [NextChart]_charts => ChartInv'
<1> SUFFICES ASSUME ChartInv, [NextChart]_charts
             PROVE  ChartInv'
  OBVIOUS
<1>1. \A i \in 0 .. MaxItem : i \in Nat
  BY ChartAssumption
<1>2. ASSUME NEW i \in 0 .. MaxItem, NEW style \in Styles \cup {Default}, NEW lines \in 1 .. 2, SetChartText(i, lines, style)
      PROVE  ChartInv'
  <2>1. ChartHeld(chart', Available', items', drawing')
    BY <1>1, <1>2, SetChartTextKeeps
  <2>2. i \in DOMAIN items' /\ kind \in {"text", "line"} /\ WithFirstItem
    BY <1>1, <1>2 DEF SetChartText
  <2>3. Told(chart', defaults', missed')
    BY <2>1, <2>2, BegunByItem, ToldOfItems
  <2> QED  BY <1>2, <2>1, <2>3, ChartAfter DEF SetChartText
<1>3. ASSUME NEW i \in 0 .. MaxItem, NEW style \in Styles \cup {Default}, NEW n \in 1 .. MaxPoints, NEW p \in Styles,
             SetChartLine(i, n, p, style)
      PROVE  ChartInv'
  <2>1. n \in Nat
    BY ChartAssumption
  <2>2. ChartHeld(chart', Available', items', drawing')
    BY <1>1, <1>3, <2>1, SetChartLineKeeps
  <2>3. i \in DOMAIN items' /\ kind \in {"text", "line"} /\ WithFirstItem
    BY <1>1, <1>3 DEF SetChartLine, With
  <2>4. Told(chart', defaults', missed')
    BY <2>2, <2>3, BegunByItem, ToldOfItems
  <2> QED  BY <1>3, <2>2, <2>4, ChartAfter DEF SetChartLine
<1>4. ASSUME NEW style \in Styles, SetDefaults(style)
      PROVE  ChartInv'
  <2>1. ChartHeld(chart', Available', items', drawing')
    BY <1>4, DefaultsKeep DEF SetDefaults, ChartInv, Available
  <2>2. style # Nothing /\ Available' = style
    BY <1>4, ChartAssumption DEF SetDefaults, Available
  <2>3. IsBegun(chart')
    BY <1>4, <2>1, <2>2, BegunByStyles DEF SetDefaults
  <2>4. Told(chart', defaults', missed')
    BY <1>4, <2>2, <2>3 DEF SetDefaults, Told
  <2> QED  BY <1>4, <2>1, <2>4, ChartAfter DEF SetDefaults
<1>5. ASSUME NEW v \in {0, 1}, SetDrawingEnabled(v)
      PROVE  ChartInv'
  <2>1. ChartHeld(chart', Available', items', drawing')
    BY <1>5, SetDrawingEnabledKeeps
  <2>2. Told(chart', defaults', missed')
    <3>1. IsBegun(chart') <=> IsBegun(chart)
      BY <1>5, RootStored DEF SetDrawingEnabled, ChartInv, ChartHeld
    <3> QED  BY <1>5, <3>1 DEF SetDrawingEnabled, ChartInv, Told
  <2> QED  BY <1>5, <2>1, <2>2, ChartAfter DEF SetDrawingEnabled
<1>6. ASSUME NEW i \in 0 .. MaxItem, NEW isEnabled \in BOOLEAN, SetItemEnabled(i, isEnabled)
      PROVE  ChartInv'
  <2>1. ChartHeld(chart', Available', items', drawing')
    BY <1>1, <1>6, SetItemEnabledKeeps
  <2>2. Told(chart', defaults', missed')
    <3>1. IsBegun(chart')
      BY <1>1, <1>6, FlagStored DEF SetItemEnabled, ChartInv, ChartHeld, Two
    <3> QED  BY <1>6, <3>1, ToldOfLooking DEF SetItemEnabled
  <2> QED  BY <1>6, <2>1, <2>2, ChartAfter DEF SetItemEnabled
<1>7. ASSUME NEW i \in 0 .. MaxItem, GetItem(i)
      PROVE  ChartInv'
  <2>1. ChartHeld(chart', Available', items', drawing')
    BY <1>1, <1>7, GetItemKeeps
  <2>2. Told(chart', defaults', missed')
    <3>1. kind \in {"text", "line"} => IsBegun(chart')
      BY <1>1, <1>7, ItemBegins
    <3> QED  BY <1>7, <3>1, ToldOfLooking DEF GetItem
  <2> QED  BY <1>7, <2>1, <2>2, ChartAfter DEF GetItem
<1>8. ASSUME NEW index \in Position, index # <<>>, Look(index)
      PROVE  ChartInv'
  <2>1. ChartHeld(chart', Available', items', drawing')
    BY <1>8, LookKeeps
  <2>2. Told(chart', defaults', missed')
    <3>1. IsBegun(chart')
      BY <1>8, AfterReadingIs DEF Look, ChartInv, ChartHeld
    <3> QED  BY <1>8, <3>1, ToldOfLooking DEF Look
  <2> QED  BY <1>8, <2>1, <2>2, ChartAfter DEF Look
<1>9. ASSUME NEW at \in {0, 2, 4}, NEW v \in Styles, SetBackground(at, v)
      PROVE  ChartInv'
  <2>1. ChartHeld(chart', Available', items', drawing')
    BY <1>9, SetBackgroundKeeps
  <2>2. Told(chart', defaults', missed')
    BY <1>9 DEF SetBackground, ChartInv, Told
  <2> QED  BY <1>9, <2>1, <2>2, ChartAfter DEF SetBackground
<1>10. CASE UNCHANGED charts
  BY <1>10 DEF charts, ChartInv, Told, IsBegun, Available, ChartHeld, AllHeld, ItemsHeld, IsItem, ItemHeld, StylesAt
<1>11. /\ <<0>> \in Position /\ <<0>> # <<>>
       /\ \A i \in 0 .. MaxItem : <<0, i>> \in Position /\ <<0, i>> # <<>>
  BY <1>1, OneIs, TwoIs DEF One, Two
<1> QED  BY <1>2, <1>3, <1>4, <1>5, <1>6, <1>7, <1>8, <1>9, <1>10, <1>11 DEF NextChart

\* What is drawn is what the application set last, whatever items, styles and
\* points there are and however many.
THEOREM ChartIsShown == SpecChart => []ChartShown
<1>1. SpecChart => []ChartInv
  BY ChartStarts, ChartGoesOn, PTL DEF SpecChart
<1> QED  BY <1>1, InvIsShown, PTL

USE ValueAssumption

-----------------------------------------------------------------------------
(* Numbers *)

LEMMA NumbersTyped ==
    ASSUME NEW h \in Int
    PROVE  /\ Whole(h) \in Int /\ Rounded(h) \in Int /\ Shown(h) \in Int
           /\ \A format \in ReadFormats : Cast(h, format) \in Int /\ NumCast(h, format) \in Int
<1>1. Whole(h) \in Int
  BY DEF Whole
<1>2. Rounded(h) \in Int
  BY DEF Rounded
<1>3. Shown(h) \in Int
  BY <1>2 DEF Shown
<1>4. \A format \in ReadFormats : Cast(h, format) \in Int
  BY <1>1, <1>3 DEF Cast, Unknown
<1>5. \A format \in ReadFormats : NumCast(h, format) \in Int
  BY <1>4 DEF NumCast, Unknown
<1> QED
  BY <1>1, <1>2, <1>3, <1>4, <1>5

LEMMA WholeTwice ==
    ASSUME NEW h \in Int
    PROVE  Whole(Whole(h)) = Whole(h)
  BY DEF Whole

\* A number that was converted to a format is in that format.
LEMMA CastTwice ==
    ASSUME NEW h \in Int, NEW format \in NumberFormats
    PROVE  /\ Cast(Cast(h, format), format) = Cast(h, format)
           /\ Cast(NumCast(h, format), format) = NumCast(h, format)
<1>1. CASE format = "BOOL"
  BY <1>1 DEF Cast, NumCast, Unknown
<1>2. CASE format \in {"DOUBLE", "FLOAT"}
  BY <1>2 DEF Cast, NumCast, Unknown
<1>3. CASE format \in {"INT32", "UINT64"}
  <2>1. Whole(Whole(h)) = Whole(h)
    BY WholeTwice
  <2>2. \A n : Cast(n, format) = IF n = Unknown THEN Unknown ELSE Whole(n)
    BY <1>3 DEF Cast
  <2>3. NumCast(h, format) \in {Unknown, Cast(h, format)}
    BY <1>3 DEF NumCast
  <2> QED  BY <2>1, <2>2, <2>3
<1> QED
  BY <1>1, <1>2, <1>3 DEF NumberFormats

\* The number of a text is read as a stored one, wherever a caller may rely on it.
LEMMA NumCastAgrees ==
    ASSUME NEW h \in Int, NEW format \in NumberFormats,
           format = "BOOL" => h % 2 = 0, format = "UINT64" => h >= 0
    PROVE  NumCast(h, format) = Cast(h, format)
<1>1. CASE format = "BOOL"
  <2>1. h % 2 = 0 => Whole(h) = h
    BY DEF Whole
  <2> QED  BY <1>1, <2>1 DEF NumCast, Cast, Unknown
<1>2. CASE format # "BOOL"
  <2>1. CASE h = Unknown
    <3>1. NumCast(h, format) = Unknown
      BY <2>1, Zenon DEF NumCast
    <3>2. Cast(h, format) = Unknown
      BY <2>1, Zenon DEF Cast
    <3> QED  BY <3>1, <3>2
  <2>2. h # Unknown => NumCast(h, format) = Cast(h, format)
    BY <1>2 DEF NumCast
  <2> QED  BY <2>1, <2>2
<1> QED
  BY <1>1, <1>2

-----------------------------------------------------------------------------
(* Types *)

LEMMA DataTyped ==
    ASSUME NEW h \in Int, NEW format \in {"NONE", "GARBAGE", "BINX"} \cup ReadFormats
    PROVE  Data(format, h) \in DataType
  BY DEF Data, DataType

LEMMA UnknownTyped ==
    Unknown \in Int /\ NoData \in DataType /\ Garbage \in DataType
  BY DEF Unknown, NoData, Garbage, Data, DataType

ResultType == [ok : BOOLEAN, value : ValueType]

LEMMA ResultTyped ==
    ASSUME NEW ok \in BOOLEAN, NEW v \in ValueType
    PROVE  Result(ok, v) \in ResultType
  BY DEF Result, ResultType

LEMMA EncodeNumXTyped ==
    ASSUME NEW v \in ValueType
    PROVE  EncodeNumX(v) \in ValueType
<1>1. NumberIn(v.text, v.DataFormat) \in Int
  BY UnknownTyped DEF NumberIn, ValueType, DataType
<1> QED
  BY <1>1, DataTyped DEF EncodeNumX, ValueType, ReadFormats, NumberFormats

LEMMA DecodeBinXTyped ==
    ASSUME NEW v \in ValueType
    PROVE  DecodeBinX(v) \in ValueType
<1>1. v.TextX.num \in Int
  BY DEF ValueType, DataType
<1>2. Data("DOUBLE", v.TextX.num) \in DataType
  BY <1>1, DataTyped DEF ReadFormats, NumberFormats
<1> QED
  BY <1>2, UnknownTyped DEF DecodeBinX, ValueType

LEMMA DecodeNumTyped ==
    ASSUME NEW v \in ValueType, NEW format \in NumberFormats
    PROVE  DecodeNum(v, format) \in ValueType
<1>1. v.text.num \in Int
  BY DEF ValueType, DataType
<1>2. Data(format, NumCast(v.text.num, format)) \in DataType
  BY <1>1, NumbersTyped, DataTyped DEF ReadFormats
<1> QED
  BY <1>2, UnknownTyped DEF DecodeNum, ValueType, ReadFormats

LEMMA ThroughDoubleTyped ==
    ASSUME NEW v \in ValueType, NEW format \in ReadFormats, NEW isShort \in BOOLEAN
    PROVE  ThroughDouble(v, format, isShort) \in ResultType
<1> DEFINE w == IF v.DataFormat = "BINARY" THEN v
                ELSE DecodeBinX(IF v.TextX = NoData THEN EncodeNumX(v) ELSE v)
           num == Cast(NumberIn(w.text, "DOUBLE"), format)
<1>1. w \in ValueType
  BY EncodeNumXTyped, DecodeBinXTyped
<1> HIDE DEF w
<1>2. NumberIn(w.text, "DOUBLE") \in Int
  BY <1>1, UnknownTyped DEF NumberIn, ValueType, DataType
<1>3. Data(format, num) \in DataType
  BY <1>2, NumbersTyped, DataTyped
<1> HIDE DEF num
<1>4. /\ [w EXCEPT !.DataFormat = format] \in ValueType
      /\ [w EXCEPT !.DataFormat = format, !.text = Data(format, num)] \in ValueType
  BY <1>1, <1>3 DEF ValueType
<1>5. ThroughDouble(v, format, isShort) \in
        {Result(FALSE, v), Result(FALSE, w), Result(TRUE, [w EXCEPT !.DataFormat = format]),
         Result(TRUE, [w EXCEPT !.DataFormat = format, !.text = Data(format, num)])}
  BY DEF ThroughDouble, w, num
<1> QED
  BY <1>1, <1>4, <1>5, ResultTyped

LEMMA AsDataFormatTyped ==
    ASSUME NEW v \in ValueType, NEW format \in ReadFormats, NEW isShort \in BOOLEAN
    PROVE  AsDataFormat(v, format, isShort) \in ResultType
<1> DEFINE r == AsDataFormat(v, format, isShort)
<1>1. \/ r \in {Result(v.DataFormat = format, v), Result(TRUE, [v EXCEPT !.DataFormat = format, !.text = v.TextX]),
               Result(TRUE, [v EXCEPT !.DataFormat = format]), ThroughDouble(v, format, isShort)}
      \/ format \in NumberFormats /\ r = Result(TRUE, DecodeNum(v, format))
  BY DEF AsDataFormat, ReadFormats
<1>2. /\ [v EXCEPT !.DataFormat = format, !.text = v.TextX] \in ValueType
      /\ [v EXCEPT !.DataFormat = format] \in ValueType
  BY DEF ValueType
<1>3. CASE r = ThroughDouble(v, format, isShort)
  BY <1>3, ThroughDoubleTyped
<1>4. CASE format \in NumberFormats /\ r = Result(TRUE, DecodeNum(v, format))
  BY <1>4, DecodeNumTyped, ResultTyped
<1>5. (v.DataFormat = format) \in BOOLEAN
  OBVIOUS
<1>6. CASE r \in {Result(v.DataFormat = format, v), Result(TRUE, [v EXCEPT !.DataFormat = format]),
                 Result(TRUE, [v EXCEPT !.DataFormat = format, !.text = v.TextX])}
  BY <1>2, <1>5, <1>6, ResultTyped
<1> QED
  BY <1>1, <1>3, <1>4, <1>6

-----------------------------------------------------------------------------
(* Reads *)

\* The 'double' an assigned number becomes.
IsDouble(w, num) ==
    /\ w.TypeX = "NONE" /\ w.text = Data("DOUBLE", num) /\ w.TextX = Data("BINX", num)

LEMMA DataDiffers ==
    ASSUME NEW h, NEW as \in {"BINX"} \cup ReadFormats
    PROVE  Data(as, h) # NoData /\ Data(as, h) # Garbage
<1>1. /\ Data(as, h).as = as /\ NoData.as = "NONE" /\ Garbage.as = "GARBAGE"
  BY DEF Data, NoData, Garbage
<1>2. as # "NONE" /\ as # "GARBAGE"
  BY DEF ReadFormats, NumberFormats
<1> QED
  BY <1>1, <1>2

LEMMA EncodedIsDecoded ==
    ASSUME NEW w \in ValueType, NEW num, w.TypeX = "NONE", w.TextX = Data("BINX", num)
    PROVE  IsDouble(DecodeBinX(w), num)
<1>1. w.TextX # NoData /\ w.TextX.as = "BINX" /\ w.TextX.num = num
  BY DataDiffers DEF Data
<1> QED
  BY <1>1 DEF DecodeBinX, IsDouble, ValueType

LEMMA AssignedIsDoubled ==
    ASSUME NEW v \in ValueType, NEW s \in StoredType, s.format \in NumberFormats,
           AsAssigned(v, s)
    PROVE  IsDouble(DecodeBinX(EncodeNumX(v)), s.num)
<1>1. v.DataFormat = s.format /\ v.text = Data(s.format, s.num)
  BY DEF AsAssigned
<1>2. NumberIn(v.text, v.DataFormat) = s.num
  BY <1>1 DEF NumberIn, Data
<1>3. EncodeNumX(v).TypeX = "NONE" /\ EncodeNumX(v).TextX = Data("BINX", s.num)
  BY <1>1, <1>2 DEF EncodeNumX
<1> QED
  BY <1>3, EncodeNumXTyped, EncodedIsDecoded

LEMMA DoubleIsConverted ==
    ASSUME NEW v \in ValueType, NEW s \in StoredType,
           NEW isShort \in BOOLEAN, NEW format \in ReadFormats \ {"UINT64"},
           v.DataFormat # "BINARY",
           IsDouble(DecodeBinX(IF v.TextX = NoData THEN EncodeNumX(v) ELSE v), s.num)
    PROVE  /\ ThroughDouble(v, format, isShort).ok = TRUE
           /\ ThroughDouble(v, format, isShort).value.DataFormat = format
           /\ AsConverted(ThroughDouble(v, format, isShort).value, s)
<1> DEFINE w == DecodeBinX(IF v.TextX = NoData THEN EncodeNumX(v) ELSE v)
           data == Data(format, Cast(s.num, format))
           r == ThroughDouble(v, format, isShort)
<1>1. w \in ValueType
  BY EncodeNumXTyped, DecodeBinXTyped
<1>2. IsDouble(w, s.num)
  OBVIOUS
<1>3. r = IF w.text = Garbage /\ isShort THEN Result(FALSE, w)
          ELSE Result(TRUE, [w EXCEPT !.DataFormat = format,
                                      !.text = Data(format, Cast(NumberIn(w.text, "DOUBLE"), format))])
  BY DEF ThroughDouble
<1> HIDE DEF w, r
<1>4. w.text # Garbage /\ NumberIn(w.text, "DOUBLE") = s.num
  BY <1>2, DataDiffers DEF IsDouble, NumberIn, Data, ReadFormats, NumberFormats
<1>5. r = Result(TRUE, [w EXCEPT !.DataFormat = format, !.text = data])
  BY <1>3, <1>4
<1>6. r.ok = TRUE /\ r.value = [w EXCEPT !.DataFormat = format, !.text = data]
  BY <1>5 DEF Result
<1>7. r.value.DataFormat = format /\ r.value.TypeX = w.TypeX /\ r.value.text = data /\ r.value.TextX = w.TextX
  BY <1>1, <1>6 DEF ValueType
<1>8. AsConverted(r.value, s)
  BY <1>2, <1>7 DEF AsConverted, IsDouble
<1> QED
  BY <1>6, <1>7, <1>8 DEF r

\* A read in another format converts what is held of an assigned number.
LEMMA AssignedIsConverted ==
    ASSUME NEW v \in ValueType, NEW s \in StoredType, s.format \in NumberFormats,
           AsAssigned(v, s) \/ AsConverted(v, s),
           NEW isShort \in BOOLEAN, NEW format \in ReadFormats, v.DataFormat # format
    PROVE  /\ format = "UINT64" => AsDataFormat(v, format, isShort) = Result(FALSE, v)
           /\ format # "UINT64" => /\ AsDataFormat(v, format, isShort).ok = TRUE
                                  /\ AsDataFormat(v, format, isShort).value.DataFormat = format
                                  /\ AsConverted(AsDataFormat(v, format, isShort).value, s)
<1>1. v.DataFormat \in ReadFormats /\ v.DataFormat \notin {"NONE", "FTLight", "BINARY"}
  BY DEF AsAssigned, AsConverted, ReadFormats, NumberFormats
<1>2. ~(v.TypeX # "NONE" /\ v.TextX # NoData)
  BY DEF AsAssigned, AsConverted
<1>3. AsDataFormat(v, format, isShort) = ThroughDouble(v, format, isShort)
  BY <1>1, <1>2 DEF AsDataFormat
<1>4. CASE format = "UINT64"
  BY <1>1, <1>3, <1>4 DEF ThroughDouble
<1>5. CASE format # "UINT64"
  <2>1. IsDouble(DecodeBinX(IF v.TextX = NoData THEN EncodeNumX(v) ELSE v), s.num)
    <3>1. CASE AsAssigned(v, s)
      BY <3>1, AssignedIsDoubled DEF AsAssigned
    <3>2. CASE AsConverted(v, s)
      <4>1. v.TypeX = "NONE" /\ v.TextX = Data("BINX", s.num) /\ v.TextX # NoData
        BY <3>2, DataDiffers DEF AsConverted
      <4> QED  BY <4>1, EncodedIsDecoded
    <3> QED  BY <3>1, <3>2
  <2>2. format \in ReadFormats \ {"UINT64"} /\ v.DataFormat # "BINARY"
    BY <1>1, <1>5
  <2>3. /\ ThroughDouble(v, format, isShort).ok = TRUE
        /\ ThroughDouble(v, format, isShort).value.DataFormat = format
        /\ AsConverted(ThroughDouble(v, format, isShort).value, s)
    BY <2>1, <2>2, DoubleIsConverted, ZenonT(40)
  <2> QED  BY <1>3, <1>5, <2>3
<1> QED
  BY <1>4, <1>5

\* What a read of an assigned number gives and leaves behind.
LEMMA AssignedRead ==
    ASSUME NEW v \in ValueType, NEW s \in StoredType, s.source = "assigned", Holds(v, s),
           NEW isShort \in BOOLEAN, NEW format \in ReadFormats,
           NEW r, r = AsDataFormat(v, format, isShort)
    PROVE  /\ Holds(r.value, s)
           /\ format = "STRING" => r.ok = TRUE
           /\ (format = "UINT64" => v.DataFormat = "UINT64") =>
                 r.ok = TRUE /\ NumberIn(r.value.text, format) = Cast(s.num, format)
<1>1. /\ s.format \in NumberFormats /\ s.num = Cast(s.num, s.format)
      /\ AsAssigned(v, s) \/ AsConverted(v, s)
  BY Zenon DEF Holds
<1>2. CASE v.DataFormat = format
  <2>1. r = Result(TRUE, v)
    BY <1>2, Zenon DEF AsDataFormat, ReadFormats
  <2>2. r.ok = TRUE /\ r.value = v
    BY <2>1 DEF Result
  <2>3. NumberIn(v.text, format) = Cast(s.num, format)
    BY <1>1, <1>2 DEF AsAssigned, AsConverted, NumberIn, Data
  <2> QED  BY <2>2, <2>3
<1>3. CASE v.DataFormat # format /\ format = "UINT64"
  <2>1. r = Result(FALSE, v)
    BY <1>1, <1>3, AssignedIsConverted
  <2> QED  BY <1>3, <2>1 DEF Result
<1>4. CASE v.DataFormat # format /\ format # "UINT64"
  <2>1. /\ AsDataFormat(v, format, isShort).ok = TRUE
        /\ AsDataFormat(v, format, isShort).value.DataFormat = format
        /\ AsConverted(AsDataFormat(v, format, isShort).value, s)
    <3>1. s.format \in NumberFormats /\ v.DataFormat # format /\ format # "UINT64"
      BY <1>1, <1>4
    <3>2. AsAssigned(v, s) \/ AsConverted(v, s)
      BY <1>1
    <3> QED  BY <3>1, <3>2, AssignedIsConverted, ZenonT(40)
  <2>2. NumberIn(r.value.text, format) = Cast(s.num, format)
    BY <2>1 DEF AsConverted, NumberIn, Data
  <2>3. Holds(r.value, s)
    BY <1>1, <2>1, Zenon DEF Holds
  <2> QED  BY <2>1, <2>2, <2>3
<1> QED
  BY <1>2, <1>3, <1>4

\* The digits of a number stay in the data or in TextX.
LEMMA DigitsRead ==
    ASSUME NEW v \in ValueType, NEW s \in StoredType, s.source = "number", Holds(v, s),
           NEW isShort \in BOOLEAN, NEW format \in ReadFormats,
           NEW r, r = AsDataFormat(v, format, isShort)
    PROVE  /\ Holds(r.value, s)
           /\ format = "STRING" => r.ok = TRUE /\ NumberIn(r.value.text, format) = s.num
<1>1. s.format = "STRING" /\ AsDigits(v, s)
  BY Zenon DEF Holds
<1> SUFFICES /\ AsDigits(r.value, s)
             /\ format = "STRING" => r.ok = TRUE /\ NumberIn(r.value.text, format) = s.num
  BY <1>1, Zenon DEF Holds
<1>2. format \notin {"NONE", "FTLight"}
  BY DEF ReadFormats, NumberFormats
<1>3. CASE v.DataFormat = format
  <2>1. r = Result(TRUE, v)
    BY <1>3, Zenon DEF AsDataFormat, ReadFormats
  <2>2. r.ok = TRUE /\ r.value = v
    BY <2>1 DEF Result
  <2>3. format = "STRING" => NumberIn(v.text, format) = s.num
    BY <1>1, <1>3 DEF AsDigits, NumberIn, Data
  <2> QED  BY <1>1, <2>2, <2>3
<1>4. CASE v.DataFormat # format /\ v.TextX # NoData
  <2>1. /\ v.DataFormat \notin {"NONE", "FTLight"} /\ v.TypeX = "NUMBER"
        /\ v.TextX = Data("STRING", s.num)
    BY <1>1, <1>4 DEF AsDigits
  <2>2. r = IF format = "STRING" THEN Result(TRUE, [v EXCEPT !.DataFormat = format, !.text = v.TextX])
            ELSE Result(TRUE, [v EXCEPT !.DataFormat = format])
    BY <1>4, <2>1, Zenon DEF AsDataFormat
  <2>3. CASE format = "STRING"
    <3>1. r.ok = TRUE /\ r.value = [v EXCEPT !.DataFormat = format, !.text = v.TextX]
      BY <2>2, <2>3 DEF Result
    <3>2. /\ r.value.DataFormat = format /\ r.value.TypeX = "NUMBER"
          /\ r.value.text = Data("STRING", s.num) /\ r.value.TextX = Data("STRING", s.num)
      BY <2>1, <3>1 DEF ValueType
    <3>3. NumberIn(r.value.text, format) = s.num
      BY <2>3, <3>2 DEF NumberIn, Data
    <3>4. AsDigits(r.value, s)
      BY <1>2, <2>3, <3>2 DEF AsDigits
    <3> QED  BY <3>1, <3>3, <3>4
  <2>4. CASE format # "STRING"
    <3>1. r.value = [v EXCEPT !.DataFormat = format]
      BY <2>2, <2>4 DEF Result
    <3>2. /\ r.value.DataFormat = format /\ r.value.TypeX = "NUMBER" /\ r.value.TextX = Data("STRING", s.num)
      BY <2>1, <3>1 DEF ValueType
    <3>3. Data("STRING", s.num) # NoData
      BY DataDiffers DEF ReadFormats
    <3> QED  BY <1>2, <2>4, <3>2, <3>3 DEF AsDigits
  <2> QED  BY <2>3, <2>4
<1>5. CASE v.DataFormat # format /\ v.TextX = NoData
  <2>1. v.DataFormat = "STRING" /\ v.TypeX = "NUMBER" /\ v.text = Data("STRING", s.num)
    BY <1>1, <1>5 DEF AsDigits
  <2>2. r = ThroughDouble(v, format, isShort)
    <3>1. v.DataFormat \notin {"NONE", "FTLight", format} /\ format # "STRING"
      BY <1>5, <2>1
    <3> QED  BY <1>5, <3>1 DEF AsDataFormat
  <2> DEFINE w == DecodeBinX(v)
             num == Cast(NumberIn(w.text, "DOUBLE"), format)
  <2>3. EncodeNumX(v) = v
    BY <2>1 DEF EncodeNumX, NumberFormats
  <2>4. r \in {Result(FALSE, v), Result(FALSE, w), Result(TRUE, [w EXCEPT !.DataFormat = format, !.text = Data(format, num)])}
    BY <1>5, <2>1, <2>2, <2>3 DEF ThroughDouble
  <2>5. w \in ValueType
    BY DecodeBinXTyped
  <2>6. w.DataFormat = "BINARY" /\ w.TypeX = "NUMBER" /\ w.TextX = Data("STRING", s.num)
    BY <1>5, <2>1 DEF DecodeBinX, ValueType
  <2> HIDE DEF w, num
  <2>7. CASE r = Result(FALSE, v)
    BY <1>1, <1>5, <2>1, <2>7 DEF Result
  <2>8. CASE r = Result(FALSE, w)
    <3>1. r.value = w
      BY <2>8 DEF Result
    <3>2. Data("STRING", s.num) # NoData
      BY DataDiffers DEF ReadFormats
    <3> QED  BY <1>5, <2>1, <2>6, <3>1, <3>2 DEF AsDigits
  <2>9. CASE r = Result(TRUE, [w EXCEPT !.DataFormat = format, !.text = Data(format, num)])
    <3>1. r.value = [w EXCEPT !.DataFormat = format, !.text = Data(format, num)]
      BY <2>9 DEF Result
    <3>2. r.value.DataFormat = format /\ r.value.TypeX = "NUMBER" /\ r.value.TextX = Data("STRING", s.num)
      BY <2>5, <2>6, <3>1 DEF ValueType
    <3>3. Data("STRING", s.num) # NoData
      BY DataDiffers DEF ReadFormats
    <3> QED  BY <1>2, <1>5, <2>1, <3>2, <3>3 DEF AsDigits
  <2> QED  BY <2>4, <2>7, <2>8, <2>9
<1> QED
  BY <1>3, <1>4, <1>5

\* A number read of a node is the one it is from now on.
LEMMA NodeRead ==
    ASSUME NEW v \in ValueType, NEW s \in StoredType, s.source = "node", Holds(v, s),
           NEW isShort \in BOOLEAN, NEW format \in NumberFormats,
           NEW r, r = AsDataFormat(v, format, isShort)
    PROVE  /\ Holds(r.value, Stored("assigned", format, NumCast(s.num, format)))
           /\ r.ok = TRUE /\ NumberIn(r.value.text, format) = NumCast(s.num, format)
<1>1. /\ v.DataFormat = "FTLight" /\ v.TypeX = "NUMBER" /\ v.text = Data("STRING", s.num)
      /\ v.text.num = s.num /\ s.num # Unknown
  <2>1. AsNode(v, s) /\ s.num # Unknown
    BY Zenon DEF Holds
  <2> QED  BY <2>1 DEF AsNode, Data
<1>2. s.num \in Int /\ format \notin {"NONE", "FTLight", "STRING"} /\ format \in ReadFormats
  BY DEF StoredType, NumberFormats, ReadFormats
<1>3. r = Result(TRUE, DecodeNum(v, format))
  BY <1>1, <1>2, Zenon DEF AsDataFormat
<1>4. r.ok = TRUE /\ r.value = DecodeNum(v, format)
  BY <1>3 DEF Result
<1> DEFINE num == NumCast(s.num, format)
<1>5. num = NumCast(s.num, format) /\ v.text.num = s.num
  BY <1>1 DEF Data
<1>6. Cast(num, format) = num
  BY <1>2, CastTwice
<1> HIDE DEF num
<1>7. r.value.DataFormat = format /\ r.value.text = Data(format, num) /\ r.value.TextX = NoData
  BY <1>4, <1>5 DEF DecodeNum, ValueType
<1>8. AsAssigned(r.value, Stored("assigned", format, num))
  BY <1>7 DEF AsAssigned, Stored
<1>9. /\ Stored("assigned", format, num).source = "assigned" /\ Stored("assigned", format, num).format = format
      /\ Stored("assigned", format, num).num = num
  BY DEF Stored
<1>10. Holds(r.value, Stored("assigned", format, num))
  BY <1>6, <1>8, <1>9, Zenon DEF Holds
<1>11. NumberIn(r.value.text, format) = num
  BY <1>7 DEF NumberIn, Data
<1> QED
  BY <1>4, <1>5, <1>10, <1>11

\* The text of a node is shown as it was written.
LEMMA NodeShown ==
    ASSUME NEW v \in ValueType, NEW s \in StoredType, s.source = "node", Holds(v, s), v.TextX = NoData,
           NEW isShort \in BOOLEAN, NEW r, r = AsDataFormat(v, "STRING", isShort)
    PROVE  r.ok = TRUE /\ NumberIn(r.value.text, "STRING") = s.num
<1>1. v.DataFormat = "FTLight" /\ v.TypeX = "NUMBER" /\ v.text = Data("STRING", s.num)
  <2>1. AsNode(v, s)
    BY Zenon DEF Holds
  <2> QED  BY <2>1 DEF AsNode
<1>2. r = Result(TRUE, [v EXCEPT !.DataFormat = "STRING"])
  BY <1>1 DEF AsDataFormat
<1>3. r.ok = TRUE /\ r.value = [v EXCEPT !.DataFormat = "STRING"]
  BY <1>2 DEF Result
<1>4. r.value.text = Data("STRING", s.num)
  BY <1>1, <1>3 DEF ValueType
<1> QED
  BY <1>3, <1>4 DEF NumberIn, Data

-----------------------------------------------------------------------------
(* Steps *)

LEMMA InitConverts ==
    InitValue => ConversionInv
<1> SUFFICES ASSUME InitValue PROVE ConversionInv
  OBVIOUS
<1>1. ConversionTypeOK
  BY UnknownTyped DEF InitValue, ConversionTypeOK, ValueType, StoredType, AnswerType, Undefined, Stored
<1>2. stored.source = "none"
  BY DEF InitValue, Undefined, Stored
<1>3. StoredIsHeld
  BY <1>2, Zenon DEF StoredIsHeld, Holds
<1>4. ReadsAgree
  BY DEF InitValue, ReadsAgree
<1> QED
  BY <1>1, <1>3, <1>4 DEF ConversionInv

LEMMA StoredTyped ==
    ASSUME NEW source \in {"none", "assigned", "number", "node"},
           NEW format \in {"NONE", "FTLight"} \cup ReadFormats, NEW num \in Int
    PROVE  /\ Stored(source, format, num) \in StoredType
           /\ Stored(source, format, num).source = source
           /\ Stored(source, format, num).format = format
           /\ Stored(source, format, num).num = num
  BY DEF Stored, StoredType

LEMMA AssignNumberKeeps ==
    ASSUME ConversionInv, NEW h \in Halves, NEW format \in NumberFormats, AssignNumber(h, format)
    PROVE  ConversionInv'
<1> DEFINE num == Cast(h, format)
           s   == Stored("assigned", format, num)
<1>1. h \in Int
  OBVIOUS
<1>2. num \in Int /\ Cast(num, format) = num /\ format \in ReadFormats
  BY <1>1, NumbersTyped, CastTwice DEF ReadFormats
<1>3. value' = [DataFormat |-> format, TypeX |-> "NONE", text |-> Data(format, num), TextX |-> NoData]
      /\ stored' = s /\ got' = got
  BY DEF AssignNumber
<1> HIDE DEF num
<1>4. s \in StoredType /\ s.source = "assigned" /\ s.format = format /\ s.num = num
  BY <1>2 DEF Stored, StoredType
<1> HIDE DEF s
<1>5. Data(format, num) \in DataType /\ NoData \in DataType
  BY <1>2, DataTyped, UnknownTyped
<1>6. value' \in ValueType
  BY <1>2, <1>3, <1>5 DEF ValueType
<1>7. AsAssigned(value', s)
  BY <1>3, <1>4 DEF AsAssigned
<1>8. Holds(value', s)
  BY <1>2, <1>4, <1>7, Zenon DEF Holds
<1> QED
  BY <1>3, <1>4, <1>6, <1>8 DEF ConversionInv, ConversionTypeOK, StoredIsHeld, ReadsAgree

LEMMA AssignUndefinedKeeps ==
    ASSUME ConversionInv, NEW h \in Halves, AssignPointer(h) \/ AssignString(h)
    PROVE  ConversionInv'
<1>1. h \in Int /\ Whole(h) \in Int
  BY NumbersTyped
<1>2. stored' = Undefined /\ got' = got
  BY DEF AssignPointer, AssignString
<1>3. Data("UINT64", Whole(h)) \in DataType /\ Data("STRING", h) \in DataType /\ NoData \in DataType
  BY <1>1, DataTyped, UnknownTyped DEF ReadFormats, NumberFormats
<1>4. value' \in ValueType
  BY <1>3 DEF AssignPointer, AssignString, ValueType, ReadFormats
<1>5. Undefined \in StoredType /\ Undefined.source = "none"
  BY StoredTyped, UnknownTyped DEF Undefined
<1>6. Holds(value', Undefined)
  BY <1>5, Zenon DEF Holds
<1> QED
  BY <1>2, <1>4, <1>5, <1>6 DEF ConversionInv, ConversionTypeOK, StoredIsHeld, ReadsAgree

LEMMA SetNumberKeeps ==
    ASSUME ConversionInv, NEW h \in Halves, SetNumber(h)
    PROVE  ConversionInv'
<1> DEFINE s == Stored("number", "STRING", h)
<1>1. h \in Int /\ "STRING" \in ReadFormats
  BY DEF ReadFormats
<1>2. value' = [DataFormat |-> "STRING", TypeX |-> "NUMBER", text |-> Data("STRING", h), TextX |-> NoData]
      /\ stored' = s /\ got' = got
  BY DEF SetNumber
<1>3. s \in StoredType /\ s.source = "number" /\ s.format = "STRING" /\ s.num = h
  BY <1>1, StoredTyped
<1> HIDE DEF s
<1>4. Data("STRING", h) \in DataType /\ NoData \in DataType
  BY <1>1, DataTyped, UnknownTyped
<1>5. value' \in ValueType
  BY <1>1, <1>2, <1>4 DEF ValueType
<1>6. AsDigits(value', s)
  BY <1>2, <1>3 DEF AsDigits
<1>7. Holds(value', s)
  BY <1>3, <1>6, Zenon DEF Holds
<1> QED
  BY <1>2, <1>3, <1>5, <1>7 DEF ConversionInv, ConversionTypeOK, StoredIsHeld, ReadsAgree

\* What updateFrom() and a restart leave: a number of a node.
LEMMA NodeHeld ==
    ASSUME NEW h \in Int, h # Unknown,
           value'.DataFormat = "FTLight", value'.TypeX = "NUMBER", value'.text = Data("STRING", h),
           stored' = Stored("node", "FTLight", h)
    PROVE  stored' \in StoredType /\ StoredIsHeld'
<1>1. stored' \in StoredType /\ stored'.source = "node" /\ stored'.format = "FTLight" /\ stored'.num = h
  BY StoredTyped
<1>2. AsNode(value', stored')
  BY <1>1 DEF AsNode
<1>3. Holds(value', stored')
  BY <1>1, <1>2, Zenon DEF Holds
<1> QED
  BY <1>1, <1>3 DEF StoredIsHeld

LEMMA FromNodeTyped ==
    ASSUME NEW h \in Int
    PROVE  /\ FromNode(h) \in ValueType
           /\ FromNode(h).DataFormat = "FTLight" /\ FromNode(h).TypeX = "NUMBER"
           /\ FromNode(h).text = Data("STRING", h)
<1>1. Data("STRING", h) \in DataType /\ NoData \in DataType
  BY DataTyped, UnknownTyped DEF ReadFormats
<1> QED
  BY <1>1 DEF FromNode, ValueType

LEMMA UpdateFromKeeps ==
    ASSUME ConversionInv, NEW h \in Halves, UpdateFrom(h)
    PROVE  ConversionInv'
<1>1. h \in Int /\ h # Unknown /\ value.TextX \in DataType
  BY DEF ConversionInv, ConversionTypeOK, ValueType, Unknown
<1>2. /\ value' = [FromNode(h) EXCEPT !.TextX = value.TextX]
      /\ stored' = Stored("node", "FTLight", h) /\ got' = got
  BY DEF UpdateFrom
<1>3. /\ value' \in ValueType /\ value'.DataFormat = "FTLight" /\ value'.TypeX = "NUMBER"
      /\ value'.text = Data("STRING", h)
  BY <1>1, <1>2, FromNodeTyped DEF ValueType
<1>4. stored' \in StoredType /\ StoredIsHeld'
  BY <1>1, <1>2, <1>3, NodeHeld
<1> QED
  BY <1>2, <1>3, <1>4 DEF ConversionInv, ConversionTypeOK, ReadsAgree

\* A value is written as it was stored, if it has the format it was stored in
\* and is no 'float' or 'uint64'.
LEMMA WrittenAsStored ==
    ASSUME ConversionInv, stored.source # "none",
           value.DataFormat = stored.format, value.DataFormat \notin {"FLOAT", "UINT64"}
    PROVE  AsStringFTL(value) = IF stored.source = "node" THEN Shown(stored.num) ELSE stored.num
<1>1. value \in ValueType /\ stored \in StoredType /\ Holds(value, stored)
  BY DEF ConversionInv, ConversionTypeOK, StoredIsHeld
<1>2. CASE stored.source = "node"
  <2>1. AsNode(value, stored) /\ stored.num # Unknown
    BY <1>1, <1>2, Zenon DEF Holds
  <2>2. value.DataFormat = "FTLight" /\ value.text.num = stored.num
    BY <2>1 DEF AsNode, Data
  <2>3. AsStringFTL(value) = Cast(stored.num, "STRING")
    BY <2>2, Zenon DEF AsStringFTL
  <2>4. Cast(stored.num, "STRING") = Shown(stored.num)
    BY <2>1 DEF Cast
  <2> QED  BY <1>2, <2>3, <2>4
<1>3. CASE stored.source = "number"
  <2>1. stored.format = "STRING" /\ AsDigits(value, stored)
    BY <1>1, <1>3, Zenon DEF Holds
  <2>2. AsStringFTL(value) = NumberIn(value.text, "STRING")
    BY <2>1 DEF AsStringFTL
  <2>3. NumberIn(value.text, "STRING") = stored.num
    BY <2>1 DEF AsDigits, NumberIn, Data
  <2> QED  BY <1>3, <2>2, <2>3
<1>4. CASE stored.source = "assigned"
  <2>1. /\ stored.format \in NumberFormats /\ stored.num = Cast(stored.num, stored.format)
        /\ AsAssigned(value, stored) \/ AsConverted(value, stored)
    BY <1>1, <1>4, Zenon DEF Holds
  <2>2. AsStringFTL(value) = NumberIn(value.text, stored.format)
    BY <2>1 DEF AsStringFTL, NumberFormats
  <2>3. NumberIn(value.text, stored.format) = stored.num
    BY <2>1 DEF AsAssigned, AsConverted, NumberIn, Data
  <2> QED  BY <1>4, <2>2, <2>3
<1> QED
  BY <1>1, <1>2, <1>3, <1>4 DEF StoredType

LEMMA RestoreKeeps ==
    ASSUME ConversionInv, Restore
    PROVE  ConversionInv'
<1> DEFINE h == AsStringFTL(value)
           kept == IF stored.source = "node" THEN Shown(stored.num) ELSE stored.num
           isPromised == /\ stored.source # "none"
                         /\ value.DataFormat = stored.format
                         /\ value.DataFormat \notin {"FLOAT", "UINT64"}
<1>1. /\ \/ h # Unknown /\ value' = FromNode(h) /\ stored' = Stored("node", "FTLight", h)
         \/ /\ \E type \in {"NUMBER", "TEXT"} : value' = [FromNode(h) EXCEPT !.TypeX = type]
            /\ stored' = Undefined
      /\ got' = [format |-> "FTLight", num |-> h, kept |-> kept, isPromised |-> isPromised]
  BY DEF Restore
<1>2. h \in Int /\ kept \in Int
  <2>1. value.text.num \in Int /\ stored.num \in Int
    BY DEF ConversionInv, ConversionTypeOK, ValueType, DataType, StoredType
  <2>2. Cast(value.text.num, "STRING") \in Int /\ Shown(stored.num) \in Int
    BY <2>1, NumbersTyped DEF ReadFormats
  <2> QED  BY <2>1, <2>2, UnknownTyped DEF AsStringFTL, NumberIn
<1>3. isPromised => h = kept
  BY <1>1, WrittenAsStored
<1> HIDE DEF h, kept, isPromised
<1>4. value' \in ValueType /\ StoredIsHeld' /\ stored' \in StoredType
  <2>1. FromNode(h) \in ValueType
    BY <1>2, FromNodeTyped
  <2>2. CASE h # Unknown /\ value' = FromNode(h) /\ stored' = Stored("node", "FTLight", h)
    BY <1>2, <2>2, FromNodeTyped, NodeHeld
  <2>3. ASSUME NEW type \in {"NUMBER", "TEXT"}, value' = [FromNode(h) EXCEPT !.TypeX = type], stored' = Undefined
        PROVE  value' \in ValueType /\ StoredIsHeld' /\ stored' \in StoredType
    <3>1. value' \in ValueType
      BY <2>1, <2>3 DEF ValueType
    <3>2. Undefined \in StoredType /\ Undefined.source = "none"
      BY StoredTyped, UnknownTyped DEF Undefined
    <3>3. Holds(value', Undefined)
      BY <3>2, Zenon DEF Holds
    <3> QED  BY <2>3, <3>1, <3>2, <3>3 DEF StoredIsHeld
  <2> QED  BY <1>1, <2>2, <2>3
<1>5. isPromised \in BOOLEAN
  BY DEF isPromised
<1>6. got' \in AnswerType /\ ReadsAgree'
  BY <1>1, <1>2, <1>3, <1>5 DEF AnswerType, ReadsAgree
<1> QED
  BY <1>4, <1>6 DEF ConversionInv, ConversionTypeOK

\* What a read does when it is known what the conversion gives.
LEMMA ReadTyped ==
    ASSUME NEW r \in ResultType, NEW format \in ReadFormats
    PROVE  /\ [r.value EXCEPT !.text = Data("STRING", Unknown)] \in ValueType
           /\ (IF r.ok THEN NumberIn(r.value.text, format) ELSE 0) \in Int
<1>1. r.value \in ValueType
  BY DEF ResultType
<1>2. Data("STRING", Unknown) \in DataType
  BY DataTyped, UnknownTyped DEF ReadFormats
<1>3. NumberIn(r.value.text, format) \in Int
  BY <1>1, UnknownTyped DEF NumberIn, ValueType, DataType
<1> QED
  BY <1>1, <1>2, <1>3 DEF ValueType

LEMMA NowStoredTyped ==
    ASSUME ConversionInv, NEW format \in ReadFormats
    PROVE  NowStored(format) \in StoredType
<1>1. stored \in StoredType /\ stored.num \in Int
  BY DEF ConversionInv, ConversionTypeOK, StoredType
<1>2. Undefined \in StoredType
  BY StoredTyped, UnknownTyped DEF Undefined
<1>3. NumCast(stored.num, format) \in Int
  BY <1>1, NumbersTyped
<1>4. Stored("assigned", format, NumCast(stored.num, format)) \in StoredType
  BY <1>3 DEF Stored, StoredType
<1>5. NowStored(format) \in {Undefined, stored, Stored("assigned", format, NumCast(stored.num, format))}
  BY Zenon DEF NowStored
<1> QED
  BY <1>1, <1>2, <1>4, <1>5

LEMMA ReadAsKeeps ==
    ASSUME ConversionInv, NEW format \in ReadFormats, ReadAs(format)
    PROVE  ConversionInv'
<1>1. PICK isShort \in BOOLEAN :
        LET r == AsDataFormat(value, format, isShort)
            shown == stored.source \in {"node", "number"} /\ format = "STRING"
        IN  /\ value' = IF r.ok \/ format # "STRING" THEN r.value ELSE [r.value EXCEPT !.text = Data("STRING", Unknown)]
            /\ got' = [format |-> format,
                       num |-> IF r.ok THEN NumberIn(r.value.text, format) ELSE 0,
                       kept |-> IF shown THEN stored.num ELSE Cast(stored.num, format),
                       isPromised |-> IsPromised(format)]
            /\ stored' = NowStored(format)
  BY Zenon DEF ReadAs
<1> DEFINE r == AsDataFormat(value, format, isShort)
           shown == stored.source \in {"node", "number"} /\ format = "STRING"
           num == IF r.ok THEN NumberIn(r.value.text, format) ELSE 0
           kept == IF shown THEN stored.num ELSE Cast(stored.num, format)
<1>2. /\ value' = IF r.ok \/ format # "STRING" THEN r.value ELSE [r.value EXCEPT !.text = Data("STRING", Unknown)]
      /\ got' = [format |-> format, num |-> num, kept |-> kept, isPromised |-> IsPromised(format)]
      /\ stored' = NowStored(format)
  BY <1>1
<1>3. r = AsDataFormat(value, format, isShort) /\ value \in ValueType /\ stored \in StoredType /\ Holds(value, stored)
  BY DEF ConversionInv, ConversionTypeOK, StoredIsHeld
<1>4. r \in ResultType
  BY <1>3, AsDataFormatTyped
<1> HIDE DEF r
<1>5. r.ok \in BOOLEAN /\ r.value \in ValueType
  BY <1>4 DEF ResultType
<1>6. value' \in ValueType
  BY <1>2, <1>4, <1>5, ReadTyped
<1>7. num \in Int
  BY <1>4, ReadTyped
<1>8. kept \in Int
  <2>1. stored.num \in Int
    BY <1>3 DEF StoredType
  <2> QED  BY <2>1, NumbersTyped
<1>9. IsPromised(format) \in BOOLEAN
  BY DEF IsPromised
<1>10. got' \in AnswerType
  BY <1>2, <1>7, <1>8, <1>9 DEF AnswerType
<1>11. stored' \in StoredType
  BY <1>2, NowStoredTyped
<1>12. (r.ok = TRUE => num = NumberIn(r.value.text, format)) /\ (format # "STRING" => kept = Cast(stored.num, format))
  OBVIOUS
<1>13. format = "STRING" /\ stored.source \in {"node", "number"} => kept = stored.num
  OBVIOUS
<1>14. stored.source \notin {"node", "number"} => kept = Cast(stored.num, format)
  OBVIOUS
<1> HIDE DEF num, kept, shown
<1> SUFFICES StoredIsHeld' /\ ReadsAgree'
  BY <1>6, <1>10, <1>11 DEF ConversionInv, ConversionTypeOK
<1> SUFFICES Holds(value', stored') /\ (IsPromised(format) => num = kept)
  BY <1>2 DEF StoredIsHeld, ReadsAgree
<1>15. CASE stored.source = "assigned"
  <2>1. stored' = stored
    BY <1>2, <1>15, Zenon DEF NowStored
  <2>2. /\ Holds(r.value, stored)
        /\ format = "STRING" => r.ok = TRUE
        /\ (format = "UINT64" => value.DataFormat = "UINT64") =>
              r.ok = TRUE /\ NumberIn(r.value.text, format) = Cast(stored.num, format)
    BY <1>3, <1>15, AssignedRead
  <2>3. value' = r.value
    BY <1>2, <2>2
  <2>4. IsPromised(format) => (format = "UINT64" => value.DataFormat = "UINT64")
    BY <1>15, Zenon DEF IsPromised
  <2> QED  BY <1>12, <1>14, <1>15, <2>1, <2>2, <2>3, <2>4
<1>16. CASE stored.source = "number"
  <2>1. stored' = stored
    BY <1>2, <1>16, Zenon DEF NowStored
  <2>2. /\ Holds(r.value, stored)
        /\ format = "STRING" => r.ok = TRUE /\ NumberIn(r.value.text, format) = stored.num
    BY <1>3, <1>16, DigitsRead, ZenonT(40)
  <2>3. value' = r.value
    BY <1>2, <2>2
  <2>4. IsPromised(format) => format = "STRING"
    BY <1>16, Zenon DEF IsPromised
  <2> QED  BY <1>12, <1>13, <1>16, <2>1, <2>2, <2>3, <2>4
<1>17. CASE stored.source = "node" /\ format = "STRING"
  <2>1. stored' = Undefined
    BY <1>2, <1>17, Zenon DEF NowStored
  <2>2. Undefined.source = "none"
    BY DEF Undefined, Stored
  <2>3. Holds(value', stored')
    BY <2>1, <2>2, Zenon DEF Holds
  <2>4. IsPromised(format) => value.TextX = NoData
    BY <1>17, Zenon DEF IsPromised
  <2>5. value.TextX = NoData => r.ok = TRUE /\ NumberIn(r.value.text, format) = stored.num
    BY <1>3, <1>17, NodeShown
  <2> QED  BY <1>12, <1>13, <1>17, <2>3, <2>4, <2>5
<1>18. CASE stored.source = "node" /\ format # "STRING"
  <2>1. stored' = Stored("assigned", format, NumCast(stored.num, format))
    BY <1>2, <1>18, Zenon DEF NowStored
  <2>2. format \in NumberFormats
    BY <1>18 DEF ReadFormats
  <2>3. /\ Holds(r.value, Stored("assigned", format, NumCast(stored.num, format)))
        /\ r.ok = TRUE /\ NumberIn(r.value.text, format) = NumCast(stored.num, format)
    BY <1>3, <1>18, <2>2, NodeRead
  <2>4. value' = r.value
    BY <1>2, <2>3
  <2>5. IsPromised(format) => (format = "BOOL" => stored.num % 2 = 0) /\ (format = "UINT64" => stored.num >= 0)
    BY <1>18, Zenon DEF IsPromised
  <2>6. stored.num \in Int
    BY <1>3 DEF StoredType
  <2>7. IsPromised(format) => NumCast(stored.num, format) = Cast(stored.num, format)
    BY <2>2, <2>5, <2>6, NumCastAgrees
  <2> QED  BY <1>12, <1>18, <2>1, <2>3, <2>4, <2>7
<1>19. CASE stored.source = "none"
  <2>1. stored' = stored
    BY <1>2, <1>19, Zenon DEF NowStored
  <2>2. Holds(value', stored')
    BY <1>19, <2>1, Zenon DEF Holds
  <2>3. ~IsPromised(format)
    BY <1>19, Zenon DEF IsPromised
  <2> QED  BY <2>2, <2>3
<1> QED
  BY <1>3, <1>15, <1>16, <1>17, <1>18, <1>19 DEF StoredType

\* The invariant is inductive: whatever calls convert the value, what is left of
\* what was stored is enough for all later reads.
THEOREM ConversionInvInductive == SpecValue => []ConversionInv
<1>1. InitValue => ConversionInv
  BY InitConverts
<1>2. ConversionInv /\ [NextValue]_conversion => ConversionInv'
  <2> SUFFICES ASSUME ConversionInv, [NextValue]_conversion PROVE ConversionInv'
    OBVIOUS
  <2>1. ASSUME NEW h \in Halves, NEW format \in NumberFormats, AssignNumber(h, format) PROVE ConversionInv'
    BY <2>1, AssignNumberKeeps
  <2>2. ASSUME NEW h \in Halves, AssignPointer(h) \/ AssignString(h) PROVE ConversionInv'
    BY <2>2, AssignUndefinedKeeps
  <2>3. ASSUME NEW h \in Halves, SetNumber(h) PROVE ConversionInv'
    BY <2>3, SetNumberKeeps
  <2>4. ASSUME NEW h \in Halves, UpdateFrom(h) PROVE ConversionInv'
    BY <2>4, UpdateFromKeeps
  <2>5. ASSUME NEW format \in ReadFormats, ReadAs(format) PROVE ConversionInv'
    BY <2>5, ReadAsKeeps
  <2>6. CASE Restore
    BY <2>6, RestoreKeeps
  <2>7. CASE UNCHANGED conversion
    BY <2>7 DEF conversion, ConversionInv, ConversionTypeOK, StoredIsHeld, ReadsAgree
  <2> QED  BY <2>1, <2>2, <2>3, <2>4, <2>5, <2>6, <2>7 DEF NextValue
<1> QED
  BY <1>1, <1>2, PTL DEF SpecValue

\* However often a value was read and converted in place, a read gives the
\* conversion of what was stored (asDataFormat()), and it is written as it was
\* stored if it has that format, a 'float' and a 'uint64' apart (asStringFTL()).
THEOREM ReadsAlwaysAgree == SpecValue => []ReadsAgree
<1>1. ConversionInv => ReadsAgree
  BY DEF ConversionInv
<1> QED
  BY <1>1, ConversionInvInductive, PTL
=============================================================================
