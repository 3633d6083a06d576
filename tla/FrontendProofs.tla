--------------------------- MODULE FrontendProofs ---------------------------
(***************************************************************************)
(* The binary protocol for any messages and lengths: what is read from the *)
(* cells of a field is what was written, and a part of them is never taken *)
(* for a field.  So both decoders stay where the writers are, whenever the *)
(* client leaves, and up to where a request is cut: what is written behind *)
(* it is read when all before it has been.  And the router, with what      *)
(* Start registers with it: a request goes to the longest pattern, however *)
(* many there are and in whatever order they come.                         *)
(***************************************************************************)
EXTENDS Frontend, Bootstrap, QueueLemmas, FiniteSetTheorems

Pieces == Seq(Seq(Int))

(* What FlattenSeq makes of pieces are cells...                            *)
LEMMA CellsType ==
  /\ FlattenSeq(<<>>) = <<>>
  /\ \A w \in Pieces : FlattenSeq(w) \in Seq(Int)
BY FlattenType DEF Pieces, Lists

(* ...those of pieces, then those of pieces after them...                  *)
LEMMA CellsJoin ==
  ASSUME NEW w \in Pieces, NEW x \in Pieces
  PROVE  w \o x \in Pieces /\ FlattenSeq(w \o x) = FlattenSeq(w) \o FlattenSeq(x)
BY FlattenJoin DEF Pieces, Lists

(* ...and those of the first, then those of the others.                    *)
LEMMA CellsFirst ==
  ASSUME NEW w \in Pieces, w # <<>>
  PROVE  \E p \in Seq(Int), t \in Pieces :
           /\ p = w[1] /\ t = Tail(w) /\ Len(w) = Len(t) + 1
           /\ \A i \in 1..Len(t) : t[i] = w[i + 1]
           /\ FlattenSeq(w) = p \o FlattenSeq(t)
<1>1. PICK V : V = Int /\ w \in Lists(V)
  BY DEF Pieces, Lists
<1>2. \E p \in Seq(V), t \in Lists(V) : FirstOf(w, p, t)
  BY <1>1, FlattenFirst
<1> QED
  BY <1>1, <1>2 DEF FirstOf, Pieces, Lists
-----------------------------------------------------------------------------
(* What is under way, with what was lost behind it, are the pieces that    *)
(* are to be read yet: either the first is there, or only a part of it.    *)
LEMMA Meet ==
  ASSUME NEW a \in Seq(Int), NEW b \in Seq(Int), NEW c \in Seq(Int), NEW d \in Seq(Int),
         a \o b = c \o d
  PROVE  /\ Len(c) <= Len(a) =>
              /\ \A j \in 1..Len(c) : a[j] = c[j]
              /\ SubSeq(a, Len(c) + 1, Len(a)) \in Seq(Int)
              /\ SubSeq(a, Len(c) + 1, Len(a)) \o b = d
<1>1. PICK k, l, m, n \in Nat : k = Len(a) /\ l = Len(b) /\ m = Len(c) /\ n = Len(d)
  BY LenProperties
<1>2. PICK e \in Seq(Int) : e = a \o b /\ e = c \o d
  BY ConcatProperties
<1>3. /\ Len(e) = k + l /\ Len(e) = m + n
      /\ \A i \in 1..(k + l) : e[i] = IF i <= k THEN a[i] ELSE b[i - k]
      /\ \A i \in 1..(m + n) : e[i] = IF i <= m THEN c[i] ELSE d[i - m]
  BY SMTT(20), <1>1, <1>2, ConcatProperties
<1>4. ASSUME m <= k
      PROVE  /\ \A j \in 1..m : a[j] = c[j]
             /\ SubSeq(a, m + 1, k) \in Seq(Int) /\ SubSeq(a, m + 1, k) \o b = d
  <2>1. ASSUME NEW j \in 1..m PROVE a[j] = c[j]
    <3>1. j \in 1..(k + l) /\ j \in 1..(m + n) /\ j <= k /\ j <= m
      BY <1>4
    <3>2. e[j] = a[j] /\ e[j] = c[j]
      BY <1>3, <3>1
    <3> QED
      BY <3>2
  <2>2. \A i \in (m + 1)..k : a[i] \in Int
    <3>1. \A i \in 1..k : a[i] \in Int
      BY <1>1, ElementOfSeq
    <3> QED
      BY <3>1
  <2>3. PICK r : r = SubSeq(a, m + 1, k)
    OBVIOUS
  <2>4. /\ r \in Seq(Int) /\ Len(r) = IF m + 1 <= k THEN k - (m + 1) + 1 ELSE 0
        /\ \A i \in 1..(k - (m + 1) + 1) : r[i] = a[(m + 1) + i - 1]
    BY <2>2, <2>3, SubSeqProperties
  <2>5. Len(r) = k - m /\ \A i \in 1..(k - m) : r[i] = a[m + i]
    <3>1. Len(r) = k - m
      BY <1>4, <2>4
    <3>2. \A i \in 1..(k - m) : (m + 1) + i - 1 = m + i /\ k - (m + 1) + 1 = k - m
      OBVIOUS
    <3> QED
      BY <2>4, <3>1, <3>2
  <2>6. PICK s \in Seq(Int) : s = r \o b
    BY <2>4, ConcatProperties
  <2>7. /\ Len(s) = (k - m) + l
        /\ \A i \in 1..((k - m) + l) : s[i] = IF i <= k - m THEN r[i] ELSE b[i - (k - m)]
    <3>1. PICK x \in Nat : x = k - m
      BY <1>4
    <3>2. Len(r) = x
      BY <2>5, <3>1
    <3>3. /\ Len(s) = x + l
          /\ \A i \in 1..(x + l) : s[i] = IF i <= x THEN r[i] ELSE b[i - x]
      <4>1. /\ Len(s) = Len(r) + Len(b)
            /\ \A i \in 1..(Len(r) + Len(b)) : s[i] = IF i <= Len(r) THEN r[i] ELSE b[i - Len(r)]
        BY <2>4, <2>6, ConcatProperties
      <4>2. Len(b) = l
        BY <1>1
      <4> QED
        BY <3>2, <4>1, <4>2
    <3> QED
      BY <3>1, <3>3
  <2>8. Len(s) = n
    BY <1>3, <2>7
  <2>9. ASSUME NEW i \in 1..n PROVE s[i] = d[i]
    <3>0. k + l = m + n
      BY <1>3
    <3>1. m + i \in 1..(m + n) /\ m + i \in 1..(k + l) /\ ~(m + i <= m) /\ (m + i) - m = i
      <4>1. m + i \in 1..(m + n) /\ ~(m + i <= m) /\ (m + i) - m = i
        OBVIOUS
      <4> QED
        BY <3>0, <4>1
    <3>2. e[m + i] = d[i]
      BY <1>3, <3>1
    <3>3. i \in 1..((k - m) + l)
      BY <1>3
    <3>4. CASE i <= k - m
      <4>1. m + i <= k /\ i \in 1..(k - m)
        BY <3>4
      <4>2. e[m + i] = a[m + i]
        BY <1>3, <3>1, <4>1
      <4>3. s[i] = r[i]
        BY <2>7, <3>3, <3>4
      <4>4. r[i] = a[m + i]
        BY <2>5, <4>1
      <4> QED
        BY <3>2, <4>2, <4>3, <4>4
    <3>5. CASE ~(i <= k - m)
      <4>1. ~(m + i <= k) /\ (m + i) - k = i - (k - m)
        BY <3>5
      <4>2. e[m + i] = b[(m + i) - k] /\ s[i] = b[i - (k - m)]
        BY <1>3, <2>7, <3>1, <3>3, <3>5, <4>1
      <4> QED
        BY <3>2, <4>1, <4>2
    <3> QED
      BY <3>4, <3>5
  <2>10. s = d
    BY <1>1, <2>8, <2>9, SeqEqual
  <2> QED
    BY <2>1, <2>3, <2>4, <2>6, <2>10
<1> QED
  BY <1>1, <1>4

(* A part of the first piece agrees with it.                               *)
LEMMA MeetPart ==
  ASSUME NEW a \in Seq(Int), NEW b \in Seq(Int), NEW c \in Seq(Int), NEW d \in Seq(Int),
         a \o b = c \o d
  PROVE  Len(a) < Len(c) => \A j \in 1..Len(a) : a[j] = c[j]
<1>1. PICK k, l, m, n \in Nat : k = Len(a) /\ l = Len(b) /\ m = Len(c) /\ n = Len(d)
  BY LenProperties
<1>2. PICK e \in Seq(Int) : e = a \o b /\ e = c \o d
  BY ConcatProperties
<1>3. /\ \A i \in 1..(k + l) : e[i] = IF i <= k THEN a[i] ELSE b[i - k]
      /\ \A i \in 1..(m + n) : e[i] = IF i <= m THEN c[i] ELSE d[i - m]
  BY <1>1, <1>2, ConcatProperties
<1>4. ASSUME k < m, NEW j \in 1..k PROVE a[j] = c[j]
  <2>1. j \in 1..(k + l) /\ j \in 1..(m + n) /\ j <= k /\ j <= m
    BY <1>4
  <2>2. e[j] = a[j] /\ e[j] = c[j]
    BY <1>3, <2>1
  <2> QED
    BY <2>2
<1> QED
  BY <1>1, <1>4

(* Cells that are cut in two are the two parts again.                      *)
LEMMA Apart ==
  ASSUME NEW c \in Seq(Int), NEW n \in 0..Len(c)
  PROVE  /\ SubSeq(c, 1, n) \in Seq(Int) /\ SubSeq(c, n + 1, Len(c)) \in Seq(Int)
         /\ SubSeq(c, 1, n) \o SubSeq(c, n + 1, Len(c)) = c
         /\ n < Len(c) => SubSeq(c, n + 1, Len(c)) # <<>>
<1>1. PICK k \in Nat : k = Len(c)
  BY LenProperties
<1>2. \A i \in 1..k : c[i] \in Int
  BY <1>1, ElementOfSeq
<1>3. SubSeq(c, 1, n) \in Seq(Int)
  <2>1. \A i \in 1..n : c[i] \in Int
    BY <1>1, <1>2
  <2> QED
    BY <2>1, SubSeqProperties
<1>4. /\ SubSeq(c, n + 1, k) \in Seq(Int)
      /\ Len(SubSeq(c, n + 1, k)) = IF n + 1 <= k THEN k - (n + 1) + 1 ELSE 0
  <2>1. \A i \in (n + 1)..k : c[i] \in Int
    BY <1>1, <1>2
  <2> QED
    BY <1>1, <2>1, SubSeqProperties
<1>5. SubSeq(c, 1, n) \o SubSeq(c, n + 1, k) = SubSeq(c, 1, k)
  <2>1. 1 \in 1..(k + 1) /\ n \in (1 - 1)..k /\ k \in n..k
    BY <1>1
  <2> QED
    BY <1>1, <2>1, ConcatAdjacentSubSeq
<1>6. n < k => Len(SubSeq(c, n + 1, k)) # 0
  BY <1>1, <1>4
<1> QED
  BY <1>1, <1>3, <1>4, <1>5, <1>6, SubSeqFull, EmptySeq

Regroups(a, b, c) == (a \o b) \o c = a \o (b \o c)

LEMMA RegroupParts ==
  ASSUME NEW a \in Seq(Int), NEW b \in Seq(Int), NEW c \in Seq(Int) PROVE Regroups(a, b, c)
BY SMTT(20), ConcatAssociative DEF Regroups

(* What is behind the first part of a is followed by what is behind a.     *)
Past(a, n)         == SubSeq(a, n + 1, Len(a))
Remains(c, n, r, b) == Past(c, n) = r \o b

LEMMA BehindPart ==
  ASSUME NEW a \in Seq(Int), NEW b \in Seq(Int), NEW n \in 0..Len(a),
         NEW c, c = a \o b, NEW r, r = Past(a, n)
  PROVE  r \in Seq(Int) /\ Remains(c, n, r, b)
<1>1. PICK h \in Seq(Int) : h = SubSeq(a, 1, n) /\ r \in Seq(Int) /\ h \o r = a
  BY Apart DEF Past
<1>2. PICK x \in Seq(Int) : x = r \o b
  BY <1>1, ConcatProperties
<1>3. Regroups(h, r, b)
  BY <1>1, RegroupParts
<1>4. c \in Seq(Int) /\ c = h \o x /\ c \o <<>> = c /\ <<>> \in Seq(Int)
  <2>1. c = h \o x
    BY <1>1, <1>2, <1>3 DEF Regroups
  <2>2. h \o x \in Seq(Int)
    BY ConcatProperties
  <2> QED
    BY <2>1, <2>2, ConcatEmptySeq, EmptySeq
<1>5. n = Len(h) /\ Len(h) <= Len(c)
  <2>1. PICK k, l \in Nat : k = Len(a) /\ l = Len(b)
    BY LenProperties
  <2>2. \A i \in 1..n : a[i] \in Int
    BY <2>1, ElementOfSeq
  <2>3. Len(h) = IF 1 <= n THEN n - 1 + 1 ELSE 0
    BY <1>1, <2>2, SubSeqProperties
  <2>4. Len(c) = k + l
    BY <2>1, ConcatProperties
  <2> QED
    BY <2>1, <2>3, <2>4
<1>6. SubSeq(c, Len(h) + 1, Len(c)) \o <<>> = x
  BY <1>4, <1>5, Meet
<1>7. SubSeq(c, Len(h) + 1, Len(c)) \in Seq(Int)
  BY <1>4, <1>5, Meet
<1>8. SubSeq(c, Len(h) + 1, Len(c)) = x
  BY <1>6, <1>7, ConcatEmptySeq
<1> QED
  BY <1>1, <1>2, <1>5, <1>8 DEF Past, Remains
-----------------------------------------------------------------------------
(* The fields.                                                             *)
Arrays == {"array16", "array32"}
Named(name, kind) ==
  /\ kind \in Arrays \cup {"int16", "int64"} \cup DOMAIN Table
  /\ name \in {"params", "hello"} => kind \in Arrays

Fits(name, kind, v) ==
  /\ kind \in Arrays => Bytes(v, Half(kind))
  /\ name \in {"params", "hello"} => v \in Json
  /\ kind = "int16" => v \in -Half16..(Half16 - 1)
  /\ kind = "int64" => v \in Int
  /\ kind \in DOMAIN Table => Contains(Table[kind], v)

(* A length that is short enough stays as it is.                           *)
LEMMA WrapFits ==
  ASSUME NEW half \in Nat \ {0}, NEW n \in -half..(half - 1)
  PROVE  Wrap(n, half) = n
<1>1. \A m \in Nat \ {0} : \A x \in 0..(m - 1) : x % m = x
  OBVIOUS
<1>2. 2 * half \in Nat \ {0} /\ n + half \in 0..(2 * half - 1)
  OBVIOUS
<1>3. (n + half) % (2 * half) = n + half
  BY <1>1, <1>2
<1> QED
  BY <1>3 DEF Wrap

Place(kind, v) == SelectInSeq(Table[kind], LAMBDA e : e = v)

(* The tables give a value back for its number.                            *)
LEMMA TableFinds ==
  ASSUME NEW kind \in DOMAIN Table, NEW v, Contains(Table[kind], v)
  PROVE  /\ Place(kind, v) \in 1..Len(Table[kind]) /\ Table[kind][Place(kind, v)] = v
         /\ Len(Table[kind]) \in Nat
<1>1. PICK t : t = Table[kind]
  OBVIOUS
<1>2. Len(t) \in Nat
  BY <1>1 DEF Table, TXN_ACCEPT, TXN_STATUS, METHOD, PARAM_ENCODING, CONTENT_ENCODING
<1> DEFINE I == {i \in 1..Len(t) : t[i] = v}
<1>3. I # {} /\ I \subseteq Nat
  BY <1>1, <1>2 DEF Contains
<1>4. Min(I) \in I
  <2> HIDE DEF I
  <2>1. \E x \in I : \A y \in I : x <= y
    BY <1>3, LeastNumber
  <2> QED
    BY <2>1 DEF Min
<1>5. Place(kind, v) = Min(I)
  BY <1>1, <1>3 DEF SelectInSeq, Place
<1> QED
  BY <1>1, <1>2, <1>4, <1>5

(* What a value is written as.                                             *)
LEMMA Written ==
  ASSUME NEW name, NEW kind, NEW v, Named(name, kind), Fits(name, kind, v)
  PROVE  /\ kind \in Arrays => v \in Seq(Int) /\ WriteField(kind, v) = <<Len(v)>> \o v
         /\ kind \in DOMAIN Table =>
              \E i \in 1..Len(Table[kind]) :
                /\ WriteField(kind, v) = <<i - 1>> /\ Table[kind][i] = v
                /\ Len(Table[kind]) \in Nat
<1>1. ASSUME kind \in Arrays
      PROVE  v \in Seq(Int) /\ WriteField(kind, v) = <<Len(v)>> \o v
  <2>1. v \in Seq(Int) /\ Len(v) < Half(kind)
    BY <1>1 DEF Fits, Bytes
  <2>2. Half(kind) \in Nat \ {0}
    BY CodecAssumption DEF Half
  <2>3. Len(v) \in -Half(kind)..(Half(kind) - 1)
    BY <2>1, <2>2, LenProperties
  <2>4. Wrap(Len(v), Half(kind)) = Len(v)
    BY <2>2, <2>3, WrapFits
  <2>5. WriteField(kind, v) = WriteArray(v, kind)
    BY <1>1 DEF WriteField, Arrays, SelectInSeq
  <2> QED
    BY <2>1, <2>4, <2>5 DEF WriteArray
<1>4. ASSUME kind \in DOMAIN Table
      PROVE  \E i \in 1..Len(Table[kind]) :
                /\ WriteField(kind, v) = <<i - 1>> /\ Table[kind][i] = v
                /\ Len(Table[kind]) \in Nat
  <2>1. PICK i : i = Place(kind, v)
    OBVIOUS
  <2>2. /\ i \in 1..Len(Table[kind]) /\ Table[kind][i] = v
        /\ Len(Table[kind]) \in Nat
    <3>1. Contains(Table[kind], v)
      BY <1>4 DEF Fits
    <3> QED
      BY <1>4, <2>1, <3>1, TableFinds
  <2>3. WriteField(kind, v) = <<Place(kind, v) - 1>>
    BY <1>4 DEF WriteField, Table, SelectInSeq, Place
  <2> QED
    BY <2>1, <2>2, <2>3
<1> QED
  BY <1>1, <1>4

(* A number is one cell, which is the number itself.                       *)
LEMMA WrittenNumber ==
  ASSUME NEW name, NEW kind \in {"int16", "int64"}, NEW v, Fits(name, kind, v)
  PROVE  v \in Int /\ WriteField(kind, v) = <<v>>
<1>1. ASSUME kind = "int16" PROVE v \in Int /\ WriteField(kind, v) = <<v>>
  <2>1. v \in -Half16..(Half16 - 1) /\ Half16 \in Nat \ {0}
    BY <1>1, CodecAssumption DEF Fits
  <2>2. Wrap(v, Half16) = v
    BY <2>1, WrapFits
  <2>3. WriteField(kind, v) = <<Wrap(v, Half16)>>
    BY <1>1 DEF WriteField, SelectInSeq
  <2> QED
    BY <2>1, <2>2, <2>3
<1>2. ASSUME kind = "int64" PROVE v \in Int /\ WriteField(kind, v) = <<v>>
  BY <1>2 DEF Fits, WriteField, SelectInSeq
<1> QED
  BY <1>1, <1>2

Starts(cells, p) ==
  /\ cells \in Seq(Int)
  /\ \A j \in 1..Len(p) : j <= Len(cells) => cells[j] = p[j]

(* What is written for a field is at least a cell, of which an array that  *)
(* is not all there lacks some.                                            *)
LEMMA ArrayRead ==
  ASSUME NEW v \in Seq(Int), NEW cells, Starts(cells, <<Len(v)>> \o v), cells # <<>>
  PROVE  /\ <<Len(v)>> \o v \in Seq(Int) /\ Len(<<Len(v)>> \o v) = Len(v) + 1
         /\ Len(cells) >= Len(v) + 1 => ReadArray(cells) = Took(v, Len(v) + 1)
         /\ Len(cells) < Len(v) + 1 => ReadArray(cells) = Fails("short")
<1>1. PICK n \in Nat : n = Len(v)
  BY LenProperties
<1>2. PICK h \in Seq(Int) : h = <<n>> /\ Len(h) = 1 /\ h[1] = n
  <2>1. <<n>> \in Seq(Int) /\ Len(<<n>>) = 1 /\ <<n>>[1] = n
    OBVIOUS
  <2> QED
    BY <2>1
<1>3. PICK p : p = h \o v
  OBVIOUS
<1>4. p \in Seq(Int) /\ Len(p) = n + 1 /\ p[1] = n /\ \A i \in 1..n : p[i + 1] = v[i]
  <2>1. /\ p \in Seq(Int) /\ Len(p) = 1 + n
        /\ \A i \in 1..(1 + n) : p[i] = IF i <= 1 THEN h[i] ELSE v[i - 1]
    BY <1>1, <1>2, <1>3, ConcatProperties
  <2>2. p[1] = n
    <3>1. 1 \in 1..(1 + n)
      OBVIOUS
    <3> QED
      BY <1>2, <2>1, <3>1
  <2>3. ASSUME NEW i \in 1..n PROVE p[i + 1] = v[i]
    <3>1. i + 1 \in 1..(1 + n) /\ ~(i + 1 <= 1) /\ (i + 1) - 1 = i
      OBVIOUS
    <3> QED
      BY <2>1, <3>1
  <2> QED
    BY <2>1, <2>2, <2>3
<1>5. PICK k \in Nat \ {0} : k = Len(cells)
  BY EmptySeq DEF Starts
<1>6. cells \in Seq(Int) /\ \A j \in 1..(n + 1) : j <= k => cells[j] = p[j]
  BY <1>1, <1>2, <1>3, <1>4, <1>5 DEF Starts
<1>7. cells[1] = n
  BY <1>4, <1>5, <1>6
<1>8. ASSUME k >= n + 1 PROVE ReadArray(cells) = Took(v, n + 1)
  <2>1. ReadArray(cells) = Took(SubSeq(cells, 2, n + 1), n + 1)
    <3>1. ~(cells[1] < 0) /\ ~(cells[1] >= Len(cells))
      BY <1>5, <1>7, <1>8
    <3> QED
      BY <1>7, <3>1 DEF ReadArray
  <2>2. ASSUME NEW i \in 1..n PROVE cells[i + 1] = v[i] /\ v[i] \in Int
    <3>1. i + 1 \in 1..(n + 1) /\ i + 1 <= k
      BY <1>8
    <3> QED
      BY <1>1, <1>4, <1>6, <3>1, ElementOfSeq
  <2>3. \A i \in 2..(n + 1) : cells[i] \in Int
    <3> TAKE i \in 2..(n + 1)
    <3>1. i - 1 \in 1..n /\ (i - 1) + 1 = i
      OBVIOUS
    <3> QED
      BY <2>2, <3>1
  <2>4. PICK s : s = SubSeq(cells, 2, n + 1)
    OBVIOUS
  <2>5. /\ s \in Seq(Int) /\ Len(s) = IF 2 <= n + 1 THEN (n + 1) - 2 + 1 ELSE 0
        /\ \A i \in 1..((n + 1) - 2 + 1) : s[i] = cells[2 + i - 1]
    BY <2>3, <2>4, SubSeqProperties
  <2>6. Len(s) = n
    BY <2>5
  <2>7. ASSUME NEW i \in 1..n PROVE s[i] = v[i]
    <3>1. (n + 1) - 2 + 1 = n /\ 2 + i - 1 = i + 1
      OBVIOUS
    <3> QED
      BY <2>2, <2>5, <3>1
  <2>8. s = v
    BY <1>1, <2>5, <2>6, <2>7, SeqEqual
  <2> QED
    BY <2>1, <2>4, <2>8
<1>9. ASSUME k < n + 1 PROVE ReadArray(cells) = Fails("short")
  <2>1. ~(cells[1] < 0) /\ cells[1] >= Len(cells)
    BY <1>5, <1>7, <1>9
  <2> QED
    BY <2>1 DEF ReadArray
<1> QED
  BY <1>1, <1>2, <1>3, <1>4, <1>5, <1>8, <1>9

(* A field is read as it was written when all of it is there, and the      *)
(* reader waits when not.                                                  *)
LEMMA FieldRead ==
  ASSUME NEW name, NEW kind, NEW v, Named(name, kind), Fits(name, kind, v), NEW cells,
         Starts(cells, WriteField(kind, v))
  PROVE  /\ WriteField(kind, v) \in Seq(Int) /\ Len(WriteField(kind, v)) > 0
         /\ IF Len(cells) >= Len(WriteField(kind, v))
            THEN ReadField(cells, name, kind) = Took(v, Len(WriteField(kind, v)))
            ELSE ReadField(cells, name, kind).state = "short"
<1>1. PICK p : p = WriteField(kind, v)
  OBVIOUS
<1>2. PICK k \in Nat : k = Len(cells) /\ (k = 0 <=> cells = <<>>)
  BY LenProperties, EmptySeq DEF Starts
<1>3. k = 0 => ReadField(cells, name, kind).state = "short"
  BY <1>2 DEF ReadField, Fails
<1>4. CASE kind \in Arrays
  <2>1. v \in Seq(Int) /\ p = <<Len(v)>> \o v
    BY <1>1, <1>4, Written
  <2>2. Len(v) \in Nat
    BY <2>1, LenProperties
  <2>3. p \in Seq(Int) /\ Len(p) = Len(v) + 1
    <3>1. <<Len(v)>> \in Seq(Int) /\ Len(<<Len(v)>>) = 1
      BY <2>2
    <3> QED
      BY <2>1, <2>2, <3>1, ConcatProperties
  <2>4. CASE k # 0
    <3>1. /\ k >= Len(v) + 1 => ReadArray(cells) = Took(v, Len(v) + 1)
          /\ k < Len(v) + 1 => ReadArray(cells) = Fails("short")
      BY <1>1, <1>2, <2>1, <2>4, ArrayRead
    <3>2. CASE name = "params"
      <4>1. ReadField(cells, name, kind) = ParseParams(ReadArray(cells))
        BY <1>2, <1>4, <2>4, <3>2 DEF ReadField, Arrays
      <4>2. v \in Json /\ v # <<>>
        BY <3>2, CodecAssumption DEF Fits
      <4> QED
        BY <1>1, <1>2, <2>2, <2>3, <3>1, <4>1, <4>2 DEF ParseParams, Took, Fails
    <3>3. CASE name = "hello"
      <4>1. ReadField(cells, name, kind) = UnmarshalHello(ReadArray(cells))
        BY <1>2, <1>4, <2>4, <3>3 DEF ReadField, Arrays
      <4>2. v \in Json
        BY <3>3 DEF Fits
      <4> QED
        BY <1>1, <1>2, <2>2, <2>3, <3>1, <4>1, <4>2 DEF UnmarshalHello, Took, Fails
    <3>4. CASE name \notin {"params", "hello"}
      <4>1. ReadField(cells, name, kind) = ReadArray(cells)
        BY <1>2, <1>4, <2>4, <3>4 DEF ReadField, Arrays
      <4> QED
        BY <1>1, <1>2, <2>2, <2>3, <3>1, <4>1 DEF Fails
    <3> QED
      BY <3>2, <3>3, <3>4
  <2> QED
    BY <1>1, <1>2, <1>3, <2>2, <2>3, <2>4
<1>5. CASE kind \in {"int16", "int64"}
  <2>1. v \in Int /\ p = <<v>>
    BY <1>1, <1>5, WrittenNumber
  <2>2. p \in Seq(Int) /\ Len(p) = 1 /\ p[1] = v
    BY <2>1
  <2>3. ASSUME k # 0 PROVE ReadField(cells, name, kind) = Took(v, 1)
    <3>1. cells[1] = v
      BY <1>1, <1>2, <2>2, <2>3 DEF Starts
    <3>2. name # "params" /\ name # "hello"
      BY <1>5 DEF Named, Arrays
    <3> QED
      BY <1>2, <1>5, <2>3, <3>1, <3>2 DEF ReadField
  <2> QED
    BY <1>1, <1>2, <1>3, <2>2, <2>3
<1>6. CASE kind \in DOMAIN Table
  <2>1. PICK i \in 1..Len(Table[kind]) :
          p = <<i - 1>> /\ Table[kind][i] = v /\ Len(Table[kind]) \in Nat
    <3>1. \E i \in 1..Len(Table[kind]) :
            /\ WriteField(kind, v) = <<i - 1>> /\ Table[kind][i] = v
            /\ Len(Table[kind]) \in Nat
      BY <1>6, Written
    <3> QED
      BY <1>1, <3>1
  <2>2. p \in Seq(Int) /\ Len(p) = 1 /\ p[1] = i - 1
    BY <2>1
  <2>3. ASSUME k # 0 PROVE ReadField(cells, name, kind) = Took(v, 1)
    <3>1. cells[1] = i - 1
      BY <1>1, <1>2, <2>2, <2>3 DEF Starts
    <3>2. name # "params" /\ name # "hello" /\ kind \notin Arrays \cup {"int16", "int64"}
      BY <1>6 DEF Named, Arrays, Table
    <3>3. ReadField(cells, name, kind) = ReadTable(cells, Table[kind])
      BY <1>2, <1>6, <2>3, <3>2 DEF ReadField, Arrays
    <3>4. ~(i - 1 >= Len(Table[kind])) /\ (i - 1) + 1 = i
      BY <2>1
    <3> QED
      BY <2>1, <3>1, <3>3, <3>4 DEF ReadTable
  <2> QED
    BY <1>1, <1>2, <1>3, <2>2, <2>3
<1> QED
  BY <1>4, <1>5, <1>6 DEF Named
-----------------------------------------------------------------------------
(* The formats name each field once.                                       *)
FormatOk(F, k) ==
  /\ k \in Nat /\ Len(F) = k /\ DOMAIN F = 1..k
  /\ \A i \in 1..k : Named(F[i][1], F[i][2])
  /\ \A i, j \in 1..k : F[i][1] = F[j][1] => i = j

HelloFields == {"encoding", "hello"}

(* The three formats, field by field.                                      *)
LEMMA HelloOk == FormatOk(HelloFormat, 2) /\ {HelloFormat[i][1] : i \in 1..2} = HelloFields
<1>1. /\ Len(HelloFormat) = 2 /\ DOMAIN HelloFormat = 1..2
      /\ HelloFormat[1] = <<"encoding", "ParamEncoding">>
      /\ HelloFormat[2] = <<"hello", "array16">>
  BY DEF HelloFormat
<1>2. \A i \in 1..2 : i = 1 \/ i = 2
  OBVIOUS
<1>3. \A i \in 1..2 : Named(HelloFormat[i][1], HelloFormat[i][2])
  BY <1>1, <1>2 DEF Named, Arrays, Table
<1>4. \A i, j \in 1..2 : HelloFormat[i][1] = HelloFormat[j][1] => i = j
  BY <1>1, <1>2
<1>5. {HelloFormat[i][1] : i \in 1..2} = HelloFields
  BY <1>1, <1>2 DEF HelloFields
<1> QED
  BY <1>1, <1>3, <1>4, <1>5 DEF FormatOk

Fields ==
  {<<"partition", "int16">>, <<"key", "array16">>, <<"revision", "int64">>, <<"txnId", "array16">>,
   <<"txnAccept", "TxnAccept">>, <<"method", "Method">>, <<"uri", "array16">>,
   <<"txnStatus", "TxnStatus">>, <<"statusCode", "int16">>, <<"statusMessage", "array16">>,
   <<"paramEncoding", "ParamEncoding">>, <<"params", "array32">>,
   <<"contentEncoding", "ContentEncoding">>, <<"content", "array32">>}

(* Literal sequences, and two that are joined.                             *)
LEMMA Four ==
  ASSUME NEW S, NEW a \in S, NEW b \in S, NEW c \in S, NEW d \in S
  PROVE  /\ <<a, b, c, d>> \in Seq(S) /\ Len(<<a, b, c, d>>) = 4
         /\ <<a, b, c, d>>[1] = a /\ <<a, b, c, d>>[2] = b
         /\ <<a, b, c, d>>[3] = c /\ <<a, b, c, d>>[4] = d
  OBVIOUS

LEMMA Three ==
  ASSUME NEW S, NEW a \in S, NEW b \in S, NEW c \in S
  PROVE  /\ <<a, b, c>> \in Seq(S) /\ Len(<<a, b, c>>) = 3
         /\ <<a, b, c>>[1] = a /\ <<a, b, c>>[2] = b /\ <<a, b, c>>[3] = c
  OBVIOUS

LEMMA Joined ==
  ASSUME NEW S, NEW p \in Seq(S), NEW q \in Seq(S), NEW f, f = p \o q
  PROVE  /\ f \in Seq(S) /\ Len(f) = Len(p) + Len(q) /\ DOMAIN f = 1..(Len(p) + Len(q))
         /\ \A i \in 1..Len(p) : f[i] = p[i]
         /\ \A i \in 1..Len(q) : f[Len(p) + i] = q[i]
<1>0. PICK k, l \in Nat : k = Len(p) /\ l = Len(q)
  BY LenProperties
<1>1. /\ f \in Seq(S) /\ Len(f) = Len(p) + Len(q)
      /\ \A i \in 1..(Len(p) + Len(q)) : f[i] = IF i <= Len(p) THEN p[i] ELSE q[i - Len(p)]
  BY ConcatProperties
<1>2. Len(f) = k + l /\ \A i \in 1..(k + l) : f[i] = IF i <= k THEN p[i] ELSE q[i - k]
  BY <1>0, <1>1
<1>3. ASSUME NEW i \in 1..k PROVE f[i] = p[i]
  BY <1>2
<1>4. ASSUME NEW i \in 1..l PROVE f[k + i] = q[i]
  <2>1. k + i \in 1..(k + l) /\ ~(k + i <= k) /\ (k + i) - k = i
    OBVIOUS
  <2> QED
    BY <1>2, <2>1
<1>5. DOMAIN f = 1..(k + l)
  BY <1>1, <1>2, LenProperties
<1> QED
  BY <1>0, <1>1, <1>2, <1>3, <1>4, <1>5

LEMMA ContentIs ==
  /\ ContentFormat \in Seq(Fields) /\ Len(ContentFormat) = 4
  /\ ContentFormat[1] = <<"paramEncoding", "ParamEncoding">>
  /\ ContentFormat[2] = <<"params", "array32">>
  /\ ContentFormat[3] = <<"contentEncoding", "ContentEncoding">>
  /\ ContentFormat[4] = <<"content", "array32">>
<1>1. /\ <<"paramEncoding", "ParamEncoding">> \in Fields /\ <<"params", "array32">> \in Fields
      /\ <<"contentEncoding", "ContentEncoding">> \in Fields /\ <<"content", "array32">> \in Fields
  BY DEF Fields
<1> QED
  BY <1>1, Four DEF ContentFormat

LEMMA ResponseIs ==
  /\ Len(ResponseFormat) = 8 /\ DOMAIN ResponseFormat = 1..8
  /\ ResponseFormat[1] = <<"txnId", "array16">>
  /\ ResponseFormat[2] = <<"txnStatus", "TxnStatus">>
  /\ ResponseFormat[3] = <<"statusCode", "int16">>
  /\ ResponseFormat[4] = <<"statusMessage", "array16">>
  /\ ResponseFormat[5] = <<"paramEncoding", "ParamEncoding">>
  /\ ResponseFormat[6] = <<"params", "array32">>
  /\ ResponseFormat[7] = <<"contentEncoding", "ContentEncoding">>
  /\ ResponseFormat[8] = <<"content", "array32">>
<1>1. /\ <<"txnId", "array16">> \in Fields /\ <<"txnStatus", "TxnStatus">> \in Fields
      /\ <<"statusCode", "int16">> \in Fields /\ <<"statusMessage", "array16">> \in Fields
  BY DEF Fields
<1>2. PICK p : p = << <<"txnId", "array16">>, <<"txnStatus", "TxnStatus">>,
                      <<"statusCode", "int16">>, <<"statusMessage", "array16">> >>
  OBVIOUS
<1>9. /\ p \in Seq(Fields) /\ Len(p) = 4 /\ p[1] = <<"txnId", "array16">>
      /\ p[2] = <<"txnStatus", "TxnStatus">>
      /\ p[3] = <<"statusCode", "int16">> /\ p[4] = <<"statusMessage", "array16">>
  BY <1>1, <1>2, Four
<1>3. PICK q \in Seq(Fields) : q = ContentFormat /\ Len(q) = 4
  BY ContentIs
<1>4. ResponseFormat = p \o q
  BY <1>2, <1>3 DEF ResponseFormat
<1>5. PICK f : f = p \o q
  OBVIOUS
<1>6. /\ Len(f) = 4 + 4 /\ DOMAIN f = 1..(4 + 4)
      /\ \A i \in 1..4 : f[i] = p[i]
      /\ \A i \in 1..4 : f[4 + i] = q[i]
  <2>0. p \in Seq(Fields) /\ q \in Seq(Fields)
    BY <1>3, <1>9
  <2>1. Len(p) = 4 /\ Len(q) = 4
    BY <1>3, <1>9
  <2>2. f \in Seq(Fields)
    BY <2>0, <1>5, Joined
  <2>3. Len(f) = Len(p) + Len(q)
    BY <2>0, <1>5, Joined
  <2>4. DOMAIN f = 1..(Len(p) + Len(q))
    BY <2>0, <1>5, Joined
  <2>5. \A i \in 1..Len(p) : f[i] = p[i]
    BY <2>0, <1>5, Joined
  <2>6. \A i \in 1..Len(q) : f[Len(p) + i] = q[i]
    BY <2>0, <1>5, Joined
  <2> QED
    BY <2>1, <2>2, <2>3, <2>4, <2>5, <2>6
<1>7. f[1] = p[1] /\ f[2] = p[2] /\ f[3] = p[3] /\ f[4] = p[4]
  BY <1>6
<1>8. f[5] = q[1] /\ f[6] = q[2] /\ f[7] = q[3] /\ f[8] = q[4]
  BY <1>6
<1>10. Len(f) = 8 /\ DOMAIN f = 1..8
  BY <1>6
<1> QED
  BY <1>3, <1>4, <1>5, <1>7, <1>8, <1>9, <1>10, ContentIs

LEMMA RequestIs ==
  /\ Len(RequestFormat) = 11 /\ DOMAIN RequestFormat = 1..11
  /\ RequestFormat[1] = <<"partition", "int16">>
  /\ RequestFormat[2] = <<"key", "array16">>
  /\ RequestFormat[3] = <<"revision", "int64">>
  /\ RequestFormat[4] = <<"txnId", "array16">>
  /\ RequestFormat[5] = <<"txnAccept", "TxnAccept">>
  /\ RequestFormat[6] = <<"method", "Method">>
  /\ RequestFormat[7] = <<"uri", "array16">>
  /\ RequestFormat[8] = <<"paramEncoding", "ParamEncoding">>
  /\ RequestFormat[9] = <<"params", "array32">>
  /\ RequestFormat[10] = <<"contentEncoding", "ContentEncoding">>
  /\ RequestFormat[11] = <<"content", "array32">>
<1>1. /\ <<"txnId", "array16">> \in Fields /\ <<"txnAccept", "TxnAccept">> \in Fields
      /\ <<"method", "Method">> \in Fields /\ <<"uri", "array16">> \in Fields
      /\ <<"partition", "int16">> \in Fields /\ <<"key", "array16">> \in Fields
      /\ <<"revision", "int64">> \in Fields
  BY DEF Fields
<1>9. PICK p : p = << <<"txnId", "array16">>, <<"txnAccept", "TxnAccept">>, <<"method", "Method">>,
                      <<"uri", "array16">> >>
  OBVIOUS
<1>2. /\ p \in Seq(Fields) /\ Len(p) = 4 /\ p[1] = <<"txnId", "array16">>
      /\ p[2] = <<"txnAccept", "TxnAccept">> /\ p[3] = <<"method", "Method">>
      /\ p[4] = <<"uri", "array16">>
  BY <1>1, <1>9, Four
<1>3. PICK q \in Seq(Fields) : q = ContentFormat /\ Len(q) = 4
  BY ContentIs
<1>4. CallFormat = p \o q
  BY <1>3, <1>9 DEF CallFormat
<1>5. PICK f : f = p \o q
  OBVIOUS
<1>6. /\ f \in Seq(Fields) /\ Len(f) = 4 + 4
      /\ \A i \in 1..4 : f[i] = p[i]
      /\ \A i \in 1..4 : f[4 + i] = q[i]
  <2>0. p \in Seq(Fields) /\ q \in Seq(Fields)
    BY <1>2, <1>3
  <2>1. Len(p) = 4 /\ Len(q) = 4
    BY <1>2, <1>3
  <2>2. f \in Seq(Fields)
    BY <2>0, <1>5, Joined
  <2>3. Len(f) = Len(p) + Len(q)
    BY <2>0, <1>5, Joined
  <2>4. DOMAIN f = 1..(Len(p) + Len(q))
    BY <2>0, <1>5, Joined
  <2>5. \A i \in 1..Len(p) : f[i] = p[i]
    BY <2>0, <1>5, Joined
  <2>6. \A i \in 1..Len(q) : f[Len(p) + i] = q[i]
    BY <2>0, <1>5, Joined
  <2> QED
    BY <2>1, <2>2, <2>3, <2>4, <2>5, <2>6
<1>7. f[1] = p[1] /\ f[2] = p[2] /\ f[3] = p[3] /\ f[4] = p[4]
  BY <1>6
<1>8. f[5] = q[1] /\ f[6] = q[2] /\ f[7] = q[3] /\ f[8] = q[4]
  BY <1>6
<1>10. PICK s : s = << <<"partition", "int16">>, <<"key", "array16">>, <<"revision", "int64">> >>
  OBVIOUS
<1>11. /\ s \in Seq(Fields) /\ Len(s) = 3 /\ s[1] = <<"partition", "int16">>
       /\ s[2] = <<"key", "array16">> /\ s[3] = <<"revision", "int64">>
  BY <1>1, <1>10, Three
<1>12. PICK g : g = s \o f
  OBVIOUS
<1>13. RequestFormat = g
  BY <1>4, <1>5, <1>10, <1>12 DEF RequestFormat, ShardFormat
<1>14. /\ Len(g) = 3 + 8 /\ DOMAIN g = 1..(3 + 8)
       /\ \A i \in 1..3 : g[i] = s[i]
       /\ \A i \in 1..8 : g[3 + i] = f[i]
  <2>0. s \in Seq(Fields) /\ f \in Seq(Fields)
    BY <1>6, <1>11
  <2>1. Len(s) = 3 /\ Len(f) = 8
    BY <1>6, <1>11
  <2>2. g \in Seq(Fields)
    BY <2>0, <1>12, Joined
  <2>3. Len(g) = Len(s) + Len(f)
    BY <2>0, <1>12, Joined
  <2>4. DOMAIN g = 1..(Len(s) + Len(f))
    BY <2>0, <1>12, Joined
  <2>5. \A i \in 1..Len(s) : g[i] = s[i]
    BY <2>0, <1>12, Joined
  <2>6. \A i \in 1..Len(f) : g[Len(s) + i] = f[i]
    BY <2>0, <1>12, Joined
  <2> QED
    BY <2>1, <2>2, <2>3, <2>4, <2>5, <2>6
<1>15. g[1] = s[1] /\ g[2] = s[2] /\ g[3] = s[3]
  BY <1>14
<1>16. g[4] = f[1] /\ g[5] = f[2] /\ g[6] = f[3] /\ g[7] = f[4]
  BY <1>14
<1>17. g[8] = f[5] /\ g[9] = f[6] /\ g[10] = f[7] /\ g[11] = f[8]
  BY <1>14
<1>18. Len(RequestFormat) = 11 /\ DOMAIN RequestFormat = 1..11
  BY <1>13, <1>14
<1>19. /\ RequestFormat[1] = <<"partition", "int16">>
       /\ RequestFormat[2] = <<"key", "array16">>
       /\ RequestFormat[3] = <<"revision", "int64">>
  BY <1>11, <1>13, <1>15
<1>20. /\ RequestFormat[4] = <<"txnId", "array16">>
       /\ RequestFormat[5] = <<"txnAccept", "TxnAccept">>
       /\ RequestFormat[6] = <<"method", "Method">>
       /\ RequestFormat[7] = <<"uri", "array16">>
  BY <1>2, <1>7, <1>13, <1>16
<1>21. /\ RequestFormat[8] = <<"paramEncoding", "ParamEncoding">>
       /\ RequestFormat[9] = <<"params", "array32">>
       /\ RequestFormat[10] = <<"contentEncoding", "ContentEncoding">>
       /\ RequestFormat[11] = <<"content", "array32">>
  BY <1>3, <1>8, <1>13, <1>17, ContentIs
<1> QED
  BY <1>18, <1>19, <1>20, <1>21

LEMMA ResponseOk ==
  FormatOk(ResponseFormat, 8) /\ {ResponseFormat[i][1] : i \in 1..8} = ReplyFields
<1>1. \A i \in 1..8 : i = 1 \/ i = 2 \/ i = 3 \/ i = 4 \/ i = 5 \/ i = 6 \/ i = 7 \/ i = 8
  OBVIOUS
<1>2. \A i \in 1..8 : Named(ResponseFormat[i][1], ResponseFormat[i][2])
  BY <1>1, ResponseIs DEF Named, Arrays, Table
<1>3. \A i, j \in 1..8 : ResponseFormat[i][1] = ResponseFormat[j][1] => i = j
  BY <1>1, ResponseIs
<1>4. {ResponseFormat[i][1] : i \in 1..8} = ReplyFields
  BY <1>1, ResponseIs DEF ReplyFields, ContentFields
<1> QED
  BY <1>2, <1>3, <1>4, ResponseIs DEF FormatOk

LEMMA RequestOk ==
  /\ FormatOk(RequestFormat, 11)
  /\ {RequestFormat[i][1] : i \in 1..11} = ShardFields \cup CallFields
<1>1. \A i \in 1..11 : \/ i = 1 \/ i = 2 \/ i = 3 \/ i = 4 \/ i = 5 \/ i = 6 \/ i = 7 \/ i = 8
                       \/ i = 9 \/ i = 10 \/ i = 11
  OBVIOUS
<1>2. \A i \in 1..11 : Named(RequestFormat[i][1], RequestFormat[i][2])
  BY <1>1, RequestIs DEF Named, Arrays, Table
<1>3. \A i, j \in 1..11 : RequestFormat[i][1] = RequestFormat[j][1] => i = j
  BY <1>1, RequestIs
<1>4. {RequestFormat[i][1] : i \in 1..11} = ShardFields \cup CallFields
  BY <1>1, RequestIs DEF ShardFields, CallFields, ContentFields
<1> QED
  BY <1>2, <1>3, <1>4, RequestIs DEF FormatOk
-----------------------------------------------------------------------------
(* The messages.                                                           *)
Value(F, m, i) == m[F[i][1]]
Piece(F, m, i) == WriteField(F[i][2], Value(F, m, i))
Fit(F, m, i)   == Fits(F[i][1], F[i][2], Value(F, m, i))

(* The pieces x are the fields of message m from the first one on.         *)
Spells(F, m, x) ==
  /\ x \in Pieces /\ Len(x) <= Len(F)
  /\ \A i \in 1..Len(x) : x[i] = Piece(F, m, i) /\ Fit(F, m, i)

(* A message is written field by field up to one that has no number.       *)
LEMMA FieldsWritten ==
  ASSUME NEW F, NEW k, FormatOk(F, k), NEW m,
         \A i \in 1..k : F[i][2] \notin DOMAIN Table => Fit(F, m, i)
  PROVE  \E x : /\ Spells(F, m, x) /\ WriteFields(F, m).cells = FlattenSeq(x)
                /\ WriteFields(F, m).ok <=> Len(x) = k
                /\ (\A i \in 1..k : Fit(F, m, i)) => WriteFields(F, m).ok
<1> DEFINE unknown == {i \in DOMAIN F : F[i][2] \in DOMAIN Table
                                        /\ ~Contains(Table[F[i][2]], m[F[i][1]])}
           end == IF unknown = {} THEN Len(F) ELSE Min(unknown) - 1
<1>1. k \in Nat /\ Len(F) = k /\ DOMAIN F = 1..k
  BY DEF FormatOk
<1>2. /\ WriteFields(F, m).cells =
           FlattenSeq([i \in 1..end |-> WriteField(F[i][2], m[F[i][1]])])
      /\ WriteFields(F, m).ok = (unknown = {})
  BY DEF WriteFields
<1>3. unknown \subseteq 1..k
  BY <1>1
<1>4. \A i \in 1..k : Fit(F, m, i) => i \notin unknown
  BY DEF Fit, Fits, Value
<1>5. \A i \in 1..k : i \notin unknown => Fit(F, m, i)
  <2> SUFFICES ASSUME NEW i \in 1..k, i \notin unknown, F[i][2] \in DOMAIN Table
               PROVE  Fit(F, m, i)
    OBVIOUS
  <2>1. Contains(Table[F[i][2]], m[F[i][1]])
    BY <1>1
  <2>2. Named(F[i][1], F[i][2])
    BY DEF FormatOk
  <2>3. F[i][2] \notin Arrays \cup {"int16", "int64"}
    BY DEF Arrays, Table
  <2> QED
    BY <2>1, <2>2, <2>3 DEF Fit, Fits, Value, Named
<1>6. PICK e : e = end
  OBVIOUS
<1> HIDE DEF unknown
<1>7. /\ e \in 0..k /\ (unknown = {} <=> e = k)
      /\ \A i \in 1..e : i \notin unknown
  <2>1. CASE unknown = {}
    BY <1>1, <1>6, <2>1
  <2>2. CASE unknown # {}
    <3>0. unknown \subseteq Nat
      BY <1>1, <1>3
    <3>1. \E x \in unknown : \A y \in unknown : x <= y
      BY <2>2, <3>0, LeastNumber
    <3>2. Min(unknown) \in unknown /\ \A y \in unknown : Min(unknown) <= y
      BY <3>1 DEF Min
    <3>3. PICK x \in 1..k : x = Min(unknown) /\ e = x - 1 /\ \A y \in unknown : x <= y
      BY <1>3, <1>6, <2>2, <3>2
    <3>4. e \in 0..k /\ e # k
      BY <1>1, <3>3
    <3>5. ASSUME NEW i \in 1..e PROVE i \notin unknown
      <4>1. i \in Int /\ ~(x <= i)
        BY <1>1, <3>3
      <4> QED
        BY <3>3, <4>1
    <3> QED
      BY <2>2, <3>4, <3>5
  <2> QED
    BY <2>1, <2>2
<1>8. PICK x : x = [i \in 1..e |-> Piece(F, m, i)]
  OBVIOUS
<1>9. \A i \in 1..e : Fit(F, m, i) /\ Piece(F, m, i) \in Seq(Int)
  <2> TAKE i \in 1..e
  <2>1. i \in 1..k /\ i \notin unknown
    BY <1>1, <1>7
  <2>2. Fits(F[i][1], F[i][2], Value(F, m, i)) /\ Named(F[i][1], F[i][2])
    BY <1>5, <2>1 DEF Fit, FormatOk
  <2>3. PICK p : p = Piece(F, m, i)
    OBVIOUS
  <2>4. Starts(<<>>, p)
    BY EmptySeq DEF Starts
  <2>5. p \in Seq(Int)
    BY <2>2, <2>3, <2>4, FieldRead DEF Piece
  <2> QED
    BY <2>2, <2>3, <2>5 DEF Fit
<1>10. x \in Pieces /\ Len(x) = e
  BY <1>7, <1>8, <1>9 DEF Pieces
<1>11. Spells(F, m, x)
  <2>1. \A i \in 1..e : x[i] = Piece(F, m, i) /\ Fit(F, m, i)
    BY <1>8, <1>9
  <2>2. e <= Len(F)
    BY <1>1, <1>7
  <2> QED
    BY <1>10, <2>1, <2>2 DEF Spells
<1>12. WriteFields(F, m).cells = FlattenSeq(x)
  BY <1>2, <1>6, <1>8 DEF Piece, Value
<1>13. WriteFields(F, m).ok <=> e = k
  BY <1>2, <1>7
<1>14. (\A i \in 1..k : Fit(F, m, i)) => unknown = {}
  BY <1>3, <1>4
<1> QED
  BY <1>2, <1>10, <1>11, <1>12, <1>13, <1>14

(* NewRequest and NewRequestDynMap give every request a shard.             *)
Shards == \A r \in Requests : "partition" \in DOMAIN r

(* A request that has a shard is written as its fields are.                *)
LEMMA RequestWritten ==
  ASSUME NEW r \in Requests, Shards
  PROVE  /\ \E x : /\ Spells(RequestFormat, Sent(r), x)
                   /\ WriteRequest(r).cells = FlattenSeq(x)
                   /\ WriteRequest(r).ok <=> Len(x) = 11
         /\ DOMAIN Sent(r) = ShardFields \cup CallFields
         /\ Sent(r) = [f \in ShardFields \cup CallFields |-> Sent(r)[f]]
         /\ Bytes(Sent(r).txnId, Half16)
<1>1. /\ DOMAIN r = ShardFields \cup CallFields /\ ShardFits(r)
      /\ Bytes(r.txnId, Half16) /\ Bytes(r.uri, Half16) /\ ContentFits(r)
  <2>1. /\ DOMAIN r \in {CallFields, ShardFields \cup CallFields}
        /\ "partition" \in DOMAIN r => ShardFits(r)
        /\ Bytes(r.txnId, Half16) /\ Bytes(r.uri, Half16) /\ ContentFits(r)
    BY FrontendAssumption
  <2>2. "partition" \in DOMAIN r
    BY DEF Shards
  <2>3. "partition" \notin CallFields
    BY DEF CallFields, ContentFields
  <2> QED
    BY <2>1, <2>2, <2>3
<1>2. PICK m : m = Sent(r)
  OBVIOUS
<1>3. /\ DOMAIN m = ShardFields \cup CallFields
      /\ m = [f \in ShardFields \cup CallFields |-> m[f]]
      /\ \A f \in ShardFields \cup CallFields :
           f \notin {"contentEncoding", "paramEncoding"} => m[f] = r[f]
  BY <1>1, <1>2 DEF Sent
<1>4. /\ m.partition = r.partition /\ m.key = r.key /\ m.revision = r.revision
      /\ m.txnId = r.txnId /\ m.uri = r.uri /\ m.params = r.params /\ m.content = r.content
  BY <1>3 DEF ShardFields, CallFields, ContentFields
<1>5. ASSUME NEW i \in 1..11, RequestFormat[i][2] \notin DOMAIN Table PROVE Fit(RequestFormat, m, i)
  <2>1. /\ i # 5 /\ i # 6 /\ i # 8 /\ i # 10
    BY <1>5, RequestIs DEF Table
  <2>2. i = 1 \/ i = 2 \/ i = 3 \/ i = 4 \/ i = 7 \/ i = 9 \/ i = 11
    BY <2>1
  <2>3. CASE i = 1
    BY <1>1, <1>4, <2>3, RequestIs DEF Fit, Fits, Value, ShardFits, Arrays, Table
  <2>4. CASE i = 2
    BY <1>1, <1>4, <2>4, RequestIs DEF Fit, Fits, Value, ShardFits, Arrays, Table, Half
  <2>5. CASE i = 3
    BY <1>1, <1>4, <2>5, RequestIs DEF Fit, Fits, Value, ShardFits, Arrays, Table
  <2>6. CASE i = 4
    BY <1>1, <1>4, <2>6, RequestIs DEF Fit, Fits, Value, Arrays, Table, Half
  <2>7. CASE i = 7
    BY <1>1, <1>4, <2>7, RequestIs DEF Fit, Fits, Value, Arrays, Table, Half
  <2>8. CASE i = 9
    BY <1>1, <1>4, <2>8, RequestIs DEF Fit, Fits, Value, ContentFits, Arrays, Table, Half
  <2>9. CASE i = 11
    BY <1>1, <1>4, <2>9, RequestIs DEF Fit, Fits, Value, ContentFits, Arrays, Table, Half
  <2> QED
    BY <2>2, <2>3, <2>4, <2>5, <2>6, <2>7, <2>8, <2>9
<1>6. WriteRequest(r) = WriteFields(RequestFormat, m)
  BY <1>2 DEF WriteRequest, Shards
<1>7. \E x : /\ Spells(RequestFormat, m, x)
             /\ WriteFields(RequestFormat, m).cells = FlattenSeq(x)
             /\ WriteFields(RequestFormat, m).ok <=> Len(x) = 11
  <2>1. PICK k : k = 11
    OBVIOUS
  <2>2. FormatOk(RequestFormat, k) /\ \A i \in 1..k :
          RequestFormat[i][2] \notin DOMAIN Table => Fit(RequestFormat, m, i)
    BY <1>5, <2>1, RequestOk
  <2>3. PICK x : /\ Spells(RequestFormat, m, x)
                 /\ WriteFields(RequestFormat, m).cells = FlattenSeq(x)
                 /\ WriteFields(RequestFormat, m).ok <=> Len(x) = k
    BY <2>2, FieldsWritten
  <2> QED
    BY <2>1, <2>3
<1> QED
  BY <1>1, <1>2, <1>3, <1>4, <1>6, <1>7

Emptied(r) == IF r.contentEncoding = "" THEN [r EXCEPT !.content = <<>>] ELSE r

(* So is a response, of which nothing is refused.                          *)
LEMMA ResponseWritten ==
  ASSUME NEW c \in Controllers \cup {NotFound}, NEW id, Bytes(id, Half16),
         NEW r, r = [Reply(c) EXCEPT !.txnId = id]
  PROVE  LET m == Sent(Emptied(r))
         IN  /\ \E x : /\ Spells(ResponseFormat, m, x) /\ Len(x) = 8
                       /\ WriteResponse(r).cells = FlattenSeq(x)
             /\ DOMAIN m = ReplyFields
             /\ m = [f \in ReplyFields |-> m[f]]
<1>1. /\ DOMAIN Reply(c) = ReplyFields
      /\ Contains(TXN_STATUS, Reply(c).txnStatus)
      /\ Reply(c).statusCode \in -Half16..(Half16 - 1)
      /\ Bytes(Reply(c).statusMessage, Half16) /\ ContentFits(Reply(c))
  BY FrontendAssumption
<1>2. /\ DOMAIN r = ReplyFields /\ r = [f \in ReplyFields |-> r[f]]
      /\ r.txnId = id /\ r.txnStatus = Reply(c).txnStatus
      /\ r.statusCode = Reply(c).statusCode /\ r.statusMessage = Reply(c).statusMessage
      /\ r.params = Reply(c).params /\ r.content = Reply(c).content
  BY <1>1 DEF ReplyFields, ContentFields
<1>3. PICK e : e = Emptied(r)
  OBVIOUS
<1>4. /\ DOMAIN e = ReplyFields /\ e = [f \in ReplyFields |-> e[f]]
      /\ e.txnId = id /\ e.txnStatus = Reply(c).txnStatus
      /\ e.statusCode = Reply(c).statusCode /\ e.statusMessage = Reply(c).statusMessage
      /\ e.params = Reply(c).params /\ Bytes(e.content, Half32)
      /\ e.contentEncoding = r.contentEncoding
  <2>1. Bytes(r.content, Half32) /\ Bytes(<<>>, Half32)
    BY <1>1, <1>2, CodecAssumption, EmptySeq DEF ContentFits, Bytes
  <2>2. CASE r.contentEncoding = ""
    BY <1>2, <1>3, <2>1, <2>2 DEF Emptied, ReplyFields, ContentFields
  <2>3. CASE r.contentEncoding # ""
    BY <1>2, <1>3, <2>1, <2>3 DEF Emptied
  <2> QED
    BY <2>2, <2>3
<1>5. e = [r EXCEPT !.content = IF r.contentEncoding = "" THEN <<>> ELSE @]
  <2>1. CASE r.contentEncoding = ""
    BY <1>3, <2>1 DEF Emptied
  <2>2. CASE r.contentEncoding # ""
    <3>1. r = [r EXCEPT !.content = r.content]
      BY <1>2
    <3> QED
      BY <1>3, <2>2, <3>1 DEF Emptied
  <2> QED
    BY <2>1, <2>2
<1>6. PICK m : m = Sent(e)
  OBVIOUS
<1>7. /\ DOMAIN m = ReplyFields /\ m = [f \in ReplyFields |-> m[f]]
      /\ m.txnId = id /\ m.txnStatus = Reply(c).txnStatus
      /\ m.statusCode = Reply(c).statusCode /\ m.statusMessage = Reply(c).statusMessage
      /\ m.params = Reply(c).params /\ m.content = e.content
      /\ m.contentEncoding = Encoding(e) /\ m.paramEncoding = "json"
  BY <1>4, <1>6 DEF Sent, ReplyFields, ContentFields
<1>8. Contains(CONTENT_ENCODING, Encoding(e)) /\ Contains(PARAM_ENCODING, "json")
  <2>1. Contains(CONTENT_ENCODING, "bytes")
    BY DEF Contains, CONTENT_ENCODING
  <2>2. Contains(PARAM_ENCODING, "json")
    BY DEF Contains, PARAM_ENCODING
  <2> QED
    BY <2>1, <2>2 DEF Encoding
<1>9. ASSUME NEW i \in 1..8 PROVE Fit(ResponseFormat, m, i)
  <2>2. i = 1 \/ i = 2 \/ i = 3 \/ i = 4 \/ i = 5 \/ i = 6 \/ i = 7 \/ i = 8
    OBVIOUS
  <2>3. CASE i = 1
    BY <1>7, <2>3, ResponseIs DEF Fit, Fits, Value, Arrays, Table, Half
  <2>4. CASE i = 2
    BY <1>1, <1>7, <2>4, ResponseIs DEF Fit, Fits, Value, Arrays, Table
  <2>5. CASE i = 3
    BY <1>1, <1>7, <2>5, ResponseIs DEF Fit, Fits, Value, Arrays, Table
  <2>6. CASE i = 4
    BY <1>1, <1>7, <2>6, ResponseIs DEF Fit, Fits, Value, Arrays, Table, Half
  <2>7. CASE i = 5
    BY <1>7, <1>8, <2>7, ResponseIs DEF Fit, Fits, Value, Arrays, Table
  <2>8. CASE i = 6
    BY <1>1, <1>7, <2>8, ResponseIs DEF Fit, Fits, Value, ContentFits, Arrays, Table, Half
  <2>9. CASE i = 7
    BY <1>7, <1>8, <2>9, ResponseIs DEF Fit, Fits, Value, Arrays, Table
  <2>10. CASE i = 8
    BY <1>4, <1>7, <2>10, ResponseIs DEF Fit, Fits, Value, Arrays, Table, Half
  <2> QED
    BY <2>2, <2>3, <2>4, <2>5, <2>6, <2>7, <2>8, <2>9, <2>10
<1>10. WriteResponse(r) = WriteFields(ResponseFormat, m)
  BY <1>5, <1>6 DEF WriteResponse
<1>11. \E x : /\ Spells(ResponseFormat, m, x) /\ Len(x) = 8
              /\ WriteFields(ResponseFormat, m).cells = FlattenSeq(x)
  BY <1>9, ResponseOk, FieldsWritten
<1> QED
  BY <1>3, <1>6, <1>7, <1>10, <1>11
-----------------------------------------------------------------------------
(* The first n fields of a message                                         *)
Part(F, m, n) == [f \in {F[i][1] : i \in 1..n} |-> m[f]]

(* A message grows by one field, and is whole when it has all of them.     *)
LEMMA PartIs ==
  ASSUME NEW F, NEW k, FormatOk(F, k), NEW m, NEW n \in 0..k
  PROVE  /\ Cardinality(DOMAIN Part(F, m, n)) = n
         /\ n = 0 => Part(F, m, n) = NoFields
         /\ n < k => /\ Field(F, Part(F, m, n)) = F[n + 1]
                     /\ Part(F, m, n + 1) = With(Part(F, m, n), F[n + 1][1], Value(F, m, n + 1))
         /\ Whole(F, Part(F, m, n)) <=> n = k
<1>1. k \in Nat /\ Len(F) = k /\ \A i, j \in 1..k : F[i][1] = F[j][1] => i = j
  BY DEF FormatOk
<1> DEFINE N(i) == {F[j][1] : j \in 1..i}
           S == {i \in Nat : i <= k => IsFiniteSet(N(i)) /\ Cardinality(N(i)) = i}
<1>2. 0 \in S
  <2>1. N(0) = {}
    OBVIOUS
  <2> QED
    BY <2>1, FS_EmptySet
<1>3. ASSUME NEW i \in Nat, i \in S PROVE i + 1 \in S
  <2> SUFFICES ASSUME i + 1 <= k
               PROVE  IsFiniteSet(N(i + 1)) /\ Cardinality(N(i + 1)) = i + 1
    OBVIOUS
  <2>1. N(i + 1) = N(i) \cup {F[i + 1][1]}
    <3>1. \A j \in 1..(i + 1) : j = i + 1 \/ j \in 1..i
      OBVIOUS
    <3>2. i + 1 \in 1..(i + 1) /\ \A j \in 1..i : j \in 1..(i + 1)
      OBVIOUS
    <3> QED
      BY <3>1, <3>2
  <2>2. F[i + 1][1] \notin N(i)
    <3> SUFFICES ASSUME NEW j \in 1..i, F[i + 1][1] = F[j][1] PROVE FALSE
      OBVIOUS
    <3>1. i + 1 \in 1..k /\ j \in 1..k /\ i + 1 # j
      BY <1>1
    <3> QED
      BY <1>1, <3>1
  <2>3. IsFiniteSet(N(i)) /\ Cardinality(N(i)) = i
    BY <1>1, <1>3
  <2> HIDE DEF N
  <2> QED
    BY <2>1, <2>2, <2>3, FS_AddElement
<1>4. Cardinality(N(n)) = n
  <2>1. n \in S
    <3> HIDE DEF S
    <3> QED
      BY <1>1, <1>2, <1>3, NumberInduction
  <2> HIDE DEF N
  <2> QED
    BY <1>1, <2>1
<1>5. DOMAIN Part(F, m, n) = N(n)
  BY DEF Part
<1>6. n = 0 => Part(F, m, n) = NoFields
  <2> SUFFICES ASSUME n = 0 PROVE Part(F, m, n) = NoFields
    OBVIOUS
  <2>1. {F[i][1] : i \in 1..n} = {}
    OBVIOUS
  <2> QED
    BY <2>1 DEF Part, NoFields
<1>7. ASSUME n < k
      PROVE  Part(F, m, n + 1) = With(Part(F, m, n), F[n + 1][1], Value(F, m, n + 1))
  <2>1. N(n + 1) = N(n) \cup {F[n + 1][1]}
    <3>1. \A j \in 1..(n + 1) : j = n + 1 \/ j \in 1..n
      BY <1>1
    <3>2. n + 1 \in 1..(n + 1) /\ \A j \in 1..n : j \in 1..(n + 1)
      BY <1>1
    <3> QED
      BY <3>1, <3>2
  <2>2. Part(F, m, n + 1) = [f \in N(n + 1) |-> m[f]]
    BY DEF Part
  <2>3. Part(F, m, n) = [f \in N(n) |-> m[f]]
    BY DEF Part
  <2> HIDE DEF N
  <2> QED
    BY <2>1, <2>2, <2>3 DEF With, Value
<1> HIDE DEF N
<1> QED
  BY <1>1, <1>4, <1>5, <1>6, <1>7 DEF Field, Whole

(* The cells under way, with those that were lost behind them, are the     *)
(* pieces w.                                                               *)
Coming(cells, lost, w) ==
  /\ cells \in Seq(Int) /\ lost \in Seq(Int) /\ w \in Pieces
  /\ cells \o lost = FlattenSeq(w)

(* A field that the reader finds is that of the next piece...              *)
LEMMA FieldComes ==
  ASSUME NEW cells, NEW lost, NEW w, Coming(cells, lost, w),
         NEW name, NEW kind, Named(name, kind), NEW v,
         w # <<>> => w[1] = WriteField(kind, v) /\ Fits(name, kind, v),
         ReadField(cells, name, kind).state = "ok"
  PROVE  /\ w # <<>> /\ ReadField(cells, name, kind).val = v
         /\ \E t \in Pieces :
              /\ Len(w) = Len(t) + 1 /\ \A i \in 1..Len(t) : t[i] = w[i + 1]
              /\ Coming(SubSeq(cells, ReadField(cells, name, kind).size + 1, Len(cells)), lost, t)
<1>1. w # <<>>
  <2> SUFFICES ASSUME w = <<>> PROVE FALSE
    OBVIOUS
  <2>1. cells = <<>>
    BY CellsType, ConcatEqualIffEmpty DEF Coming
  <2> QED
    BY <2>1 DEF ReadField, Fails
<1>2. PICK p \in Seq(Int), t \in Pieces :
        /\ p = w[1] /\ Len(w) = Len(t) + 1
        /\ \A i \in 1..Len(t) : t[i] = w[i + 1]
        /\ FlattenSeq(w) = p \o FlattenSeq(t)
  BY <1>1, CellsFirst DEF Coming
<1>3. PICK d \in Seq(Int) : d = FlattenSeq(t)
  BY CellsType
<1>4. cells \in Seq(Int) /\ lost \in Seq(Int) /\ cells \o lost = p \o d
  BY <1>2, <1>3 DEF Coming
<1>5. /\ Len(p) <= Len(cells) =>
           /\ \A j \in 1..Len(p) : cells[j] = p[j]
           /\ SubSeq(cells, Len(p) + 1, Len(cells)) \in Seq(Int)
           /\ SubSeq(cells, Len(p) + 1, Len(cells)) \o lost = d
      /\ Len(cells) < Len(p) => \A j \in 1..Len(cells) : cells[j] = p[j]
  <2>1. ASSUME Len(p) <= Len(cells) PROVE \A j \in 1..Len(p) : cells[j] = p[j]
    BY <1>4, <2>1, Meet
  <2>2. ASSUME Len(p) <= Len(cells) PROVE SubSeq(cells, Len(p) + 1, Len(cells)) \in Seq(Int)
    BY <1>4, <2>2, Meet
  <2>3. ASSUME Len(p) <= Len(cells) PROVE SubSeq(cells, Len(p) + 1, Len(cells)) \o lost = d
    BY <1>4, <2>3, Meet
  <2>4. Len(cells) < Len(p) => \A j \in 1..Len(cells) : cells[j] = p[j]
    BY ZenonT(90), <1>4, MeetPart
  <2> QED
    BY <2>1, <2>2, <2>3, <2>4
<1>6. Starts(cells, p)
  BY <1>4, <1>5, LenProperties DEF Starts
<1>7. p = WriteField(kind, v) /\ Fits(name, kind, v)
  BY <1>1, <1>2
<1>8. IF Len(cells) >= Len(p) THEN ReadField(cells, name, kind) = Took(v, Len(p))
      ELSE ReadField(cells, name, kind).state = "short"
  BY <1>6, <1>7, FieldRead
<1>9. Len(cells) >= Len(p) /\ ReadField(cells, name, kind) = Took(v, Len(p))
  BY <1>8
<1>10. ReadField(cells, name, kind).val = v /\ ReadField(cells, name, kind).size = Len(p)
  BY <1>9 DEF Took
<1>11. Coming(SubSeq(cells, Len(p) + 1, Len(cells)), lost, t)
  BY <1>3, <1>4, <1>5, <1>9, LenProperties DEF Coming
<1> QED
  BY <1>1, <1>2, <1>10, <1>11

(* ...a message is written behind what is under way, all of it...          *)
LEMMA AllComes ==
  ASSUME NEW cells, NEW w, Coming(cells, <<>>, w), NEW x \in Pieces
  PROVE  Coming(cells \o FlattenSeq(x), <<>>, w \o x)
<1>1. PICK c \in Seq(Int) : c = FlattenSeq(x)
  BY CellsType
<1>2. cells \in Seq(Int) /\ cells = FlattenSeq(w) /\ w \in Pieces
  BY ConcatEmptySeq DEF Coming
<1>3. cells \o c \in Seq(Int) /\ (cells \o c) \o <<>> = cells \o c
  BY <1>2, ConcatProperties, ConcatEmptySeq
<1> QED
  BY <1>1, <1>2, <1>3, CellsJoin, EmptySeq DEF Coming

(* ...or a part of it...                                                   *)
LEMMA BehindComes ==
  ASSUME NEW cells, NEW w, Coming(cells, <<>>, w), NEW x \in Pieces,
         NEW a \in Seq(Int), NEW l \in Seq(Int)
  PROVE  a \o l = FlattenSeq(x) => Coming(cells \o a, l, w \o x)
<1>1. cells \in Seq(Int) /\ cells = FlattenSeq(w) /\ w \in Pieces
  BY ConcatEmptySeq DEF Coming
<1>2. (cells \o a) \o l = cells \o (a \o l)
  <2>1. cells \in Seq(Int)
    BY <1>1
  <2> QED
    BY SMTT(20), <2>1, ConcatAssociative
<1>3. cells \o a \in Seq(Int)
  BY <1>1, ConcatProperties
<1> QED
  BY <1>1, <1>2, <1>3, CellsJoin DEF Coming

LEMMA PartComes ==
  ASSUME NEW cells, NEW w, Coming(cells, <<>>, w), NEW x \in Pieces, NEW n \in Nat,
         n < Len(FlattenSeq(x))
  PROVE  \E l : l # <<>> /\ Coming(cells \o SubSeq(FlattenSeq(x), 1, n), l, w \o x)
<1>1. PICK c \in Seq(Int) : c = FlattenSeq(x)
  BY CellsType
<1>2. n \in 0..Len(c)
  BY <1>1, LenProperties
<1>3. PICK a, l : a = SubSeq(c, 1, n) /\ l = SubSeq(c, n + 1, Len(c))
  OBVIOUS
<1>4. a \in Seq(Int) /\ l \in Seq(Int)
  BY <1>2, <1>3, Apart
<1>5. a \o l = c /\ l # <<>>
  BY <1>1, <1>2, <1>3, Apart
<1> QED
  BY <1>1, <1>3, <1>4, <1>5, BehindComes

(* ...and the end of what is under way may be lost.                        *)
LEMMA LessComes ==
  ASSUME NEW cells, NEW lost, NEW w, Coming(cells, lost, w), NEW n \in 0..Len(cells)
  PROVE  \E l : (lost # <<>> => l # <<>>) /\ Coming(SubSeq(cells, 1, n), l, w)
<1>1. PICK a, b : a = SubSeq(cells, 1, n) /\ b = SubSeq(cells, n + 1, Len(cells))
  OBVIOUS
<1>2. cells \in Seq(Int) /\ lost \in Seq(Int)
  BY DEF Coming
<1>3. a \in Seq(Int) /\ b \in Seq(Int)
  BY <1>1, <1>2, Apart
<1>4. a \o b = cells
  BY <1>1, <1>2, Apart
<1>5. PICK l : l = b \o lost
  OBVIOUS
<1>6. (a \o b) \o lost = a \o (b \o lost)
  BY SMTT(20), <1>2, <1>3, ConcatAssociative
<1>7. l \in Seq(Int)
  BY <1>2, <1>3, <1>5, ConcatProperties
<1>8. l = <<>> => lost = <<>>
  <2>1. b \in Seq(Int) /\ lost \in Seq(Int)
    BY <1>2, <1>3
  <2>2. b \o lost = <<>> <=> b = <<>> /\ lost = <<>>
    BY <2>1, ConcatEqualIffEmpty
  <2> QED
    BY <1>5, <2>2
<1>9. a \o l = FlattenSeq(w)
  BY <1>4, <1>5, <1>6 DEF Coming
<1>10. Coming(a, l, w)
  BY <1>3, <1>7, <1>9 DEF Coming
<1> QED
  BY <1>1, <1>8, <1>10
-----------------------------------------------------------------------------
(* One step of a reader that has n fields of message m                     *)
LEMMA NextPiece ==
  ASSUME NEW cells, NEW lost, NEW w, Coming(cells, lost, w),
         NEW F, NEW k, FormatOk(F, k), NEW m, NEW n \in 0..k, n < k,
         w # <<>> => w[1] = Piece(F, m, n + 1) /\ Fit(F, m, n + 1),
         NEW msg, msg = Part(F, m, n), NEW f, f = Found(F, msg, cells), f.state = "ok"
  PROVE  /\ With(msg, Field(F, msg)[1], f.val) = Part(F, m, n + 1)
         /\ \E t \in Pieces :
              /\ Len(w) = Len(t) + 1 /\ \A i \in 1..Len(t) : t[i] = w[i + 1]
              /\ Coming(SubSeq(cells, f.size + 1, Len(cells)), lost, t)
<1>1. /\ Field(F, msg) = F[n + 1]
      /\ Part(F, m, n + 1) = With(msg, F[n + 1][1], Value(F, m, n + 1))
  BY PartIs
<1>2. PICK name, kind, v :
        name = F[n + 1][1] /\ kind = F[n + 1][2] /\ v = Value(F, m, n + 1)
  OBVIOUS
<1>3. Named(name, kind)
  <2>1. n + 1 \in 1..k
    BY DEF FormatOk
  <2> QED
    BY <1>2, <2>1 DEF FormatOk
<1>4. f = ReadField(cells, name, kind)
  BY <1>1, <1>2 DEF Found
<1>5. w # <<>> => w[1] = WriteField(kind, v) /\ Fits(name, kind, v)
  BY <1>2 DEF Piece, Fit
<1>6. /\ f.val = v
      /\ \E t \in Pieces :
           /\ Len(w) = Len(t) + 1 /\ \A i \in 1..Len(t) : t[i] = w[i + 1]
           /\ Coming(SubSeq(cells, f.size + 1, Len(cells)), lost, t)
  BY <1>3, <1>4, <1>5, FieldComes
<1> QED
  BY <1>1, <1>2, <1>6
-----------------------------------------------------------------------------
(* The first v pieces of a message                                         *)
Begun(F, m, v, x) ==
  /\ v \in 0..11 /\ x \in Pieces /\ Len(x) = v
  /\ \A i \in 1..v : x[i] = Piece(F, m, i) /\ Fit(F, m, i)

(* The stream to the server: the hello, then the requests.  From position  *)
(* pos on, the pieces w are those of the hello and of the messages ms.     *)
HelloMsg == [encoding |-> "json", hello |-> Hello]

RightHello(w, pos) ==
  \A j \in 1..Len(w), i \in 1..2 :
    pos + j = i => w[j] = Piece(HelloFormat, HelloMsg, i) /\ Fit(HelloFormat, HelloMsg, i)
RightCalls(w, pos, ms) ==
  \A j \in 1..Len(w), k \in Nat, i \in 1..11 :
    pos + j = 2 + 11 * k + i =>
      w[j] = Piece(RequestFormat, ms[k + 1], i) /\ Fit(RequestFormat, ms[k + 1], i)

(* The server has read up to pos; all t requests are written, and when     *)
(* another was cut, fewer than its pieces, or not all the cells of them.   *)
Extent(e, t, ct, lost) ==
  /\ 2 + 11 * t <= e /\ e <= 2 + 11 * t + 11
  /\ e > 2 + 11 * t => ct
  /\ e = 2 + 11 * t + 11 => lost # <<>>

Pos(srv, d, n) == IF srv = "hello" THEN n ELSE 2 + 11 * d + n

Reading(srv, msg, d, n, ms) ==
  \/ srv = "hello" /\ d = 0 /\ n \in 0..2 /\ msg = Part(HelloFormat, HelloMsg, n)
  \/ srv = "request" /\ n \in 0..11 /\ msg = Part(RequestFormat, ms[d + 1], n)

StreamBy(c, srv, msg, whole, ct, ws, t, d, w, lost, n, ms) ==
  /\ Coming(c, lost, w)
  /\ whole => lost = <<>>
  /\ \A k \in 1..t : ms[k] = Sent(ws[k])
  /\ Reading(srv, msg, d, n, ms)
  /\ Extent(Pos(srv, d, n) + Len(w), t, ct, lost)
  /\ RightHello(w, Pos(srv, d, n))
  /\ RightCalls(w, Pos(srv, d, n), ms)

Stream(c, srv, msg, whole, ct, ws, t, d) ==
  \E w, lost, n, ms : StreamBy(c, srv, msg, whole, ct, ws, t, d, w, lost, n, ms)

LEMMA PosType ==
  ASSUME NEW d \in Nat, NEW srv, NEW msg, NEW n, NEW ms, Reading(srv, msg, d, n, ms)
  PROVE  n \in Nat /\ Pos(srv, d, n) \in Nat
BY DEF Reading, Pos

(* They are those of one more request, or of one that was cut.             *)
Adds(ws, t, ws2, t2, whole2, ct2, lost2, m, v) ==
  /\ \A k \in 1..t : ws2[k] = ws[k]
  /\ ct2 \in BOOLEAN /\ whole2 \in BOOLEAN /\ (whole2 => lost2 = <<>>)
  /\ \/ ct2 /\ t2 = t /\ (v = 11 => lost2 # <<>>)
     \/ ~ct2 /\ t2 = t + 1 /\ m = Sent(ws2[t2]) /\ v = 11 /\ lost2 = <<>>

(* A request is written, whole or in part.                                 *)
LEMMA StreamGrows ==
  ASSUME NEW c, NEW srv, NEW msg, NEW ws, NEW t \in Nat, NEW d \in Nat,
         NEW w, NEW lost, NEW n, NEW ms, NEW whole, NEW ct, ~ct,
         StreamBy(c, srv, msg, whole, ct, ws, t, d, w, lost, n, ms),
         NEW m, NEW v, NEW x, Begun(RequestFormat, m, v, x),
         NEW c2, NEW lost2, Coming(c2, lost2, w \o x),
         NEW t2, NEW ws2, NEW ct2, NEW whole2, Adds(ws, t, ws2, t2, whole2, ct2, lost2, m, v)
  PROVE  Stream(c2, srv, msg, whole2, ct2, ws2, t2, d)
<1>a. /\ v \in 0..11 /\ x \in Pieces /\ Len(x) = v
      /\ \A i \in 1..v : x[i] = Piece(RequestFormat, m, i) /\ Fit(RequestFormat, m, i)
  BY DEF Begun
<1>b. /\ \A k \in 1..t : ws2[k] = ws[k]
      /\ ct2 \in BOOLEAN /\ whole2 \in BOOLEAN /\ (whole2 => lost2 = <<>>)
      /\ \/ ct2 /\ t2 = t /\ (v = 11 => lost2 # <<>>)
         \/ ~ct2 /\ t2 = t + 1 /\ m = Sent(ws2[t2]) /\ v = 11 /\ lost2 = <<>>
  BY DEF Adds
<1>1. PICK u \in Nat : u = Len(w) /\ w \in Pieces
  BY LenProperties DEF StreamBy, Coming, Pieces
<1>2. PICK p \in Nat : p = Pos(srv, d, n)
  BY PosType DEF StreamBy
<1>3. p + u = 2 + 11 * t
  BY <1>1, <1>2 DEF StreamBy, Extent
<1>4. PICK y : y = w \o x
  OBVIOUS
<1>5. y \in Pieces
  BY <1>a, <1>1, <1>4, ConcatProperties DEF Pieces
<1>6. /\ Len(y) = u + v
      /\ \A j \in 1..(u + v) : y[j] = IF j <= u THEN w[j] ELSE x[j - u]
  BY <1>a, <1>1, <1>4, ConcatProperties DEF Pieces
<1>7. PICK ms2 : ms2 = [k \in Nat |-> IF k <= t THEN ms[k] ELSE m]
  OBVIOUS
<1>8. \A k \in 1..t2 : ms2[k] = Sent(ws2[k])
  <2>1. \A k \in 1..t : ms2[k] = ms[k] /\ ms[k] = Sent(ws[k]) /\ ws[k] = ws2[k]
    BY <1>b, <1>7 DEF StreamBy
  <2>2. CASE t2 = t
    BY <2>1, <2>2
  <2>3. CASE t2 = t + 1 /\ m = Sent(ws2[t2])
    <3>1. \A k \in 1..t2 : k \in 1..t \/ k = t2
      BY <2>3
    <3>2. ms2[t2] = m
      BY <1>7, <2>3
    <3> QED
      BY <2>1, <2>3, <3>1, <3>2
  <2> QED
    BY <1>b, <2>2, <2>3
<1>9. RightHello(y, p)
  <2> SUFFICES ASSUME NEW j \in 1..(u + v), NEW i \in 1..2, p + j = i
               PROVE  y[j] = Piece(HelloFormat, HelloMsg, i) /\ Fit(HelloFormat, HelloMsg, i)
    BY <1>6 DEF RightHello
  <2>1. j <= u /\ j \in 1..u
    BY <1>3
  <2>2. y[j] = w[j]
    BY <1>6, <2>1
  <2> QED
    BY <1>1, <1>2, <2>1, <2>2 DEF StreamBy, RightHello
<1>10. RightCalls(y, p, ms2)
  <2> SUFFICES ASSUME NEW j \in 1..(u + v), NEW k \in Nat, NEW i \in 1..11, p + j = 2 + 11 * k + i
               PROVE  /\ y[j] = Piece(RequestFormat, ms2[k + 1], i)
                      /\ Fit(RequestFormat, ms2[k + 1], i)
    BY <1>6 DEF RightCalls
  <2>1. CASE j <= u
    <3>1. j \in 1..u /\ k + 1 <= t /\ k + 1 \in Nat
      BY <1>3, <2>1
    <3>2. y[j] = w[j] /\ ms2[k + 1] = ms[k + 1]
      BY <1>6, <1>7, <2>1, <3>1
    <3>3. w[j] = Piece(RequestFormat, ms[k + 1], i) /\ Fit(RequestFormat, ms[k + 1], i)
      BY <1>1, <1>2, <3>1 DEF StreamBy, RightCalls
    <3> QED
      BY <3>2, <3>3
  <2>2. CASE ~(j <= u)
    <3>0. PICK e \in 1..v : e = j - u /\ e \in 1..11
      BY <1>a, <2>2
    <3>4. 11 * t + e = 11 * k + i
      BY <1>3, <3>0
    <3>5. k = t
      BY <3>0, <3>4
    <3>1. k = t /\ j - u = i /\ i \in 1..v
      BY <3>0, <3>4, <3>5
    <3>2. y[j] = x[j - u]
      BY <1>6, <2>2
    <3>3. ms2[t + 1] = m
      BY <1>7
    <3> QED
      BY <1>a, <3>1, <3>2, <3>3
  <2> QED
    BY <2>1, <2>2
<1>11. Reading(srv, msg, d, n, ms2)
  <2>1. CASE srv = "hello"
    BY <2>1 DEF StreamBy, Reading
  <2>2. CASE srv = "request" /\ d + 1 <= t
    <3>1. ms2[d + 1] = ms[d + 1]
      BY <1>7, <2>2
    <3> QED
      BY <2>2, <3>1 DEF StreamBy, Reading
  <2>3. CASE srv = "request" /\ ~(d + 1 <= t)
    <3>1. n \in 0..11 /\ msg = Part(RequestFormat, ms[d + 1], n)
      BY <2>3 DEF StreamBy, Reading
    <3>2. n = 0
      BY <1>2, <1>3, <2>3, <3>1 DEF Pos
    <3>3. msg = Part(RequestFormat, ms2[d + 1], n)
      BY <3>1, <3>2, PartIs, RequestOk
    <3> QED
      BY <2>3, <3>1, <3>3 DEF Reading
  <2> QED
    BY <2>1, <2>2, <2>3 DEF StreamBy, Reading
<1>12. Extent(p + (u + v), t2, ct2, lost2)
  <2>1. CASE ct2 /\ t2 = t /\ (v = 11 => lost2 # <<>>)
    BY <1>a, <1>3, <2>1 DEF Extent
  <2>2. CASE ~ct2 /\ t2 = t + 1 /\ v = 11
    BY <1>a, <1>3, <2>2 DEF Extent
  <2> QED
    BY <1>b, <2>1, <2>2
<1>13. StreamBy(c2, srv, msg, whole2, ct2, ws2, t2, d, y, lost2, n, ms2)
  BY <1>b, <1>2, <1>4, <1>6, <1>8, <1>9, <1>10, <1>11, <1>12 DEF StreamBy
<1> QED
  BY <1>13 DEF Stream

(* The client leaves: the end of what is under way is lost.                *)
LEMMA StreamLoses ==
  ASSUME NEW c, NEW srv, NEW msg, NEW whole, NEW ct, NEW ws, NEW t \in Nat, NEW d \in Nat,
         Stream(c, srv, msg, whole, ct, ws, t, d), NEW n \in 0..Len(c)
  PROVE  Stream(SubSeq(c, 1, n), srv, msg, FALSE, ct, ws, t, d)
<1>1. PICK w, lost, i, ms : StreamBy(c, srv, msg, whole, ct, ws, t, d, w, lost, i, ms)
  BY DEF Stream
<1>2. PICK l : (lost # <<>> => l # <<>>) /\ Coming(SubSeq(c, 1, n), l, w)
  BY <1>1, LessComes DEF StreamBy
<1>3. StreamBy(SubSeq(c, 1, n), srv, msg, FALSE, ct, ws, t, d, w, l, i, ms)
  BY <1>1, <1>2 DEF StreamBy, Extent
<1> QED
  BY <1>3 DEF Stream

(* The server decodes a field.                                             *)
LEMMA StreamFirst ==
  ASSUME NEW c, NEW srv, NEW msg, NEW whole, NEW ct, NEW ws, NEW t \in Nat, NEW d \in Nat,
         NEW w, NEW lost, NEW n, NEW ms,
         StreamBy(c, srv, msg, whole, ct, ws, t, d, w, lost, n, ms), w # <<>>
  PROVE  /\ srv = "hello" /\ n < 2 => /\ w[1] = Piece(HelloFormat, HelloMsg, n + 1)
                                      /\ Fit(HelloFormat, HelloMsg, n + 1)
         /\ srv = "request" /\ n < 11 => /\ w[1] = Piece(RequestFormat, ms[d + 1], n + 1)
                                         /\ Fit(RequestFormat, ms[d + 1], n + 1)
<1>1. 1 \in 1..Len(w)
  BY LenProperties, EmptySeq DEF StreamBy, Coming, Pieces
<1>2. ASSUME srv = "hello", n < 2
      PROVE  w[1] = Piece(HelloFormat, HelloMsg, n + 1) /\ Fit(HelloFormat, HelloMsg, n + 1)
  <2>1. n \in 0..2 /\ RightHello(w, n)
    BY <1>2 DEF StreamBy, Reading, Pos
  <2>2. n + 1 \in 1..2
    BY <1>2, <2>1
  <2> QED
    BY <1>1, <2>1, <2>2 DEF RightHello
<1>3. ASSUME srv = "request", n < 11
      PROVE  w[1] = Piece(RequestFormat, ms[d + 1], n + 1) /\ Fit(RequestFormat, ms[d + 1], n + 1)
  <2>1. n \in 0..11 /\ RightCalls(w, 2 + 11 * d + n, ms)
    BY <1>3 DEF StreamBy, Reading, Pos
  <2>2. n + 1 \in 1..11 /\ (2 + 11 * d + n) + 1 = 2 + 11 * d + (n + 1)
    BY <1>3, <2>1
  <2> QED
    BY <1>1, <2>1, <2>2 DEF RightCalls
<1> QED
  BY <1>2, <1>3

LEMMA StreamReads ==
  ASSUME NEW c, NEW srv, NEW msg, NEW whole, NEW ct, NEW ws, NEW t \in Nat, NEW d \in Nat,
         Stream(c, srv, msg, whole, ct, ws, t, d),
         NEW F, F = IF srv = "hello" THEN HelloFormat ELSE RequestFormat,
         ~Whole(F, msg), NEW f, f = Found(F, msg, c), f.state = "ok"
  PROVE  Stream(SubSeq(c, f.size + 1, Len(c)), srv, With(msg, Field(F, msg)[1], f.val),
                whole, ct, ws, t, d)
<1>1. PICK w, lost, n, ms : StreamBy(c, srv, msg, whole, ct, ws, t, d, w, lost, n, ms)
  BY DEF Stream
<1>2. PICK m, k : IF srv = "hello" THEN m = HelloMsg /\ k = 2 ELSE m = ms[d + 1] /\ k = 11
  OBVIOUS
<1>3. /\ FormatOk(F, k) /\ n \in 0..k /\ msg = Part(F, m, n)
  BY <1>1, <1>2, HelloOk, RequestOk DEF StreamBy, Reading
<1>4. n < k
  <2>1. Whole(F, msg) <=> n = k
    BY <1>3, PartIs
  <2>2. k \in Nat /\ n # k
    BY <1>3, <2>1 DEF FormatOk
  <2> QED
    BY <1>3, <2>2
<1>5. w # <<>> => w[1] = Piece(F, m, n + 1) /\ Fit(F, m, n + 1)
  <2> SUFFICES ASSUME w # <<>> PROVE w[1] = Piece(F, m, n + 1) /\ Fit(F, m, n + 1)
    OBVIOUS
  <2>1. CASE srv = "hello"
    <3>1. n < 2 /\ F = HelloFormat /\ m = HelloMsg
      BY <1>2, <1>4, <2>1
    <3> QED
      BY <1>1, <2>1, <3>1, StreamFirst
  <2>2. CASE srv # "hello"
    <3>1. srv = "request"
      BY <1>1, <2>2 DEF StreamBy, Reading
    <3>2. n < 11 /\ F = RequestFormat /\ m = ms[d + 1]
      BY <1>2, <1>4, <2>2
    <3> QED
      BY <1>1, <3>1, <3>2, StreamFirst
  <2> QED
    BY <2>1, <2>2
<1>6. Coming(c, lost, w)
  BY <1>1 DEF StreamBy
<1>7. With(msg, Field(F, msg)[1], f.val) = Part(F, m, n + 1)
  BY <1>3, <1>4, <1>5, <1>6, NextPiece
<1>8. PICK y \in Pieces : /\ Len(w) = Len(y) + 1 /\ \A i \in 1..Len(y) : y[i] = w[i + 1]
                          /\ Coming(SubSeq(c, f.size + 1, Len(c)), lost, y)
  BY <1>3, <1>4, <1>5, <1>6, NextPiece
<1>9. PICK v \in Nat : v = Len(y) /\ Len(w) = v + 1
  BY <1>8, LenProperties DEF Pieces
<1>10. PICK p \in Nat : p = Pos(srv, d, n) /\ Pos(srv, d, n + 1) = p + 1
  <2>1. n \in Nat /\ Pos(srv, d, n) \in Nat
    BY <1>1, PosType DEF StreamBy
  <2>2. Pos(srv, d, n + 1) = Pos(srv, d, n) + 1
    BY <2>1 DEF Pos
  <2> QED
    BY <2>1, <2>2
<1>11. \A j \in 1..v : j + 1 \in 1..Len(w) /\ y[j] = w[j + 1] /\ (p + 1) + j = p + (j + 1)
  BY <1>8, <1>9, <1>10
<1>12. RightHello(y, p + 1)
  BY <1>1, <1>9, <1>10, <1>11 DEF StreamBy, RightHello
<1>13. RightCalls(y, p + 1, ms)
  <2> SUFFICES ASSUME NEW j \in 1..v, NEW a \in Nat, NEW i \in 1..11,
                      (p + 1) + j = 2 + 11 * a + i
               PROVE  /\ y[j] = Piece(RequestFormat, ms[a + 1], i)
                      /\ Fit(RequestFormat, ms[a + 1], i)
    BY <1>9 DEF RightCalls
  <2>1. j + 1 \in 1..Len(w) /\ y[j] = w[j + 1] /\ p + (j + 1) = 2 + 11 * a + i
    BY <1>11
  <2>2. RightCalls(w, p, ms)
    BY <1>1, <1>10 DEF StreamBy
  <2> QED
    BY <2>1, <2>2 DEF RightCalls
<1>14. Reading(srv, Part(F, m, n + 1), d, n + 1, ms)
  BY <1>1, <1>2, <1>4 DEF StreamBy, Reading
<1>15. (p + 1) + v = p + (v + 1)
  BY <1>9, <1>10
<1>16. StreamBy(SubSeq(c, f.size + 1, Len(c)), srv, Part(F, m, n + 1),
                whole, ct, ws, t, d, y, lost, n + 1, ms)
  BY <1>1, <1>8, <1>9, <1>10, <1>12, <1>13, <1>14, <1>15 DEF StreamBy
<1> QED
  BY <1>7, <1>16 DEF Stream

(* The hello is complete...                                                *)
LEMMA StreamStarts ==
  ASSUME NEW c, NEW msg, NEW whole, NEW ct, NEW ws, NEW t \in Nat, NEW d \in Nat,
         Stream(c, "hello", msg, whole, ct, ws, t, d), Whole(HelloFormat, msg)
  PROVE  Stream(c, "request", NoFields, whole, ct, ws, t, d)
<1>1. PICK w, lost, n, ms : StreamBy(c, "hello", msg, whole, ct, ws, t, d, w, lost, n, ms)
  BY DEF Stream
<1>2. d = 0 /\ n = 2
  BY <1>1, PartIs, HelloOk DEF StreamBy, Reading
<1>3. Pos("hello", d, n) = Pos("request", d, 0)
  BY <1>2 DEF Pos
<1>4. Reading("request", NoFields, d, 0, ms)
  BY PartIs, RequestOk DEF Reading
<1>5. StreamBy(c, "request", NoFields, whole, ct, ws, t, d, w, lost, 0, ms)
  BY <1>1, <1>3, <1>4 DEF StreamBy
<1> QED
  BY <1>5 DEF Stream

(* ...or a request, which is then the next that was written whole.         *)
LEMMA StreamTakes ==
  ASSUME NEW c, NEW msg, NEW whole, NEW ct, NEW ws, NEW t \in Nat, NEW d \in Nat,
         Stream(c, "request", msg, whole, ct, ws, t, d), Whole(RequestFormat, msg)
  PROVE  /\ d + 1 <= t
         /\ msg = Part(RequestFormat, Sent(ws[d + 1]), 11)
         /\ Stream(c, "request", NoFields, whole, ct, ws, t, d + 1)
<1>1. PICK w, lost, n, ms : StreamBy(c, "request", msg, whole, ct, ws, t, d, w, lost, n, ms)
  BY DEF Stream
<1>2. n = 11 /\ msg = Part(RequestFormat, ms[d + 1], n)
  BY <1>1, PartIs, RequestOk DEF StreamBy, Reading
<1>3. PICK u \in Nat : u = Len(w) /\ w \in Pieces
  BY <1>1, LenProperties DEF StreamBy, Coming, Pieces
<1>4. Extent(2 + 11 * d + 11 + u, t, ct, lost)
  BY <1>1, <1>2, <1>3 DEF StreamBy, Pos
<1>5. d + 1 <= t
  <2> SUFFICES ASSUME ~(d + 1 <= t) PROVE FALSE
    OBVIOUS
  <2>1. u = 0 /\ d = t
    BY <1>4 DEF Extent
  <2>2. lost # <<>>
    BY <1>4, <2>1 DEF Extent
  <2>3. w = <<>>
    BY <1>3, <2>1, EmptySeq DEF Pieces
  <2>4. c \in Seq(Int) /\ lost \in Seq(Int) /\ c \o lost = <<>>
    BY <1>1, <2>3, CellsType DEF StreamBy, Coming
  <2> QED
    BY <2>2, <2>4, ConcatEqualIffEmpty
<1>6. ms[d + 1] = Sent(ws[d + 1])
  BY <1>1, <1>5 DEF StreamBy
<1>7. Pos("request", d, 11) = Pos("request", d + 1, 0)
  BY DEF Pos
<1>8. Reading("request", NoFields, d + 1, 0, ms)
  BY PartIs, RequestOk DEF Reading
<1>9. StreamBy(c, "request", NoFields, whole, ct, ws, t, d + 1, w, lost, 0, ms)
  BY <1>1, <1>2, <1>7, <1>8 DEF StreamBy
<1> QED
  BY <1>2, <1>5, <1>6, <1>9 DEF Stream

(* Cells that begin with all those of the t requests.                      *)
WholeBy(c, srv, msg, ws, t, d, a, b) ==
  /\ a \in Seq(Int) /\ b \in Seq(Int) /\ c = a \o b
  /\ Stream(a, srv, msg, TRUE, FALSE, ws, t, d)

(* The server has handled the t requests, or all their cells are there...  *)
FirstWhole(c, srv, msg, ws, t, d) ==
  d >= t \/ \E a, b : WholeBy(c, srv, msg, ws, t, d, a, b)

(* ...and it does not wait for the next field...                           *)
LEMMA WholeComes ==
  ASSUME NEW c, NEW srv, NEW msg, NEW ws, NEW t \in Nat, NEW d \in Nat, ~(d >= t),
         NEW a, NEW b, WholeBy(c, srv, msg, ws, t, d, a, b),
         NEW F, F = IF srv = "hello" THEN HelloFormat ELSE RequestFormat,
         ~Whole(F, msg)
  PROVE  /\ Found(F, msg, a).state = "ok" /\ Found(F, msg, c) = Found(F, msg, a)
         /\ Found(F, msg, a).size \in 0..Len(a)
<1>1. PICK w, lost, n, ms : StreamBy(a, srv, msg, TRUE, FALSE, ws, t, d, w, lost, n, ms)
  BY DEF WholeBy, Stream
<1>2. PICK m, k : IF srv = "hello" THEN m = HelloMsg /\ k = 2 ELSE m = ms[d + 1] /\ k = 11
  OBVIOUS
<1>3. /\ FormatOk(F, k) /\ n \in 0..k /\ msg = Part(F, m, n)
  BY <1>1, <1>2, HelloOk, RequestOk DEF StreamBy, Reading
<1>4. n < k
  <2>1. Whole(F, msg) <=> n = k
    BY <1>3, PartIs
  <2>2. k \in Nat /\ n # k
    BY <1>3, <2>1 DEF FormatOk
  <2> QED
    BY <1>3, <2>2
<1>5. w # <<>>
  <2> SUFFICES ASSUME w = <<>> PROVE FALSE
    OBVIOUS
  <2>1. Extent(Pos(srv, d, n), t, FALSE, lost)
    <3>1. Len(w) = 0 /\ Pos(srv, d, n) \in Nat
      BY <1>1, EmptySeq, PosType DEF StreamBy
    <3>2. Pos(srv, d, n) + 0 = Pos(srv, d, n)
      BY <3>1
    <3> QED
      BY <1>1, <3>1, <3>2 DEF StreamBy
  <2>2. CASE srv = "hello"
    <3>1. Pos(srv, d, n) = n /\ n < 2 /\ n \in Nat
      BY <1>2, <1>3, <1>4, <2>2 DEF Pos
    <3> QED
      BY <2>1, <3>1 DEF Extent
  <2>3. CASE srv # "hello"
    <3>1. Pos(srv, d, n) = 2 + 11 * d + n /\ n < 11 /\ n \in Nat
      BY <1>2, <1>3, <1>4, <2>3 DEF Pos
    <3>2. 2 + 11 * t <= 2 + 11 * d + n
      BY <2>1, <3>1 DEF Extent
    <3> QED
      BY <3>1, <3>2
  <2> QED
    BY <2>2, <2>3
<1>6. w[1] = Piece(F, m, n + 1) /\ Fit(F, m, n + 1)
  <2>0. PICK wh, ct : StreamBy(a, srv, msg, wh, ct, ws, t, d, w, lost, n, ms)
    BY <1>1
  <2>1. CASE srv = "hello"
    <3>1. n < 2 /\ F = HelloFormat /\ m = HelloMsg
      BY <1>2, <1>4, <2>1
    <3> QED
      BY <2>0, <1>5, <2>1, <3>1, StreamFirst
  <2>2. CASE srv # "hello"
    <3>1. srv = "request"
      BY <1>1, <2>2 DEF StreamBy, Reading
    <3>2. n < 11 /\ F = RequestFormat /\ m = ms[d + 1]
      BY <1>2, <1>4, <2>2
    <3> QED
      BY <2>0, <1>5, <3>1, <3>2, StreamFirst
  <2> QED
    BY <2>1, <2>2
<1>7. PICK p \in Seq(Int), y \in Pieces : p = w[1] /\ FlattenSeq(w) = p \o FlattenSeq(y)
  BY <1>1, <1>5, CellsFirst DEF StreamBy, Coming
<1>8. PICK z \in Seq(Int) : z = FlattenSeq(y)
  BY CellsType
<1>9. /\ a \in Seq(Int) /\ b \in Seq(Int) /\ c = a \o b /\ a = p \o z
  <2>1. a \in Seq(Int) /\ a \o <<>> = p \o z
    BY <1>1, <1>7, <1>8 DEF StreamBy, Coming
  <2>2. a \o <<>> = a
    BY <2>1, ConcatEmptySeq
  <2> QED
    BY <2>1, <2>2 DEF WholeBy
<1>10. /\ Starts(a, p) /\ Len(a) >= Len(p) /\ Starts(c, p) /\ Len(c) >= Len(p)
       /\ Len(p) \in 0..Len(a)
  <2>1. PICK lp, lz, lb \in Nat : lp = Len(p) /\ lz = Len(z) /\ lb = Len(b)
    BY <1>9, LenProperties
  <2>2. Len(a) = lp + lz /\ \A j \in 1..lp : a[j] = p[j]
    BY <1>9, <2>1, ConcatProperties
  <2>3. c \in Seq(Int) /\ Len(c) = Len(a) + lb /\ \A j \in 1..Len(a) : c[j] = a[j]
    BY <1>9, <2>1, ConcatProperties
  <2>4. \A j \in 1..lp : j \in 1..Len(a)
    BY <2>1, <2>2
  <2>5. \A j \in 1..lp : c[j] = p[j]
    BY <2>2, <2>3, <2>4
  <2>6. Len(a) >= lp /\ Len(c) >= lp /\ lp \in 0..Len(a)
    BY <2>1, <2>2, <2>3
  <2> QED
    BY <1>9, <2>1, <2>2, <2>3, <2>5, <2>6 DEF Starts
<1>11. PICK name, kind, v :
         name = F[n + 1][1] /\ kind = F[n + 1][2] /\ v = Value(F, m, n + 1)
  OBVIOUS
<1>12. Named(name, kind)
  <2>1. n + 1 \in 1..k
    BY <1>3, <1>4 DEF FormatOk
  <2> QED
    BY <1>3, <1>11, <2>1 DEF FormatOk
<1>13. p = WriteField(kind, v) /\ Fits(name, kind, v)
  BY <1>6, <1>7, <1>11 DEF Piece, Fit
<1>14. ReadField(a, name, kind) = Took(v, Len(p)) /\ ReadField(c, name, kind) = Took(v, Len(p))
  <2>1. ReadField(a, name, kind) = Took(v, Len(p))
    BY <1>10, <1>12, <1>13, FieldRead
  <2>2. ReadField(c, name, kind) = Took(v, Len(p))
    BY <1>10, <1>12, <1>13, FieldRead
  <2> QED
    BY <2>1, <2>2
<1>15. Field(F, msg) = F[n + 1]
  BY <1>3, <1>4, PartIs
<1>16. Found(F, msg, a) = Took(v, Len(p)) /\ Found(F, msg, c) = Took(v, Len(p))
  BY <1>11, <1>14, <1>15 DEF Found
<1> QED
  BY <1>10, <1>16 DEF Took

(* ...which it decodes before any behind them.                             *)
LEMMA WholeReads ==
  ASSUME NEW c, NEW srv, NEW msg, NEW ws, NEW t \in Nat, NEW d \in Nat,
         FirstWhole(c, srv, msg, ws, t, d),
         NEW F, F = IF srv = "hello" THEN HelloFormat ELSE RequestFormat,
         ~Whole(F, msg), NEW f, f = Found(F, msg, c), f.state = "ok"
  PROVE  FirstWhole(SubSeq(c, f.size + 1, Len(c)), srv, With(msg, Field(F, msg)[1], f.val),
                    ws, t, d)
<1> SUFFICES ASSUME ~(d >= t)
             PROVE  \E a, b : WholeBy(SubSeq(c, f.size + 1, Len(c)), srv,
                                      With(msg, Field(F, msg)[1], f.val), ws, t, d, a, b)
  BY DEF FirstWhole
<1>1. PICK a, b : WholeBy(c, srv, msg, ws, t, d, a, b)
  BY DEF FirstWhole
<1>2. PICK k \in 0..Len(a) : Found(F, msg, a) = f /\ k = f.size
  BY <1>1, WholeComes
<1>3. a \in Seq(Int) /\ b \in Seq(Int) /\ c = a \o b /\ Stream(a, srv, msg, TRUE, FALSE, ws, t, d)
  BY <1>1 DEF WholeBy
<1>4. PICK r : r = Past(a, k)
  OBVIOUS
<1>5. Stream(r, srv, With(msg, Field(F, msg)[1], f.val), TRUE, FALSE, ws, t, d)
  BY <1>2, <1>3, <1>4, StreamReads DEF Past
<1>6. r \in Seq(Int) /\ Remains(c, k, r, b)
  <2>1. a \in Seq(Int) /\ b \in Seq(Int) /\ c = a \o b
    BY <1>3
  <2>2. r \in Seq(Int)
    BY <1>4, <2>1, BehindPart
  <2>3. Remains(c, k, r, b)
    BY <1>4, <2>1, BehindPart
  <2> QED
    BY <2>2, <2>3
<1> QED
  BY <1>2, <1>3, <1>5, <1>6 DEF WholeBy, Past, Remains

LEMMA WholeStarts ==
  ASSUME NEW c, NEW msg, NEW ws, NEW t \in Nat, NEW d \in Nat,
         FirstWhole(c, "hello", msg, ws, t, d), Whole(HelloFormat, msg)
  PROVE  FirstWhole(c, "request", NoFields, ws, t, d)
<1>1. CASE d >= t
  BY <1>1 DEF FirstWhole
<1>2. ASSUME NEW a, NEW b, WholeBy(c, "hello", msg, ws, t, d, a, b)
      PROVE  WholeBy(c, "request", NoFields, ws, t, d, a, b)
  <2>1. Stream(a, "request", NoFields, TRUE, FALSE, ws, t, d)
    BY <1>2, StreamStarts DEF WholeBy
  <2> QED
    BY <1>2, <2>1 DEF WholeBy
<1> QED
  BY <1>1, <1>2 DEF FirstWhole

LEMMA WholeTakes ==
  ASSUME NEW c, NEW msg, NEW ws, NEW t \in Nat, NEW d \in Nat,
         FirstWhole(c, "request", msg, ws, t, d), Whole(RequestFormat, msg)
  PROVE  FirstWhole(c, "request", NoFields, ws, t, d + 1)
<1>1. CASE d >= t
  <2>1. d + 1 >= t
    BY <1>1
  <2> QED
    BY <2>1 DEF FirstWhole
<1>2. ASSUME NEW a, NEW b, WholeBy(c, "request", msg, ws, t, d, a, b)
      PROVE  WholeBy(c, "request", NoFields, ws, t, d + 1, a, b)
  <2>1. Stream(a, "request", NoFields, TRUE, FALSE, ws, t, d + 1)
    BY <1>2, StreamTakes DEF WholeBy
  <2> QED
    BY <1>2, <2>1 DEF WholeBy
<1> QED
  BY <1>1, <1>2 DEF FirstWhole
-----------------------------------------------------------------------------
(* The stream of responses                                                 *)
RightAnswers(w, pos, g) ==
  \A j \in 1..Len(w), k \in Nat, i \in 1..8 :
    pos + j = 8 * k + i =>
      w[j] = Piece(ResponseFormat, g[k + 1], i) /\ Fit(ResponseFormat, g[k + 1], i)

BackBy(c, msg, g, a, b, w, n) ==
  /\ Coming(c, <<>>, w)
  /\ n \in 0..8 /\ 8 * b + n + Len(w) = 8 * a
  /\ msg = Part(ResponseFormat, g[b + 1], n)
  /\ RightAnswers(w, 8 * b + n, g)

Back(c, msg, g, a, b) == \E w, n : BackBy(c, msg, g, a, b, w, n)

Longer(g, a, g2, m) == g2[a + 1] = m /\ \A k \in 1..a : g2[k] = g[k]

(* One more response is written...                                         *)
LEMMA BackGrows ==
  ASSUME NEW c, NEW msg, NEW g, NEW a \in Nat, NEW b \in Nat, Back(c, msg, g, a, b),
         NEW m, NEW v, NEW x, Begun(ResponseFormat, m, v, x), NEW g2, Longer(g, a, g2, m)
  PROVE  v = 8 => Back(c \o FlattenSeq(x), msg, g2, a + 1, b)
<1>a. /\ v \in 0..11 /\ x \in Pieces /\ Len(x) = v
      /\ \A i \in 1..v : x[i] = Piece(ResponseFormat, m, i) /\ Fit(ResponseFormat, m, i)
  BY DEF Begun
<1>b. g2[a + 1] = m /\ \A k \in 1..a : g2[k] = g[k]
  BY DEF Longer
<1>1. PICK w, n : BackBy(c, msg, g, a, b, w, n)
  BY DEF Back
<1>2. PICK u \in Nat : u = Len(w) /\ w \in Pieces
  BY <1>1, LenProperties DEF BackBy, Coming, Pieces
<1>3. PICK p \in Nat : p = 8 * b + n
  BY <1>1 DEF BackBy
<1>4. p + u = 8 * a /\ n \in 0..8
  BY <1>1, <1>2, <1>3 DEF BackBy
<1>5. PICK y : y = w \o x
  OBVIOUS
<1>6. Coming(c \o FlattenSeq(x), <<>>, y)
  BY <1>a, <1>1, <1>5, AllComes DEF BackBy
<1>7. /\ Len(y) = u + v
      /\ \A j \in 1..(u + v) : y[j] = IF j <= u THEN w[j] ELSE x[j - u]
  BY <1>a, <1>2, <1>5, ConcatProperties DEF Pieces
<1>8. ASSUME v = 8 PROVE RightAnswers(y, p, g2)
  <2> SUFFICES ASSUME NEW j \in 1..(u + v), NEW k \in Nat, NEW i \in 1..8, p + j = 8 * k + i
               PROVE  /\ y[j] = Piece(ResponseFormat, g2[k + 1], i)
                      /\ Fit(ResponseFormat, g2[k + 1], i)
    BY <1>7 DEF RightAnswers
  <2>1. CASE j <= u
    <3>1. j \in 1..u /\ k + 1 \in 1..a
      BY <1>4, <2>1
    <3>2. y[j] = w[j] /\ g2[k + 1] = g[k + 1]
      BY <1>b, <1>7, <2>1, <3>1
    <3>3. w[j] = Piece(ResponseFormat, g[k + 1], i) /\ Fit(ResponseFormat, g[k + 1], i)
      BY <1>1, <1>2, <1>3, <3>1 DEF BackBy, RightAnswers
    <3> QED
      BY <3>2, <3>3
  <2>2. CASE ~(j <= u)
    <3>1. k = a /\ j - u = i /\ i \in 1..v
      BY <1>a, <1>4, <1>8, <2>2
    <3>2. y[j] = x[j - u]
      BY <1>7, <2>2
    <3> QED
      BY <1>a, <1>b, <3>1, <3>2
  <2> QED
    BY <2>1, <2>2
<1>9. msg = Part(ResponseFormat, g2[b + 1], n)
  <2>1. msg = Part(ResponseFormat, g[b + 1], n)
    BY <1>1 DEF BackBy
  <2>2. CASE b + 1 <= a
    BY <1>b, <2>1, <2>2
  <2>3. CASE ~(b + 1 <= a)
    <3>1. n = 0
      BY <1>3, <1>4, <2>3
    <3> QED
      BY <2>1, <3>1, PartIs, ResponseOk
  <2> QED
    BY <2>2, <2>3
<1>10. v = 8 => p + (u + v) = 8 * (a + 1)
  BY <1>a, <1>4
<1>11. v = 8 => BackBy(c \o FlattenSeq(x), msg, g2, a + 1, b, y, n)
  BY <1>3, <1>4, <1>6, <1>7, <1>8, <1>9, <1>10 DEF BackBy
<1> QED
  BY <1>11 DEF Back

(* ...the client decodes a field...                                        *)
LEMMA BackReads ==
  ASSUME NEW c, NEW msg, NEW g, NEW a \in Nat, NEW b \in Nat, Back(c, msg, g, a, b),
         ~Whole(ResponseFormat, msg), NEW f, f = Found(ResponseFormat, msg, c), f.state = "ok"
  PROVE  Back(SubSeq(c, f.size + 1, Len(c)), With(msg, Field(ResponseFormat, msg)[1], f.val),
              g, a, b)
<1>1. PICK w, n : BackBy(c, msg, g, a, b, w, n)
  BY DEF Back
<1>2. PICK m, k, F : m = g[b + 1] /\ k = 8 /\ F = ResponseFormat
  OBVIOUS
<1>3. FormatOk(F, k) /\ n \in 0..k /\ msg = Part(F, m, n)
  BY <1>1, <1>2, ResponseOk DEF BackBy
<1>4. n < k
  <2>1. Whole(F, msg) <=> n = k
    BY <1>3, PartIs
  <2>2. k \in Nat /\ n # k
    BY <1>2, <1>3, <2>1 DEF FormatOk
  <2> QED
    BY <1>3, <2>2
<1>5. PICK p \in Nat : p = 8 * b + n
  BY <1>1 DEF BackBy
<1>6. n + 1 \in 1..8 /\ p + 1 = 8 * b + (n + 1)
  BY <1>2, <1>3, <1>4, <1>5
<1>7. w # <<>> => w[1] = Piece(F, m, n + 1) /\ Fit(F, m, n + 1)
  <2> SUFFICES ASSUME w # <<>> PROVE w[1] = Piece(F, m, n + 1) /\ Fit(F, m, n + 1)
    OBVIOUS
  <2>1. 1 \in 1..Len(w)
    BY <1>1, LenProperties, EmptySeq DEF BackBy, Coming, Pieces
  <2> QED
    BY <1>1, <1>2, <1>5, <1>6, <2>1 DEF BackBy, RightAnswers
<1>8. Coming(c, <<>>, w)
  BY <1>1 DEF BackBy
<1>9. f = Found(F, msg, c)
  BY <1>2
<1>10. With(msg, Field(F, msg)[1], f.val) = Part(F, m, n + 1)
  BY <1>3, <1>4, <1>7, <1>8, <1>9, NextPiece
<1>11. PICK y \in Pieces : /\ Len(w) = Len(y) + 1 /\ \A i \in 1..Len(y) : y[i] = w[i + 1]
                          /\ Coming(SubSeq(c, f.size + 1, Len(c)), <<>>, y)
  BY <1>3, <1>4, <1>7, <1>8, <1>9, NextPiece
<1>12. PICK v \in Nat : v = Len(y) /\ Len(w) = v + 1
  BY <1>11, LenProperties DEF Pieces
<1>13. \A j \in 1..v : j + 1 \in 1..Len(w) /\ y[j] = w[j + 1] /\ (p + 1) + j = p + (j + 1)
  BY <1>11, <1>12
<1>14. RightAnswers(y, p + 1, g)
  <2> SUFFICES ASSUME NEW j \in 1..v, NEW l \in Nat, NEW i \in 1..8, (p + 1) + j = 8 * l + i
               PROVE  /\ y[j] = Piece(ResponseFormat, g[l + 1], i)
                      /\ Fit(ResponseFormat, g[l + 1], i)
    BY <1>12 DEF RightAnswers
  <2>1. j + 1 \in 1..Len(w) /\ y[j] = w[j + 1] /\ p + (j + 1) = 8 * l + i
    BY <1>13
  <2>2. RightAnswers(w, p, g)
    BY <1>1, <1>5 DEF BackBy
  <2> QED
    BY <2>1, <2>2 DEF RightAnswers
<1>15. n + 1 \in 0..8 /\ 8 * b + (n + 1) + v = 8 * a
  BY <1>1, <1>5, <1>6, <1>12 DEF BackBy
<1>16. BackBy(SubSeq(c, f.size + 1, Len(c)), Part(F, m, n + 1), g, a, b, y, n + 1)
  BY <1>2, <1>6, <1>11, <1>12, <1>14, <1>15 DEF BackBy
<1> QED
  BY <1>2, <1>10, <1>16 DEF Back

(* ...or has all of the next response.                                     *)
LEMMA BackTakes ==
  ASSUME NEW c, NEW msg, NEW g, NEW a \in Nat, NEW b \in Nat, Back(c, msg, g, a, b),
         Whole(ResponseFormat, msg)
  PROVE  /\ b + 1 <= a /\ msg = Part(ResponseFormat, g[b + 1], 8)
         /\ Back(c, NoFields, g, a, b + 1)
<1>1. PICK w, n : BackBy(c, msg, g, a, b, w, n)
  BY DEF Back
<1>2. n = 8 /\ msg = Part(ResponseFormat, g[b + 1], 8)
  BY <1>1, PartIs, ResponseOk DEF BackBy
<1>3. PICK u \in Nat : u = Len(w) /\ w \in Pieces
  BY <1>1, LenProperties DEF BackBy, Coming, Pieces
<1>4. 8 * b + 8 + u = 8 * a
  BY <1>1, <1>2, <1>3 DEF BackBy
<1>5. 8 * b + 8 = 8 * (b + 1) + 0
  OBVIOUS
<1>6. b + 1 <= a
  BY <1>4
<1>7. NoFields = Part(ResponseFormat, g[(b + 1) + 1], 0)
  BY PartIs, ResponseOk
<1>8. 8 * (b + 1) + 0 + u = 8 * a
  BY <1>4
<1>9. BackBy(c, NoFields, g, a, b + 1, w, 0)
  BY <1>1, <1>2, <1>3, <1>5, <1>7, <1>8 DEF BackBy
<1> QED
  BY <1>2, <1>6, <1>9 DEF Back
-----------------------------------------------------------------------------
(* The router.  Its maps have the entries of the controllers in D, which   *)
(* Register has accepted one after the other.                              *)
Serves(D, rts) ==
  /\ D \subseteq Controllers /\ IsFiniteSet(D)
  /\ rts \subseteq ValidMethods \X D
  /\ \A d \in D, m \in ValidMethods : <<m, d>> \in rts <=> m \in Methods[d]
  /\ \A d \in D : Methods[d] \subseteq ValidMethods /\ Route[d] # <<>>
  /\ \A c, d \in D : c # d => ~SameRoute(c, d)

(* Register keeps the maps those of what it has accepted...                *)
LEMMA PutServes ==
  ASSUME NEW D, NEW rts, Serves(D, rts), NEW c \in Controllers, ~Refused(rts, c)
  PROVE  Serves(D \cup {c}, rts \cup EntriesOf(c))
PROOF
<1>1. D \cup {c} \subseteq Controllers /\ IsFiniteSet(D \cup {c})
  BY FS_AddElement DEF Serves
<1>2. Methods[c] \subseteq ValidMethods /\ Route[c] # <<>>
  BY DEF Refused
<1>3. \A d \in D : ~SameRoute(c, d) /\ ~SameRoute(d, c)
  <2> SUFFICES ASSUME NEW d \in D, NEW m \in Methods[c], m \in Methods[d], Route[c] = Route[d]
               PROVE  FALSE
    BY DEF SameRoute
  <2>1. <<m, d>> \in rts /\ d \in Controllers
    BY <1>2 DEF Serves
  <2> QED
    BY <2>1 DEF Refused, MethodMap
<1>4. rts \cup EntriesOf(c) \subseteq ValidMethods \X (D \cup {c})
  BY <1>2 DEF Serves, EntriesOf
<1>5. ASSUME NEW d \in D \cup {c}, NEW m \in ValidMethods
      PROVE  <<m, d>> \in rts \cup EntriesOf(c) <=> m \in Methods[d]
  <2>1. <<m, d>> \in EntriesOf(c) <=> d = c /\ m \in Methods[c]
    BY DEF EntriesOf
  <2>2. <<m, d>> \in rts => d \in D /\ m \in Methods[d]
    BY DEF Serves
  <2>3. d \in D /\ m \in Methods[d] => <<m, d>> \in rts
    BY DEF Serves
  <2> QED
    BY <2>1, <2>2, <2>3
<1> QED
  BY <1>1, <1>2, <1>3, <1>4, <1>5 DEF Serves

(* ...and panics for a reason.                                             *)
LEMMA RefusedWhy ==
  ASSUME NEW D, NEW rts, Serves(D, rts), NEW c \in Controllers, Refused(rts, c)
  PROVE  \/ ~(Methods[c] \subseteq ValidMethods) \/ Route[c] = <<>>
         \/ \E d \in D : SameRoute(c, d)
PROOF
<1> SUFFICES ASSUME NEW m \in Methods[c], NEW d \in MethodMap(rts, m), Route[d] = Route[c]
             PROVE  \E e \in D : SameRoute(c, e)
  BY DEF Refused
<1>1. d \in D /\ m \in Methods[d]
  BY DEF Serves, MethodMap
<1> QED
  BY <1>1 DEF SameRoute

(* The loop of match: the best of what it has gone through.                *)
BestBy(f, n, o, path) ==
  /\ f[0] = NotFound
  /\ \A i \in 1..n : f[i] = Better(f[i - 1], o[i], path)
  /\ Best(o, path) = f[n]

LEMMA BestLoop ==
  ASSUME NEW n \in Nat, NEW S, NEW o \in [1..n -> S], NEW path
  PROVE  \E f : BestBy(f, n, o, path)
PROOF
<1> DEFINE V == S \cup {NotFound}
           step == [x \in (1..n) \X V |-> Better(x[2], o[x[1]], path)]
           Loop(f) == f = [i \in 0..n |-> IF i = 0 THEN NotFound ELSE Better(f[i - 1], o[i], path)]
<1>1. Len(o) = n
  BY LenProperties
<1>2. step \in [(1..n) \X V -> V]
  BY DEF Better
<1>3. PICK f : LoopsBy(f, V, NotFound, n, step)
  <2> HIDE DEF step
  <2> QED
    BY <1>2, LoopExists
<1>4. \A i \in 1..n : f[i] = Better(f[i - 1], o[i], path)
  <2> TAKE i \in 1..n
  <2>1. f \in [0..n -> V] /\ i - 1 \in 0..n
    BY <1>3 DEF LoopsBy
  <2>2. <<i, f[i - 1]>> \in (1..n) \X V
    BY <2>1
  <2> QED
    BY <1>3, <2>2 DEF LoopsBy
<1>5. Loop(f)
  <2>1. \A i \in 0..n : f[i] = IF i = 0 THEN NotFound ELSE Better(f[i - 1], o[i], path)
    <3> TAKE i \in 0..n
    <3>1. CASE i = 0
      BY <1>3, <3>1 DEF LoopsBy
    <3>2. CASE i \in 1..n
      BY <1>4, <3>2
    <3> QED
      BY <3>1, <3>2
  <2>2. f \in [0..n -> V]
    BY <1>3 DEF LoopsBy
  <2> QED
    BY <2>1, <2>2
<1> DEFINE g == CHOOSE h : Loop(h)
<1>6. Loop(g)
  <2> HIDE DEF Loop
  <2> QED
    BY <1>5
<1>7. Best(o, path) = g[n]
  BY <1>1 DEF Best
<1> HIDE DEF g
<1>8. g[0] = NotFound /\ \A i \in 1..n : g[i] = Better(g[i - 1], o[i], path)
  <2>1. \A i \in 0..n : g[i] = IF i = 0 THEN NotFound ELSE Better(g[i - 1], o[i], path)
    BY <1>6 DEF Loop
  <2>2. 0 \in 0..n /\ \A i \in 1..n : i \in 0..n /\ i # 0
    OBVIOUS
  <2> HIDE DEF Loop
  <2> QED
    BY <2>1, <2>2
<1> QED
  BY <1>7, <1>8 DEF BestBy

(* The best of a set of controllers for a path                             *)
IsBest(h, M) ==
  IF M = {} THEN h = NotFound ELSE h \in M /\ \A c \in M : Len(Route[c]) <= Len(Route[h])

(* The loop finds a controller whose pattern is longest of those that      *)
(* match.                                                                  *)
LEMMA BestIs ==
  ASSUME NEW n \in Nat, NEW S \in SUBSET Controllers, NEW o \in [1..n -> S], NEW path
  PROVE  IsBest(Best(o, path), {c \in {o[i] : i \in 1..n} : PathMatch(Route[c], path)})
PROOF
<1> DEFINE M(k) == {c \in {o[i] : i \in 1..k} : PathMatch(Route[c], path)}
<1>1. PICK f : BestBy(f, n, o, path)
  BY BestLoop
<1> DEFINE G == {k \in Nat : k <= n => IsBest(f[k], M(k))}
<1>2. 0 \in G
  BY <1>1 DEF BestBy, IsBest
<1>3. ASSUME NEW k \in Nat, k \in G PROVE k + 1 \in G
  <2> SUFFICES ASSUME k + 1 <= n PROVE IsBest(f[k + 1], M(k + 1))
    OBVIOUS
  <2>1. IsBest(f[k], M(k)) /\ k + 1 \in 1..n /\ (k + 1) - 1 = k
    BY <1>3
  <2>2. PICK c : c = o[k + 1]
    OBVIOUS
  <2>3. PICK h : h = f[k]
    OBVIOUS
  <2>4. f[k + 1] = Better(h, c, path)
    BY <1>1, <2>1, <2>2, <2>3 DEF BestBy
  <2>5. M(k + 1) = M(k) \cup IF PathMatch(Route[c], path) THEN {c} ELSE {}
    <3>1. \A i \in 1..(k + 1) : i = k + 1 \/ i \in 1..k
      OBVIOUS
    <3>2. \A i \in 1..k : i \in 1..(k + 1)
      OBVIOUS
    <3>3. k + 1 \in 1..(k + 1)
      OBVIOUS
    <3> QED
      BY <2>2, <3>1, <3>2, <3>3
  <2>6. c \in Controllers /\ \A d \in M(k) : d \in Controllers
    BY <2>1, <2>2
  <2>7. PICK N : N = M(k)
    OBVIOUS
  <2>8. \A d \in Controllers : Len(Route[d]) \in Nat /\ d # NotFound
    BY RouterAssumption
  <2> HIDE DEF M, G
  <2>9. CASE ~PathMatch(Route[c], path)
    BY <2>1, <2>3, <2>4, <2>5, <2>9 DEF Better
  <2>10. CASE PathMatch(Route[c], path) /\ N = {}
    <3>1. h = NotFound /\ M(k + 1) = {c}
      BY <2>1, <2>3, <2>5, <2>7, <2>10 DEF IsBest
    <3> QED
      BY <2>4, <2>6, <2>8, <2>10, <3>1 DEF Better, IsBest
  <2>11. CASE PathMatch(Route[c], path) /\ N # {}
    <3>1. /\ h \in N /\ h \in Controllers /\ h # NotFound
          /\ \A d \in N : d \in Controllers /\ Len(Route[d]) <= Len(Route[h])
      BY <2>1, <2>3, <2>6, <2>7, <2>8, <2>11 DEF IsBest
    <3>2. M(k + 1) = N \cup {c}
      BY <2>5, <2>7, <2>11
    <3>3. f[k + 1] = IF Len(Route[c]) > Len(Route[h]) THEN c ELSE h
      BY <2>4, <2>11, <3>1 DEF Better
    <3>4. Len(Route[c]) \in Nat /\ Len(Route[h]) \in Nat /\ \A d \in N : Len(Route[d]) \in Nat
      BY <2>6, <2>8, <3>1
    <3>5. \A d \in N \cup {c} : Len(Route[d]) <= Len(Route[f[k + 1]])
      BY <3>1, <3>3, <3>4
    <3> QED
      BY <3>1, <3>2, <3>3, <3>5 DEF IsBest
  <2> QED
    BY <2>9, <2>10, <2>11
<1>4. \A k \in Nat : k \in G
  <2> HIDE DEF G
  <2> QED
    BY <1>2, <1>3, NumberInduction
<1>5. IsBest(f[n], M(n))
  <2>1. n \in G /\ n <= n
    <3> HIDE DEF G
    <3> QED
      BY <1>4
  <2> HIDE DEF M
  <2> QED
    BY <2>1
<1> QED
  BY <1>1, <1>5 DEF BestBy

(* The controller of a request is one that there is, or the NotFound.      *)
LEMMA MatchFinds ==
  ASSUME NEW rts, NEW method, NEW path, NEW h \in Match(rts, method, path)
  PROVE  h \in Controllers \cup {NotFound}
<1> DEFINE m == MethodMap(rts, method)
<1>1. IsFiniteSet(m) /\ m \in SUBSET Controllers
  BY RouterAssumption, FS_Subset DEF MethodMap
<1>2. PICK n \in Nat : n = Cardinality(m)
  BY <1>1, FS_CardinalityType
<1>3. PICK o \in [1..n -> m] : h = Best(o, path)
  BY <1>2 DEF Match
<1> HIDE DEF m
<1>4. IsBest(h, {c \in {o[i] : i \in 1..n} : PathMatch(Route[c], path)})
  BY <1>1, <1>3, BestIs
<1> QED
  BY <1>1, <1>4 DEF IsBest

(* Match finds the longest of the patterns that match.                     *)
LEMMA MatchIs ==
  ASSUME NEW D, NEW rts, Serves(D, rts), NEW method \in ValidMethods, NEW path,
         NEW h \in Match(rts, method, path)
  PROVE  IsBest(h, {c \in D : method \in Methods[c] /\ PathMatch(Route[c], path)})
PROOF
<1> DEFINE m == MethodMap(rts, method)
<1>1. m = {c \in D : method \in Methods[c]}
  BY DEF MethodMap, Serves
<1>2. IsFiniteSet(m) /\ m \subseteq Controllers
  <2>1. m \subseteq D
    BY <1>1
  <2> QED
    BY <2>1, FS_Subset DEF Serves
<1>3. PICK n \in Nat : n = Cardinality(m)
  BY <1>2, FS_CardinalityType
<1>4. PICK o \in [1..n -> m] : ToSet(o) = m /\ h = Best(o, path)
  BY <1>3 DEF Match
<1>5. {o[i] : i \in 1..n} = m
  BY <1>4 DEF ToSet
<1> HIDE DEF m
<1>6. IsBest(h, {c \in {o[i] : i \in 1..n} : PathMatch(Route[c], path)})
  <2>1. PICK S \in SUBSET Controllers : S = m
    BY <1>2
  <2>2. o \in [1..n -> S]
    BY <2>1
  <2>3. IsBest(Best(o, path), {c \in {o[i] : i \in 1..n} : PathMatch(Route[c], path)})
    BY <2>2, BestIs
  <2> QED
    BY <1>4, <2>3
<1>7. {c \in m : PathMatch(Route[c], path)} =
      {c \in D : method \in Methods[c] /\ PathMatch(Route[c], path)}
  BY <1>1 DEF m
<1> QED
  BY <1>5, <1>6, <1>7
-----------------------------------------------------------------------------
(* What Start and the application have registered so far                   *)
Over(method) ==
  CASE method = "InitStaticFiles" -> start \in {"InitWebSockets", "listening"}
    [] method = "InitWebSockets"  -> start = "listening"

PingDone == start \in {"InitStaticFiles", "InitWebSockets", "listening"}

Taken == queued \ ToSet(range)
Served ==
  direct \cup Taken
    \cup (IF PingDone /\ ~ping THEN {PingController} ELSE {})
    \cup (IF Over("InitStaticFiles") THEN Configured \cap {StaticFileController} ELSE {})
    \cup (IF Over("InitWebSockets") THEN Configured \cap {WebsocketController} ELSE {})

Failed ==
  \/ queued \cap direct # {}
  \/ \E c \in Wanted : ~(Methods[c] \subseteq ValidMethods) \/ Route[c] = <<>>
  \/ \E c, d \in Wanted : c # d /\ SameRoute(c, d)

BootInv ==
  /\ registerQueue \in Seq(App) /\ Distinct(registerQueue)
  /\ range \in Seq(App) /\ Distinct(range) /\ ToSet(range) \subseteq queued
  /\ queued \subseteq App /\ direct \subseteq App
  /\ start \in {"setup", "InitControllers", "InitStaticFiles", "InitWebSockets", "listening",
                "panic"}
  /\ start = "setup" => queued = {} /\ ~ping
  /\ start \notin {"InitControllers", "panic"} => range = <<>>
  /\ start # "panic" => Serves(Served, routes) /\ (ping <=> \E c \in Taken : Route[c] = PingRoute)
  /\ start = "panic" => Failed

LEMMA ToSetIs ==
  ASSUME NEW S, NEW q \in Seq(S)
  PROVE  /\ \A x : x \in ToSet(q) <=> In(q, x)
         /\ \A x : Contains(q, x) <=> In(q, x)
  BY LenProperties DEF ToSet, Contains, In

(* The invariant of the start.                                             *)
LEMMA BootInitially == ASSUME BootInit PROVE BootInv
PROOF
<1>1. registerQueue \in Seq(App) /\ Distinct(registerQueue) /\ range = registerQueue
  BY EmptySeq DEF BootInit, Distinct
<1>2. ToSet(range) = {}
  BY EmptySeq DEF BootInit, ToSet
<1>3. Served = {} /\ Taken = {}
  BY <1>2 DEF BootInit, Served, Taken, Over, PingDone
<1>4. Serves({}, routes)
  BY FS_EmptySet DEF BootInit, Serves
<1> QED
  BY <1>1, <1>2, <1>3, <1>4 DEF BootInit, BootInv

(* What is registered serves one more, or Start has failed for a reason.   *)
LEMMA PutKeeps ==
  ASSUME NEW D, Serves(D, routes), NEW c \in Controllers, NEW next, next # "panic", Put(c, next)
  PROVE  \/ start' = next /\ Serves(D \cup {c}, routes')
         \/ /\ start' = "panic"
            /\ \/ ~(Methods[c] \subseteq ValidMethods) \/ Route[c] = <<>>
               \/ \E d \in D : SameRoute(c, d)
PROOF
<1>1. CASE Refused(routes, c)
  <2>1. start' = "panic"
    BY <1>1 DEF Put
  <2> QED
    BY <1>1, <2>1, RefusedWhy
<1>2. CASE ~Refused(routes, c)
  <2>1. start' = next /\ routes' = routes \cup EntriesOf(c)
    BY <1>2 DEF Put
  <2>2. Serves(D \cup {c}, routes \cup EntriesOf(c))
    BY <1>2, PutServes
  <2> QED
    BY <2>1, <2>2
<1> QED
  BY <1>1, <1>2

(* Nothing that is served was not asked for.                               *)
LEMMA ServedWanted ==
  ASSUME BootInv, start # "panic"
  PROVE  Served \subseteq Wanted
PROOF
<1>1. direct \cup Taken \subseteq Wanted /\ Configured \subseteq Wanted
  BY DEF Taken, Wanted
<1>2. ASSUME PingDone, ~ping PROVE PingController \in Wanted
  <2>1. ToSet(range) = {}
    BY <1>2, EmptySeq DEF BootInv, PingDone, ToSet
  <2>2. ~\E c \in queued : Route[c] = PingRoute
    BY <1>2, <2>1 DEF BootInv, Taken
  <2> QED
    BY <2>2 DEF Wanted
<1> QED
  BY <1>1, <1>2 DEF Served

LEMMA PutStep ==
  ASSUME BootInv, start # "panic", NEW c \in Controllers, NEW next, next # "panic", Put(c, next),
         start' = next => Served' = Served \cup {c},
         Wanted \subseteq Wanted', c \in Wanted', c \in Served => queued' \cap direct' # {}
  PROVE  \/ start' = next /\ Serves(Served', routes')
         \/ start' = "panic" /\ Failed'
PROOF
<1>1. PICK D : D = Served
  OBVIOUS
<1>2. Serves(D, routes) /\ \A d \in D : d \in Wanted'
  BY <1>1, ServedWanted DEF BootInv
<1>3. CASE start' = next /\ Serves(D \cup {c}, routes')
  BY <1>1, <1>3
<1>4. CASE /\ start' = "panic"
           /\ \/ ~(Methods[c] \subseteq ValidMethods) \/ Route[c] = <<>>
              \/ \E d \in D : SameRoute(c, d)
  <2>1. CASE ~(Methods[c] \subseteq ValidMethods) \/ Route[c] = <<>>
    BY <1>4, <2>1 DEF Failed
  <2>2. ASSUME NEW d \in D, SameRoute(c, d) PROVE Failed'
    <3>1. CASE d = c
      BY <1>1, <3>1 DEF Failed
    <3>2. CASE d # c
      <4>1. d \in Wanted'
        BY <1>2
      <4> QED
        BY <2>2, <3>2, <4>1 DEF Failed
    <3> QED
      BY <3>1, <3>2
  <2> QED
    BY <1>4, <2>1, <2>2
<1> QED
  BY <1>2, <1>3, <1>4, PutKeeps

LEMMA BootStep == ASSUME BootInv, [BootNext]_bootVars PROVE BootInv'
PROOF
<1>0. /\ App \subseteq Controllers /\ Configured \subseteq Controllers
      /\ {PingController, StaticFileController, WebsocketController} \subseteq Controllers
      /\ {PingController, StaticFileController, WebsocketController} \cap App = {}
      /\ Configured \subseteq {StaticFileController, WebsocketController}
      /\ PingController \notin {StaticFileController, WebsocketController}
      /\ StaticFileController # WebsocketController /\ Route[PingController] = PingRoute
  BY BootstrapAssumption
<1>1. ASSUME NEW c \in App, Register(c) PROVE BootInv'
  <2>1. registerQueue' \in Seq(App) /\ Distinct(registerQueue')
    <3>1. ~In(registerQueue, c)
      BY <1>1, ToSetIs DEF Register, BootInv
    <3> QED
      BY <1>1, <3>1, PutIn, PutDistinct DEF Register, BootInv
  <2> QED
    BY <1>1, <2>1 DEF Register, BootInv, Served, Taken, Over, PingDone
<1>2. ASSUME NEW c \in App, ConfRegister(c) PROVE BootInv'
  <2>1. /\ start # "panic" /\ c \notin direct /\ direct' = direct \cup {c}
        /\ UNCHANGED <<registerQueue, range, ping, queued>> /\ Put(c, start)
    BY <1>2 DEF ConfRegister
  <2>2. start' = start => Served' = Served \cup {c}
    BY <2>1 DEF Served, Taken, Over, PingDone
  <2>3. Wanted \subseteq Wanted' /\ c \in Wanted'
    BY <2>1 DEF Wanted
  <2>4. c \in Served => queued' \cap direct' # {}
    BY <1>0, <2>1 DEF Served, Taken
  <2>5. \/ start' = start /\ Serves(Served', routes')
        \/ start' = "panic" /\ Failed'
    BY <1>0, <2>1, <2>2, <2>3, <2>4, PutStep
  <2>6. /\ registerQueue' \in Seq(App) /\ Distinct(registerQueue')
        /\ range' \in Seq(App) /\ Distinct(range') /\ ToSet(range') \subseteq queued'
        /\ queued' \subseteq App /\ direct' \subseteq App
        /\ ping' = ping /\ Taken' = Taken
    BY <2>1 DEF BootInv, Taken
  <2> QED
    BY <2>1, <2>5, <2>6 DEF BootInv
<1>3. ASSUME Start PROVE BootInv'
  <2>1. Taken = {} /\ Taken' = {} /\ Served' = Served
    BY <1>3 DEF Start, BootInv, Taken, Served, Over, PingDone
  <2>2. queued' \subseteq App
    <3>1. \A x : In(registerQueue, x) => x \in App
      BY ElementOfSeq DEF BootInv, In
    <3> QED
      BY <1>3, <3>1, ToSetIs DEF Start, BootInv
  <2> QED
    BY <1>3, <2>1, <2>2 DEF Start, BootInv
<1>4. ASSUME InitController PROVE BootInv'
  <2>1. PICK c : c = Head(range)
    OBVIOUS
  <2>2. /\ start = "InitControllers" /\ range # <<>> /\ range' = Tail(range) /\ Put(c, start)
        /\ ping' = (ping \/ Route[c] = PingRoute) /\ UNCHANGED <<registerQueue, queued, direct>>
    BY <1>4, <2>1 DEF InitController
  <2>3. /\ c \in App /\ range' \in Seq(App) /\ Distinct(range')
        /\ \A x : x \in ToSet(range) <=> x = c \/ x \in ToSet(range')
        /\ c \notin ToSet(range')
    <3>1. /\ c \in App /\ range' \in Seq(App)
          /\ \A x : In(range, x) <=> x = c \/ In(range', x)
      BY <2>1, <2>2, TakeIn DEF BootInv
    <3>2. Distinct(range') /\ ~In(range', c)
      BY <2>1, <2>2, TakeDistinct DEF BootInv
    <3> QED
      BY <3>1, <3>2, ToSetIs DEF BootInv
  <2>4. c \in queued /\ Taken' = Taken \cup {c} /\ c \notin Taken
    BY <2>2, <2>3 DEF BootInv, Taken
  <2>5. start' = start => Served' = Served \cup {c}
    BY <2>2, <2>4 DEF Served, Over, PingDone
  <2>6. Wanted' = Wanted /\ c \in Wanted
    BY <2>2, <2>4 DEF Wanted
  <2>7. c \in Served => queued' \cap direct' # {}
    BY <1>0, <2>2, <2>3, <2>4 DEF Served
  <2>8. \/ start' = start /\ Serves(Served', routes')
        \/ start' = "panic" /\ Failed'
    BY <1>0, <2>2, <2>3, <2>5, <2>6, <2>7, PutStep
  <2>9. start' # "panic" => (ping' <=> \E d \in Taken' : Route[d] = PingRoute)
    BY <2>2, <2>4 DEF BootInv
  <2> QED
    BY <2>2, <2>3, <2>8, <2>9 DEF BootInv
<1>5. ASSUME InitPing PROVE BootInv'
  <2>1. /\ start = "InitControllers" /\ range = <<>>
        /\ UNCHANGED <<registerQueue, range, ping, queued, direct>> /\ Taken' = Taken
    BY <1>5 DEF InitPing, Taken
  <2>2. CASE ping
    <3>1. start' = "InitStaticFiles" /\ routes' = routes
      BY <1>5, <2>2 DEF InitPing
    <3>2. Served' = Served
      BY <2>1, <2>2, <3>1 DEF Served, Taken, Over, PingDone
    <3> QED
      BY <2>1, <3>1, <3>2 DEF BootInv
  <2>3. CASE ~ping
    <3>1. Put(PingController, "InitStaticFiles")
      BY <1>5, <2>3 DEF InitPing
    <3>2. start' = "InitStaticFiles" => Served' = Served \cup {PingController}
      BY <2>1, <2>3 DEF Served, Taken, Over, PingDone
    <3>3. Wanted' = Wanted /\ PingController \in Wanted
      <4>1. Taken = queued
        BY <2>1, EmptySeq DEF Taken, ToSet
      <4>2. ~\E c \in queued : Route[c] = PingRoute
        BY <2>1, <2>3, <4>1 DEF BootInv
      <4> QED
        BY <2>1, <4>2 DEF Wanted
    <3>4. PingController \notin Served
      BY <1>0, <2>1 DEF Served, Taken, Over, PingDone, BootInv
    <3>5. \/ start' = "InitStaticFiles" /\ Serves(Served', routes')
          \/ start' = "panic" /\ Failed'
      BY <1>0, <2>1, <3>1, <3>2, <3>3, <3>4, PutStep
    <3> QED
      BY <2>1, <3>5 DEF BootInv
  <2> QED
    BY <2>2, <2>3
<1>6. ASSUME InitConfigured("InitStaticFiles", StaticFileController, "InitWebSockets")
      PROVE  BootInv'
  <2>1. /\ start = "InitStaticFiles" /\ Taken' = Taken
        /\ UNCHANGED <<registerQueue, range, ping, queued, direct>>
    BY <1>6 DEF InitConfigured, Taken
  <2>2. CASE StaticFileController \notin Configured
    <3>1. start' = "InitWebSockets" /\ routes' = routes
      BY <1>6, <2>2 DEF InitConfigured
    <3>2. Served' = Served
      BY <2>1, <2>2, <3>1 DEF Served, Taken, Over, PingDone
    <3> QED
      BY <2>1, <3>1, <3>2 DEF BootInv
  <2>3. CASE StaticFileController \in Configured
    <3>1. Put(StaticFileController, "InitWebSockets")
      BY <1>6, <2>3 DEF InitConfigured
    <3>2. start' = "InitWebSockets" => Served' = Served \cup {StaticFileController}
      BY <2>1, <2>3 DEF Served, Taken, Over, PingDone
    <3>3. Wanted' = Wanted /\ StaticFileController \in Wanted
      BY <2>1, <2>3 DEF Wanted
    <3>4. StaticFileController \notin Served
      BY <1>0, <2>1 DEF Served, Taken, Over, PingDone, BootInv
    <3>5. \/ start' = "InitWebSockets" /\ Serves(Served', routes')
          \/ start' = "panic" /\ Failed'
      BY <1>0, <2>1, <3>1, <3>2, <3>3, <3>4, PutStep
    <3> QED
      BY <2>1, <3>5 DEF BootInv
  <2> QED
    BY <2>2, <2>3
<1>7. ASSUME InitConfigured("InitWebSockets", WebsocketController, "listening")
      PROVE  BootInv'
  <2>1. /\ start = "InitWebSockets" /\ Taken' = Taken
        /\ UNCHANGED <<registerQueue, range, ping, queued, direct>>
    BY <1>7 DEF InitConfigured, Taken
  <2>2. CASE WebsocketController \notin Configured
    <3>1. start' = "listening" /\ routes' = routes
      BY <1>7, <2>2 DEF InitConfigured
    <3>2. Served' = Served
      BY <2>1, <2>2, <3>1 DEF Served, Taken, Over, PingDone
    <3> QED
      BY <2>1, <3>1, <3>2 DEF BootInv
  <2>3. CASE WebsocketController \in Configured
    <3>1. Put(WebsocketController, "listening")
      BY <1>7, <2>3 DEF InitConfigured
    <3>2. start' = "listening" => Served' = Served \cup {WebsocketController}
      BY <2>1, <2>3 DEF Served, Taken, Over, PingDone
    <3>3. Wanted' = Wanted /\ WebsocketController \in Wanted
      BY <2>1, <2>3 DEF Wanted
    <3>4. WebsocketController \notin Served
      BY <1>0, <2>1 DEF Served, Taken, Over, PingDone, BootInv
    <3>5. \/ start' = "listening" /\ Serves(Served', routes')
          \/ start' = "panic" /\ Failed'
      BY <1>0, <2>1, <3>1, <3>2, <3>3, <3>4, PutStep
    <3> QED
      BY <2>1, <3>5 DEF BootInv
  <2> QED
    BY <2>2, <2>3
<1>8. CASE UNCHANGED bootVars
  BY <1>8 DEF bootVars, BootInv, Served, Taken, Over, PingDone, Failed, Wanted
<1> QED
  BY <1>1, <1>2, <1>3, <1>4, <1>5, <1>6, <1>7, <1>8 DEF BootNext

(* Every request goes to the longest pattern among all controllers that    *)
(* were asked for with its method, in whatever order they were registered  *)
(* and the maps are gone through; and Start fails for no other reason than *)
(* two that cannot both be served, or one that cannot be served at all.    *)
THEOREM RoutesCorrect == BootSpec => []RoutesAsRegistered
PROOF
<1>1. ASSUME BootInv PROVE RoutesAsRegistered
  <2>1. ASSUME start = "listening", NEW method \in ValidMethods, NEW path \in Paths,
               NEW m, m = {c \in Wanted : method \in Methods[c] /\ PathMatch(Route[c], path)},
               NEW h \in Match(routes, method, path)
        PROVE  IF m = {} THEN h = NotFound
               ELSE h \in m /\ \A c \in m : Len(Route[c]) <= Len(Route[h])
    <3>1. Served = Wanted
      <4>1. Taken = queued
        BY <1>1, <2>1, EmptySeq DEF BootInv, Taken, ToSet
      <4>2. ping <=> \E c \in queued : Route[c] = PingRoute
        BY <1>1, <2>1, <4>1 DEF BootInv
      <4> QED
        BY <2>1, <4>1, <4>2, BootstrapAssumption DEF Served, Wanted, Over, PingDone
    <3>2. Serves(Wanted, routes)
      BY <1>1, <2>1, <3>1 DEF BootInv
    <3> HIDE DEF Wanted
    <3>3. IsBest(h, m)
      BY <2>1, <3>2, MatchIs
    <3> QED
      BY <3>3 DEF IsBest
  <2>2. start = "panic" => Failed
    BY <1>1 DEF BootInv
  <2> QED
    BY <2>1, <2>2 DEF RoutesAsRegistered, Failed
<1> QED
  BY <1>1, BootInitially, BootStep, PTL DEF BootSpec
-----------------------------------------------------------------------------
(* What each writer writes, as pieces.                                     *)
LEMMA RequestPieces ==
  ASSUME NEW r \in Requests, Shards
  PROVE  \E v \in 0..11, x \in Pieces :
           /\ Begun(RequestFormat, Sent(r), v, x)
           /\ WriteRequest(r).cells = FlattenSeq(x)
           /\ WriteRequest(r).ok <=> v = 11
<1>1. PICK x : /\ Spells(RequestFormat, Sent(r), x)
               /\ WriteRequest(r).cells = FlattenSeq(x)
               /\ WriteRequest(r).ok <=> Len(x) = 11
  BY RequestWritten
<1>2. Len(RequestFormat) = 11
  BY RequestOk DEF FormatOk
<1>3. Len(x) \in Nat /\ Len(x) <= 11 /\ x \in Pieces
  BY <1>1, <1>2, LenProperties DEF Spells, Pieces
<1>4. PICK v : v = Len(x) /\ v \in 0..11
  <2>1. PICK v : v = Len(x)
    OBVIOUS
  <2>2. v \in Nat /\ v <= 11
    BY <1>3, <2>1
  <2> QED
    BY <2>1, <2>2
<1>5. \A i \in 1..v : x[i] = Piece(RequestFormat, Sent(r), i) /\ Fit(RequestFormat, Sent(r), i)
  BY <1>1, <1>4 DEF Spells
<1>6. WriteRequest(r).ok <=> v = 11
  BY <1>1, <1>4
<1> QED
  BY <1>1, <1>3, <1>4, <1>5, <1>6 DEF Begun

LEMMA ResponsePieces ==
  ASSUME NEW c \in Controllers \cup {NotFound}, NEW id, Bytes(id, Half16),
         NEW r, r = [Reply(c) EXCEPT !.txnId = id]
  PROVE  \E v, x : /\ Begun(ResponseFormat, Sent(Emptied(r)), v, x) /\ v = 8
                   /\ WriteResponse(r).cells = FlattenSeq(x)
<1>1. PICK x : /\ Spells(ResponseFormat, Sent(Emptied(r)), x) /\ Len(x) = 8
               /\ WriteResponse(r).cells = FlattenSeq(x)
  BY ResponseWritten
<1>2. PICK v \in 0..11 : v = 8 /\ v = Len(x)
  BY <1>1
<1> QED
  BY <1>1, <1>2 DEF Spells, Begun

(* A message of which every field is there is the message.                 *)
LEMMA WholePart ==
  ASSUME NEW F, NEW k, NEW m, NEW S, {F[i][1] : i \in 1..k} = S, m = [f \in S |-> m[f]]
  PROVE  Part(F, m, k) = m
BY DEF Part

LEMMA HelloPieces ==
  \E v \in Nat, x \in Pieces :
    /\ v = 2 /\ Len(x) = v
    /\ \A i \in 1..v : x[i] = Piece(HelloFormat, HelloMsg, i) /\ Fit(HelloFormat, HelloMsg, i)
    /\ WriteHello(Hello).cells = FlattenSeq(x)
<1>1. Contains(PARAM_ENCODING, "json")
  BY DEF Contains, PARAM_ENCODING
<1>2. /\ HelloFormat[1] = <<"encoding", "ParamEncoding">> /\ HelloFormat[2] = <<"hello", "array16">>
      /\ HelloMsg.encoding = "json" /\ HelloMsg.hello = Hello
  BY DEF HelloFormat, HelloMsg
<1>3. Fit(HelloFormat, HelloMsg, 1)
  BY <1>1, <1>2 DEF Fit, Fits, Value, Arrays, Table
<1>4. Fit(HelloFormat, HelloMsg, 2)
  BY <1>2, FrontendAssumption DEF Fit, Fits, Value, Arrays, Table, Half
<1>5. \A i \in 1..2 : Fit(HelloFormat, HelloMsg, i)
  BY <1>3, <1>4
<1>6. PICK k : k = 2 /\ FormatOk(HelloFormat, k) /\ \A i \in 1..k : Fit(HelloFormat, HelloMsg, i)
  BY <1>5, HelloOk
<1>7. PICK x : /\ Spells(HelloFormat, HelloMsg, x)
               /\ WriteFields(HelloFormat, HelloMsg).cells = FlattenSeq(x)
               /\ WriteFields(HelloFormat, HelloMsg).ok <=> Len(x) = k
               /\ (\A i \in 1..k : Fit(HelloFormat, HelloMsg, i))
                    => WriteFields(HelloFormat, HelloMsg).ok
  BY <1>6, FieldsWritten
<1>8. WriteHello(Hello).cells = FlattenSeq(x)
  BY <1>7 DEF WriteHello, HelloMsg
<1>9. PICK v \in Nat : v = 2 /\ v = Len(x)
  BY <1>6, <1>7
<1> QED
  BY <1>7, <1>8, <1>9 DEF Spells
-----------------------------------------------------------------------------
(* The invariant.  What the server was given and what it gave back         *)
Handled  == [req : {Sent(r) : r \in Requests} \cup Misreadings, to : Controllers \cup {NotFound}]
Given(x) == [Reply(x.to) EXCEPT !.txnId = x.req.txnId]
Gives(x) == Sent(Emptied(Given(x)))
Answers(an, di) == [k \in 1..Len(an) |-> Gives(di[an[k]])]

Kept ==
  /\ written \in Seq(Requests) /\ dispatched \in Seq(Handled)
  /\ ~misread => Len(dispatched) <= Len(written)
  /\ misread  => Len(written) <= Len(dispatched)
  /\ \A i \in 1..Len(dispatched) : i <= Len(written) => dispatched[i].req = Sent(written[i])

ReadKept ==
  /\ answered \in Seq(Nat)
  /\ \A j \in 1..Len(answered) : answered[j] \in 1..Len(dispatched)
  /\ read \in Seq({Gives(x) : x \in Handled}) /\ Len(read) <= Len(answered)
  /\ \A j \in 1..Len(read) : read[j] = Gives(dispatched[answered[j]])

Arrives == ~cut /\ client = "open"
UpRight ==
  server # "closed" /\ ~misread =>
    Stream(up, server, serverMsg, Arrives, cut, written, Len(written), Len(dispatched))
DownRight ==
  Back(down, clientMsg, Answers(answered, dispatched), Len(answered), Len(read))

(* Where a request was cut, those before it are there to be read first; a  *)
(* server that has read on past it reads nothing else in its place.        *)
BeforeCut ==
  cut /\ ~misread /\ server # "closed" /\ (client = "open" \/ behind = "sent") =>
    FirstWhole(up, server, serverMsg, written, Len(written), Len(dispatched))
PastCut ==
  /\ misread \in BOOLEAN /\ behind \in {"nothing", "sent", "lost"}
  /\ (behind # "nothing" => cut) /\ (client = "open" => behind # "lost")
  /\ misread => /\ cut /\ behind # "nothing" /\ up = <<>> /\ server # "hello"
                /\ server = "request" => serverMsg \in Misreadings \cup {NoFields}

FrontendInv ==
  /\ server \in {"hello", "request", "closed"} /\ client \in {"open", "closed"} /\ cut \in BOOLEAN
  /\ Kept /\ ReadKept /\ UpRight /\ BeforeCut /\ PastCut /\ DownRight

(* What is handled and what is given has its form.                         *)
LEMMA HandledIs ==
  ASSUME Shards, NEW x \in Handled
  PROVE  /\ x.to \in Controllers \cup {NotFound} /\ Bytes(x.req.txnId, Half16)
         /\ Gives(x) = [f \in ReplyFields |-> Gives(x)[f]]
         /\ Part(ResponseFormat, Gives(x), 8) = Gives(x)
<1>1. x.to \in Controllers \cup {NotFound} /\ x.req \in {Sent(r) : r \in Requests} \cup Misreadings
  BY DEF Handled
<1>2. x.to \in Controllers \cup {NotFound} /\ Bytes(x.req.txnId, Half16)
  <2>1. CASE x.req \in {Sent(r) : r \in Requests}
    <3>1. PICK r \in Requests : x.req = Sent(r)
      BY <2>1
    <3> QED
      BY <1>1, <3>1, RequestWritten
  <2>2. CASE x.req \in Misreadings
    BY <1>1, <2>2, FrontendAssumption
  <2> QED
    BY <1>1, <2>1, <2>2
<1>3. Gives(x) = [f \in ReplyFields |-> Gives(x)[f]]
  BY <1>2, ResponseWritten DEF Gives, Given
<1>4. Part(ResponseFormat, Gives(x), 8) = Gives(x)
  BY <1>3, ResponseOk, WholePart
<1> QED
  BY <1>2, <1>3, <1>4

(* The invariant holds at first, and every step keeps it.                  *)
LEMMA FrontendInitially ==
  ASSUME Init PROVE FrontendInv
<1>1. Kept /\ ReadKept
  BY EmptySeq DEF Init, Kept, ReadKept
<1>2. PICK v \in Nat, x \in Pieces :
        /\ v = 2 /\ Len(x) = v
        /\ \A i \in 1..v : x[i] = Piece(HelloFormat, HelloMsg, i) /\ Fit(HelloFormat, HelloMsg, i)
        /\ WriteHello(Hello).cells = FlattenSeq(x)
  BY HelloPieces
<1>3. Coming(up, <<>>, x)
  <2>1. up = FlattenSeq(x) /\ FlattenSeq(x) \in Seq(Int)
    BY <1>2, CellsType DEF Init
  <2>2. <<>> \in Seq(Int)
    BY EmptySeq
  <2>3. up \o <<>> = up
    BY <2>1, ConcatEmptySeq
  <2> QED
    BY <1>2, <2>1, <2>2, <2>3 DEF Coming
<1>4. RightHello(x, 0)
  BY <1>2 DEF RightHello
<1>5. RightCalls(x, 0, <<>>)
  <2> SUFFICES ASSUME NEW j \in 1..Len(x), NEW k \in Nat, NEW i \in 1..11, 0 + j = 2 + 11 * k + i
               PROVE  FALSE
    BY DEF RightCalls
  <2>1. j \in 1..2
    BY <1>2
  <2> QED
    BY <2>1
<1>6. Reading("hello", NoFields, 0, 0, <<>>)
  BY PartIs, HelloOk DEF Reading
<1>7. Extent(0 + Len(x), 0, FALSE, <<>>)
  BY <1>2 DEF Extent
<1>8. Len(written) = 0 /\ Len(dispatched) = 0 /\ Len(answered) = 0 /\ Len(read) = 0
  BY EmptySeq DEF Init
<1>9. StreamBy(up, "hello", NoFields, Arrives, FALSE, written, 0, 0, x, <<>>, 0, <<>>)
  <2>1. Pos("hello", 0, 0) = 0
    BY DEF Pos
  <2>2. \A k \in 1..0 : <<>>[k] = Sent(written[k])
    OBVIOUS
  <2> QED
    BY <1>3, <1>4, <1>5, <1>6, <1>7, <2>1, <2>2 DEF StreamBy
<1>10. UpRight /\ BeforeCut /\ PastCut
  BY <1>8, <1>9 DEF UpRight, Stream, BeforeCut, PastCut, Init
<1>11. Coming(down, <<>>, <<>>)
  <2>1. down = <<>> /\ <<>> \in Seq(Int) /\ <<>> \in Pieces
    BY EmptySeq DEF Init, Pieces
  <2>2. <<>> \o <<>> = <<>>
    BY <2>1, ConcatEmptySeq
  <2> QED
    BY <2>1, <2>2, CellsType DEF Coming
<1>12. PICK g : g = Answers(answered, dispatched)
  OBVIOUS
<1>13. BackBy(down, NoFields, g, 0, 0, <<>>, 0)
  <2>1. NoFields = Part(ResponseFormat, g[0 + 1], 0)
    BY PartIs, ResponseOk
  <2>2. Len(<<>>) = 0
    BY EmptySeq
  <2>3. RightAnswers(<<>>, 8 * 0 + 0, g)
    BY <2>2 DEF RightAnswers
  <2> QED
    BY <1>11, <2>1, <2>2, <2>3 DEF BackBy
<1>14. DownRight
  BY <1>8, <1>12, <1>13 DEF DownRight, Back, Init
<1> QED
  BY <1>1, <1>10, <1>14 DEF FrontendInv, Init

LEMMA SendKeeps ==
  ASSUME Shards, FrontendInv, NEW r \in Requests, SendRequest(r) PROVE FrontendInv'
<1>1. PICK v \in 0..11, x \in Pieces :
        /\ Begun(RequestFormat, Sent(r), v, x)
        /\ WriteRequest(r).cells = FlattenSeq(x)
        /\ WriteRequest(r).ok <=> v = 11
  BY RequestPieces
<1>2. /\ client = "open" /\ ~cut
      /\ up' = up \o FlattenSeq(x) /\ cut' = (v # 11)
      /\ written' = IF v = 11 THEN Append(written, r) ELSE written
      /\ UNCHANGED <<down, server, serverMsg, client, clientMsg, behind, misread,
                     dispatched, answered, read>>
  BY <1>1 DEF SendRequest, MayWrite
<1>3. PICK t \in Nat : t = Len(written)
  BY LenProperties DEF FrontendInv, Kept
<1>a. ~misread /\ behind = "nothing"
  BY <1>2 DEF FrontendInv, PastCut
<1>4. /\ written' \in Seq(Requests) /\ Len(written') = IF v = 11 THEN t + 1 ELSE t
      /\ \A k \in 1..t : written'[k] = written[k]
      /\ v = 11 => written'[t + 1] = r
  BY <1>2, <1>3, AppendProperties DEF FrontendInv, Kept
<1>5. Kept'
  <2>1. PICK d \in Nat : d = Len(dispatched)
    BY LenProperties DEF FrontendInv, Kept
  <2>2. d <= t /\ \A i \in 1..d : dispatched[i].req = Sent(written[i])
    BY <1>3, <1>a, <2>1 DEF FrontendInv, Kept
  <2>3. \A i \in 1..d : i \in 1..t
    BY <2>2
  <2>4. Len(written') \in Nat /\ d <= Len(written')
    BY <1>4, <2>2
  <2>5. dispatched' \in Seq(Handled)
    BY <1>2 DEF FrontendInv, Kept
  <2> QED
    BY <1>2, <1>4, <1>a, <2>1, <2>2, <2>3, <2>4, <2>5 DEF Kept
<1>6. ReadKept' /\ DownRight' /\ PastCut'
  BY <1>2, <1>a DEF FrontendInv, ReadKept, DownRight, Answers, PastCut
<1>b. ASSUME server # "closed", v # 11
      PROVE  FirstWhole(up', server, serverMsg, written, t, Len(dispatched))
  <2>1. PICK d \in Nat : d = Len(dispatched)
    BY LenProperties DEF FrontendInv, Kept
  <2>2. PICK a, b, c : a = up /\ b = FlattenSeq(x) /\ c = up'
    OBVIOUS
  <2>3. Stream(a, server, serverMsg, TRUE, FALSE, written, t, d)
    <3>1. Arrives = TRUE /\ cut = FALSE
      BY <1>2 DEF Arrives
    <3> QED
      BY <1>3, <1>a, <1>b, <2>1, <2>2, <3>1 DEF FrontendInv, UpRight
  <2>4. a \in Seq(Int) /\ b \in Seq(Int) /\ c = a \o b
    BY <1>2, <2>2, <2>3, CellsType DEF Stream, StreamBy, Coming
  <2>5. WholeBy(c, server, serverMsg, written, t, d, a, b)
    BY <2>3, <2>4 DEF WholeBy
  <2> QED
    BY <2>1, <2>2, <2>5 DEF FirstWhole
<1>c. BeforeCut'
  BY <1>2, <1>3, <1>b DEF BeforeCut
<1>7. ASSUME server # "closed"
      PROVE  Stream(up', server, serverMsg, (Arrives)', cut', written', Len(written'),
                    Len(dispatched))
  <2>1. PICK d \in Nat : d = Len(dispatched)
    BY LenProperties DEF FrontendInv, Kept
  <2>2. PICK w, lost, n, ms :
          StreamBy(up, server, serverMsg, Arrives, cut, written, t, d, w, lost, n, ms)
    BY <1>3, <1>7, <1>a, <2>1 DEF FrontendInv, UpRight, Stream
  <2>3. Arrives /\ ~cut
    BY <1>2 DEF Arrives
  <2>4. lost = <<>> /\ Coming(up, <<>>, w)
    BY <2>2, <2>3 DEF StreamBy
  <2>5. Coming(up', <<>>, w \o x)
    BY <1>2, <2>4, AllComes
  <2>6. cut' \in BOOLEAN /\ (Arrives)' \in BOOLEAN
    BY <1>2 DEF Arrives
  <2>7. PICK ws2, t2, c2, ct2 : ws2 = written' /\ t2 = Len(written') /\ c2 = up' /\ ct2 = cut'
    OBVIOUS
  <2>8. PICK wh2, m : wh2 = (Arrives)' /\ m = Sent(r)
    OBVIOUS
  <2>9. Coming(c2, <<>>, w \o x) /\ Begun(RequestFormat, m, v, x)
    BY <1>1, <2>5, <2>7, <2>8
  <2>10. Adds(written, t, ws2, t2, wh2, ct2, <<>>, m, v)
    BY <1>2, <1>4, <2>6, <2>7, <2>8 DEF Adds
  <2>12. PICK wh, ct, srv, msg, ws, none : /\ wh = Arrives /\ ct = cut /\ srv = server
                                           /\ msg = serverMsg /\ ws = written /\ none = <<>>
    OBVIOUS
  <2>13. /\ StreamBy(up, srv, msg, wh, ct, ws, t, d, w, lost, n, ms) /\ ~ct
         /\ Coming(c2, none, w \o x) /\ Begun(RequestFormat, m, v, x)
         /\ Adds(ws, t, ws2, t2, wh2, ct2, none, m, v)
    BY <2>2, <2>3, <2>9, <2>10, <2>12
  <2>14. Stream(c2, srv, msg, wh2, ct2, ws2, t2, d)
    BY <2>13, StreamGrows
  <2>11. Stream(c2, server, serverMsg, wh2, ct2, ws2, t2, d)
    BY <2>12, <2>14
  <2> QED
    BY <2>1, <2>7, <2>8, <2>11
<1>8. UpRight'
  BY <1>2, <1>7 DEF UpRight
<1> QED
  BY <1>2, <1>5, <1>6, <1>8, <1>c DEF FrontendInv

LEMMA TimeOutKeeps ==
  ASSUME Shards, FrontendInv, NEW r \in Requests, WriteTimesOut(r) PROVE FrontendInv'
<1>1. PICK v \in 0..11, x \in Pieces :
        /\ Begun(RequestFormat, Sent(r), v, x)
        /\ WriteRequest(r).cells = FlattenSeq(x)
  BY RequestPieces
<1>2. PICK n \in 1..(Len(FlattenSeq(x)) - 1) : up' = up \o SubSeq(FlattenSeq(x), 1, n)
  BY <1>1 DEF WriteTimesOut
<1>3. /\ client = "open" /\ ~cut /\ cut' = TRUE
      /\ UNCHANGED <<down, server, serverMsg, client, clientMsg, behind, misread,
                     written, dispatched, answered, read>>
  BY DEF WriteTimesOut, MayWrite, histVars
<1>a. ~misread /\ behind = "nothing"
  BY <1>3 DEF FrontendInv, PastCut
<1>4. Kept' /\ ReadKept' /\ DownRight' /\ PastCut'
  BY <1>3, <1>a DEF FrontendInv, Kept, ReadKept, DownRight, Answers, PastCut
<1>b. ASSUME server # "closed"
      PROVE  FirstWhole(up', server, serverMsg, written, Len(written), Len(dispatched))
  <2>1. PICK t, d \in Nat : t = Len(written) /\ d = Len(dispatched)
    BY LenProperties DEF FrontendInv, Kept
  <2>2. PICK a, b, c, y : a = up /\ b = SubSeq(y, 1, n) /\ c = up' /\ y = FlattenSeq(x)
    OBVIOUS
  <2>3. Stream(a, server, serverMsg, TRUE, FALSE, written, t, d)
    <3>1. Arrives = TRUE /\ cut = FALSE
      BY <1>3 DEF Arrives
    <3> QED
      BY <1>a, <1>b, <2>1, <2>2, <3>1 DEF FrontendInv, UpRight
  <2>4. b \in Seq(Int)
    <3>1. y \in Seq(Int)
      BY <2>2, CellsType
    <3>2. n \in 0..Len(y)
      BY <2>2, <3>1, LenProperties
    <3> QED
      BY <2>2, <3>1, <3>2, Apart
  <2>5. a \in Seq(Int) /\ c = a \o b
    BY <1>2, <2>2, <2>3 DEF Stream, StreamBy, Coming
  <2>6. WholeBy(c, server, serverMsg, written, t, d, a, b)
    BY <2>3, <2>4, <2>5 DEF WholeBy
  <2> QED
    BY <2>1, <2>2, <2>6 DEF FirstWhole
<1>c. BeforeCut'
  BY <1>3, <1>b DEF BeforeCut
<1>5. ASSUME server # "closed"
      PROVE  Stream(up', server, serverMsg, (Arrives)', cut', written, Len(written),
                    Len(dispatched))
  <2>1. PICK t, d \in Nat : t = Len(written) /\ d = Len(dispatched)
    BY LenProperties DEF FrontendInv, Kept
  <2>2. PICK w, lost, i, ms :
          StreamBy(up, server, serverMsg, Arrives, cut, written, t, d, w, lost, i, ms)
    BY <1>5, <1>a, <2>1 DEF FrontendInv, UpRight, Stream
  <2>3. Arrives /\ ~cut
    BY <1>3 DEF Arrives
  <2>4. Coming(up, <<>>, w)
    BY <2>2, <2>3 DEF StreamBy
  <2>5. n \in Nat /\ n < Len(FlattenSeq(x))
    BY CellsType, LenProperties
  <2>6. PICK l : l # <<>> /\ Coming(up', l, w \o x)
    BY <1>2, <2>4, <2>5, PartComes
  <2>7. PICK c2, m : c2 = up' /\ m = Sent(r)
    OBVIOUS
  <2>8. Coming(c2, l, w \o x) /\ Begun(RequestFormat, m, v, x)
    BY <1>1, <2>6, <2>7
  <2>11. Adds(written, t, written, t, FALSE, TRUE, l, m, v)
    BY <2>6 DEF Adds
  <2>12. PICK wh, ct, srv, msg, ws, wh2, ct2 : /\ wh = Arrives /\ ct = cut /\ srv = server
                                              /\ msg = serverMsg /\ ws = written
                                              /\ wh2 = FALSE /\ ct2 = TRUE
    OBVIOUS
  <2>13. /\ StreamBy(up, srv, msg, wh, ct, ws, t, d, w, lost, i, ms) /\ ~ct
         /\ Coming(c2, l, w \o x) /\ Begun(RequestFormat, m, v, x)
         /\ Adds(ws, t, ws, t, wh2, ct2, l, m, v)
    BY <2>2, <2>3, <2>8, <2>11, <2>12
  <2>14. Stream(c2, srv, msg, wh2, ct2, ws, t, d)
    BY <2>13, StreamGrows
  <2>9. Stream(c2, server, serverMsg, FALSE, TRUE, written, t, d)
    BY <2>12, <2>14
  <2>10. (Arrives)' = FALSE
    BY <1>3 DEF Arrives
  <2> QED
    BY <1>3, <2>1, <2>7, <2>9, <2>10
<1>6. UpRight'
  BY <1>3, <1>5 DEF UpRight
<1> QED
  BY <1>3, <1>4, <1>6, <1>c DEF FrontendInv

LEMMA ClientClosesKeeps ==
  ASSUME FrontendInv, ClientCloses PROVE FrontendInv'
<1>1. PICK n \in 0..Len(up) : up' = SubSeq(up, 1, n)
  BY DEF ClientCloses
<1>2. /\ client = "open" /\ client' = "closed"
      /\ UNCHANGED <<down, server, serverMsg, cut, misread, clientMsg,
                     written, dispatched, answered, read>>
  BY DEF ClientCloses, histVars
<1>a. /\ behind' \in {"nothing", "sent", "lost"} /\ (behind' # "nothing" <=> behind # "nothing")
      /\ behind' = "sent" => behind = "sent" /\ up' = up
  <2>1. behind' \in CASE behind = "nothing"            -> {"nothing"}
                      [] behind = "sent" /\ up' = up   -> {"sent", "lost"}
                      [] behind = "sent" /\ up' # up   -> {"lost"}
    BY DEF ClientCloses
  <2>2. behind \in {"nothing", "sent"}
    BY <1>2 DEF FrontendInv, PastCut
  <2>3. CASE behind = "nothing"
    BY <2>1, <2>3
  <2>4. CASE behind = "sent" /\ up' = up
    BY <2>1, <2>4
  <2>5. CASE behind = "sent" /\ up' # up
    BY <2>1, <2>5
  <2> QED
    BY <2>2, <2>3, <2>4, <2>5
<1>b. misread => up' = <<>>
  <2> SUFFICES ASSUME misread PROVE up' = <<>>
    OBVIOUS
  <2>1. up = <<>> /\ Len(<<>>) = 0
    BY EmptySeq DEF FrontendInv, PastCut
  <2>2. n = 0
    BY <2>1
  <2> QED
    BY <1>1, <2>1, <2>2
<1>3. Kept' /\ ReadKept' /\ DownRight'
  BY <1>2 DEF FrontendInv, Kept, ReadKept, DownRight, Answers
<1>d. PastCut'
  BY <1>2, <1>a, <1>b DEF FrontendInv, PastCut
<1>c. BeforeCut'
  BY <1>2, <1>a DEF FrontendInv, BeforeCut
<1>4. (Arrives)' = FALSE
  BY <1>2 DEF Arrives
<1>5. PICK t, d \in Nat : t = Len(written) /\ d = Len(dispatched)
  BY LenProperties DEF FrontendInv, Kept
<1>6. ASSUME server # "closed", ~misread
      PROVE  Stream(up', server, serverMsg, FALSE, cut, written, t, d)
  <2>1. Stream(up, server, serverMsg, Arrives, cut, written, t, d)
    BY <1>5, <1>6 DEF FrontendInv, UpRight
  <2> QED
    BY <1>1, <2>1, StreamLoses
<1>7. UpRight'
  BY <1>2, <1>4, <1>5, <1>6 DEF UpRight
<1> QED
  BY <1>2, <1>3, <1>7, <1>c, <1>d DEF FrontendInv

LEMMA ServerReadsKeeps ==
  ASSUME FrontendInv, ServerReads PROVE FrontendInv'
<1>1. PICK F, f : F = Format /\ f = Found(F, serverMsg, up)
  OBVIOUS
<1>2. /\ server # "closed" /\ ~Whole(F, serverMsg) /\ f.state = "ok"
      /\ serverMsg' = With(serverMsg, Field(F, serverMsg)[1], f.val)
      /\ up' = SubSeq(up, f.size + 1, Len(up))
      /\ UNCHANGED <<down, server, client, clientMsg, cut, behind, misread,
                     written, dispatched, answered, read>>
  BY <1>1 DEF ServerReads, tearVars, histVars
<1>a. ~misread
  <2> SUFFICES ASSUME up = <<>> PROVE FALSE
    BY DEF FrontendInv, PastCut
  <2>1. f.state = "short"
    BY <1>1 DEF Found, ReadField, Fails
  <2> QED
    BY <1>2, <2>1
<1>3. Kept' /\ ReadKept' /\ DownRight' /\ PastCut'
  BY <1>2, <1>a DEF FrontendInv, Kept, ReadKept, DownRight, Answers, PastCut
<1>4. PICK t, d \in Nat : t = Len(written) /\ d = Len(dispatched)
  BY LenProperties DEF FrontendInv, Kept
<1>5. Stream(up, server, serverMsg, Arrives, cut, written, t, d)
  BY <1>2, <1>4, <1>a DEF FrontendInv, UpRight
<1>6. F = IF server = "hello" THEN HelloFormat ELSE RequestFormat
  BY <1>1 DEF Format
<1>b. BeforeCut'
  <2> SUFFICES ASSUME cut, client = "open" \/ behind = "sent"
               PROVE  FirstWhole(up', server, serverMsg', written, t, d)
    BY <1>2, <1>4 DEF BeforeCut
  <2>1. PICK c, srv, msg, ws : c = up /\ srv = server /\ msg = serverMsg /\ ws = written
    OBVIOUS
  <2>2. FirstWhole(c, srv, msg, ws, t, d)
    BY <1>2, <1>4, <1>a, <2>1 DEF FrontendInv, BeforeCut
  <2>3. FirstWhole(SubSeq(c, f.size + 1, Len(c)), srv, With(msg, Field(F, msg)[1], f.val),
                   ws, t, d)
    BY <1>1, <1>2, <1>6, <2>1, <2>2, WholeReads
  <2> QED
    BY <1>2, <2>1, <2>3
<1>7. PICK m2, c2 : m2 = serverMsg' /\ c2 = up'
  OBVIOUS
<1>8. Stream(c2, server, m2, Arrives, cut, written, t, d)
  BY <1>1, <1>2, <1>5, <1>6, <1>7, StreamReads
<1>9. (Arrives)' = Arrives
  BY <1>2 DEF Arrives
<1>10. UpRight'
  BY <1>2, <1>4, <1>7, <1>8, <1>9 DEF UpRight
<1> QED
  BY <1>2, <1>3, <1>10, <1>b DEF FrontendInv

LEMMA GotHelloKeeps ==
  ASSUME FrontendInv, GotHello PROVE FrontendInv'
<1>1. /\ server = "hello" /\ Whole(HelloFormat, serverMsg) /\ server' = "request"
      /\ serverMsg' = NoFields
      /\ UNCHANGED <<up, down, client, clientMsg, cut, behind, misread,
                     written, dispatched, answered, read>>
  BY DEF GotHello, tearVars, histVars
<1>a. ~misread
  BY <1>1 DEF FrontendInv, PastCut
<1>2. Kept' /\ ReadKept' /\ DownRight' /\ PastCut'
  BY <1>1, <1>a DEF FrontendInv, Kept, ReadKept, DownRight, Answers, PastCut
<1>3. PICK t, d \in Nat : t = Len(written) /\ d = Len(dispatched)
  BY LenProperties DEF FrontendInv, Kept
<1>b. BeforeCut'
  <2> SUFFICES ASSUME cut, client = "open" \/ behind = "sent"
               PROVE  FirstWhole(up, "request", NoFields, written, t, d)
    BY <1>1, <1>3 DEF BeforeCut
  <2>1. FirstWhole(up, "hello", serverMsg, written, t, d)
    BY <1>1, <1>3, <1>a DEF FrontendInv, BeforeCut
  <2> QED
    BY <1>1, <2>1, WholeStarts
<1>4. Stream(up, "hello", serverMsg, Arrives, cut, written, t, d)
  BY <1>1, <1>3, <1>a DEF FrontendInv, UpRight
<1>5. Stream(up, "request", NoFields, Arrives, cut, written, t, d)
  BY <1>1, <1>4, StreamStarts
<1>6. (Arrives)' = Arrives
  BY <1>1 DEF Arrives
<1>7. UpRight'
  BY <1>1, <1>3, <1>5, <1>6 DEF UpRight
<1> QED
  BY <1>1, <1>2, <1>7, <1>b DEF FrontendInv

(* A request is complete: the next that the client wrote, or one that is   *)
(* read past the cut.                                                      *)
LEMMA DispatchKeeps ==
  ASSUME Shards, FrontendInv, Dispatch PROVE FrontendInv'
<1>1. PICK h \in Match(Registered, serverMsg.method, serverMsg.uri) :
        dispatched' = Append(dispatched, [req |-> serverMsg, to |-> h])
  BY DEF Dispatch
<1>2. /\ server = "request" /\ Whole(RequestFormat, serverMsg) /\ serverMsg' = NoFields
      /\ UNCHANGED <<up, down, server, client, clientMsg, cut, behind, misread,
                     written, answered, read>>
  BY DEF Dispatch, tearVars
<1>3. h \in Controllers \cup {NotFound}
  BY MatchFinds
<1>4. PICK t, d \in Nat : t = Len(written) /\ d = Len(dispatched)
  BY LenProperties DEF FrontendInv, Kept
<1>5. ASSUME ~misread
      PROVE  /\ d + 1 <= t /\ serverMsg = Sent(written[d + 1])
             /\ serverMsg \in {Sent(r) : r \in Requests}
             /\ Stream(up, "request", NoFields, Arrives, cut, written, t, d + 1)
  <2>1. Stream(up, "request", serverMsg, Arrives, cut, written, t, d)
    BY <1>2, <1>4, <1>5 DEF FrontendInv, UpRight
  <2>2. /\ d + 1 <= t /\ serverMsg = Part(RequestFormat, Sent(written[d + 1]), 11)
        /\ Stream(up, "request", NoFields, Arrives, cut, written, t, d + 1)
    BY <1>2, <2>1, StreamTakes
  <2>3. PICK r \in Requests : r = written[d + 1]
    BY <1>4, <2>2, ElementOfSeq DEF FrontendInv, Kept
  <2>4. serverMsg = Sent(r)
    BY <2>2, <2>3, RequestWritten, RequestOk, WholePart
  <2> QED
    BY <2>2, <2>3, <2>4
<1>6. ASSUME misread PROVE serverMsg \in Misreadings /\ t <= d
  <2>1. serverMsg \in Misreadings \cup {NoFields} /\ t <= d
    BY <1>2, <1>4, <1>6 DEF FrontendInv, PastCut, Kept
  <2>2. ~Whole(RequestFormat, NoFields)
    <3>1. PICK n : n = 0 /\ n \in 0..11
      OBVIOUS
    <3>2. NoFields = Part(RequestFormat, <<>>, n)
      BY <3>1, PartIs, RequestOk
    <3>3. Whole(RequestFormat, NoFields) <=> n = 11
      BY <3>1, <3>2, PartIs, RequestOk
    <3> QED
      BY <3>1, <3>3
  <2> QED
    BY <1>2, <2>1, <2>2
<1>7. misread \in BOOLEAN /\ t \in Nat /\ d \in Nat
  BY DEF FrontendInv, PastCut
<1>8. serverMsg \in {Sent(r) : r \in Requests} \cup Misreadings
  BY <1>5, <1>6
<1>9. PICK x \in Handled : x = [req |-> serverMsg, to |-> h]
  BY <1>3, <1>8 DEF Handled
<1>10. /\ dispatched' \in Seq(Handled) /\ Len(dispatched') = d + 1
       /\ \A i \in 1..d : dispatched'[i] = dispatched[i]
       /\ dispatched'[d + 1] = x
  BY <1>1, <1>4, <1>9, AppendProperties DEF FrontendInv, Kept
<1>11. Kept'
  <2>1. ASSUME NEW i \in 1..(d + 1), i <= t PROVE dispatched'[i].req = Sent(written[i])
    <3>1. CASE i \in 1..d
      BY <1>4, <1>10, <2>1, <3>1 DEF FrontendInv, Kept
    <3>2. CASE i = d + 1
      <4>1. ~misread
        BY <1>6, <2>1, <3>2
      <4> QED
        BY <1>5, <1>9, <1>10, <3>2, <4>1
    <3> QED
      BY <3>1, <3>2
  <2>2. (~misread => d + 1 <= t) /\ (misread => t <= d + 1)
    BY <1>5, <1>6
  <2>3. written \in Seq(Requests)
    BY DEF FrontendInv, Kept
  <2> QED
    BY <1>2, <1>4, <1>10, <2>1, <2>2, <2>3 DEF Kept
<1>12. \A j \in 1..Len(answered) : /\ answered[j] \in 1..d /\ answered[j] \in 1..(d + 1)
                                   /\ dispatched'[answered[j]] = dispatched[answered[j]]
  <2>1. \A j \in 1..Len(answered) : answered[j] \in 1..d
    BY <1>4 DEF FrontendInv, ReadKept
  <2> QED
    BY <1>10, <2>1
<1>13. ReadKept'
  <2>1. \A j \in 1..Len(read) : j \in 1..Len(answered)
    BY LenProperties DEF FrontendInv, ReadKept
  <2> QED
    BY <1>2, <1>10, <1>12, <2>1 DEF FrontendInv, ReadKept
<1>14. Answers(answered, dispatched') = Answers(answered, dispatched)
  BY <1>12 DEF Answers
<1>15. DownRight'
  BY <1>2, <1>14 DEF FrontendInv, DownRight
<1>16. (Arrives)' = Arrives
  BY <1>2 DEF Arrives
<1>17. UpRight'
  BY <1>2, <1>4, <1>5, <1>10, <1>16 DEF UpRight
<1>18. PastCut'
  BY <1>2 DEF FrontendInv, PastCut
<1>19. BeforeCut'
  <2> SUFFICES ASSUME cut, ~misread, client = "open" \/ behind = "sent"
               PROVE  FirstWhole(up, "request", NoFields, written, t, d + 1)
    BY <1>2, <1>4, <1>10 DEF BeforeCut
  <2>1. FirstWhole(up, "request", serverMsg, written, t, d)
    BY <1>2, <1>4 DEF FrontendInv, BeforeCut
  <2> QED
    BY <1>2, <2>1, WholeTakes
<1> QED
  BY <1>2, <1>11, <1>13, <1>15, <1>17, <1>18, <1>19 DEF FrontendInv

(* Behind the cut: the server handles all that was written whole before it *)
(* reads on.                                                               *)
LEMMA ServerMisreadsKeeps ==
  ASSUME FrontendInv, ServerMisreads PROVE FrontendInv'
<1>1. /\ server = "request" /\ behind = "sent" /\ ~Whole(RequestFormat, serverMsg)
      /\ Found(RequestFormat, serverMsg, up).state = "short"
      /\ up' = <<>> /\ misread' = TRUE
      /\ \/ server' = server /\ serverMsg' \in Misreadings
         \/ server' = "closed"
      /\ UNCHANGED <<down, client, clientMsg, cut, behind, written, dispatched, answered, read>>
  BY DEF ServerMisreads, histVars
<1>2. PICK t, d \in Nat : t = Len(written) /\ d = Len(dispatched)
  BY LenProperties DEF FrontendInv, Kept
<1>3. t <= d
  <2>1. CASE misread
    BY <1>2, <2>1 DEF FrontendInv, Kept
  <2>2. CASE ~misread
    <3>1. cut
      BY <1>1 DEF FrontendInv, PastCut
    <3>2. PICK c, srv, msg, ws : c = up /\ srv = server /\ msg = serverMsg /\ ws = written
      OBVIOUS
    <3>3. FirstWhole(c, srv, msg, ws, t, d)
      BY <1>1, <1>2, <2>2, <3>1, <3>2 DEF FrontendInv, BeforeCut
    <3>4. ASSUME ~(d >= t), NEW a, NEW b, WholeBy(c, srv, msg, ws, t, d, a, b) PROVE FALSE
      <4>1. PICK F : F = RequestFormat
        OBVIOUS
      <4>2. F = (IF srv = "hello" THEN HelloFormat ELSE RequestFormat) /\ ~Whole(F, msg)
        BY <1>1, <3>2, <4>1
      <4>3. Found(F, msg, a).state = "ok" /\ Found(F, msg, c) = Found(F, msg, a)
        BY <3>4, <4>2, WholeComes
      <4> QED
        BY <1>1, <3>2, <4>1, <4>3
    <3> QED
      BY <3>3, <3>4 DEF FirstWhole
  <2> QED
    BY <2>1, <2>2 DEF FrontendInv, PastCut
<1>4. Kept'
  BY <1>1, <1>2, <1>3 DEF FrontendInv, Kept
<1>5. ReadKept' /\ DownRight' /\ UpRight' /\ BeforeCut'
  BY <1>1 DEF FrontendInv, ReadKept, DownRight, Answers, UpRight, BeforeCut
<1>6. PastCut'
  BY <1>1 DEF FrontendInv, PastCut
<1> QED
  BY <1>1, <1>4, <1>5, <1>6 DEF FrontendInv

LEMMA AnswerKeeps ==
  ASSUME Shards, FrontendInv, NEW i \in DOMAIN dispatched, Answer(i) PROVE FrontendInv'
<1>1. /\ down' = down \o WriteResponse(Response(i)).cells /\ answered' = Append(answered, i)
      /\ UNCHANGED <<up, server, serverMsg, client, clientMsg, cut, behind, misread,
                     written, dispatched, read>>
  BY DEF Answer, tearVars
<1>2. PICK x \in Handled : x = dispatched[i] /\ i \in 1..Len(dispatched) /\ i \in Nat
  BY ElementOfSeq, LenProperties DEF FrontendInv, Kept
<1>3. x.to \in Controllers \cup {NotFound} /\ Bytes(x.req.txnId, Half16)
  BY <1>2, HandledIs
<1>4. PICK r : r = [Reply(x.to) EXCEPT !.txnId = x.req.txnId]
  OBVIOUS
<1>5. r = Response(i) /\ Gives(x) = Sent(Emptied(r))
  BY <1>2, <1>4 DEF Response, Gives, Given
<1>6. PICK v, y : /\ Begun(ResponseFormat, Gives(x), v, y) /\ v = 8
                  /\ WriteResponse(r).cells = FlattenSeq(y)
  BY <1>3, <1>4, <1>5, ResponsePieces
<1>7. PICK a, b \in Nat : a = Len(answered) /\ b = Len(read)
  BY LenProperties DEF FrontendInv, ReadKept
<1>8. /\ answered' \in Seq(Nat) /\ Len(answered') = a + 1 /\ answered'[a + 1] = i
      /\ \A k \in 1..a : answered'[k] = answered[k]
  BY <1>1, <1>2, <1>7, AppendProperties DEF FrontendInv, ReadKept
<1>9. \A j \in 1..(a + 1) : answered'[j] \in 1..Len(dispatched)
  <2> TAKE j \in 1..(a + 1)
  <2>1. CASE j \in 1..a
    BY <1>7, <1>8, <2>1 DEF FrontendInv, ReadKept
  <2>2. CASE j = a + 1
    BY <1>2, <1>8, <2>2
  <2> QED
    BY <2>1, <2>2
<1>10. ReadKept'
  <2>1. b <= a /\ b <= a + 1
    BY <1>7 DEF FrontendInv, ReadKept
  <2>2. \A j \in 1..b : read[j] = Gives(dispatched[answered'[j]])
    <3>1. \A j \in 1..b : j \in 1..a
      BY <2>1
    <3> QED
      BY <1>7, <1>8, <3>1 DEF FrontendInv, ReadKept
  <2>3. read \in Seq({Gives(z) : z \in Handled})
    BY DEF FrontendInv, ReadKept
  <2> QED
    BY <1>1, <1>7, <1>8, <1>9, <2>1, <2>2, <2>3 DEF ReadKept
<1>11. PICK g, g2 : g = Answers(answered, dispatched) /\ g2 = Answers(answered', dispatched)
  OBVIOUS
<1>12. g2[a + 1] = Gives(x) /\ \A k \in 1..a : g2[k] = g[k]
  <2>1. g = [k \in 1..a |-> Gives(dispatched[answered[k]])]
    BY <1>7, <1>11 DEF Answers
  <2>2. g2 = [k \in 1..(a + 1) |-> Gives(dispatched[answered'[k]])]
    BY <1>8, <1>11 DEF Answers
  <2>3. a + 1 \in 1..(a + 1) /\ \A k \in 1..a : k \in 1..(a + 1)
    OBVIOUS
  <2> QED
    BY <1>2, <1>8, <2>1, <2>2, <2>3
<1>13. Back(down, clientMsg, g, a, b)
  BY <1>7, <1>11 DEF FrontendInv, DownRight
<1>14. PICK m : m = Gives(x)
  OBVIOUS
<1>15. v = 8 => Back(down \o FlattenSeq(y), clientMsg, g2, a + 1, b)
  <2>1. Begun(ResponseFormat, m, v, y) /\ Longer(g, a, g2, m)
    BY <1>6, <1>12, <1>14 DEF Longer
  <2>2. PICK c, msg : c = down /\ msg = clientMsg
    OBVIOUS
  <2>3. v = 8 => Back(c \o FlattenSeq(y), msg, g2, a + 1, b)
    BY <1>13, <2>1, <2>2, BackGrows
  <2> QED
    BY <2>2, <2>3
<1>16. DownRight'
  BY <1>1, <1>5, <1>6, <1>7, <1>8, <1>11, <1>15 DEF DownRight
<1>17. Kept' /\ UpRight' /\ BeforeCut' /\ PastCut'
  BY <1>1 DEF FrontendInv, Kept, UpRight, Arrives, BeforeCut, PastCut
<1> QED
  BY <1>1, <1>10, <1>16, <1>17 DEF FrontendInv

LEMMA ClientReadsKeeps ==
  ASSUME FrontendInv, ClientReads PROVE FrontendInv'
<1>1. PICK f : f = Found(ResponseFormat, clientMsg, down)
  OBVIOUS
<1>2. /\ ~Whole(ResponseFormat, clientMsg) /\ f.state = "ok"
      /\ clientMsg' = With(clientMsg, Field(ResponseFormat, clientMsg)[1], f.val)
      /\ down' = SubSeq(down, f.size + 1, Len(down))
      /\ UNCHANGED <<up, server, serverMsg, client, cut, behind, misread,
                     written, dispatched, answered, read>>
  BY <1>1 DEF ClientReads, tearVars, histVars
<1>3. Kept' /\ UpRight' /\ BeforeCut' /\ PastCut' /\ ReadKept'
  BY <1>2 DEF FrontendInv, Kept, UpRight, Arrives, BeforeCut, PastCut, ReadKept
<1>4. PICK a, b \in Nat : a = Len(answered) /\ b = Len(read)
  BY LenProperties DEF FrontendInv, ReadKept
<1>5. PICK g : g = Answers(answered, dispatched)
  OBVIOUS
<1>6. Back(down, clientMsg, g, a, b)
  BY <1>4, <1>5 DEF FrontendInv, DownRight
<1>7. Back(SubSeq(down, f.size + 1, Len(down)),
           With(clientMsg, Field(ResponseFormat, clientMsg)[1], f.val), g, a, b)
  BY <1>1, <1>2, <1>6, BackReads
<1>8. DownRight'
  BY <1>2, <1>4, <1>5, <1>7 DEF DownRight
<1> QED
  BY <1>2, <1>3, <1>8 DEF FrontendInv

LEMMA GotResponseKeeps ==
  ASSUME Shards, FrontendInv, GotResponse PROVE FrontendInv'
<1>1. /\ Whole(ResponseFormat, clientMsg) /\ read' = Append(read, clientMsg)
      /\ clientMsg' = NoFields
      /\ UNCHANGED <<up, down, server, serverMsg, client, cut, behind, misread,
                     written, dispatched, answered>>
  BY DEF GotResponse, tearVars
<1>2. PICK a, b \in Nat : a = Len(answered) /\ b = Len(read)
  BY LenProperties DEF FrontendInv, ReadKept
<1>3. PICK g : g = Answers(answered, dispatched)
  OBVIOUS
<1>4. Back(down, clientMsg, g, a, b)
  BY <1>2, <1>3 DEF FrontendInv, DownRight
<1>5. /\ b + 1 <= a /\ clientMsg = Part(ResponseFormat, g[b + 1], 8)
      /\ Back(down, NoFields, g, a, b + 1)
  BY <1>1, <1>4, BackTakes
<1>6. b + 1 \in 1..a /\ answered[b + 1] \in 1..Len(dispatched)
  BY <1>2, <1>5 DEF FrontendInv, ReadKept
<1>7. PICK x \in Handled : x = dispatched[answered[b + 1]]
  BY <1>6, ElementOfSeq DEF FrontendInv, Kept
<1>8. g[b + 1] = Gives(x)
  BY <1>2, <1>3, <1>6, <1>7 DEF Answers
<1>9. clientMsg = Gives(x)
  BY <1>5, <1>7, <1>8, HandledIs
<1>10. /\ read' \in Seq({Gives(z) : z \in Handled}) /\ Len(read') = b + 1 /\ read'[b + 1] = Gives(x)
       /\ \A j \in 1..b : read'[j] = read[j]
  <2>1. Gives(x) \in {Gives(z) : z \in Handled}
    OBVIOUS
  <2> QED
    BY <1>1, <1>2, <1>9, <2>1, AppendProperties DEF FrontendInv, ReadKept
<1>11. \A j \in 1..(b + 1) : read'[j] = Gives(dispatched[answered[j]])
  <2> TAKE j \in 1..(b + 1)
  <2>1. CASE j \in 1..b
    BY <1>2, <1>10, <2>1 DEF FrontendInv, ReadKept
  <2>2. CASE j = b + 1
    BY <1>7, <1>10, <2>2
  <2> QED
    BY <2>1, <2>2
<1>12. ReadKept'
  BY <1>1, <1>2, <1>5, <1>10, <1>11 DEF FrontendInv, ReadKept
<1>13. DownRight'
  BY <1>1, <1>2, <1>3, <1>5, <1>10 DEF DownRight
<1>14. Kept' /\ UpRight' /\ BeforeCut' /\ PastCut'
  BY <1>1 DEF FrontendInv, Kept, UpRight, Arrives, BeforeCut, PastCut
<1> QED
  BY <1>1, <1>12, <1>13, <1>14 DEF FrontendInv

LEMMA FrontendStep ==
  ASSUME Shards, FrontendInv, [Next]_vars PROVE FrontendInv'
<1>1. CASE ServerCloses
  <2>1. /\ server' = "closed"
        /\ UNCHANGED <<up, down, serverMsg, client, clientMsg, cut, behind, misread,
                       written, dispatched, answered, read>>
    BY <1>1 DEF ServerCloses, tearVars, histVars
  <2> QED
    BY <2>1 DEF FrontendInv, Kept, ReadKept, UpRight, BeforeCut, PastCut, DownRight
<1>2. CASE WriteBehind
  <2>1. /\ client = "open" /\ cut /\ behind' = "sent"
        /\ UNCHANGED <<up, down, server, serverMsg, client, clientMsg, cut, misread,
                       written, dispatched, answered, read>>
    BY <1>2 DEF WriteBehind, histVars
  <2>2. BeforeCut' /\ PastCut'
    BY <2>1 DEF FrontendInv, BeforeCut, PastCut
  <2> QED
    BY <2>1, <2>2 DEF FrontendInv, Kept, ReadKept, UpRight, Arrives, DownRight
<1>3. CASE UNCHANGED vars
  BY <1>3 DEF vars, tearVars, histVars, FrontendInv, Kept, ReadKept, UpRight, BeforeCut, PastCut,
              DownRight, Arrives
<1> QED
  BY <1>1, <1>2, <1>3, SendKeeps, TimeOutKeeps, ClientClosesKeeps, ClientReadsKeeps,
     GotResponseKeeps, ServerReadsKeeps, GotHelloKeeps, DispatchKeeps, ServerMisreadsKeeps,
     AnswerKeeps DEF Next

(* The server handles what the client wrote whole, in that order, each     *)
(* request with what it said, and nothing else, whenever the client left   *)
(* and wherever a request was cut; when the client wrote on behind one     *)
(* that was cut, what it had written whole before still comes first.  That *)
(* is for any number of requests, with fields of any values and lengths.   *)
(* Every request has a shard, as those of NewRequest and NewRequestDynMap  *)
(* have.                                                                   *)
THEOREM DispatchCorrect ==
  ASSUME Shards PROVE Spec => []DispatchedAsWritten
<1>1. Init => FrontendInv
  BY FrontendInitially
<1>2. FrontendInv /\ [Next]_vars => FrontendInv'
  BY FrontendStep
<1>3. FrontendInv => DispatchedAsWritten
  <2> SUFFICES ASSUME FrontendInv PROVE DispatchedAsWritten
    OBVIOUS
  <2>1. DOMAIN dispatched = 1..Len(dispatched)
    BY LenProperties DEF FrontendInv, Kept
  <2>2. \A i \in 1..Len(dispatched) : i <= Len(written) => dispatched[i].req = Sent(written[i])
    BY DEF FrontendInv, Kept
  <2>3. ASSUME Len(dispatched) > Len(written) PROVE behind # "nothing"
    <3>1. PICK t, d \in Nat : t = Len(written) /\ d = Len(dispatched)
      BY LenProperties DEF FrontendInv, Kept
    <3>2. ~misread => d <= t
      BY <3>1 DEF FrontendInv, Kept
    <3>3. misread
      BY <2>3, <3>1, <3>2
    <3> QED
      BY <3>3 DEF FrontendInv, PastCut
  <2> QED
    BY <2>1, <2>2, <2>3 DEF DispatchedAsWritten
<1> QED
  BY <1>1, <1>2, <1>3, PTL DEF Spec

(* The client reads the responses as the handlers gave them, in the order  *)
(* of the answers, whatever is cut, lost or closed.                        *)
THEOREM ReadCorrect ==
  ASSUME Shards PROVE Spec => []ReadAsAnswered
<1>1. Init => FrontendInv
  BY FrontendInitially
<1>2. FrontendInv /\ [Next]_vars => FrontendInv'
  BY FrontendStep
<1>3. FrontendInv => ReadAsAnswered
  <2> SUFFICES ASSUME FrontendInv, NEW j \in DOMAIN read
               PROVE  LET r == Response(answered[j])
                      IN  read[j] = Sent(IF r.contentEncoding = ""
                                         THEN [r EXCEPT !.content = <<>>] ELSE r)
    BY DEF ReadAsAnswered
  <2>1. j \in 1..Len(read)
    BY LenProperties DEF FrontendInv, ReadKept
  <2>2. read[j] = Gives(dispatched[answered[j]])
    BY <2>1 DEF FrontendInv, ReadKept
  <2>3. PICK r : r = Response(answered[j])
    OBVIOUS
  <2>4. Given(dispatched[answered[j]]) = r
    BY <2>3 DEF Given, Response
  <2>5. read[j] = Sent(Emptied(r))
    BY <2>2, <2>4 DEF Gives
  <2> QED
    BY <2>3, <2>5 DEF Emptied
<1> QED
  BY <1>1, <1>2, <1>3, PTL DEF Spec
=============================================================================
