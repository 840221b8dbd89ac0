-------------------------- MODULE BufferWriteProof --------------------------
(***************************************************************************)
(* Theorems about the write side of Buffer, for every mtu, header and      *)
(* message: where each byte is, what the sizes are, and that what Finish,  *)
(* Split and Merge make can be parsed.                                     *)
(***************************************************************************)
EXTENDS BufferWrite, WellFoundedInduction, SequenceTheorems, TLAPS

----------------------------------------------------------------------------
(* Induction over the natural numbers, as facts about sets *)

\* A set of numbers that is not empty has a least one.
LEMMA LeastNumber ==
    ASSUME NEW S, S \subseteq Nat, S # {}
    PROVE  \E n \in S : \A k \in S : n <= k
<1> DEFINE Before == {p \in Nat \X Nat : p[1] < p[2]}
<1>1. IsWellFoundedOn(Before, Nat)
  BY NatLessThanWellFounded DEF OpToRel
<1>2. PICK n \in S : \A k \in S : <<k, n>> \notin Before
  <2> HIDE DEF Before
  <2> QED
    BY <1>1, WFMin
<1>3. ASSUME NEW k \in S PROVE n <= k
  <2>1. k \in Nat /\ n \in Nat
    OBVIOUS
  <2>2. k < n => <<k, n>> \in Before
    BY <2>1
  <2> HIDE DEF Before
  <2> QED
    BY <1>2, <2>1, <2>2
<1> QED
  BY <1>3

\* What holds of 0 and passes from each number below n to the next holds up to n.
LEMMA Throughout ==
    ASSUME NEW n \in Nat, NEW S, 0 \in S, \A k \in 0..(n - 1) : k \in S => k + 1 \in S
    PROVE  \A k \in 0..n : k \in S
<1> DEFINE Missing == {k \in 0..n : k \notin S}
<1> SUFFICES ASSUME Missing # {} PROVE FALSE
  OBVIOUS
<1>1. PICK k \in Missing : \A l \in Missing : k <= l
  <2>1. Missing \subseteq Nat
    OBVIOUS
  <2> HIDE DEF Missing
  <2> QED
    BY <2>1, LeastNumber
<1>2. k \in 1..n /\ k - 1 \in 0..(n - 1) /\ k - 1 + 1 = k /\ ~(k <= k - 1)
  <2>1. k \in 0..n /\ k # 0
    OBVIOUS
  <2> QED
    BY <2>1
<1>3. k - 1 \notin S
  BY <1>2
<1>4. k - 1 \in Missing
  BY <1>2, <1>3
<1> QED
  BY <1>1, <1>2, <1>4

----------------------------------------------------------------------------
(* Folds *)

\* Appending xs to b byte by byte: the Buffer after each of them.
LEMMA PutAllUnfolds ==
    ASSUME NEW S, NEW b, NEW xs \in Seq(S)
    PROVE  \E r : /\ r[0] = b /\ r[Len(xs)] = PutAll(b, xs)
                  /\ \A k \in 1..Len(xs) : r[k] = Put(r[k - 1], xs[k])
<1>1. Len(xs) \in Nat /\ DOMAIN xs = 1..Len(xs)
  OBVIOUS
<1> DEFINE Step(f, s) == IF s = {} THEN b ELSE Put(f[s \ {Max(s)}], xs[Max(s)])
           Folds(f, k) == f = [s \in SUBSET (1..k) |-> Step(f, s)]
<1>2. ASSUME NEW k \in Nat, NEW s \in SUBSET (1..(k + 1)), k + 1 \in s
      PROVE  Max(s) = k + 1
  <2>1. \A y \in s : k + 1 >= y
    OBVIOUS
  <2> DEFINE m == CHOOSE x \in s : \A y \in s : x >= y
  <2>2. m \in s /\ \A y \in s : m >= y
    BY <1>2, <2>1
  <2>3. Max(s) = m
    BY DEF Max
  <2> HIDE DEF m
  <2>4. m \in 1..(k + 1) /\ m >= k + 1
    BY <1>2, <2>2
  <2>5. m = k + 1
    BY <2>4
  <2> QED
    BY <2>3, <2>5
<1>3. ASSUME NEW k \in Nat, NEW f, Folds(f, k) PROVE \E g : Folds(g, k + 1)
  <2> DEFINE g == [s \in SUBSET (1..(k + 1)) |-> IF k + 1 \in s THEN Put(f[s \ {k + 1}], xs[k + 1])
                                                                ELSE f[s]]
  <2>1. ASSUME NEW s \in SUBSET (1..(k + 1)) PROVE g[s] = Step(g, s)
    <3>1. CASE k + 1 \in s
      <4>1. Max(s) = k + 1 /\ s # {}
        BY <1>2, <3>1
      <4>2. s \ {k + 1} \in SUBSET (1..(k + 1)) /\ k + 1 \notin s \ {k + 1}
        OBVIOUS
      <4>3. g[s \ {k + 1}] = f[s \ {k + 1}]
        BY <4>2
      <4>4. g[s] = Put(f[s \ {k + 1}], xs[k + 1])
        BY <3>1
      <4> HIDE DEF g
      <4> QED
        BY <4>1, <4>3, <4>4
    <3>2. CASE k + 1 \notin s
      <4>1. s \in SUBSET (1..k)
        <5>1. \A y \in s : y \in 1..(k + 1) /\ y # k + 1
          BY <3>2
        <5>2. \A y \in 1..(k + 1) : y # k + 1 => y \in 1..k
          OBVIOUS
        <5> QED
          BY <5>1, <5>2
      <4>2. f[s] = Step(f, s)
        BY <1>3, <4>1
      <4>3. \A x : s \ {x} \in SUBSET (1..(k + 1)) /\ k + 1 \notin s \ {x}
        BY <3>2
      <4>4. \A x : g[s \ {x}] = f[s \ {x}]
        BY <4>3
      <4>5. g[s] = f[s]
        BY <3>2
      <4> HIDE DEF g
      <4> QED
        BY <4>2, <4>4, <4>5
    <3> QED
      BY <3>1, <3>2
  <2>2. g = [s \in SUBSET (1..(k + 1)) |-> g[s]]
    OBVIOUS
  <2> HIDE DEF g
  <2>3. Folds(g, k + 1)
    BY <2>1, <2>2
  <2> QED
    BY <2>3
<1>4. \E f : Folds(f, 0)
  <2> DEFINE f == [s \in SUBSET (1..0) |-> b]
  <2>1. \A s \in SUBSET (1..0) : s = {}
    OBVIOUS
  <2>2. Folds(f, 0)
    BY <2>1
  <2> QED
    BY <2>2
<1>5. PICK f : Folds(f, Len(xs))
  <2> DEFINE Done == {k \in Nat : \E g : Folds(g, k)}
  <2>1. 0 \in Done
    BY <1>4
  <2>2. \A k \in 0..(Len(xs) - 1) : k \in Done => k + 1 \in Done
    <3> HIDE DEF Folds
    <3> QED
      BY <1>3
  <2>3. Len(xs) \in 0..Len(xs)
    BY <1>1
  <2>4. Len(xs) \in Done
    <3> HIDE DEF Done
    <3> QED
      BY <1>1, <2>1, <2>2, <2>3, Throughout
  <2> QED
    BY <2>4
<1> DEFINE h == CHOOSE g : Folds(g, Len(xs))
<1>6. PutAll(b, xs) = h[DOMAIN xs]
  BY <1>1 DEF PutAll, FoldLeft, MapThenFoldSet
<1>7. Folds(h, Len(xs))
  <2> HIDE DEF Folds
  <2> QED
    BY <1>5
<1> HIDE DEF h
<1> DEFINE r == [k \in 0..Len(xs) |-> h[1..k]]
<1>8. r[0] = b
  <2>1. 1..0 = {} /\ {} \in SUBSET (1..Len(xs)) /\ 0 \in 0..Len(xs)
    BY <1>1
  <2>2. h[{}] = b
    BY <1>7, <2>1
  <2> QED
    BY <2>1, <2>2
<1>9. ASSUME NEW k \in 1..Len(xs) PROVE r[k] = Put(r[k - 1], xs[k])
  <2>1. /\ k - 1 \in Nat /\ k - 1 + 1 = k /\ k \in 1..k /\ 1..k \in SUBSET (1..Len(xs))
        /\ (1..k) \ {k} = 1..(k - 1) /\ k \in 0..Len(xs) /\ k - 1 \in 0..Len(xs)
    BY <1>1
  <2>2. Max(1..k) = k
    BY <1>2, <2>1
  <2>3. h[1..k] = Put(h[(1..k) \ {Max(1..k)}], xs[Max(1..k)])
    BY <1>7, <2>1
  <2>4. h[1..k] = Put(h[1..(k - 1)], xs[k])
    BY <2>1, <2>2, <2>3
  <2> QED
    BY <2>1, <2>4
<1>10. r[Len(xs)] = PutAll(b, xs)
  BY <1>1, <1>6
<1> HIDE DEF r
<1> QED
  BY <1>8, <1>9, <1>10

\* The payloads put together: one after the other.
LEMMA FlattenUnfolds ==
    ASSUME NEW ss, Len(ss) \in Nat \ {0}
    PROVE  \E f : /\ f[1] = ss[1] /\ f[Len(ss)] = FlattenSeq(ss)
                  /\ \A i \in 2..Len(ss) : f[i] = f[i - 1] \o ss[i]
<1> PICK n \in Nat \ {0} : n = Len(ss)
  OBVIOUS
<1> DEFINE Joins(f, k) == f = [i \in 1..k |-> IF i = 1 THEN ss[i] ELSE f[i - 1] \o ss[i]]
<1>1. ASSUME NEW k \in Nat, NEW f, Joins(f, k) PROVE \E g : Joins(g, k + 1)
  <2> DEFINE g == [i \in 1..(k + 1) |-> IF i = 1 THEN ss[1] ELSE f[i - 1] \o ss[i]]
  <2>1. ASSUME NEW i \in 1..(k + 1), i # 1 PROVE g[i - 1] = f[i - 1]
    <3>1. i - 1 \in 1..k /\ i - 1 \in 1..(k + 1)
      BY <2>1
    <3> QED
      BY <1>1, <3>1
  <2>2. g = [i \in 1..(k + 1) |-> IF i = 1 THEN ss[i] ELSE g[i - 1] \o ss[i]]
    BY <2>1
  <2> QED
    BY <2>2
<1>2. \E f : Joins(f, 0)
  <2>1. Joins(<<>>, 0)
    OBVIOUS
  <2> QED
    BY <2>1
<1>3. PICK f : Joins(f, n)
  <2> DEFINE Done == {k \in Nat : \E g : Joins(g, k)}
  <2>1. 0 \in Done
    BY <1>2
  <2>2. \A k \in 0..(n - 1) : k \in Done => k + 1 \in Done
    <3> HIDE DEF Joins
    <3> QED
      BY <1>1
  <2>3. n \in Done
    <3> HIDE DEF Done
    <3> QED
      BY <2>1, <2>2, Throughout
  <2> QED
    BY <2>3
<1> DEFINE h == CHOOSE g : Joins(g, n)
<1>4. FlattenSeq(ss) = h[n]
  BY DEF FlattenSeq
<1>5. Joins(h, n)
  <2> HIDE DEF Joins
  <2> QED
    BY <1>3
<1> HIDE DEF h
<1>6. ASSUME NEW i \in 1..n PROVE h[i] = IF i = 1 THEN ss[i] ELSE h[i - 1] \o ss[i]
  <2> DEFINE g == [j \in 1..n |-> IF j = 1 THEN ss[j] ELSE h[j - 1] \o ss[j]]
  <2>1. h = g
    BY <1>5
  <2>2. g[i] = IF i = 1 THEN ss[i] ELSE h[i - 1] \o ss[i]
    OBVIOUS
  <2> HIDE DEF g
  <2> QED
    BY <2>1, <2>2
<1>7. h[1] = ss[1]
  BY <1>6
<1>8. ASSUME NEW i \in 2..n PROVE h[i] = h[i - 1] \o ss[i]
  <2>1. i \in 1..n /\ i # 1
    OBVIOUS
  <2> QED
    BY <1>6, <2>1
<1> QED
  BY <1>4, <1>7, <1>8

----------------------------------------------------------------------------
(* Where the bytes of a message are *)

\* Byte k of a message, in fragments with room for c bytes: the fragment, from 0, and
\* its place in there.
Row(k, c) == (k - 1) \div c
Col(k, c) == (k - 1) % c

LEMMA RowIs ==
    ASSUME NEW k \in Nat \ {0}, NEW c \in Nat \ {0}
    PROVE  Row(k, c) \in Nat /\ Col(k, c) \in 0..(c - 1) /\ k - 1 = c * Row(k, c) + Col(k, c)
BY DEF Row, Col

LEMMA OneRow ==
    ASSUME NEW k \in Nat \ {0}, NEW c \in Nat \ {0}, NEW q \in Nat, NEW r \in 0..(c - 1),
           k - 1 = c * q + r
    PROVE  Row(k, c) = q /\ Col(k, c) = r
BY DEF Row, Col

LEMMA RowOfFirst ==
    ASSUME NEW c \in Nat \ {0}
    PROVE  Row(1, c) = 0 /\ Col(1, c) = 0
BY DEF Row, Col

\* The next byte is behind this one, or first in the next fragment.
LEMMA RowOfNext ==
    ASSUME NEW k \in Nat \ {0}, NEW c \in Nat \ {0}
    PROVE  IF Col(k, c) = c - 1 THEN Row(k + 1, c) = Row(k, c) + 1 /\ Col(k + 1, c) = 0
                                ELSE Row(k + 1, c) = Row(k, c) /\ Col(k + 1, c) = Col(k, c) + 1
<1> PICK q \in Nat, r \in 0..(c - 1) : q = Row(k, c) /\ r = Col(k, c) /\ k - 1 = c * q + r
  BY RowIs
<1>1. CASE r = c - 1
  <2>1. c * (q + 1) = c * q + c
    OBVIOUS
  <2>2. q + 1 \in Nat /\ 0 \in 0..(c - 1) /\ k + 1 \in Nat \ {0}
    OBVIOUS
  <2>3. PICK p, t, a : p = c * q /\ t = q + 1 /\ a = k + 1
    OBVIOUS
  <2>4. a - 1 = p + c + 0
    <3>1. p \in Int /\ a = k + 1 /\ k - 1 = p + r
      BY <2>3
    <3> QED
      BY <1>1, <3>1
  <2>5. a - 1 = c * t + 0
    BY <2>1, <2>3, <2>4
  <2>6. a \in Nat \ {0} /\ t \in Nat /\ 0 \in 0..(c - 1)
    BY <2>2, <2>3
  <2>7. Row(a, c) = t /\ Col(a, c) = 0
    BY <2>5, <2>6, OneRow
  <2> QED
    BY <1>1, <2>3, <2>7
<1>2. CASE r # c - 1
  <2>1. k + 1 - 1 = c * q + (r + 1) /\ r + 1 \in 0..(c - 1) /\ k + 1 \in Nat \ {0}
    BY <1>2
  <2> QED
    BY SMTT(30), <1>2, <2>1, OneRow
<1> QED
  BY <1>1, <1>2

\* Two bytes have different places, and a later byte is not in an earlier fragment.
LEMMA RowsDiffer ==
    ASSUME NEW k \in Nat \ {0}, NEW l \in Nat \ {0}, NEW c \in Nat \ {0}, k < l
    PROVE  Row(k, c) < Row(l, c) \/ (Row(k, c) = Row(l, c) /\ Col(l, c) - Col(k, c) = l - k)
<1> PICK q \in Nat, r \in 0..(c - 1) : q = Row(k, c) /\ r = Col(k, c) /\ k - 1 = c * q + r
  BY RowIs
<1> PICK p \in Nat, t \in 0..(c - 1) : p = Row(l, c) /\ t = Col(l, c) /\ l - 1 = c * p + t
  BY RowIs
<1>1. CASE p < q
  <2>1. PICK d \in Nat : q = p + 1 + d
    <3>1. q - p - 1 \in Nat /\ q = p + 1 + (q - p - 1)
      BY <1>1
    <3> QED
      BY <3>1
  <2>2. c * q = c * p + c + c * d /\ c * d >= 0
    BY <2>1
  <2> QED
    BY <2>2
<1>2. CASE p = q
  BY <1>2
<1>3. CASE q < p
  BY <1>3
<1> QED
  BY <1>1, <1>2, <1>3

----------------------------------------------------------------------------
(* One byte of Append *)

Checksums == [at : Int, over : {<<>>} \cup (Int \X Int \X Int \X Seq(Cells))]
Fragment  == [data : Seq(Cells), fid : Int, sizet : Int, sizea : Int, payload : Seq(Cells),
              checksum : Checksums]
Buffers   == [mtu : Nat \ {0}, heads : Nat, checksum : Nat, sizet : Int, sizea : Int,
              frags : Seq(Fragment), windex : Nat, woffset : Nat, size : Nat]

\* The fields of the Buffer that writing leaves alone.
SameLayout(p, b) == /\ p.mtu = b.mtu /\ p.heads = b.heads /\ p.checksum = b.checksum
                    /\ p.sizet = b.sizet /\ p.sizea = b.sizea

\* A fragment with one byte of it written.
Written(f, j, x) == [f EXCEPT !.data = [f.data EXCEPT ![j] = x]]

LEMMA WrittenIs ==
    ASSUME NEW f \in Fragment, NEW j \in 1..Len(f.data), NEW x \in Cells
    PROVE  LET g == Written(f, j, x)
           IN  /\ g \in Fragment /\ Len(g.data) = Len(f.data)
               /\ \A k \in 1..Len(f.data) : g.data[k] = IF k = j THEN x ELSE f.data[k]
               /\ g.fid = f.fid /\ g.sizet = f.sizet /\ g.sizea = f.sizea
               /\ g.payload = f.payload /\ g.checksum = f.checksum
<1> DEFINE d == [f.data EXCEPT ![j] = x]
<1>1. f.data \in Seq(Cells)
  BY DEF Fragment
<1>2. d \in Seq(Cells) /\ Len(d) = Len(f.data)
  BY <1>1, ExceptSeq
<1>3. \A k \in 1..Len(f.data) : d[k] = IF k = j THEN x ELSE f.data[k]
  BY <1>1
<1> HIDE DEF d
<1>4. Written(f, j, x) = [f EXCEPT !.data = d]
  BY DEF Written, d
<1> QED
  BY <1>2, <1>3, <1>4 DEF Fragment

\* A fragment that was appended, and then written to.
LEMMA AppendedThenSet ==
    ASSUME NEW T, NEW s \in Seq(T), NEW x, NEW y
    PROVE  [Append(s, x) EXCEPT ![Len(s) + 1] = y] = Append(s, y)
<1> DEFINE U == T \cup {x, y}
<1> PICK n \in Nat : n = Len(s)
  OBVIOUS
<1>1. s \in Seq(U) /\ x \in U /\ y \in U
  OBVIOUS
<1> DEFINE a == Append(s, x)
           c == Append(s, y)
           d == [a EXCEPT ![n + 1] = y]
<1>2. /\ a \in Seq(U) /\ Len(a) = n + 1 /\ a[n + 1] = x /\ \A i \in 1..n : a[i] = s[i]
      /\ c \in Seq(U) /\ Len(c) = n + 1 /\ c[n + 1] = y /\ \A i \in 1..n : c[i] = s[i]
  BY <1>1, AppendProperties
<1> HIDE DEF a, c
<1>3. d \in Seq(U) /\ Len(d) = n + 1 /\ \A i \in 1..(n + 1) : d[i] = IF i = n + 1 THEN y ELSE a[i]
  <2>1. n + 1 \in 1..Len(a)
    BY <1>2
  <2>2. d \in Seq(U) /\ Len(d) = Len(a)
    BY <1>1, <1>2, <2>1, ExceptSeq
  <2>3. \A i \in 1..(n + 1) : d[i] = IF i = n + 1 THEN y ELSE a[i]
    BY <1>2
  <2> QED
    BY <1>2, <2>2, <2>3
<1> HIDE DEF d, U
<1>4. \A i \in 1..(n + 1) : d[i] = c[i]
  BY <1>2, <1>3
<1>5. d = c
  BY <1>2, <1>3, <1>4, SeqEqual
<1> QED
  BY <1>5 DEF a, c, d

\* What the code does with a byte: it goes behind the last one,
LEMMA PutBehind ==
    ASSUME NEW b \in Buffers, NEW x, b.windex < Len(b.frags),
           b.woffset # Len(b.frags[b.windex + 1].data) - b.checksum
    PROVE  LET p == Put(b, x)
           IN  /\ p.frags = [b.frags EXCEPT ![b.windex + 1] = Written(@, b.woffset + 1, x)]
               /\ p.windex = b.windex /\ p.woffset = b.woffset + 1 /\ p.size = b.size + 1
               /\ SameLayout(p, b) /\ DOMAIN p = DOMAIN b
<1>1. b.windex # Len(b.frags) /\ b.windex + 1 \in 1..Len(b.frags) /\ DOMAIN b.frags = 1..Len(b.frags)
  BY DEF Buffers
<1> DEFINE at == [b EXCEPT !.windex = b.windex, !.woffset = b.woffset]
<1>2. at = b
  BY DEF Buffers
<1> QED
  BY <1>1, <1>2 DEF Put, Room, Frag, Written, SameLayout, Buffers

\* into the next fragment, which is there,
LEMMA PutOn ==
    ASSUME NEW b \in Buffers, NEW x, b.windex + 1 < Len(b.frags),
           b.woffset = Len(b.frags[b.windex + 1].data) - b.checksum
    PROVE  LET p == Put(b, x)
           IN  /\ p.frags = [b.frags EXCEPT ![b.windex + 2] = Written(@, 1, x)]
               /\ p.windex = b.windex + 1 /\ p.woffset = 1 /\ p.size = b.size + 1
               /\ SameLayout(p, b) /\ DOMAIN p = DOMAIN b
<1>1. /\ b.windex + 1 # Len(b.frags) /\ b.windex < Len(b.frags) /\ b.windex + 1 + 1 = b.windex + 2
      /\ b.windex + 2 \in 1..Len(b.frags) /\ DOMAIN b.frags = 1..Len(b.frags)
  BY SMTT(30) DEF Buffers
<1> DEFINE at == [b EXCEPT !.windex = b.windex + 1, !.woffset = 0]
<1>2. /\ at.windex = b.windex + 1 /\ at.woffset = 0 /\ at.frags = b.frags /\ at.size = b.size
      /\ SameLayout(at, b) /\ DOMAIN at = DOMAIN b
      /\ DOMAIN b = {"mtu", "heads", "checksum", "sizet", "sizea", "frags", "windex", "woffset", "size"}
  BY DEF Buffers, SameLayout
<1> DEFINE full == b.windex < Len(b.frags) /\ b.woffset = Room(b, Frag(b, b.windex))
           before == [b EXCEPT !.windex = IF full THEN @ + 1 ELSE @, !.woffset = IF full THEN 0 ELSE @]
           fresh == before.windex = Len(before.frags)
           off == IF fresh THEN before.woffset + before.heads ELSE before.woffset
           frags == IF fresh THEN Append(before.frags, NewFragment(before)) ELSE before.frags
<1>3. Put(b, x) = [before EXCEPT !.frags = [frags EXCEPT ![before.windex + 1].data[off + 1] = x],
                                 !.woffset = off + 1, !.size = @ + 1]
  BY DEF Put
<1>4. full
  BY <1>1 DEF Room, Frag
<1>5. before = at
  BY <1>4
<1> HIDE DEF at, full, before
<1>6. ~fresh /\ off = 0 /\ frags = b.frags /\ before.windex + 1 = b.windex + 2 /\ off + 1 = 1
  BY <1>1, <1>2, <1>5
<1> HIDE DEF fresh, off, frags
<1>7. Put(b, x) = [at EXCEPT !.frags = [b.frags EXCEPT ![b.windex + 2].data[1] = x],
                             !.woffset = 1, !.size = @ + 1]
  BY <1>3, <1>5, <1>6
<1> QED
  BY <1>1, <1>2, <1>7 DEF Written, SameLayout

\* or into a new one.
Fresh(b, w) == NewFragment([b EXCEPT !.windex = w])

LEMMA PutFirst ==
    ASSUME NEW b \in Buffers, NEW x, b.windex = Len(b.frags)
    PROVE  LET p == Put(b, x)
           IN  /\ p.frags = Append(b.frags, Written(Fresh(b, b.windex), b.woffset + b.heads + 1, x))
               /\ p.windex = b.windex /\ p.woffset = b.woffset + b.heads + 1 /\ p.size = b.size + 1
               /\ SameLayout(p, b) /\ DOMAIN p = DOMAIN b
<1>1. ~(b.windex < Len(b.frags))
  BY DEF Buffers
<1> DEFINE at == [b EXCEPT !.windex = b.windex, !.woffset = b.woffset]
<1>2. at = b /\ [b EXCEPT !.windex = b.windex] = b
  BY DEF Buffers
<1> DEFINE new == NewFragment(b)
           longer == Append(b.frags, new)
           n == Len(b.frags) + 1
<1>3. [longer EXCEPT ![n] = Written(new, b.woffset + b.heads + 1, x)]
        = Append(b.frags, Written(new, b.woffset + b.heads + 1, x))
  BY AppendedThenSet DEF Buffers
<1>4. longer[n] = new
  BY DEF Buffers
<1>5. [longer EXCEPT ![n].data[b.woffset + b.heads + 1] = x]
        = Append(b.frags, Written(Fresh(b, b.windex), b.woffset + b.heads + 1, x))
  BY <1>2, <1>3, <1>4 DEF Written, Fresh
<1> HIDE DEF longer, at
<1>6. Put(b, x) = [b EXCEPT !.frags = [longer EXCEPT ![n].data[b.woffset + b.heads + 1] = x],
                            !.woffset = b.woffset + b.heads + 1, !.size = @ + 1]
  BY <1>1, <1>2 DEF Put, longer, at
<1> HIDE DEF n, new
<1>7. DOMAIN b = {"mtu", "heads", "checksum", "sizet", "sizea", "frags", "windex", "woffset", "size"}
  BY DEF Buffers
<1> QED
  BY <1>5, <1>6, <1>7 DEF SameLayout

LEMMA PutNew ==
    ASSUME NEW b \in Buffers, NEW x, b.windex + 1 = Len(b.frags),
           b.woffset = Len(b.frags[b.windex + 1].data) - b.checksum
    PROVE  LET p == Put(b, x)
           IN  /\ p.frags = Append(b.frags, Written(Fresh(b, b.windex + 1), b.heads + 1, x))
               /\ p.windex = b.windex + 1 /\ p.woffset = b.heads + 1 /\ p.size = b.size + 1
               /\ SameLayout(p, b) /\ DOMAIN p = DOMAIN b
<1>1. b.windex < Len(b.frags) /\ b.heads \in Nat /\ 0 + b.heads = b.heads
  BY DEF Buffers
<1> DEFINE at == [b EXCEPT !.windex = b.windex + 1, !.woffset = 0]
<1>2. /\ at.windex = b.windex + 1 /\ at.woffset = 0 /\ at.frags = b.frags /\ at.size = b.size
      /\ SameLayout(at, b) /\ DOMAIN at = DOMAIN b
      /\ DOMAIN b = {"mtu", "heads", "checksum", "sizet", "sizea", "frags", "windex", "woffset", "size"}
  BY DEF Buffers, SameLayout
<1>3. NewFragment(at) = Fresh(b, b.windex + 1)
  BY DEF NewFragment, Fresh, Buffers
<1> DEFINE full == b.windex < Len(b.frags) /\ b.woffset = Room(b, Frag(b, b.windex))
           before == [b EXCEPT !.windex = IF full THEN @ + 1 ELSE @, !.woffset = IF full THEN 0 ELSE @]
           fresh == before.windex = Len(before.frags)
           off == IF fresh THEN before.woffset + before.heads ELSE before.woffset
           frags == IF fresh THEN Append(before.frags, NewFragment(before)) ELSE before.frags
<1>4. Put(b, x) = [before EXCEPT !.frags = [frags EXCEPT ![before.windex + 1].data[off + 1] = x],
                                 !.woffset = off + 1, !.size = @ + 1]
  BY DEF Put
<1>5. full
  BY <1>1 DEF Room, Frag
<1>6. before = at
  BY <1>5
<1> HIDE DEF at, full, before
<1>7. /\ fresh /\ off = b.heads /\ before.windex + 1 = Len(b.frags) + 1 /\ off + 1 = b.heads + 1
      /\ frags = Append(b.frags, Fresh(b, b.windex + 1))
  BY <1>1, <1>2, <1>3, <1>6 DEF SameLayout
<1> HIDE DEF fresh, off, frags
<1> PICK new, n : new = Fresh(b, b.windex + 1) /\ n = Len(b.frags) + 1
  OBVIOUS
<1>8. Append(b.frags, new)[n] = new
  BY DEF Buffers
<1>9. [frags EXCEPT ![before.windex + 1].data[off + 1] = x] = Append(b.frags, Written(new, b.heads + 1, x))
  <2>1. [Append(b.frags, new) EXCEPT ![n].data[b.heads + 1] = x]
          = [Append(b.frags, new) EXCEPT ![n] = Written(new, b.heads + 1, x)]
    BY <1>8 DEF Written
  <2>2. b.frags \in Seq(Fragment)
    BY DEF Buffers
  <2>3. [Append(b.frags, new) EXCEPT ![n] = Written(new, b.heads + 1, x)]
          = Append(b.frags, Written(new, b.heads + 1, x))
    <3> PICK y : y = Written(new, b.heads + 1, x)
      OBVIOUS
    <3>1. [Append(b.frags, new) EXCEPT ![Len(b.frags) + 1] = y] = Append(b.frags, y)
      BY ONLY <2>2, AppendedThenSet
    <3> QED
      BY <3>1
  <2> QED
    BY <1>7, <2>1, <2>3
<1>10. Put(b, x) = [at EXCEPT !.frags = Append(b.frags, Written(new, b.heads + 1, x)),
                              !.woffset = b.heads + 1, !.size = @ + 1]
  BY <1>4, <1>6, <1>7, <1>9
<1> QED
  BY <1>2, <1>10 DEF SameLayout

LEMMA Int16Is ==
    ASSUME NEW n \in Int
    PROVE  Int16(n) \in Int /\ (n \in -Int16Max..Int16Max => Int16(n) = n)
<1>1. Int16Max \in Nat
  BY BufferWriteAssumption
<1> PICK m \in Nat \ {0} : m = Int16Max + 1
  BY <1>1
<1>2. (n + m) % (2 * m) \in 0..(2 * m - 1)
  OBVIOUS
<1>3. n \in -(m - 1)..(m - 1) => (n + m) % (2 * m) = n + m
  OBVIOUS
<1>4. Int16(n) = ((n + m) % (2 * m)) - m
  BY <1>1 DEF Int16
<1> QED
  BY <1>1, <1>2, <1>3, <1>4

LEMMA FreshIs ==
    ASSUME NEW b \in Buffers, NEW w \in Nat
    PROVE  LET f == Fresh(b, w)
           IN  /\ f \in Fragment /\ Len(f.data) = b.mtu
               /\ b.heads <= b.mtu => \A j \in 1..b.heads : f.data[j] = HeadByte(j)
               /\ f.fid = IF b.heads > 0 THEN Int16(w + 1) ELSE 0
               /\ f.sizet = b.sizet /\ f.sizea = b.sizea
<1> DEFINE d == [j \in 1..b.mtu |-> IF j <= b.heads THEN HeadByte(j) ELSE Zero]
<1>1. b.mtu \in Nat /\ b.heads \in Nat /\ b.sizet \in Int /\ b.sizea \in Int
  BY DEF Buffers
<1>2. Zero \in Cells /\ \A j \in Nat : HeadByte(j) \in Cells
  BY DEF Zero, HeadByte, Cells
<1>3. d \in Seq(Cells) /\ Len(d) = b.mtu /\ (b.heads <= b.mtu => \A j \in 1..b.heads : d[j] = HeadByte(j))
  BY <1>1, <1>2
<1>4. Int16(w + 1) \in Int /\ NoChecksum \in Checksums /\ <<>> \in Seq(Cells)
  BY Int16Is DEF NoChecksum, Checksums
<1> HIDE DEF d
<1>5. Fresh(b, w) = [data |-> d, fid |-> IF b.heads > 0 THEN Int16(w + 1) ELSE 0, sizet |-> b.sizet,
                     sizea |-> b.sizea, payload |-> <<>>, checksum |-> NoChecksum]
  BY DEF Fresh, NewFragment, Buffers, d
<1> QED
  BY <1>1, <1>3, <1>4, <1>5 DEF Fragment

----------------------------------------------------------------------------
(* Appending a message *)

\* What a fragment holds of it, and the place of byte k: the fragment, from 1, and the
\* byte of its data.
RoomFor(b)   == b.mtu - b.heads - b.checksum
FragOf(b, k) == Row(k, RoomFor(b)) + 1
ByteOf(b, k) == b.heads + Col(k, RoomFor(b)) + 1
CellAt(b, k) == b.frags[FragOf(b, k)].data[ByteOf(b, k)]

\* A fragment as Append made it; the header and the payload may have any bytes.
Numbered(f, i, b) == /\ Len(f.data) = b.mtu
                     /\ f.fid = IF b.heads > 0 THEN Int16(i) ELSE 0
                     /\ f.sizet = b.sizet /\ f.sizea = b.sizea

Headed(f, h) == \A j \in 1..h : f.data[j] = HeadByte(j)

\* A Buffer whose fragments are full up to the last, where the write position is.
Shaped(b) ==
    /\ b \in Buffers /\ RoomFor(b) > 0
    /\ \A i \in 1..Len(b.frags) : Numbered(b.frags[i], i, b)
    /\ IF b.size = 0 THEN b.frags = <<>> /\ b.windex = 0 /\ b.woffset = 0
       ELSE /\ Len(b.frags) = FragOf(b, b.size)
            /\ b.windex = FragOf(b, b.size) - 1 /\ b.woffset = ByteOf(b, b.size)

\* p is b with n more bytes of message, and headers on the fragments it has more.
Grown(p, b, n) ==
    /\ SameLayout(p, b) /\ p.size = b.size + n /\ Len(p.frags) >= Len(b.frags)
    /\ \A k \in 1..b.size : CellAt(p, k) = CellAt(b, k)
    /\ \A i \in 1..Len(p.frags) :
          IF i <= Len(b.frags) THEN \A j \in 1..b.heads : p.frags[i].data[j] = b.frags[i].data[j]
                               ELSE Headed(p.frags[i], b.heads)

LEMMA PlaceIs ==
    ASSUME NEW b \in Buffers, RoomFor(b) > 0, NEW k \in Nat \ {0}
    PROVE  /\ FragOf(b, k) \in Nat \ {0}
           /\ ByteOf(b, k) \in (b.heads + 1)..(b.mtu - b.checksum)
           /\ ByteOf(b, k) \in 1..b.mtu
<1>1. b.mtu \in Nat /\ b.heads \in Nat /\ b.checksum \in Nat
  BY DEF Buffers
<1> PICK c \in Nat \ {0} : c = RoomFor(b) /\ b.heads + c = b.mtu - b.checksum
  BY <1>1 DEF RoomFor
<1>2. Row(k, c) \in Nat /\ Col(k, c) \in 0..(c - 1)
  BY RowIs
<1> QED
  BY <1>1, <1>2 DEF FragOf, ByteOf

LEMMA PlacesDiffer ==
    ASSUME NEW b \in Buffers, RoomFor(b) > 0, NEW k \in Nat \ {0}, NEW l \in Nat \ {0}, k < l
    PROVE  \/ FragOf(b, k) < FragOf(b, l)
           \/ FragOf(b, k) = FragOf(b, l) /\ ByteOf(b, l) - ByteOf(b, k) = l - k
<1>1. b.mtu \in Nat /\ b.heads \in Nat /\ b.checksum \in Nat
  BY DEF Buffers
<1> PICK c \in Nat \ {0} : c = RoomFor(b)
  BY <1>1 DEF RoomFor
<1>2. /\ Row(k, c) \in Nat /\ Col(k, c) \in 0..(c - 1)
      /\ Row(l, c) \in Nat /\ Col(l, c) \in 0..(c - 1)
  BY RowIs
<1>3. Row(k, c) < Row(l, c) \/ (Row(k, c) = Row(l, c) /\ Col(l, c) - Col(k, c) = l - k)
  BY RowsDiffer
<1> QED
  BY <1>1, <1>2, <1>3 DEF FragOf, ByteOf

\* The place of the next byte: in the same fragment, or first in the next one.
LEMMA PlaceOfNext ==
    ASSUME NEW b \in Buffers, RoomFor(b) > 0, NEW k \in Nat \ {0}
    PROVE  IF ByteOf(b, k) = b.mtu - b.checksum
           THEN FragOf(b, k + 1) = FragOf(b, k) + 1 /\ ByteOf(b, k + 1) = b.heads + 1
           ELSE FragOf(b, k + 1) = FragOf(b, k) /\ ByteOf(b, k + 1) = ByteOf(b, k) + 1
<1>1. b.mtu \in Nat /\ b.heads \in Nat /\ b.checksum \in Nat
  BY DEF Buffers
<1> PICK c \in Nat \ {0} : c = RoomFor(b) /\ b.heads + c = b.mtu - b.checksum
  BY <1>1 DEF RoomFor
<1>2. Row(k, c) \in Nat /\ Col(k, c) \in 0..(c - 1)
  BY RowIs
<1>3. IF Col(k, c) = c - 1 THEN Row(k + 1, c) = Row(k, c) + 1 /\ Col(k + 1, c) = 0
                           ELSE Row(k + 1, c) = Row(k, c) /\ Col(k + 1, c) = Col(k, c) + 1
  BY RowOfNext
<1> QED
  BY <1>1, <1>2, <1>3 DEF FragOf, ByteOf

LEMMA PlaceOfFirst ==
    ASSUME NEW b \in Buffers, RoomFor(b) > 0
    PROVE  FragOf(b, 1) = 1 /\ ByteOf(b, 1) = b.heads + 1
<1>1. b.mtu \in Nat /\ b.heads \in Nat /\ b.checksum \in Nat
  BY DEF Buffers
<1> PICK c \in Nat \ {0} : c = RoomFor(b)
  BY <1>1 DEF RoomFor
<1>2. Row(1, c) = 0 /\ Col(1, c) = 0
  BY RowOfFirst
<1> QED
  BY <1>1, <1>2 DEF FragOf, ByteOf

\* Buffers of the same layout agree on the places.
LEMMA SamePlaces ==
    ASSUME NEW b, NEW p, SameLayout(p, b), NEW k
    PROVE  /\ RoomFor(p) = RoomFor(b)
           /\ FragOf(p, k) = FragOf(b, k) /\ ByteOf(p, k) = ByteOf(b, k)
BY DEF SameLayout, RoomFor, FragOf, ByteOf

\* One byte of one fragment is written.
OneWritten(b, i, o, x, g) ==
    /\ b \in Buffers /\ \A n \in 1..Len(b.frags) : Numbered(b.frags[n], n, b)
    /\ i \in 1..Len(b.frags) /\ o \in 1..b.mtu /\ x \in Cells
    /\ g = [b.frags EXCEPT ![i] = Written(b.frags[i], o, x)]

LEMMA OneByte ==
    ASSUME NEW b, NEW i, NEW o, NEW x, NEW g, OneWritten(b, i, o, x, g)
    PROVE  /\ g \in Seq(Fragment) /\ Len(g) = Len(b.frags)
           /\ \A n \in 1..Len(b.frags) :
                 /\ Numbered(g[n], n, b)
                 /\ \A j \in 1..b.mtu :
                       g[n].data[j] = IF n = i /\ j = o THEN x ELSE b.frags[n].data[j]
<1> /\ b \in Buffers /\ \A n \in 1..Len(b.frags) : Numbered(b.frags[n], n, b)
    /\ i \in 1..Len(b.frags) /\ o \in 1..b.mtu /\ x \in Cells
    /\ g = [b.frags EXCEPT ![i] = Written(b.frags[i], o, x)]
  BY DEF OneWritten
<1> PICK s \in Seq(Fragment), f \in Fragment : s = b.frags /\ f = s[i]
  BY ElementOfSeq DEF Buffers
<1>1. Len(f.data) = b.mtu
  BY DEF Numbered
<1> PICK w : w = Written(f, o, x)
  OBVIOUS
<1>2. /\ w \in Fragment /\ Len(w.data) = Len(f.data)
      /\ \A k \in 1..Len(f.data) : w.data[k] = IF k = o THEN x ELSE f.data[k]
      /\ w.fid = f.fid /\ w.sizet = f.sizet /\ w.sizea = f.sizea
  BY <1>1, WrittenIs
<1>3. g = [s EXCEPT ![i] = w]
  OBVIOUS
<1>4. g \in Seq(Fragment) /\ Len(g) = Len(s)
  BY <1>2, <1>3, ExceptSeq
<1>5. \A n \in 1..Len(s) : g[n] = IF n = i THEN w ELSE s[n]
  BY <1>3
<1>6. Numbered(w, i, b)
  BY <1>1, <1>2 DEF Numbered
<1> QED
  BY <1>1, <1>2, <1>4, <1>5, <1>6

\* Put makes a Buffer, if the new fields are a Buffer's.
LEMMA PutIsBuffer ==
    ASSUME NEW b \in Buffers, NEW x, NEW p, p = Put(b, x),
           p.frags \in Seq(Fragment), p.windex \in Nat, p.woffset \in Nat, p.size \in Nat
    PROVE  p \in Buffers
<1> DEFINE full == b.windex < Len(b.frags) /\ b.woffset = Room(b, Frag(b, b.windex))
           before == [b EXCEPT !.windex = IF full THEN @ + 1 ELSE @, !.woffset = IF full THEN 0 ELSE @]
           fresh == before.windex = Len(before.frags)
           off == IF fresh THEN before.woffset + before.heads ELSE before.woffset
           frags == IF fresh THEN Append(before.frags, NewFragment(before)) ELSE before.frags
<1>1. p = [before EXCEPT !.frags = [frags EXCEPT ![before.windex + 1].data[off + 1] = x],
                         !.woffset = off + 1, !.size = @ + 1]
  BY DEF Put
<1> DEFINE F == [frags EXCEPT ![before.windex + 1].data[off + 1] = x]
           o == off + 1
           w == IF full THEN b.windex + 1 ELSE b.windex
           v == IF full THEN 0 ELSE b.woffset
<1>2. before = [b EXCEPT !.windex = w, !.woffset = v]
  OBVIOUS
<1> HIDE DEF F, o, w, v
<1>3. p = [[b EXCEPT !.windex = w, !.woffset = v] EXCEPT !.frags = F, !.woffset = o, !.size = @ + 1]
  BY <1>1, <1>2 DEF F, o
<1> HIDE DEF before, full, fresh, off, frags
<1>4. p = [mtu |-> b.mtu, heads |-> b.heads, checksum |-> b.checksum, sizet |-> b.sizet,
           sizea |-> b.sizea, frags |-> F, windex |-> w, woffset |-> o, size |-> b.size + 1]
  BY <1>3 DEF Buffers
<1> QED
  BY <1>4 DEF Buffers

\* One byte of Append: the message is one longer, and the byte is where it belongs.
LEMMA PutNext ==
    ASSUME NEW b, Shaped(b), NEW x \in Cells, NEW p, p = Put(b, x)
    PROVE  Shaped(p) /\ Grown(p, b, 1) /\ CellAt(p, b.size + 1) = x
<1>1. /\ b \in Buffers /\ RoomFor(b) > 0 /\ b.frags \in Seq(Fragment)
      /\ \A i \in 1..Len(b.frags) : Numbered(b.frags[i], i, b)
  BY DEF Shaped, Buffers
<1> PICK n \in Nat, c \in Nat, s \in Nat, h \in Nat, m \in Nat \ {0} :
         n = Len(b.frags) /\ c = b.checksum /\ s = b.size /\ h = b.heads /\ m = b.mtu
  BY <1>1 DEF Buffers
<1> PICK I, J : I = FragOf(b, s + 1) /\ J = ByteOf(b, s + 1)
  OBVIOUS
<1>2. I \in Nat \ {0} /\ J \in (h + 1)..(m - c) /\ J \in 1..m
  <2>1. s + 1 \in Nat \ {0}
    OBVIOUS
  <2>2. /\ FragOf(b, s + 1) \in Nat \ {0}
        /\ ByteOf(b, s + 1) \in (b.heads + 1)..(b.mtu - b.checksum)
        /\ ByteOf(b, s + 1) \in 1..b.mtu
    BY ONLY <1>1, <2>1, PlaceIs
  <2> QED
    BY <2>2
<1>3. \A k \in 1..s : /\ FragOf(b, k) \in 1..n /\ ByteOf(b, k) \in (h + 1)..m
                      /\ ~(FragOf(b, k) = I /\ ByteOf(b, k) = J)
  <2> TAKE k \in 1..s
  <2> k \in Nat \ {0} /\ s \in Nat \ {0} /\ s + 1 \in Nat \ {0} /\ k < s + 1
    BY ONLY s \in Nat, k \in 1..s
  <2>1. /\ FragOf(b, k) \in Nat \ {0} /\ ByteOf(b, k) \in (h + 1)..(m - c) /\ ByteOf(b, k) \in 1..m
        /\ FragOf(b, s) \in Nat \ {0}
    BY <1>1, PlaceIs
  <2>2. FragOf(b, k) < I \/ (FragOf(b, k) = I /\ J - ByteOf(b, k) = s + 1 - k)
    BY <1>1, PlacesDiffer
  <2>3. k < s => FragOf(b, k) < FragOf(b, s) \/ FragOf(b, k) = FragOf(b, s)
    BY <1>1, PlacesDiffer
  <2>4. n = FragOf(b, s)
    BY DEF Shaped
  <2>5. FragOf(b, k) \in 1..n
    BY <2>1, <2>3, <2>4
  <2>6. ByteOf(b, k) \in (h + 1)..m
    BY <2>1
  <2>7. ~(FragOf(b, k) = I /\ ByteOf(b, k) = J)
    BY <1>2, <2>1, <2>2
  <2> QED
    BY <2>5, <2>6, <2>7
<1>4. /\ SameLayout(p, b) /\ p.size = s + 1 /\ p.windex = I - 1 /\ p.woffset = J
      /\ I = Len(p.frags) /\ Len(p.frags) >= n /\ p.frags \in Seq(Fragment)
      /\ \A i \in 1..Len(p.frags) : Numbered(p.frags[i], i, b)
      /\ p.frags[I].data[J] = x
      /\ \A i \in 1..n : \A j \in 1..m : ~(i = I /\ j = J) => p.frags[i].data[j] = b.frags[i].data[j]
      /\ \A i \in 1..Len(p.frags) : i > n => Headed(p.frags[i], h)
  <2> DEFINE Goal == /\ SameLayout(p, b) /\ p.size = s + 1 /\ p.windex = I - 1 /\ p.woffset = J
                     /\ I = Len(p.frags) /\ Len(p.frags) >= n /\ p.frags \in Seq(Fragment)
                     /\ \A i \in 1..Len(p.frags) : Numbered(p.frags[i], i, b)
                     /\ p.frags[I].data[J] = x
                     /\ \A i \in 1..n : \A j \in 1..m :
                           ~(i = I /\ j = J) => p.frags[i].data[j] = b.frags[i].data[j]
                     /\ \A i \in 1..Len(p.frags) : i > n => Headed(p.frags[i], h)
  <2>1. ASSUME NEW i \in 1..n, i = I, p.frags = [b.frags EXCEPT ![i] = Written(@, J, x)],
               SameLayout(p, b), p.windex = I - 1, p.woffset = J, p.size = s + 1, i = n
        PROVE  Goal
    <3> PICK g : g = p.frags
      OBVIOUS
    <3>1. OneWritten(b, i, J, x, g)
      BY <1>1, <1>2, <2>1 DEF OneWritten
    <3>2. /\ g \in Seq(Fragment) /\ Len(g) = Len(b.frags)
          /\ \A l \in 1..Len(b.frags) :
                /\ Numbered(g[l], l, b)
                /\ \A j \in 1..b.mtu : g[l].data[j] = IF l = i /\ j = J THEN x ELSE b.frags[l].data[j]
      BY ONLY <3>1, OneByte
    <3>3. g[I].data[J] = x
      BY <1>2, <2>1, <3>2
    <3>4. \A l \in 1..n : \A j \in 1..m : ~(l = I /\ j = J) => g[l].data[j] = b.frags[l].data[j]
      BY SMTT(30), <2>1, <3>2
    <3>5. \A l \in 1..Len(g) : l > n => Headed(g[l], h)
      <4>1. \A l \in 1..n : ~(l > n)
        OBVIOUS
      <4>2. Len(g) = n
        BY <3>2
      <4> QED
        BY ONLY <4>1, <4>2
    <3>6. I = Len(g) /\ Len(g) >= n
      BY <2>1, <3>2
    <3> HIDE DEF Goal
    <3>7. /\ g \in Seq(Fragment)
          /\ \A l \in 1..Len(g) : Numbered(g[l], l, b)
      BY <3>2
    <3> QED
      BY <2>1, <3>3, <3>4, <3>5, <3>6, <3>7, Zenon DEF Goal
  <2>2. ASSUME I = n + 1, p.frags = Append(b.frags, Written(Fresh(b, n), J, x)), J = h + 1,
               SameLayout(p, b), p.windex = I - 1, p.woffset = J, p.size = s + 1
        PROVE  Goal
    <3> PICK g, f : g = p.frags /\ f = Fresh(b, n)
      OBVIOUS
    <3>1. /\ f \in Fragment /\ Len(f.data) = m /\ (h <= m => Headed(f, h))
          /\ f.fid = (IF h > 0 THEN Int16(n + 1) ELSE 0) /\ f.sizet = b.sizet /\ f.sizea = b.sizea
      BY <1>1, FreshIs DEF Headed
    <3> PICK w : w = Written(f, J, x)
      OBVIOUS
    <3>2. /\ w \in Fragment /\ Len(w.data) = m
          /\ \A k \in 1..m : w.data[k] = IF k = J THEN x ELSE f.data[k]
          /\ w.fid = f.fid /\ w.sizet = f.sizet /\ w.sizea = f.sizea
      <4>1. J \in 1..Len(f.data) /\ f \in Fragment
        BY <1>2, <3>1
      <4>2. /\ w \in Fragment /\ Len(w.data) = Len(f.data)
            /\ \A k \in 1..Len(f.data) : w.data[k] = IF k = J THEN x ELSE f.data[k]
            /\ w.fid = f.fid /\ w.sizet = f.sizet /\ w.sizea = f.sizea
        BY ONLY <4>1, x \in Cells, w = Written(f, J, x), WrittenIs
      <4>3. Len(f.data) = m
        BY <3>1
      <4> QED
        BY <4>2, <4>3, Zenon
    <3>3. g = Append(b.frags, w)
      BY <2>2
    <3>4. /\ g \in Seq(Fragment) /\ Len(g) = n + 1 /\ g[n + 1] = w
          /\ \A i \in 1..n : g[i] = b.frags[i]
      BY <1>1, <3>2, <3>3, AppendProperties
    <3>5. Numbered(w, n + 1, b)
      BY <3>1, <3>2 DEF Numbered
    <3>6. Headed(w, h)
      <4>1. h <= m /\ \A j \in 1..h : j \in 1..m /\ j # J
        BY <1>2, <2>2
      <4> QED
        BY <3>1, <3>2, <4>1 DEF Headed
    <3>7. \A i \in 1..(n + 1) : IF i > n THEN i = n + 1 ELSE i \in 1..n
      OBVIOUS
    <3>8. \A i \in 1..(n + 1) : Numbered(g[i], i, b) /\ (i > n => Headed(g[i], h))
      BY <1>1, <3>4, <3>5, <3>6, <3>7
    <3>9. g[I].data[J] = x
      BY SMTT(30), <1>2, <2>2, <3>2, <3>4
    <3>10. \A i \in 1..n : \A j \in 1..m : ~(i = I /\ j = J) => g[i].data[j] = b.frags[i].data[j]
      BY <3>4
    <3>11. I = Len(g) /\ Len(g) >= n
      BY <2>2, <3>4
    <3> HIDE DEF Goal
    <3>12. g = p.frags
      OBVIOUS
    <3>13. \A i \in 1..Len(g) : Numbered(g[i], i, b) /\ (i > n => Headed(g[i], h))
      BY <3>4, <3>8
    <3> QED
      BY <2>2, <3>4, <3>9, <3>10, <3>11, <3>12, <3>13, Zenon DEF Goal
  <2> SUFFICES Goal
    OBVIOUS
  <2> HIDE DEF Goal
  <2>3. CASE s = 0
    <3>1. b.frags = <<>> /\ n = 0 /\ b.windex = 0 /\ b.woffset = 0
      BY <2>3 DEF Shaped
    <3>2. I = 1 /\ J = h + 1
      BY <1>1, <2>3, PlaceOfFirst
    <3>3. /\ p.frags = Append(b.frags, Written(Fresh(b, b.windex), b.woffset + b.heads + 1, x))
          /\ p.windex = b.windex /\ p.woffset = b.woffset + b.heads + 1 /\ p.size = b.size + 1
          /\ SameLayout(p, b)
      BY <1>1, <3>1, PutFirst
    <3> QED
      BY <2>2, <3>1, <3>2, <3>3
  <2>4. CASE s # 0
    <3>1. n = FragOf(b, s) /\ b.windex = FragOf(b, s) - 1 /\ b.woffset = ByteOf(b, s)
      BY <2>4 DEF Shaped
    <3>2. FragOf(b, s) \in Nat \ {0} /\ ByteOf(b, s) \in 1..m
      BY <1>1, <2>4, PlaceIs
    <3>3. b.windex = n - 1 /\ n \in 1..n /\ b.windex + 1 = n
      BY <3>1, <3>2
    <3>4. Len(b.frags[n].data) = m
      BY <1>1, <3>3 DEF Numbered
    <3>5. IF ByteOf(b, s) = m - c THEN I = FragOf(b, s) + 1 /\ J = h + 1
                                  ELSE I = FragOf(b, s) /\ J = ByteOf(b, s) + 1
      BY <1>1, <2>4, PlaceOfNext
    <3>6. CASE ByteOf(b, s) = m - c
      <4>1. b.woffset = Len(b.frags[b.windex + 1].data) - b.checksum
        BY <3>1, <3>3, <3>4, <3>6
      <4>2. /\ p.frags = Append(b.frags, Written(Fresh(b, b.windex + 1), b.heads + 1, x))
            /\ p.windex = b.windex + 1 /\ p.woffset = b.heads + 1 /\ p.size = b.size + 1
            /\ SameLayout(p, b)
        BY <1>1, <3>3, <4>1, PutNew
      <4> QED
        BY SMTT(30), <2>2, <3>1, <3>3, <3>5, <3>6, <4>2
    <3>7. CASE ByteOf(b, s) # m - c
      <4>1. b.woffset # Len(b.frags[b.windex + 1].data) - b.checksum /\ b.windex < Len(b.frags)
        BY <3>1, <3>3, <3>4, <3>7
      <4>2. /\ p.frags = [b.frags EXCEPT ![b.windex + 1] = Written(@, b.woffset + 1, x)]
            /\ p.windex = b.windex /\ p.woffset = b.woffset + 1 /\ p.size = b.size + 1
            /\ SameLayout(p, b)
        BY <1>1, <4>1, PutBehind
      <4> QED
        BY <2>1, <3>1, <3>3, <3>5, <3>7, <4>2
    <3> QED
      BY <3>6, <3>7
  <2> QED
    BY <2>3, <2>4
<1>5. p \in Buffers
  <2>1. p.windex \in Nat /\ p.woffset \in Nat /\ p.size \in Nat
    <3>1. I - 1 \in Nat /\ J \in Nat /\ s + 1 \in Nat
      BY ONLY <1>2, s \in Nat, h \in Nat
    <3> QED
      BY <1>4, <3>1
  <2>2. p.frags \in Seq(Fragment)
    BY <1>4
  <2> QED
    BY ONLY <1>1, <2>1, <2>2, p = Put(b, x), PutIsBuffer
<1>6. \A k : RoomFor(p) = RoomFor(b) /\ FragOf(p, k) = FragOf(b, k) /\ ByteOf(p, k) = ByteOf(b, k)
  BY <1>4, SamePlaces
<1>7. \A f, i : Numbered(f, i, b) => Numbered(f, i, p)
  BY <1>4 DEF Numbered, SameLayout
<1>8. Shaped(p)
  BY <1>1, <1>4, <1>5, <1>6, <1>7 DEF Shaped
<1>9. \A k \in 1..s : CellAt(p, k) = CellAt(b, k)
  <2> TAKE k \in 1..s
  <2>1. /\ FragOf(b, k) \in 1..n /\ ByteOf(b, k) \in 1..m
        /\ ~(FragOf(b, k) = I /\ ByteOf(b, k) = J)
    <3>1. /\ FragOf(b, k) \in 1..n /\ ByteOf(b, k) \in (h + 1)..m
          /\ ~(FragOf(b, k) = I /\ ByteOf(b, k) = J)
      BY <1>3
    <3> QED
      BY <3>1
  <2>p. PICK i, j : i = FragOf(b, k) /\ j = ByteOf(b, k)
    OBVIOUS
  <2>3. i \in 1..n /\ j \in 1..m /\ ~(i = I /\ j = J)
    BY ONLY <2>1, <2>p
  <2>4. p.frags[i].data[j] = b.frags[i].data[j]
    BY ONLY <1>4, <2>3
  <2>2. p.frags[FragOf(b, k)].data[ByteOf(b, k)] = b.frags[FragOf(b, k)].data[ByteOf(b, k)]
    BY ONLY <2>4, <2>p
  <2> QED
    BY ONLY <1>6, <2>2 DEF CellAt
<1>10. \A i \in 1..Len(p.frags) :
          IF i <= n THEN \A j \in 1..h : p.frags[i].data[j] = b.frags[i].data[j]
                    ELSE Headed(p.frags[i], h)
  <2>1. \A i \in 1..Len(p.frags) : IF i <= n THEN i \in 1..n ELSE i > n
    OBVIOUS
  <2>2. \A j \in 1..h : j \in 1..m /\ j # J
    BY SMTT(30), <1>2
  <2> QED
    BY SMTT(30), <1>4, <2>1, <2>2
<1>11. CellAt(p, s + 1) = x
  BY <1>4, <1>6 DEF CellAt
<1> QED
  BY <1>4, <1>8, <1>9, <1>10, <1>11 DEF Grown

LEMMA GrownNot ==
    ASSUME NEW b \in Buffers
    PROVE  Grown(b, b, 0)
<1>1. Len(b.frags) \in Nat /\ b.size \in Nat
  BY DEF Buffers
<1> QED
  BY <1>1 DEF Grown, SameLayout

LEMMA GrownOneMore ==
    ASSUME NEW b \in Buffers, NEW p \in Buffers, NEW q \in Buffers, NEW n \in Nat,
           Grown(p, b, n), Grown(q, p, 1)
    PROVE  Grown(q, b, n + 1)
<1>1. /\ Len(b.frags) \in Nat /\ Len(p.frags) \in Nat /\ Len(q.frags) \in Nat
      /\ b.size \in Nat /\ p.size \in Nat /\ q.size \in Nat
  <2>1. ASSUME NEW c \in Buffers PROVE Len(c.frags) \in Nat /\ c.size \in Nat
    BY DEF Buffers
  <2> QED
    BY <2>1
<1>2. SameLayout(q, b) /\ p.heads = b.heads
  BY DEF Grown, SameLayout
<1>3. p.size = b.size + n /\ q.size = p.size + 1 /\ q.size = b.size + (n + 1)
  <2>1. p.size = b.size + n /\ q.size = p.size + 1
    BY DEF Grown
  <2> QED
    BY <1>1, <2>1
<1>4. Len(q.frags) >= Len(p.frags) /\ Len(p.frags) >= Len(b.frags) /\ Len(q.frags) >= Len(b.frags)
  BY <1>1 DEF Grown
<1>5. \A k \in 1..b.size : CellAt(q, k) = CellAt(b, k)
  <2> TAKE k \in 1..b.size
  <2>1. k \in 1..p.size
    BY <1>1, <1>3
  <2> QED
    BY <2>1 DEF Grown
<1>6. ASSUME NEW i \in 1..Len(q.frags)
      PROVE  IF i <= Len(b.frags) THEN \A j \in 1..b.heads : q.frags[i].data[j] = b.frags[i].data[j]
                                  ELSE Headed(q.frags[i], b.heads)
  <2>1. IF i <= Len(p.frags) THEN \A j \in 1..b.heads : q.frags[i].data[j] = p.frags[i].data[j]
                             ELSE Headed(q.frags[i], b.heads)
    BY <1>2 DEF Grown
  <2>2. i <= Len(p.frags) => IF i <= Len(b.frags)
                             THEN \A j \in 1..b.heads : p.frags[i].data[j] = b.frags[i].data[j]
                             ELSE Headed(p.frags[i], b.heads)
    <3>1. i <= Len(p.frags) => i \in 1..Len(p.frags)
      BY <1>1
    <3> QED
      BY <3>1 DEF Grown
  <2>3. i <= Len(b.frags) => i <= Len(p.frags)
    BY <1>1, <1>4
  <2>4. CASE i <= Len(b.frags)
    BY <2>1, <2>2, <2>3, <2>4
  <2>5. CASE ~(i <= Len(b.frags)) /\ i <= Len(p.frags)
    BY <2>1, <2>2, <2>5 DEF Headed
  <2>6. CASE ~(i <= Len(p.frags))
    BY <2>1, <2>3, <2>6
  <2> QED
    BY <2>4, <2>5, <2>6
<1> QED
  BY <1>2, <1>3, <1>4, <1>5, <1>6 DEF Grown

\* Appending bytes: the message goes on with them.
LEMMA PutAllAppends ==
    ASSUME NEW b, Shaped(b), NEW xs \in Seq(Cells), NEW p, p = PutAll(b, xs)
    PROVE  /\ Shaped(p) /\ Grown(p, b, Len(xs))
           /\ \A j \in 1..Len(xs) : CellAt(p, b.size + j) = xs[j]
<1> PICK n \in Nat, s \in Nat : n = Len(xs) /\ s = b.size
  BY DEF Shaped, Buffers
<1>1. PICK r : r[0] = b /\ r[n] = p /\ \A k \in 1..n : r[k] = Put(r[k - 1], xs[k])
  BY PutAllUnfolds
<1> DEFINE Good == {k \in Nat : /\ Shaped(r[k]) /\ Grown(r[k], b, k)
                                /\ \A j \in 1..k : CellAt(r[k], s + j) = xs[j]}
<1>2. 0 \in Good
  <2>1. Grown(b, b, 0)
    BY GrownNot DEF Shaped
  <2> QED
    BY <1>1, <2>1
<1>3. ASSUME NEW k \in 0..(n - 1), k \in Good PROVE k + 1 \in Good
  <2> PICK q, t, y : q = r[k] /\ t = r[k + 1] /\ y = xs[k + 1]
    OBVIOUS
  <2>1. k + 1 \in 1..n /\ k + 1 - 1 = k /\ k \in Nat /\ k + 1 \in Nat
    OBVIOUS
  <2>2. Shaped(q) /\ Grown(q, b, k) /\ \A j \in 1..k : CellAt(q, s + j) = xs[j]
    BY <1>3
  <2>3. t = Put(q, y)
    BY <1>1, <2>1
  <2>4. y \in Cells
    BY <2>1
  <2>5. Shaped(t) /\ Grown(t, q, 1) /\ CellAt(t, q.size + 1) = y
    BY ONLY <2>2, <2>3, <2>4, PutNext
  <2>6. q.size = s + k
    BY <2>2 DEF Grown
  <2>7. Grown(t, b, k + 1)
    BY <2>1, <2>2, <2>5, GrownOneMore DEF Shaped
  <2>8. ASSUME NEW j \in 1..(k + 1) PROVE CellAt(t, s + j) = xs[j]
    <3>1. CASE j = k + 1
      <4>1. s + j = q.size + 1
        BY <2>1, <2>6, <3>1
      <4> QED
        BY <2>5, <3>1, <4>1
    <3>2. CASE j # k + 1
      <4>1. j \in 1..k /\ s + j \in 1..q.size
        BY <2>1, <2>6, <3>2
      <4>2. CellAt(t, s + j) = CellAt(q, s + j)
        BY <2>5, <4>1 DEF Grown
      <4> QED
        BY <2>2, <4>1, <4>2
    <3> QED
      BY <3>1, <3>2
  <2> QED
    BY <2>1, <2>5, <2>7, <2>8
<1>4. n \in Good
  <2>1. \A k \in 0..(n - 1) : k \in Good => k + 1 \in Good
    BY <1>3
  <2> HIDE DEF Good
  <2>2. \A k \in 0..n : k \in Good
    BY ONLY <1>2, <2>1, n \in Nat, Throughout
  <2> QED
    BY <2>2
<1> QED
  BY <1>1, <1>4

----------------------------------------------------------------------------
(* Going back: UpdateSize *)

LEMMA InOrder ==
    ASSUME NEW b \in Buffers, RoomFor(b) > 0, NEW k \in Nat \ {0}, NEW l \in Nat \ {0}, k <= l
    PROVE  FragOf(b, k) <= FragOf(b, l)
<1>1. FragOf(b, k) \in Nat \ {0} /\ FragOf(b, l) \in Nat \ {0}
  BY PlaceIs
<1>2. CASE k < l
  BY <1>1, <1>2, PlacesDiffer
<1>3. CASE k = l
  BY <1>1, <1>3
<1> QED
  BY <1>2, <1>3

\* A byte of the message is written again,
LEMMA WritePlace ==
    ASSUME NEW b \in Buffers, RoomFor(b) > 0,
           \A n \in 1..Len(b.frags) : Numbered(b.frags[n], n, b),
           NEW k \in Nat \ {0}, FragOf(b, k) \in 1..Len(b.frags), NEW x \in Cells,
           NEW p, SameLayout(p, b),
           p.frags = [b.frags EXCEPT ![FragOf(b, k)] = Written(@, ByteOf(b, k), x)]
    PROVE  /\ p.frags \in Seq(Fragment) /\ Len(p.frags) = Len(b.frags)
           /\ \A n \in 1..Len(b.frags) : Numbered(p.frags[n], n, b)
           /\ \A l \in Nat \ {0} : FragOf(b, l) \in 1..Len(b.frags) =>
                 CellAt(p, l) = IF l = k THEN x ELSE CellAt(b, l)
           /\ \A n \in 1..Len(b.frags) : \A j \in 1..b.heads :
                 p.frags[n].data[j] = b.frags[n].data[j]
<1> PICK g : g = p.frags
  OBVIOUS
<1> PICK i \in 1..Len(b.frags), o \in 1..b.mtu :
         i = FragOf(b, k) /\ o = ByteOf(b, k) /\ o \in (b.heads + 1)..(b.mtu - b.checksum)
  BY PlaceIs
<1>1. /\ b \in Buffers /\ b.mtu \in Nat /\ b.frags \in Seq(Fragment)
      /\ \A n \in 1..Len(b.frags) : Numbered(b.frags[n], n, b)
  BY DEF Buffers
<1>5. OneWritten(b, i, o, x, g)
  BY <1>1 DEF OneWritten
<1>2. /\ g \in Seq(Fragment) /\ Len(g) = Len(b.frags)
      /\ \A l \in 1..Len(b.frags) :
            /\ Numbered(g[l], l, b)
            /\ \A j \in 1..b.mtu : g[l].data[j] = IF l = i /\ j = o THEN x ELSE b.frags[l].data[j]
  BY ONLY <1>5, OneByte
<1>3. ASSUME NEW l \in Nat \ {0}, FragOf(b, l) \in 1..Len(b.frags)
      PROVE  CellAt(p, l) = IF l = k THEN x ELSE CellAt(b, l)
  <2>1. FragOf(p, l) = FragOf(b, l) /\ ByteOf(p, l) = ByteOf(b, l)
    BY SamePlaces
  <2>2. ByteOf(b, l) \in 1..b.mtu
    BY PlaceIs
  <2>3. l # k => ~(FragOf(b, l) = i /\ ByteOf(b, l) = o)
    <3>1. ASSUME NEW j \in Nat \ {0} PROVE FragOf(b, j) \in Int /\ ByteOf(b, j) \in Int
      <4>1. FragOf(b, j) \in Nat \ {0} /\ ByteOf(b, j) \in 1..b.mtu
        BY PlaceIs
      <4> QED
        BY <4>1
    <3> /\ FragOf(b, k) \in Int /\ ByteOf(b, k) \in Int
        /\ FragOf(b, l) \in Int /\ ByteOf(b, l) \in Int
      BY <3>1
    <3>2. CASE l < k
      BY <3>2, PlacesDiffer
    <3>3. CASE k < l
      BY <3>3, PlacesDiffer
    <3> QED
      BY <3>2, <3>3
  <2> QED
    BY <1>2, <1>3, <2>1, <2>2, <2>3 DEF CellAt
<1>4. \A j \in 1..b.heads : j \in 1..b.mtu /\ j # o
  BY SMTT(30) DEF Buffers
<1> QED
  BY <1>2, <1>3, <1>4

\* or a byte of a header.
LEMMA WriteHead ==
    ASSUME NEW b \in Buffers, RoomFor(b) > 0,
           \A n \in 1..Len(b.frags) : Numbered(b.frags[n], n, b),
           NEW i \in 1..Len(b.frags), NEW o \in 1..b.heads, NEW x \in Cells,
           NEW p, SameLayout(p, b), p.frags = [b.frags EXCEPT ![i] = Written(@, o, x)]
    PROVE  /\ p.frags \in Seq(Fragment) /\ Len(p.frags) = Len(b.frags)
           /\ \A n \in 1..Len(b.frags) : Numbered(p.frags[n], n, b)
           /\ \A l \in Nat \ {0} : FragOf(b, l) \in 1..Len(b.frags) => CellAt(p, l) = CellAt(b, l)
           /\ \A n \in 1..Len(b.frags) : n # i =>
                 \A j \in 1..b.heads : p.frags[n].data[j] = b.frags[n].data[j]
<1>1. /\ b.mtu \in Nat /\ b.heads \in Nat /\ b.checksum \in Nat
      /\ b.mtu - b.heads - b.checksum > 0
  BY DEF Buffers, RoomFor
<1> PICK g : g = p.frags
  OBVIOUS
<1>2. /\ b \in Buffers /\ b.frags \in Seq(Fragment)
      /\ \A n \in 1..Len(b.frags) : Numbered(b.frags[n], n, b)
  BY DEF Buffers
<1>6. OneWritten(b, i, o, x, g)
  BY <1>1, <1>2 DEF OneWritten
<1>5. \A j \in 1..b.heads : j \in 1..b.mtu
  BY <1>1
<1>3. /\ g \in Seq(Fragment) /\ Len(g) = Len(b.frags)
      /\ \A l \in 1..Len(b.frags) :
            /\ Numbered(g[l], l, b)
            /\ \A j \in 1..b.mtu : g[l].data[j] = IF l = i /\ j = o THEN x ELSE b.frags[l].data[j]
  BY ONLY <1>6, OneByte
<1>4. ASSUME NEW l \in Nat \ {0}, FragOf(b, l) \in 1..Len(b.frags)
      PROVE  CellAt(p, l) = CellAt(b, l)
  <2>1. FragOf(p, l) = FragOf(b, l) /\ ByteOf(p, l) = ByteOf(b, l)
    BY SamePlaces
  <2>2. ByteOf(b, l) \in 1..b.mtu /\ ByteOf(b, l) \in (b.heads + 1)..(b.mtu - b.checksum)
    BY PlaceIs
  <2>3. ByteOf(b, l) # o
    BY <1>1, <2>2
  <2> QED
    BY <1>3, <1>4, <2>1, <2>2, <2>3 DEF CellAt
<1> QED
  BY <1>3, <1>4, <1>5

\* A size field behind byte at of the message: its byte k is patched in its place, unless
\* there are headers and k is not in the fragment of at.
InPlace(b, at, k) == b.heads = 0 \/ FragOf(b, k) = FragOf(b, at)

\* r is b with the first j bytes of xs patched: those that stray go over the header of
\* the next fragment.
Patched(r, b, at, xs, j) ==
    /\ r \in Buffers /\ SameLayout(r, b) /\ Len(r.frags) = Len(b.frags)
    /\ \A n \in 1..Len(b.frags) : Numbered(r.frags[n], n, b)
    /\ \A k \in 1..b.size :
          CellAt(r, k) = IF k \in (at + 1)..(at + j) /\ InPlace(b, at, k) THEN xs[k - at]
                                                                     ELSE CellAt(b, k)
    /\ \A n \in 1..Len(b.frags) :
          \/ \A i \in 1..b.heads : r.frags[n].data[i] = b.frags[n].data[i]
          \/ n = FragOf(b, at) + 1 /\ ~InPlace(b, at, at + j)

\* ... and this is where it writes next.
PatchPosition(r, b, at, j) ==
    IF InPlace(b, at, at + j)
    THEN r.windex = FragOf(b, at + j) - 1 /\ r.woffset = ByteOf(b, at + j)
    ELSE /\ r.windex = FragOf(b, at)
         /\ r.woffset = j - (b.mtu - b.checksum - ByteOf(b, at)) /\ r.woffset \in 1..j

\* The next byte of the field is written in its place,
LEMMA PatchInPlace ==
    ASSUME NEW b, Shaped(b), NEW at \in 1..b.size, NEW j \in Nat, at + j + 1 <= b.size,
           NEW xs, xs[j + 1] \in Cells, NEW r, Patched(r, b, at, xs, j),
           InPlace(b, at, at + (j + 1)), NEW t \in Buffers, SameLayout(t, r),
           t.frags = [r.frags EXCEPT ![FragOf(b, at + (j + 1))] =
                                         Written(@, ByteOf(b, at + (j + 1)), xs[j + 1])]
    PROVE  Patched(t, b, at, xs, j + 1)
<1>1. /\ b \in Buffers /\ RoomFor(b) > 0 /\ b.size \in Nat \ {0} /\ at \in Nat \ {0}
      /\ Len(b.frags) = FragOf(b, b.size)
  <2>1. b \in Buffers /\ b.size \in Nat
    BY DEF Shaped, Buffers
  <2> QED
    BY <2>1 DEF Shaped
<1> PICK k \in Nat \ {0} : k = at + (j + 1) /\ k <= b.size
  <2>1. b.size \in Nat /\ at + (j + 1) \in Nat \ {0} /\ at + (j + 1) <= b.size
    BY <1>1
  <2> QED
    BY <2>1
<1>2. \A l \in 1..b.size : l \in Nat \ {0} /\ FragOf(b, l) \in 1..Len(b.frags)
  <2> TAKE l \in 1..b.size
  <2>1. l \in Nat \ {0} /\ l <= b.size
    BY <1>1
  <2>2. FragOf(b, l) \in Nat \ {0} /\ FragOf(b, b.size) \in Nat \ {0}
    BY <1>1, <2>1, PlaceIs
  <2>3. FragOf(b, l) <= FragOf(b, b.size)
    BY <1>1, <2>1, InOrder
  <2> QED
    BY <1>1, <2>1, <2>2, <2>3
<1>3. /\ r \in Buffers /\ SameLayout(r, b) /\ Len(r.frags) = Len(b.frags) /\ r.heads = b.heads
      /\ r.frags \in Seq(Fragment)
  BY DEF Patched, SameLayout, Buffers
<1>4. RoomFor(r) = RoomFor(b) /\ \A l : FragOf(r, l) = FragOf(b, l) /\ ByteOf(r, l) = ByteOf(b, l)
  BY <1>3, SamePlaces
<1>5. \A f, n : Numbered(f, n, r) <=> Numbered(f, n, b)
  BY <1>3 DEF Numbered, SameLayout
<1>6. /\ t.frags \in Seq(Fragment) /\ Len(t.frags) = Len(r.frags)
      /\ \A n \in 1..Len(r.frags) : Numbered(t.frags[n], n, r)
      /\ \A l \in Nat \ {0} : FragOf(r, l) \in 1..Len(r.frags) =>
            CellAt(t, l) = IF l = k THEN xs[j + 1] ELSE CellAt(r, l)
      /\ \A n \in 1..Len(r.frags) : \A i \in 1..r.heads :
            t.frags[n].data[i] = r.frags[n].data[i]
  <2>1. /\ r \in Buffers /\ RoomFor(r) > 0 /\ r.frags \in Seq(Fragment)
        /\ \A n \in 1..Len(r.frags) : Numbered(r.frags[n], n, r)
    BY <1>1, <1>3, <1>4, <1>5 DEF Patched
  <2>2. k \in Nat \ {0} /\ FragOf(r, k) \in 1..Len(r.frags)
    <3>1. k \in 1..b.size
      BY <1>1
    <3> QED
      BY <1>2, <1>3, <1>4, <3>1
  <2> PICK y : y = xs[j + 1]
    OBVIOUS
  <2>3. t.frags = [r.frags EXCEPT ![FragOf(r, k)] = Written(@, ByteOf(r, k), y)]
    BY <1>4
  <2>4. y \in Cells /\ SameLayout(t, r)
    OBVIOUS
  <2>5. /\ t.frags \in Seq(Fragment) /\ Len(t.frags) = Len(r.frags)
        /\ \A n \in 1..Len(r.frags) : Numbered(t.frags[n], n, r)
        /\ \A l \in Nat \ {0} : FragOf(r, l) \in 1..Len(r.frags) =>
              CellAt(t, l) = IF l = k THEN y ELSE CellAt(r, l)
        /\ \A n \in 1..Len(r.frags) : \A i \in 1..r.heads :
              t.frags[n].data[i] = r.frags[n].data[i]
    BY ONLY <2>1, <2>2, <2>3, <2>4, WritePlace
  <2> QED
    BY <2>5
<1>7. SameLayout(t, b)
  BY <1>3 DEF SameLayout
<1>8. ASSUME NEW l \in 1..b.size
      PROVE  CellAt(t, l) = IF l \in (at + 1)..(at + (j + 1)) /\ InPlace(b, at, l) THEN xs[l - at]
                                                                                ELSE CellAt(b, l)
  <2>1. CellAt(t, l) = IF l = k THEN xs[j + 1] ELSE CellAt(r, l)
    BY <1>2, <1>3, <1>4, <1>6
  <2>2. CellAt(r, l) = IF l \in (at + 1)..(at + j) /\ InPlace(b, at, l) THEN xs[l - at]
                                                                     ELSE CellAt(b, l)
    BY DEF Patched
  <2>3. l = k => l \in (at + 1)..(at + (j + 1)) /\ l - at = j + 1
    BY <1>1
  <2>4. l # k => (l \in (at + 1)..(at + (j + 1)) <=> l \in (at + 1)..(at + j))
    BY <1>1
  <2> QED
    BY <2>1, <2>2, <2>3, <2>4
<1>9. ASSUME NEW n \in 1..Len(b.frags)
      PROVE  \/ \A i \in 1..b.heads : t.frags[n].data[i] = b.frags[n].data[i]
             \/ n = FragOf(b, at) + 1 /\ ~InPlace(b, at, at + (j + 1))
  <2>1. InPlace(b, at, at + j)
    <3>1. at + j \in Nat \ {0} /\ at <= at + j /\ at + j <= at + (j + 1) /\ at + (j + 1) \in Nat \ {0}
      BY <1>1
    <3>2. FragOf(b, at) <= FragOf(b, at + j) /\ FragOf(b, at + j) <= FragOf(b, at + (j + 1))
      BY <1>1, <3>1, InOrder
    <3>3. /\ FragOf(b, at) \in Nat \ {0} /\ FragOf(b, at + j) \in Nat \ {0}
          /\ FragOf(b, at + (j + 1)) \in Nat \ {0}
      BY <1>1, <3>1, PlaceIs
    <3> QED
      BY <3>2, <3>3 DEF InPlace
  <2>2. \A i \in 1..b.heads : r.frags[n].data[i] = b.frags[n].data[i]
    BY <2>1 DEF Patched
  <2> QED
    BY <1>3, <1>6, <2>2
<1> QED
  BY <1>3, <1>5, <1>6, <1>7, <1>8, <1>9 DEF Patched

\* or over a header.
LEMMA PatchAstray ==
    ASSUME NEW b, Shaped(b), NEW at \in 1..b.size, NEW j \in Nat, at + j + 1 <= b.size,
           NEW xs, xs[j + 1] \in Cells, NEW r, Patched(r, b, at, xs, j),
           ~InPlace(b, at, at + (j + 1)), NEW t \in Buffers, SameLayout(t, r),
           NEW o \in 1..b.heads,
           t.frags = [r.frags EXCEPT ![FragOf(b, at) + 1] = Written(@, o, xs[j + 1])]
    PROVE  Patched(t, b, at, xs, j + 1)
<1>1. /\ b \in Buffers /\ RoomFor(b) > 0 /\ b.size \in Nat \ {0} /\ at \in Nat \ {0}
      /\ Len(b.frags) = FragOf(b, b.size)
  <2>1. b \in Buffers /\ b.size \in Nat
    BY DEF Shaped, Buffers
  <2> QED
    BY <2>1 DEF Shaped
<1> PICK k \in Nat \ {0} : k = at + (j + 1) /\ k <= b.size
  <2>1. b.size \in Nat /\ at + (j + 1) \in Nat \ {0} /\ at + (j + 1) <= b.size
    BY <1>1
  <2> QED
    BY <2>1
<1>2. \A l \in 1..b.size : l \in Nat \ {0} /\ FragOf(b, l) \in 1..Len(b.frags)
  <2> TAKE l \in 1..b.size
  <2>1. l \in Nat \ {0} /\ l <= b.size
    BY <1>1
  <2>2. FragOf(b, l) \in Nat \ {0} /\ FragOf(b, b.size) \in Nat \ {0}
    BY <1>1, <2>1, PlaceIs
  <2>3. FragOf(b, l) <= FragOf(b, b.size)
    BY <1>1, <2>1, InOrder
  <2> QED
    BY <1>1, <2>1, <2>2, <2>3
<1>3. /\ r \in Buffers /\ SameLayout(r, b) /\ Len(r.frags) = Len(b.frags) /\ r.heads = b.heads
      /\ r.frags \in Seq(Fragment)
  BY DEF Patched, SameLayout, Buffers
<1>4. RoomFor(r) = RoomFor(b) /\ \A l : FragOf(r, l) = FragOf(b, l) /\ ByteOf(r, l) = ByteOf(b, l)
  BY <1>3, SamePlaces
<1>5. \A f, n : Numbered(f, n, r) <=> Numbered(f, n, b)
  BY <1>3 DEF Numbered, SameLayout
<1> PICK i : i = FragOf(b, at) + 1
  OBVIOUS
<1>6. i \in 1..Len(r.frags)
  <2>1. at <= k /\ k \in 1..b.size
    BY <1>1
  <2>2. FragOf(b, at) \in Nat \ {0} /\ FragOf(b, k) \in 1..Len(b.frags) /\ FragOf(b, k) # FragOf(b, at)
    BY <1>1, <1>2, <2>1 DEF InPlace
  <2>3. FragOf(b, at) <= FragOf(b, k)
    BY <1>1, <2>1, InOrder
  <2> QED
    BY <1>3, <2>2, <2>3
<1>7. /\ t.frags \in Seq(Fragment) /\ Len(t.frags) = Len(r.frags)
      /\ \A n \in 1..Len(r.frags) : Numbered(t.frags[n], n, r)
      /\ \A l \in Nat \ {0} : FragOf(r, l) \in 1..Len(r.frags) => CellAt(t, l) = CellAt(r, l)
      /\ \A n \in 1..Len(r.frags) : n # i =>
            \A m \in 1..r.heads : t.frags[n].data[m] = r.frags[n].data[m]
  <2>1. /\ r \in Buffers /\ RoomFor(r) > 0 /\ r.frags \in Seq(Fragment)
        /\ \A n \in 1..Len(r.frags) : Numbered(r.frags[n], n, r)
    BY <1>1, <1>3, <1>4, <1>5 DEF Patched
  <2> PICK y : y = xs[j + 1]
    OBVIOUS
  <2>2. t.frags = [r.frags EXCEPT ![i] = Written(r.frags[i], o, y)]
    BY <1>3
  <2>4. o \in 1..r.heads
    BY <1>3
  <2>3. y \in Cells /\ SameLayout(t, r)
    OBVIOUS
  <2>5. /\ t.frags \in Seq(Fragment) /\ Len(t.frags) = Len(r.frags)
        /\ \A n \in 1..Len(r.frags) : Numbered(t.frags[n], n, r)
        /\ \A l \in Nat \ {0} : FragOf(r, l) \in 1..Len(r.frags) => CellAt(t, l) = CellAt(r, l)
        /\ \A n \in 1..Len(r.frags) : n # i =>
              \A m \in 1..r.heads : t.frags[n].data[m] = r.frags[n].data[m]
    BY ONLY <1>6, <2>1, <2>2, <2>3, <2>4, WriteHead
  <2> QED
    BY <2>5
<1>8. SameLayout(t, b)
  BY <1>3 DEF SameLayout
<1>9. ASSUME NEW l \in 1..b.size
      PROVE  CellAt(t, l) = IF l \in (at + 1)..(at + (j + 1)) /\ InPlace(b, at, l) THEN xs[l - at]
                                                                                ELSE CellAt(b, l)
  <2>1. CellAt(t, l) = CellAt(r, l)
    BY <1>2, <1>3, <1>4, <1>7
  <2>2. CellAt(r, l) = IF l \in (at + 1)..(at + j) /\ InPlace(b, at, l) THEN xs[l - at]
                                                                     ELSE CellAt(b, l)
    BY DEF Patched
  <2>3. l # k => (l \in (at + 1)..(at + (j + 1)) <=> l \in (at + 1)..(at + j))
    BY <1>1
  <2>4. l = k => ~(l \in (at + 1)..(at + j))
    BY <1>1
  <2> QED
    BY <2>1, <2>2, <2>3, <2>4
<1>10. ASSUME NEW n \in 1..Len(b.frags), n # i
       PROVE  \A m \in 1..b.heads : t.frags[n].data[m] = b.frags[n].data[m]
  <2>1. \A m \in 1..b.heads : r.frags[n].data[m] = b.frags[n].data[m]
    BY <1>10 DEF Patched
  <2> QED
    BY <1>3, <1>7, <1>10, <2>1
<1> QED
  BY <1>3, <1>5, <1>7, <1>8, <1>9, <1>10 DEF Patched

\* Append does the one or the other, at the next position.
LEMMA PatchNext ==
    ASSUME NEW b, Shaped(b), NEW at \in 1..b.size, NEW j \in Nat, at + j + 1 <= b.size,
           b.heads > 0 => j < b.heads, NEW xs, xs[j + 1] \in Cells,
           NEW r, Patched(r, b, at, xs, j), PatchPosition(r, b, at, j),
           NEW t, t = Put(r, xs[j + 1])
    PROVE  Patched(t, b, at, xs, j + 1) /\ PatchPosition(t, b, at, j + 1) /\ t.size = r.size + 1
<1>1. /\ b \in Buffers /\ RoomFor(b) > 0 /\ b.size \in Nat \ {0} /\ at \in Nat \ {0}
      /\ Len(b.frags) = FragOf(b, b.size)
  <2>1. b \in Buffers /\ b.size \in Nat
    BY DEF Shaped, Buffers
  <2> QED
    BY <2>1 DEF Shaped
<1>m. PICK m \in Nat \ {0}, c \in Nat, h \in Nat, s \in Nat \ {0} :
         m = b.mtu /\ c = b.checksum /\ h = b.heads /\ s = b.size /\ h < m - c
  BY SMTT(30), <1>1 DEF Buffers, RoomFor
<1>2. at + j \in Nat \ {0} /\ at + (j + 1) \in Nat \ {0} /\ at + (j + 1) <= s /\ at + j + 1 = at + (j + 1)
  BY <1>1, <1>m
<1>F. PICK F0 \in Nat \ {0}, F1 \in Nat \ {0}, F2 \in Nat \ {0}, N \in Nat \ {0} :
         /\ F0 = FragOf(b, at) /\ F1 = FragOf(b, at + j) /\ F2 = FragOf(b, at + (j + 1))
         /\ N = Len(b.frags)
  BY <1>1, <1>2, PlaceIs
<1>B. PICK B0 \in 1..(m - c), B1 \in 1..(m - c) :
         B0 = ByteOf(b, at) /\ B1 = ByteOf(b, at + j)
  <2>1. ASSUME NEW k \in Nat \ {0} PROVE ByteOf(b, k) \in 1..(m - c)
    <3>1. ByteOf(b, k) \in (h + 1)..(m - c)
      BY <1>1, <1>m, PlaceIs
    <3> QED
      BY <3>1
  <2> QED
    BY <1>1, <1>2, <2>1
<1>3. F0 <= F1 /\ F1 <= F2 /\ F2 <= N
  <2>1. at <= at + j /\ at + j <= at + (j + 1)
    BY <1>1
  <2>2. F0 <= F1
    BY <1>1, <1>2, <1>F, <2>1, InOrder
  <2>3. F1 <= F2
    BY <1>1, <1>2, <1>F, <2>1, InOrder
  <2>4. F2 <= N
    BY <1>1, <1>2, <1>m, <1>F, InOrder
  <2> QED
    BY <2>2, <2>3, <2>4
<1>4. /\ r \in Buffers /\ SameLayout(r, b) /\ Len(r.frags) = N /\ r.heads = h /\ r.checksum = c
      /\ \A n \in 1..N : Len(r.frags[n].data) = m
  BY <1>m, <1>F DEF Patched, SameLayout, Numbered
<1>5. IF B1 = m - c THEN F2 = F1 + 1 /\ ByteOf(b, at + (j + 1)) = h + 1
                    ELSE F2 = F1 /\ ByteOf(b, at + (j + 1)) = B1 + 1
  <2>1. b \in Buffers /\ RoomFor(b) > 0 /\ at + j \in Nat \ {0}
    BY <1>1, <1>2
  <2>2. IF ByteOf(b, at + j) = b.mtu - b.checksum
        THEN FragOf(b, at + j + 1) = FragOf(b, at + j) + 1 /\ ByteOf(b, at + j + 1) = b.heads + 1
        ELSE FragOf(b, at + j + 1) = FragOf(b, at + j) /\ ByteOf(b, at + j + 1) = ByteOf(b, at + j) + 1
    BY ONLY <2>1, PlaceOfNext
  <2>3. at + j + 1 = at + (j + 1) /\ b.mtu - b.checksum = m - c /\ b.heads = h
    BY <1>2, <1>m
  <2> QED
    BY ONLY <2>2, <2>3, <1>F, <1>B
<1>y. PICK y : y = xs[j + 1]
  OBVIOUS
<1>6. ASSUME t.frags \in Seq(Fragment), t.windex \in Nat, t.woffset \in Nat, t.size = r.size + 1
      PROVE  t \in Buffers
  <2>1. r.size \in Nat
    BY <1>4 DEF Buffers
  <2>2. t.size \in Nat
    BY ONLY <1>6, <2>1
  <2> QED
    BY <1>4, <1>6, <2>2, PutIsBuffer
<1>7. ASSUME NEW i \in 1..N, NEW o \in 1..m, t.frags = [r.frags EXCEPT ![i] = Written(@, o, y)]
      PROVE  t.frags \in Seq(Fragment)
  <2>1. r.frags \in Seq(Fragment) /\ i \in 1..Len(r.frags)
    BY <1>4 DEF Buffers
  <2> PICK f : f = r.frags[i]
    OBVIOUS
  <2>2. f \in Fragment /\ o \in 1..Len(f.data) /\ y \in Cells
    BY <1>4, <1>y, <2>1, ElementOfSeq
  <2>3. Written(f, o, y) \in Fragment
    BY <2>2, WrittenIs
  <2>4. t.frags = [r.frags EXCEPT ![i] = Written(f, o, y)]
    BY <1>7
  <2> QED
    BY <2>1, <2>3, <2>4, ExceptSeq
<1>8. CASE InPlace(b, at, at + j)
  <2>1. r.windex = F1 - 1 /\ r.woffset = B1
    BY <1>8, <1>F, <1>B DEF PatchPosition
  <2>2. F1 \in 1..N /\ r.windex + 1 = F1 /\ Len(r.frags[r.windex + 1].data) = m
    <3>1. F1 \in 1..N /\ r.windex + 1 = F1
      BY ONLY <1>3, <2>1
    <3> QED
      BY ONLY <1>4, <3>1
  <2>3. CASE B1 # m - c
    <3>1. r.windex < Len(r.frags) /\ r.woffset # Len(r.frags[r.windex + 1].data) - r.checksum
      BY ONLY <1>3, <1>4, <2>1, <2>2, <2>3
    <3>2. /\ t.frags = [r.frags EXCEPT ![r.windex + 1] = Written(@, r.woffset + 1, y)]
          /\ t.windex = r.windex /\ t.woffset = r.woffset + 1 /\ t.size = r.size + 1
          /\ SameLayout(t, r)
      BY SMTT(30), <1>4, <1>y, <3>1, PutBehind
    <3>3. InPlace(b, at, at + (j + 1))
      BY <1>5, <1>8, <1>F, <2>3 DEF InPlace
    <3>4. t.frags = [r.frags EXCEPT ![F2] = Written(@, ByteOf(b, at + (j + 1)), y)]
      BY ONLY <1>5, <2>1, <2>2, <2>3, <3>2
    <3>5. ByteOf(b, at + (j + 1)) \in 1..m /\ F2 \in 1..N
      BY ONLY <1>3, <1>5, <2>3
    <3>6. t \in Buffers
      <4>1. t.windex \in Nat /\ t.woffset \in Nat
        BY ONLY <2>1, <3>2
      <4> QED
        BY <1>6, <1>7, <3>2, <3>4, <3>5, <4>1
    <3>7. Patched(t, b, at, xs, j + 1)
      BY <1>F, <1>y, <3>2, <3>3, <3>4, <3>6, PatchInPlace
    <3>8. PatchPosition(t, b, at, j + 1)
      BY <1>5, <1>F, <2>1, <2>3, <3>2, <3>3 DEF PatchPosition
    <3> QED
      BY <3>2, <3>7, <3>8
  <2>4. CASE B1 = m - c
    <3>1. r.windex + 1 < Len(r.frags) /\ r.woffset = Len(r.frags[r.windex + 1].data) - r.checksum
      BY ONLY <1>3, <1>4, <1>5, <2>1, <2>2, <2>4
    <3>2. /\ t.frags = [r.frags EXCEPT ![r.windex + 2] = Written(@, 1, y)]
          /\ t.windex = r.windex + 1 /\ t.woffset = 1 /\ t.size = r.size + 1
          /\ SameLayout(t, r)
      <4>1. r \in Buffers /\ t = Put(r, y)
        BY <1>4, <1>y
      <4> QED
        BY ONLY <3>1, <4>1, PutOn
    <3>3. F2 = F1 + 1 /\ r.windex + 2 = F2 /\ F2 \in 1..N /\ 1 \in 1..m
      BY ONLY <1>3, <1>5, <2>1, <2>4
    <3>4. t \in Buffers
      <4>1. t.windex \in Nat /\ t.woffset \in Nat
        BY ONLY <2>1, <3>2
      <4>2. t.frags \in Seq(Fragment)
        BY <1>7, <3>2, <3>3
      <4> QED
        BY <1>6, <3>2, <4>1, <4>2
    <3>5. CASE h = 0
      <4>1. InPlace(b, at, at + (j + 1))
        BY <1>m, <3>5 DEF InPlace
      <4>2. ByteOf(b, at + (j + 1)) = 1
        BY ONLY <1>5, <2>4, <3>5
      <4>3. t.frags = [r.frags EXCEPT ![F2] = Written(@, ByteOf(b, at + (j + 1)), y)]
        BY <3>2, <3>3, <4>2
      <4>4. Patched(t, b, at, xs, j + 1)
        BY <1>F, <1>y, <3>2, <3>4, <4>1, <4>3, PatchInPlace
      <4>5. PatchPosition(t, b, at, j + 1)
        BY <1>F, <2>1, <3>2, <3>3, <4>1, <4>2 DEF PatchPosition
      <4> QED
        BY <3>2, <4>4, <4>5
    <3>6. CASE h # 0
      <4>1. F1 = F0
        BY <1>8, <1>m, <1>F, <3>6 DEF InPlace
      <4>2. ~InPlace(b, at, at + (j + 1))
        BY SMTT(30), <3>3, <1>m, <1>F, <3>6, <4>1 DEF InPlace
      <4>3. B1 - B0 = j
        <5>1. CASE j = 0
          <6>1. at + j = at
            BY <1>1, <5>1
          <6> QED
            BY <1>B, <5>1, <6>1
        <5>2. CASE j # 0
          <6>1. at < at + j
            BY <1>1, <5>2
          <6>2. F0 < F1 \/ (F0 = F1 /\ B1 - B0 = at + j - at)
            BY SMTT(30), <1>1, <1>2, <1>F, <1>B, <6>1, PlacesDiffer
          <6> QED
            BY ONLY <1>1, <4>1, <6>2
        <5> QED
          BY <5>1, <5>2
      <4>4. 1 \in 1..b.heads /\ t.frags = [r.frags EXCEPT ![FragOf(b, at) + 1] = Written(@, 1, y)]
        <5>1. 1 \in 1..b.heads
          BY <1>m, <3>6
        <5>2. r.windex + 2 = FragOf(b, at) + 1
          BY <1>F, <3>3, <4>1
        <5> QED
          BY <3>2, <5>1, <5>2
      <4>5. Patched(t, b, at, xs, j + 1)
        BY <1>y, <3>2, <3>4, <4>2, <4>4, PatchAstray
      <4>6. t.windex = F0 /\ t.woffset = (j + 1) - (m - c - B0) /\ t.woffset \in 1..(j + 1)
        BY ONLY <2>1, <2>4, <3>2, <4>1, <4>3
      <4>7. PatchPosition(t, b, at, j + 1)
        BY <1>m, <1>F, <1>B, <4>2, <4>6 DEF PatchPosition
      <4> QED
        BY <3>2, <4>5, <4>7
    <3> QED
      BY <3>5, <3>6
  <2> QED
    BY <2>3, <2>4
<1>9. CASE ~InPlace(b, at, at + j)
  <2>1. h # 0 /\ F1 # F0
    BY <1>9, <1>m, <1>F DEF InPlace
  <2>2. r.windex = F0 /\ r.woffset = j - (m - c - B0) /\ r.woffset \in 1..j
    BY <1>9, <1>m, <1>F, <1>B DEF PatchPosition
  <2>3. j < h /\ F0 + 1 \in 1..N /\ ~(F2 = F0)
    <3>1. j < h
      BY <1>m, <2>1
    <3> QED
      BY ONLY <1>3, <2>1, <3>1
  <2>4. r.windex < Len(r.frags) /\ r.woffset # Len(r.frags[r.windex + 1].data) - r.checksum
    <3>1. Len(r.frags[r.windex + 1].data) = m
      BY ONLY <1>4, <2>2, <2>3
    <3>2. h < m - c
      BY <1>m
    <3> QED
      BY ONLY <1>4, <2>2, <2>3, <3>1, <3>2
  <2>5. /\ t.frags = [r.frags EXCEPT ![r.windex + 1] = Written(@, r.woffset + 1, y)]
        /\ t.windex = r.windex /\ t.woffset = r.woffset + 1 /\ t.size = r.size + 1
        /\ SameLayout(t, r)
    BY SMTT(30), <1>4, <1>y, <2>4, PutBehind
  <2>o. PICK o : o = r.woffset + 1
    OBVIOUS
  <2>6. o \in 1..b.heads /\ o \in 1..m /\ t.frags = [r.frags EXCEPT ![F0 + 1] = Written(@, o, y)]
    <3>1. h = b.heads /\ h < m - c
      BY <1>m
    <3>2. o \in 1..h /\ o \in 1..m
      BY ONLY <2>2, <2>3, <2>o, <3>1
    <3> QED
      BY <2>2, <2>5, <2>o, <3>1, <3>2
  <2>7. t \in Buffers
    <3>1. t.windex \in Nat /\ t.woffset \in Nat
      BY ONLY <2>2, <2>5
    <3>2. t.frags \in Seq(Fragment)
      BY <1>7, <2>3, <2>6
    <3> QED
      BY <1>6, <2>5, <3>1, <3>2
  <2>8. ~InPlace(b, at, at + (j + 1))
    BY <1>m, <1>F, <2>1, <2>3 DEF InPlace
  <2>9. Patched(t, b, at, xs, j + 1)
    BY <1>F, <1>y, <2>5, <2>6, <2>7, <2>8, PatchAstray
  <2>10. t.windex = F0 /\ t.woffset = (j + 1) - (m - c - B0) /\ t.woffset \in 1..(j + 1)
    BY ONLY <2>2, <2>5
  <2>11. PatchPosition(t, b, at, j + 1)
    BY <1>m, <1>F, <1>B, <2>8, <2>10 DEF PatchPosition
  <2> QED
    BY <2>5, <2>9, <2>11
<1> QED
  BY <1>8, <1>9

\* A Buffer at another position, and of another size.
At(b, w, o, s) == [b EXCEPT !.windex = w, !.woffset = o, !.size = s]

LEMMA AtIs ==
    ASSUME NEW b \in Buffers, NEW w \in Nat, NEW o \in Nat, NEW s \in Nat
    PROVE  /\ At(b, w, o, s) \in Buffers /\ SameLayout(At(b, w, o, s), b)
           /\ At(b, w, o, s).frags = b.frags
           /\ At(b, w, o, s).windex = w /\ At(b, w, o, s).woffset = o /\ At(b, w, o, s).size = s
BY DEF At, Buffers, SameLayout

LEMMA SizetFieldIs ==
    ASSUME NEW n \in Nat
    PROVE  /\ SizetField(n) \in Seq(Cells) /\ Len(SizetField(n)) = SizetLen
           /\ \A j \in 1..SizetLen : SizetField(n)[j] = SizetByte(n, j) /\ SizetByte(n, j) \in Cells
<1>1. SizetLen \in Nat
  BY BufferWriteAssumption
<1>2. \A j \in 1..SizetLen : SizetByte(n, j) \in Cells
  BY <1>1 DEF SizetByte, Cells
<1> QED
  BY <1>1, <1>2 DEF SizetField

\* UpdateSize patches the field that begins behind byte at, and nothing else changes.
LEMMA UpdateSizeIs ==
    ASSUME NEW b, Shaped(b), NEW at \in 1..b.size, at + SizetLen <= b.size,
           b.heads > 0 => SizetLen <= b.heads, NEW n \in Nat,
           NEW u, u = UpdateSize(b, FragOf(b, at) - 1, ByteOf(b, at), n)
    PROVE  /\ Patched(u, b, at, SizetField(n), SizetLen) /\ Shaped(u)
           /\ u.size = b.size
<1>1. /\ b \in Buffers /\ RoomFor(b) > 0 /\ b.size \in Nat \ {0} /\ at \in Nat \ {0}
      /\ b.windex \in Nat /\ b.woffset \in Nat
      /\ \A i \in 1..Len(b.frags) : Numbered(b.frags[i], i, b)
  <2>1. b \in Buffers /\ b.size \in Nat
    BY DEF Shaped, Buffers
  <2> QED
    BY <2>1 DEF Shaped, Buffers
<1>l. PICK l \in Nat \ {0} : l = SizetLen
  BY BufferWriteAssumption
<1>f. PICK w \in Nat, o \in Nat : w = FragOf(b, at) - 1 /\ o = ByteOf(b, at)
  <2>1. FragOf(b, at) \in Nat \ {0} /\ ByteOf(b, at) \in 1..b.mtu
    BY <1>1, PlaceIs
  <2> QED
    BY <2>1
<1>x. PICK xs \in Seq(Cells) : /\ xs = SizetField(n) /\ Len(xs) = l
                               /\ \A j \in 1..l : xs[j] \in Cells
  BY <1>l, SizetFieldIs
<1>p. PICK p : p = [b EXCEPT !.windex = w, !.woffset = o]
  OBVIOUS
<1>2. /\ p \in Buffers /\ SameLayout(p, b) /\ p.frags = b.frags /\ p.windex = w /\ p.woffset = o
  BY <1>1, <1>p DEF Buffers, SameLayout
<1>3. PICK r : r[0] = p /\ r[l] = PutAll(p, xs) /\ \A k \in 1..l : r[k] = Put(r[k - 1], xs[k])
  <2>1. \E r : /\ r[0] = p /\ r[Len(xs)] = PutAll(p, xs)
               /\ \A k \in 1..Len(xs) : r[k] = Put(r[k - 1], xs[k])
    BY ONLY xs \in Seq(Cells), PutAllUnfolds
  <2>2. Len(xs) = l
    BY <1>x
  <2> QED
    BY <2>1, <2>2, Zenon
<1> DEFINE Good == {j \in Nat : Patched(r[j], b, at, xs, j) /\ PatchPosition(r[j], b, at, j)}
<1>4. 0 \in Good
  <2>1. at + 0 = at /\ InPlace(b, at, at) /\ \A k : k \notin (at + 1)..(at + 0)
    BY <1>1 DEF InPlace
  <2>2. PatchPosition(p, b, at, 0)
    BY <1>2, <1>f, <2>1 DEF PatchPosition
  <2>3. \A k \in 1..b.size : CellAt(p, k) = CellAt(b, k)
    BY <1>2, SamePlaces DEF CellAt
  <2>4. Patched(p, b, at, xs, 0)
    BY <1>1, <1>2, <2>1, <2>3 DEF Patched
  <2> QED
    BY <1>3, <2>2, <2>4
<1>5. ASSUME NEW j \in 0..(l - 1), j \in Good PROVE j + 1 \in Good
  <2>1. /\ j \in Nat /\ j + 1 \in 1..l /\ j + 1 - 1 = j /\ j + 1 \in Nat
        /\ at + j + 1 <= b.size /\ (b.heads > 0 => j < b.heads)
    BY SMTT(30), <1>1, <1>l DEF Buffers
  <2>2. xs[j + 1] \in Cells
    BY <1>x, <2>1
  <2>q. PICK q, t : q = r[j] /\ t = r[j + 1]
    OBVIOUS
  <2>3. t = Put(q, xs[j + 1])
    BY <1>3, <2>1, <2>q
  <2>4. Patched(q, b, at, xs, j) /\ PatchPosition(q, b, at, j)
    BY <1>5, <2>q
  <2>5. Patched(t, b, at, xs, j + 1) /\ PatchPosition(t, b, at, j + 1)
    BY <2>1, <2>2, <2>3, <2>4, PatchNext
  <2> QED
    BY <2>1, <2>5, <2>q
<1>6. l \in Good
  <2>1. \A j \in 0..(l - 1) : j \in Good => j + 1 \in Good
    BY <1>5
  <2> HIDE DEF Good
  <2>2. \A j \in 0..l : j \in Good
    BY ONLY <1>4, <2>1, l \in Nat, Throughout
  <2> QED
    BY <2>2
<1>q. PICK q : q = PutAll(p, xs)
  OBVIOUS
<1>7. Patched(q, b, at, xs, l)
  BY <1>3, <1>6, <1>q
<1>8. u = At(q, b.windex, b.woffset, b.size)
  BY <1>f, <1>x, <1>p, <1>q DEF UpdateSize, At
<1>9. /\ u \in Buffers /\ SameLayout(u, q) /\ u.frags = q.frags
      /\ u.windex = b.windex /\ u.woffset = b.woffset /\ u.size = b.size
  <2>1. q \in Buffers /\ b.windex \in Nat /\ b.woffset \in Nat /\ b.size \in Nat
    BY <1>1, <1>7 DEF Patched
  <2>2. PICK i, j, k : i = b.windex /\ j = b.woffset /\ k = b.size
    OBVIOUS
  <2>3. q \in Buffers /\ i \in Nat /\ j \in Nat /\ k \in Nat
    BY <2>1, <2>2
  <2>4. u = At(q, i, j, k)
    BY <1>8, <2>2
  <2>5. /\ At(q, i, j, k) \in Buffers /\ SameLayout(At(q, i, j, k), q)
        /\ At(q, i, j, k).frags = q.frags
        /\ At(q, i, j, k).windex = i /\ At(q, i, j, k).woffset = j /\ At(q, i, j, k).size = k
    BY ONLY <2>3 DEF At, Buffers, SameLayout
  <2> QED
    BY <2>2, <2>4, <2>5
<1>10. SameLayout(u, b)
  BY <1>7, <1>9 DEF Patched, SameLayout
<1>11. \A k : FragOf(u, k) = FragOf(q, k) /\ ByteOf(u, k) = ByteOf(q, k)
  BY <1>9, SamePlaces
<1>12. \A k : CellAt(u, k) = CellAt(q, k)
  BY <1>9, <1>11 DEF CellAt
<1>13. Patched(u, b, at, xs, l)
  BY <1>7, <1>9, <1>10, <1>12 DEF Patched
<1>14. Shaped(u)
  <2>1. /\ RoomFor(u) = RoomFor(b)
        /\ \A k : FragOf(u, k) = FragOf(b, k) /\ ByteOf(u, k) = ByteOf(b, k)
    BY <1>10, SamePlaces
  <2>2. \A f, i : Numbered(f, i, b) => Numbered(f, i, u)
    BY <1>10 DEF Numbered, SameLayout
  <2>3. Len(u.frags) = Len(b.frags) /\ \A i \in 1..Len(u.frags) : Numbered(u.frags[i], i, u)
    BY <1>13, <2>2 DEF Patched
  <2>4. /\ Len(b.frags) = FragOf(b, b.size)
        /\ b.windex = FragOf(b, b.size) - 1 /\ b.woffset = ByteOf(b, b.size)
    BY <1>1 DEF Shaped
  <2> QED
    BY <1>1, <1>9, <2>1, <2>3, <2>4 DEF Shaped
<1> QED
  BY <1>9, <1>13, <1>14, <1>l, <1>x

----------------------------------------------------------------------------
(* The message in the Buffer *)

\* Byte k of the message s is one of a size field, and not in the fragment that the
\* field begins behind.
StrayIn(b, s, k) ==
    /\ b.heads > 0 /\ s[k][1] = "sizet"
    /\ FragOf(b, k) # FragOf(b, k - s[k][3])

\* A byte is where it belongs, unless it strayed.
CellIsSaved(b, s, k) == CellAt(b, k) = IF StrayIn(b, s, k) THEN SizetByte(0, s[k][3]) ELSE s[k]

\* A header is whole, unless a byte strayed.
HeadIsWhole(b, s, n) == \/ Headed(b.frags[n], b.heads)
                        \/ \E k \in 1..Len(s) : StrayIn(b, s, k) /\ FragOf(b, k) = n

\* A saver's frame is about a field that it reserved and did not patch yet.
Frames == [index : Nat, offset : Nat, pos : Nat, at : Nat]
FrameIsSaved(f, b, s) ==
    /\ f.at \in 1..Len(s) /\ f.at + SizetLen <= Len(s) /\ f.pos = f.at + SizetLen
    /\ f.index = FragOf(b, f.at) - 1 /\ f.offset = ByteOf(b, f.at)
    /\ \A j \in 1..SizetLen : s[f.at + j] = SizetByte(0, j)

Placed(b, s, o) ==
    /\ Shaped(b) /\ s \in Seq(Cells) /\ b.size = Len(s)
    /\ \A k \in 1..Len(s) : CellIsSaved(b, s, k)
    /\ \A n \in 1..Len(b.frags) : HeadIsWhole(b, s, n)
    /\ o \in Seq(Frames)
    /\ \A i \in 1..Len(o) : FrameIsSaved(o[i], b, s)
    /\ \A i, j \in 1..Len(o) : i < j => o[i].at + SizetLen < o[j].at

\* Bytes of no size field, or of one that is reserved.
Reserved(xs) == \A j \in 1..Len(xs) : xs[j][1] # "sizet" \/ xs[j] = SizetByte(0, xs[j][3])

LEMMA AppendPlaces ==
    ASSUME NEW b, NEW s, NEW o, Placed(b, s, o), NEW xs \in Seq(Cells), Reserved(xs)
    PROVE  Placed(PutAll(b, xs), s \o xs, o) /\ SameLayout(PutAll(b, xs), b)
<1>n. PICK n \in Nat, m \in Nat : n = Len(s) /\ m = Len(xs)
  BY DEF Placed
<1>p. PICK p, z : p = PutAll(b, xs) /\ z = s \o xs
  OBVIOUS
<1>1. /\ Shaped(b) /\ b \in Buffers /\ s \in Seq(Cells) /\ b.size = n
      /\ \A k \in 1..n : CellIsSaved(b, s, k)
      /\ \A i \in 1..Len(b.frags) : HeadIsWhole(b, s, i)
  BY <1>n DEF Placed, Shaped
<1>2. /\ Shaped(p) /\ Grown(p, b, m)
      /\ \A j \in 1..m : CellAt(p, n + j) = xs[j]
  <2>1. /\ Shaped(p) /\ Grown(p, b, Len(xs))
        /\ \A j \in 1..Len(xs) : CellAt(p, b.size + j) = xs[j]
    BY <1>1, <1>p, PutAllAppends
  <2> QED
    BY <1>1, <1>n, <2>1
<1>3. /\ z \in Seq(Cells) /\ Len(z) = n + m
      /\ \A k \in 1..n : z[k] = s[k]
      /\ \A j \in 1..m : z[n + j] = xs[j]
  BY <1>1, <1>n, <1>p
<1>4. /\ SameLayout(p, b) /\ p.heads = b.heads
      /\ \A k : FragOf(p, k) = FragOf(b, k) /\ ByteOf(p, k) = ByteOf(b, k)
  BY <1>2, SamePlaces DEF Grown, SameLayout
<1>5. p.size = n + m
  BY <1>1, <1>2 DEF Grown
<1>6. \A k \in 1..n : StrayIn(p, z, k) <=> StrayIn(b, s, k)
  BY <1>3, <1>4 DEF StrayIn
<1>7. ASSUME NEW k \in 1..(n + m) PROVE CellIsSaved(p, z, k)
  <2>1. CASE k \in 1..n
    <3>1. CellAt(p, k) = CellAt(b, k)
      BY <1>1, <1>2, <2>1 DEF Grown
    <3>2. CellIsSaved(b, s, k)
      BY <1>1, <2>1
    <3> QED
      BY <1>3, <1>6, <2>1, <3>1, <3>2 DEF CellIsSaved
  <2>2. CASE k \notin 1..n
    <3>j. PICK j \in 1..m : k = n + j
      <4>1. k - n \in 1..m /\ k = n + (k - n)
        BY <2>2
      <4> QED
        BY <4>1
    <3>1. CellAt(p, k) = xs[j] /\ z[k] = xs[j]
      BY <1>2, <1>3, <3>j
    <3>2. xs[j][1] # "sizet" \/ xs[j] = SizetByte(0, xs[j][3])
      BY <1>n DEF Reserved
    <3> QED
      BY <3>1, <3>2 DEF CellIsSaved, StrayIn
  <2> QED
    BY <2>1, <2>2
<1>8. ASSUME NEW i \in 1..Len(p.frags) PROVE HeadIsWhole(p, z, i)
  <2>1. CASE i <= Len(b.frags)
    <3>1. i \in 1..Len(b.frags)
      BY <1>1, <2>1 DEF Buffers
    <3>2. HeadIsWhole(b, s, i)
      BY <1>1, <3>1
    <3>3. CASE Headed(b.frags[i], b.heads)
      <4>1. \A j \in 1..b.heads : p.frags[i].data[j] = b.frags[i].data[j]
        BY <1>2, <2>1 DEF Grown
      <4> QED
        BY <1>4, <3>3, <4>1 DEF Headed, HeadIsWhole
    <3>4. CASE \E k \in 1..Len(s) : StrayIn(b, s, k) /\ FragOf(b, k) = i
      <4>1. PICK k \in 1..n : StrayIn(b, s, k) /\ FragOf(b, k) = i
        BY <1>n, <3>4
      <4>2. StrayIn(p, z, k) /\ FragOf(p, k) = i /\ k \in 1..Len(z)
        BY <1>3, <1>4, <1>6, <4>1
      <4> QED
        BY <4>2 DEF HeadIsWhole
    <3> QED
      BY <3>2, <3>3, <3>4 DEF HeadIsWhole
  <2>2. CASE ~(i <= Len(b.frags))
    <3>1. Headed(p.frags[i], b.heads)
      BY <1>2, <2>2 DEF Grown
    <3> QED
      BY <1>4, <3>1 DEF HeadIsWhole
  <2> QED
    BY <2>1, <2>2
<1>9. ASSUME NEW f \in Frames, FrameIsSaved(f, b, s) PROVE FrameIsSaved(f, p, z)
  <2>l. PICK l \in Nat, a \in Nat : l = SizetLen /\ a = f.at
    BY BufferWriteAssumption DEF Frames
  <2>1. a \in 1..n /\ a + l <= n /\ \A j \in 1..l : s[a + j] = SizetByte(0, j)
    BY <1>9, <1>n, <2>l DEF FrameIsSaved
  <2>2. \A j \in 1..l : a + j \in 1..n
    BY ONLY <2>1
  <2>3. \A j \in 1..l : z[a + j] = SizetByte(0, j)
    BY ONLY <1>3, <2>1, <2>2
  <2>4. a \in 1..Len(z) /\ a + l <= Len(z)
    BY ONLY <1>3, <2>1
  <2> QED
    BY <1>4, <1>9, <2>3, <2>4, <2>l DEF FrameIsSaved
<1>10. o \in Seq(Frames) /\ \A i \in 1..Len(o) : o[i] \in Frames /\ FrameIsSaved(o[i], p, z)
  <2>1. o \in Seq(Frames)
    BY DEF Placed
  <2>2. \A i \in 1..Len(o) : o[i] \in Frames
    BY <2>1, ElementOfSeq
  <2> QED
    BY <1>9, <2>1, <2>2 DEF Placed
<1>11. \A i, j \in 1..Len(o) : i < j => o[i].at + SizetLen < o[j].at
  BY DEF Placed
<1>12. Placed(p, z, o)
  BY <1>2, <1>3, <1>5, <1>7, <1>8, <1>10, <1>11 DEF Placed
<1> QED
  BY <1>4, <1>12, <1>p

LEMMA FrontIs ==
    ASSUME NEW T, NEW o \in Seq(T), o # <<>>
    PROVE  /\ Len(o) \in Nat \ {0} /\ Last(o) = o[Len(o)] /\ Last(o) \in T
           /\ Front(o) \in Seq(T) /\ Len(Front(o)) = Len(o) - 1
           /\ \A i \in 1..(Len(o) - 1) : Front(o)[i] = o[i]
<1>n. PICK n \in Nat \ {0} : n = Len(o)
  BY EmptySeq
<1>1. Last(o) = o[n] /\ o[n] \in T
  BY <1>n, ElementOfSeq DEF Last
<1>f. PICK f : f = SubSeq(o, 1, n - 1)
  OBVIOUS
<1>2. f \in Seq(T) /\ Len(f) = n - 1 /\ \A i \in 1..(n - 1) : f[i] = o[i]
  <2>1. \A i \in 1..(n - 1) : o[i] \in T
    BY <1>n, ElementOfSeq
  <2> QED
    BY <1>n, <1>f, <2>1
<1> QED
  BY <1>n, <1>1, <1>2, <1>f DEF Front

\* Of the bytes behind at that are not in its fragment, there is one in the next fragment.
LEMMA FirstAstray ==
    ASSUME NEW b \in Buffers, RoomFor(b) > 0, NEW a \in Nat \ {0}, NEW l \in Nat,
           FragOf(b, a + l) # FragOf(b, a)
    PROVE  \E j \in 1..l : FragOf(b, a + j) = FragOf(b, a) + 1
<1> DEFINE Astray == {j \in 0..l : FragOf(b, a + j) # FragOf(b, a)}
<1>1. PICK j \in Astray : \A i \in Astray : j <= i
  <2>1. Astray \subseteq Nat /\ Astray # {}
    OBVIOUS
  <2> HIDE DEF Astray
  <2> QED
    BY <2>1, LeastNumber
<1>2. j \in 1..l
  <2>1. a + 0 = a
    OBVIOUS
  <2> QED
    BY <2>1
<1>3. FragOf(b, a + (j - 1)) = FragOf(b, a)
  <2>1. j - 1 \in 0..l /\ ~(j <= j - 1)
    BY <1>2
  <2>2. j - 1 \notin Astray
    <3> HIDE DEF Astray
    <3> QED
      BY <1>1, <2>1
  <2> QED
    BY <2>1, <2>2
<1>4. a + (j - 1) \in Nat \ {0} /\ a + (j - 1) + 1 = a + j
  BY <1>2
<1>5. FragOf(b, a + j) = FragOf(b, a + (j - 1)) + 1 \/ FragOf(b, a + j) = FragOf(b, a + (j - 1))
  BY <1>4, PlaceOfNext
<1>6. FragOf(b, a + j) # FragOf(b, a)
  BY <1>1
<1> QED
  BY <1>2, <1>3, <1>5, <1>6

\* CloseContainer patches the field that the last frame is about.
LEMMA ClosePlaces ==
    ASSUME NEW b, NEW s, NEW o, Placed(b, s, o), o # <<>>, b.heads > 0 => SizetLen <= b.heads,
           NEW f, f = Last(o), NEW u, u = UpdateSize(b, f.index, f.offset, b.size - f.pos),
           NEW z, z = [k \in DOMAIN s |->
                         IF k \in f.at + 1 .. f.at + SizetLen
                         THEN SizetByte(Len(s) - f.at - SizetLen, k - f.at) ELSE s[k]]
    PROVE  Placed(u, z, Front(o)) /\ SameLayout(u, b)
<1>o. PICK N \in Nat \ {0} : N = Len(o)
  <2>1. o \in Seq(Frames)
    BY DEF Placed
  <2>2. Len(o) \in Nat \ {0}
    BY <2>1, FrontIs
  <2> QED
    BY <2>2
<1>q. PICK q : q = Front(o)
  OBVIOUS
<1>1. /\ f = o[N] /\ f \in Frames /\ q \in Seq(Frames) /\ Len(q) = N - 1
      /\ \A i \in 1..(N - 1) : q[i] = o[i]
  <2>1. o \in Seq(Frames)
    BY DEF Placed
  <2> QED
    BY <1>o, <1>q, <2>1, FrontIs
<1>2. /\ FrameIsSaved(f, b, s)
      /\ \A i \in 1..(N - 1) : FrameIsSaved(o[i], b, s) /\ o[i].at + SizetLen < f.at
  <2>1. \A i \in 1..(N - 1) : i \in 1..N /\ i < N
    OBVIOUS
  <2> QED
    BY <1>o, <1>1, <2>1 DEF Placed
<1>a. PICK a \in Nat \ {0}, l \in Nat \ {0}, m \in Nat :
          /\ a = f.at /\ l = SizetLen /\ m = Len(s)
          /\ a \in 1..m /\ a + l <= m /\ \A j \in 1..l : s[a + j] = SizetByte(0, j)
  <2>1. Len(s) \in Nat
    BY DEF Placed
  <2>2. SizetLen \in Nat \ {0}
    BY BufferWriteAssumption
  <2>3. /\ f.at \in 1..Len(s) /\ f.at + SizetLen <= Len(s)
        /\ \A j \in 1..SizetLen : s[f.at + j] = SizetByte(0, j)
    BY <1>2 DEF FrameIsSaved
  <2>4. f.at \in Nat \ {0}
    BY <2>1, <2>3
  <2> QED
    BY <2>1, <2>2, <2>3, <2>4
<1>n. PICK n \in Nat : n = m - a - l
  BY <1>a
<1>3. /\ Shaped(b) /\ b \in Buffers /\ RoomFor(b) > 0 /\ s \in Seq(Cells) /\ b.size = m
      /\ \A k \in 1..m : CellIsSaved(b, s, k)
      /\ \A i \in 1..Len(b.frags) : HeadIsWhole(b, s, i)
  BY <1>a DEF Placed, Shaped
<1>x. PICK xs : xs = SizetField(n)
  OBVIOUS
<1>4. Patched(u, b, a, xs, l) /\ Shaped(u) /\ u.size = m
  <2>1. a \in 1..b.size /\ a + SizetLen <= b.size /\ b.heads > 0 => SizetLen <= b.heads
    BY <1>a, <1>3
  <2>2. b.size - f.pos = n
    <3>1. f.pos = a + l
      BY <1>2, <1>a DEF FrameIsSaved
    <3> QED
      BY <1>a, <1>n, <1>3, <3>1
  <2>3. f.index = FragOf(b, a) - 1 /\ f.offset = ByteOf(b, a)
    BY <1>2, <1>a DEF FrameIsSaved
  <2>4. u = UpdateSize(b, FragOf(b, a) - 1, ByteOf(b, a), n)
    BY <2>2, <2>3
  <2>5. Patched(u, b, a, SizetField(n), SizetLen) /\ Shaped(u) /\ u.size = b.size
    BY <1>3, <1>a, <2>1, <2>4, UpdateSizeIs
  <2> QED
    BY <1>3, <1>a, <1>x, <2>5
<1>5. \A j \in 1..l : xs[j] = SizetByte(n, j) /\ SizetByte(n, j) \in Cells
  BY <1>a, <1>x, SizetFieldIs
<1>6. /\ z \in Seq(Cells) /\ Len(z) = m
      /\ \A k \in 1..m : IF k \in (a + 1)..(a + l) THEN z[k] = SizetByte(n, k - a) ELSE z[k] = s[k]
  <2>1. DOMAIN s = 1..m /\ \A k \in 1..m : s[k] \in Cells
    BY <1>a, <1>3, ElementOfSeq
  <2>2. Len(s) - f.at - SizetLen = n
    BY <1>a, <1>n
  <2>3. z = [k \in 1..m |-> IF k \in (a + 1)..(a + l) THEN SizetByte(n, k - a) ELSE s[k]]
    BY <1>a, <2>1, <2>2
  <2>4. \A k \in (a + 1)..(a + l) : k - a \in 1..l
    OBVIOUS
  <2>5. \A k \in 1..m : (IF k \in (a + 1)..(a + l) THEN SizetByte(n, k - a) ELSE s[k]) \in Cells
    BY <1>5, <2>1, <2>4
  <2>6. z \in [1..m -> Cells]
    BY <2>3, <2>5
  <2>7. z \in Seq(Cells) /\ Len(z) = m
    BY ONLY <2>6, m \in Nat
  <2> QED
    BY <2>3, <2>7
<1>7. /\ SameLayout(u, b) /\ u.heads = b.heads /\ Len(u.frags) = Len(b.frags)
      /\ \A k : FragOf(u, k) = FragOf(b, k) /\ ByteOf(u, k) = ByteOf(b, k)
  BY <1>4, SamePlaces DEF Patched, SameLayout
<1>8. ASSUME NEW k \in (a + 1)..(a + l)
      PROVE  /\ k \in 1..m /\ k - a \in 1..l
             /\ s[k] = SizetByte(0, k - a) /\ z[k] = SizetByte(n, k - a)
             /\ s[k][1] = "sizet" /\ s[k][3] = k - a /\ z[k][1] = "sizet" /\ z[k][3] = k - a
             /\ k - s[k][3] = a /\ k - z[k][3] = a
  <2>0. a + l <= m
    BY <1>a
  <2>1. k \in 1..m /\ k - a \in 1..l /\ a + (k - a) = k /\ k - (k - a) = a
    BY ONLY <2>0, a \in Nat \ {0}, l \in Nat \ {0}, m \in Nat, k \in (a + 1)..(a + l)
  <2>2. s[k] = SizetByte(0, k - a)
    BY <1>a, <2>1
  <2>3. z[k] = SizetByte(n, k - a)
    BY <1>6, <2>1
  <2>4. \A i, j : SizetByte(i, j)[1] = "sizet" /\ SizetByte(i, j)[3] = j
    BY DEF SizetByte
  <2>5. s[k][1] = "sizet" /\ s[k][3] = k - a /\ z[k][1] = "sizet" /\ z[k][3] = k - a
    BY <2>2, <2>3, <2>4
  <2> QED
    BY <2>1, <2>2, <2>3, <2>5
<1>9. ASSUME NEW k \in 1..m PROVE StrayIn(u, z, k) <=> StrayIn(b, s, k)
  <2>1. CASE k \in (a + 1)..(a + l)
    BY <1>7, <1>8, <2>1 DEF StrayIn
  <2>2. CASE k \notin (a + 1)..(a + l)
    BY <1>6, <1>7, <2>2 DEF StrayIn
  <2> QED
    BY <2>1, <2>2
<1>10. ASSUME NEW k \in 1..m PROVE CellIsSaved(u, z, k)
  <2>1. CellAt(u, k) = IF k \in (a + 1)..(a + l) /\ InPlace(b, a, k) THEN xs[k - a] ELSE CellAt(b, k)
    BY <1>3, <1>4 DEF Patched
  <2>2. CellIsSaved(b, s, k)
    BY <1>3
  <2>3. CASE k \in (a + 1)..(a + l)
    <3>1. StrayIn(b, s, k) <=> ~InPlace(b, a, k)
      <4>1. b.heads > 0 <=> b.heads # 0
        BY <1>3 DEF Buffers
      <4>2. s[k][1] = "sizet" /\ k - s[k][3] = a
        BY <1>8, <2>3
      <4> QED
        BY ONLY <4>1, <4>2 DEF StrayIn, InPlace
    <3>2. xs[k - a] = z[k]
      BY <1>5, <1>8, <2>3
    <3> QED
      BY <1>8, <1>9, <2>1, <2>2, <2>3, <3>1, <3>2 DEF CellIsSaved
  <2>4. CASE k \notin (a + 1)..(a + l)
    BY <1>6, <1>9, <2>1, <2>2, <2>4 DEF CellIsSaved
  <2> QED
    BY <2>3, <2>4
<1>11. ASSUME NEW i \in 1..Len(u.frags) PROVE HeadIsWhole(u, z, i)
  <2>1. i \in 1..Len(b.frags) /\ HeadIsWhole(b, s, i)
    BY <1>3, <1>7
  <2>2. ASSUME NEW k \in 1..m, StrayIn(b, s, k), FragOf(b, k) = i PROVE HeadIsWhole(u, z, i)
    <3>1. k \in 1..Len(z) /\ StrayIn(u, z, k) /\ FragOf(u, k) = i
      BY <1>6, <1>7, <1>9, <2>2
    <3> QED
      BY <3>1 DEF HeadIsWhole
  <2>3. CASE \A j \in 1..b.heads : u.frags[i].data[j] = b.frags[i].data[j]
    <3>1. CASE Headed(b.frags[i], b.heads)
      BY <1>7, <2>3, <3>1 DEF Headed, HeadIsWhole
    <3>2. CASE \E k \in 1..Len(s) : StrayIn(b, s, k) /\ FragOf(b, k) = i
      BY <1>a, <2>2, <3>2
    <3> QED
      BY <2>1, <3>1, <3>2 DEF HeadIsWhole
  <2>4. CASE i = FragOf(b, a) + 1 /\ ~InPlace(b, a, a + l)
    <3>1. FragOf(b, a + l) # FragOf(b, a)
      BY <2>4 DEF InPlace
    <3>j. PICK j \in 1..l : FragOf(b, a + j) = FragOf(b, a) + 1
      BY <1>3, <3>1, FirstAstray
    <3>k. PICK k : k = a + j
      OBVIOUS
    <3>2. k \in (a + 1)..(a + l)
      BY <3>k
    <3>3. FragOf(b, k) = i /\ FragOf(b, k) # FragOf(b, a) /\ b.heads > 0
      <4>1. FragOf(b, a) \in Nat \ {0}
        BY <1>3, PlaceIs
      <4>2. b.heads \in Nat /\ b.heads # 0
        BY <1>3, <2>4 DEF InPlace, Buffers
      <4> QED
        BY <2>4, <3>j, <3>k, <4>1, <4>2
    <3>4. StrayIn(b, s, k)
      BY <1>8, <3>2, <3>3 DEF StrayIn
    <3> QED
      BY <1>8, <2>2, <3>2, <3>3, <3>4
  <2> QED
    BY <1>4, <2>1, <2>3, <2>4 DEF Patched
<1>12. ASSUME NEW i \in 1..(N - 1) PROVE FrameIsSaved(q[i], u, z)
  <2>g. PICK g \in Frames : g = o[i] /\ g = q[i]
    <3>1. o \in Seq(Frames) /\ i \in 1..Len(o)
      BY <1>o DEF Placed
    <3> QED
      BY <1>1, <3>1, ElementOfSeq
  <2>c. PICK c \in Nat : c = g.at
    BY DEF Frames
  <2>1. FrameIsSaved(g, b, s) /\ c + l < a
    BY <1>2, <1>a, <2>g, <2>c
  <2>2. c \in 1..m /\ c + l <= m /\ \A j \in 1..l : s[c + j] = SizetByte(0, j)
    BY <1>a, <2>1, <2>c DEF FrameIsSaved
  <2>3. \A j \in 1..l : c + j \in 1..m /\ c + j \notin (a + 1)..(a + l)
    BY ONLY <2>1, <2>2
  <2>4. \A j \in 1..l : z[c + j] = SizetByte(0, j)
    BY ONLY <1>6, <2>2, <2>3
  <2> QED
    BY <1>6, <1>7, <1>a, <2>1, <2>2, <2>4, <2>c, <2>g DEF FrameIsSaved
<1>13. \A i, j \in 1..(N - 1) : i < j => q[i].at + SizetLen < q[j].at
  <2>1. \A i \in 1..(N - 1) : i \in 1..N
    OBVIOUS
  <2>2. \A i, j \in 1..N : i < j => o[i].at + SizetLen < o[j].at
    BY <1>o DEF Placed
  <2> QED
    BY <1>1, <2>1, <2>2
<1>14. Placed(u, z, q)
  BY <1>1, <1>4, <1>6, <1>10, <1>11, <1>12, <1>13 DEF Placed
<1> QED
  BY <1>7, <1>14, <1>q

----------------------------------------------------------------------------
(* Finish *)

\* The bytes of the message that fragment i holds.
Piece(b, i) == IF i < Len(b.frags) THEN RoomFor(b) ELSE ByteOf(b, b.size) - b.heads

\* A Buffer with headers, or without headers and checksums.
Sound(b) == b.heads > 0 \/ b.checksum = 0

\* The layout of a Buffer with a message, in numbers.
LEMMA ShapedIs ==
    ASSUME NEW b, Shaped(b), b.size # 0
    PROVE  /\ b \in Buffers /\ b.frags \in Seq(Fragment) /\ Len(b.frags) \in Nat \ {0}
           /\ b.windex = Len(b.frags) - 1 /\ b.woffset = ByteOf(b, b.size)
           /\ b.mtu \in Nat \ {0} /\ b.heads \in Nat /\ b.checksum \in Nat /\ b.size \in Nat \ {0}
           /\ RoomFor(b) \in Nat \ {0} /\ b.mtu = b.heads + RoomFor(b) + b.checksum
           /\ \A i \in 1..Len(b.frags) : /\ b.frags[i] \in Fragment /\ Len(b.frags[i].data) = b.mtu
                                         /\ Piece(b, i) \in 1..RoomFor(b)
           /\ ByteOf(b, b.size) = b.heads + Piece(b, Len(b.frags))
           /\ b.size = RoomFor(b) * (Len(b.frags) - 1) + Piece(b, Len(b.frags))
<1>1. /\ b \in Buffers /\ RoomFor(b) > 0 /\ b.frags \in Seq(Fragment)
      /\ Len(b.frags) = FragOf(b, b.size)
      /\ b.windex = FragOf(b, b.size) - 1 /\ b.woffset = ByteOf(b, b.size)
      /\ \A i \in 1..Len(b.frags) : Numbered(b.frags[i], i, b)
  BY DEF Shaped, Buffers
<1>2. /\ b.mtu \in Nat \ {0} /\ b.heads \in Nat /\ b.checksum \in Nat /\ b.size \in Nat \ {0}
  BY <1>1 DEF Buffers
<1>c. PICK c \in Nat \ {0}, n \in Nat \ {0} : c = RoomFor(b) /\ n = Len(b.frags)
  <2>1. RoomFor(b) \in Nat \ {0}
    BY <1>1, <1>2 DEF RoomFor
  <2>2. Len(b.frags) \in Nat \ {0}
    BY <1>1, <1>2, PlaceIs
  <2> QED
    BY <2>1, <2>2
<1>3. b.mtu = b.heads + c + b.checksum
  BY <1>2, <1>c DEF RoomFor
<1>r. PICK r \in Nat, q \in 0..(c - 1) :
          /\ r = Row(b.size, c) /\ q = Col(b.size, c) /\ b.size - 1 = c * r + q
  BY <1>2, RowIs
<1>4. n = r + 1 /\ ByteOf(b, b.size) = b.heads + q + 1
  BY <1>1, <1>c, <1>r DEF FragOf, ByteOf
<1>5. Piece(b, n) = q + 1 /\ \A i \in 1..n : i # n => Piece(b, i) = c
  <2>x. PICK x, h : x = ByteOf(b, b.size) /\ h = b.heads
    OBVIOUS
  <2>1. h \in Nat /\ x = h + q + 1 /\ x - h = q + 1
    BY <1>2, <1>4, <2>x
  <2>2. ~(n < Len(b.frags)) /\ \A i \in 1..n : i # n => i < Len(b.frags)
    BY <1>c
  <2>3. Piece(b, n) = q + 1
    <3>1. Piece(b, n) = x - h
      BY <2>2, <2>x DEF Piece
    <3> QED
      BY <2>1, <3>1
  <2> QED
    BY <1>c, <2>2, <2>3 DEF Piece
<1>6. \A i \in 1..n : Piece(b, i) \in 1..c
  BY <1>5
<1>7. \A i \in 1..n : b.frags[i] \in Fragment /\ Len(b.frags[i].data) = b.mtu
  BY <1>1, <1>c, ElementOfSeq DEF Numbered
<1>8. b.size = c * (n - 1) + (q + 1)
  <2>1. n - 1 = r
    BY <1>4
  <2>s. PICK s \in Nat : s = b.size
    BY <1>2
  <2>p. PICK p \in Int : p = c * r
    OBVIOUS
  <2>2. b.size = c * r + (q + 1)
    BY <1>r, <2>s, <2>p
  <2> QED
    BY <2>1, <2>2
<1>9. ByteOf(b, b.size) = b.heads + (q + 1)
  BY <1>2, <1>4
<1> QED
  BY <1>1, <1>2, <1>3, <1>4, <1>5, <1>6, <1>7, <1>8, <1>9, <1>c

\* The r elements of a sequence behind its first l.
LEMMA Slice ==
    ASSUME NEW S, NEW t \in Seq(S), NEW l \in Nat, NEW r \in Nat, l + r <= Len(t)
    PROVE  /\ SubSeq(t, l + 1, l + r) \in Seq(S) /\ Len(SubSeq(t, l + 1, l + r)) = r
           /\ \A j \in 1..r : SubSeq(t, l + 1, l + r)[j] = t[l + j]
<1>1. PICK x, y : x = l + 1 /\ y = l + r
  OBVIOUS
<1>2. x \in 1..(Len(t) + 1) /\ y \in (x - 1)..Len(t) /\ y - x + 1 = r
  BY <1>1
<1>3. /\ SubSeq(t, x, y) \in Seq(S) /\ Len(SubSeq(t, x, y)) = y - x + 1
      /\ \A j \in 1..(y - x + 1) : SubSeq(t, x, y)[j] = t[x + j - 1]
  BY ONLY <1>2, SubSeqProperties
<1>4. \A j \in 1..r : x + j - 1 = l + j
  BY <1>1
<1> QED
  BY <1>1, <1>2, <1>3, <1>4

\* Two sequences that agree on a prefix have that prefix.
LEMMA SamePrefix ==
    ASSUME NEW S, NEW s \in Seq(S), NEW t \in Seq(S), NEW r \in Nat, r <= Len(s), r <= Len(t),
           \A j \in 1..r : s[j] = t[j]
    PROVE  SubSeq(s, 1, r) = SubSeq(t, 1, r)
<1>1. 0 + r <= Len(s) /\ 0 + r <= Len(t) /\ 0 \in Nat /\ 0 + 1 = 1 /\ 0 + r = r
      /\ \A j \in 1..r : 0 + j = j
  OBVIOUS
<1>2. /\ SubSeq(s, 0 + 1, 0 + r) \in Seq(S) /\ Len(SubSeq(s, 0 + 1, 0 + r)) = r
      /\ \A j \in 1..r : SubSeq(s, 0 + 1, 0 + r)[j] = s[0 + j]
  BY ONLY <1>1, Slice
<1>3. /\ SubSeq(t, 0 + 1, 0 + r) \in Seq(S) /\ Len(SubSeq(t, 0 + 1, 0 + r)) = r
      /\ \A j \in 1..r : SubSeq(t, 0 + 1, 0 + r)[j] = t[0 + j]
  BY ONLY <1>1, Slice
<1>4. PICK x, y : x = SubSeq(s, 1, r) /\ y = SubSeq(t, 1, r)
  OBVIOUS
<1>5. /\ x \in Seq(S) /\ Len(x) = r /\ y \in Seq(S) /\ Len(y) = r
      /\ \A j \in 1..r : x[j] = s[j] /\ y[j] = t[j]
  BY <1>1, <1>2, <1>3, <1>4
<1>6. Len(x) = Len(y) /\ \A j \in 1..Len(x) : x[j] = y[j]
  BY <1>5
<1>7. x = y
  BY ONLY <1>5, <1>6, SeqEqual
<1> QED
  BY <1>4, <1>7

\* What appendChecksum changes is behind the payload.
LEMMA AppendChecksumIs ==
    ASSUME NEW b, b.checksum \in Nat, NEW f \in Fragment, NEW pos \in Nat
    PROVE  \E d \in Seq(Cells) :
              /\ Len(d) = Len(f.data)
              /\ \A j \in 1..Len(f.data) : j <= pos => d[j] = f.data[j]
              /\ AppendChecksum(b, f, pos) =
                   [data |-> d, fid |-> f.fid, sizet |-> f.sizet, sizea |-> f.sizea,
                    payload |-> f.payload, checksum |-> [at |-> pos, over |-> Covered(f, pos)]]
<1>d. PICK d : d = [j \in DOMAIN f.data |-> IF j \in pos + 1 .. pos + b.checksum
                                           THEN Sum(j - pos) ELSE f.data[j]]
  OBVIOUS
<1>1. f.data \in Seq(Cells) /\ DOMAIN f.data = 1..Len(f.data) /\ Len(f.data) \in Nat
  BY DEF Fragment
<1>2. \A j \in 1..Len(f.data) :
          (IF j \in pos + 1 .. pos + b.checksum THEN Sum(j - pos) ELSE f.data[j]) \in Cells
  <2>1. \A j \in Int : j \in pos + 1 .. pos + b.checksum => j - pos \in Nat
    OBVIOUS
  <2>2. \A j \in Nat : Sum(j) \in Cells
    BY DEF Sum, Cells
  <2>3. \A j \in 1..Len(f.data) : f.data[j] \in Cells
    BY <1>1, ElementOfSeq
  <2> QED
    BY <1>1, <2>1, <2>2, <2>3
<1>3. d \in [1..Len(f.data) -> Cells]
  BY <1>1, <1>2, <1>d
<1>4. d \in Seq(Cells) /\ Len(d) = Len(f.data)
  BY ONLY <1>1, <1>3
<1>5. \A j \in 1..Len(f.data) : j <= pos => d[j] = f.data[j]
  BY <1>1, <1>d
<1>6. AppendChecksum(b, f, pos)
        = [f EXCEPT !.data = d, !.checksum = [at |-> pos, over |-> Covered(f, pos)]]
  BY <1>d DEF AppendChecksum
<1>7. PICK v : v = [at |-> pos, over |-> Covered(f, pos)]
  OBVIOUS
<1>8. [f EXCEPT !.data = d, !.checksum = v]
        = [data |-> d, fid |-> f.fid, sizet |-> f.sizet, sizea |-> f.sizea,
           payload |-> f.payload, checksum |-> v]
  <2>1. f = [data |-> f.data, fid |-> f.fid, sizet |-> f.sizet, sizea |-> f.sizea,
             payload |-> f.payload, checksum |-> f.checksum]
    BY DEF Fragment
  <2>2. PICK g : g = [f EXCEPT !.data = d]
    OBVIOUS
  <2>3. g = [data |-> d, fid |-> f.fid, sizet |-> f.sizet, sizea |-> f.sizea,
             payload |-> f.payload, checksum |-> f.checksum]
    BY ONLY <2>1, <2>2
  <2>4. [f EXCEPT !.data = d, !.checksum = v] = [g EXCEPT !.checksum = v]
    BY ONLY <2>2
  <2>5. [g EXCEPT !.checksum = v]
          = [data |-> d, fid |-> f.fid, sizet |-> f.sizet, sizea |-> f.sizea,
             payload |-> f.payload, checksum |-> v]
    BY ONLY <2>3
  <2> QED
    BY ONLY <2>4, <2>5
<1> QED
  BY <1>4, <1>5, <1>6, <1>7, <1>8

\* What Finish makes of a fragment with c bytes of the message: its header and these
\* bytes, the bytes again as its payload, and a checksum over what is in front of it.
SealOf(b, f, g, c) ==
    /\ g.data \in Seq(Cells) /\ g.payload \in Seq(Cells) /\ Len(g.payload) = c
    /\ b.heads + c <= Len(g.data)
    /\ \A j \in 1..c : g.payload[j] = f.data[b.heads + j]
    /\ \A j \in 1..(b.heads + c) : g.data[j] = f.data[j]
    /\ g.checksum = [at |-> b.heads + c, over |-> Covered(g, b.heads + c)]

LEMMA SealFullIs ==
    ASSUME NEW b, b.checksum \in Nat, b.heads \in Nat, NEW f \in Fragment, NEW c \in Nat,
           Len(f.data) = b.heads + c + b.checksum
    PROVE  /\ SealOf(b, f, SealFull(b, f), c)
           /\ SealFull(b, f).fid = f.fid
           /\ SealFull(b, f).sizet = f.sizet /\ SealFull(b, f).sizea = f.sizea
<1>h. PICK h \in Nat, k \in Nat, m \in Nat, pos \in Nat :
          h = b.heads /\ k = b.checksum /\ m = Len(f.data) /\ pos = h + c /\ m = h + c + k
  OBVIOUS
<1>1. f.data \in Seq(Cells) /\ pos <= m /\ Room(b, f) = pos
  <2>1. pos = h + c /\ m = h + c + k
    BY <1>h
  <2>2. pos <= m /\ m - k = pos
    BY ONLY <2>1
  <2> QED
    BY <1>h, <2>2 DEF Fragment, Room
<1>d. PICK d \in Seq(Cells) :
          /\ Len(d) = Len(f.data)
          /\ \A j \in 1..Len(f.data) : j <= pos => d[j] = f.data[j]
          /\ AppendChecksum(b, f, pos) =
               [data |-> d, fid |-> f.fid, sizet |-> f.sizet, sizea |-> f.sizea,
                payload |-> f.payload, checksum |-> [at |-> pos, over |-> Covered(f, pos)]]
  BY ONLY AppendChecksumIs, b.checksum \in Nat
<1>y. PICK y : y = SubSeq(f.data, h + 1, pos)
  OBVIOUS
<1>v. PICK v : v = [at |-> pos, over |-> Covered(f, pos)]
  OBVIOUS
<1>2. SealFull(b, f) = [data |-> d, fid |-> f.fid, sizet |-> f.sizet, sizea |-> f.sizea,
                        payload |-> y, checksum |-> v]
  <2>1. SealFull(b, f) = [AppendChecksum(b, f, pos) EXCEPT !.payload = y]
    BY <1>1, <1>h, <1>y DEF SealFull
  <2>2. AppendChecksum(b, f, pos) =
          [data |-> d, fid |-> f.fid, sizet |-> f.sizet, sizea |-> f.sizea,
           payload |-> f.payload, checksum |-> v]
    BY <1>d, <1>v
  <2> QED
    BY <2>1, <2>2
<1>g. PICK g : g = SealFull(b, f)
  OBVIOUS
<1>3. /\ g.data = d /\ g.payload = y /\ g.checksum = v
      /\ g.fid = f.fid /\ g.sizet = f.sizet /\ g.sizea = f.sizea
  BY <1>2, <1>g
<1>4. y \in Seq(Cells) /\ Len(y) = c /\ \A j \in 1..c : y[j] = f.data[h + j]
  <2>1. h + c <= Len(f.data) /\ f.data \in Seq(Cells)
    BY <1>1, <1>h
  <2>2. y = SubSeq(f.data, h + 1, h + c)
    BY <1>h, <1>y
  <2> QED
    BY ONLY <2>1, <2>2, Slice
<1>5. \A j \in 1..pos : d[j] = f.data[j]
  <2>1. \A j \in 1..pos : j \in 1..m /\ j <= pos
    BY <1>1
  <2> QED
    BY <1>d, <1>h, <2>1
<1>6. SubSeq(d, 1, pos) = SubSeq(f.data, 1, pos)
  <2>1. pos <= Len(d) /\ pos <= Len(f.data) /\ f.data \in Seq(Cells)
    BY <1>1, <1>d, <1>h
  <2> QED
    BY ONLY <1>5, <2>1, SamePrefix
<1>7. Covered(g, pos) = Covered(f, pos)
  BY <1>3, <1>6 DEF Covered
<1>8. SealOf(b, f, g, c)
  <2>1. pos <= Len(d)
    BY <1>1, <1>d, <1>h
  <2> QED
    BY <1>3, <1>4, <1>5, <1>7, <1>d, <1>h, <1>v, <2>1 DEF SealOf
<1> QED
  BY <1>3, <1>8, <1>g

LEMMA SealLastIs ==
    ASSUME NEW b, b.checksum \in Nat, b.heads \in Nat, b.windex \in Nat, NEW f \in Fragment,
           NEW e \in Nat, b.woffset = b.heads + e, b.heads + e + b.checksum <= Len(f.data)
    PROVE  /\ SealOf(b, f, SealLast(b, f), e)
           /\ SealLast(b, f).fid = Int16(-(b.windex + 1))
           /\ SealLast(b, f).sizet = e + SizeaLen /\ SealLast(b, f).sizea = Int16(e)
<1>h. PICK h \in Nat, k \in Nat, m \in Nat, pos \in Nat, r \in Nat, w \in Int :
          /\ h = b.heads /\ k = b.checksum /\ m = Len(f.data) /\ pos = h + e /\ r = pos + k
          /\ b.woffset = pos /\ w = -(b.windex + 1) /\ r <= m
  <2>1. PICK h \in Nat, k \in Nat, m \in Nat, u \in Nat :
            h = b.heads /\ k = b.checksum /\ m = Len(f.data) /\ u = b.windex
    BY DEF Fragment
  <2>2. PICK pos \in Nat, r \in Nat, w \in Int : pos = h + e /\ r = pos + k /\ w = -(u + 1)
    OBVIOUS
  <2>3. b.woffset = pos /\ r <= m /\ w = -(b.windex + 1)
    BY <2>1, <2>2
  <2> WITNESS h \in Nat, k \in Nat, m \in Nat, pos \in Nat, r \in Nat, w \in Int
  <2> QED
    BY <2>1, <2>2, <2>3
<1>1. f.data \in Seq(Cells) /\ pos <= r /\ pos <= m
  <2>1. r = pos + k /\ r <= m
    BY <1>h
  <2>2. pos <= r /\ pos <= m
    BY ONLY <2>1
  <2> QED
    BY <2>2 DEF Fragment
<1>i. PICK i \in Int, t \in Int, a \in Int : i = Int16(w) /\ t = e + SizeaLen /\ a = Int16(e)
  <2>1. SizeaLen \in Int
    BY BufferWriteAssumption
  <2>2. Int16(w) \in Int
    BY ONLY BufferWriteAssumption, Int16Is
  <2>3. Int16(e) \in Int
    BY ONLY BufferWriteAssumption, Int16Is
  <2>4. e + SizeaLen \in Int
    BY ONLY <2>1
  <2> QED
    BY ONLY <2>2, <2>3, <2>4
<1>q. PICK q : q = [f EXCEPT !.fid = i, !.sizet = t, !.sizea = a]
  OBVIOUS
<1>2. /\ q \in Fragment /\ q.data = f.data /\ q.fid = i /\ q.sizet = t /\ q.sizea = a
  BY <1>q DEF Fragment
<1>d. PICK d \in Seq(Cells) :
          /\ Len(d) = Len(q.data)
          /\ \A j \in 1..Len(q.data) : j <= pos => d[j] = q.data[j]
          /\ AppendChecksum(b, q, pos) =
               [data |-> d, fid |-> q.fid, sizet |-> q.sizet, sizea |-> q.sizea,
                payload |-> q.payload, checksum |-> [at |-> pos, over |-> Covered(q, pos)]]
  BY ONLY AppendChecksumIs, b.checksum \in Nat, <1>2
<1>y. PICK x, y : x = SubSeq(d, 1, r) /\ y = SubSeq(f.data, h + 1, pos)
  OBVIOUS
<1>v. PICK v : v = [at |-> pos, over |-> Covered(q, pos)]
  OBVIOUS
<1>3. SealLast(b, f) = [data |-> x, fid |-> i, sizet |-> t, sizea |-> a,
                        payload |-> y, checksum |-> v]
  <2>1. b.woffset - b.heads = e /\ b.heads + e = pos /\ pos + b.checksum = r
    BY <1>h
  <2>2. SealLast(b, f) = [AppendChecksum(b, q, pos) EXCEPT !.payload = y,
                                                          !.data = SubSeq(@, 1, r)]
    BY <1>h, <1>i, <1>q, <1>y, <2>1 DEF SealLast
  <2>3. AppendChecksum(b, q, pos) =
          [data |-> d, fid |-> i, sizet |-> t, sizea |-> a,
           payload |-> q.payload, checksum |-> v]
    BY <1>2, <1>d, <1>v
  <2>4. PICK u : u = q.payload
    OBVIOUS
  <2>5. AppendChecksum(b, q, pos) =
          [data |-> d, fid |-> i, sizet |-> t, sizea |-> a, payload |-> u, checksum |-> v]
    BY <2>3, <2>4
  <2>6. PICK z, g : z = AppendChecksum(b, q, pos) /\ g = [z EXCEPT !.payload = y]
    OBVIOUS
  <2>7. g = [data |-> d, fid |-> i, sizet |-> t, sizea |-> a, payload |-> y, checksum |-> v]
    BY ONLY <2>5, <2>6
  <2>8. SealLast(b, f) = [g EXCEPT !.data = SubSeq(@, 1, r)]
    BY ONLY <2>2, <2>6
  <2>9. g.data = d
    BY ONLY <2>7
  <2>10. [g EXCEPT !.data = SubSeq(@, 1, r)] = [g EXCEPT !.data = x]
    BY ONLY <1>y, <2>9
  <2>11. [g EXCEPT !.data = x] = [data |-> x, fid |-> i, sizet |-> t, sizea |-> a,
                                  payload |-> y, checksum |-> v]
    BY ONLY <2>7
  <2> QED
    BY ONLY <2>8, <2>10, <2>11
<1>g. PICK g : g = SealLast(b, f)
  OBVIOUS
<1>4. /\ g.data = x /\ g.payload = y /\ g.checksum = v
      /\ g.fid = i /\ g.sizet = t /\ g.sizea = a
  BY <1>3, <1>g
<1>5. y \in Seq(Cells) /\ Len(y) = e /\ \A j \in 1..e : y[j] = f.data[h + j]
  <2>1. h + e <= Len(f.data) /\ f.data \in Seq(Cells)
    BY <1>1, <1>h
  <2>2. y = SubSeq(f.data, h + 1, h + e)
    BY <1>h, <1>y
  <2> QED
    BY ONLY <2>1, <2>2, Slice
<1>6. x \in Seq(Cells) /\ Len(x) = r /\ \A j \in 1..r : x[j] = d[j]
  <2>1. 0 + r <= Len(d) /\ 0 \in Nat
    BY <1>2, <1>d, <1>h
  <2>2. x = SubSeq(d, 0 + 1, 0 + r) /\ \A j \in 1..r : 0 + j = j
    BY <1>y
  <2>3. /\ SubSeq(d, 0 + 1, 0 + r) \in Seq(Cells) /\ Len(SubSeq(d, 0 + 1, 0 + r)) = r
        /\ \A j \in 1..r : SubSeq(d, 0 + 1, 0 + r)[j] = d[0 + j]
    BY ONLY <2>1, Slice
  <2> QED
    BY <2>2, <2>3
<1>7. \A j \in 1..pos : x[j] = q.data[j]
  <2>1. \A j \in 1..pos : j \in 1..m /\ j <= pos /\ j \in 1..r
    BY <1>1
  <2> QED
    BY <1>2, <1>6, <1>d, <1>h, <2>1
<1>8. SubSeq(x, 1, pos) = SubSeq(q.data, 1, pos)
  <2>1. pos <= Len(x) /\ pos <= Len(q.data) /\ q.data \in Seq(Cells) /\ x \in Seq(Cells)
    BY <1>1, <1>2, <1>6, <1>h
  <2> QED
    BY ONLY <1>7, <2>1, SamePrefix
<1>9. Covered(g, pos) = Covered(q, pos)
  BY <1>2, <1>4, <1>8 DEF Covered
<1>10. SealOf(b, f, g, e)
  <2>1. pos <= Len(x) /\ \A j \in 1..pos : x[j] = f.data[j]
    BY <1>1, <1>2, <1>6, <1>7
  <2> QED
    BY <1>4, <1>5, <1>6, <1>9, <1>h, <1>v, <2>1 DEF SealOf
<1> QED
  BY <1>4, <1>10, <1>g, <1>h, <1>i

\* Finish of a Buffer with headers.
LEMMA SealHeadsIs ==
    ASSUME NEW b, Shaped(b), b.size # 0, b.heads > 0, NEW p, p = Sealed(b)
    PROVE  /\ SameLayout(p, b) /\ p.size = b.size /\ p.windex = b.windex /\ p.woffset = b.woffset
           /\ Len(p.frags) = Len(b.frags) /\ DOMAIN p.frags = 1..Len(b.frags)
           /\ \A i \in 1..Len(b.frags) :
                 /\ SealOf(b, b.frags[i], p.frags[i], Piece(b, i))
                 /\ i # Len(b.frags) => /\ p.frags[i].fid = b.frags[i].fid
                                        /\ p.frags[i].sizet = b.frags[i].sizet
                                        /\ p.frags[i].sizea = b.frags[i].sizea
                 /\ i = Len(b.frags) => /\ p.frags[i].fid = Int16(-i)
                                        /\ p.frags[i].sizet = Piece(b, i) + SizeaLen
                                        /\ p.frags[i].sizea = Int16(Piece(b, i))
<1>1. /\ b \in Buffers /\ b.frags \in Seq(Fragment) /\ Len(b.frags) \in Nat \ {0}
      /\ b.windex = Len(b.frags) - 1 /\ b.woffset = ByteOf(b, b.size)
      /\ b.mtu \in Nat \ {0} /\ b.heads \in Nat /\ b.checksum \in Nat /\ b.size \in Nat \ {0}
      /\ RoomFor(b) \in Nat \ {0} /\ b.mtu = b.heads + RoomFor(b) + b.checksum
      /\ \A i \in 1..Len(b.frags) : /\ b.frags[i] \in Fragment /\ Len(b.frags[i].data) = b.mtu
                                    /\ Piece(b, i) \in 1..RoomFor(b)
      /\ ByteOf(b, b.size) = b.heads + Piece(b, Len(b.frags))
      /\ b.size = RoomFor(b) * (Len(b.frags) - 1) + Piece(b, Len(b.frags))
  BY ShapedIs
<1>n. PICK n \in Nat \ {0}, m \in Nat \ {0}, h \in Nat, c \in Nat \ {0}, k \in Nat, s \in Nat \ {0} :
          /\ n = Len(b.frags) /\ m = b.mtu /\ h = b.heads /\ c = RoomFor(b) /\ k = b.checksum
          /\ s = b.size /\ m = h + c + k /\ b.windex = n - 1
  BY <1>1
<1>2. DOMAIN b.frags = 1..n /\ (\A i \in 1..n : i - 1 < n - 1 <=> i # n) /\ h # 0
  BY SMTT(30), <1>1, <1>n
<1>e. PICK e : e = Piece(b, n) /\ e \in 1..c
  BY <1>1, <1>n
<1> DEFINE HeadOf(i) == IF i - 1 < b.windex THEN SealFull(b, b.frags[i]) ELSE SealLast(b, b.frags[i])
           Good(g, i) == /\ SealOf(b, b.frags[i], g, Piece(b, i))
                         /\ i # n => /\ g.fid = b.frags[i].fid /\ g.sizet = b.frags[i].sizet
                                     /\ g.sizea = b.frags[i].sizea
                         /\ i = n => /\ g.fid = Int16(-i) /\ g.sizet = Piece(b, i) + SizeaLen
                                     /\ g.sizea = Int16(Piece(b, i))
<1>3. p = [b EXCEPT !.frags = [i \in DOMAIN b.frags |-> HeadOf(i)]]
  BY <1>2, <1>n DEF Sealed, SealHeads
<1>4. ASSUME NEW i \in 1..n PROVE Good(HeadOf(i), i)
  <2>f. PICK f \in Fragment : f = b.frags[i] /\ Len(f.data) = m
    BY <1>1, <1>n
  <2>1. CASE i # n
    <3>1. HeadOf(i) = SealFull(b, f) /\ Piece(b, i) = c
      BY <1>2, <1>n, <2>1, <2>f DEF Piece
    <3>2. /\ b.checksum \in Nat /\ b.heads \in Nat /\ c \in Nat
          /\ Len(f.data) = b.heads + c + b.checksum
      BY <1>n, <2>f
    <3>3. /\ SealOf(b, f, SealFull(b, f), c)
          /\ SealFull(b, f).fid = f.fid
          /\ SealFull(b, f).sizet = f.sizet /\ SealFull(b, f).sizea = f.sizea
      BY ONLY <3>2, SealFullIs
    <3> HIDE DEF HeadOf
    <3> QED
      BY <2>1, <2>f, <3>1, <3>3
  <2>2. CASE i = n
    <3>1. HeadOf(i) = SealLast(b, f) /\ Piece(b, i) = e
      BY <1>2, <1>e, <1>n, <2>2, <2>f
    <3>2. /\ b.checksum \in Nat /\ b.heads \in Nat /\ b.windex \in Nat /\ e \in Nat
          /\ b.woffset = b.heads + e
      BY SMTT(30), <1>1, <1>e, <1>n
    <3>3. b.heads + e + b.checksum <= Len(f.data)
      <4>1. b.heads = h /\ b.checksum = k /\ Len(f.data) = h + c + k /\ e \in 1..c
        BY <1>e, <1>n, <2>f
      <4> QED
        BY ONLY <4>1
    <3>4. /\ SealOf(b, f, SealLast(b, f), e)
          /\ SealLast(b, f).fid = Int16(-(b.windex + 1))
          /\ SealLast(b, f).sizet = e + SizeaLen /\ SealLast(b, f).sizea = Int16(e)
      BY ONLY <3>2, <3>3, SealLastIs
    <3>5. -(b.windex + 1) = -i
      BY <1>n, <2>2
    <3> HIDE DEF HeadOf
    <3> QED
      BY <2>2, <2>f, <3>1, <3>4, <3>5
  <2> QED
    BY <2>1, <2>2
<1>s. PICK fs : fs = [i \in DOMAIN b.frags |-> HeadOf(i)]
  OBVIOUS
<1>5. DOMAIN fs = 1..n /\ \A i \in 1..n : Good(fs[i], i)
  <2> HIDE DEF HeadOf, Good
  <2> QED
    BY <1>2, <1>4, <1>s
<1>6. Len(fs) = n
  <2> HIDE DEF HeadOf
  <2> QED
    BY <1>2, <1>s
<1>7. p = [b EXCEPT !.frags = fs]
  BY <1>3, <1>s
<1>8. /\ SameLayout(p, b) /\ p.size = b.size /\ p.windex = b.windex /\ p.woffset = b.woffset
      /\ p.frags = fs
  BY <1>1, <1>7 DEF SameLayout, Buffers
<1> QED
  BY <1>5, <1>6, <1>8, <1>n

\* Finish makes fragments of fragments, of which each holds its piece of the message.
LEMMA SealedIs ==
    ASSUME NEW b, Shaped(b), b.size # 0, NEW p, p = Sealed(b)
    PROVE  /\ SameLayout(p, b) /\ p.size = b.size /\ p.windex = b.windex /\ p.woffset = b.woffset
           /\ Len(p.frags) = Len(b.frags) /\ DOMAIN p.frags = 1..Len(b.frags)
           /\ \A i \in 1..Len(b.frags) :
                 /\ p.frags[i].data \in Seq(Cells) /\ p.frags[i].payload \in Seq(Cells)
                 /\ Sound(b) =>
                       /\ Len(p.frags[i].payload) = Piece(b, i)
                       /\ \A j \in 1..Piece(b, i) :
                             p.frags[i].payload[j] = b.frags[i].data[b.heads + j]
                       /\ \A j \in 1..(b.heads + Piece(b, i)) :
                             p.frags[i].data[j] = b.frags[i].data[j]
<1>1. /\ b \in Buffers /\ b.frags \in Seq(Fragment) /\ Len(b.frags) \in Nat \ {0}
      /\ b.windex = Len(b.frags) - 1 /\ b.woffset = ByteOf(b, b.size)
      /\ b.mtu \in Nat \ {0} /\ b.heads \in Nat /\ b.checksum \in Nat /\ b.size \in Nat \ {0}
      /\ RoomFor(b) \in Nat \ {0} /\ b.mtu = b.heads + RoomFor(b) + b.checksum
      /\ \A i \in 1..Len(b.frags) : /\ b.frags[i] \in Fragment /\ Len(b.frags[i].data) = b.mtu
                                    /\ Piece(b, i) \in 1..RoomFor(b)
      /\ ByteOf(b, b.size) = b.heads + Piece(b, Len(b.frags))
      /\ b.size = RoomFor(b) * (Len(b.frags) - 1) + Piece(b, Len(b.frags))
  BY ShapedIs
<1>n. PICK n \in Nat \ {0}, m \in Nat \ {0}, h \in Nat, c \in Nat \ {0}, k \in Nat, s \in Nat \ {0} :
          /\ n = Len(b.frags) /\ m = b.mtu /\ h = b.heads /\ c = RoomFor(b) /\ k = b.checksum
          /\ s = b.size /\ m = h + c + k /\ b.windex = n - 1
  BY <1>1
<1>2. DOMAIN b.frags = 1..n /\ \A i \in 1..n : i - 1 < n - 1 <=> i # n
  BY <1>1, <1>n
<1>e. PICK e : e = Piece(b, n) /\ e \in 1..c /\ s = c * (n - 1) + e
  BY <1>1, <1>n
<1>3. \A i \in 1..n : i # n => Piece(b, i) = c
  BY <1>n DEF Piece
<1> DEFINE Good(g, i) ==
        /\ g.data \in Seq(Cells) /\ g.payload \in Seq(Cells)
        /\ Sound(b) => /\ Len(g.payload) = Piece(b, i)
                       /\ \A j \in 1..Piece(b, i) : g.payload[j] = b.frags[i].data[h + j]
                       /\ \A j \in 1..(h + Piece(b, i)) : g.data[j] = b.frags[i].data[j]
<1>4. CASE h = 0
  <2>r. PICK w \in Int : w = RawRest(b)
    <3>1. b.size \in Nat /\ b.windex \in Nat /\ b.mtu \in Nat
      BY <1>1
    <3> QED
      BY <3>1 DEF RawRest
  <2>1. Sound(b) => w = e /\ c = m
    <3>1. CASE k = 0
      <4>1. c = m
        BY <1>n, <1>4, <3>1
      <4>2. RawRest(b) = s - (n - 1) * c
        BY <1>n, <4>1 DEF RawRest
      <4>p. PICK q \in Int : q = c * (n - 1) /\ q = (n - 1) * c
        OBVIOUS
      <4> QED
        BY <1>e, <2>r, <4>1, <4>2, <4>p
    <3> QED
      BY <1>n, <1>4, <3>1 DEF Sound
  <2> DEFINE Raw(i) ==
          LET f    == b.frags[i]
              rest == [j \in 1..RawRest(b) |-> IF j <= b.mtu THEN f.data[j] ELSE Zero]
          IN  IF i - 1 < b.windex THEN [f EXCEPT !.payload = f.data]
              ELSE [f EXCEPT !.data = rest, !.payload = rest]
  <2>2. p = [b EXCEPT !.frags = [i \in DOMAIN b.frags |-> Raw(i)]]
    BY <1>n, <1>4 DEF Sealed, SealRaw
  <2>3. ASSUME NEW i \in 1..n PROVE Good(Raw(i), i)
    <3>f. PICK f \in Fragment : f = b.frags[i] /\ Len(f.data) = m /\ f.data \in Seq(Cells)
      BY <1>1, <1>n DEF Fragment
    <3>1. CASE i # n
      <4>1. Raw(i) = [f EXCEPT !.payload = f.data]
        BY <1>2, <1>n, <3>1, <3>f
      <4>g. PICK g : g = Raw(i)
        OBVIOUS
      <4>2. g.data = f.data /\ g.payload = f.data
        BY <3>f, <4>1, <4>g DEF Fragment
      <4>3. \A j : h + j = 0 + j
        BY <1>4
      <4>4. \A j \in Int : 0 + j = j
        OBVIOUS
      <4> HIDE DEF Raw
      <4>5. Sound(b) => Piece(b, i) = m
        BY <1>3, <2>1, <3>1
      <4> QED
        BY <1>4, <3>f, <4>2, <4>5, <4>g
    <3>2. CASE i = n
      <4>d. PICK d : d = [j \in 1..w |-> IF j <= m THEN f.data[j] ELSE Zero]
        OBVIOUS
      <4>1. Raw(i) = [f EXCEPT !.data = d, !.payload = d]
        BY <1>2, <1>n, <2>r, <3>2, <3>f, <4>d
      <4>2. d \in Seq(Cells) /\ (w >= 0 => Len(d) = w)
        <5>1. \A j \in 1..w : (IF j <= m THEN f.data[j] ELSE Zero) \in Cells
          <6>1. Zero \in Cells
            BY DEF Zero, Cells
          <6>2. \A j \in 1..m : f.data[j] \in Cells
            BY <3>f, ElementOfSeq
          <6> QED
            BY <6>1, <6>2
        <5>2. CASE w >= 0
          <6>1. d \in [1..w -> Cells] /\ w \in Nat
            BY <4>d, <5>1, <5>2
          <6> QED
            BY ONLY <6>1
        <5>3. CASE ~(w >= 0)
          <6>1. 1..w = 1..0
            BY <5>3
          <6>2. d \in [1..0 -> Cells]
            BY <4>d, <5>1, <6>1
          <6>3. d \in Seq(Cells)
            BY ONLY <6>2
          <6> QED
            BY <5>3, <6>3
        <5> QED
          BY <5>2, <5>3
      <4>g. PICK g : g = Raw(i)
        OBVIOUS
      <4>3. g.data = d /\ g.payload = d
        BY <3>f, <4>1, <4>g DEF Fragment
      <4> HIDE DEF Raw
      <4>4. ASSUME Sound(b)
            PROVE  /\ Len(d) = Piece(b, i) /\ Piece(b, i) = e
                   /\ \A j \in 1..e : d[j] = f.data[j] /\ h + j = j
        <5>1. w = e /\ c = m /\ Piece(b, i) = e /\ e \in 1..m
          BY <1>e, <2>1, <3>2, <4>4
        <5>2. \A j \in 1..e : j \in 1..w /\ j <= m /\ h + j = j
          BY <1>4, <5>1
        <5> QED
          BY <4>2, <4>d, <5>1, <5>2
      <4> QED
        BY <1>4, <3>f, <4>2, <4>3, <4>4, <4>g
    <3> QED
      BY <3>1, <3>2
  <2>s. PICK fs : fs = [i \in DOMAIN b.frags |-> Raw(i)]
    OBVIOUS
  <2>4. DOMAIN fs = 1..n /\ \A i \in 1..n : Good(fs[i], i)
    <3> HIDE DEF Raw, Good
    <3> QED
      BY <1>2, <2>3, <2>s
  <2>5. Len(fs) = n
    <3> HIDE DEF Raw
    <3> QED
      BY <1>2, <2>s
  <2>6. p = [b EXCEPT !.frags = fs]
    BY <2>2, <2>s
  <2>7. /\ SameLayout(p, b) /\ p.size = b.size /\ p.windex = b.windex /\ p.woffset = b.woffset
        /\ p.frags = fs
    BY <1>1, <2>6 DEF SameLayout, Buffers
  <2> QED
    BY <1>n, <2>4, <2>5, <2>7
<1>5. CASE h # 0
  <2>1. b.heads > 0
    BY <1>5, <1>n
  <2>2. /\ SameLayout(p, b) /\ p.size = b.size /\ p.windex = b.windex /\ p.woffset = b.woffset
        /\ Len(p.frags) = n /\ DOMAIN p.frags = 1..n
        /\ \A i \in 1..n : SealOf(b, b.frags[i], p.frags[i], Piece(b, i))
    BY <1>n, <2>1, SealHeadsIs
  <2> QED
    BY <1>n, <2>2 DEF SealOf
<1> QED
  BY <1>4, <1>5

\* The concatenation of sequences, of any lengths.
LEMMA JoinIsSeq ==
    ASSUME NEW S, NEW ss, Len(ss) \in Nat \ {0}, \A i \in 1..Len(ss) : ss[i] \in Seq(S)
    PROVE  FlattenSeq(ss) \in Seq(S)
<1>n. PICK n \in Nat \ {0} : n = Len(ss)
  OBVIOUS
<1>f. PICK f : /\ f[1] = ss[1] /\ f[n] = FlattenSeq(ss)
               /\ \A i \in 2..n : f[i] = f[i - 1] \o ss[i]
  BY <1>n, FlattenUnfolds
<1> DEFINE Good == {i \in 0..(n - 1) : f[i + 1] \in Seq(S)}
<1>1. 0 \in Good
  <2>1. 1 \in 1..Len(ss) /\ 0 \in 0..(n - 1) /\ 0 + 1 = 1
    BY <1>n
  <2> QED
    BY <1>f, <2>1
<1>2. ASSUME NEW i \in 0..(n - 1 - 1), i \in Good PROVE i + 1 \in Good
  <2>1. i + 1 \in 0..(n - 1) /\ i + 1 + 1 \in 2..n /\ i + 1 + 1 - 1 = i + 1
    OBVIOUS
  <2>2. f[i + 1 + 1] = f[i + 1] \o ss[i + 1 + 1]
    <3>1. PICK j \in 2..n : j = i + 1 + 1 /\ j - 1 = i + 1
      BY <2>1
    <3>2. f[j] = f[j - 1] \o ss[j]
      BY <1>f
    <3> QED
      BY <3>1, <3>2
  <2>3. ss[i + 1 + 1] \in Seq(S) /\ f[i + 1] \in Seq(S)
    BY <1>2, <1>n, <2>1
  <2>4. f[i + 1] \o ss[i + 1 + 1] \in Seq(S)
    BY ONLY <2>3, ConcatProperties
  <2> QED
    BY <2>1, <2>2, <2>4
<1>3. \A i \in 0..(n - 1) : i \in Good
  <2> HIDE DEF Good
  <2>1. n - 1 \in Nat
    OBVIOUS
  <2> QED
    BY ONLY <1>1, <1>2, <2>1, Throughout
<1>4. n - 1 \in 0..(n - 1) /\ n - 1 + 1 = n
  OBVIOUS
<1> QED
  BY <1>3, <1>4, <1>f

\* n sequences of length c, of which the last may be shorter, with l elements.
Pieces(S, n, c, e, ss, l) ==
    /\ n \in Nat \ {0} /\ c \in Nat \ {0} /\ e \in 1..c
    /\ Len(ss) = n /\ \A i \in 1..n : ss[i] \in Seq(S)
    /\ (\A i \in 1..n : i < n => Len(ss[i]) = c) /\ Len(ss[n]) = e
    /\ l = c * (n - 1) + e

LEMMA JoinIs ==
    ASSUME NEW S, NEW n, NEW c, NEW e, NEW ss, NEW l, Pieces(S, n, c, e, ss, l)
    PROVE  /\ FlattenSeq(ss) \in Seq(S) /\ Len(FlattenSeq(ss)) = l
           /\ \A k \in 1..l : FlattenSeq(ss)[k] = ss[Row(k, c) + 1][Col(k, c) + 1]
<1> SUFFICES ASSUME n \in Nat \ {0}, c \in Nat \ {0}, e \in 1..c, Len(ss) = n,
                    \A i \in 1..n : ss[i] \in Seq(S),
                    \A i \in 1..n : i < n => Len(ss[i]) = c, Len(ss[n]) = e,
                    l = c * (n - 1) + e
             PROVE  /\ FlattenSeq(ss) \in Seq(S) /\ Len(FlattenSeq(ss)) = l
                    /\ \A k \in 1..l : FlattenSeq(ss)[k] = ss[Row(k, c) + 1][Col(k, c) + 1]
  BY DEF Pieces
<1>f. PICK f : /\ f[1] = ss[1] /\ f[n] = FlattenSeq(ss)
               /\ \A i \in 2..n : f[i] = f[i - 1] \o ss[i]
  BY FlattenUnfolds
<1> DEFINE Joined(t, i) ==
             /\ t \in Seq(S) /\ Len(t) = c * i + Len(ss[i + 1])
             /\ \A k \in 1..Len(t) : t[k] = ss[Row(k, c) + 1][Col(k, c) + 1]
           Good == {i \in 0..(n - 1) : Joined(f[i + 1], i)}
<1>1. 0 \in Good
  <2>1. 1 \in 1..n /\ 0 \in 0..(n - 1) /\ 0 + 1 = 1 /\ c * 0 = 0
    OBVIOUS
  <2>t. PICK t : t = ss[1]
    OBVIOUS
  <2>2. t \in Seq(S) /\ Len(t) \in 1..c /\ f[0 + 1] = t
    <3>1. Len(t) = c \/ Len(t) = e
      BY <2>1, <2>t
    <3> QED
      BY <1>f, <2>1, <2>t, <3>1
  <2>3. \A k \in 1..Len(t) : Row(k, c) + 1 = 1 /\ Col(k, c) + 1 = k
    <3>1. ASSUME NEW k \in 1..Len(t) PROVE Row(k, c) + 1 = 1 /\ Col(k, c) + 1 = k
      <4>1. k \in Nat \ {0} /\ k - 1 \in 0..(c - 1) /\ k - 1 = c * 0 + (k - 1) /\ 0 \in Nat
            /\ c \in Nat \ {0}
        BY <2>2
      <4>2. Row(k, c) = 0 /\ Col(k, c) = k - 1
        BY ONLY <4>1, OneRow
      <4> QED
        BY <4>1, <4>2
    <3> QED
      BY <3>1
  <2>4. Joined(t, 0)
    <3>1. Len(t) = c * 0 + Len(ss[0 + 1])
      BY <2>1, <2>2, <2>t
    <3> QED
      BY <2>2, <2>3, <2>t, <3>1
  <2> HIDE DEF Joined
  <2> QED
    BY <2>1, <2>2, <2>4
<1>2. ASSUME NEW i \in 0..(n - 1 - 1), i \in Good PROVE i + 1 \in Good
  <2>1. i + 1 \in 0..(n - 1) /\ i + 1 \in 1..n /\ i + 1 < n /\ i + 1 + 1 \in 2..n
        /\ i + 1 + 1 - 1 = i + 1 /\ i + 1 + 1 \in 1..n
    OBVIOUS
  <2>t. PICK s, t, u : s = f[i + 1] /\ t = ss[i + 1 + 1] /\ u = f[i + 1 + 1]
    OBVIOUS
  <2>2. u = s \o t
    <3>1. PICK j \in 2..n : j = i + 1 + 1 /\ j - 1 = i + 1
      BY <2>1
    <3>2. f[j] = f[j - 1] \o ss[j]
      BY <1>f
    <3> QED
      BY <2>t, <3>1, <3>2
  <2>l. PICK q \in Nat : q = c * (i + 1) /\ q = c * i + c
    <3>1. c * (i + 1) = c * i + c /\ c * (i + 1) \in Nat
      OBVIOUS
    <3> QED
      BY <3>1
  <2>3. /\ s \in Seq(S) /\ Len(s) = q
        /\ \A k \in 1..q : s[k] = ss[Row(k, c) + 1][Col(k, c) + 1]
    <3>1. Joined(s, i)
      BY <1>2, <2>t
    <3>2. Len(ss[i + 1]) = c
      BY <2>1
    <3>3. Len(s) = c * i + c
      BY <3>1, <3>2
    <3> QED
      BY <2>l, <3>1, <3>3
  <2>m. PICK m \in 1..c : m = Len(t) /\ t \in Seq(S)
    <3>1. Len(t) = c \/ Len(t) = e
      <4>1. PICK j \in 1..n : j = i + 1 + 1
        BY <2>1
      <4> QED
        BY <2>t, <4>1
    <3> QED
      BY <2>1, <2>t, <3>1
  <2>4. /\ u \in Seq(S) /\ Len(u) = q + m
        /\ \A k \in 1..(q + m) : u[k] = IF k <= q THEN s[k] ELSE t[k - q]
    BY ONLY <2>2, <2>3, <2>m, ConcatProperties
  <2>5. ASSUME NEW k \in 1..(q + m) PROVE u[k] = ss[Row(k, c) + 1][Col(k, c) + 1]
    <3>1. CASE k <= q
      BY <2>3, <2>4, <3>1
    <3>2. CASE ~(k <= q)
      <4>1. k \in Nat \ {0} /\ k - q - 1 \in 0..(c - 1) /\ i + 1 \in Nat
            /\ c \in Nat \ {0}
        BY <3>2
      <4>2. k - 1 = q + (k - q - 1)
        OBVIOUS
      <4>3. k - 1 = c * (i + 1) + (k - q - 1)
        BY <2>l, <4>2
      <4>4. Row(k, c) = i + 1 /\ Col(k, c) = k - q - 1
        BY ONLY <4>1, <4>3, OneRow
      <4>5. k - q - 1 + 1 = k - q
        BY <4>1
      <4> QED
        BY <2>4, <2>t, <3>2, <4>4, <4>5
    <3> QED
      BY <3>1, <3>2
  <2>6. Joined(u, i + 1)
    <3>1. Len(u) = c * (i + 1) + Len(ss[i + 1 + 1])
      BY <2>4, <2>l, <2>m, <2>t
    <3> QED
      BY <2>4, <2>5, <3>1
  <2> HIDE DEF Joined
  <2> QED
    BY <2>1, <2>6, <2>t
<1>3. \A i \in 0..(n - 1) : i \in Good
  <2> HIDE DEF Good
  <2>1. n - 1 \in Nat
    OBVIOUS
  <2> QED
    BY ONLY <1>1, <1>2, <2>1, Throughout
<1>t. PICK t : t = FlattenSeq(ss)
  OBVIOUS
<1>4. n - 1 \in 0..(n - 1) /\ n - 1 + 1 = n /\ n \in 1..n /\ ~(n < n)
  OBVIOUS
<1>5. Joined(t, n - 1)
  <2> HIDE DEF Joined
  <2> QED
    BY <1>3, <1>4, <1>f, <1>t
<1>6. Len(ss[n - 1 + 1]) = e
  BY <1>4
<1>7. Len(t) = l
  BY <1>5, <1>6
<1> QED
  BY <1>5, <1>7, <1>t

\* The payload of a message that Finish sealed is the message.
LEMMA PayloadIs ==
    ASSUME NEW b, Shaped(b), b.size # 0
    PROVE  /\ Payload(Sealed(b)) \in Seq(Cells)
           /\ Sound(b) => /\ Len(Payload(Sealed(b))) = b.size
                          /\ \A k \in 1..b.size : Payload(Sealed(b))[k] = CellAt(b, k)
<1>p. PICK p : p = Sealed(b)
  OBVIOUS
<1>1. /\ Len(p.frags) = Len(b.frags) /\ DOMAIN p.frags = 1..Len(b.frags)
      /\ \A i \in 1..Len(b.frags) :
            /\ p.frags[i].data \in Seq(Cells) /\ p.frags[i].payload \in Seq(Cells)
            /\ Sound(b) => /\ Len(p.frags[i].payload) = Piece(b, i)
                           /\ \A j \in 1..Piece(b, i) :
                                 p.frags[i].payload[j] = b.frags[i].data[b.heads + j]
  BY <1>p, SealedIs
<1>2. /\ b \in Buffers /\ Len(b.frags) \in Nat \ {0} /\ b.heads \in Nat
      /\ RoomFor(b) \in Nat \ {0} /\ b.size \in Nat \ {0}
      /\ \A i \in 1..Len(b.frags) : Piece(b, i) \in 1..RoomFor(b)
      /\ b.size = RoomFor(b) * (Len(b.frags) - 1) + Piece(b, Len(b.frags))
  BY ShapedIs
<1>n. PICK n \in Nat \ {0}, h \in Nat, c \in Nat \ {0}, s \in Nat \ {0} :
          n = Len(b.frags) /\ h = b.heads /\ c = RoomFor(b) /\ s = b.size
  BY <1>2
<1>ss. PICK ss : ss = [i \in DOMAIN p.frags |-> p.frags[i].payload]
  OBVIOUS
<1>3. Len(ss) = n /\ \A i \in 1..n : ss[i] = p.frags[i].payload /\ ss[i] \in Seq(Cells)
  BY <1>1, <1>n, <1>ss
<1>4. Payload(p) = FlattenSeq(ss)
  BY <1>ss DEF Payload
<1>5. FlattenSeq(ss) \in Seq(Cells)
  <2>1. Len(ss) \in Nat \ {0} /\ \A i \in 1..Len(ss) : ss[i] \in Seq(Cells)
    BY <1>3
  <2> QED
    BY ONLY <2>1, JoinIsSeq
<1>6. ASSUME Sound(b)
      PROVE  /\ Len(FlattenSeq(ss)) = s
             /\ \A k \in 1..s : FlattenSeq(ss)[k] = CellAt(b, k)
  <2>e. PICK e \in 1..c : e = Piece(b, n)
    BY <1>2, <1>n
  <2>1. \A i \in 1..n : Piece(b, i) = IF i < n THEN c ELSE e
    BY <1>n, <2>e DEF Piece
  <2>2. /\ \A i \in 1..n : ss[i] \in Seq(Cells)
        /\ \A i \in 1..n : i < n => Len(ss[i]) = c
        /\ Len(ss[n]) = e
    <3>1. \A i \in 1..n : Len(ss[i]) = Piece(b, i)
      BY <1>1, <1>3, <1>6, <1>n
    <3> QED
      BY <1>3, <2>1, <3>1
  <2>4. s = c * (n - 1) + e
    BY <1>2, <1>n, <2>e
  <2>3. /\ FlattenSeq(ss) \in Seq(Cells) /\ Len(FlattenSeq(ss)) = s
        /\ \A k \in 1..s : FlattenSeq(ss)[k] = ss[Row(k, c) + 1][Col(k, c) + 1]
    <3>1. Len(ss) = n
      BY <1>3
    <3>2. Pieces(Cells, n, c, e, ss, s)
      BY ONLY <2>2, <2>4, <3>1 DEF Pieces
    <3> QED
      BY ONLY <3>2, JoinIs
  <2>5. ASSUME NEW k \in 1..s PROVE FlattenSeq(ss)[k] = CellAt(b, k)
    <3>1. FlattenSeq(ss)[k] = ss[Row(k, c) + 1][Col(k, c) + 1]
      BY <2>3, <2>4
    <3>r. PICK r \in Nat, q \in 0..(c - 1) :
              r = Row(k, c) /\ q = Col(k, c) /\ k - 1 = c * r + q
      <4>1. k \in Nat \ {0}
        OBVIOUS
      <4> QED
        BY ONLY <4>1, RowIs
    <3>2. r + 1 \in 1..n /\ q + 1 \in 1..(IF r + 1 < n THEN c ELSE e)
      <4>w. PICK w \in Nat : w = n - 1
        OBVIOUS
      <4>1. c * r + q < c * w + e
        BY <2>4, <3>r, <4>w
      <4>2. r <= w
        <5>1. CASE r > w
          <6>d. PICK d \in Nat : r = w + 1 + d
            <7>1. r - w - 1 \in Nat /\ r = w + 1 + (r - w - 1)
              BY <5>1
            <7> QED
              BY <7>1
          <6>1. c * r = c * w + c + c * d /\ c * d \in Nat /\ c * w \in Nat
            BY <6>d
          <6>p. PICK x \in Nat, y \in Nat, z \in Int : x = c * w /\ y = c * d /\ z = c * r
            BY <6>1
          <6>2. z = x + c + y /\ z + q < x + e
            BY <4>1, <6>1, <6>p
          <6> QED
            BY ONLY <6>2
        <5> QED
          BY <5>1
      <4>3. r = w => q < e
        <5>p. PICK x \in Int, y \in Int : x = c * w /\ y = c * r
          OBVIOUS
        <5>1. y + q < x + e /\ (r = w => y = x)
          BY <4>1, <5>p
        <5> QED
          BY ONLY <5>1
      <4> QED
        BY ONLY <4>2, <4>3, <4>w
    <3>3. ss[r + 1][q + 1] = b.frags[r + 1].data[h + (q + 1)]
      <4>1. /\ Len(p.frags[r + 1].payload) = Piece(b, r + 1)
            /\ \A j \in 1..Piece(b, r + 1) :
                  p.frags[r + 1].payload[j] = b.frags[r + 1].data[b.heads + j]
        BY <1>1, <1>6, <1>n, <3>2
      <4>2. q + 1 \in 1..Piece(b, r + 1) /\ ss[r + 1] = p.frags[r + 1].payload
        BY <1>3, <2>1, <3>2
      <4> QED
        BY <1>n, <4>1, <4>2
    <3>4. CellAt(b, k) = b.frags[r + 1].data[h + q + 1]
      BY <1>n, <3>r DEF CellAt, FragOf, ByteOf
    <3>5. h + (q + 1) = h + q + 1
      OBVIOUS
    <3> QED
      BY <3>1, <3>3, <3>4, <3>5, <3>r
  <2> QED
    BY <2>3, <2>4, <2>5
<1> QED
  BY <1>4, <1>5, <1>6, <1>n, <1>p

\* Finish leaves alone what is not a fragment.
LEMMA SealedKeeps ==
    ASSUME NEW b, b.size # 0
    PROVE  \E fs : Sealed(b) = [b EXCEPT !.frags = fs]
<1>1. Sealed(b) = SealRaw(b) \/ Sealed(b) = SealHeads(b)
  BY DEF Sealed
<1>2. \E fs : SealRaw(b) = [b EXCEPT !.frags = fs]
  BY DEF SealRaw
<1>3. \E fs : SealHeads(b) = [b EXCEPT !.frags = fs]
  BY DEF SealHeads
<1> QED
  BY <1>1, <1>2, <1>3

----------------------------------------------------------------------------
(* Split and Merge *)

\* x is what Split makes of the sealed b, before it is sealed again.
Cuts(x, b, m) == /\ Shaped(b) /\ b.size # 0 /\ m \in Nat /\ m > b.heads + b.checksum
                 /\ x = Cut(Sealed(b), m)

\* Cutting a sealed message is saving its payload in a Buffer of the new mtu.
LEMMA CutIs ==
    ASSUME NEW b, NEW m, NEW x, Cuts(x, b, m), NEW y, y = Payload(Sealed(b))
    PROVE  /\ Shaped(x) /\ x.mtu = m /\ x.heads = b.heads /\ x.checksum = b.checksum
           /\ x.sizet = b.sizet /\ x.sizea = b.sizea /\ x.size = Len(y)
           /\ \A i \in 1..Len(x.frags) : Headed(x.frags[i], x.heads)
           /\ y \in Seq(Cells) /\ \A k \in 1..Len(y) : CellAt(x, k) = y[k]
<1>a. /\ Shaped(b) /\ b.size # 0 /\ m \in Nat /\ m > b.heads + b.checksum
      /\ x = Cut(Sealed(b), m)
  BY DEF Cuts
<1>1. /\ b \in Buffers /\ b.heads \in Nat /\ b.checksum \in Nat
      /\ b.sizet \in Int /\ b.sizea \in Int
  BY <1>a DEF Shaped, Buffers
<1>fs. PICK fs : Sealed(b) = [b EXCEPT !.frags = fs]
  BY <1>a, SealedKeeps
<1>o. PICK o : o = 0
  OBVIOUS
<1>e. PICK e : e = [mtu |-> m, heads |-> b.heads, checksum |-> b.checksum, sizet |-> b.sizet,
                    sizea |-> b.sizea, frags |-> <<>>, windex |-> o, woffset |-> o, size |-> o]
  OBVIOUS
<1>2. [Sealed(b) EXCEPT !.mtu = m, !.size = o, !.windex = o, !.woffset = o, !.frags = <<>>] = e
  <2>1. b = [mtu |-> b.mtu, heads |-> b.heads, checksum |-> b.checksum, sizet |-> b.sizet,
             sizea |-> b.sizea, frags |-> b.frags, windex |-> b.windex, woffset |-> b.woffset,
             size |-> b.size]
    BY <1>1 DEF Buffers
  <2>g0. PICK g0 : g0 = Sealed(b)
    OBVIOUS
  <2>g1. PICK g1 : g1 = [g0 EXCEPT !.mtu = m]
    OBVIOUS
  <2>g2. PICK g2 : g2 = [g1 EXCEPT !.size = o]
    OBVIOUS
  <2>g3. PICK g3 : g3 = [g2 EXCEPT !.windex = o]
    OBVIOUS
  <2>g4. PICK g4 : g4 = [g3 EXCEPT !.woffset = o]
    OBVIOUS
  <2>2. g0 = [mtu |-> b.mtu, heads |-> b.heads, checksum |-> b.checksum, sizet |-> b.sizet,
              sizea |-> b.sizea, frags |-> fs, windex |-> b.windex, woffset |-> b.woffset,
              size |-> b.size]
    BY ONLY <1>fs, <2>1, <2>g0
  <2>3. g1 = [mtu |-> m, heads |-> b.heads, checksum |-> b.checksum, sizet |-> b.sizet,
              sizea |-> b.sizea, frags |-> fs, windex |-> b.windex, woffset |-> b.woffset,
              size |-> b.size]
    BY ONLY <2>2, <2>g1
  <2>4. g2 = [mtu |-> m, heads |-> b.heads, checksum |-> b.checksum, sizet |-> b.sizet,
              sizea |-> b.sizea, frags |-> fs, windex |-> b.windex, woffset |-> b.woffset,
              size |-> o]
    BY ONLY <2>3, <2>g2
  <2>5. g3 = [mtu |-> m, heads |-> b.heads, checksum |-> b.checksum, sizet |-> b.sizet,
              sizea |-> b.sizea, frags |-> fs, windex |-> o, woffset |-> b.woffset, size |-> o]
    BY ONLY <2>4, <2>g3
  <2>6. g4 = [mtu |-> m, heads |-> b.heads, checksum |-> b.checksum, sizet |-> b.sizet,
              sizea |-> b.sizea, frags |-> fs, windex |-> o, woffset |-> o, size |-> o]
    BY ONLY <2>5, <2>g4
  <2>7. [g4 EXCEPT !.frags = <<>>] = e
    BY ONLY <1>e, <2>6
  <2>8. [g0 EXCEPT !.mtu = m, !.size = o, !.windex = o, !.woffset = o, !.frags = <<>>]
          = [g4 EXCEPT !.frags = <<>>]
    BY ONLY <2>g1, <2>g2, <2>g3, <2>g4
  <2> QED
    BY ONLY <2>7, <2>8, <2>g0
<1>3. x = PutAll(e, y)
  BY <1>2, <1>a, <1>o DEF Cut
<1>4. /\ e.mtu = m /\ e.heads = b.heads /\ e.checksum = b.checksum /\ e.sizet = b.sizet
      /\ e.sizea = b.sizea /\ e.frags = <<>> /\ e.windex = 0 /\ e.woffset = 0 /\ e.size = 0
  BY ONLY <1>e, <1>o
<1>5. Shaped(e)
  <2>h. PICK h \in Nat, k \in Nat : h = b.heads /\ k = b.checksum
    BY <1>1
  <2>1. m \in Nat \ {0} /\ m - h - k > 0
    BY <1>a, <2>h
  <2>2. e \in Buffers
    <3>1. <<>> \in Seq(Fragment)
      OBVIOUS
    <3> QED
      BY <1>1, <1>e, <1>o, <2>1, <3>1 DEF Buffers
  <2>3. RoomFor(e) > 0
    BY <1>4, <2>1, <2>h DEF RoomFor
  <2>4. Len(e.frags) = 0
    BY <1>4
  <2> QED
    BY <1>4, <2>2, <2>3, <2>4 DEF Shaped
<1>6. y \in Seq(Cells)
  BY <1>a, PayloadIs
<1>7. /\ Shaped(x) /\ Grown(x, e, Len(y)) /\ \A j \in 1..Len(y) : CellAt(x, e.size + j) = y[j]
  BY ONLY <1>3, <1>5, <1>6, PutAllAppends
<1>8. Len(e.frags) = 0 /\ Len(y) \in Nat
  BY <1>4, <1>6
<1>n. PICK n : n = Len(y) /\ n \in Nat
  BY <1>8
<1>9. SameLayout(x, e) /\ x.size = n
  BY <1>4, <1>7, <1>n DEF Grown
<1>10. \A i \in 1..Len(x.frags) : Headed(x.frags[i], x.heads)
  <2>1. ASSUME NEW i \in 1..Len(x.frags) PROVE Headed(x.frags[i], x.heads)
    <3>1. ~(i <= Len(e.frags))
      BY <1>8
    <3>2. Headed(x.frags[i], e.heads)
      BY <1>7, <3>1 DEF Grown
    <3> QED
      BY <1>9, <3>2 DEF SameLayout
  <2> QED
    BY <2>1
<1>11. \A k \in 1..Len(y) : CellAt(x, k) = y[k]
  <2>1. \A k \in 1..Len(y) : e.size + k = k
    BY <1>4
  <2> QED
    BY <1>7, <2>1
<1> QED
  BY <1>4, <1>6, <1>7, <1>9, <1>10, <1>11, <1>n DEF SameLayout

\* What is cut has the same payload when it is sealed again.
LEMMA RecutIs ==
    ASSUME NEW b, NEW m, NEW x, Cuts(x, b, m), Sound(b)
    PROVE  x.size = b.size /\ Sound(x) /\ Payload(Sealed(x)) = Payload(Sealed(b))
<1>y. PICK y : y = Payload(Sealed(b))
  OBVIOUS
<1>1. y \in Seq(Cells) /\ Len(y) = b.size
  BY <1>y, PayloadIs DEF Cuts
<1>2. /\ Shaped(x) /\ x.heads = b.heads /\ x.checksum = b.checksum /\ x.size = Len(y)
      /\ \A k \in 1..Len(y) : CellAt(x, k) = y[k]
  <2>1. Cuts(x, b, m)
    OBVIOUS
  <2> QED
    BY ONLY <1>y, <2>1, CutIs
<1>3. Sound(x) /\ x.size # 0
  BY <1>1, <1>2 DEF Sound, Cuts
<1>z. PICK z : z = Payload(Sealed(x))
  OBVIOUS
<1>4. z \in Seq(Cells) /\ Len(z) = x.size /\ \A k \in 1..x.size : z[k] = CellAt(x, k)
  BY <1>2, <1>3, <1>z, PayloadIs
<1>5. Len(z) = Len(y) /\ \A k \in 1..Len(z) : z[k] = y[k]
  BY <1>2, <1>4
<1>6. z = y
  BY ONLY <1>1, <1>4, <1>5, SeqEqual
<1> QED
  BY <1>1, <1>2, <1>3, <1>6, <1>y, <1>z

\* An mtu with room for the whole message makes one fragment of it.
LEMMA OneFragment ==
    ASSUME NEW x, Shaped(x), x.size # 0, RoomFor(x) = x.size
    PROVE  Len(x.frags) = 1
<1>1. x.size \in Nat \ {0} /\ Len(x.frags) = FragOf(x, x.size)
  BY DEF Shaped, Buffers
<1>s. PICK s \in Nat \ {0} : s = x.size
  BY <1>1
<1>2. s - 1 \in 0..(s - 1) /\ s - 1 = s * 0 + (s - 1) /\ 0 \in Nat
  OBVIOUS
<1>3. Row(s, s) = 0
  BY ONLY <1>2, OneRow
<1> QED
  BY <1>1, <1>3, <1>s DEF FragOf

----------------------------------------------------------------------------
(* What a receiver requires *)

\* The ids of the fragments, while they can be told apart.
LEMMA FIDsAreLegal ==
    ASSUME NEW b, Shaped(b), b.heads > 0, Len(b.frags) <= Int16Max, NEW p, p = Sealed(b)
    PROVE  FIDs(p) = LegalFIDs(Len(p.frags))
<1>1. CASE b.size = 0
  <2>1. p.frags = <<>>
    BY <1>1 DEF Sealed, Shaped
  <2>2. DOMAIN p.frags = {} /\ 1..Len(p.frags) = {}
    BY <2>1
  <2> QED
    BY <2>2 DEF FIDs, LegalFIDs
<1>2. CASE b.size # 0
  <2>n. PICK n \in Nat \ {0} : n = Len(b.frags)
    BY <1>2, ShapedIs
  <2>1. /\ Len(p.frags) = n /\ DOMAIN p.frags = 1..n
        /\ \A i \in 1..n : /\ i # n => p.frags[i].fid = b.frags[i].fid
                           /\ i = n => p.frags[i].fid = Int16(-i)
    BY <1>2, <2>n, SealHeadsIs
  <2>2. ASSUME NEW i \in 1..n PROVE p.frags[i].fid = IF i = n THEN -n ELSE i
    <3>1. Int16Max \in Nat /\ n <= Int16Max
      BY <2>n, BufferWriteAssumption
    <3>2. i \in Int /\ -i \in Int /\ i \in -Int16Max..Int16Max /\ -i \in -Int16Max..Int16Max
      BY <3>1
    <3>3. Int16(i) = i
      BY ONLY <3>2, Int16Is
    <3>4. Int16(-i) = -i
      BY ONLY <3>2, Int16Is
    <3>5. b.frags[i].fid = Int16(i)
      BY <2>n DEF Shaped, Numbered
    <3> QED
      BY <2>1, <3>3, <3>4, <3>5
  <2> QED
    BY <2>1, <2>2 DEF FIDs, LegalFIDs
<1> QED
  BY <1>1, <1>2

\* Legible, of a Buffer that is not the state's.
LegibleIn(b, g) ==
    /\ \A j \in 1..b.heads : g.data[j] = HeadByte(j)
    /\ g.sizet = g.sizea + SizeaLen
    /\ g.checksum = [at |-> b.heads + Len(g.payload),
                     over |-> Covered(g, b.heads + Len(g.payload))]

\* A message with headers, whose lengths a std::int16_t holds.
Lengthy(b) ==
    /\ Shaped(b) /\ b.size # 0 /\ b.heads > 0 /\ b.sizet - SizeaLen \in Nat
    /\ b.sizea = Int16(b.sizet - SizeaLen)
    /\ b.mtu <= Int16Max /\ b.sizet <= Int16Max + SizeaLen

\* What Finish seals under a whole header can be parsed, up to the length that the header
\* of a full fragment states, which is the one that Prepare computed.
LEMMA SealedIsLegible ==
    ASSUME NEW b, Lengthy(b), NEW p, p = Sealed(b), NEW i \in 1..Len(b.frags),
           Headed(b.frags[i], b.heads)
    PROVE  /\ LegibleIn(b, p.frags[i])
           /\ i = Len(b.frags) \/ b.sizet - SizeaLen = RoomFor(b) =>
                 p.frags[i].sizea = Len(p.frags[i].payload)
<1>1. /\ Shaped(b) /\ b.size # 0 /\ b.heads > 0 /\ b.sizet - SizeaLen \in Nat
      /\ b.sizea = Int16(b.sizet - SizeaLen)
      /\ b.mtu <= Int16Max /\ b.sizet <= Int16Max + SizeaLen
  BY DEF Lengthy
<1>2. /\ b \in Buffers /\ b.frags \in Seq(Fragment) /\ Len(b.frags) \in Nat \ {0}
      /\ b.mtu \in Nat \ {0} /\ b.heads \in Nat /\ b.checksum \in Nat
      /\ RoomFor(b) \in Nat \ {0} /\ b.mtu = b.heads + RoomFor(b) + b.checksum
      /\ \A j \in 1..Len(b.frags) : Piece(b, j) \in 1..RoomFor(b)
  BY <1>1, ShapedIs
<1>n. PICK n \in Nat \ {0}, h \in Nat, c \in Nat \ {0} :
          n = Len(b.frags) /\ h = b.heads /\ c = RoomFor(b)
  BY <1>2
<1>e. PICK e \in 1..c : e = Piece(b, i)
  BY <1>2, <1>n
<1>fg. PICK f, g : f = b.frags[i] /\ g = p.frags[i]
  OBVIOUS
<1>3. /\ SealOf(b, f, g, e)
      /\ i # n => g.sizet = f.sizet /\ g.sizea = f.sizea
      /\ i = n => g.sizet = e + SizeaLen /\ g.sizea = Int16(e)
  BY <1>1, <1>e, <1>fg, <1>n, SealHeadsIs
<1>4. f.sizet = b.sizet /\ f.sizea = b.sizea
  BY <1>1, <1>fg DEF Shaped, Numbered
<1>5. i # n => e = c
  BY <1>e, <1>n DEF Piece
<1>6. e \in -Int16Max..Int16Max
  <2>1. PICK m \in Nat, k \in Nat : m = b.mtu /\ k = b.checksum
    BY <1>2
  <2>2. m = h + c + k /\ m <= Int16Max /\ Int16Max \in Nat
    BY <1>1, <1>2, <1>n, <2>1, BufferWriteAssumption
  <2> QED
    BY ONLY <2>2
<1>7. Int16(e) = e
  <2>1. e \in Int
    OBVIOUS
  <2> QED
    BY ONLY <1>6, <2>1, Int16Is
<1>8. SizeaLen \in Nat /\ Int16Max \in Nat
  BY BufferWriteAssumption
<1>9. b.sizea = b.sizet - SizeaLen /\ b.sizet = b.sizea + SizeaLen
  <2>1. PICK t \in Int, u \in Nat : t = b.sizet /\ u = t - SizeaLen
    BY <1>1, <1>2 DEF Buffers
  <2>2. u \in -Int16Max..Int16Max /\ u \in Int
    <3>1. t <= Int16Max + SizeaLen
      BY <1>1, <2>1
    <3>2. u = t - SizeaLen
      BY <2>1
    <3> QED
      BY ONLY <1>8, <3>1, <3>2
  <2>3. Int16(u) = u
    BY ONLY <2>2, Int16Is
  <2>4. t = u + SizeaLen
    <3>1. u = t - SizeaLen
      BY <2>1
    <3> QED
      BY ONLY <1>8, <3>1
  <2> QED
    BY <1>1, <2>1, <2>3, <2>4
<1>10. \A j \in 1..b.heads : g.data[j] = HeadByte(j)
  <2>1. ASSUME NEW j \in 1..h PROVE g.data[j] = HeadByte(j)
    <3>1. j \in 1..(h + e)
      OBVIOUS
    <3>2. g.data[j] = f.data[j]
      BY <1>3, <1>n, <3>1 DEF SealOf
    <3>3. f.data[j] = HeadByte(j)
      BY <1>fg, <1>n DEF Headed
    <3> QED
      BY <3>2, <3>3
  <2> QED
    BY <1>n, <2>1
<1>11. g.sizet = g.sizea + SizeaLen
  BY <1>3, <1>4, <1>7, <1>9
<1>12. /\ Len(g.payload) = e
       /\ g.checksum = [at |-> b.heads + e, over |-> Covered(g, b.heads + e)]
  BY <1>3 DEF SealOf
<1>13. LegibleIn(b, g)
  BY <1>10, <1>11, <1>12 DEF LegibleIn
<1>14. i = n => g.sizea = e
  BY <1>3, <1>7
<1>15. i # n /\ b.sizet - SizeaLen = c => g.sizea = e
  BY <1>3, <1>4, <1>5, <1>9
<1> QED
  BY <1>12, <1>13, <1>14, <1>15, <1>fg, <1>n

----------------------------------------------------------------------------
(* The invariant *)

\* The lengths that Prepare sets.
Measured(b) ==
    /\ b.heads \in {0} \cup HeadLens /\ b.checksum \in {0, ChecksumLen}
    /\ b.heads > 0 => b.sizea = Int16(b.sizet - SizeaLen)

\* Before Finish: nothing can be appended, or the message is in place.
Blocked(b) == b \in Buffers /\ b.frags = <<>> /\ b.windex = 0 /\ b.woffset = 0 /\ b.size = 0
Fits(b)    == b.heads > 0 => b.sizet - SizeaLen = RoomFor(b)
Saving(b, s, o) == IF NoRoom(b) THEN Blocked(b) /\ s = <<>> /\ o = <<>>
                                ELSE Placed(b, s, o) /\ Fits(b)

\* After Finish, of a Buffer w that the message was saved in.
SealedFrom(b, w, s) == b = Sealed(w) /\ Placed(w, s, <<>>) /\ Fits(w) /\ s # <<>>

\* After Split or Merge, of a Buffer w that its payload was saved in.
RecutFrom(b, w, s) ==
    /\ b = Sealed(w) /\ Shaped(w) /\ s \in Seq(Cells)
    /\ \A i \in 1..Len(w.frags) : Headed(w.frags[i], w.heads)
    /\ Sound(w) => w.size = Len(s)
    /\ w.heads > 0 => w.sizet - SizeaLen \in Nat

IInv ==
    /\ Measured(buf)
    /\ phase \in {"saving", "sealed", "recut", "threw", "wedged"}
    /\ phase \in {"saving", "wedged"} => Saving(buf, saved, open)
    /\ phase = "wedged" => NoRoom(buf)
    /\ phase \notin {"saving", "wedged"} => open = <<>>
    /\ phase = "sealed" => \E w : SealedFrom(buf, w, saved)
    /\ phase = "recut" => \E w : RecutFrom(buf, w, saved)
    /\ phase = "threw" => Shaped(buf) /\ saved \in Seq(Cells)

\* What Prepare sets stays, as nothing else assigns it.
LEMMA SameLengths ==
    ASSUME NEW b, NEW p, SameLayout(p, b)
    PROVE  /\ Measured(b) => Measured(p)
           /\ RoomFor(p) = RoomFor(b) /\ (Fits(b) => Fits(p)) /\ (Sound(b) <=> Sound(p))
BY DEF SameLayout, Measured, RoomFor, Fits, Sound

\* Where Append can place a byte.
LEMMA RoomIs ==
    ASSUME NEW b \in Buffers
    PROVE  b.heads > 0 => (NoRoom(b) <=> ~(RoomFor(b) > 0))
<1>1. PICK m \in Nat, h \in Nat, k \in Nat : m = b.mtu /\ h = b.heads /\ k = b.checksum
  BY DEF Buffers
<1>2. h + k >= m <=> ~(m - h - k > 0)
  OBVIOUS
<1> QED
  BY <1>1, <1>2 DEF NoRoom, RoomFor

\* A Buffer without fragments has all of an empty message in place.
LEMMA NothingPlaced ==
    ASSUME NEW b, Blocked(b), RoomFor(b) > 0
    PROVE  Placed(b, <<>>, <<>>)
<1>1. <<>> \in Seq(Cells) /\ Len(<<>>) = 0 /\ <<>> \in Seq(Frames) /\ 1..0 = {}
  OBVIOUS
<1>2. b.frags = <<>> /\ b.size = 0
  BY DEF Blocked
<1>3. Len(b.frags) = 0
  BY <1>2
<1>4. Shaped(b)
  BY <1>1, <1>2, <1>3 DEF Blocked, Shaped
<1> QED
  BY <1>1, <1>2, <1>3, <1>4 DEF Placed

\* With nothing saved there is nothing in the Buffer.
LEMMA NothingSaved ==
    ASSUME NEW b, NEW o, Placed(b, <<>>, o)
    PROVE  Blocked(b) /\ o = <<>> /\ RoomFor(b) > 0
<1>1. b.size = 0 /\ Shaped(b) /\ o \in Seq(Frames)
      /\ \A i \in 1..Len(o) : FrameIsSaved(o[i], b, <<>>)
  <2>1. Len(<<>>) = 0
    OBVIOUS
  <2> QED
    BY <2>1 DEF Placed
<1>2. Blocked(b) /\ RoomFor(b) > 0
  BY <1>1 DEF Blocked, Shaped
<1>3. o = <<>>
  <2>1. Len(<<>>) = 0 /\ 1..0 = {}
    OBVIOUS
  <2>2. \A f : ~FrameIsSaved(f, b, <<>>)
    BY <2>1 DEF FrameIsSaved
  <2>3. Len(o) = 0
    <3>1. CASE Len(o) # 0
      <4>1. 1 \in 1..Len(o)
        BY <1>1, <3>1
      <4> QED
        BY <1>1, <2>2, <4>1
    <3> QED
      BY <3>1
  <2> QED
    BY <1>1, <2>3, EmptySeq
<1> QED
  BY <1>2, <1>3

\* The bytes of a leaf, which are of no size field.
LEMMA LeavesAre ==
    ASSUME NEW k \in Nat, NEW n \in Nat
    PROVE  Leaves(k, n) \in Seq(Cells) /\ Len(Leaves(k, n)) = n /\ Reserved(Leaves(k, n))
<1>1. \A j \in 1..n : Leaf(k + j) \in Cells /\ Leaf(k + j)[1] = "leaf"
  BY DEF Leaf, Cells
<1>z. PICK z : z = Leaves(k, n)
  OBVIOUS
<1>2. z \in [1..n -> Cells] /\ \A j \in 1..n : z[j] = Leaf(k + j)
  BY <1>1, <1>z DEF Leaves
<1>3. z \in Seq(Cells) /\ Len(z) = n
  BY ONLY <1>2
<1>4. \A j \in 1..n : z[j][1] # "sizet"
  BY <1>1, <1>2
<1> QED
  BY <1>3, <1>4, <1>z DEF Reserved

\* The bytes of a size field that is reserved.
LEMMA ReservedField ==
    SizetField(0) \in Seq(Cells) /\ Len(SizetField(0)) = SizetLen /\ Reserved(SizetField(0))
<1>1. 0 \in Nat
  OBVIOUS
<1>2. /\ SizetField(0) \in Seq(Cells) /\ Len(SizetField(0)) = SizetLen
      /\ \A j \in 1..SizetLen : SizetField(0)[j] = SizetByte(0, j)
  BY ONLY <1>1, SizetFieldIs, BufferWriteAssumption
<1>3. \A j \in 1..SizetLen : SizetField(0)[j] = SizetByte(0, SizetField(0)[j][3])
  BY <1>2 DEF SizetByte
<1> QED
  BY <1>2, <1>3 DEF Reserved

LEMMA InitHolds == Init => IInv
<1> SUFFICES ASSUME Init PROVE IInv
  OBVIOUS
<1>1. PICK m \in Mtus : buf = EmptyBuffer(m)
  BY DEF Init
<1>2. saved = <<>> /\ open = <<>> /\ phase = "saving"
  BY DEF Init
<1>3. m \in Nat \ {0}
  BY BufferWriteAssumption
<1>4. /\ buf.heads = 0 /\ buf.checksum = 0 /\ buf.mtu = m
      /\ buf.frags = <<>> /\ buf.windex = 0 /\ buf.woffset = 0 /\ buf.size = 0
  BY <1>1 DEF EmptyBuffer
<1>5. buf \in Buffers
  <2>1. <<>> \in Seq(Fragment)
    OBVIOUS
  <2> QED
    BY <1>1, <1>3, <2>1 DEF EmptyBuffer, Buffers
<1>6. Placed(buf, <<>>, <<>>)
  <2>1. Blocked(buf)
    BY <1>4, <1>5 DEF Blocked
  <2>2. RoomFor(buf) > 0
    BY <1>3, <1>4 DEF RoomFor
  <2> QED
    BY <2>1, <2>2, NothingPlaced
<1>7. ~NoRoom(buf) /\ Fits(buf) /\ Measured(buf)
  BY <1>4 DEF NoRoom, Fits, Measured
<1>8. Saving(buf, saved, open)
  BY <1>2, <1>6, <1>7 DEF Saving
<1> QED
  BY <1>2, <1>7, <1>8 DEF IInv

\* A Buffer that was prepared, before anything is saved.
LEMMA PrepareHolds ==
    ASSUME IInv, NEW h \in HeadLens, Prepare(h)
    PROVE  IInv'
<1>1. /\ phase = "saving" /\ saved = <<>> /\ buf.heads = 0 /\ buf.checksum = 0
      /\ saved' = saved /\ open' = open /\ phase' = phase
  BY DEF Prepare
<1>2. Blocked(buf) /\ open = <<>>
  <2>1. Saving(buf, saved, open) /\ ~NoRoom(buf)
    BY <1>1 DEF IInv, NoRoom
  <2>2. Placed(buf, <<>>, open)
    BY <1>1, <2>1 DEF Saving
  <2> QED
    BY <2>2, NothingSaved
<1>3. buf \in Buffers
  BY <1>2 DEF Blocked
<1>m. PICK m \in Nat : m = Max2(buf.mtu, MinMtu) /\ m >= MinMtu /\ m # 0
  <2>1. buf.mtu \in Nat /\ MinMtu \in Nat \ {0}
    BY <1>3, BufferWriteAssumption DEF Buffers
  <2> QED
    BY <2>1 DEF Max2
<1>4. h \in Nat \ {0} /\ ChecksumLen \in Nat /\ SizeaLen \in Nat /\ ChecksumLen < m
  <2>1. ChecksumLen < MinMtu /\ MinMtu \in Nat /\ ChecksumLen \in Nat
    BY BufferWriteAssumption
  <2> QED
    BY <1>m, <2>1, BufferWriteAssumption
<1>a. PICK a \in Int : a = m - h - ChecksumLen
  BY <1>4
<1>f. PICK fits : fits = (h <= m /\ h <= Max2(m \div 3, MinMtu))
  OBVIOUS
<1>t. PICK t \in Int, u \in Int : t = a + SizeaLen /\ u = Int16(a)
  <2>1. Int16(a) \in Int
    BY ONLY Int16Is
  <2>2. a + SizeaLen \in Int
    BY <1>4
  <2> QED
    BY <2>1, <2>2
<1>b. \/ buf' = [buf EXCEPT !.mtu = m, !.checksum = ChecksumLen, !.heads = h,
                            !.sizet = t, !.sizea = u]
      \/ buf' = [buf EXCEPT !.mtu = m, !.checksum = ChecksumLen]
  BY <1>a, <1>m, <1>t DEF Prepare
<1>5. /\ buf'.mtu = m /\ buf'.checksum = ChecksumLen
      /\ buf'.frags = buf.frags /\ buf'.windex = buf.windex /\ buf'.woffset = buf.woffset
      /\ buf'.size = buf.size
      /\ \/ buf'.heads = h /\ buf'.sizet = t /\ buf'.sizea = u
         \/ buf'.heads = 0
      /\ buf' \in Buffers
  BY <1>1, <1>3, <1>4, <1>b, <1>m DEF Buffers
<1>6. Blocked(buf')
  BY <1>2, <1>5 DEF Blocked
<1>7. t - SizeaLen = a
  <2>1. t = a + SizeaLen
    BY <1>t
  <2> QED
    BY ONLY <1>4, <2>1
<1>8. Measured(buf')
  BY <1>5, <1>7, <1>t DEF Measured
<1>9. Fits(buf')
  <2>1. CASE buf'.heads = 0
    BY <2>1 DEF Fits
  <2>2. CASE buf'.heads = h /\ buf'.sizet = t
    BY <1>5, <1>7, <1>a, <2>2 DEF Fits, RoomFor
  <2> QED
    BY <1>5, <2>1, <2>2
<1>10. ~NoRoom(buf') => RoomFor(buf') > 0
  <2>1. CASE buf'.heads = 0
    <3>1. RoomFor(buf') = m - 0 - ChecksumLen
      BY <1>5, <2>1 DEF RoomFor
    <3> QED
      BY <1>4, <3>1
  <2>2. CASE buf'.heads = h
    <3>1. buf'.heads > 0
      BY <1>4, <2>2
    <3> QED
      BY <1>5, <3>1, RoomIs
  <2> QED
    BY <1>5, <2>1, <2>2
<1>11. Saving(buf', saved', open')
  <2>1. CASE NoRoom(buf')
    BY <1>1, <1>2, <1>6, <2>1 DEF Saving
  <2>2. CASE ~NoRoom(buf')
    <3>1. Placed(buf', <<>>, <<>>)
      BY <1>6, <1>10, <2>2, NothingPlaced
    <3> QED
      BY <1>1, <1>2, <1>9, <2>2, <3>1 DEF Saving
  <2> QED
    BY <2>1, <2>2
<1> QED
  BY <1>1, <1>8, <1>11 DEF IInv

\* While saving, what keeps the message in place keeps the invariant.
LEMMA SavingKept ==
    ASSUME NEW b, NEW s, NEW o, Measured(b), Saving(b, s, o), ~NoRoom(b),
           NEW p, NEW z, NEW q, Placed(p, z, q), SameLayout(p, b)
    PROVE  Measured(p) /\ Saving(p, z, q)
<1>1. Measured(p) /\ Fits(p)
  BY SameLengths DEF Saving
<1>2. ~NoRoom(p)
  BY DEF NoRoom, SameLayout
<1> QED
  BY <1>1, <1>2 DEF Saving

LEMMA SaveLeafHolds ==
    ASSUME IInv, NEW n \in 1..MaxChunk, SaveLeaf(n)
    PROVE  IInv'
<1>1. /\ phase = "saving" /\ ~NoRoom(buf) /\ open' = open /\ phase' = phase
      /\ buf' = PutAll(buf, Leaves(Len(saved), n)) /\ saved' = saved \o Leaves(Len(saved), n)
  BY DEF SaveLeaf
<1>2. Measured(buf) /\ Saving(buf, saved, open) /\ Placed(buf, saved, open)
  BY <1>1 DEF IInv, Saving
<1>x. PICK xs : xs = Leaves(Len(saved), n)
  OBVIOUS
<1>3. xs \in Seq(Cells) /\ Reserved(xs)
  <2>1. Len(saved) \in Nat /\ n \in Nat
    BY <1>2 DEF Placed
  <2> QED
    BY ONLY <1>x, <2>1, LeavesAre
<1>p. PICK p, z : p = PutAll(buf, xs) /\ z = saved \o xs
  OBVIOUS
<1>4. Placed(p, z, open) /\ SameLayout(p, buf)
  BY <1>2, <1>3, <1>p, AppendPlaces
<1>5. Measured(p) /\ Saving(p, z, open)
  BY ONLY <1>1, <1>2, <1>4, SavingKept
<1> QED
  BY <1>1, <1>5, <1>p, <1>x DEF IInv

LEMMA WedgeHolds ==
    ASSUME IInv, Wedge
    PROVE  IInv'
<1>1. /\ phase = "saving" /\ NoRoom(buf) /\ phase' = "wedged"
      /\ buf' = buf /\ saved' = saved /\ open' = open
  BY DEF Wedge
<1>2. Measured(buf) /\ Saving(buf, saved, open)
  BY <1>1 DEF IInv
<1> QED
  BY <1>1, <1>2 DEF IInv

\* A container's first bytes: its tag, the field that its size will be in, the count.
LEMMA OpenContainerHolds ==
    ASSUME IInv, OpenContainer
    PROVE  IInv'
<1> DEFINE told     == PutAll(buf, Leaves(Len(saved), 1))
           reserved == PutAll(told, SizetField(0))
           frame    == [index |-> told.windex, offset |-> told.woffset,
                        pos |-> reserved.size, at |-> Len(saved) + 1]
<1>1. /\ phase = "saving" /\ ~NoRoom(buf) /\ phase' = phase
      /\ buf' = PutAll(reserved, Leaves(Len(saved) + 1 + SizetLen, SizeaLen))
      /\ open' = Append(open, frame)
      /\ saved' = saved \o Leaves(Len(saved), 1) \o SizetField(0)
                        \o Leaves(Len(saved) + 1 + SizetLen, SizeaLen)
  BY DEF OpenContainer
<1>2. Measured(buf) /\ Saving(buf, saved, open) /\ Placed(buf, saved, open)
  BY <1>1 DEF IInv, Saving
<1>n. PICK n \in Nat, l \in Nat, a \in Nat : n = Len(saved) /\ l = SizetLen /\ a = SizeaLen
  BY <1>2, BufferWriteAssumption DEF Placed
<1>x. PICK tag, field, sizea : /\ tag = Leaves(n, 1) /\ field = SizetField(0)
                               /\ sizea = Leaves(n + 1 + l, a)
  OBVIOUS
<1>3. tag \in Seq(Cells) /\ Len(tag) = 1 /\ Reserved(tag)
  <2>1. n \in Nat /\ 1 \in Nat
    OBVIOUS
  <2> QED
    BY ONLY <1>x, <2>1, LeavesAre
<1>4. /\ field \in Seq(Cells) /\ Len(field) = l /\ Reserved(field)
      /\ \A j \in 1..l : field[j] = SizetByte(0, j)
  <2>1. 0 \in Nat
    OBVIOUS
  <2>2. \A j \in 1..SizetLen : SizetField(0)[j] = SizetByte(0, j)
    BY ONLY <2>1, SizetFieldIs, BufferWriteAssumption
  <2> QED
    BY <1>n, <1>x, <2>2, ReservedField
<1>5. sizea \in Seq(Cells) /\ Len(sizea) = a /\ Reserved(sizea)
  <2>1. n + 1 + l \in Nat /\ a \in Nat
    OBVIOUS
  <2> QED
    BY ONLY <1>x, <2>1, LeavesAre
<1>p. PICK b1, b2, b3, s1, s2, s3, f :
          /\ b1 = PutAll(buf, tag) /\ b2 = PutAll(b1, field) /\ b3 = PutAll(b2, sizea)
          /\ s1 = saved \o tag /\ s2 = s1 \o field /\ s3 = s2 \o sizea
          /\ f = [index |-> b1.windex, offset |-> b1.woffset, pos |-> b2.size, at |-> n + 1]
  OBVIOUS
<1>6. buf' = b3 /\ saved' = s3 /\ open' = Append(open, f)
  BY <1>1, <1>n, <1>p, <1>x
<1>7. Placed(b1, s1, open) /\ SameLayout(b1, buf)
  BY <1>2, <1>3, <1>p, AppendPlaces
<1>8. Placed(b2, s2, open) /\ SameLayout(b2, b1)
  BY <1>4, <1>7, <1>p, AppendPlaces
<1>9. Placed(b3, s3, open) /\ SameLayout(b3, b2)
  BY <1>5, <1>8, <1>p, AppendPlaces
<1>10. SameLayout(b3, buf) /\ SameLayout(b3, b1)
  BY <1>7, <1>8, <1>9 DEF SameLayout
<1>11. saved \in Seq(Cells)
  BY <1>2 DEF Placed
<1>12. /\ s1 \in Seq(Cells) /\ Len(s1) = n + 1
       /\ s2 \in Seq(Cells) /\ Len(s2) = n + 1 + l
       /\ s3 \in Seq(Cells) /\ Len(s3) = n + 1 + l + a
       /\ \A j \in 1..l : s3[n + 1 + j] = SizetByte(0, j)
  <2>s. /\ s1 = saved \o tag /\ saved \in Seq(Cells) /\ Len(saved) = n
        /\ tag \in Seq(Cells) /\ Len(tag) = 1
    BY <1>3, <1>11, <1>n, <1>p
  <2>1. s1 \in Seq(Cells) /\ Len(s1) = n + 1
    <3>1. saved \in Seq(Cells) /\ tag \in Seq(Cells)
      BY <2>s
    <3>2. saved \o tag \in Seq(Cells) /\ Len(saved \o tag) = Len(saved) + Len(tag)
      BY ONLY <3>1, ConcatProperties
    <3> QED
      BY ONLY <2>s, <3>2
  <2>t. s2 = s1 \o field /\ field \in Seq(Cells) /\ Len(field) = l
    BY <1>4, <1>p
  <2>2. /\ s2 \in Seq(Cells) /\ Len(s2) = n + 1 + l
        /\ \A k \in 1..(n + 1 + l) : s2[k] = IF k <= n + 1 THEN s1[k] ELSE field[k - (n + 1)]
    <3>1. s1 \in Seq(Cells) /\ field \in Seq(Cells)
      BY <2>1, <2>t
    <3>2. /\ s1 \o field \in Seq(Cells) /\ Len(s1 \o field) = Len(s1) + Len(field)
          /\ \A k \in 1..(Len(s1) + Len(field)) :
                (s1 \o field)[k] = IF k <= Len(s1) THEN s1[k] ELSE field[k - Len(s1)]
      BY ONLY <3>1, ConcatProperties
    <3>3. Len(s1) = n + 1 /\ Len(field) = l
      BY <2>1, <2>t
    <3> QED
      BY ONLY <2>t, <3>2, <3>3
  <2>u. s3 = s2 \o sizea /\ sizea \in Seq(Cells) /\ Len(sizea) = a
    BY <1>5, <1>p
  <2>3. /\ s3 \in Seq(Cells) /\ Len(s3) = n + 1 + l + a
        /\ \A k \in 1..(n + 1 + l + a) :
              s3[k] = IF k <= n + 1 + l THEN s2[k] ELSE sizea[k - (n + 1 + l)]
    <3>1. s2 \in Seq(Cells) /\ sizea \in Seq(Cells)
      BY <2>2, <2>u
    <3>2. /\ s2 \o sizea \in Seq(Cells) /\ Len(s2 \o sizea) = Len(s2) + Len(sizea)
          /\ \A k \in 1..(Len(s2) + Len(sizea)) :
                (s2 \o sizea)[k] = IF k <= Len(s2) THEN s2[k] ELSE sizea[k - Len(s2)]
      BY ONLY <3>1, ConcatProperties
    <3>3. Len(s2) = n + 1 + l /\ Len(sizea) = a
      BY <2>2, <2>u
    <3> QED
      BY ONLY <2>u, <3>2, <3>3
  <2>4. ASSUME NEW j \in 1..l PROVE s3[n + 1 + j] = SizetByte(0, j)
    <3>k. PICK k : k = n + 1 + j
      OBVIOUS
    <3>1. /\ k \in 1..(n + 1 + l + a) /\ k \in 1..(n + 1 + l) /\ k <= n + 1 + l
          /\ ~(k <= n + 1) /\ k - (n + 1) = j
      BY <3>k
    <3>2. s3[k] = s2[k] /\ s2[k] = field[k - (n + 1)]
      BY <2>2, <2>3, <3>1
    <3> QED
      BY <1>4, <3>1, <3>2, <3>k
  <2> QED
    BY <2>1, <2>2, <2>3, <2>4
<1>13. /\ b1.windex = FragOf(b1, n + 1) - 1 /\ b1.woffset = ByteOf(b1, n + 1) /\ b1 \in Buffers
  <2>1. b1.size = n + 1 /\ b1.size # 0
    BY <1>7, <1>12 DEF Placed
  <2> QED
    BY <1>7, <2>1 DEF Placed, Shaped
<1>14. FragOf(b3, n + 1) = FragOf(b1, n + 1) /\ ByteOf(b3, n + 1) = ByteOf(b1, n + 1)
  BY <1>10 DEF SameLayout, FragOf, ByteOf, RoomFor
<1>15. b2.size = n + 1 + l
  BY <1>8, <1>12 DEF Placed
<1>16. f \in Frames /\ FrameIsSaved(f, b3, s3)
  <2>1. f.index = b1.windex /\ f.offset = b1.woffset /\ f.pos = b2.size /\ f.at = n + 1
    BY <1>p
  <2>2. f.at \in 1..Len(s3) /\ f.at + SizetLen <= Len(s3) /\ f.pos = f.at + SizetLen
    <3>1. Len(s3) = n + 1 + l + a
      BY <1>12
    <3>2. n + 1 \in 1..(n + 1 + l + a) /\ n + 1 + l <= n + 1 + l + a
      OBVIOUS
    <3>3. SizetLen = l /\ f.at = n + 1 /\ f.pos = n + 1 + l
      BY <1>15, <1>n, <2>1
    <3> QED
      BY ONLY <3>1, <3>2, <3>3
  <2>3. \A j \in 1..SizetLen : s3[f.at + j] = SizetByte(0, j)
    BY <1>12, <1>n, <2>1
  <2>4. FrameIsSaved(f, b3, s3)
    BY <1>13, <1>14, <2>1, <2>2, <2>3 DEF FrameIsSaved
  <2>5. f \in Frames
    <3>1. b1.windex \in Nat /\ b1.woffset \in Nat /\ b2.size \in Nat /\ n + 1 \in Nat
      BY <1>13, <1>15 DEF Buffers
    <3> QED
      BY <1>p, <3>1 DEF Frames
  <2> QED
    BY <2>4, <2>5
<1>o. PICK q : q = Append(open, f)
  OBVIOUS
<1>m. PICK m \in Nat : m = Len(open)
  BY <1>2 DEF Placed
<1>17. open \in Seq(Frames) /\ \A i \in 1..m : FrameIsSaved(open[i], b3, s3)
  BY <1>9, <1>m DEF Placed
<1>18. /\ q \in Seq(Frames) /\ Len(q) = m + 1 /\ q[m + 1] = f
       /\ \A i \in 1..m : q[i] = open[i]
  BY <1>16, <1>17, <1>m, <1>o, AppendProperties
<1>19. \A i \in 1..(m + 1) : FrameIsSaved(q[i], b3, s3)
  <2>1. \A i \in 1..(m + 1) : i \in 1..m \/ i = m + 1
    OBVIOUS
  <2> QED
    BY <1>16, <1>17, <1>18, <2>1
<1>20. \A i, j \in 1..(m + 1) : i < j => q[i].at + SizetLen < q[j].at
  <2>1. \A i, j \in 1..(m + 1) : i < j => i \in 1..m /\ (j \in 1..m \/ j = m + 1)
    OBVIOUS
  <2>2. \A i, j \in 1..m : i < j => open[i].at + SizetLen < open[j].at
    BY <1>2, <1>m DEF Placed
  <2>3. ASSUME NEW i \in 1..m PROVE open[i].at + SizetLen < f.at
    <3>1. open[i].at + SizetLen <= n /\ open[i].at \in 1..n
      BY <1>2, <1>m, <1>n DEF Placed, FrameIsSaved
    <3>2. f.at = n + 1
      BY <1>p
    <3> QED
      BY <1>n, <3>1, <3>2
  <2> QED
    BY <1>18, <2>1, <2>2, <2>3
<1>21. Placed(b3, s3, q)
  BY <1>9, <1>18, <1>19, <1>20 DEF Placed
<1>22. Measured(b3) /\ Saving(b3, s3, q)
  BY ONLY <1>1, <1>2, <1>10, <1>21, SavingKept
<1> HIDE DEF told, reserved, frame
<1> QED
  BY <1>1, <1>6, <1>22, <1>o DEF IInv

LEMMA CloseContainerHolds ==
    ASSUME IInv, CloseContainer
    PROVE  IInv'
<1>f. PICK f : f = Last(open)
  OBVIOUS
<1>1. /\ phase = "saving" /\ open # <<>> /\ phase' = phase /\ open' = Front(open)
      /\ buf' = UpdateSize(buf, f.index, f.offset, buf.size - f.pos)
      /\ saved' = [k \in DOMAIN saved |->
                     IF k \in f.at + 1 .. f.at + SizetLen
                     THEN SizetByte(Len(saved) - f.at - SizetLen, k - f.at) ELSE saved[k]]
  BY <1>f DEF CloseContainer
<1>2. Measured(buf) /\ Saving(buf, saved, open)
  BY <1>1 DEF IInv
<1>3. ~NoRoom(buf) /\ Placed(buf, saved, open)
  BY <1>1, <1>2 DEF Saving
<1>4. buf.heads > 0 => SizetLen <= buf.heads
  <2>1. \A h \in HeadLens : h >= SizetLen /\ h \in Nat
    BY BufferWriteAssumption
  <2>2. buf.heads > 0 => buf.heads \in HeadLens
    BY <1>2 DEF Measured
  <2>3. SizetLen \in Nat
    BY BufferWriteAssumption
  <2> QED
    BY <2>1, <2>2, <2>3
<1>u. PICK u, z : /\ u = UpdateSize(buf, f.index, f.offset, buf.size - f.pos)
                  /\ z = [k \in DOMAIN saved |->
                            IF k \in f.at + 1 .. f.at + SizetLen
                            THEN SizetByte(Len(saved) - f.at - SizetLen, k - f.at) ELSE saved[k]]
  OBVIOUS
<1>5. Placed(u, z, Front(open)) /\ SameLayout(u, buf)
  BY <1>1, <1>3, <1>4, <1>f, <1>u, ClosePlaces
<1>6. Measured(u) /\ Saving(u, z, Front(open))
  BY ONLY <1>2, <1>3, <1>5, SavingKept
<1>7. buf' = u /\ saved' = z
  BY <1>1, <1>u
<1> QED
  BY <1>1, <1>6, <1>7 DEF IInv

\* Finish leaves the layout alone.
LEMMA SealedLayout ==
    ASSUME NEW b, Shaped(b), NEW p, p = Sealed(b)
    PROVE  /\ SameLayout(p, b) /\ p.size = b.size /\ p.windex = b.windex /\ p.woffset = b.woffset
           /\ Len(p.frags) = Len(b.frags)
<1>1. CASE b.size = 0
  <2>1. p = b
    BY <1>1 DEF Sealed
  <2> QED
    BY <2>1 DEF SameLayout
<1>2. CASE b.size # 0
  BY <1>2, SealedIs
<1> QED
  BY <1>1, <1>2

LEMMA FinishHolds ==
    ASSUME IInv, Finish
    PROVE  IInv'
<1>1. /\ phase = "saving" /\ open = <<>> /\ saved # <<>> /\ saved' = saved /\ open' = open
      /\ phase' = IF Throws(buf) THEN "threw" ELSE "sealed"
      /\ buf' = IF Throws(buf) THEN buf ELSE Sealed(buf)
  BY DEF Finish
<1>2. Measured(buf) /\ Saving(buf, saved, open)
  BY <1>1 DEF IInv
<1>3. Placed(buf, saved, <<>>) /\ Fits(buf) /\ Shaped(buf) /\ saved \in Seq(Cells)
  BY <1>1, <1>2 DEF Saving, Placed
<1>4. CASE Throws(buf)
  BY <1>1, <1>2, <1>3, <1>4 DEF IInv
<1>5. CASE ~Throws(buf)
  <2>p. PICK p : p = Sealed(buf)
    OBVIOUS
  <2>1. SealedFrom(p, buf, saved)
    BY <1>1, <1>3, <2>p DEF SealedFrom
  <2>2. Measured(p)
    BY <1>2, <1>3, <2>p, SealedLayout, SameLengths
  <2>3. buf' = p /\ phase' = "sealed"
    BY <1>1, <1>5, <2>p
  <2> QED
    BY <1>1, <2>1, <2>2, <2>3 DEF IInv
<1> QED
  BY <1>4, <1>5

\* What is known of a message that Finish, Split or Merge sealed.
Known(b, w, s) ==
    /\ b = Sealed(w) /\ Shaped(w) /\ s \in Seq(Cells)
    /\ Sound(w) => w.size = Len(s)
    /\ w.heads > 0 => w.sizet - SizeaLen \in Nat

LEMMA SealedIsKnown ==
    ASSUME IInv, phase \in {"sealed", "recut"}
    PROVE  \E w : Known(buf, w, saved)
<1>1. CASE phase = "sealed"
  <2>w. PICK w : SealedFrom(buf, w, saved)
    BY <1>1 DEF IInv
  <2>1. buf = Sealed(w) /\ Shaped(w) /\ saved \in Seq(Cells) /\ w.size = Len(saved)
    BY <2>w DEF SealedFrom, Placed
  <2>2. w.heads > 0 => w.sizet - SizeaLen \in Nat
    <3>1. RoomFor(w) > 0 /\ w \in Buffers
      BY <2>1 DEF Shaped
    <3>2. RoomFor(w) \in Nat
      BY <3>1 DEF RoomFor, Buffers
    <3> QED
      BY <2>w, <3>2 DEF SealedFrom, Fits
  <2> QED
    BY <2>1, <2>2 DEF Known
<1>2. CASE phase = "recut"
  BY <1>2 DEF IInv, RecutFrom, Known
<1> QED
  BY <1>1, <1>2

\* Split and Merge.
LEMMA RecutHolds ==
    ASSUME IInv, phase \in {"sealed", "recut"}, buf.frags # <<>>, NEW m \in Nat, Recut(m),
           saved' = saved, open' = open
    PROVE  /\ IInv'
           /\ \E w : Known(buf, w, saved) /\ Cuts(Cut(buf, m), w, m)
<1>w. PICK w : Known(buf, w, saved)
  BY SealedIsKnown
<1>1. /\ buf = Sealed(w) /\ Shaped(w) /\ saved \in Seq(Cells) /\ (Sound(w) => w.size = Len(saved))
      /\ (w.heads > 0 => w.sizet - SizeaLen \in Nat)
  BY <1>w DEF Known
<1>2. w.size # 0
  <2>1. CASE w.size = 0
    BY <1>1, <2>1 DEF Sealed, Shaped
  <2> QED
    BY <2>1
<1>3. SameLayout(buf, w)
  BY <1>1, SealedLayout
<1>4. /\ m > buf.heads + buf.checksum
      /\ phase' = IF Throws(Cut(buf, m)) THEN "threw" ELSE "recut"
      /\ buf' = IF Throws(Cut(buf, m)) THEN Cut(buf, m) ELSE Sealed(Cut(buf, m))
  BY DEF Recut
<1>x. PICK x, y : x = Cut(buf, m) /\ y = Payload(Sealed(w))
  OBVIOUS
<1>5. Cuts(x, w, m)
  BY <1>1, <1>2, <1>3, <1>4, <1>x DEF Cuts, SameLayout
<1>6. /\ Shaped(x) /\ x.heads = w.heads /\ x.checksum = w.checksum
      /\ x.sizet = w.sizet /\ x.sizea = w.sizea /\ x.size = Len(y)
      /\ \A i \in 1..Len(x.frags) : Headed(x.frags[i], x.heads)
  BY ONLY <1>5, <1>x, CutIs
<1>7. Measured(x)
  <2>1. Measured(buf)
    BY DEF IInv
  <2> QED
    BY <1>3, <1>6, <2>1 DEF Measured, SameLayout
<1>8. Sound(x) => x.size = Len(saved)
  <2>1. Sound(x) => Sound(w)
    BY <1>6 DEF Sound
  <2>2. Sound(w) => Len(y) = w.size
    BY <1>1, <1>2, <1>x, PayloadIs
  <2> QED
    BY <1>1, <1>6, <2>1, <2>2
<1>9. open = <<>>
  BY DEF IInv
<1>10. IInv'
  <2>1. CASE Throws(x)
    <3>1. phase' = "threw" /\ buf' = x
      BY <1>4, <1>x, <2>1
    <3> QED
      BY <1>1, <1>6, <1>7, <1>9, <3>1 DEF IInv
  <2>2. CASE ~Throws(x)
    <3>p. PICK p : p = Sealed(x)
      OBVIOUS
    <3>1. phase' = "recut" /\ buf' = p
      BY <1>4, <1>x, <2>2, <3>p
    <3>2. RecutFrom(p, x, saved)
      BY <1>1, <1>6, <1>8, <3>p DEF RecutFrom
    <3>3. Measured(p)
      BY <1>6, <1>7, <3>p, SealedLayout, SameLengths
    <3> QED
      BY <1>9, <3>1, <3>2, <3>3 DEF IInv
  <2> QED
    BY <2>1, <2>2
<1> QED
  BY <1>5, <1>10, <1>w, <1>x

\* The lengths Split and Merge are called with.
LEMMA RecutStep ==
    ASSUME IInv, (\E m \in SplitMtus : Split(m)) \/ Merge
    PROVE  /\ phase \in {"sealed", "recut"} /\ buf.frags # <<>> /\ saved' = saved /\ open' = open
           /\ \E m \in Nat : /\ Recut(m)
                             /\ Merge => Recut(Len(Payload(buf)) + buf.heads + buf.checksum)
                                         /\ Len(Payload(buf)) + buf.heads + buf.checksum \in Nat
<1>1. CASE \E m \in SplitMtus : Split(m) /\ ~Merge
  <2>1. PICK m \in SplitMtus : Split(m) /\ ~Merge
    BY <1>1
  <2>2. m \in Nat
    BY BufferWriteAssumption
  <2> QED
    BY <2>1, <2>2 DEF Split
<1>2. CASE Merge
  <2>1. /\ phase \in {"sealed", "recut"} /\ Len(buf.frags) >= 2 /\ saved' = saved /\ open' = open
        /\ Recut(Len(Payload(buf)) + buf.heads + buf.checksum)
    BY <1>2 DEF Merge
  <2>w. PICK w : Known(buf, w, saved)
    BY <2>1, SealedIsKnown
  <2>2. buf = Sealed(w) /\ Shaped(w)
    BY <2>w DEF Known
  <2>3. buf.frags # <<>>
    <3>1. Len(<<>>) = 0 /\ ~(0 >= 2)
      OBVIOUS
    <3> QED
      BY <2>1, <3>1
  <2>4. w.size # 0
    <3>1. CASE w.size = 0
      BY <2>2, <2>3, <3>1 DEF Sealed, Shaped
    <3> QED
      BY <3>1
  <2>5. Payload(buf) \in Seq(Cells)
    BY <2>2, <2>4, PayloadIs
  <2>6. buf.heads \in Nat /\ buf.checksum \in Nat
    <3>1. SameLayout(buf, w) /\ w \in Buffers
      BY <2>2, SealedLayout DEF Shaped
    <3> QED
      BY <3>1 DEF SameLayout, Buffers
  <2>7. Len(Payload(buf)) + buf.heads + buf.checksum \in Nat
    <3>1. Len(Payload(buf)) \in Nat
      BY <2>5
    <3> QED
      BY <2>6, <3>1
  <2> QED
    BY <2>1, <2>3, <2>7
<1> QED
  BY <1>1, <1>2

LEMMA ClearHolds ==
    ASSUME IInv, Clear
    PROVE  IInv'
<1>1. /\ phase \in {"saving", "sealed", "recut"} /\ buf' = EmptyBuffer(buf.mtu)
      /\ saved' = <<>> /\ open' = <<>> /\ phase' = "saving"
  BY DEF Clear
<1>2. buf.mtu \in Nat \ {0}
  <2>1. CASE phase = "saving"
    <3>1. buf \in Buffers
      BY <2>1 DEF IInv, Saving, Blocked, Placed, Shaped
    <3> QED
      BY <3>1 DEF Buffers
  <2>2. CASE phase \in {"sealed", "recut"}
    <3>w. PICK w : Known(buf, w, saved)
      BY <2>2, SealedIsKnown
    <3>1. SameLayout(buf, w) /\ w \in Buffers
      BY <3>w, SealedLayout DEF Known, Shaped
    <3> QED
      BY <3>1 DEF SameLayout, Buffers
  <2> QED
    BY <1>1, <2>1, <2>2
<1>b. PICK b, m : b = EmptyBuffer(m) /\ m = buf.mtu
  OBVIOUS
<1>3. /\ b.heads = 0 /\ b.checksum = 0 /\ b.mtu = m
      /\ b.frags = <<>> /\ b.windex = 0 /\ b.woffset = 0 /\ b.size = 0
  BY <1>b DEF EmptyBuffer
<1>4. b \in Buffers
  <2>1. <<>> \in Seq(Fragment)
    OBVIOUS
  <2> QED
    BY <1>2, <1>b, <2>1 DEF EmptyBuffer, Buffers
<1>5. Placed(b, <<>>, <<>>)
  <2>1. Blocked(b)
    BY <1>3, <1>4 DEF Blocked
  <2>2. RoomFor(b) > 0
    BY <1>2, <1>3, <1>b DEF RoomFor
  <2> QED
    BY <2>1, <2>2, NothingPlaced
<1>6. ~NoRoom(b) /\ Fits(b) /\ Measured(b)
  BY <1>3 DEF NoRoom, Fits, Measured
<1>7. Saving(b, <<>>, <<>>)
  BY <1>5, <1>6 DEF Saving
<1> QED
  BY <1>1, <1>6, <1>7, <1>b DEF IInv

\* Every action keeps the invariant.
THEOREM Invariance == Spec => []IInv
<1>1. Init => IInv
  BY InitHolds
<1>2. IInv /\ [Next]_vars => IInv'
  <2> SUFFICES ASSUME IInv, [Next]_vars PROVE IInv'
    OBVIOUS
  <2>1. CASE \E h \in HeadLens : Prepare(h)
    BY <2>1, PrepareHolds
  <2>2. CASE \E n \in 1..MaxChunk : SaveLeaf(n)
    BY <2>2, SaveLeafHolds
  <2>3. CASE Wedge
    BY <2>3, WedgeHolds
  <2>4. CASE OpenContainer
    BY <2>4, OpenContainerHolds
  <2>5. CASE CloseContainer
    BY <2>5, CloseContainerHolds
  <2>6. CASE Finish
    BY <2>6, FinishHolds
  <2>7. CASE (\E m \in SplitMtus : Split(m)) \/ Merge
    BY <2>7, RecutStep, RecutHolds
  <2>8. CASE Clear
    BY <2>8, ClearHolds
  <2>9. CASE UNCHANGED vars
    BY <2>9 DEF vars, IInv
  <2> QED
    BY <2>1, <2>2, <2>3, <2>4, <2>5, <2>6, <2>7, <2>8, <2>9 DEF Next
<1> QED
  BY <1>1, <1>2, PTL DEF Spec

----------------------------------------------------------------------------
(* What the invariant says *)

\* The bytes of a message are in the pieces that Finish seals.
LEMMA WithinPiece ==
    ASSUME NEW w, Shaped(w), NEW k \in 1..w.size
    PROVE  /\ FragOf(w, k) \in 1..Len(w.frags)
           /\ ByteOf(w, k) \in 1..(w.heads + Piece(w, FragOf(w, k)))
<1>0. w \in Buffers /\ RoomFor(w) > 0 /\ w.size \in Nat
  BY DEF Shaped, Buffers
<1>a. w.size # 0 /\ k \in Nat \ {0} /\ w.size \in Nat \ {0}
  BY <1>0
<1>1. /\ Len(w.frags) = FragOf(w, w.size)
      /\ w.mtu \in Nat \ {0} /\ w.heads \in Nat /\ w.checksum \in Nat
      /\ RoomFor(w) \in Nat \ {0} /\ w.mtu = w.heads + RoomFor(w) + w.checksum
      /\ ByteOf(w, w.size) = w.heads + Piece(w, Len(w.frags))
  BY <1>a, ShapedIs DEF Shaped
<1>n. PICK n, m \in Nat, h \in Nat, c \in Nat, e, s \in Nat :
          /\ n = FragOf(w, w.size) /\ m = w.mtu /\ h = w.heads /\ c = RoomFor(w)
          /\ e = w.checksum /\ s = w.size
  <2>1. FragOf(w, w.size) \in Nat
    BY <1>0, <1>a, PlaceIs
  <2> QED
    BY <1>0, <1>1, <2>1
<1>f. PICK r, t : r = FragOf(w, k) /\ t = ByteOf(w, k)
  OBVIOUS
<1>2. r \in Nat \ {0} /\ t \in (h + 1)..(m - e) /\ t \in 1..m
  BY <1>0, <1>a, <1>f, <1>n, PlaceIs
<1>3. n \in Nat \ {0}
  BY <1>0, <1>a, <1>n, PlaceIs
<1>4. m - e = h + c
  <2>1. m = h + c + e /\ e \in Nat
    BY <1>1, <1>n
  <2> QED
    BY ONLY <2>1
<1>5. CASE r < n
  <2>1. Piece(w, r) = c
    BY <1>1, <1>5, <1>n DEF Piece
  <2>2. r \in 1..n /\ t \in 1..(h + c)
    BY ONLY <1>2, <1>3, <1>4, <1>5
  <2> QED
    BY <1>1, <1>f, <1>n, <2>1, <2>2
<1>6. CASE r = n /\ t <= ByteOf(w, w.size)
  <2>1. t <= h + Piece(w, n)
    BY <1>1, <1>6, <1>n
  <2>2. t \in 1..(h + Piece(w, n))
    <3>1. ByteOf(w, w.size) \in Nat
      BY <1>0, <1>a, PlaceIs
    <3>p. PICK p \in Nat : p = h + Piece(w, n)
      BY <1>1, <1>n, <3>1
    <3> QED
      BY <1>2, <2>1, <3>p
  <2>3. r \in 1..n
    BY <1>3, <1>6
  <2> QED
    BY <1>1, <1>6, <1>f, <1>n, <2>2, <2>3
<1>7. r < n \/ (r = n /\ t <= ByteOf(w, w.size))
  <2>u. PICK u \in Nat : u = ByteOf(w, w.size)
    BY <1>0, <1>a, PlaceIs
  <2>1. CASE k = w.size
    <3>1. r = n /\ t = u
      BY <1>f, <1>n, <2>1, <2>u
    <3> QED
      BY <1>2, <2>u, <3>1
  <2>2. CASE k < w.size
    <3>1. r < n \/ (r = n /\ u - t = w.size - k)
      BY <1>0, <1>a, <1>f, <1>n, <2>2, <2>u, PlacesDiffer
    <3>2. r = n /\ u - t = w.size - k => t <= u
      BY <1>0, <1>2, <2>2
    <3> QED
      BY <2>u, <3>1, <3>2
  <2> QED
    BY <1>0, <2>1, <2>2
<1> QED
  BY <1>5, <1>6, <1>7

\* The module's Capacity and Strays are about the places of the message.
LEMMA CapacityIs ==
    ASSUME NEW w \in Buffers, RoomFor(w) > 0, SameLayout(buf, w), saved \in Seq(Cells),
           NEW k \in 1..Len(saved)
    PROVE  /\ FragOf(w, k) = (k - 1) \div Capacity + 1
           /\ ByteOf(w, k) = buf.heads + ((k - 1) % Capacity) + 1
           /\ Strays(k) <=> StrayIn(w, saved, k)
           /\ (k - 1) \div Capacity = FragOf(w, k) - 1
<1>1. Capacity = RoomFor(w) /\ buf.heads = w.heads
  BY DEF Capacity, RoomFor, SameLayout
<1>c. PICK c \in Nat \ {0} : c = RoomFor(w)
  BY DEF Buffers, RoomFor
<1>2. k \in Nat \ {0} /\ saved[k] \in Cells
  <2>1. k \in 1..Len(saved) /\ Len(saved) \in Nat
    OBVIOUS
  <2> QED
    BY <2>1, ElementOfSeq
<1>3. saved[k][3] \in Nat
  BY <1>2 DEF Cells
<1>d. PICK d \in Nat, l \in Int, x \in Int, y \in Int :
          d = saved[k][3] /\ l = k - d /\ x = (k - 1) \div c /\ y = (l - 1) \div c
  <2>1. \A i \in Int : i \div c \in Int
    OBVIOUS
  <2>2. k - 1 \in Int /\ \A j \in Nat : k - j \in Int /\ k - j - 1 \in Int
    BY <1>2
  <2> QED
    BY <1>3, <2>1, <2>2
<1>4. FragOf(w, k) = x + 1 /\ ByteOf(w, k) = buf.heads + ((k - 1) % Capacity) + 1
  BY <1>1, <1>c, <1>d DEF FragOf, ByteOf, Row, Col
<1>5. FragOf(w, k - saved[k][3]) = y + 1
  BY <1>c, <1>d DEF FragOf, Row
<1>6. (k - 1) \div Capacity = x /\ (k - saved[k][3] - 1) \div Capacity = y
  BY <1>1, <1>c, <1>d
<1>7. x + 1 # y + 1 <=> x # y
  OBVIOUS
<1>8. Strays(k) <=> StrayIn(w, saved, k)
  BY <1>1, <1>4, <1>5, <1>6, <1>7 DEF Strays, StrayIn
<1>9. x + 1 - 1 = x
  OBVIOUS
<1> QED
  BY <1>4, <1>6, <1>8, <1>9

LEMMA StreamHolds == IInv => StreamInPlace
<1> SUFFICES ASSUME IInv, phase \in {"saving", "sealed"}, Framed, ~NoRoom(buf),
                    NEW k \in DOMAIN saved
             PROVE  buf.frags[(k - 1) \div Capacity + 1].data[buf.heads + ((k - 1) % Capacity) + 1]
                      = IF Strays(k) THEN SizetByte(0, saved[k][3]) ELSE saved[k]
  BY DEF StreamInPlace
<1> DEFINE In(w) == buf.frags[FragOf(w, k)].data[ByteOf(w, k)] = CellAt(w, k)
<1>1. \E w, o : Placed(w, saved, o) /\ SameLayout(buf, w) /\ In(w)
  <2>1. CASE phase = "saving"
    <3>1. Placed(buf, saved, open)
      BY <2>1 DEF IInv, Saving
    <3>2. SameLayout(buf, buf) /\ In(buf)
      BY DEF SameLayout, CellAt
    <3> HIDE DEF In
    <3> QED
      BY <3>1, <3>2
  <2>2. CASE phase = "sealed"
    <3>w. PICK w : SealedFrom(buf, w, saved)
      BY <2>2 DEF IInv
    <3>1. buf = Sealed(w) /\ Placed(w, saved, <<>>) /\ Shaped(w)
          /\ saved \in Seq(Cells) /\ w.size = Len(saved)
      BY <3>w DEF SealedFrom, Placed
    <3>2. SameLayout(buf, w)
      BY <3>1, SealedLayout
    <3>3. k \in 1..w.size /\ w.size # 0
      BY <3>1
    <3>4. Sound(w)
      BY <3>2 DEF Framed, Sound, SameLayout
    <3>f. PICK r, t : r = FragOf(w, k) /\ t = ByteOf(w, k)
      OBVIOUS
    <3>5. r \in 1..Len(w.frags) /\ t \in 1..(w.heads + Piece(w, r))
      BY <3>1, <3>3, <3>f, WithinPiece
    <3>6. \A i \in 1..Len(w.frags) : \A j \in 1..(w.heads + Piece(w, i)) :
              buf.frags[i].data[j] = w.frags[i].data[j]
      BY <3>1, <3>3, <3>4, SealedIs
    <3>7. In(w)
      BY <3>5, <3>6, <3>f DEF CellAt
    <3> HIDE DEF In
    <3> QED
      BY <3>1, <3>2, <3>7
  <2> QED
    BY <2>1, <2>2
<1>w. PICK w, o : Placed(w, saved, o) /\ SameLayout(buf, w) /\ In(w)
  <2> HIDE DEF In
  <2> QED
    BY <1>1
<1>2. w \in Buffers /\ RoomFor(w) > 0 /\ saved \in Seq(Cells)
  BY <1>w DEF Placed, Shaped
<1>3. k \in 1..Len(saved)
  BY <1>2
<1>4. /\ FragOf(w, k) = (k - 1) \div Capacity + 1
      /\ ByteOf(w, k) = buf.heads + ((k - 1) % Capacity) + 1
      /\ Strays(k) <=> StrayIn(w, saved, k)
  BY <1>2, <1>3, <1>w, CapacityIs
<1>5. CellIsSaved(w, saved, k)
  BY <1>3, <1>w DEF Placed
<1> QED
  BY <1>4, <1>5, <1>w DEF CellIsSaved

LEMMA SizeHolds == IInv => SizeIsSaved
<1> SUFFICES ASSUME IInv, phase \in {"saving", "sealed", "recut"}, Framed
             PROVE  buf.size = Len(saved)
  BY DEF SizeIsSaved
<1>1. CASE phase = "saving"
  <2>1. Saving(buf, saved, open)
    BY <1>1 DEF IInv
  <2>2. Len(<<>>) = 0
    OBVIOUS
  <2> QED
    BY <2>1, <2>2 DEF Saving, Blocked, Placed
<1>2. CASE phase \in {"sealed", "recut"}
  <2>w. PICK w : Known(buf, w, saved)
    BY <1>2, SealedIsKnown
  <2>1. SameLayout(buf, w) /\ buf.size = w.size
    BY <2>w, SealedLayout DEF Known
  <2>2. Sound(w)
    BY <2>1 DEF Framed, Sound, SameLayout
  <2> QED
    BY <2>1, <2>2, <2>w DEF Known
<1> QED
  BY <1>1, <1>2

LEMMA ParsableHolds == IInv => SealedIsParsable
<1> SUFFICES ASSUME IInv, phase \in {"sealed", "recut"}, buf.heads > 0, Countable
             PROVE  /\ FIDs(buf) = LegalFIDs(Len(buf.frags))
                    /\ \A i \in DOMAIN buf.frags :
                          \/ Parsable(buf.frags[i])
                          \/ phase = "sealed" /\ \E k \in DOMAIN saved :
                                Strays(k) /\ (k - 1) \div Capacity = i - 1
                          \/ phase = "recut" /\ i < Len(buf.frags) /\ Legible(buf.frags[i])
  BY DEF SealedIsParsable
<1>1. \E w : /\ Known(buf, w, saved)
             /\ phase = "sealed" => SealedFrom(buf, w, saved)
             /\ phase = "recut" => RecutFrom(buf, w, saved)
  <2>1. CASE phase = "sealed"
    <3>w. PICK w : SealedFrom(buf, w, saved)
      BY <2>1 DEF IInv
    <3>1. buf = Sealed(w) /\ Shaped(w) /\ saved \in Seq(Cells) /\ w.size = Len(saved)
      BY <3>w DEF SealedFrom, Placed
    <3>2. w.heads > 0 => w.sizet - SizeaLen \in Nat
      <4>1. RoomFor(w) > 0 /\ w \in Buffers
        BY <3>1 DEF Shaped
      <4>2. RoomFor(w) \in Nat
        BY <4>1 DEF RoomFor, Buffers
      <4> QED
        BY <3>w, <4>2 DEF SealedFrom, Fits
    <3>3. Known(buf, w, saved)
      BY <3>1, <3>2 DEF Known
    <3> QED
      BY <2>1, <3>3, <3>w
  <2>2. CASE phase = "recut"
    <3>w. PICK w : RecutFrom(buf, w, saved)
      BY <2>2 DEF IInv
    <3>1. Known(buf, w, saved)
      BY <3>w DEF Known, RecutFrom
    <3> QED
      BY <2>2, <3>1, <3>w
  <2> QED
    BY <2>1, <2>2
<1>w. PICK w : /\ Known(buf, w, saved)
               /\ phase = "sealed" => SealedFrom(buf, w, saved)
               /\ phase = "recut" => RecutFrom(buf, w, saved)
  BY <1>1
<1>2. /\ buf = Sealed(w) /\ Shaped(w) /\ saved \in Seq(Cells)
      /\ (w.heads > 0 => w.sizet - SizeaLen \in Nat)
  BY <1>w DEF Known
<1>3. SameLayout(buf, w) /\ Len(buf.frags) = Len(w.frags)
  BY <1>2, SealedLayout
<1>4. /\ w.heads > 0 /\ w.mtu <= Int16Max /\ w.sizet <= Int16Max + SizeaLen
      /\ Len(w.frags) <= Int16Max
  BY <1>3 DEF Countable, SameLayout
<1>5. FIDs(buf) = LegalFIDs(Len(buf.frags))
  BY <1>2, <1>4, FIDsAreLegal
<1>6. CASE w.size = 0
  <2>1. buf.frags = <<>>
    BY <1>2, <1>6 DEF Sealed, Shaped
  <2>2. DOMAIN buf.frags = {}
    BY <2>1
  <2> QED
    BY <1>5, <2>2
<1>7. CASE w.size # 0
  <2>1. Lengthy(w)
    <3>1. w.sizea = Int16(w.sizet - SizeaLen)
      BY <1>3, <1>4 DEF IInv, Measured, SameLayout
    <3> QED
      BY <1>2, <1>4, <1>7, <3>1 DEF Lengthy
  <2>n. PICK n \in Nat \ {0} : n = Len(w.frags)
    BY <1>2, <1>7, ShapedIs
  <2>2. DOMAIN buf.frags = 1..n
    BY <1>2, <1>7, <2>n, SealedIs
  <2>3. ASSUME NEW i \in 1..n, Headed(w.frags[i], w.heads)
        PROVE  /\ Legible(buf.frags[i])
               /\ i = n \/ w.sizet - SizeaLen = RoomFor(w) => Parsable(buf.frags[i])
    <3>1. /\ LegibleIn(w, buf.frags[i])
          /\ i = n \/ w.sizet - SizeaLen = RoomFor(w) =>
                buf.frags[i].sizea = Len(buf.frags[i].payload)
      BY <1>2, <2>1, <2>3, <2>n, SealedIsLegible
    <3>2. Legible(buf.frags[i])
      BY <1>3, <3>1 DEF Legible, LegibleIn, SameLayout
    <3> QED
      BY <3>1, <3>2 DEF Parsable
  <2>4. ASSUME NEW i \in 1..n
        PROVE  \/ Parsable(buf.frags[i])
               \/ phase = "sealed" /\ \E k \in DOMAIN saved :
                     Strays(k) /\ (k - 1) \div Capacity = i - 1
               \/ phase = "recut" /\ i < Len(buf.frags) /\ Legible(buf.frags[i])
    <3>1. CASE phase = "recut"
      <4>1. Headed(w.frags[i], w.heads)
        BY <1>w, <2>n, <3>1 DEF RecutFrom
      <4>2. i = n \/ i < n
        BY <2>n
      <4> QED
        BY <1>3, <2>3, <2>n, <3>1, <4>1, <4>2
    <3>2. CASE phase = "sealed"
      <4>1. Placed(w, saved, <<>>) /\ Fits(w)
        BY <1>w, <3>2 DEF SealedFrom
      <4>2. CASE Headed(w.frags[i], w.heads)
        BY <1>4, <2>3, <4>1, <4>2 DEF Fits
      <4>3. CASE ~Headed(w.frags[i], w.heads)
        <5>1. PICK k \in 1..Len(saved) : StrayIn(w, saved, k) /\ FragOf(w, k) = i
          BY <2>n, <4>1, <4>3 DEF Placed, HeadIsWhole
        <5>2. w \in Buffers /\ RoomFor(w) > 0
          BY <1>2 DEF Shaped
        <5>3. Strays(k) /\ (k - 1) \div Capacity = i - 1
          BY <1>2, <1>3, <5>1, <5>2, CapacityIs
        <5>4. k \in DOMAIN saved
          BY <1>2
        <5> QED
          BY <3>2, <5>3, <5>4
      <4> QED
        BY <4>2, <4>3
    <3> QED
      BY <3>1, <3>2
  <2> QED
    BY <1>5, <2>2, <2>4
<1> QED
  BY <1>6, <1>7

LEMMA TypesHold == IInv => TypeOK
<1> SUFFICES ASSUME IInv PROVE TypeOK
  OBVIOUS
<1> DEFINE Inside(b) == /\ b.windex \in 0..Len(b.frags) /\ b.woffset \in 0..b.mtu
                        /\ \A i \in 1..Len(b.frags) : b.frags[i].data \in Seq(Cells)
<1>1. ASSUME NEW b, Shaped(b) PROVE Inside(b)
  <2>1. /\ b \in Buffers /\ b.frags \in Seq(Fragment)
        /\ b.mtu \in Nat /\ b.windex \in Nat /\ Len(b.frags) \in Nat
    BY <1>1 DEF Shaped, Buffers
  <2>2. \A i \in 1..Len(b.frags) : b.frags[i].data \in Seq(Cells)
    <3>1. \A i \in 1..Len(b.frags) : b.frags[i] \in Fragment
      BY <2>1, ElementOfSeq
    <3> QED
      BY <3>1 DEF Fragment
  <2>3. CASE b.size = 0
    <3>1. b.windex = 0 /\ b.woffset = 0
      BY <1>1, <2>3 DEF Shaped
    <3> QED
      BY <2>1, <2>2, <3>1
  <2>4. CASE b.size # 0
    <3>1. b.windex = Len(b.frags) - 1 /\ b.woffset = ByteOf(b, b.size) /\ b.size \in Nat \ {0}
          /\ RoomFor(b) > 0
      BY <1>1, <2>4, ShapedIs DEF Shaped
    <3>2. ByteOf(b, b.size) \in 1..b.mtu
      BY <2>1, <3>1, PlaceIs
    <3>3. b.windex \in 0..Len(b.frags) /\ b.woffset \in 0..b.mtu
      BY <2>1, <3>1, <3>2
    <3> QED
      BY <2>2, <3>3
  <2> QED
    BY <2>3, <2>4
<1>2. Inside(buf) /\ saved \in Seq(Cells)
      /\ \A i \in 1..Len(open) : open[i].index \in 0..buf.windex
      /\ open \in Seq(Frames)
  <2>0. Len(<<>>) = 0 /\ 1..0 = {} /\ <<>> \in Seq(Cells) /\ <<>> \in Seq(Frames)
    OBVIOUS
  <2>1. CASE phase \in {"saving", "wedged"} /\ NoRoom(buf)
    <3>1. Blocked(buf) /\ saved = <<>> /\ open = <<>>
      BY <2>1 DEF IInv, Saving
    <3>2. buf.windex = 0 /\ buf.woffset = 0 /\ Len(buf.frags) = 0 /\ buf.mtu \in Nat
      BY <2>0, <3>1 DEF Blocked, Buffers
    <3> QED
      BY <2>0, <3>1, <3>2
  <2>2. CASE phase \in {"saving", "wedged"} /\ ~NoRoom(buf)
    <3>1. Placed(buf, saved, open) /\ Shaped(buf) /\ saved \in Seq(Cells) /\ open \in Seq(Frames)
      BY <2>2 DEF IInv, Saving, Placed
    <3>2. ASSUME NEW i \in 1..Len(open) PROVE open[i].index \in 0..buf.windex
      <4>1. /\ open[i].at \in 1..Len(saved) /\ open[i].index = FragOf(buf, open[i].at) - 1
            /\ buf.size = Len(saved) /\ buf \in Buffers
        BY <3>1 DEF Placed, FrameIsSaved, Shaped
      <4>a. PICK a \in Nat \ {0} : a = open[i].at /\ a \in 1..buf.size
        BY <4>1
      <4>2. buf.size # 0
        BY <4>1, <4>a DEF Buffers
      <4>3. FragOf(buf, a) \in 1..Len(buf.frags)
        BY <3>1, <4>a, WithinPiece
      <4>4. buf.windex = Len(buf.frags) - 1 /\ Len(buf.frags) \in Nat \ {0}
        BY <3>1, <4>2, ShapedIs
      <4> QED
        BY <4>1, <4>3, <4>4, <4>a
    <3> HIDE DEF Inside
    <3> QED
      BY <1>1, <3>1, <3>2
  <2>3. CASE phase \in {"sealed", "recut"}
    <3>w. PICK w : Known(buf, w, saved)
      BY <2>3, SealedIsKnown
    <3>1. buf = Sealed(w) /\ Shaped(w) /\ saved \in Seq(Cells)
      BY <3>w DEF Known
    <3>2. open = <<>>
      BY <2>3 DEF IInv
    <3>3. SameLayout(buf, w) /\ buf.windex = w.windex /\ buf.woffset = w.woffset
          /\ Len(buf.frags) = Len(w.frags)
      BY <3>1, SealedLayout
    <3>4. \A i \in 1..Len(buf.frags) : buf.frags[i].data \in Seq(Cells)
      <4>1. CASE w.size = 0
        <5>1. buf.frags = <<>>
          BY <3>1, <4>1 DEF Sealed, Shaped
        <5> QED
          BY <2>0, <5>1
      <4>2. CASE w.size # 0
        BY <3>1, <3>3, <4>2, SealedIs
      <4> QED
        BY <4>1, <4>2
    <3>5. Inside(w)
      <4> HIDE DEF Inside
      <4> QED
        BY <1>1, <3>1
    <3> QED
      BY <2>0, <3>1, <3>2, <3>3, <3>4, <3>5 DEF SameLayout
  <2>4. CASE phase = "threw"
    <3>1. Shaped(buf) /\ saved \in Seq(Cells) /\ open = <<>>
      BY <2>4 DEF IInv
    <3>2. Inside(buf)
      <4> HIDE DEF Inside
      <4> QED
        BY <1>1, <3>1
    <3> QED
      BY <2>0, <3>1, <3>2
  <2> QED
    BY <2>1, <2>2, <2>3, <2>4 DEF IInv
<1>3. ASSUME NEW t \in Seq(Cells) PROVE Range(t) \subseteq Cells
  <2>1. \A j \in 1..Len(t) : t[j] \in Cells
    BY ElementOfSeq
  <2>2. DOMAIN t = 1..Len(t)
    OBVIOUS
  <2> QED
    BY <2>1, <2>2 DEF Range
<1>4. /\ phase \in {"saving", "sealed", "recut", "threw", "wedged"}
      /\ buf.heads \in {0} \cup HeadLens /\ buf.checksum \in {0, ChecksumLen}
  BY DEF IInv, Measured
<1>5. DOMAIN buf.frags = 1..Len(buf.frags)
  <2>1. CASE phase \in {"sealed", "recut"}
    <3>w. PICK w : Known(buf, w, saved)
      BY <2>1, SealedIsKnown
    <3>1. buf = Sealed(w) /\ Shaped(w)
      BY <3>w DEF Known
    <3>2. CASE w.size = 0
      <4>1. buf.frags = <<>>
        BY <3>1, <3>2 DEF Sealed, Shaped
      <4> QED
        BY <4>1
    <3>3. CASE w.size # 0
      BY <3>1, <3>3, SealedIs
    <3> QED
      BY <3>2, <3>3
  <2>2. CASE phase \notin {"sealed", "recut"}
    <3>1. buf \in Buffers
      BY <2>2 DEF IInv, Saving, Blocked, Placed, Shaped
    <3>2. buf.frags \in Seq(Fragment)
      BY <3>1 DEF Buffers
    <3> QED
      BY <3>2
  <2> QED
    BY <2>1, <2>2
<1>6. DOMAIN open = 1..Len(open)
  BY <1>2
<1> QED
  BY <1>2, <1>3, <1>4, <1>5, <1>6 DEF TypeOK

\* A step of Split or Merge, and a step that leaves a message cut as it is.
LEMMA RecutKeeps ==
    ASSUME IInv, [Next]_vars
    PROVE  (Framed /\ phase' = "recut") =>
              /\ Payload(buf') = Payload(buf)
              /\ (Merge => Len(buf'.frags) = 1)
              /\ (buf.heads > 0 /\ Len(buf'.frags) <= Int16Max) =>
                    FIDs(buf') = LegalFIDs(Len(buf'.frags))
<1> SUFFICES ASSUME Framed, phase' = "recut"
             PROVE  /\ Payload(buf') = Payload(buf)
                    /\ (Merge => Len(buf'.frags) = 1)
                    /\ (buf.heads > 0 /\ Len(buf'.frags) <= Int16Max) =>
                          FIDs(buf') = LegalFIDs(Len(buf'.frags))
  OBVIOUS
<1> DEFINE Kept(m) ==
             /\ Payload(buf') = Payload(buf)
             /\ m = Len(Payload(buf)) + buf.heads + buf.checksum => Len(buf'.frags) = 1
             /\ (buf.heads > 0 /\ Len(buf'.frags) <= Int16Max) =>
                   FIDs(buf') = LegalFIDs(Len(buf'.frags))
<1>1. ASSUME NEW m \in Nat, Recut(m), phase \in {"sealed", "recut"}, buf.frags # <<>>,
             saved' = saved, open' = open
      PROVE  Kept(m)
  <2>w. PICK w : Known(buf, w, saved) /\ Cuts(Cut(buf, m), w, m)
    BY <1>1, RecutHolds
  <2>1. buf = Sealed(w) /\ Shaped(w)
    BY <2>w DEF Known
  <2>2. SameLayout(buf, w)
    BY <2>1, SealedLayout
  <2>x. PICK x, y : x = Cut(buf, m) /\ y = Payload(Sealed(w))
    OBVIOUS
  <2>3. Cuts(x, w, m) /\ w.size # 0
    BY <2>w, <2>x DEF Cuts
  <2>4. Sound(w)
    BY <2>2 DEF Framed, Sound, SameLayout
  <2>5. x.size = w.size /\ Sound(x) /\ Payload(Sealed(x)) = Payload(Sealed(w))
    BY <2>3, <2>4, RecutIs
  <2>6. /\ Shaped(x) /\ x.mtu = m /\ x.heads = w.heads /\ x.checksum = w.checksum
        /\ x.size = Len(y)
    BY ONLY <2>3, <2>x, CutIs
  <2>p. PICK p : p = Sealed(x)
    OBVIOUS
  <2>7. buf' = p
    BY <1>1, <2>p, <2>x DEF Recut
  <2>8. SameLayout(p, x) /\ Len(p.frags) = Len(x.frags)
    BY <2>6, <2>p, SealedLayout
  <2>9. Payload(buf') = Payload(buf)
    BY <2>1, <2>5, <2>7, <2>p
  <2>10. m = Len(Payload(buf)) + buf.heads + buf.checksum => Len(buf'.frags) = 1
    <3>1. ASSUME m = Len(Payload(buf)) + buf.heads + buf.checksum PROVE Len(buf'.frags) = 1
      <4>1. PICK l \in Nat, h \in Nat, k \in Nat : l = x.size /\ h = x.heads /\ k = x.checksum
        BY <2>6 DEF Shaped, Buffers
      <4>2. m = l + h + k
        BY <2>1, <2>2, <2>6, <2>x, <3>1, <4>1 DEF SameLayout
      <4>3. l + h + k - h - k = l
        OBVIOUS
      <4>4. RoomFor(x) = x.size
        <5>1. RoomFor(x) = m - h - k
          BY <2>6, <4>1 DEF RoomFor
        <5>2. m - h - k = l
          BY ONLY <4>2, <4>3
        <5> QED
          BY <4>1, <5>1, <5>2
      <4>5. Len(x.frags) = 1
        BY <2>3, <2>5, <2>6, <4>4, OneFragment
      <4> QED
        BY <2>7, <2>8, <4>5
    <3> QED
      BY <3>1
  <2>11. (buf.heads > 0 /\ Len(buf'.frags) <= Int16Max) =>
            FIDs(buf') = LegalFIDs(Len(buf'.frags))
    <3>1. ASSUME buf.heads > 0, Len(buf'.frags) <= Int16Max
          PROVE  FIDs(buf') = LegalFIDs(Len(buf'.frags))
      <4>1. x.heads > 0 /\ Len(x.frags) <= Int16Max
        BY <2>2, <2>6, <2>7, <2>8, <3>1 DEF SameLayout
      <4>2. FIDs(p) = LegalFIDs(Len(p.frags))
        BY <2>6, <2>p, <4>1, FIDsAreLegal
      <4> QED
        BY <2>7, <4>2
    <3> QED
      BY <3>1
  <2> QED
    BY <2>9, <2>10, <2>11
<1>2. CASE (\E m \in SplitMtus : Split(m)) \/ Merge
  <2>1. /\ phase \in {"sealed", "recut"} /\ buf.frags # <<>> /\ saved' = saved /\ open' = open
    BY <1>2, RecutStep
  <2>2. PICK m \in Nat : /\ Recut(m)
                         /\ Merge => Recut(Len(Payload(buf)) + buf.heads + buf.checksum)
                                     /\ Len(Payload(buf)) + buf.heads + buf.checksum \in Nat
    BY <1>2, RecutStep
  <2>3. Kept(m)
    <3> HIDE DEF Kept
    <3> QED
      BY <1>1, <2>1, <2>2
  <2>4. ASSUME Merge PROVE Len(buf'.frags) = 1
    <3>m. PICK l \in Nat : l = Len(Payload(buf)) + buf.heads + buf.checksum /\ Recut(l)
      BY <2>2, <2>4
    <3>1. Kept(l)
      <4> HIDE DEF Kept
      <4> QED
        BY <1>1, <2>1, <3>m
    <3> QED
      BY <3>1, <3>m
  <2> QED
    BY <2>3, <2>4
<1>3. CASE UNCHANGED vars /\ ~Merge
  <2>1. buf' = buf /\ saved' = saved /\ phase = "recut"
    BY <1>3 DEF vars
  <2>2. (buf.heads > 0 /\ Len(buf.frags) <= Int16Max) => FIDs(buf) = LegalFIDs(Len(buf.frags))
    <3>w. PICK w : RecutFrom(buf, w, saved)
      BY <2>1 DEF IInv
    <3>1. buf = Sealed(w) /\ Shaped(w)
      BY <3>w DEF RecutFrom
    <3>2. SameLayout(buf, w) /\ Len(buf.frags) = Len(w.frags)
      BY <3>1, SealedLayout
    <3> QED
      BY <3>1, <3>2, FIDsAreLegal DEF SameLayout
  <2> QED
    BY <1>3, <2>1, <2>2
<1>4. (\E m \in SplitMtus : Split(m)) \/ Merge \/ UNCHANGED vars
  <2>1. ASSUME NEW h \in HeadLens, Prepare(h) PROVE FALSE
    BY <2>1 DEF Prepare
  <2>2. ASSUME NEW n \in 1..MaxChunk, SaveLeaf(n) PROVE FALSE
    BY <2>2 DEF SaveLeaf
  <2>3. ~Wedge /\ ~Finish /\ ~Clear
    BY DEF Wedge, Finish, Clear
  <2>4. ~OpenContainer /\ ~CloseContainer
    BY DEF OpenContainer, CloseContainer
  <2> QED
    BY <2>1, <2>2, <2>3, <2>4 DEF Next
<1> QED
  BY <1>2, <1>3, <1>4

----------------------------------------------------------------------------
(* Theorems *)

\* The write position, the fragments' bytes and the savers' frames are always of their types.
THEOREM TypeCorrect == Spec => []TypeOK
BY Invariance, TypesHold, PTL

\* Every byte of every message is where Append and UpdateSize put it, whatever the mtu, the
\* header and the nesting; only the bytes of a size field that crosses into another
\* fragment keep the reserved 0 (Append buffer.cc:102, UpdateSize buffer.h:129).
THEOREM StreamIsInPlace == Spec => []StreamInPlace
BY Invariance, StreamHolds, PTL

\* size_ is the length of the message, so that size fields count what they say.
THEOREM SizeIsKept == Spec => []SizeIsSaved
BY Invariance, SizeHolds, PTL

\* A receiver can parse what Finish, Split and Merge seal (Finish buffer.cc:62).
THEOREM SealedCanBeParsed == Spec => []SealedIsParsable
BY Invariance, ParsableHolds, PTL

\* Split and Merge keep the payload, and Merge makes one fragment of it (buffer.cc:227-248).
THEOREM PayloadIsKept == Spec => RecutKeepsPayload
<1>1. IInv /\ [Next]_vars =>
        [ (Framed /\ phase' = "recut") =>
             /\ Payload(buf') = Payload(buf)
             /\ (Merge => Len(buf'.frags) = 1)
             /\ (buf.heads > 0 /\ Len(buf'.frags) <= Int16Max) =>
                   FIDs(buf') = LegalFIDs(Len(buf'.frags)) ]_vars
  BY RecutKeeps
<1> QED
  BY <1>1, Invariance, PTL DEF Spec, RecutKeepsPayload
=============================================================================
