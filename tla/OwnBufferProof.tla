--------------------------- MODULE OwnBufferProof ---------------------------
(***************************************************************************)
(* Proofs about OwnBuffer, for all messages, fragments and orders.  The    *)
(* invariant has three parts: the types of the state, which hold always;   *)
(* what the Buffer is filed under and holds, until Split or Merge cuts the *)
(* payload again; and where in the message every byte it holds and every   *)
(* byte that was read stands, until a fragment is pushed after that.       *)
(***************************************************************************)
EXTENDS OwnBuffer, RBufferProof

----------------------------------------------------------------------------
(* Induction over numbers, as a fact about sets, and what it unfolds *)

\* What holds of 0 and passes from each number below n to the next holds up to n.
LEMMA UpTheNumbers ==
    ASSUME NEW n \in Nat, NEW S, 0 \in S, \A k \in 0..(n - 1) : k \in S => k + 1 \in S
    PROVE  \A k \in 0..n : k \in S
<1> DEFINE Done == {k \in 0..n : k \in S}
<1> SUFFICES ASSUME Done # 0..n PROVE FALSE
  OBVIOUS
<1>1. n + 1 \in Nat /\ 0..(n + 1 - 1) = 0..n /\ Done \subseteq 0..n
  OBVIOUS
<1>2. PICK g \in 0..Cardinality(Done) : g \notin Done /\ g < n + 1 /\ 0..(g - 1) \subseteq Done
  <2> HIDE DEF Done
  <2>1. PICK p \in Nat : p = n + 1
    BY <1>1
  <2>2. Done \subseteq 0..(p - 1) /\ Done # 0..(p - 1)
    <3>1. 0..(p - 1) = 0..n
      BY <1>1, <2>1
    <3> QED
      BY <1>1, <3>1
  <2>3. \E g \in 0..Cardinality(Done) : g \notin Done /\ g < p /\ 0..(g - 1) \subseteq Done
    BY ONLY <2>1, <2>2, FirstGapExists
  <2> QED
    BY <2>1, <2>3
<1>3. Cardinality(Done) \in Nat
  <2>1. IsFiniteSet(0..n)
    BY FS_Interval
  <2>2. IsFiniteSet(Done)
    BY <2>1, <1>1, FS_Subset
  <2> QED
    BY <2>2, FS_CardinalityType
<1>4. g \in 0..n /\ g # 0
  <2>1. g \in Nat /\ g < n + 1
    BY <1>2, <1>3
  <2>2. g \in 0..n
    BY <2>1
  <2> QED
    BY <1>2, <2>2
<1>5. g - 1 \in 0..(n - 1) /\ g - 1 \in 0..(g - 1) /\ g - 1 + 1 = g
  BY <1>4
<1>6. g - 1 \in S
  BY <1>2, <1>5
<1> QED
  BY <1>2, <1>4, <1>5, <1>6

\* The payloads put together: one after the other.
LEMMA FlattenUnfolds ==
    ASSUME NEW ss, Len(ss) \in Nat \ {0}
    PROVE  \E f : /\ f[1] = ss[1] /\ f[Len(ss)] = FlattenSeq(ss)
                  /\ \A i \in 2..Len(ss) : f[i] = f[i - 1] \o ss[i]
<1> PICK n \in Nat \ {0} : n = Len(ss)
  OBVIOUS
<1> DEFINE Joins(f, k) == f = [i \in 1..k |-> IF i = 1 THEN ss[i] ELSE f[i - 1] \o ss[i]]
<1>1. ASSUME NEW k \in Nat, NEW f, Joins(f, k) PROVE \E g : Joins(g, k + 1)
  <2> DEFINE g == [i \in 1..(k + 1) |-> IF i = 1 THEN ss[1] ELSE f[i - 1] \o ss[i]]
  <2>1. ASSUME NEW i \in 1..(k + 1), i # 1 PROVE g[i - 1] = f[i - 1]
    <3>1. i - 1 \in 1..k /\ i - 1 \in 1..(k + 1)
      BY <2>1
    <3> QED
      BY <1>1, <3>1
  <2>2. g = [i \in 1..(k + 1) |-> IF i = 1 THEN ss[i] ELSE g[i - 1] \o ss[i]]
    BY <2>1
  <2> QED
    BY <2>2
<1>2. \E f : Joins(f, 0)
  <2>1. Joins(<<>>, 0)
    OBVIOUS
  <2> QED
    BY <2>1
<1>3. PICK f : Joins(f, n)
  <2> DEFINE Done == {k \in Nat : \E g : Joins(g, k)}
  <2>1. 0 \in Done
    BY <1>2
  <2>2. \A k \in 0..(n - 1) : k \in Done => k + 1 \in Done
    <3> HIDE DEF Joins
    <3> QED
      BY <1>1
  <2>3. n \in Done
    <3> HIDE DEF Done
    <3> QED
      BY <2>1, <2>2, UpTheNumbers
  <2> QED
    BY <2>3
<1> DEFINE h == CHOOSE g : Joins(g, n)
<1>4. FlattenSeq(ss) = h[n]
  BY DEF FlattenSeq
<1>5. Joins(h, n)
  <2> HIDE DEF Joins
  <2> QED
    BY <1>3
<1> HIDE DEF h
<1>6. ASSUME NEW i \in 1..n PROVE h[i] = IF i = 1 THEN ss[i] ELSE h[i - 1] \o ss[i]
  <2> DEFINE g == [j \in 1..n |-> IF j = 1 THEN ss[j] ELSE h[j - 1] \o ss[j]]
  <2>1. h = g
    BY <1>5
  <2>2. g[i] = IF i = 1 THEN ss[i] ELSE h[i - 1] \o ss[i]
    OBVIOUS
  <2> HIDE DEF g
  <2> QED
    BY <2>1, <2>2
<1>7. h[1] = ss[1]
  BY <1>6
<1>8. ASSUME NEW i \in 2..n PROVE h[i] = h[i - 1] \o ss[i]
  <2>1. i \in 1..n /\ i # 1
    OBVIOUS
  <2> QED
    BY <1>6, <2>1
<1> QED
  BY <1>4, <1>7, <1>8

\* Reading byte by byte: where each of them leaves the position.
LEMMA ReadingUnfolds ==
    ASSUME NEW n \in Nat
    PROVE  \E r : /\ r[0] = [index |-> index, offset |-> offset, fault |-> FALSE, bytes |-> <<>>]
                  /\ r[n] = Reading(n)
                  /\ \A k \in 1..n : r[k] = ReadByte(r[k - 1])
<1> DEFINE start == [index |-> index, offset |-> offset, fault |-> FALSE, bytes |-> <<>>]
           Reads0(f, k) == f = [i \in 0..k |-> IF i = 0 THEN start ELSE ReadByte(f[i - 1])]
<1>1. ASSUME NEW k \in Nat, NEW f, Reads0(f, k) PROVE \E g : Reads0(g, k + 1)
  <2> DEFINE g == [i \in 0..(k + 1) |-> IF i = 0 THEN start ELSE ReadByte(f[i - 1])]
  <2>1. ASSUME NEW i \in 0..(k + 1), i # 0 PROVE g[i - 1] = f[i - 1]
    <3>1. i - 1 \in 0..k /\ i - 1 \in 0..(k + 1)
      BY <2>1
    <3> HIDE DEF start
    <3> QED
      BY <1>1, <3>1
  <2>2. g = [i \in 0..(k + 1) |-> IF i = 0 THEN start ELSE ReadByte(g[i - 1])]
    <3> HIDE DEF start
    <3> QED
      BY <2>1
  <2> QED
    BY <2>2
<1>2. \E f : Reads0(f, 0)
  <2> DEFINE f == [i \in 0..0 |-> start]
  <2>1. \A i \in 0..0 : i = 0
    OBVIOUS
  <2> HIDE DEF start
  <2>2. Reads0(f, 0)
    BY <2>1
  <2> QED
    BY <2>2
<1>3. \E f : Reads0(f, n)
  <2> DEFINE Done == {k \in Nat : \E g : Reads0(g, k)}
  <2>1. 0 \in Done
    BY <1>2
  <2>2. \A k \in 0..(n - 1) : k \in Done => k + 1 \in Done
    <3> HIDE DEF Reads0
    <3> QED
      BY <1>1
  <2>3. n \in Done
    <3> HIDE DEF Done
    <3> QED
      BY <2>1, <2>2, UpTheNumbers
  <2> QED
    BY <2>3
<1> DEFINE h == CHOOSE g : Reads0(g, n)
<1>4. Reading(n) = h[n]
  BY DEF Reading
<1>5. Reads0(h, n)
  <2> HIDE DEF Reads0
  <2> QED
    BY <1>3
<1> HIDE DEF h
<1>6. ASSUME NEW i \in 0..n PROVE h[i] = IF i = 0 THEN start ELSE ReadByte(h[i - 1])
  <2> DEFINE g == [j \in 0..n |-> IF j = 0 THEN start ELSE ReadByte(h[j - 1])]
  <2>1. h = g
    BY <1>5
  <2>2. g[i] = IF i = 0 THEN start ELSE ReadByte(h[i - 1])
    OBVIOUS
  <2> HIDE DEF g
  <2> QED
    BY <2>1, <2>2
<1>7. h[0] = start
  <2>1. 0 \in 0..n
    OBVIOUS
  <2> HIDE DEF start
  <2> QED
    BY <1>6, <2>1
<1>8. ASSUME NEW k \in 1..n PROVE h[k] = ReadByte(h[k - 1])
  <2>1. k \in 0..n /\ k # 0
    OBVIOUS
  <2> QED
    BY <1>6, <2>1
<1> QED
  BY <1>4, <1>7, <1>8

----------------------------------------------------------------------------
(* The inductive invariant *)

\* A Buffer but for its size_.
Unsized(b) == [b EXCEPT !.size = 0]

\* Nothing was taken in yet, or the Buffer is filed under the key of all that was.
Owned ==
    \/ buffer.types = NoTypes /\ accepted = {} /\ \A k \in Keys : FiledUnder(buffer, k)
    \/ /\ buffer.types # NoTypes
       /\ \E k \in Keys : FiledUnder(buffer, k) /\ \A f \in accepted : KeyOf(f) = k

\* The Buffer as received: it holds what was taken in and nothing else, and after the
\* answer 0 it is complete.
Received ==
    /\ Unsized(buffer) \in Buffers
    /\ accepted \subseteq Fragments
    /\ \A i \in DOMAIN buffer.frags : buffer.frags[i] \in accepted
    /\ Owned
    /\ answer = 0 => \A f \in accepted : Good(f.msg) => Complete(buffer)

\* The fragments before the last hold c bytes, the last of n holds e: the bytes of
\* fragment i, and of all that are before fragment d.
PieceLen(n, c, e, i) == IF i = n - 1 THEN e ELSE c
BytesTo(n, c, e, d)     == IF d = n THEN (n - 1) * c + e ELSE d * c

\* The first k bytes of m.
Stretch(m, k) == [j \in 1..k |-> <<m, j>>]

\* Each fragment holds the bytes of m that belong at its place.
Laid(F, m, n, c, e) ==
    /\ DOMAIN F \subseteq 0..(n - 1)
    /\ \A i \in DOMAIN F :
          /\ F[i].len = PieceLen(n, c, e, i)
          /\ Payload(F[i]) = [j \in 1..PieceLen(n, c, e, i) |-> <<m, i * c + j>>]

\* The read position i, o is behind r bytes.
Placed(F, c, i, o, r) ==
    /\ r = i * c + o
    /\ (i = 0 /\ o = 0) \/ (i \in DOMAIN F /\ o <= F[i].len)

\* What was read of m, and what is left.
Progress(m, n, c, e) ==
    /\ read = Stretch(m, Len(read)) /\ Len(read) \in Nat
    /\ Len(read) <= BytesTo(n, c, e, n)
    /\ buffer.size = LenOf(buffer) - Len(read)
    /\ fault => ~Gapless
    /\ ~fault => Placed(buffer.frags, c, index, offset, Len(read))

\* As the fragments came.
AsReceived(m, n, c, e) ==
    /\ n = Count[m] /\ c = PayloadLen[m] /\ e = LastLen[m]
    /\ DOMAIN buffer.frags = {f.no - 1 : f \in accepted}

\* As Split or Merge cut them.
AsCut(m, n, c, e) ==
    /\ DOMAIN buffer.frags = 0..(n - 1)
    /\ BytesTo(n, c, e, n) <= Len(Bytes(m))
    /\ FragmentsOf(m) \subseteq accepted => BytesTo(n, c, e, n) = Len(Bytes(m))

Shape(m, n, c, e) == IF cut = "no" THEN AsReceived(m, n, c, e) ELSE AsCut(m, n, c, e)

Reads(m) ==
    \E n, c, e \in Nat \ {0} :
        Laid(buffer.frags, m, n, c, e) /\ Progress(m, n, c, e) /\ Shape(m, n, c, e)

\* All that was taken in since the last Clear has one key, and of a good message that
\* it belongs to the bytes are kept and read in order.
Kept ==
    /\ answer = 0 => accepted # {}
    /\ \A f, g \in accepted : f.types = g.types /\ f.tid = g.tid
    /\ \A m \in Message : (Good(m) /\ accepted \subseteq FragmentsOf(m)) => Reads(m)

\* What a fragment in the Buffer is, received or cut.
Filled(F) ==
    /\ IsFiniteSet(DOMAIN F) /\ DOMAIN F \subseteq Nat
    /\ \A i \in DOMAIN F :
          F[i].len \in Nat \ {0} /\ Payload(F[i]) \in [1..F[i].len -> Message \X Nat]
\* The types of the state.
Typed ==
    /\ DOMAIN buffer = {"types", "tid", "size", "frags"}
    /\ buffer.types \in Types \cup {NoTypes} /\ buffer.size \in Nat
    /\ Filled(buffer.frags)
    /\ index \in Nat /\ offset \in Nat
    /\ answer \in Nat \cup {-1}
    /\ accepted \subseteq Fragments

\* The invariant: what is received until Split or Merge cuts it, what is read until a
\* fragment is pushed after that.
IInv ==
    /\ Typed
    /\ cut = "no" => Received
    /\ cut # "mixed" => Kept

----------------------------------------------------------------------------
(* Lemmas *)

LEMMA UnsizedIsTheSame ==
    ASSUME NEW b, Unsized(b) \in Buffers
    PROVE  /\ Unsized(b).types = b.types /\ Unsized(b).tid = b.tid
           /\ Unsized(b).frags = b.frags
           /\ DOMAIN b = {"types", "tid", "size", "frags"}
BY DEF Unsized, Buffers

\* Whether a Buffer is filed and complete does not depend on its size_.
LEMMA UnsizedIsFiled ==
    ASSUME NEW b, NEW c, b.types = c.types, b.tid = c.tid, b.frags = c.frags
    PROVE  /\ \A k : FiledUnder(b, k) <=> FiledUnder(c, k)
           /\ Complete(b) <=> Complete(c)
           /\ \A m : Whole(b, m) <=> Whole(c, m)
           /\ Wanted(b) = Wanted(c)
BY DEF FiledUnder, Complete, Whole, Wanted, FirstGap

\* Push does not look at the size_ either.
LEMMA PushUnsized ==
    ASSUME NEW b, Unsized(b) \in Buffers, NEW f \in Fragments
    PROVE  /\ Unsized(Push(b, f)) \in Buffers
           /\ Push(b, f).types = Push(Unsized(b), f).types
           /\ Push(b, f).tid = Push(Unsized(b), f).tid
           /\ Push(b, f).frags = Push(Unsized(b), f).frags
           /\ Rejects(b, f) <=> Rejects(Unsized(b), f)
<1> DEFINE c == Unsized(b)
<1>1. PICK Dom \in SUBSET Int : b.frags \in [Dom -> Fragments]
  BY UnsizedIsTheSame DEF Buffers
<1>2. /\ c.types = b.types /\ c.tid = b.tid /\ c.frags = b.frags
      /\ DOMAIN b = {"types", "tid", "size", "frags"}
      /\ DOMAIN c = {"types", "tid", "size", "frags"}
      /\ c \in Buffers
  BY UnsizedIsTheSame DEF Buffers
<1>3. Index(f) \in Int /\ f.types \in Types /\ f.tid \in TID
  BY FragmentType
<1> HIDE DEF c
<1>4. /\ Bound(b, f).types = Bound(c, f).types
      /\ Bound(b, f).tid = Bound(c, f).tid
      /\ Bound(b, f).frags = b.frags /\ Bound(c, f).frags = b.frags
      /\ DOMAIN Bound(b, f) = {"types", "tid", "size", "frags"}
      /\ DOMAIN Bound(c, f) = {"types", "tid", "size", "frags"}
  BY <1>2 DEF Bound
<1>5. Rejects(b, f) <=> Rejects(c, f)
  BY <1>4 DEF Rejects
<1>6. /\ Push(b, f).types = Push(c, f).types
      /\ Push(b, f).tid = Push(c, f).tid
      /\ Push(b, f).frags = Push(c, f).frags
      /\ DOMAIN Push(b, f) = {"types", "tid", "size", "frags"}
  BY <1>2, <1>4, <1>5 DEF Push
<1>7. Push(c, f) \in Buffers
  BY <1>2, PushType
<1>8. Unsized(Push(b, f)) \in Buffers
  <2> DEFINE p == Push(b, f)
             q == Push(c, f)
  <2>1. /\ q.types \in Types \cup {NoTypes} /\ q.tid \in TID \cup {NoTypes}
        /\ q.frags \in UNION {[E -> Fragments] : E \in SUBSET Int}
    BY <1>7 DEF Buffers
  <2>2. Unsized(p) = [types |-> q.types, tid |-> q.tid, size |-> 0, frags |-> q.frags]
    <3>1. p.types = q.types /\ p.tid = q.tid /\ p.frags = q.frags
          /\ DOMAIN p = {"types", "tid", "size", "frags"}
      BY <1>6
    <3> HIDE DEF p, q
    <3> QED
      BY <3>1 DEF Unsized
  <2> HIDE DEF p, q
  <2>3. Unsized(p) \in Buffers
    BY <2>1, <2>2 DEF Buffers
  <2> QED
    BY <2>3 DEF p
<1> QED
  BY <1>5, <1>6, <1>8 DEF c

\* Of a good message, Push answers 0 only when the Buffer is complete: as long as
\* it is not, there is a first fragment to ask for.
LEMMA ZeroIsComplete ==
    ASSUME NEW b \in Buffers, NEW m \in Message, Good(m), FiledUnder(b, Key(m)),
           Wanted(b) = 0
    PROVE  Complete(b)
<1> SUFFICES ASSUME ~Complete(b) PROVE FALSE
  OBVIOUS
<1> DEFINE Dom == DOMAIN b.frags
           N   == Count[m]
           g   == FirstGap(b)
<1>1. N \in Nat \ {0}
  BY FragmentBufferAssumption
<1>2. \A i \in Dom : i \in 0..(N - 1) /\ (b.frags[i].fid < 0 <=> i = N - 1)
  BY FiledFragments
<1>3. Dom # 0..(N - 1)
  <2> SUFFICES ASSUME Dom = 0..(N - 1) PROVE FALSE
    OBVIOUS
  <2>1. N - 1 \in Dom /\ 0..(N - 1) \subseteq Dom
    BY <1>1
  <2> QED
    BY <1>2, <2>1 DEF Complete
<1> HIDE DEF Dom, N
<1>4. PICK c \in 0..Cardinality(Dom) : c \notin Dom /\ c < N /\ 0..(c - 1) \subseteq Dom
  BY <1>1, <1>2, <1>3, FirstGapExists
<1>5. g \in 0..Cardinality(Dom) /\ g \notin Dom /\ 0..(g - 1) \subseteq Dom
  BY <1>4 DEF FirstGap, Dom
<1> HIDE DEF g
<1>6. Wanted(b) = g + 1
  BY DEF Wanted, g
<1> QED
  BY <1>4, <1>5, <1>6

----------------------------------------------------------------------------
(* Fragments end to end *)

\* Where a fragment begins, and what it adds to the ones before.
LEMMA PieceBounds ==
    ASSUME NEW n \in Nat \ {0}, NEW c \in Nat \ {0}, NEW e \in Nat \ {0},
           NEW d \in 0..(n - 1)
    PROVE  /\ PieceLen(n, c, e, d) \in Nat \ {0}
           /\ BytesTo(n, c, e, d) = d * c /\ d * c \in Nat
           /\ BytesTo(n, c, e, d + 1) = d * c + PieceLen(n, c, e, d)
           /\ d * c + PieceLen(n, c, e, d) <= BytesTo(n, c, e, n)
           /\ BytesTo(n, c, e, n) \in Nat /\ BytesTo(n, c, e, 0) = 0
<1>1. d \in Nat /\ n - 1 - d \in Nat /\ n - 1 \in Nat
  OBVIOUS
<1>2. d * c \in Nat /\ (n - 1 - d) * c \in Nat /\ (n - 1) * c \in Nat
  BY <1>1
<1>3. (d + 1) * c = d * c + c /\ (n - 1) * c = d * c + (n - 1 - d) * c
  BY <1>1
<1>4. 0 * c = 0
  OBVIOUS
<1>5. CASE d = n - 1
  BY <1>1, <1>2, <1>4, <1>5 DEF PieceLen, BytesTo
<1>6. CASE d # n - 1
  <2>1. n - 1 - d >= 1 /\ d + 1 # n
    BY <1>1, <1>6
  <2>2. (n - 1 - d) * c >= c
    <3>1. n - 2 - d \in Nat
      BY <2>1, <1>1
    <3>2. (n - 1 - d) * c = (n - 2 - d) * c + c /\ (n - 2 - d) * c \in Nat
      BY <3>1
    <3> QED
      BY <3>2
  <2> QED
    BY <1>1, <1>2, <1>3, <1>4, <1>6, <2>1, <2>2 DEF PieceLen, BytesTo
<1> QED
  BY <1>5, <1>6

----------------------------------------------------------------------------
(* The bytes the fragments hold *)

Cells(F, D) == UNION {{i} \X (1..F[i].len) : i \in D}

LEMMA CellsOfOne ==
    ASSUME NEW F, NEW i, F[i].len \in Nat
    PROVE  /\ IsFiniteSet({i} \X (1..F[i].len))
           /\ Cardinality({i} \X (1..F[i].len)) = F[i].len
<1>1. PICK l \in Nat : l = F[i].len
  OBVIOUS
<1>2. IsFiniteSet(1..l) /\ Cardinality(1..l) = l
  BY FS_Interval
<1>3. IsFiniteSet({i}) /\ Cardinality({i}) = 1
  BY FS_Singleton
<1>4. /\ IsFiniteSet({i} \X (1..l))
      /\ Cardinality({i} \X (1..l)) = Cardinality({i}) * Cardinality(1..l)
  BY ONLY <1>2, <1>3, FS_Product
<1>5. 1 * l = l
  OBVIOUS
<1> QED
  BY <1>1, <1>2, <1>3, <1>4, <1>5

LEMMA CellsFinite ==
    ASSUME NEW F, NEW D, IsFiniteSet(D), \A i \in D : F[i].len \in Nat
    PROVE  IsFiniteSet(Cells(F, D)) /\ Cardinality(Cells(F, D)) \in Nat
<1> DEFINE Parts == {{i} \X (1..F[i].len) : i \in D}
           g     == [i \in D |-> {i} \X (1..F[i].len)]
<1>2. g \in Surjection(D, Parts)
  BY DEF Surjection
<1>3. IsFiniteSet(Parts)
  <2> HIDE DEF g, Parts
  <2> QED
    BY <1>2, FS_Surjection
<1>4. IsFiniteSet(UNION Parts)
  <2>1. \A T \in Parts : IsFiniteSet(T)
    BY CellsOfOne
  <2> HIDE DEF Parts
  <2> QED
    BY <1>3, <2>1, FS_UNION
<1>5. IsFiniteSet(Cells(F, D))
  BY <1>4 DEF Cells
<1> QED
  BY <1>5, FS_CardinalityType

\* One more fragment holds its bytes more.
LEMMA CellsGrow ==
    ASSUME NEW F, NEW D, IsFiniteSet(D), NEW x, x \notin D,
           \A i \in D \cup {x} : F[i].len \in Nat
    PROVE  /\ IsFiniteSet(Cells(F, D)) /\ IsFiniteSet(Cells(F, D \cup {x}))
           /\ Cardinality(Cells(F, D)) \in Nat
           /\ Cardinality(Cells(F, D \cup {x})) = Cardinality(Cells(F, D)) + F[x].len
<1>5. IsFiniteSet(Cells(F, D))
  BY CellsFinite
<1> DEFINE New == {x} \X (1..F[x].len)
<1>6. Cells(F, D \cup {x}) = Cells(F, D) \cup New
  BY DEF Cells
<1>7. Cells(F, D) \cap New = {}
  <2> SUFFICES ASSUME NEW p \in Cells(F, D), p \in New PROVE FALSE
    OBVIOUS
  <2>1. PICK i \in D : p \in {i} \X (1..F[i].len)
    BY DEF Cells
  <2>2. p[1] = i /\ p[1] = x
    BY <2>1
  <2> QED
    BY <2>2
<1>8. IsFiniteSet(New) /\ Cardinality(New) = F[x].len
  BY CellsOfOne
<1>9. Cardinality({}) = 0 /\ F[x].len \in Nat
  BY FS_EmptySet
<1> HIDE DEF New
<1>10. /\ IsFiniteSet(Cells(F, D) \cup New)
       /\ Cardinality(Cells(F, D) \cup New)
             = Cardinality(Cells(F, D)) + Cardinality(New) - Cardinality(Cells(F, D) \cap New)
  BY ONLY <1>5, <1>8, FS_Union
<1>11. Cardinality(Cells(F, D)) \in Nat
  BY <1>5, FS_CardinalityType
<1>12. PICK u \in Nat, v \in Nat : u = Cardinality(Cells(F, D)) /\ v = F[x].len
  BY <1>9, <1>11
<1>13. Cardinality(Cells(F, D) \cup New) = u + v - 0
  BY <1>7, <1>8, <1>9, <1>10, <1>12
<1>14. u + v - 0 = u + v
  BY ONLY u \in Nat, v \in Nat
<1> QED
  BY <1>5, <1>6, <1>10, <1>11, <1>12, <1>13, <1>14

\* Only the lengths matter.
LEMMA SameCells ==
    ASSUME NEW F, NEW G, NEW D, \A i \in D : F[i].len = G[i].len
    PROVE  Cells(F, D) = Cells(G, D)
BY DEF Cells

\* A Buffer without holes holds all bytes up to its end.
LEMMA GaplessLength ==
    ASSUME NEW F, NEW m, NEW n \in Nat \ {0}, NEW c \in Nat \ {0}, NEW e \in Nat \ {0},
           Laid(F, m, n, c, e), NEW d \in 0..n, DOMAIN F = 0..(d - 1)
    PROVE  Cardinality(Cells(F, DOMAIN F)) = BytesTo(n, c, e, d)
<1> DEFINE Done == {k \in 0..d : Cardinality(Cells(F, 0..(k - 1))) = BytesTo(n, c, e, k)}
<1>1. 0 \in Done
  <2>1. BytesTo(n, c, e, 0) = 0
    <3>1. 0 \in 0..(n - 1)
      OBVIOUS
    <3> QED
      BY <3>1, PieceBounds
  <2>2. 0..(0 - 1) = {} /\ 0 \in 0..d
    OBVIOUS
  <2>3. Cells(F, {}) = {}
    BY DEF Cells
  <2> QED
    BY <2>1, <2>2, <2>3, FS_EmptySet
<1>2. ASSUME NEW k \in 0..(d - 1), k \in Done PROVE k + 1 \in Done
  <2>1. k \in 0..(n - 1) /\ k \in DOMAIN F /\ k \in Nat
    OBVIOUS
  <2>2. F[k].len = PieceLen(n, c, e, k)
    BY <2>1 DEF Laid
  <2>3. /\ PieceLen(n, c, e, k) \in Nat /\ BytesTo(n, c, e, k) = k * c /\ k * c \in Nat
        /\ BytesTo(n, c, e, k + 1) = k * c + PieceLen(n, c, e, k)
    <3>1. \A i \in 0..(n - 1) :
             /\ PieceLen(n, c, e, i) \in Nat \ {0} /\ BytesTo(n, c, e, i) = i * c /\ i * c \in Nat
             /\ BytesTo(n, c, e, i + 1) = i * c + PieceLen(n, c, e, i)
      BY ONLY PieceBounds, n \in Nat \ {0}, c \in Nat \ {0}, e \in Nat \ {0}
    <3> QED
      BY <2>1, <3>1
  <2> DEFINE D == 0..(k - 1)
  <2>4. IsFiniteSet(D) /\ k \notin D /\ D \cup {k} = 0..(k + 1 - 1)
    <3>1. IsFiniteSet(D)
      BY <2>1, FS_Interval
    <3> QED
      BY <3>1, <2>1
  <2>5. \A i \in D \cup {k} : F[i].len \in Nat
    <3> SUFFICES ASSUME NEW i \in 0..k PROVE F[i].len \in Nat
      BY <2>1
    <3>1. i \in 0..(n - 1) /\ i \in DOMAIN F
      BY <2>1
    <3>2. F[i].len = PieceLen(n, c, e, i)
      BY <3>1 DEF Laid
    <3>3. PieceLen(n, c, e, i) \in Nat \ {0}
      BY ONLY <3>1, PieceBounds, n \in Nat \ {0}, c \in Nat \ {0}, e \in Nat \ {0}
    <3> QED
      BY <3>2, <3>3
  <2> HIDE DEF D
  <2>6. Cardinality(Cells(F, D \cup {k})) = Cardinality(Cells(F, D)) + F[k].len
    BY ONLY <2>4, <2>5, CellsGrow
  <2>7. Cardinality(Cells(F, D)) = k * c
    BY <1>2, <2>3 DEF D
  <2>8. Cardinality(Cells(F, 0..(k + 1 - 1))) = BytesTo(n, c, e, k + 1)
    BY <2>2, <2>3, <2>4, <2>6, <2>7
  <2>9. k + 1 \in 0..d
    OBVIOUS
  <2> QED
    BY <2>8, <2>9
<1>3. d \in Done
  <2>1. d \in Nat /\ d \in 0..d
    OBVIOUS
  <2> HIDE DEF Done
  <2> QED
    BY <1>1, <1>2, <2>1, UpTheNumbers
<1> QED
  BY <1>3

----------------------------------------------------------------------------
(* What the fragments hold, put together *)

Byte == Message \X Nat

LEMMA StretchIsSeq ==
    ASSUME NEW m \in Message, NEW k \in Nat, NEW a \in Nat
    PROVE  /\ [j \in 1..k |-> <<m, a + j>>] \in Seq(Byte)
           /\ Len([j \in 1..k |-> <<m, a + j>>]) = k
           /\ Stretch(m, k) \in Seq(Byte) /\ Len(Stretch(m, k)) = k
<1>1. \A j \in 1..k : <<m, a + j>> \in Byte /\ <<m, j>> \in Byte
  BY DEF Byte
<1>2. [j \in 1..k |-> <<m, a + j>>] \in [1..k -> Byte] /\ Stretch(m, k) \in [1..k -> Byte]
  BY <1>1 DEF Stretch
<1>3. \A s \in [1..k -> Byte] : s \in Seq(Byte) /\ Len(s) = k
  OBVIOUS
<1> HIDE DEF Byte
<1> QED
  BY <1>2, <1>3

\* The bytes that follow a stretch make a longer one of it.
LEMMA StretchConcat ==
    ASSUME NEW m \in Message, NEW a \in Nat, NEW b \in Nat
    PROVE  Stretch(m, a) \o [j \in 1..b |-> <<m, a + j>>] = Stretch(m, a + b)
<1> DEFINE s == Stretch(m, a)
           t == [j \in 1..b |-> <<m, a + j>>]
           u == Stretch(m, a + b)
<1>1. /\ s \in Seq(Byte) /\ Len(s) = a /\ t \in Seq(Byte) /\ Len(t) = b
      /\ u \in Seq(Byte) /\ Len(u) = a + b
  <2>1. a + b \in Nat
    OBVIOUS
  <2> QED
    BY <2>1, StretchIsSeq
<1>2. /\ \A j \in 1..a : s[j] = <<m, j>>
      /\ \A j \in 1..b : t[j] = <<m, a + j>>
      /\ \A j \in 1..(a + b) : u[j] = <<m, j>>
  BY DEF Stretch
<1> HIDE DEF s, t, u, Byte
<1>3. /\ s \o t \in Seq(Byte) /\ Len(s \o t) = a + b
      /\ \A j \in 1..(a + b) : (s \o t)[j] = IF j <= a THEN s[j] ELSE t[j - a]
  BY <1>1, ConcatProperties
<1>4. ASSUME NEW j \in 1..(a + b) PROVE (s \o t)[j] = u[j]
  <2>1. CASE j <= a
    <3>1. j \in 1..a
      BY <2>1
    <3>2. (s \o t)[j] = s[j]
      BY <1>3, <2>1
    <3> QED
      BY <1>2, <3>1, <3>2
  <2>2. CASE ~(j <= a)
    <3>1. j - a \in 1..b /\ a + (j - a) = j
      BY <2>2
    <3>2. (s \o t)[j] = t[j - a]
      BY <1>3, <2>2
    <3>3. t[j - a] = <<m, a + (j - a)>>
      BY <1>2, <3>1
    <3> QED
      BY <1>2, <3>1, <3>2, <3>3
  <2> QED
    BY <2>1, <2>2
<1>5. s \o t = u
  BY <1>1, <1>3, <1>4, SeqEqual
<1> QED
  BY <1>5 DEF s, t, u

\* Without holes the fragments are at 0, 1, 2, ...
LEMMA GaplessIs ==
    ASSUME IsFiniteSet(DOMAIN buffer.frags)
    PROVE  /\ Cardinality(DOMAIN buffer.frags) \in Nat
           /\ \A d \in Nat : DOMAIN buffer.frags = 0..(d - 1)
                                => Gapless /\ Cardinality(DOMAIN buffer.frags) = d
<1>1. Cardinality(DOMAIN buffer.frags) \in Nat
  BY FS_CardinalityType
<1>2. ASSUME NEW d \in Nat, DOMAIN buffer.frags = 0..(d - 1)
      PROVE  Gapless /\ Cardinality(DOMAIN buffer.frags) = d
  <2>1. 0 \in Int /\ d - 1 \in Int
    OBVIOUS
  <2>2. Cardinality(0..(d - 1)) = IF 0 > d - 1 THEN 0 ELSE d - 1 - 0 + 1
    BY ONLY <2>1, FS_Interval
  <2>3. Cardinality(0..(d - 1)) = d
    BY ONLY <2>2, d \in Nat
  <2> QED
    BY <1>2, <2>3 DEF Gapless
<1> QED
  BY <1>1, <1>2

\* The first d fragments, put together, are the bytes of the message up to there.
LEMMA ContentsLaid ==
    ASSUME NEW m \in Message, NEW n \in Nat \ {0}, NEW c \in Nat \ {0}, NEW e \in Nat \ {0},
           Laid(buffer.frags, m, n, c, e), IsFiniteSet(DOMAIN buffer.frags),
           NEW d \in 0..n, DOMAIN buffer.frags = 0..(d - 1)
    PROVE  Contents = Stretch(m, BytesTo(n, c, e, d))
<1> DEFINE F  == buffer.frags
           ss == [i \in 1..d |-> Payload(F[i - 1])]
<1>1. Cardinality(DOMAIN F) = d /\ d \in Nat
  BY GaplessIs
<1>2. Contents = FlattenSeq(ss)
  BY <1>1 DEF Contents
<1>3. Len(ss) = d
  OBVIOUS
<1>4. \A i \in 0..(n - 1) :
         /\ PieceLen(n, c, e, i) \in Nat \ {0} /\ BytesTo(n, c, e, i) = i * c /\ i * c \in Nat
         /\ BytesTo(n, c, e, i + 1) = i * c + PieceLen(n, c, e, i)
         /\ BytesTo(n, c, e, 0) = 0
  BY ONLY PieceBounds, n \in Nat \ {0}, c \in Nat \ {0}, e \in Nat \ {0}
<1>5. CASE d = 0
  <2>1. FlattenSeq(ss) = ss
    BY <1>3, <1>5 DEF FlattenSeq
  <2>2. BytesTo(n, c, e, d) = 0
    <3>1. 0 \in 0..(n - 1)
      OBVIOUS
    <3> QED
      BY <1>4, <1>5, <3>1
  <2>3. ss = Stretch(m, 0)
    <3>1. 1..0 = {} /\ 1..d = {}
      BY <1>5
    <3> QED
      BY <3>1 DEF Stretch
  <2> QED
    BY <1>2, <2>1, <2>2, <2>3
<1>6. CASE d # 0
  <2>1. ASSUME NEW i \in 0..(d - 1)
        PROVE  ss[i + 1] = [j \in 1..PieceLen(n, c, e, i) |-> <<m, i * c + j>>]
    <3>1. i \in DOMAIN F /\ i + 1 \in 1..d /\ i + 1 - 1 = i
      OBVIOUS
    <3>2. ss[i + 1] = Payload(F[i])
      BY <3>1
    <3> HIDE DEF ss, F
    <3> QED
      BY <3>1, <3>2 DEF Laid, F
  <2>2. Len(ss) \in Nat \ {0}
    BY <1>1, <1>3, <1>6
  <2> HIDE DEF ss
  <2>3. PICK f : /\ f[1] = ss[1] /\ f[Len(ss)] = FlattenSeq(ss)
                 /\ \A i \in 2..Len(ss) : f[i] = f[i - 1] \o ss[i]
    BY <2>2, FlattenUnfolds
  <2> DEFINE Done == {k \in Nat : f[k + 1] = Stretch(m, BytesTo(n, c, e, k + 1))}
  <2>4. 0 \in Done
    <3>1. 0 \in 0..(n - 1) /\ 0 \in 0..(d - 1) /\ 0 + 1 = 1
      BY <1>1, <1>6
    <3>2. ss[1] = [j \in 1..PieceLen(n, c, e, 0) |-> <<m, 0 * c + j>>]
      BY <2>1, <3>1
    <3>3. PICK l \in Nat : l = PieceLen(n, c, e, 0)
      BY <1>4, <3>1
    <3>4. 0 * c = 0 /\ BytesTo(n, c, e, 1) = 0 * c + l /\ 0 * c + l = l
      BY <1>4, <3>1, <3>3
    <3>5. [j \in 1..l |-> <<m, 0 * c + j>>] = [j \in 1..l |-> <<m, j>>]
      BY <3>4
    <3>6. f[1] = Stretch(m, BytesTo(n, c, e, 1))
      BY <2>3, <3>2, <3>3, <3>4, <3>5 DEF Stretch
    <3> QED
      BY <3>1, <3>6
  <2>5. ASSUME NEW k \in 0..(d - 1 - 1), k \in Done PROVE k + 1 \in Done
    <3>1. /\ k + 1 \in 0..(n - 1) /\ k + 1 \in 0..(d - 1) /\ k + 2 \in 2..Len(ss)
          /\ k + 2 - 1 = k + 1 /\ k + 1 + 1 = k + 2 /\ k + 1 \in Nat
      BY <1>1, <1>3 DEF ss
    <3>2. f[k + 2] = f[k + 1] \o ss[k + 2]
      <4>1. \A i \in 2..Len(ss) : f[i] = f[i - 1] \o ss[i]
        BY <2>3
      <4>2. PICK q \in 2..Len(ss) : q = k + 2
        BY <3>1
      <4>3. f[q] = f[q - 1] \o ss[q]
        BY <4>1
      <4>4. q - 1 = k + 1
        BY <4>2
      <4> QED
        BY ONLY <4>2, <4>3, <4>4
    <3>3. PICK a \in Nat : a = (k + 1) * c
      BY <1>4, <3>1
    <3>4. PICK b \in Nat : b = PieceLen(n, c, e, k + 1)
      BY <1>4, <3>1
    <3>5. f[k + 1] = Stretch(m, a)
      BY <2>5, <1>4, <3>1, <3>3
    <3>6. ss[k + 2] = [j \in 1..b |-> <<m, a + j>>]
      <4>1. ss[k + 1 + 1] = [j \in 1..PieceLen(n, c, e, k + 1) |-> <<m, (k + 1) * c + j>>]
        BY <2>1, <3>1
      <4> QED
        BY ONLY <4>1, <3>1, <3>3, <3>4
    <3>7. BytesTo(n, c, e, k + 2) = a + b
      BY <1>4, <3>1, <3>3, <3>4
    <3>8. f[k + 2] = Stretch(m, a + b)
      BY <3>2, <3>5, <3>6, StretchConcat
    <3> QED
      BY <3>1, <3>7, <3>8
  <2>6. d - 1 \in Done
    <3>1. d - 1 \in Nat /\ d - 1 \in 0..(d - 1)
      BY <1>1, <1>6
    <3> HIDE DEF Done
    <3> QED
      BY <2>4, <2>5, <3>1, UpTheNumbers
  <2>7. d - 1 + 1 = d
    BY <1>1
  <2>8. Len(ss) = d
    BY <1>3 DEF ss
  <2> QED
    BY <1>2, <2>3, <2>6, <2>7, <2>8 DEF ss
<1> HIDE DEF ss, F
<1> QED
  BY <1>5, <1>6

\* Without holes the Buffer has the first d fragments, and their bytes.
LEMMA GaplessReads ==
    ASSUME NEW m \in Message, NEW n \in Nat \ {0}, NEW c \in Nat \ {0}, NEW e \in Nat \ {0},
           Laid(buffer.frags, m, n, c, e), Filled(buffer.frags), Gapless
    PROVE  \E d \in 0..n : /\ DOMAIN buffer.frags = 0..(d - 1)
                           /\ LenOf(buffer) = BytesTo(n, c, e, d)
                           /\ BytesTo(n, c, e, d) \in Nat
                           /\ BytesTo(n, c, e, d) <= BytesTo(n, c, e, n)
                           /\ Contents = Stretch(m, BytesTo(n, c, e, d))
                           /\ Len(Contents) = BytesTo(n, c, e, d)
<1> DEFINE F == buffer.frags
<1>1. IsFiniteSet(DOMAIN F) /\ Cardinality(DOMAIN F) \in Nat
  BY GaplessIs DEF Filled
<1>2. PICK d \in Nat : d = Cardinality(DOMAIN F)
  BY <1>1
<1>3. DOMAIN F = 0..(d - 1)
  BY <1>2 DEF Gapless
<1>4. d \in 0..n
  <2>1. d = 0 \/ d - 1 \in DOMAIN F
    BY <1>3
  <2>2. d = 0 \/ d - 1 \in 0..(n - 1)
    BY <2>1 DEF Laid
  <2> QED
    BY ONLY <2>2, d \in Nat, n \in Nat \ {0}
<1>5. Laid(F, m, n, c, e)
  OBVIOUS
<1>6. Contents = Stretch(m, BytesTo(n, c, e, d))
  BY <1>1, <1>3, <1>4, ContentsLaid
<1> HIDE DEF F
<1>7. Cardinality(Cells(F, DOMAIN F)) = BytesTo(n, c, e, d)
  BY ONLY <1>3, <1>4, <1>5, GaplessLength, n \in Nat \ {0}, c \in Nat \ {0}, e \in Nat \ {0}
<1>8. LenOf(buffer) = Cardinality(Cells(F, DOMAIN F))
  BY DEF LenOf, Cells, F
<1>9. BytesTo(n, c, e, d) \in Nat /\ BytesTo(n, c, e, d) <= BytesTo(n, c, e, n)
  <2>1. \A k \in 0..(n - 1) :
           /\ PieceLen(n, c, e, k) \in Nat \ {0} /\ BytesTo(n, c, e, k) = k * c /\ k * c \in Nat
           /\ k * c + PieceLen(n, c, e, k) <= BytesTo(n, c, e, n)
           /\ BytesTo(n, c, e, n) \in Nat
    BY ONLY PieceBounds, n \in Nat \ {0}, c \in Nat \ {0}, e \in Nat \ {0}
  <2>2. CASE d = n
    <3>1. 0 \in 0..(n - 1)
      OBVIOUS
    <3> QED
      BY <2>1, <2>2, <3>1
  <2>3. CASE d # n
    <3>1. d \in 0..(n - 1)
      BY <1>4, <2>3
    <3> QED
      BY <2>1, <3>1
  <2> QED
    BY <2>2, <2>3
<1>10. Len(Contents) = BytesTo(n, c, e, d)
  BY <1>6, <1>9, StretchIsSeq
<1> QED
  BY <1>3, <1>4, <1>6, <1>7, <1>8, <1>9, <1>10 DEF F

\* Whatever the fragments hold, put together it is a sequence of bytes, and not empty.
LEMMA ContentsFilled ==
    ASSUME Filled(buffer.frags), Gapless
    PROVE  /\ Contents \in Seq(Byte) /\ Len(Contents) \in Nat
           /\ DOMAIN buffer.frags # {} => Len(Contents) >= 1
<1> DEFINE F  == buffer.frags
           d  == Cardinality(DOMAIN F)
           ss == [i \in 1..d |-> Payload(F[i - 1])]
<1>1. d \in Nat /\ DOMAIN F = 0..(d - 1)
  <2>1. IsFiniteSet(DOMAIN buffer.frags)
    BY DEF Filled
  <2> QED
    BY <2>1, GaplessIs DEF Gapless
<1>2. Contents = FlattenSeq(ss)
  BY DEF Contents
<1> HIDE DEF d
<1>3. Len(ss) = d
  BY <1>1
<1>4. CASE d = 0
  <2>1. FlattenSeq(ss) = ss
    BY <1>3, <1>4 DEF FlattenSeq
  <2>2. 1..d = {} /\ 0..(d - 1) = {}
    BY <1>4
  <2>3. ss = <<>>
    BY <2>2
  <2>4. DOMAIN buffer.frags = {}
    BY <1>1, <2>2
  <2>5. <<>> \in Seq(Byte) /\ Len(<<>>) = 0
    BY EmptySeq
  <2> HIDE DEF ss
  <2> QED
    BY <1>2, <2>1, <2>3, <2>4, <2>5
<1>5. CASE d # 0
  <2>1. ASSUME NEW i \in 1..d PROVE ss[i] \in Seq(Byte) /\ Len(ss[i]) \in Nat \ {0}
    <3>1. i - 1 \in DOMAIN F
      BY <1>1
    <3>2. F[i - 1].len \in Nat \ {0} /\ Payload(F[i - 1]) \in [1..F[i - 1].len -> Byte]
      BY <3>1 DEF Filled, Byte
    <3>3. PICK l \in Nat \ {0} : l = F[i - 1].len
      BY <3>2
    <3>4. ss[i] \in [1..l -> Byte]
      BY <3>2, <3>3
    <3>5. \A s \in [1..l -> Byte] : s \in Seq(Byte) /\ Len(s) = l
      OBVIOUS
    <3> HIDE DEF ss, F, Byte
    <3> QED
      BY <3>3, <3>4, <3>5
  <2>2. Len(ss) \in Nat \ {0}
    BY <1>1, <1>3, <1>5
  <2> HIDE DEF ss
  <2>3. PICK f : /\ f[1] = ss[1] /\ f[Len(ss)] = FlattenSeq(ss)
                 /\ \A i \in 2..Len(ss) : f[i] = f[i - 1] \o ss[i]
    BY <2>2, FlattenUnfolds
  <2> DEFINE Done == {k \in Nat : f[k + 1] \in Seq(Byte) /\ Len(f[k + 1]) >= 1}
  <2>4. 0 \in Done
    <3>1. 1 \in 1..d /\ 0 + 1 = 1
      BY <1>1, <1>5
    <3>2. f[1] \in Seq(Byte) /\ Len(f[1]) \in Nat \ {0}
      BY <2>1, <2>3, <3>1
    <3> QED
      BY <3>1, <3>2
  <2>5. ASSUME NEW k \in 0..(d - 1 - 1), k \in Done PROVE k + 1 \in Done
    <3>1. /\ k + 2 \in 1..d /\ k + 2 \in 2..Len(ss)
          /\ k + 2 - 1 = k + 1 /\ k + 1 + 1 = k + 2 /\ k + 1 \in Nat
      BY <1>1, <1>3 DEF ss
    <3>2. f[k + 2] = f[k + 1] \o ss[k + 2]
      <4>1. \A i \in 2..Len(ss) : f[i] = f[i - 1] \o ss[i]
        BY <2>3
      <4>2. PICK q \in 2..Len(ss) : q = k + 2
        BY <3>1
      <4>3. f[q] = f[q - 1] \o ss[q]
        BY <4>1
      <4>4. q - 1 = k + 1
        BY <4>2
      <4> QED
        BY ONLY <4>2, <4>3, <4>4
    <3>3. f[k + 1] \in Seq(Byte) /\ Len(f[k + 1]) >= 1 /\ Len(f[k + 1]) \in Nat
      <4>1. f[k + 1] \in Seq(Byte) /\ Len(f[k + 1]) >= 1
        BY <2>5
      <4> QED
        BY <4>1, LenProperties
    <3>4. ss[k + 2] \in Seq(Byte) /\ Len(ss[k + 2]) \in Nat
      BY <2>1, <3>1
    <3>5. f[k + 2] \in Seq(Byte) /\ Len(f[k + 2]) = Len(f[k + 1]) + Len(ss[k + 2])
      BY <3>2, <3>3, <3>4, ConcatProperties
    <3>6. Len(f[k + 2]) >= 1
      <4>1. PICK u \in Nat, v \in Nat : u = Len(f[k + 1]) /\ v = Len(ss[k + 2])
        BY <3>3, <3>4
      <4>2. u >= 1 /\ Len(f[k + 2]) = u + v
        BY <3>3, <3>5, <4>1
      <4> QED
        BY <4>2
    <3> QED
      BY <3>1, <3>5, <3>6
  <2>6. d - 1 \in Done
    <3>1. d - 1 \in Nat /\ d - 1 \in 0..(d - 1)
      BY <1>1, <1>5
    <3> HIDE DEF Done
    <3> QED
      BY <2>4, <2>5, <3>1, UpTheNumbers
  <2>7. d - 1 + 1 = d
    BY <1>1
  <2>8. Len(ss) = d
    BY <1>3 DEF ss
  <2>9. Contents \in Seq(Byte) /\ Len(Contents) >= 1
    BY <1>2, <2>3, <2>6, <2>7, <2>8 DEF ss
  <2> QED
    BY <2>9, LenProperties
<1> QED
  BY <1>4, <1>5

----------------------------------------------------------------------------
(* Cutting *)

LEMMA Division ==
    ASSUME NEW a \in Nat, NEW q \in Nat \ {0}
    PROVE  a \div q \in Nat /\ a % q \in 0..(q - 1) /\ a = q * (a \div q) + (a % q)
OBVIOUS

\* The pieces of n bytes, of a payload that is not empty: all are full but the last,
\* which is not empty.
LEMMA PieceShape ==
    ASSUME NEW S, NEW xs \in Seq(S), Len(xs) >= 1, NEW q \in Nat \ {0}
    PROVE  LET last == (Len(xs) - 1) \div q
               e    == Len(xs) - last * q
           IN  /\ last \in Nat /\ e \in Nat \ {0} /\ last * q + e = Len(xs)
               /\ \A i \in 0..last :
                     /\ Len(Piece(xs, q, i)) = PieceLen(last + 1, q, e, i)
                     /\ Piece(xs, q, i) = [j \in 1..PieceLen(last + 1, q, e, i) |-> xs[i * q + j]]
                     /\ Piece(xs, q, i) \in Seq(S)
<1>1. PICK t \in Nat \ {0} : t = Len(xs)
  <2>1. Len(xs) \in Nat
    BY LenProperties
  <2> QED
    BY <2>1
<1> DEFINE last == (t - 1) \div q
           e    == t - last * q
<1>2. last \in Nat /\ last * q <= t - 1 /\ t - 1 < (last + 1) * q
  <2>1. t - 1 \in Nat /\ q \in Nat /\ q > 0
    OBVIOUS
  <2>2. (t - 1) \div q \in Nat /\ (t - 1) % q \in 0..(q - 1)
        /\ t - 1 = q * ((t - 1) \div q) + ((t - 1) % q)
    BY <2>1, Division
  <2>3. PICK u \in Nat, v \in 0..(q - 1) : u = last /\ v = (t - 1) % q
    BY <2>2
  <2>4. t - 1 = q * u + v /\ q * u = u * q /\ (u + 1) * q = u * q + q /\ u * q \in Nat
    BY <2>2, <2>3
  <2> QED
    BY <2>1, <2>3, <2>4
<1>3. PICK u \in Nat : u = last
  BY <1>2
<1>4. u * q \in Nat /\ (u + 1) * q = u * q + q
  BY <1>3
<1>5. e \in Nat \ {0} /\ last * q + e = t /\ e <= q
  BY <1>2, <1>3, <1>4
<1> HIDE DEF last, e
<1>6. ASSUME NEW i \in 0..last
      PROVE  /\ Len(Piece(xs, q, i)) = PieceLen(last + 1, q, e, i)
             /\ Piece(xs, q, i) = [j \in 1..PieceLen(last + 1, q, e, i) |-> xs[i * q + j]]
             /\ Piece(xs, q, i) \in Seq(S)
  <2>1. i \in Nat /\ i \in 0..(last + 1 - 1) /\ last + 1 \in Nat \ {0} /\ last + 1 - 1 = last
    BY <1>2
  <2>p. PICK h \in Nat \ {0} : h = last + 1
    BY <2>1
  <2>2. PICK l \in Nat \ {0} : l = PieceLen(last + 1, q, e, i)
    <3>1. i \in 0..(h - 1)
      <4>1. h - 1 = last + 1 - 1
        BY <1>2, <2>p
      <4> QED
        BY ONLY <4>1, <2>1
    <3>2. e \in Nat \ {0}
      BY <1>5
    <3>3. PieceLen(h, q, e, i) \in Nat \ {0}
      BY ONLY <3>1, <3>2, q \in Nat \ {0}, h \in Nat \ {0}, PieceBounds
    <3> QED
      BY <3>3, <2>p
  <2>3. PICK a \in Nat : a = i * q
    BY <2>1
  <2>4. (i + 1) * q = a + q
    BY <2>1, <2>3
  <2>5. a + l <= t /\ a + l = (IF (i + 1) * q < t THEN (i + 1) * q ELSE t)
    <3>1. CASE i = last
      <4>1. l = e
        BY <2>1, <2>2, <3>1 DEF PieceLen
      <4>2. a + e = t
        BY <1>5, <2>3, <3>1
      <4>3. ~(a + q < t)
        BY <4>2, <1>5, a \in Nat, q \in Nat
      <4> QED
        BY <4>1, <4>2, <4>3, <2>4
    <3>2. CASE i # last
      <4>1. l = q
        <5>1. i # last + 1 - 1
          BY <2>1, <3>2
        <5> QED
          BY <1>2, <2>1, <5>1, <2>2 DEF PieceLen
      <4>2. PICK w \in Nat : last = i + 1 + w
        <5>1. last - i - 1 \in Nat /\ last = i + 1 + (last - i - 1)
          BY <1>2, <2>1, <3>2
        <5> QED
          BY <5>1
      <4>3. last * q = (i + 1) * q + w * q /\ w * q \in Nat
        BY <4>2, <2>1
      <4>4. PICK z \in Nat : z = w * q
        BY <4>3
      <4>5. a + q <= last * q
        BY <4>3, <4>4, <2>4, a \in Nat, q \in Nat
      <4>6. last * q \in Nat /\ last * q < t
        BY <1>2
      <4>7. a + q < t
        BY <4>5, <4>6, a \in Nat, q \in Nat
      <4> QED
        BY <4>1, <4>7, <2>4, a \in Nat, q \in Nat
    <3> QED
      BY <3>1, <3>2
  <2>6. Piece(xs, q, i) = SubSeq(xs, a + 1, a + l)
    BY <1>1, <2>3, <2>5 DEF Piece
  <2>7. \A k \in (a + 1)..(a + l) : xs[k] \in S
    <3> SUFFICES ASSUME NEW k \in (a + 1)..(a + l) PROVE xs[k] \in S
      OBVIOUS
    <3>1. k \in 1..t
      BY <2>5
    <3>2. k \in 1..Len(xs)
      BY <1>1, <3>1
    <3> QED
      BY <3>2, ElementOfSeq
  <2> DEFINE p == SubSeq(xs, a + 1, a + l)
  <2>8. /\ p \in Seq(S)
        /\ Len(p) = IF a + 1 <= a + l THEN (a + l) - (a + 1) + 1 ELSE 0
        /\ \A j \in 1..((a + l) - (a + 1) + 1) : p[j] = xs[a + 1 + j - 1]
    <3>1. a + 1 \in Int /\ a + l \in Int
      OBVIOUS
    <3> QED
      BY ONLY <2>7, <3>1, SubSeqProperties
  <2> HIDE DEF p
  <2>9. Len(p) = l
    BY <2>8
  <2>10. ASSUME NEW j \in 1..l PROVE p[j] = xs[a + j]
    <3>1. j \in 1..((a + l) - (a + 1) + 1) /\ a + 1 + j - 1 = a + j
      OBVIOUS
    <3>2. p[j] = xs[a + 1 + j - 1]
      BY <2>8, <3>1
    <3> QED
      BY <3>1, <3>2
  <2>11. p = [j \in 1..l |-> xs[a + j]]
    <3>1. p = [j \in 1..l |-> p[j]]
      BY <2>8, <2>9, LenProperties
    <3> QED
      BY <3>1, <2>10
  <2> QED
    BY <2>2, <2>3, <2>6, <2>8, <2>9, <2>11 DEF p
<1>7. \A i \in 0..last :
         /\ Len(Piece(xs, q, i)) = PieceLen(last + 1, q, e, i)
         /\ Piece(xs, q, i) = [j \in 1..PieceLen(last + 1, q, e, i) |-> xs[i * q + j]]
         /\ Piece(xs, q, i) \in Seq(S)
  BY <1>6
<1> QED
  BY <1>1, <1>2, <1>5, <1>7 DEF last, e

----------------------------------------------------------------------------
(* Reading *)

IsCursor(r) ==
    /\ DOMAIN r = {"index", "offset", "fault", "bytes"}
    /\ r.index \in Nat /\ r.offset \in Nat /\ r.bytes \in Seq(Byte)

\* A byte read moves the position, and gives one byte or is a fault.
LEMMA ReadByteType ==
    ASSUME Filled(buffer.frags), NEW r, IsCursor(r)
    PROVE  /\ IsCursor(ReadByte(r))
           /\ \/ ReadByte(r).bytes = r.bytes /\ ReadByte(r).fault = TRUE
              \/ Len(ReadByte(r).bytes) = Len(r.bytes) + 1 /\ ReadByte(r).fault = r.fault
<1> DEFINE F  == buffer.frags
           at == IF r.index \in DOMAIN F /\ r.offset = F[r.index].len
                 THEN [r EXCEPT !.index = @ + 1, !.offset = 0] ELSE r
<1>1. IsCursor(at) /\ at.bytes = r.bytes /\ at.fault = r.fault
  <2> HIDE DEF Byte
  <2>1. PICK n1 \in Nat : n1 = r.index + 1
    BY DEF IsCursor
  <2>2. IsCursor([r EXCEPT !.index = n1, !.offset = 0])
    BY DEF IsCursor
  <2> QED
    BY <2>1, <2>2 DEF IsCursor
<1>2. ReadByte(r) = IF at.index \notin DOMAIN F \/ at.offset > F[at.index].len
                    THEN [at EXCEPT !.fault = TRUE]
                    ELSE [at EXCEPT !.offset = @ + 1,
                             !.bytes = Append(@, Payload(F[at.index])[at.offset + 1])]
  BY DEF ReadByte
<1>3. at.offset # F[at.index].len \/ at.index \notin DOMAIN F
  <2>1. CASE r.index \in DOMAIN F /\ r.offset = F[r.index].len
    <3>1. at.offset = 0
      BY <2>1 DEF IsCursor
    <3>2. at.index \in DOMAIN F => F[at.index].len \in Nat \ {0}
      <4> HIDE DEF at
      <4> QED
        BY DEF Filled
    <3> QED
      BY <3>1, <3>2
  <2>2. CASE ~(r.index \in DOMAIN F /\ r.offset = F[r.index].len)
    BY <2>2
  <2> QED
    BY <2>1, <2>2
<1> HIDE DEF at
<1>4. CASE at.index \notin DOMAIN F \/ at.offset > F[at.index].len
  BY <1>1, <1>2, <1>4 DEF IsCursor
<1>5. CASE ~(at.index \notin DOMAIN F \/ at.offset > F[at.index].len)
  <2> DEFINE x == Payload(F[at.index])[at.offset + 1]
  <2>1. PICK l \in Nat : l = F[at.index].len /\ Payload(F[at.index]) \in [1..l -> Byte]
    BY <1>5 DEF Filled, Byte
  <2>2. at.offset \in Nat /\ at.offset # l /\ ~(at.offset > l)
    BY <1>1, <1>3, <1>5, <2>1 DEF IsCursor
  <2>3. at.offset + 1 \in 1..l
    BY ONLY <2>2, l \in Nat
  <2>4. x \in Byte
    BY <2>1, <2>3
  <2> HIDE DEF x, Byte
  <2>5. at.bytes \in Seq(Byte)
    BY <1>1 DEF IsCursor
  <2>6. Append(at.bytes, x) \in Seq(Byte) /\ Len(Append(at.bytes, x)) = Len(at.bytes) + 1
    BY <2>4, <2>5, AppendProperties
  <2>7. ReadByte(r) = [at EXCEPT !.offset = at.offset + 1, !.bytes = Append(at.bytes, x)]
    BY <1>1, <1>2, <1>5 DEF x, IsCursor
  <2>8. PICK o, y : o = at.offset + 1 /\ y = Append(at.bytes, x)
    OBVIOUS
  <2>o. o \in Nat /\ y \in Seq(Byte)
    BY <2>2, <2>6, <2>8
  <2>9. ReadByte(r) = [at EXCEPT !.offset = o, !.bytes = y]
    BY <2>7, <2>8
  <2>10. IsCursor(ReadByte(r)) /\ ReadByte(r).bytes = y /\ ReadByte(r).fault = at.fault
    BY <2>9, <2>o, <1>1 DEF IsCursor
  <2> QED
    BY <2>10, <2>8, <2>6, <1>1
<1> QED
  BY <1>4, <1>5

\* Reading gives at most the bytes asked for.
LEMMA ReadingType ==
    ASSUME Filled(buffer.frags), index \in Nat, offset \in Nat, NEW b \in Nat
    PROVE  /\ IsCursor(Reading(b))
           /\ Len(Reading(b).bytes) \in Nat /\ Len(Reading(b).bytes) <= b
<1>1. PICK r : /\ r[0] = [index |-> index, offset |-> offset, fault |-> FALSE, bytes |-> <<>>]
               /\ r[b] = Reading(b)
               /\ \A k \in 1..b : r[k] = ReadByte(r[k - 1])
  BY ReadingUnfolds
<1> DEFINE Done == {k \in Nat : IsCursor(r[k]) /\ Len(r[k].bytes) <= k}
<1>2. 0 \in Done
  <2>1. <<>> \in Seq(Byte) /\ Len(<<>>) = 0
    BY EmptySeq
  <2>2. IsCursor(r[0]) /\ r[0].bytes = <<>>
    BY <1>1, <2>1 DEF IsCursor
  <2> QED
    BY <2>1, <2>2
<1>3. ASSUME NEW k \in 0..(b - 1), k \in Done PROVE k + 1 \in Done
  <2>1. PICK l \in 1..b : l = k + 1
    OBVIOUS
  <2>2. l - 1 = k /\ k \in Nat
    BY <2>1
  <2>3. r[l] = ReadByte(r[l - 1])
    BY <1>1
  <2>4. r[l] = ReadByte(r[k])
    BY ONLY <2>2, <2>3
  <2> DEFINE q == r[k]
  <2>5. IsCursor(q) /\ Len(q.bytes) <= k
    BY <1>3
  <2> HIDE DEF q, Done
  <2>6. /\ IsCursor(ReadByte(q))
        /\ \/ ReadByte(q).bytes = q.bytes /\ ReadByte(q).fault = TRUE
           \/ Len(ReadByte(q).bytes) = Len(q.bytes) + 1 /\ ReadByte(q).fault = q.fault
    BY <2>5, ReadByteType
  <2>7. PICK u \in Nat : u = Len(q.bytes)
    <3>1. q.bytes \in Seq(Byte)
      BY <2>5 DEF IsCursor
    <3> QED
      BY <3>1, LenProperties
  <2>8. Len(ReadByte(q).bytes) = u \/ Len(ReadByte(q).bytes) = u + 1
    BY <2>6, <2>7
  <2>9. Len(ReadByte(q).bytes) <= k + 1
    BY <2>2, <2>5, <2>7, <2>8
  <2> QED
    BY <2>1, <2>2, <2>4, <2>6, <2>9 DEF q, Done
<1>4. b \in Done
  <2>1. b \in 0..b
    OBVIOUS
  <2> HIDE DEF Done
  <2> QED
    BY <1>2, <1>3, <2>1, UpTheNumbers
<1>5. IsCursor(Reading(b)) /\ Len(Reading(b).bytes) <= b
  BY <1>1, <1>4
<1> QED
  BY <1>5, LenProperties DEF IsCursor

\* On the way through the message m, R bytes of which were read before: k bytes more,
\* unless there was a hole.
OnTheWay(r, m, n, c, e, R, k) ==
    /\ IsCursor(r)
    /\ r.bytes = [j \in 1..Len(r.bytes) |-> <<m, R + j>>]
    /\ R + Len(r.bytes) <= BytesTo(n, c, e, n)
    /\ r.fault = FALSE => Len(r.bytes) = k /\ Placed(buffer.frags, c, r.index, r.offset, R + k)
    /\ r.fault = TRUE => ~Gapless /\ r.index \notin DOMAIN buffer.frags
    /\ r.fault = TRUE \/ r.fault = FALSE

\* At the end of a fragment the position moves to the next.
MovesTo(F, i, o, x, y) ==
    IF i \in DOMAIN F /\ o = F[i].len THEN x = i + 1 /\ y = 0 ELSE x = i /\ y = o

\* The next byte is read where the position is, or first in the next fragment.
LEMMA NextPlace ==
    ASSUME NEW m \in Message, NEW n \in Nat \ {0}, NEW c \in Nat \ {0}, NEW e \in Nat \ {0},
           Laid(buffer.frags, m, n, c, e), Filled(buffer.frags),
           NEW i \in Nat, NEW o \in Nat, NEW v \in Nat, v + 1 <= LenOf(buffer),
           Placed(buffer.frags, c, i, o, v),
           NEW x, NEW y, MovesTo(buffer.frags, i, o, x, y)
    PROVE  IF x \in DOMAIN buffer.frags
           THEN /\ v = x * c + y /\ y + 1 \in 1..buffer.frags[x].len
                /\ Payload(buffer.frags[x])[y + 1] = <<m, v + 1>>
                /\ v + 1 <= BytesTo(n, c, e, n)
           ELSE ~Gapless
<1> DEFINE F == buffer.frags
<1>1. \A k \in 0..(n - 1) :
         /\ PieceLen(n, c, e, k) \in Nat \ {0} /\ BytesTo(n, c, e, k) = k * c /\ k * c \in Nat
         /\ BytesTo(n, c, e, k + 1) = k * c + PieceLen(n, c, e, k)
         /\ k * c + PieceLen(n, c, e, k) <= BytesTo(n, c, e, n)
         /\ BytesTo(n, c, e, 0) = 0
  BY ONLY PieceBounds, n \in Nat \ {0}, c \in Nat \ {0}, e \in Nat \ {0}
<1>2. \A k \in DOMAIN F : k \in 0..(n - 1) /\ F[k].len = PieceLen(n, c, e, k)
  BY DEF Laid
<1>3. v = i * c + o /\ ((i = 0 /\ o = 0) \/ (i \in DOMAIN F /\ o <= F[i].len))
  BY DEF Placed
<1>g. ASSUME Gapless
      PROVE  \E d \in 0..n : DOMAIN F = 0..(d - 1) /\ LenOf(buffer) = BytesTo(n, c, e, d)
  <2>1. Laid(buffer.frags, m, n, c, e) /\ Filled(buffer.frags)
    OBVIOUS
  <2>2. \E d \in 0..n : /\ DOMAIN buffer.frags = 0..(d - 1)
                         /\ LenOf(buffer) = BytesTo(n, c, e, d)
                         /\ BytesTo(n, c, e, d) \in Nat
                         /\ BytesTo(n, c, e, d) <= BytesTo(n, c, e, n)
                         /\ Contents = Stretch(m, BytesTo(n, c, e, d))
                         /\ Len(Contents) = BytesTo(n, c, e, d)
    BY ONLY <1>g, <2>1, GaplessReads, m \in Message, n \in Nat \ {0}, c \in Nat \ {0},
            e \in Nat \ {0}
  <2> QED
    BY <2>2
<1> HIDE DEF F
<1>4. CASE x \in DOMAIN F
  <2>1. PICK l \in Nat \ {0}, p \in Nat : l = F[x].len /\ l = PieceLen(n, c, e, x) /\ p = x * c
    BY <1>1, <1>2, <1>4
  <2>2. v = p + y /\ y \in Nat /\ y + 1 <= l
    <3>1. CASE i \in DOMAIN F /\ o = F[i].len
      <4>1. x = i + 1 /\ y = 0
        BY <3>1 DEF F, MovesTo
      <4>2. i \in 0..(n - 1) /\ i + 1 \in 0..(n - 1)
        BY <1>2, <1>4, <3>1, <4>1
      <4>3. i # n - 1
        BY <4>2
      <4>4. o = c
        BY <1>2, <3>1, <4>3 DEF PieceLen
      <4>5. (i + 1) * c = i * c + c /\ i * c \in Nat
        OBVIOUS
      <4>6. v = p
        BY <1>3, <2>1, <4>1, <4>4, <4>5
      <4> QED
        BY <4>1, <4>6
    <3>2. CASE ~(i \in DOMAIN F /\ o = F[i].len)
      <4>1. x = i /\ y = o
        BY <3>2 DEF F, MovesTo
      <4>2. o <= l /\ o # l
        <5>1. o # l
          BY <1>4, <2>1, <3>2, <4>1
        <5>2. o = 0 \/ o <= F[x].len
          BY <1>3, <4>1
        <5>3. o = 0 \/ o <= l
          BY <2>1, <5>2
        <5> QED
          BY ONLY <5>1, <5>3, o \in Nat, l \in Nat \ {0}
      <4> QED
        BY <1>3, <2>1, <4>1, <4>2
    <3> QED
      BY <3>1, <3>2
  <2>3. y + 1 \in 1..l
    BY <2>2
  <2>4. Payload(F[x])[y + 1] = <<m, v + 1>>
    <3>1. Payload(F[x]) = [j \in 1..l |-> <<m, p + j>>]
      <4>1. Payload(F[x]) = [j \in 1..PieceLen(n, c, e, x) |-> <<m, x * c + j>>]
        BY <1>4 DEF Laid, F
      <4> QED
        BY <2>1, <4>1
    <3>2. Payload(F[x])[y + 1] = <<m, p + (y + 1)>>
      BY ONLY <3>1, <2>3
    <3>3. p + (y + 1) = v + 1
      BY <2>2
    <3> QED
      BY <3>2, <3>3
  <2>5. v + 1 <= BytesTo(n, c, e, n)
    <3>1. n \in 0..n
      OBVIOUS
    <3>2. p + l <= BytesTo(n, c, e, n)
      BY <1>1, <1>2, <1>4, <2>1
    <3>3. BytesTo(n, c, e, n) \in Nat
      <4>1. 0 \in 0..(n - 1)
        OBVIOUS
      <4> QED
        BY ONLY <4>1, PieceBounds, n \in Nat \ {0}, c \in Nat \ {0}, e \in Nat \ {0}
    <3>4. PICK t \in Nat : t = BytesTo(n, c, e, n)
      BY <3>3
    <3>5. p + l <= t
      BY <3>2, <3>4
    <3>6. v + 1 <= t
      BY <3>5, <2>2
    <3> QED
      BY <3>4, <3>6
  <2> QED
    BY <1>4, <2>1, <2>2, <2>3, <2>4, <2>5 DEF F
<1>5. CASE x \notin DOMAIN F
  <2> SUFFICES ASSUME Gapless PROVE FALSE
    BY <1>5 DEF F
  <2>1. PICK d \in 0..n : DOMAIN F = 0..(d - 1) /\ LenOf(buffer) = BytesTo(n, c, e, d)
    BY <1>g
  <2>2. BytesTo(n, c, e, d) = v
    <3>1. CASE i \in DOMAIN F /\ o = F[i].len
      <4>1. x = i + 1
        BY <3>1 DEF F, MovesTo
      <4>2. d = i + 1
        <5>1. i \in 0..(d - 1) /\ i + 1 \notin 0..(d - 1)
          BY <1>5, <2>1, <3>1, <4>1
        <5> QED
          BY <5>1
      <4>3. i \in 0..(n - 1) /\ o = PieceLen(n, c, e, i)
        BY <1>2, <3>1
      <4> QED
        BY <1>1, <1>3, <4>2, <4>3
    <3>2. CASE ~(i \in DOMAIN F /\ o = F[i].len)
      <4>1. x = i
        BY <3>2 DEF F, MovesTo
      <4>2. i = 0 /\ o = 0
        BY <1>3, <1>5, <4>1
      <4>3. d = 0
        BY <1>5, <2>1, <4>1, <4>2
      <4>4. v = 0
        BY <1>3, <4>2
      <4>5. BytesTo(n, c, e, 0) = 0
        <5>1. 0 \in 0..(n - 1)
          OBVIOUS
        <5> QED
          BY <1>1, <5>1
      <4> QED
        BY <4>3, <4>4, <4>5
    <3> QED
      BY <3>1, <3>2
  <2>3. v + 1 <= v
    BY <2>1, <2>2
  <2> QED
    BY <2>3
<1> QED
  BY <1>4, <1>5

LEMMA ReadByteReads ==
    ASSUME NEW m \in Message, NEW n \in Nat \ {0}, NEW c \in Nat \ {0}, NEW e \in Nat \ {0},
           Laid(buffer.frags, m, n, c, e), Filled(buffer.frags),
           NEW R \in Nat, NEW k \in Nat, R + k + 1 <= LenOf(buffer),
           NEW r, OnTheWay(r, m, n, c, e, R, k)
    PROVE  OnTheWay(ReadByte(r), m, n, c, e, R, k + 1)
<1> DEFINE F  == buffer.frags
           at == IF r.index \in DOMAIN F /\ r.offset = F[r.index].len
                 THEN [r EXCEPT !.index = @ + 1, !.offset = 0] ELSE r
           s  == ReadByte(r)
<1>1. /\ IsCursor(r) /\ r.index \in Nat /\ r.offset \in Nat /\ r.bytes \in Seq(Byte)
      /\ DOMAIN r = {"index", "offset", "fault", "bytes"}
  BY DEF OnTheWay, IsCursor
<1>2. s = IF at.index \notin DOMAIN F \/ at.offset > F[at.index].len
          THEN [at EXCEPT !.fault = TRUE]
          ELSE [at EXCEPT !.offset = @ + 1,
                   !.bytes = Append(@, Payload(F[at.index])[at.offset + 1])]
  BY DEF ReadByte
<1>3. IsCursor(s)
  BY <1>1, ReadByteType
<1>4. /\ DOMAIN at = {"index", "offset", "fault", "bytes"}
      /\ at.bytes = r.bytes /\ at.fault = r.fault
      /\ IF r.index \in DOMAIN F /\ r.offset = F[r.index].len
         THEN at.index = r.index + 1 /\ at.offset = 0
         ELSE at.index = r.index /\ at.offset = r.offset
  BY <1>1
<1>5. CASE r.fault = TRUE
  <2>1. ~Gapless /\ r.index \notin DOMAIN F
    BY <1>5 DEF OnTheWay
  <2>2. at.index = r.index
    BY <2>1, <1>4
  <2> HIDE DEF at
  <2>3. s = [at EXCEPT !.fault = TRUE]
    BY <1>2, <2>1, <2>2
  <2>4. s.bytes = r.bytes /\ s.fault = TRUE /\ s.index = r.index
    BY <2>2, <2>3, <1>4
  <2> HIDE DEF s, F
  <2>5. /\ r.bytes = [j \in 1..Len(r.bytes) |-> <<m, R + j>>]
        /\ R + Len(r.bytes) <= BytesTo(n, c, e, n)
    BY DEF OnTheWay
  <2>6. OnTheWay(s, m, n, c, e, R, k + 1)
    BY <1>3, <2>1, <2>4, <2>5 DEF OnTheWay, F
  <2> QED
    BY <2>6 DEF s
<1>6. CASE r.fault = FALSE
  <2>1. Len(r.bytes) = k /\ Placed(F, c, r.index, r.offset, R + k)
    BY <1>6 DEF OnTheWay
  <2>2. PICK i \in Nat, o \in Nat : i = r.index /\ o = r.offset
    BY <1>1
  <2>3. PICK v \in Nat : v = R + k
    OBVIOUS
  <2>4. PICK x, y : x = at.index /\ y = at.offset
    OBVIOUS
  <2>5. v + 1 <= LenOf(buffer)
    BY <2>3
  <2>6. Placed(F, c, i, o, v)
    BY <2>1, <2>2, <2>3
  <2>7. IF i \in DOMAIN F /\ o = F[i].len THEN x = i + 1 /\ y = 0 ELSE x = i /\ y = o
    BY <1>4, <2>2, <2>4
  <2> HIDE DEF at, s
  <2>8. IF x \in DOMAIN F
        THEN /\ v = x * c + y /\ y + 1 \in 1..F[x].len
             /\ Payload(F[x])[y + 1] = <<m, v + 1>>
             /\ v + 1 <= BytesTo(n, c, e, n)
        ELSE ~Gapless
    <3>1. MovesTo(buffer.frags, i, o, x, y)
      BY <2>7 DEF MovesTo
    <3>2. Laid(F, m, n, c, e) /\ Filled(F)
      OBVIOUS
    <3> QED
      BY ONLY <2>5, <2>6, <3>1, <3>2, NextPlace, m \in Message, n \in Nat \ {0},
              c \in Nat \ {0}, e \in Nat \ {0}, i \in Nat, o \in Nat, v \in Nat
  <2>9. x \in Nat /\ y \in Nat
    BY <2>7
  <2>10. CASE x \notin DOMAIN F
    <3>1. s = [at EXCEPT !.fault = TRUE]
      BY <1>2, <2>4, <2>10
    <3>2. s.bytes = r.bytes /\ s.fault = TRUE /\ s.index = x
      BY <3>1, <1>4, <2>4
    <3> HIDE DEF F
    <3>3. /\ r.bytes = [j \in 1..Len(r.bytes) |-> <<m, R + j>>]
          /\ R + Len(r.bytes) <= BytesTo(n, c, e, n)
      BY DEF OnTheWay
    <3>4. OnTheWay(s, m, n, c, e, R, k + 1)
      BY <1>3, <2>8, <2>10, <3>2, <3>3 DEF OnTheWay, F
    <3> QED
      BY <3>4 DEF s
  <2>11. CASE x \in DOMAIN F
    <3>1. PICK l \in Nat : l = F[x].len
      BY <2>11 DEF Filled
    <3>2. y + 1 <= l /\ ~(y > l)
      BY <2>8, <2>9, <2>11, <3>1
    <3> DEFINE b == Payload(F[x])[y + 1]
    <3>3. s = [at EXCEPT !.offset = y + 1, !.bytes = Append(r.bytes, b)]
      BY <1>2, <1>4, <2>4, <2>11, <3>1, <3>2
    <3>4. b = <<m, v + 1>>
      BY <2>8, <2>11
    <3> HIDE DEF b
    <3>5. PICK z : z = Append(r.bytes, b)
      OBVIOUS
    <3>6. PICK w \in Nat : w = y + 1
      BY <2>9
    <3>7. s = [at EXCEPT !.offset = w, !.bytes = z]
      BY <3>3, <3>5, <3>6
    <3>8. s.bytes = z /\ s.fault = FALSE /\ s.index = x /\ s.offset = w
      BY <3>7, <1>4, <1>6, <2>4
    <3>9. z = [j \in 1..(k + 1) |-> <<m, R + j>>] /\ Len(z) = k + 1
      <4>1. b \in Byte
        <5>1. v + 1 \in Nat
          OBVIOUS
        <5> QED
          BY <3>4, <5>1 DEF Byte
      <4>2. /\ z \in Seq(Byte) /\ Len(z) = k + 1
            /\ \A j \in 1..k : z[j] = r.bytes[j]
            /\ z[k + 1] = b
        <5> HIDE DEF Byte
        <5> QED
          BY <4>1, <1>1, <2>1, <3>5, AppendProperties
      <4>3. ASSUME NEW j \in 1..(k + 1) PROVE z[j] = <<m, R + j>>
        <5>1. CASE j = k + 1
          <6>1. R + j = v + 1
            BY <2>3, <5>1
          <6> QED
            BY <3>4, <4>2, <5>1, <6>1
        <5>2. CASE j # k + 1
          <6>1. j \in 1..k
            BY <5>2
          <6>2. r.bytes = [a \in 1..k |-> <<m, R + a>>]
            BY <2>1 DEF OnTheWay
          <6>3. r.bytes[j] = <<m, R + j>>
            BY ONLY <6>1, <6>2
          <6> QED
            BY <4>2, <6>1, <6>3
        <5> QED
          BY <5>1, <5>2
      <4>4. z = [j \in 1..(k + 1) |-> z[j]]
        <5>1. z \in [1..Len(z) -> Byte]
          BY <4>2, LenProperties
        <5> QED
          BY <4>2, <5>1
      <4> QED
        BY <4>2, <4>3, <4>4
    <3>10. R + (k + 1) = v + 1 /\ v + 1 = x * c + w /\ w <= l
      <4>1. x * c \in Nat
        BY <2>9
      <4> QED
        BY <2>3, <2>8, <2>9, <2>11, <3>2, <3>6, <4>1
    <3>11. R + (k + 1) <= BytesTo(n, c, e, n)
      BY <2>8, <2>11, <3>10
    <3>12. Placed(F, c, x, w, R + (k + 1))
      BY <2>11, <3>1, <3>10 DEF Placed
    <3> HIDE DEF F
    <3>13. s.bytes = [j \in 1..Len(s.bytes) |-> <<m, R + j>>] /\ Len(s.bytes) = k + 1
      BY <3>8, <3>9
    <3>14. OnTheWay(s, m, n, c, e, R, k + 1)
      BY <1>3, <3>8, <3>11, <3>12, <3>13 DEF OnTheWay, F
    <3> QED
      BY <3>14 DEF s
  <2> QED
    BY <2>10, <2>11
<1> QED
  BY <1>5, <1>6 DEF OnTheWay

\* Reading on from R bytes of m gives the bytes that follow, all of them if there is
\* no hole.
LEMMA ReadingReads ==
    ASSUME NEW m \in Message, NEW n \in Nat \ {0}, NEW c \in Nat \ {0}, NEW e \in Nat \ {0},
           Laid(buffer.frags, m, n, c, e), Filled(buffer.frags),
           index \in Nat, offset \in Nat,
           NEW R \in Nat, NEW b \in Nat, R + b <= LenOf(buffer), LenOf(buffer) \in Nat,
           R <= BytesTo(n, c, e, n), Placed(buffer.frags, c, index, offset, R)
    PROVE  OnTheWay(Reading(b), m, n, c, e, R, b)
<1>1. PICK r : /\ r[0] = [index |-> index, offset |-> offset, fault |-> FALSE, bytes |-> <<>>]
               /\ r[b] = Reading(b)
               /\ \A k \in 1..b : r[k] = ReadByte(r[k - 1])
  BY ReadingUnfolds
<1> DEFINE Done == {k \in Nat : OnTheWay(r[k], m, n, c, e, R, k)}
<1>2. 0 \in Done
  <2>1. <<>> \in Seq(Byte) /\ Len(<<>>) = 0
    BY EmptySeq
  <2>2. /\ IsCursor(r[0]) /\ r[0].bytes = <<>> /\ r[0].fault = FALSE
        /\ r[0].index = index /\ r[0].offset = offset
    BY <1>1, <2>1 DEF IsCursor
  <2>3. R + 0 = R /\ 0 \in Nat
    OBVIOUS
  <2>4. <<>> = [j \in 1..0 |-> <<m, R + j>>]
    OBVIOUS
  <2>5. OnTheWay(r[0], m, n, c, e, R, 0)
    BY <2>1, <2>2, <2>3, <2>4 DEF OnTheWay
  <2> QED
    BY <2>3, <2>5
<1>3. ASSUME NEW k \in 0..(b - 1), k \in Done PROVE k + 1 \in Done
  <2>1. PICK l \in 1..b : l = k + 1
    OBVIOUS
  <2>2. l - 1 = k /\ k \in Nat
    BY <2>1
  <2>3. r[l] = ReadByte(r[l - 1])
    BY <1>1
  <2>4. r[l] = ReadByte(r[k])
    BY ONLY <2>2, <2>3
  <2> DEFINE q == r[k]
  <2>5. OnTheWay(q, m, n, c, e, R, k)
    BY <1>3
  <2>6. R + k + 1 <= LenOf(buffer)
    <3>1. PICK t \in Nat : t = LenOf(buffer)
      OBVIOUS
    <3>2. R + b <= t
      BY <3>1
    <3>3. R + k + 1 <= t
      BY <3>2
    <3> QED
      BY <3>1, <3>3
  <2> HIDE DEF q, Done
  <2>7. OnTheWay(ReadByte(q), m, n, c, e, R, k + 1)
    BY <2>2, <2>5, <2>6, ReadByteReads
  <2> QED
    BY <2>1, <2>2, <2>4, <2>7 DEF q, Done
<1>4. b \in Done
  <2>1. b \in 0..b
    OBVIOUS
  <2> HIDE DEF Done
  <2> QED
    BY <1>2, <1>3, <2>1, UpTheNumbers
<1> QED
  BY <1>1, <1>4

----------------------------------------------------------------------------
(* What each operation leaves of the types *)

LEMMA FilledFragment ==
    ASSUME NEW m \in Message, NEW i \in 1..Count[m]
    PROVE  LET f == FragmentOf(m, i)
           IN  /\ f.len \in Nat \ {0} /\ f.msg = m /\ f.no = i
               /\ f.len = PieceLen(Count[m], PayloadLen[m], LastLen[m], i - 1)
               /\ Payload(f) = [j \in 1..f.len |-> <<m, (i - 1) * PayloadLen[m] + j>>]
               /\ Payload(f) \in [1..f.len -> Byte]
<1> DEFINE f == FragmentOf(m, i)
<1>1. Count[m] \in Nat \ {0} /\ PayloadLen[m] \in Nat \ {0} /\ LastLen[m] \in Nat \ {0}
  BY FragmentBufferAssumption
<1>2. /\ DOMAIN f = {"types", "tid", "fid", "len", "msg", "no"}
      /\ f.msg = m /\ f.no = i
      /\ f.len = IF i = Count[m] THEN LastLen[m] ELSE PayloadLen[m]
  BY DEF FragmentOf
<1>3. f.len \in Nat \ {0} /\ f.len = PieceLen(Count[m], PayloadLen[m], LastLen[m], i - 1)
  <2>1. i = Count[m] <=> i - 1 = Count[m] - 1
    BY <1>1
  <2> HIDE DEF f
  <2> QED
    BY <1>1, <1>2, <2>1 DEF PieceLen
<1>4. "payload" \notin DOMAIN f
  BY <1>2
<1> HIDE DEF f
<1>5. Payload(f) = [j \in 1..f.len |-> <<m, (i - 1) * PayloadLen[m] + j>>]
  BY <1>2, <1>4 DEF Payload
<1>6. PICK a \in Nat, l \in Nat : a = (i - 1) * PayloadLen[m] /\ l = f.len
  <2>1. i - 1 \in Nat
    BY <1>1
  <2>2. (i - 1) * PayloadLen[m] \in Nat
    BY <1>1, <2>1
  <2> QED
    BY <1>3, <2>2
<1>7. \A j \in 1..l : <<m, a + j>> \in Byte
  BY DEF Byte
<1> HIDE DEF Byte
<1>8. Payload(f) \in [1..f.len -> Byte]
  BY <1>5, <1>6, <1>7
<1> QED
  BY <1>2, <1>3, <1>5, <1>8 DEF f

\* There is a first fragment that is missing.
LEMMA FirstGapType ==
    ASSUME NEW b, IsFiniteSet(DOMAIN b.frags)
    PROVE  Wanted(b) \in Nat
<1> DEFINE Dom == DOMAIN b.frags
<1>1. PICK C \in Nat : C = Cardinality(Dom)
  BY FS_CardinalityType
<1> DEFINE Low == Dom \cap (0..C)
<1>2. PICK n \in Nat : n = C + 1
  OBVIOUS
<1>3. 0..(n - 1) = 0..C /\ Low \subseteq 0..(n - 1)
  BY <1>2
<1>4. IsFiniteSet(Low) /\ Cardinality(Low) \in Nat /\ Cardinality(Low) <= C
  <2>1. IsFiniteSet(Dom) /\ Low \in SUBSET Dom
    OBVIOUS
  <2> HIDE DEF Dom, Low
  <2> QED
    BY <1>1, <2>1, FS_Subset, FS_CardinalityType
<1>5. Low # 0..(n - 1)
  <2>1. Cardinality(0..C) = C + 1
    BY FS_Interval
  <2> HIDE DEF Low
  <2> QED
    BY <1>3, <1>4, <2>1
<1>6. PICK g \in 0..Cardinality(Low) : g \notin Low /\ g < n /\ 0..(g - 1) \subseteq Low
  <2> HIDE DEF Low
  <2> QED
    BY <1>3, <1>5, FirstGapExists
<1>7. g \in 0..C
  <2> HIDE DEF Low
  <2> QED
    BY <1>4, <1>6
<1>8. g \notin Dom /\ 0..(g - 1) \subseteq Dom
  BY <1>6, <1>7
<1>9. FirstGap(b) \in 0..C
  BY <1>1, <1>7, <1>8 DEF FirstGap
<1> HIDE DEF Dom, Low
<1> QED
  BY <1>9 DEF Wanted

\* What Push does to the fragments, the size_ and the domain of the Buffer.
LEMMA PushIs ==
    ASSUME NEW b, DOMAIN b = {"types", "tid", "size", "frags"},
           b.types \in Types \cup {NoTypes}, b.size \in Nat,
           NEW f \in Fragments
    PROVE  /\ DOMAIN Push(b, f) = {"types", "tid", "size", "frags"}
           /\ Push(b, f).types \in Types \cup {NoTypes}
           /\ IF Rejects(b, f)
              THEN Push(b, f).frags = b.frags /\ Push(b, f).size = b.size
              ELSE /\ Index(f) \in Nat
                   /\ Push(b, f).frags = [i \in DOMAIN b.frags \cup {Index(f)} |->
                                             IF i = Index(f) THEN f ELSE b.frags[i]]
                   /\ Push(b, f).size = IF Index(f) \in DOMAIN b.frags THEN b.size
                                        ELSE b.size + f.len
<1>1. f.types \in Types
  BY FragmentType
<1> DEFINE c == Bound(b, f)
<1>2. /\ DOMAIN c = {"types", "tid", "size", "frags"}
      /\ c.types \in Types \cup {NoTypes} /\ c.size = b.size /\ c.frags = b.frags
  BY <1>1 DEF Bound
<1>3. CASE Rejects(b, f)
  BY <1>2, <1>3 DEF Push
<1>4. CASE ~Rejects(b, f)
  <2>1. f.fid # 0
    BY <1>4 DEF Rejects
  <2>2. Index(f) \in Nat
    BY <2>1, FragmentType
  <2> DEFINE F == [i \in DOMAIN b.frags \cup {Index(f)} |->
                      IF i = Index(f) THEN f ELSE b.frags[i]]
             s == IF Index(f) \in DOMAIN b.frags THEN b.size ELSE b.size + f.len
  <2>3. Push(b, f) = [c EXCEPT !.size = s, !.frags = F]
    BY <1>2, <1>4 DEF Push
  <2> HIDE DEF F, s, c
  <2>4. /\ DOMAIN Push(b, f) = {"types", "tid", "size", "frags"}
        /\ Push(b, f).types \in Types \cup {NoTypes}
        /\ Push(b, f).frags = F /\ Push(b, f).size = s
    BY <1>2, <2>3
  <2> QED
    BY <1>4, <2>2, <2>4 DEF F, s
<1> QED
  BY <1>3, <1>4

LEMMA PushTyped ==
    ASSUME Typed, NEW f \in Fragments, PushOne(f)
    PROVE  Typed'
<1>1. /\ DOMAIN buffer = {"types", "tid", "size", "frags"}
      /\ buffer.types \in Types \cup {NoTypes} /\ buffer.size \in Nat
      /\ Filled(buffer.frags) /\ index \in Nat /\ offset \in Nat
      /\ answer \in Nat \cup {-1} /\ accepted \subseteq Fragments
  BY DEF Typed
<1> DEFINE p == Push(buffer, f)
<1>2. /\ buffer' = p /\ index' = index /\ offset' = offset
      /\ answer' = IF Rejects(buffer, f) THEN -1 ELSE Wanted(p)
      /\ accepted' \subseteq Fragments
  BY <1>1 DEF PushOne, position
<1>3. /\ DOMAIN p = {"types", "tid", "size", "frags"}
      /\ p.types \in Types \cup {NoTypes}
      /\ IF Rejects(buffer, f)
         THEN p.frags = buffer.frags /\ p.size = buffer.size
         ELSE /\ Index(f) \in Nat
              /\ p.frags = [i \in DOMAIN buffer.frags \cup {Index(f)} |->
                                        IF i = Index(f) THEN f ELSE buffer.frags[i]]
              /\ p.size = IF Index(f) \in DOMAIN buffer.frags THEN buffer.size
                                   ELSE buffer.size + f.len
  BY <1>1, PushIs
<1> HIDE DEF p
<1>4. f.len \in Nat \ {0} /\ Payload(f) \in [1..f.len -> Byte]
  <2>1. PICK m \in Message : \E i \in 1..Count[m] : f = FragmentOf(m, i)
    BY FragmentType
  <2> QED
    BY <2>1, FilledFragment
<1>5. p.size \in Nat
  <2>1. f.len \in Nat
    BY <1>4
  <2> QED
    BY <1>1, <1>3, <2>1
<1>6. Filled(p.frags)
  <2>1. CASE Rejects(buffer, f)
    BY <1>1, <1>3, <2>1
  <2>2. CASE ~Rejects(buffer, f)
    <3> DEFINE F == [i \in DOMAIN buffer.frags \cup {Index(f)} |->
                        IF i = Index(f) THEN f ELSE buffer.frags[i]]
    <3>1. IsFiniteSet(DOMAIN buffer.frags \cup {Index(f)})
      <4>1. IsFiniteSet(DOMAIN buffer.frags)
        BY <1>1 DEF Filled
      <4> QED
        BY <4>1, FS_AddElement
    <3>2. DOMAIN F = DOMAIN buffer.frags \cup {Index(f)}
      OBVIOUS
    <3>3. DOMAIN F \subseteq Nat
      BY <1>1, <1>3, <2>2 DEF Filled
    <3>4. ASSUME NEW i \in DOMAIN F
          PROVE  F[i].len \in Nat \ {0} /\ Payload(F[i]) \in [1..F[i].len -> Byte]
      <4>1. CASE i = Index(f)
        BY <4>1, <1>4
      <4>2. CASE i # Index(f)
        <5>1. i \in DOMAIN buffer.frags /\ F[i] = buffer.frags[i]
          BY <4>2
        <5> HIDE DEF F
        <5> QED
          BY <5>1, <1>1 DEF Filled, Byte
      <4> QED
        BY <4>1, <4>2
    <3>5. p.frags = F
      BY <1>3, <2>2
    <3> HIDE DEF F
    <3>6. Filled(F)
      BY <3>1, <3>2, <3>3, <3>4 DEF Filled, Byte
    <3> QED
      BY <3>5, <3>6
  <2> QED
    BY <2>1, <2>2
<1>7. answer' \in Nat \cup {-1}
  <2>1. IsFiniteSet(DOMAIN p.frags)
    BY <1>6 DEF Filled
  <2>2. Wanted(p) \in Nat
    BY <2>1, FirstGapType
  <2> QED
    BY <1>2, <2>2
<1> QED
  BY <1>1, <1>2, <1>3, <1>5, <1>6, <1>7 DEF Typed

\* Dump and Rewind: only the size_ of the Buffer changes.
LEMMA ResizeTyped ==
    ASSUME Typed, NEW s \in Nat, buffer' = [buffer EXCEPT !.size = s],
           index' \in Nat, offset' \in Nat, UNCHANGED <<accepted, answer>>
    PROVE  Typed'
<1>1. /\ DOMAIN buffer = {"types", "tid", "size", "frags"}
      /\ buffer.types \in Types \cup {NoTypes} /\ buffer.size \in Nat
      /\ Filled(buffer.frags) /\ index \in Nat /\ offset \in Nat
      /\ answer \in Nat \cup {-1} /\ accepted \subseteq Fragments
  BY DEF Typed
<1>2. /\ DOMAIN buffer' = {"types", "tid", "size", "frags"}
      /\ buffer'.types = buffer.types /\ buffer'.size = s /\ buffer'.frags = buffer.frags
  BY <1>1
<1> QED
  BY <1>1, <1>2 DEF Typed

LEMMA DumpTyped ==
    ASSUME Typed, NEW b \in Nat, Dump(b)
    PROVE  Typed'
<1>1. Filled(buffer.frags) /\ index \in Nat /\ offset \in Nat /\ buffer.size \in Nat
  BY DEF Typed
<1> DEFINE r == Reading(b)
<1>2. IsCursor(r) /\ Len(r.bytes) \in Nat /\ Len(r.bytes) <= b
  BY <1>1, ReadingType
<1>3. /\ b <= buffer.size /\ index' = r.index /\ offset' = r.offset
      /\ buffer' = [buffer EXCEPT !.size = @ - Len(r.bytes)]
      /\ UNCHANGED <<accepted, answer>>
  BY DEF Dump
<1> HIDE DEF r
<1>4. PICK s : s = buffer.size - Len(r.bytes)
  OBVIOUS
<1>5. s \in Nat
  BY <1>1, <1>2, <1>3, <1>4
<1>6. buffer' = [buffer EXCEPT !.size = s]
  BY <1>3, <1>4
<1>7. index' \in Nat /\ offset' \in Nat
  BY <1>2, <1>3 DEF IsCursor
<1> QED
  BY <1>3, <1>5, <1>6, <1>7, ResizeTyped

\* There is something to cut, and room in a fragment.
Cuttable(mtu) ==
    /\ Gapless /\ DOMAIN buffer.frags # {}
    /\ mtu - Overhead \in Nat \ {0}

LEMMA SplitIsCuttable ==
    ASSUME Typed, NEW mtu \in SplitMtus, Split(mtu)
    PROVE  Cuttable(mtu) /\ Recut(mtu)
<1>1. mtu \in Nat /\ Overhead \in Nat
  BY OwnBufferAssumption
<1>2. mtu > Overhead /\ DOMAIN buffer.frags # {} /\ Gapless /\ Recut(mtu)
  BY DEF Split
<1>3. mtu - Overhead \in Nat \ {0}
  BY <1>1, <1>2
<1> QED
  BY <1>2, <1>3 DEF Cuttable

LEMMA MergeIsCuttable ==
    ASSUME Typed, Merge
    PROVE  /\ Cuttable(Len(Contents) + Overhead) /\ Recut(Len(Contents) + Overhead)
           /\ Len(Contents) + Overhead - Overhead = Len(Contents)
<1>1. Gapless /\ Recut(Len(Contents) + Overhead) /\ Cardinality(DOMAIN buffer.frags) >= 2
  BY DEF Merge
<1>2. DOMAIN buffer.frags # {}
  <2> SUFFICES ASSUME DOMAIN buffer.frags = {} PROVE FALSE
    OBVIOUS
  <2>1. Cardinality(DOMAIN buffer.frags) = 0
    BY FS_EmptySet
  <2> QED
    BY <1>1, <2>1
<1>3. Len(Contents) \in Nat /\ Len(Contents) >= 1
  BY <1>1, <1>2, ContentsFilled DEF Typed
<1>4. PICK t \in Nat : t = Len(Contents) /\ t >= 1
  BY <1>3
<1>5. t + Overhead - Overhead = t /\ t \in Nat \ {0}
  BY <1>4, OwnBufferAssumption
<1>6. Cuttable(t + Overhead)
  <2>1. t + Overhead - Overhead \in Nat \ {0}
    BY ONLY <1>5
  <2>2. PICK h : h = t + Overhead
    OBVIOUS
  <2>3. h - Overhead \in Nat \ {0}
    <3>1. h \in Nat /\ Overhead \in Nat
      BY <2>2, <1>5, OwnBufferAssumption
    <3> QED
      BY <2>2, <3>1, <1>5
  <2>4. Cuttable(h)
    BY <1>1, <1>2, <2>3 DEF Cuttable
  <2> QED
    BY <2>2, <2>4
<1> QED
  BY <1>1, <1>4, <1>5, <1>6

\* The Buffer with the payload xs in pieces of c bytes.
CutInto(xs, c, g) ==
    [buffer EXCEPT !.size  = Len(xs),
                   !.frags = [i \in 0..((Len(xs) - 1) \div c) |->
                                 [fid |-> g[i], len |-> Len(Piece(xs, c, i)),
                                  payload |-> Piece(xs, c, i)]]]

\* Cut again, the Buffer holds the same bytes, the same number in each fragment but
\* the last.
LEMMA RecutIs ==
    ASSUME Typed, NEW mtu, Cuttable(mtu), Recut(mtu)
    PROVE  /\ DOMAIN buffer' = {"types", "tid", "size", "frags"}
           /\ buffer'.types = buffer.types /\ buffer'.size = Len(Contents)
           /\ Contents \in Seq(Byte) /\ Len(Contents) \in Nat
           /\ \E n, q, e \in Nat \ {0} :
                 /\ (n - 1) * q + e = Len(Contents)
                 /\ DOMAIN buffer'.frags = 0..(n - 1)
                 /\ \A i \in 0..(n - 1) :
                       /\ buffer'.frags[i].len = PieceLen(n, q, e, i)
                       /\ Payload(buffer'.frags[i])
                             = [j \in 1..PieceLen(n, q, e, i) |-> Contents[i * q + j]]
                       /\ Payload(buffer'.frags[i]) \in Seq(Byte)
<1>1. DOMAIN buffer = {"types", "tid", "size", "frags"} /\ Filled(buffer.frags)
  BY DEF Typed
<1> DEFINE xs == Contents
<1>2. xs \in Seq(Byte) /\ Len(xs) \in Nat /\ Len(xs) >= 1
  BY <1>1, ContentsFilled DEF Cuttable
<1>3. PICK q \in Nat \ {0} : q = mtu - Overhead
  BY DEF Cuttable
<1> DEFINE last == (Len(xs) - 1) \div q
           e    == Len(xs) - last * q
           part(g, i) == [fid |-> g[i], len |-> Len(Piece(xs, q, i)),
                          payload |-> Piece(xs, q, i)]
<1>4. PICK g : buffer' = [buffer EXCEPT !.size = Len(xs),
                                         !.frags = [i \in 0..last |-> part(g, i)]]
  <2>1. \E g : buffer' = CutInto(xs, mtu - Overhead, g)
    BY DEF Recut, CutInto
  <2>2. PICK g : buffer' = CutInto(xs, q, g)
    BY <2>1, <1>3
  <2> QED
    BY <2>2 DEF CutInto
<1> HIDE DEF xs
<1>5. /\ last \in Nat /\ e \in Nat \ {0} /\ last * q + e = Len(xs)
      /\ \A i \in 0..last :
            /\ Len(Piece(xs, q, i)) = PieceLen(last + 1, q, e, i)
            /\ Piece(xs, q, i) = [j \in 1..PieceLen(last + 1, q, e, i) |-> xs[i * q + j]]
            /\ Piece(xs, q, i) \in Seq(Byte)
  BY <1>2, PieceShape
<1> HIDE DEF last, e
<1> DEFINE G == [i \in 0..last |-> part(g, i)]
<1>6. /\ DOMAIN buffer' = {"types", "tid", "size", "frags"}
      /\ buffer'.types = buffer.types /\ buffer'.size = Len(xs) /\ buffer'.frags = G
  <2> HIDE DEF G
  <2>1. buffer' = [buffer EXCEPT !.size = Len(xs), !.frags = G]
    BY <1>4 DEF G
  <2> QED
    BY <1>1, <2>1
<1>7. PICK n \in Nat \ {0} : n = last + 1
  BY <1>5
<1>8. n - 1 = last /\ 0..(n - 1) = 0..last
  BY <1>5, <1>7
<1>9. DOMAIN buffer'.frags = 0..(n - 1)
  BY <1>6, <1>8
<1>10. ASSUME NEW i \in 0..(n - 1)
       PROVE  /\ buffer'.frags[i].len = PieceLen(n, q, e, i)
              /\ Payload(buffer'.frags[i]) = [j \in 1..PieceLen(n, q, e, i) |-> xs[i * q + j]]
              /\ Payload(buffer'.frags[i]) \in Seq(Byte)
  <2>1. i \in 0..last
    BY <1>8
  <2>2. buffer'.frags[i] = part(g, i)
    BY <1>6, <2>1
  <2>3. part(g, i).len = Len(Piece(xs, q, i)) /\ Payload(part(g, i)) = Piece(xs, q, i)
    BY DEF Payload
  <2> HIDE DEF part
  <2> QED
    BY <1>5, <1>7, <2>1, <2>2, <2>3
<1>11. (n - 1) * q + e = Len(xs)
  BY <1>5, <1>8
<1> HIDE DEF part, G
<1> QED
  BY <1>2, <1>5, <1>6, <1>9, <1>10, <1>11 DEF xs

LEMMA RecutTyped ==
    ASSUME Typed, NEW mtu, Cuttable(mtu), Recut(mtu)
    PROVE  Typed'
<1>1. /\ buffer.types \in Types \cup {NoTypes}
      /\ answer \in Nat \cup {-1} /\ accepted \subseteq Fragments
  BY DEF Typed
<1>2. /\ DOMAIN buffer' = {"types", "tid", "size", "frags"}
      /\ buffer'.types = buffer.types /\ buffer'.size = Len(Contents)
      /\ Contents \in Seq(Byte) /\ Len(Contents) \in Nat
  BY RecutIs
<1>3. PICK n, q, e \in Nat \ {0} :
         /\ (n - 1) * q + e = Len(Contents)
         /\ DOMAIN buffer'.frags = 0..(n - 1)
         /\ \A i \in 0..(n - 1) :
               /\ buffer'.frags[i].len = PieceLen(n, q, e, i)
               /\ Payload(buffer'.frags[i])
                     = [j \in 1..PieceLen(n, q, e, i) |-> Contents[i * q + j]]
               /\ Payload(buffer'.frags[i]) \in Seq(Byte)
  BY RecutIs
<1>4. Filled(buffer'.frags)
  <2>1. IsFiniteSet(0..(n - 1)) /\ 0..(n - 1) \subseteq Nat
    BY FS_Interval
  <2>2. ASSUME NEW i \in 0..(n - 1)
        PROVE  /\ buffer'.frags[i].len \in Nat \ {0}
               /\ Payload(buffer'.frags[i]) \in [1..buffer'.frags[i].len -> Byte]
    <3>1. PICK l \in Nat \ {0} : l = PieceLen(n, q, e, i)
      BY PieceBounds
    <3> DEFINE p == Payload(buffer'.frags[i])
    <3>2. buffer'.frags[i].len = l /\ p = [j \in 1..l |-> Contents[i * q + j]] /\ p \in Seq(Byte)
      BY <1>3, <3>1
    <3>3. DOMAIN p = 1..l
      BY <3>2
    <3> HIDE DEF p, Byte
    <3>4. p \in [1..Len(p) -> Byte] /\ DOMAIN p = 1..Len(p)
      BY <3>2, LenProperties
    <3>5. p \in [1..l -> Byte]
      BY <3>3, <3>4
    <3> QED
      BY <3>2, <3>5 DEF p
  <2> QED
    BY <1>3, <2>1, <2>2 DEF Filled, Byte
<1>5. index' = 0 /\ offset' = 0 /\ answer' = answer /\ accepted' = accepted
  BY DEF Recut
<1> QED
  BY <1>1, <1>2, <1>4, <1>5 DEF Typed

LEMMA InitTyped ==
    /\ Init => Typed
    /\ Clear => Typed'
<1>1. /\ DOMAIN EmptyBuffer = {"types", "tid", "size", "frags"}
      /\ EmptyBuffer.types = NoTypes /\ EmptyBuffer.size = 0
      /\ DOMAIN EmptyBuffer.frags = {}
  BY DEF EmptyBuffer
<1>2. Filled(EmptyBuffer.frags)
  BY <1>1, FS_EmptySet DEF Filled
<1> QED
  BY <1>1, <1>2 DEF Init, Clear, Typed

LEMMA NextTyped == Typed /\ [Next]_vars => Typed'
<1> SUFFICES ASSUME Typed, [Next]_vars PROVE Typed'
  OBVIOUS
<1>1. CASE UNCHANGED vars
  BY <1>1 DEF vars, position, Typed
<1>2. ASSUME NEW f \in Fragments, PushOne(f) PROVE Typed'
  BY <1>2, PushTyped
<1>3. CASE Clear
  BY <1>3, InitTyped
<1>4. ASSUME NEW n \in 1..MaxDump, Dump(n) PROVE Typed'
  <2>1. n \in Nat
    BY OwnBufferAssumption
  <2> QED
    BY <1>4, <2>1, DumpTyped
<1>5. CASE Rewind
  <2>1. Len(Contents) \in Nat
    BY <1>5, ContentsFilled DEF Rewind, Typed
  <2> QED
    BY <1>5, <2>1, ResizeTyped DEF Rewind
<1>6. ASSUME NEW mtu \in SplitMtus, Split(mtu) PROVE Typed'
  BY <1>6, SplitIsCuttable, RecutTyped
<1>7. CASE Merge
  BY <1>7, MergeIsCuttable, RecutTyped
<1>8. CASE Stumble
  BY <1>8 DEF Stumble, position, Typed
<1> QED
  BY <1>1, <1>2, <1>3, <1>4, <1>5, <1>6, <1>7, <1>8 DEF Next

----------------------------------------------------------------------------
(* What each operation leaves of a message that is being read *)

\* What the fragments amount to, as received or cut again.
LEMMA ShapeTotal ==
    ASSUME NEW m \in Message, NEW n \in Nat \ {0}, NEW c \in Nat \ {0}, NEW e \in Nat \ {0},
           Shape(m, n, c, e), DOMAIN buffer.frags \subseteq 0..(n - 1)
    PROVE  /\ BytesTo(n, c, e, n) <= Len(Bytes(m))
           /\ FragmentsOf(m) \subseteq accepted =>
                 DOMAIN buffer.frags = 0..(n - 1) /\ BytesTo(n, c, e, n) = Len(Bytes(m))
           /\ Len(Bytes(m)) \in Nat /\ Bytes(m) = Stretch(m, Len(Bytes(m)))
<1>1. Count[m] \in Nat \ {0} /\ PayloadLen[m] \in Nat \ {0} /\ LastLen[m] \in Nat \ {0}
  BY FragmentBufferAssumption
<1>2. PICK t \in Nat : t = (Count[m] - 1) * PayloadLen[m] + LastLen[m]
  <2>1. Count[m] - 1 \in Nat
    BY <1>1
  <2>2. (Count[m] - 1) * PayloadLen[m] \in Nat
    BY <1>1, <2>1
  <2> QED
    BY <1>1, <2>2
<1>3. Bytes(m) = Stretch(m, t) /\ Len(Bytes(m)) = t
  <2>1. Bytes(m) = Stretch(m, t)
    BY <1>2 DEF Bytes, Stretch
  <2> QED
    BY <2>1, StretchIsSeq
<1>4. CASE AsReceived(m, n, c, e)
  <2>1. n = Count[m] /\ c = PayloadLen[m] /\ e = LastLen[m]
        /\ DOMAIN buffer.frags = {f.no - 1 : f \in accepted}
    BY <1>4 DEF AsReceived
  <2>2. BytesTo(n, c, e, n) = t
    BY <1>2, <2>1 DEF BytesTo
  <2>3. ASSUME FragmentsOf(m) \subseteq accepted PROVE DOMAIN buffer.frags = 0..(n - 1)
    <3>1. ASSUME NEW i \in 0..(n - 1) PROVE i \in DOMAIN buffer.frags
      <4>1. i + 1 \in 1..Count[m] /\ i + 1 - 1 = i
        BY <2>1
      <4>2. FragmentOf(m, i + 1) \in accepted
        BY <2>3, <4>1 DEF FragmentsOf
      <4>3. FragmentOf(m, i + 1).no = i + 1
        BY DEF FragmentOf
      <4> QED
        BY <2>1, <4>1, <4>2, <4>3
    <3> QED
      BY <3>1
  <2> QED
    BY <1>3, <2>2, <2>3
<1>5. CASE AsCut(m, n, c, e)
  BY <1>3, <1>5 DEF AsCut
<1> QED
  BY <1>4, <1>5 DEF Shape

\* Nothing that is said of the message changes.
LEMMA ReadsStays ==
    ASSUME NEW m \in Message, Reads(m),
           buffer'.frags = buffer.frags, buffer'.size = buffer.size,
           UNCHANGED <<index, offset, fault, accepted, read, cut>>
    PROVE  Reads(m)'
<1>1. PICK n, c, e \in Nat \ {0} :
         Laid(buffer.frags, m, n, c, e) /\ Progress(m, n, c, e) /\ Shape(m, n, c, e)
  BY DEF Reads
<1>2. LenOf(buffer') = LenOf(buffer) /\ (Gapless' <=> Gapless)
  BY DEF LenOf, Gapless
<1>3. Progress(m, n, c, e)'
  BY <1>1, <1>2 DEF Progress
<1>4. Shape(m, n, c, e)'
  BY <1>1 DEF Shape, AsReceived, AsCut
<1> QED
  BY <1>1, <1>3, <1>4 DEF Reads

\* An empty Buffer is the beginning of every message.
LEMMA ReadsNothing ==
    ASSUME NEW m \in Message
    PROVE  /\ Init => Reads(m)
           /\ (Clear /\ ~fault) => Reads(m)'
<1> DEFINE n == Count[m]
           c == PayloadLen[m]
           e == LastLen[m]
<1>1. n \in Nat \ {0} /\ c \in Nat \ {0} /\ e \in Nat \ {0}
  BY FragmentBufferAssumption
<1>2. DOMAIN EmptyBuffer.frags = {} /\ EmptyBuffer.size = 0
  BY DEF EmptyBuffer
<1>3. LenOf(EmptyBuffer) = 0
  BY <1>2, FS_EmptySet DEF LenOf
<1>4. Laid(EmptyBuffer.frags, m, n, c, e)
  BY <1>2 DEF Laid
<1>5. BytesTo(n, c, e, n) \in Nat
  <2>1. 0 \in 0..(n - 1)
    BY <1>1
  <2> HIDE DEF n, c, e
  <2> QED
    BY <1>1, <2>1, PieceBounds
<1>6. Len(<<>>) = 0 /\ <<>> = Stretch(m, Len(<<>>))
  <2>1. Len(<<>>) = 0
    OBVIOUS
  <2>2. Stretch(m, 0) = <<>>
    BY DEF Stretch
  <2> QED
    BY <2>1, <2>2
<1>7. Placed(EmptyBuffer.frags, c, 0, 0, 0)
  BY <1>1 DEF Placed
<1>8. {f.no - 1 : f \in {}} = {}
  OBVIOUS
<1>9. ASSUME Init PROVE Reads(m)
  <2>1. /\ buffer = EmptyBuffer /\ index = 0 /\ offset = 0 /\ ~fault
        /\ accepted = {} /\ read = <<>> /\ cut = "no"
    BY <1>9 DEF Init
  <2>2. Progress(m, n, c, e)
    <3> HIDE DEF n, c, e
    <3>1. Len(read) = 0 /\ read = Stretch(m, Len(read))
      BY <2>1, <1>6
    <3>2. buffer.size = 0 /\ LenOf(buffer) = 0
      BY <2>1, <1>2, <1>3
    <3>3. Placed(buffer.frags, c, index, offset, 0)
      BY <2>1, <1>7
    <3>4. Len(read) \in Nat /\ 0 <= BytesTo(n, c, e, n) /\ 0 = 0 - 0
      BY <1>5, <3>1
    <3> QED
      BY <2>1, <3>1, <3>2, <3>3, <3>4 DEF Progress
  <2>3. Shape(m, n, c, e)
    BY <2>1, <1>2, <1>8 DEF Shape, AsReceived
  <2> HIDE DEF n, c, e
  <2> QED
    BY <2>1, <2>2, <2>3, <1>1, <1>4 DEF Reads
<1>10. ASSUME Clear, ~fault PROVE Reads(m)'
  <2>1. /\ buffer' = EmptyBuffer /\ index' = 0 /\ offset' = 0 /\ ~fault'
        /\ accepted' = {} /\ read' = <<>> /\ cut' = "no"
    BY <1>10 DEF Clear
  <2>2. Progress(m, n, c, e)'
    <3> HIDE DEF n, c, e
    <3>1. Len(read') = 0 /\ read' = Stretch(m, Len(read'))
      BY <2>1, <1>6
    <3>2. buffer'.size = 0 /\ LenOf(buffer') = 0
      BY <2>1, <1>2, <1>3
    <3>3. Placed(buffer'.frags, c, index', offset', 0)
      BY <2>1, <1>7
    <3>4. Len(read') \in Nat /\ 0 <= BytesTo(n, c, e, n) /\ 0 = 0 - 0
      BY <1>5, <3>1
    <3> QED
      BY <2>1, <3>1, <3>2, <3>3, <3>4 DEF Progress
  <2>3. Shape(m, n, c, e)'
    BY <2>1, <1>2, <1>8 DEF Shape, AsReceived
  <2>4. Laid(buffer'.frags, m, n, c, e)
    BY <2>1, <1>4
  <2> HIDE DEF n, c, e
  <2> QED
    BY <2>2, <2>3, <2>4, <1>1 DEF Reads
<1> QED
  BY <1>9, <1>10

\* Cutting again leaves the bytes of the message as they are, from the start.
LEMMA RecutReads ==
    ASSUME Typed, NEW m \in Message, Reads(m), ~fault, NEW mtu, Cuttable(mtu), Recut(mtu)
    PROVE  Reads(m)'
<1>1. PICK n, c, e \in Nat \ {0} :
         Laid(buffer.frags, m, n, c, e) /\ Progress(m, n, c, e) /\ Shape(m, n, c, e)
  BY DEF Reads
<1>2. Filled(buffer.frags) /\ Gapless
  BY DEF Typed, Cuttable
<1>3. PICK d \in 0..n : /\ DOMAIN buffer.frags = 0..(d - 1)
                        /\ BytesTo(n, c, e, d) \in Nat
                        /\ BytesTo(n, c, e, d) <= BytesTo(n, c, e, n)
                        /\ Contents = Stretch(m, BytesTo(n, c, e, d))
                        /\ Len(Contents) = BytesTo(n, c, e, d)
  BY <1>1, <1>2, GaplessReads
<1>4. DOMAIN buffer.frags \subseteq 0..(n - 1)
  BY <1>1 DEF Laid
<1>5. /\ BytesTo(n, c, e, n) <= Len(Bytes(m))
      /\ FragmentsOf(m) \subseteq accepted =>
            DOMAIN buffer.frags = 0..(n - 1) /\ BytesTo(n, c, e, n) = Len(Bytes(m))
      /\ Len(Bytes(m)) \in Nat
  BY <1>1, <1>4, ShapeTotal
<1>6. PICK t \in Nat : t = BytesTo(n, c, e, d)
  BY <1>3
<1>7. t <= Len(Bytes(m))
  <2>1. BytesTo(n, c, e, n) \in Nat
    <3>1. 0 \in 0..(n - 1)
      OBVIOUS
    <3> QED
      BY <3>1, PieceBounds
  <2>2. PICK u \in Nat, v \in Nat : u = BytesTo(n, c, e, n) /\ v = Len(Bytes(m))
    BY <1>5, <2>1
  <2> QED
    BY <1>3, <1>5, <1>6, <2>2
<1>8. FragmentsOf(m) \subseteq accepted => t = Len(Bytes(m))
  <2> SUFFICES ASSUME FragmentsOf(m) \subseteq accepted PROVE t = Len(Bytes(m))
    OBVIOUS
  <2>1. 0..(d - 1) = 0..(n - 1)
    BY <1>3, <1>5
  <2>2. n - 1 \in 0..(d - 1)
    BY <2>1
  <2>3. d = n
    BY <2>2
  <2> QED
    BY <1>5, <1>6, <2>3
<1>9. buffer'.size = Len(Contents)
  BY RecutIs
<1>10. PICK N, q, E \in Nat \ {0} :
          /\ (N - 1) * q + E = Len(Contents)
          /\ DOMAIN buffer'.frags = 0..(N - 1)
          /\ \A i \in 0..(N - 1) :
                /\ buffer'.frags[i].len = PieceLen(N, q, E, i)
                /\ Payload(buffer'.frags[i])
                      = [j \in 1..PieceLen(N, q, E, i) |-> Contents[i * q + j]]
                /\ Payload(buffer'.frags[i]) \in Seq(Byte)
  BY RecutIs
<1>11. BytesTo(N, q, E, N) = t
  BY <1>3, <1>6, <1>10 DEF BytesTo
<1>12. Laid(buffer'.frags, m, N, q, E)
  <2>1. ASSUME NEW i \in 0..(N - 1)
        PROVE  Payload(buffer'.frags[i]) = [j \in 1..PieceLen(N, q, E, i) |-> <<m, i * q + j>>]
    <3>1. PICK l \in Nat, a \in Nat : l = PieceLen(N, q, E, i) /\ a = i * q /\ a + l <= t
      <4>1. PieceLen(N, q, E, i) \in Nat \ {0} /\ i * q \in Nat
            /\ i * q + PieceLen(N, q, E, i) <= BytesTo(N, q, E, N)
        BY PieceBounds
      <4> QED
        BY <4>1, <1>11
    <3>2. ASSUME NEW j \in 1..l PROVE Contents[a + j] = <<m, a + j>>
      <4>1. a + j \in 1..t
        BY <3>1
      <4> QED
        BY <1>3, <1>6, <4>1 DEF Stretch
    <3> QED
      BY <1>10, <3>1, <3>2
  <2> QED
    BY <1>10, <2>1 DEF Laid
<1>13. LenOf(buffer') = t
  <2>1. N \in 0..N
    OBVIOUS
  <2>2. PICK G : G = buffer'.frags
    OBVIOUS
  <2>3. Laid(G, m, N, q, E) /\ DOMAIN G = 0..(N - 1)
    BY <1>10, <1>12, <2>2
  <2>4. Cardinality(Cells(G, DOMAIN G)) = BytesTo(N, q, E, N)
    BY <2>1, <2>3, GaplessLength
  <2>5. LenOf(buffer') = Cardinality(Cells(G, DOMAIN G))
    BY <2>2 DEF LenOf, Cells
  <2> QED
    BY <1>11, <2>4, <2>5
<1>14. /\ index' = 0 /\ offset' = 0 /\ read' = <<>> /\ accepted' = accepted
       /\ fault' = fault /\ cut' # "no"
  BY DEF Recut
<1>15. Progress(m, N, q, E)'
  <2>1. Len(<<>>) = 0 /\ <<>> = Stretch(m, 0)
    BY DEF Stretch
  <2>2. Placed(buffer'.frags, q, 0, 0, 0)
    BY DEF Placed
  <2>3. buffer'.size = LenOf(buffer') - 0
    BY <1>3, <1>6, <1>9, <1>13
  <2>4. 0 <= BytesTo(N, q, E, N)
    BY <1>11
  <2> QED
    BY <1>14, <2>1, <2>2, <2>3, <2>4 DEF Progress
<1>16. Shape(m, N, q, E)'
  <2>1. AsCut(m, N, q, E)'
    BY <1>7, <1>8, <1>10, <1>11, <1>14 DEF AsCut
  <2> QED
    BY <1>14, <2>1 DEF Shape
<1> QED
  BY <1>12, <1>15, <1>16 DEF Reads

\* Rewind: all is to be read again.
LEMMA RewindReads ==
    ASSUME Typed, NEW m \in Message, Reads(m), ~fault, Rewind
    PROVE  Reads(m)'
<1>1. PICK n, c, e \in Nat \ {0} :
         Laid(buffer.frags, m, n, c, e) /\ Progress(m, n, c, e) /\ Shape(m, n, c, e)
  BY DEF Reads
<1>2. Filled(buffer.frags) /\ Gapless /\ DOMAIN buffer = {"types", "tid", "size", "frags"}
  BY DEF Typed, Rewind
<1>3. PICK t \in Nat : LenOf(buffer) = t /\ Len(Contents) = t
  <2>1. PICK d \in 0..n : /\ LenOf(buffer) = BytesTo(n, c, e, d)
                          /\ BytesTo(n, c, e, d) \in Nat
                          /\ Len(Contents) = BytesTo(n, c, e, d)
    BY <1>1, <1>2, GaplessReads
  <2> QED
    BY <2>1
<1>4. /\ index' = 0 /\ offset' = 0 /\ read' = <<>>
      /\ buffer' = [buffer EXCEPT !.size = Len(Contents)]
      /\ UNCHANGED <<fault, accepted, cut>>
  BY DEF Rewind
<1>5. buffer'.frags = buffer.frags /\ buffer'.size = t
  BY <1>2, <1>3, <1>4
<1>6. LenOf(buffer') = t
  BY <1>3, <1>5 DEF LenOf
<1>7. Progress(m, n, c, e)'
  <2>1. Len(<<>>) = 0 /\ <<>> = Stretch(m, 0)
    BY DEF Stretch
  <2>2. Placed(buffer'.frags, c, 0, 0, 0)
    BY DEF Placed
  <2>3. buffer'.size = LenOf(buffer') - 0
    BY <1>5, <1>6
  <2>4. 0 <= BytesTo(n, c, e, n)
    <3>1. 0 \in 0..(n - 1)
      OBVIOUS
    <3>2. BytesTo(n, c, e, n) \in Nat
      BY <3>1, PieceBounds
    <3> QED
      BY <3>2
  <2> QED
    BY <1>4, <2>1, <2>2, <2>3, <2>4 DEF Progress
<1>8. Shape(m, n, c, e)'
  BY <1>1, <1>4, <1>5 DEF Shape, AsReceived, AsCut
<1>9. Laid(buffer'.frags, m, n, c, e)
  BY <1>1, <1>5
<1> QED
  BY <1>7, <1>8, <1>9 DEF Reads

\* Dump: the next bytes of the message.
LEMMA DumpReads ==
    ASSUME Typed, NEW m \in Message, Reads(m), ~fault, NEW b \in Nat, Dump(b)
    PROVE  Reads(m)'
<1>1. PICK n, c, e \in Nat \ {0} :
         Laid(buffer.frags, m, n, c, e) /\ Progress(m, n, c, e) /\ Shape(m, n, c, e)
  BY DEF Reads
<1>2. /\ Filled(buffer.frags) /\ DOMAIN buffer = {"types", "tid", "size", "frags"}
      /\ index \in Nat /\ offset \in Nat /\ buffer.size \in Nat
  BY DEF Typed
<1>3. PICK R \in Nat : /\ R = Len(read) /\ read = Stretch(m, R) /\ R <= BytesTo(n, c, e, n)
                       /\ buffer.size = LenOf(buffer) - R
                       /\ Placed(buffer.frags, c, index, offset, R)
  BY <1>1 DEF Progress
<1>4. LenOf(buffer) \in Nat
  <2>1. LenOf(buffer) = Cardinality(Cells(buffer.frags, DOMAIN buffer.frags))
    BY DEF LenOf, Cells
  <2>2. \A i \in DOMAIN buffer.frags : buffer.frags[i].len \in Nat
    BY <1>2 DEF Filled
  <2>3. IsFiniteSet(DOMAIN buffer.frags)
    BY <1>2 DEF Filled
  <2> QED
    BY <2>1, <2>2, <2>3, CellsFinite
<1>5. PICK T \in Nat : T = LenOf(buffer)
  BY <1>4
<1> DEFINE r == Reading(b)
<1>6. /\ b <= buffer.size /\ fault' = r.fault /\ index' = r.index /\ offset' = r.offset
      /\ read' = read \o r.bytes
      /\ buffer' = [buffer EXCEPT !.size = @ - Len(r.bytes)]
      /\ UNCHANGED <<accepted, cut>>
  BY DEF Dump
<1>7. R + b <= T
  <2>1. buffer.size = T - R /\ b <= buffer.size
    BY <1>3, <1>5, <1>6
  <2> QED
    BY ONLY <2>1, T \in Nat, R \in Nat, b \in Nat
<1>8. OnTheWay(r, m, n, c, e, R, b)
  BY <1>1, <1>2, <1>3, <1>5, <1>7, ReadingReads
<1>9. /\ IsCursor(r) /\ Len(r.bytes) \in Nat
  BY <1>2, ReadingType
<1> HIDE DEF r
<1>10. PICK L \in Nat : L = Len(r.bytes)
  BY <1>9
<1>11. r.bytes = [j \in 1..L |-> <<m, R + j>>] /\ R + L <= BytesTo(n, c, e, n)
  BY <1>8, <1>10 DEF OnTheWay
<1>12. read' = Stretch(m, R + L) /\ Len(read') = R + L
  <2>1. Stretch(m, R) \o [j \in 1..L |-> <<m, R + j>>] = Stretch(m, R + L)
    BY ONLY StretchConcat, m \in Message, R \in Nat, L \in Nat
  <2>2. R + L \in Nat
    OBVIOUS
  <2>3. Len(Stretch(m, R + L)) = R + L
    BY <2>2, StretchIsSeq
  <2>4. read' = Stretch(m, R) \o [j \in 1..L |-> <<m, R + j>>]
    BY <1>3, <1>6, <1>11
  <2> QED
    BY <2>1, <2>3, <2>4
<1>13. buffer'.frags = buffer.frags /\ buffer'.size = T - (R + L)
  <2>1. PICK s : s = buffer.size - L
    OBVIOUS
  <2>2. buffer' = [buffer EXCEPT !.size = s]
    BY <1>6, <1>10, <2>1
  <2>3. buffer'.frags = buffer.frags /\ buffer'.size = s
    BY <1>2, <2>2
  <2>4. s = T - (R + L)
    <3>1. buffer.size = T - R
      BY <1>3, <1>5
    <3> QED
      BY <2>1, <3>1
  <2> QED
    BY <2>3, <2>4
<1>14. LenOf(buffer') = T /\ (Gapless' <=> Gapless)
  BY <1>5, <1>13 DEF LenOf, Gapless
<1>15. Progress(m, n, c, e)'
  <2>1. read' = Stretch(m, Len(read')) /\ Len(read') \in Nat
    BY <1>12
  <2>2. Len(read') <= BytesTo(n, c, e, n)
    BY <1>11, <1>12
  <2>3. buffer'.size = LenOf(buffer') - Len(read')
    BY <1>12, <1>13, <1>14
  <2>4. CASE r.fault = TRUE
    <3>1. ~Gapless' /\ fault'
      BY <1>6, <1>8, <1>14, <2>4 DEF OnTheWay
    <3> QED
      BY <2>1, <2>2, <2>3, <3>1 DEF Progress
  <2>5. CASE r.fault = FALSE
    <3>1. Len(r.bytes) = b /\ Placed(buffer.frags, c, r.index, r.offset, R + b)
      BY <1>8, <2>5 DEF OnTheWay
    <3>2. Placed(buffer'.frags, c, index', offset', Len(read'))
      BY <1>6, <1>10, <1>12, <1>13, <3>1
    <3>3. ~fault'
      BY <1>6, <2>5
    <3> QED
      BY <2>1, <2>2, <2>3, <3>2, <3>3 DEF Progress
  <2> QED
    BY <1>8, <2>4, <2>5 DEF OnTheWay
<1>16. Shape(m, n, c, e)'
  BY <1>1, <1>6, <1>13 DEF Shape, AsReceived, AsCut
<1>17. Laid(buffer'.frags, m, n, c, e)
  BY <1>1, <1>13
<1> QED
  BY <1>15, <1>16, <1>17 DEF Reads

\* Push: a fragment of the message is put at its place, or was there before.
LEMMA PushReads ==
    ASSUME Typed, NEW m \in Message, Good(m), Reads(m), ~fault, cut = "no",
           NEW i \in 1..Count[m], PushOne(FragmentOf(m, i)),
           ~Rejects(buffer, FragmentOf(m, i))
    PROVE  Reads(m)'
<1> DEFINE f == FragmentOf(m, i)
           F == buffer.frags
           G == [k \in DOMAIN F \cup {i - 1} |-> IF k = i - 1 THEN f ELSE F[k]]
<1>1. PICK n, c, e \in Nat \ {0} :
         Laid(buffer.frags, m, n, c, e) /\ Progress(m, n, c, e) /\ Shape(m, n, c, e)
  BY DEF Reads
<1>2. /\ Filled(F) /\ DOMAIN buffer = {"types", "tid", "size", "frags"}
      /\ buffer.types \in Types \cup {NoTypes} /\ buffer.size \in Nat /\ index \in Nat
  BY DEF Typed
<1>3. AsReceived(m, n, c, e)
  BY <1>1 DEF Shape
<1>4. /\ n = Count[m] /\ c = PayloadLen[m] /\ e = LastLen[m]
      /\ DOMAIN F = {g.no - 1 : g \in accepted}
  BY <1>3 DEF AsReceived
<1>5. /\ f.len = PieceLen(n, c, e, i - 1) /\ f.no = i /\ f.len \in Nat \ {0}
      /\ Payload(f) = [j \in 1..f.len |-> <<m, (i - 1) * c + j>>]
  BY <1>4, FilledFragment
<1>6. Index(f) = i - 1 /\ i - 1 \in 0..(n - 1) /\ f \in Fragments
  <2>1. Index(f) = i - 1
    BY GoodFragment
  <2>2. i - 1 \in 0..(n - 1)
    BY <1>4
  <2>3. f \in Fragments
    BY DEF Fragments, FragmentsOf
  <2> QED
    BY <2>1, <2>2, <2>3
<1>7. /\ buffer' = Push(buffer, f) /\ accepted' = accepted \cup {f} /\ cut' = cut
      /\ index' = index /\ offset' = offset /\ fault' = fault /\ read' = read
  BY DEF PushOne, position
<1>8. /\ buffer'.frags = G
      /\ buffer'.size = IF i - 1 \in DOMAIN F THEN buffer.size ELSE buffer.size + f.len
  <2>1. IF Rejects(buffer, f)
        THEN Push(buffer, f).frags = buffer.frags /\ Push(buffer, f).size = buffer.size
        ELSE /\ Index(f) \in Nat
             /\ Push(buffer, f).frags = [k \in DOMAIN buffer.frags \cup {Index(f)} |->
                                            IF k = Index(f) THEN f ELSE buffer.frags[k]]
             /\ Push(buffer, f).size = IF Index(f) \in DOMAIN buffer.frags THEN buffer.size
                                       ELSE buffer.size + f.len
    BY <1>2, <1>6, PushIs
  <2> QED
    BY <1>6, <1>7, <2>1
<1> HIDE DEF f
<1>9. PICK x \in 0..(n - 1) : x = i - 1
  BY <1>6
<1>10. DOMAIN G = DOMAIN F \cup {x} /\ G[x] = f /\ \A k \in DOMAIN F : k # x => G[k] = F[k]
  BY <1>9
<1> HIDE DEF G
<1>11. \A k \in DOMAIN F : k \in 0..(n - 1) /\ F[k].len = PieceLen(n, c, e, k)
          /\ Payload(F[k]) = [j \in 1..PieceLen(n, c, e, k) |-> <<m, k * c + j>>]
  BY <1>1 DEF Laid
<1> HIDE DEF F
<1>12. \A k \in DOMAIN G : k \in 0..(n - 1) /\ G[k].len = PieceLen(n, c, e, k)
          /\ Payload(G[k]) = [j \in 1..PieceLen(n, c, e, k) |-> <<m, k * c + j>>]
  <2> SUFFICES ASSUME NEW k \in DOMAIN G
               PROVE  k \in 0..(n - 1) /\ G[k].len = PieceLen(n, c, e, k)
                      /\ Payload(G[k]) = [j \in 1..PieceLen(n, c, e, k) |-> <<m, k * c + j>>]
    OBVIOUS
  <2>1. CASE k = x
    BY <1>5, <1>9, <1>10, <2>1
  <2>2. CASE k # x
    BY <1>10, <1>11, <2>2
  <2> QED
    BY <2>1, <2>2
<1>13. Laid(G, m, n, c, e)
  BY <1>12 DEF Laid
<1>14. /\ LenOf(buffer) = Cardinality(Cells(F, DOMAIN F))
       /\ LenOf(buffer') = Cardinality(Cells(G, DOMAIN G))
  BY <1>8 DEF LenOf, Cells, F
<1>15. Cells(G, DOMAIN F) = Cells(F, DOMAIN F)
  <2>1. \A k \in DOMAIN F : G[k].len = F[k].len
    BY <1>10, <1>11, <1>12
  <2> QED
    BY <2>1, SameCells
<1>16. PICK l \in Nat : l = f.len
  BY <1>5
<1>17. /\ LenOf(buffer) \in Nat
       /\ x \in DOMAIN F => LenOf(buffer') = LenOf(buffer)
       /\ x \notin DOMAIN F => LenOf(buffer') = LenOf(buffer) + l
  <2>1. IsFiniteSet(DOMAIN F)
    BY <1>2 DEF Filled
  <2>2. \A k \in DOMAIN F \cup {x} : G[k].len \in Nat
    <3> SUFFICES ASSUME NEW k \in DOMAIN G PROVE G[k].len \in Nat
      BY <1>10
    <3>1. k \in 0..(n - 1) /\ G[k].len = PieceLen(n, c, e, k)
      BY <1>12
    <3>2. PieceLen(n, c, e, k) \in Nat \ {0}
      BY <3>1, PieceBounds
    <3> QED
      BY <3>1, <3>2
  <2>3. LenOf(buffer) \in Nat
    <3>1. Cardinality(Cells(G, DOMAIN F)) \in Nat
      BY <2>1, <2>2, CellsFinite
    <3> QED
      BY <3>1, <1>14, <1>15
  <2>4. CASE x \in DOMAIN F
    <3>1. DOMAIN G = DOMAIN F
      BY <1>10, <2>4
    <3> QED
      BY <2>3, <2>4, <3>1, <1>14, <1>15
  <2>5. CASE x \notin DOMAIN F
    <3>1. Cardinality(Cells(G, DOMAIN F \cup {x})) = Cardinality(Cells(G, DOMAIN F)) + G[x].len
      BY ONLY <2>1, <2>2, <2>5, CellsGrow
    <3> QED
      BY <2>3, <2>5, <3>1, <1>10, <1>14, <1>15, <1>16
  <2> QED
    BY <2>4, <2>5
<1>18. PICK R \in Nat : /\ R = Len(read) /\ read = Stretch(m, R) /\ R <= BytesTo(n, c, e, n)
                        /\ buffer.size = LenOf(buffer) - R
                        /\ Placed(F, c, index, offset, R)
  BY <1>1 DEF Progress, F
<1>19. buffer'.size = LenOf(buffer') - R
  <2>1. PICK T \in Nat : T = LenOf(buffer)
    BY <1>17
  <2>2. CASE x \in DOMAIN F
    <3>1. i - 1 \in DOMAIN F
      BY <1>9, <2>2
    <3> QED
      BY <3>1, <1>8, <1>17, <1>18, <2>2
  <2>3. CASE x \notin DOMAIN F
    <3>1. i - 1 \notin DOMAIN F
      BY <1>9, <2>3
    <3>2. buffer'.size = buffer.size + l
      BY <3>1, <1>8, <1>16
    <3>3. buffer.size = T - R /\ LenOf(buffer') = T + l
      BY <1>17, <1>18, <2>1, <2>3
    <3>4. T - R + l = T + l - R
      OBVIOUS
    <3> QED
      BY <3>2, <3>3, <3>4
  <2> QED
    BY <2>2, <2>3
<1>20. Placed(G, c, index, offset, R)
  <2>1. R = index * c + offset
        /\ ((index = 0 /\ offset = 0) \/ (index \in DOMAIN F /\ offset <= F[index].len))
    BY <1>18 DEF Placed
  <2>2. index \in DOMAIN F => index \in DOMAIN G /\ G[index].len = F[index].len
    BY <1>10, <1>11, <1>12
  <2> QED
    BY <2>1, <2>2 DEF Placed
<1>21. Progress(m, n, c, e)'
  <2>1. Placed(buffer'.frags, c, index', offset', Len(read'))
    BY <1>7, <1>8, <1>18, <1>20
  <2>2. buffer'.size = LenOf(buffer') - Len(read')
    BY <1>7, <1>18, <1>19
  <2>3. read' = Stretch(m, Len(read')) /\ Len(read') \in Nat
        /\ Len(read') <= BytesTo(n, c, e, n) /\ ~fault'
    BY <1>7, <1>18
  <2> QED
    BY <2>1, <2>2, <2>3 DEF Progress
<1>22. Shape(m, n, c, e)'
  <2>1. DOMAIN G = {g.no - 1 : g \in accepted'}
    <3>1. {g.no - 1 : g \in accepted'} = {g.no - 1 : g \in accepted} \cup {f.no - 1}
      BY <1>7
    <3> QED
      BY <3>1, <1>4, <1>5, <1>9, <1>10
  <2>2. AsReceived(m, n, c, e)'
    BY <2>1, <1>4, <1>8 DEF AsReceived
  <2> QED
    BY <2>2, <1>7 DEF Shape
<1> QED
  BY <1>8, <1>13, <1>21, <1>22 DEF Reads

\* Rewind, Split or Merge over a hole: the program may crash, nothing else changes.
LEMMA StumbleReads ==
    ASSUME NEW m \in Message, Reads(m), Stumble
    PROVE  Reads(m)'
<1>1. PICK n, c, e \in Nat \ {0} :
         Laid(buffer.frags, m, n, c, e) /\ Progress(m, n, c, e) /\ Shape(m, n, c, e)
  BY DEF Reads
<1>2. /\ ~Gapless /\ fault' = TRUE
      /\ buffer' = buffer /\ accepted' = accepted /\ read' = read /\ cut' = cut
  BY DEF Stumble
<1>3. ~Gapless' /\ LenOf(buffer') = LenOf(buffer)
  BY <1>2 DEF Gapless
<1>4. Progress(m, n, c, e)'
  BY <1>1, <1>2, <1>3 DEF Progress
<1>5. Shape(m, n, c, e)'
  BY <1>1, <1>2 DEF Shape, AsReceived, AsCut
<1>6. Laid(buffer'.frags, m, n, c, e)
  BY <1>1, <1>2
<1> QED
  BY <1>4, <1>5, <1>6 DEF Reads

----------------------------------------------------------------------------
(* The steps *)

LEMMA InitReceived == Init => Received
<1> SUFFICES ASSUME Init PROVE Received
  OBVIOUS
<1>1. buffer = EmptyBuffer /\ accepted = {} /\ answer = 1
  BY DEF Init
<1>2. Unsized(EmptyBuffer) = EmptyBuffer /\ EmptyBuffer.types = NoTypes
      /\ DOMAIN EmptyBuffer.frags = {}
  BY DEF Unsized, EmptyBuffer
<1> QED
  BY <1>1, <1>2, EmptyIsABuffer DEF Received, Owned

\* Push takes in a fragment of the key of those it holds, or the first of all.
LEMMA PushOneReceived ==
    ASSUME Received, NEW f \in Fragments, PushOne(f)
    PROVE  Received'
<1> DEFINE k == KeyOf(f)
           c == Unsized(buffer)
           p == Push(buffer, f)
           q == Push(c, f)
<1>1. /\ buffer' = p
      /\ answer' = IF Rejects(buffer, f) THEN -1 ELSE Wanted(p)
      /\ accepted' = IF Rejects(buffer, f) THEN accepted ELSE accepted \cup {f}
  BY DEF PushOne
<1>2. Received
  OBVIOUS
<1>3. /\ k \in Keys /\ k[1] = f.types /\ k[2] = f.tid
      /\ f.types \in Types /\ f.types # NoTypes
  BY FragmentType, FragmentBufferAssumption DEF KeyOf
<1>4. /\ c \in Buffers /\ c.types = buffer.types /\ c.tid = buffer.tid
      /\ c.frags = buffer.frags
  BY <1>2, UnsizedIsTheSame DEF Received
<1>5. /\ Unsized(p) \in Buffers /\ q \in Buffers
      /\ p.types = q.types /\ p.tid = q.tid /\ p.frags = q.frags
      /\ Rejects(buffer, f) <=> Rejects(c, f)
  BY <1>2, <1>4, PushUnsized, PushType DEF Received
<1>6. /\ \A j : FiledUnder(buffer, j) <=> FiledUnder(c, j)
      /\ Complete(buffer) <=> Complete(c)
  BY <1>4, UnsizedIsFiled
<1>7. /\ \A j : FiledUnder(p, j) <=> FiledUnder(q, j)
      /\ Complete(p) <=> Complete(q)
      /\ Wanted(p) = Wanted(q)
  BY <1>5, UnsizedIsFiled
<1>8. CASE buffer.types # NoTypes /\ ~FiledUnder(buffer, k)
  <2>1. PICK j \in Keys : FiledUnder(buffer, j) /\ \A g \in accepted : KeyOf(g) = j
    BY <1>2, <1>8 DEF Received, Owned
  <2>2. buffer.types = j[1] /\ buffer.tid = j[2] /\ j = <<j[1], j[2]>> /\ j # k
    <3>1. j # k
      BY <2>1, <1>8
    <3>2. buffer.types = j[1] /\ buffer.tid = j[2]
      BY <2>1, <1>8 DEF FiledUnder
    <3>3. j = <<j[1], j[2]>>
      BY <2>1 DEF Keys
    <3> QED
      BY <3>1, <3>2, <3>3
  <2>3. Bound(buffer, f) = buffer
    BY <1>8 DEF Bound
  <2>4. Rejects(buffer, f)
    <3>1. k = <<f.types, f.tid>>
      BY DEF KeyOf
    <3>2. buffer.types # f.types \/ buffer.tid # f.tid
      BY <2>2, <3>1
    <3> QED
      BY <2>3, <3>2 DEF Rejects
  <2>5. p = buffer
    BY <2>3, <2>4 DEF Push
  <2>6. buffer' = buffer /\ accepted' = accepted /\ answer' # 0
    <3>1. answer' = -1
      BY <1>1, <2>4
    <3> QED
      BY <1>1, <2>4, <2>5, <3>1
  <2> HIDE DEF k, c, p, q
  <2>7. Owned'
    BY <2>6, <1>2 DEF Received, Owned
  <2> QED
    BY <2>6, <2>7, <1>2 DEF Received
<1>9. CASE buffer.types = NoTypes \/ FiledUnder(buffer, k)
  <2>1. FiledUnder(buffer, k) /\ \A g \in accepted : KeyOf(g) = k
    <3>1. CASE buffer.types = NoTypes
      BY <3>1, <1>2, <1>3 DEF Received, Owned
    <3>2. CASE buffer.types # NoTypes
      <4>1. PICK j \in Keys : FiledUnder(buffer, j) /\ \A g \in accepted : KeyOf(g) = j
        BY <1>2, <3>2 DEF Received, Owned
      <4>2. FiledUnder(buffer, k)
        BY <1>9, <3>2
      <4>3. /\ buffer.types = j[1] /\ buffer.tid = j[2] /\ j = <<j[1], j[2]>>
            /\ buffer.types = k[1] /\ buffer.tid = k[2] /\ k = <<k[1], k[2]>>
        <5>1. buffer.types = j[1] /\ buffer.tid = j[2]
          BY <4>1, <3>2 DEF FiledUnder
        <5>2. buffer.types = k[1] /\ buffer.tid = k[2]
          BY <4>2, <3>2 DEF FiledUnder
        <5>3. j = <<j[1], j[2]>> /\ k = <<k[1], k[2]>>
          <6> HIDE DEF k
          <6> QED
            BY <4>1, <1>3 DEF Keys
        <5> QED
          BY <5>1, <5>2, <5>3
      <4> HIDE DEF k
      <4> QED
        BY <4>1, <4>2, <4>3
    <3> QED
      BY <3>1, <3>2
  <2>2. FiledUnder(q, k) /\ \A g : Holds(q, g) => g = f \/ Holds(c, g)
    BY <2>1, <1>3, <1>4, <1>6, PushFiles DEF KeyOf
  <2>3. p.types # NoTypes
    <3>1. Bound(c, f).types # NoTypes
      BY <1>3, <1>4 DEF Bound, Buffers
    <3>2. q.types = Bound(c, f).types
      <4>1. Bound(c, f) \in Buffers
        BY <1>3, <1>4 DEF Bound, Buffers, KeyOf, Keys
      <4> QED
        BY <4>1 DEF Push, Buffers
    <3> QED
      BY <3>1, <3>2, <1>5
  <2>4. \A g \in accepted' : KeyOf(g) = k
    BY <1>1, <2>1
  <2>5. Owned'
    BY <1>1, <1>3, <1>7, <2>2, <2>3, <2>4 DEF Owned
  <2>6. \A i \in DOMAIN p.frags : p.frags[i] \in accepted'
    <3> SUFFICES ASSUME NEW i \in DOMAIN p.frags PROVE p.frags[i] \in accepted'
      OBVIOUS
    <3>1. CASE Rejects(buffer, f)
      <4>1. p.frags = buffer.frags
        <5>1. Bound(c, f).frags = c.frags
          BY <1>4 DEF Bound, Buffers
        <5>2. q = Bound(c, f)
          BY <3>1, <1>5 DEF Push
        <5> QED
          BY <5>1, <5>2, <1>4, <1>5
      <4> QED
        BY <4>1, <3>1, <1>1, <1>2 DEF Received
    <3>2. CASE ~Rejects(buffer, f)
      <4>1. Holds(q, p.frags[i])
        BY <1>5 DEF Holds
      <4>2. p.frags[i] = f \/ Holds(c, p.frags[i])
        BY <4>1, <2>2
      <4> HIDE DEF p, q, c
      <4> QED
        BY <4>2, <3>2, <1>1, <1>2, <1>4 DEF Received, Holds
    <3> QED
      BY <3>1, <3>2
  <2>7. answer' = 0 => \A g \in accepted' : Good(g.msg) => Complete(p)
    <3> SUFFICES ASSUME answer' = 0, NEW g \in accepted', Good(g.msg) PROVE Complete(p)
      OBVIOUS
    <3>1. Wanted(q) = 0
      <4> HIDE DEF p, q
      <4> QED
        BY <1>1, <1>7
    <3>2. g \in Fragments /\ KeyOf(g) = k
      BY <1>1, <1>2, <2>4 DEF Received
    <3>3. PICK m \in Message : \E i \in 1..Count[m] : g = FragmentOf(m, i)
      BY <3>2, FragmentType
    <3>4. g.msg = m /\ k = Key(m)
      <4> HIDE DEF k
      <4>1. g.msg = m /\ g.types = TypesOf[m] /\ g.tid = TIDOf[m]
        BY <3>3 DEF FragmentOf
      <4> QED
        BY <3>2, <4>1 DEF KeyOf, Key
    <3> HIDE DEF k, c, p, q
    <3>5. Good(m) /\ FiledUnder(q, Key(m)) /\ q \in Buffers
      BY <3>4, <2>2, <1>5
    <3>6. Complete(q)
      BY <3>1, <3>5, ZeroIsComplete
    <3> QED
      BY <3>6, <1>7
  <2> HIDE DEF k, c, p, q
  <2>8. accepted' \subseteq Fragments
    BY <1>1, <1>2 DEF Received
  <2> QED
    BY <1>1, <1>5, <2>5, <2>6, <2>7, <2>8 DEF Received
<1> QED
  BY <1>8, <1>9

\* Dump and Rewind change the size_ of the Buffer, if anything of it.
LEMMA ResizeReceived ==
    ASSUME Received, UNCHANGED <<accepted, answer>>,
           NEW s, buffer' = [buffer EXCEPT !.size = s]
    PROVE  Received'
<1>1. Received
  OBVIOUS
<1>2. DOMAIN buffer = {"types", "tid", "size", "frags"}
  BY <1>1, UnsizedIsTheSame DEF Received
<1>3. /\ buffer'.types = buffer.types /\ buffer'.tid = buffer.tid
      /\ buffer'.frags = buffer.frags
      /\ Unsized(buffer') = Unsized(buffer)
  BY <1>2 DEF Unsized
<1>4. /\ \A k : FiledUnder(buffer', k) <=> FiledUnder(buffer, k)
      /\ Complete(buffer') <=> Complete(buffer)
  BY <1>3 DEF FiledUnder, Complete
<1>5. Unsized(buffer') \in Buffers /\ accepted' \subseteq Fragments
      /\ \A i \in DOMAIN buffer'.frags : buffer'.frags[i] \in accepted'
  <2>1. accepted' = accepted
    OBVIOUS
  <2> QED
    BY <2>1, <1>1, <1>3 DEF Received
<1>6. Owned'
  BY <1>1, <1>3, <1>4 DEF Received, Owned
<1>7. answer' = 0 => \A f \in accepted' : Good(f.msg) => Complete(buffer')
  BY <1>1, <1>4 DEF Received
<1> QED
  BY <1>5, <1>6, <1>7 DEF Received

LEMMA NextReceived == (cut = "no" => Received) /\ [Next]_vars => (cut' = "no" => Received')
<1> SUFFICES ASSUME cut = "no" => Received, [Next]_vars, cut' = "no" PROVE Received'
  OBVIOUS
<1>1. CASE UNCHANGED vars
  BY <1>1 DEF vars, Received, Owned
<1>2. ASSUME NEW f \in Fragments, PushOne(f) PROVE Received'
  <2>1. cut' = "no" => cut = "no"
    BY <1>2 DEF PushOne
  <2> QED
    BY <2>1, <1>2, PushOneReceived
<1>3. CASE Clear
  <2>1. buffer' = EmptyBuffer /\ accepted' = {} /\ answer' = 1
    BY <1>3 DEF Clear
  <2>2. Unsized(EmptyBuffer) = EmptyBuffer /\ EmptyBuffer.types = NoTypes
        /\ DOMAIN EmptyBuffer.frags = {}
    BY DEF Unsized, EmptyBuffer
  <2> QED
    BY <2>1, <2>2, EmptyIsABuffer DEF Received, Owned
<1>4. ASSUME NEW n \in 1..MaxDump, Dump(n) PROVE Received'
  <2>1. PICK s : buffer' = [buffer EXCEPT !.size = s]
    BY <1>4 DEF Dump
  <2>2. UNCHANGED <<accepted, answer, cut>>
    BY <1>4 DEF Dump
  <2> QED
    BY <2>1, <2>2, ResizeReceived
<1>5. CASE Rewind
  <2>1. buffer' = [buffer EXCEPT !.size = Len(Contents)]
    BY <1>5 DEF Rewind
  <2>2. UNCHANGED <<accepted, answer, cut>>
    BY <1>5 DEF Rewind
  <2> QED
    BY <2>1, <2>2, ResizeReceived
<1>6. ASSUME NEW mtu, Recut(mtu) PROVE Received'
  BY <1>6 DEF Recut
<1>7. CASE Stumble
  BY <1>7 DEF Stumble, position, Received, Owned
<1> QED
  BY <1>1, <1>2, <1>3, <1>4, <1>5, <1>6, <1>7 DEF Next, Split, Merge

\* Fragments of one key have the same Types and TID.
LEMMA OneKey ==
    ASSUME NEW S, NEW k, \A f \in S : KeyOf(f) = k
    PROVE  \A f, g \in S : f.types = g.types /\ f.tid = g.tid
<1>1. \A f \in S : KeyOf(f)[1] = f.types /\ KeyOf(f)[2] = f.tid
  BY DEF KeyOf
<1> QED
  BY <1>1

\* Push keeps what is said of the message, unless it mixes two cuts.
LEMMA PushKept ==
    ASSUME Typed, Kept, ~fault, cut # "mixed",
           NEW f \in Fragments, PushOne(f), cut' = "no" => Received', cut' # "mixed"
    PROVE  Kept'
<1>1. /\ buffer' = Push(buffer, f)
      /\ answer' = IF Rejects(buffer, f) THEN -1 ELSE Wanted(Push(buffer, f))
      /\ accepted' = IF Rejects(buffer, f) THEN accepted ELSE accepted \cup {f}
      /\ cut' = IF Rejects(buffer, f) \/ cut = "no" THEN cut ELSE "mixed"
      /\ index' = index /\ offset' = offset /\ fault' = fault /\ read' = read
  BY DEF PushOne, position
<1>2. CASE Rejects(buffer, f)
  <2>1. answer' = -1 /\ accepted' = accepted /\ cut' = cut
    BY <1>1, <1>2
  <2>2. buffer'.frags = buffer.frags /\ buffer'.size = buffer.size
    BY <1>1, <1>2, PushIs DEF Typed
  <2>3. answer' # 0
    BY <2>1
  <2>4. ASSUME NEW m \in Message, Good(m), accepted' \subseteq FragmentsOf(m)
        PROVE  Reads(m)'
    <3>1. Reads(m)
      BY <2>1, <2>4 DEF Kept
    <3> QED
      BY <3>1, <1>1, <2>1, <2>2, ReadsStays
  <2>5. \A g, h \in accepted' : g.types = h.types /\ g.tid = h.tid
    BY <2>1 DEF Kept
  <2> QED
    BY <2>3, <2>4, <2>5 DEF Kept
<1>3. CASE ~Rejects(buffer, f)
  <2>1. cut = "no" /\ cut' = "no" /\ accepted' = accepted \cup {f}
    BY <1>1, <1>3
  <2>2. accepted' # {}
    BY <2>1
  <2>3. \A g, h \in accepted' : g.types = h.types /\ g.tid = h.tid
    <3>1. PICK k : \A g \in accepted' : KeyOf(g) = k
      <4>1. accepted' = {} \/ \E k \in Keys : \A g \in accepted' : KeyOf(g) = k
        BY <2>1 DEF Received, Owned
      <4> QED
        BY <4>1
    <3> QED
      BY <3>1, OneKey
  <2>4. ASSUME NEW m \in Message, Good(m), accepted' \subseteq FragmentsOf(m)
        PROVE  Reads(m)'
    <3>1. Reads(m)
      BY <2>1, <2>4 DEF Kept
    <3>2. PICK i \in 1..Count[m] : f = FragmentOf(m, i)
      BY <2>1, <2>4 DEF FragmentsOf
    <3> QED
      BY <3>1, <3>2, <1>3, <2>1, <2>4, PushReads
  <2> QED
    BY <2>2, <2>3, <2>4 DEF Kept
<1> QED
  BY <1>2, <1>3

\* An operation that takes nothing in keeps what is said of every message, when it
\* keeps what is said of one that the Buffer may hold.
LEMMA NothingTaken ==
    ASSUME Kept, UNCHANGED <<accepted, answer>>,
           \A m \in Message : Reads(m) => Reads(m)'
    PROVE  Kept'
<1>1. accepted' = accepted /\ answer' = answer
  OBVIOUS
<1>2. /\ answer' = 0 => accepted' # {}
      /\ \A f, g \in accepted' : f.types = g.types /\ f.tid = g.tid
  BY <1>1 DEF Kept
<1>3. \A m \in Message : Good(m) /\ accepted' \subseteq FragmentsOf(m) => Reads(m)'
  BY <1>1 DEF Kept
<1> QED
  BY <1>2, <1>3 DEF Kept

LEMMA NextKept ==
    ASSUME Typed, cut # "mixed" => Kept, [Next]_vars, cut' = "no" => Received'
    PROVE  cut' # "mixed" => Kept'
<1> SUFFICES ASSUME cut' # "mixed" PROVE Kept'
  OBVIOUS
<1>1. CASE UNCHANGED vars
  <2>1. /\ UNCHANGED <<index, offset, fault, accepted, answer, read, cut>>
        /\ buffer'.frags = buffer.frags /\ buffer'.size = buffer.size
    BY <1>1 DEF vars, position
  <2>2. \A m \in Message : Reads(m) => Reads(m)'
    BY <2>1, ReadsStays
  <2>3. Kept
    BY <2>1
  <2> QED
    BY <2>1, <2>2, <2>3, NothingTaken
<1>2. CASE Next
  <2>1. ~fault /\ cut # "mixed" /\ Kept
    BY <1>2 DEF Next
  <2>2. ASSUME NEW f \in Fragments, PushOne(f) PROVE Kept'
    BY <2>1, <2>2, PushKept
  <2>3. CASE Clear
    <3>1. accepted' = {} /\ answer' = 1
      BY <2>3 DEF Clear
    <3>2. \A m \in Message : Reads(m)'
      BY <2>1, <2>3, ReadsNothing
    <3> QED
      BY <3>1, <3>2 DEF Kept
  <2>4. ASSUME NEW b \in 1..MaxDump, Dump(b) PROVE Kept'
    <3>1. b \in Nat
      BY OwnBufferAssumption
    <3>2. \A m \in Message : Reads(m) => Reads(m)'
      BY <2>1, <2>4, <3>1, DumpReads
    <3>3. UNCHANGED <<accepted, answer>>
      BY <2>4 DEF Dump
    <3> QED
      BY <2>1, <3>2, <3>3, NothingTaken
  <2>5. CASE Rewind
    <3>1. \A m \in Message : Reads(m) => Reads(m)'
      BY <2>1, <2>5, RewindReads
    <3>2. UNCHANGED <<accepted, answer>>
      BY <2>5 DEF Rewind
    <3> QED
      BY <2>1, <3>1, <3>2, NothingTaken
  <2>6. ASSUME NEW mtu, Cuttable(mtu), Recut(mtu) PROVE Kept'
    <3>1. \A m \in Message : Reads(m) => Reads(m)'
      BY <2>1, <2>6, RecutReads
    <3>2. UNCHANGED <<accepted, answer>>
      BY <2>6 DEF Recut
    <3> QED
      BY <2>1, <3>1, <3>2, NothingTaken
  <2>7. ASSUME NEW mtu \in SplitMtus, Split(mtu) PROVE Kept'
    BY <2>6, <2>7, SplitIsCuttable
  <2>8. CASE Merge
    BY <2>6, <2>8, MergeIsCuttable
  <2>9. CASE Stumble
    <3>1. \A m \in Message : Reads(m) => Reads(m)'
      BY <2>9, StumbleReads
    <3>2. UNCHANGED <<accepted, answer>>
      BY <2>9 DEF Stumble
    <3> QED
      BY <2>1, <3>1, <3>2, NothingTaken
  <2> QED
    BY <1>2, <2>2, <2>3, <2>4, <2>5, <2>7, <2>8, <2>9 DEF Next
<1> QED
  BY <1>1, <1>2

LEMMA InitIInv == Init => IInv
<1> SUFFICES ASSUME Init PROVE IInv
  OBVIOUS
<1>1. Received
  BY InitReceived
<1>2. Typed
  BY InitTyped
<1>3. Kept
  <2>1. accepted = {} /\ answer = 1
    BY DEF Init
  <2>2. \A m \in Message : Reads(m)
    BY ReadsNothing
  <2> QED
    BY <2>1, <2>2 DEF Kept
<1> QED
  BY <1>1, <1>2, <1>3 DEF IInv

LEMMA NextIInv == IInv /\ [Next]_vars => IInv'
<1> SUFFICES ASSUME IInv, [Next]_vars PROVE IInv'
  OBVIOUS
<1>1. Typed'
  BY NextTyped DEF IInv
<1>2. cut' = "no" => Received'
  BY NextReceived DEF IInv
<1>3. cut' # "mixed" => Kept'
  BY <1>2, NextKept DEF IInv
<1> QED
  BY <1>1, <1>2, <1>3 DEF IInv

\* IInv is inductive, and holds of every reachable state.
THEOREM Invariance == Spec => []IInv
BY InitIInv, NextIInv, PTL DEF Spec

----------------------------------------------------------------------------
(* What follows from it *)

\* A Buffer as received, for whose last fragment Push answered 0, is whole.
LEMMA HeldIsWhole ==
    ASSUME Received, answer = 0, NEW f \in accepted, Good(f.msg)
    PROVE  Whole(buffer, f.msg)
<1>1. f \in Fragments /\ Complete(buffer) /\ Unsized(buffer) \in Buffers
  BY DEF Received
<1>2. PICK k \in Keys : FiledUnder(buffer, k) /\ KeyOf(f) = k
  BY DEF Received, Owned
<1>3. PICK m \in Message : \E i \in 1..Count[m] : f = FragmentOf(m, i)
  BY <1>1, FragmentType
<1>4. f.msg = m /\ k = Key(m)
  BY <1>2, <1>3 DEF FragmentOf, KeyOf, Key
<1> DEFINE c == Unsized(buffer)
<1>5. c \in Buffers /\ c.types = buffer.types /\ c.tid = buffer.tid
      /\ c.frags = buffer.frags
  BY <1>1, UnsizedIsTheSame
<1>6. FiledUnder(c, Key(m)) /\ Complete(c) /\ (Whole(buffer, m) <=> Whole(c, m))
  BY <1>1, <1>2, <1>4, <1>5, UnsizedIsFiled
<1> HIDE DEF c
<1> QED
  BY <1>4, <1>5, <1>6, CompleteIsWhole

\* When Push answers 0 the Buffer holds the whole message, whatever came in between:
\* fragments of other messages, repeated ones, Dump, Rewind and Clear
\* (Push, buffer.cc:190; buffer.h:165-169).
THEOREM ZeroMeansWhole == Spec => []ZeroIsWhole
<1>1. IInv => ZeroIsWhole
  BY HeldIsWhole DEF IInv, ZeroIsWhole
<1> QED
  BY <1>1, Invariance, PTL

----------------------------------------------------------------------------
(* A message that is read *)

LEMMA StretchIsPrefix ==
    ASSUME NEW m \in Message, NEW a \in Nat, NEW b \in Nat, a <= b
    PROVE  IsPrefix(Stretch(m, a), Stretch(m, b))
<1> DEFINE s == Stretch(m, a)
           t == Stretch(m, b)
<1>1. s \in Seq(Byte) /\ t \in Seq(Byte) /\ Len(s) = a /\ Len(t) = b
  BY StretchIsSeq
<1>2. \A j \in 1..a : s[j] = t[j]
  BY DEF Stretch
<1> HIDE DEF s, t
<1>3. SubSeq(s, 1, Len(s)) = SubSeq(t, 1, Len(s))
  <2>1. Len(SubSeq(s, 1, a)) = a /\ \A j \in 1..a : SubSeq(s, 1, a)[j] = s[j]
    BY <1>1
  <2>2. Len(SubSeq(t, 1, a)) = a /\ \A j \in 1..a : SubSeq(t, 1, a)[j] = t[j]
    BY <1>1
  <2>3. SubSeq(s, 1, a) \in Seq(Byte) /\ SubSeq(t, 1, a) \in Seq(Byte)
    BY <1>1
  <2>4. PICK v, w \in Seq(Byte) : v = SubSeq(s, 1, a) /\ w = SubSeq(t, 1, a)
    BY <2>3
  <2>5. Len(v) = Len(w) /\ \A j \in 1..Len(v) : v[j] = w[j]
    BY <1>2, <2>1, <2>2, <2>4
  <2>6. v = w
    BY <2>5, SeqEqual
  <2> QED
    BY <1>1, <2>4, <2>6
<1> QED
  BY <1>1, <1>3 DEF IsPrefix, s, t

\* If one of the fragments that were taken in is of a good message, they all are.
LEMMA OneMessage ==
    ASSUME Typed, Kept, NEW f \in accepted, Good(f.msg)
    PROVE  f.msg \in Message /\ accepted \subseteq FragmentsOf(f.msg)
<1>1. accepted \subseteq Fragments /\ \A g \in accepted : g.types = f.types /\ g.tid = f.tid
  BY DEF Typed, Kept
<1>2. PICK m \in Message : \E i \in 1..Count[m] : f = FragmentOf(m, i)
  BY <1>1, FragmentType
<1>3. f.msg = m /\ f.types = TypesOf[m] /\ f.tid = TIDOf[m]
  BY <1>2 DEF FragmentOf
<1>4. ASSUME NEW g \in accepted PROVE g \in FragmentsOf(m)
  <2>1. PICK o \in Message : \E i \in 1..Count[o] : g = FragmentOf(o, i)
    BY <1>1, FragmentType
  <2>2. TypesOf[o] = TypesOf[m] /\ TIDOf[o] = TIDOf[m]
    <3>1. g.types = TypesOf[o] /\ g.tid = TIDOf[o]
      BY <2>1 DEF FragmentOf
    <3> QED
      BY <3>1, <1>1, <1>3
  <2>3. o = m
    BY <2>2, <1>3 DEF Good
  <2> QED
    BY <2>1, <2>3 DEF FragmentsOf
<1> QED
  BY <1>2, <1>3, <1>4

\* The state has its types, and until it is cut the Buffer holds nothing but what was
\* taken in (Push, buffer.cc:190; Dump, buffer.cc:142; Split, buffer.cc:234).
THEOREM TypeCorrect == Spec => []TypeOK
<1>1. IInv => TypeOK
  BY DEF IInv, Typed, Received, TypeOK
<1> QED
  BY <1>1, Invariance, PTL

\* What is read of a good message is its beginning, size_ is what is left of what the
\* Buffer holds, and when all of it was taken in, the Buffer holds its bytes: for
\* every order and repetition of the fragments, and in between any Dump, Rewind, Split
\* and Merge (Dump, buffer.cc:142; Push, buffer.cc:206; Split, buffer.cc:234).
THEOREM ReadsInOrder == Spec => []ReadsMessage
<1>1. IInv => ReadsMessage
  <2> SUFFICES ASSUME IInv, NEW f \in accepted, Good(f.msg), cut # "mixed"
               PROVE  /\ IsPrefix(read, Bytes(f.msg))
                      /\ buffer.size = LenOf(buffer) - Len(read)
                      /\ FragmentsOf(f.msg) \subseteq accepted => Contents = Bytes(f.msg)
    BY DEF ReadsMessage
  <2>1. Typed /\ Kept
    BY DEF IInv
  <2>2. f.msg \in Message /\ accepted \subseteq FragmentsOf(f.msg)
    BY <2>1, OneMessage
  <2>3. PICK m \in Message : m = f.msg
    BY <2>2
  <2>4. Reads(m)
    BY <2>1, <2>2, <2>3 DEF Kept
  <2>5. PICK n, c, e \in Nat \ {0} :
           Laid(buffer.frags, m, n, c, e) /\ Progress(m, n, c, e) /\ Shape(m, n, c, e)
    BY <2>4 DEF Reads
  <2>6. DOMAIN buffer.frags \subseteq 0..(n - 1) /\ IsFiniteSet(DOMAIN buffer.frags)
    BY <2>1, <2>5 DEF Laid, Typed, Filled
  <2>7. /\ BytesTo(n, c, e, n) <= Len(Bytes(m))
        /\ FragmentsOf(m) \subseteq accepted =>
              DOMAIN buffer.frags = 0..(n - 1) /\ BytesTo(n, c, e, n) = Len(Bytes(m))
        /\ Len(Bytes(m)) \in Nat /\ Bytes(m) = Stretch(m, Len(Bytes(m)))
    BY <2>5, <2>6, ShapeTotal
  <2>8. IsPrefix(read, Bytes(m))
    <3>1. read = Stretch(m, Len(read)) /\ Len(read) \in Nat
          /\ Len(read) <= BytesTo(n, c, e, n)
      BY <2>5 DEF Progress
    <3>2. BytesTo(n, c, e, n) \in Nat
      <4>1. n - 1 \in Nat
        BY <2>5
      <4>2. (n - 1) * c \in Nat
        BY <4>1
      <4> QED
        BY <4>2 DEF BytesTo
    <3>3. Len(read) <= Len(Bytes(m))
      BY <2>7, <3>1, <3>2
    <3>4. IsPrefix(Stretch(m, Len(read)), Stretch(m, Len(Bytes(m))))
      BY <2>7, <3>1, <3>3, StretchIsPrefix
    <3> QED
      BY <2>7, <3>1, <3>4
  <2>9. buffer.size = LenOf(buffer) - Len(read)
    BY <2>5 DEF Progress
  <2>10. ASSUME FragmentsOf(m) \subseteq accepted PROVE Contents = Bytes(m)
    <3>1. n \in 0..n /\ DOMAIN buffer.frags = 0..(n - 1)
      BY <2>5, <2>7, <2>10
    <3>2. Contents = Stretch(m, BytesTo(n, c, e, n))
      BY <2>5, <2>6, <3>1, ContentsLaid
    <3> QED
      BY <2>7, <2>10, <3>2
  <2> QED
    BY <2>3, <2>8, <2>9, <2>10
<1> QED
  BY <1>1, Invariance, PTL

\* After an answer of 0 for a good message no operation meets a hole: the fault of the
\* code comes with holes only, and the fragments are all there, or were cut from all
\* (Dump, buffer.cc:147; Fragments(), buffer.cc:245).
THEOREM NeverFaults == Spec => []CompleteNeverFaults
<1>1. IInv => CompleteNeverFaults
  <2> SUFFICES ASSUME IInv, fault, cut # "mixed", answer = 0,
                      \A f \in accepted : Good(f.msg)
               PROVE  FALSE
    BY DEF CompleteNeverFaults
  <2>1. Typed /\ Kept
    BY DEF IInv
  <2>2. PICK f \in accepted : Good(f.msg)
    BY <2>1 DEF Kept
  <2>3. PICK m \in Message : m = f.msg /\ accepted \subseteq FragmentsOf(m)
    BY <2>1, <2>2, OneMessage
  <2>4. PICK n, c, e \in Nat \ {0} :
           Laid(buffer.frags, m, n, c, e) /\ Progress(m, n, c, e) /\ Shape(m, n, c, e)
    BY <2>1, <2>2, <2>3 DEF Kept, Reads
  <2>5. ~Gapless
    BY <2>4 DEF Progress
  <2>6. IsFiniteSet(DOMAIN buffer.frags)
    BY <2>1 DEF Typed, Filled
  <2>7. \A d \in Nat : DOMAIN buffer.frags # 0..(d - 1)
    BY <2>5, <2>6, GaplessIs
  <2>8. CASE cut = "no"
    <3>1. Whole(buffer, m)
      BY <2>2, <2>3, <2>8, HeldIsWhole DEF IInv
    <3>2. DOMAIN buffer.frags = 0..(Count[m] - 1) /\ Count[m] \in Nat
      BY <3>1, FragmentBufferAssumption DEF Whole
    <3> QED
      BY <2>7, <3>2
  <2>9. CASE cut # "no"
    <3>1. DOMAIN buffer.frags = 0..(n - 1) /\ n \in Nat
      BY <2>4, <2>9 DEF Shape, AsCut
    <3> QED
      BY <2>7, <3>1
  <2> QED
    BY <2>8, <2>9
<1> QED
  BY <1>1, Invariance, PTL
=============================================================================
