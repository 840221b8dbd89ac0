---------------------------- MODULE RBufferProof ----------------------------
(***************************************************************************)
(* Facts the proofs about RBuffer share.  First, about fragments and the   *)
(* Buffers they are pushed into: a Buffer that is filed under the key of   *)
(* its fragments and is complete is a whole message.  Then, about the      *)
(* parser, for every MAGIC, cache and chunk: what its search for MAGIC     *)
(* finds and keeps, and what each step leaves in the cache; T stands for   *)
(* the set of tokens a stream is made of.                                  *)
(***************************************************************************)
EXTENDS RBuffer, FragmentBuffer, WellFoundedInduction, SequenceTheorems, FiniteSetTheorems, TLAPS

----------------------------------------------------------------------------
(* Fragments and their ids *)

\* A std::int16_t holds a number of its range unchanged (Schema.FID, tssd.h:88).
LEMMA Int16Holds ==
    ASSUME NEW n \in Int, -Int16Max - 1 <= n, n <= Int16Max
    PROVE  Int16(n) = n
BY FragmentBufferAssumption DEF Int16

\* The id of a fragment of a good message gives its place in the message back.
LEMMA GoodFragment ==
    ASSUME NEW m \in Message, Good(m), NEW i \in 1..Count[m]
    PROVE  /\ Index(FragmentOf(m, i)) = i - 1
           /\ FragmentOf(m, i).fid < 0 <=> i = Count[m]
<1>1. Count[m] \in Nat /\ Int16Max \in Nat /\ Count[m] <= Int16Max
  BY FragmentBufferAssumption DEF Good
<1>2. i \in Int /\ -i \in Int /\ i <= Int16Max /\ -Int16Max - 1 <= -i
  BY <1>1
<1>3. Int16(i) = i /\ Int16(-i) = -i
  BY <1>1, <1>2, Int16Holds
<1> QED
  BY <1>1, <1>2, <1>3 DEF FragmentOf, Index

\* Every fragment belongs to a message, and its fields have their types.
LEMMA FragmentType ==
    ASSUME NEW f \in Fragments
    PROVE  /\ \E m \in Message : \E i \in 1..Count[m] : f = FragmentOf(m, i)
           /\ f.types \in Types /\ f.tid \in TID /\ f.fid \in Int /\ f.len \in Nat
           /\ <<f.types, f.tid>> \in Keys
           /\ Index(f) \in Int
           /\ f.fid # 0 => Index(f) \in Nat
<1>1. PICK m \in Message : \E i \in 1..Count[m] : f = FragmentOf(m, i)
  BY DEF Fragments, FragmentsOf
<1>2. PICK i \in 1..Count[m] : f = FragmentOf(m, i)
  BY <1>1
<1>3. /\ Count[m] \in Nat /\ TypesOf[m] \in Types /\ TIDOf[m] \in TID
      /\ PayloadLen[m] \in Nat /\ LastLen[m] \in Nat /\ Int16Max \in Nat
  BY FragmentBufferAssumption
<1>4. Int16(i) \in Int /\ Int16(-i) \in Int
  BY <1>3 DEF Int16
<1>5. f.types = TypesOf[m] /\ f.tid = TIDOf[m] /\ f.fid \in Int /\ f.len \in Nat
  BY <1>2, <1>3, <1>4 DEF FragmentOf
<1> QED
  BY <1>2, <1>3, <1>5 DEF Index, Keys

----------------------------------------------------------------------------
(* Buffers, and what Push does to one *)

Buffers == [types : Types \cup {NoTypes}, tid : TID \cup {NoTypes}, size : Int,
            frags : UNION {[Dom -> Fragments] : Dom \in SUBSET Int}]

LEMMA EmptyIsABuffer ==
    /\ EmptyBuffer \in Buffers
    /\ \A k \in Keys : FiledUnder(EmptyBuffer, k)
    /\ ~Complete(EmptyBuffer)
    /\ \A f : ~Holds(EmptyBuffer, f)
<1>1. [i \in {} |-> 0] \in [{} -> Fragments]
  OBVIOUS
<1>2. EmptyBuffer \in Buffers
  BY <1>1 DEF EmptyBuffer, Buffers
<1> QED
  BY <1>2 DEF EmptyBuffer, FiledUnder, Complete, Holds

LEMMA PushType ==
    ASSUME NEW b \in Buffers, NEW f \in Fragments
    PROVE  Push(b, f) \in Buffers
<1>1. PICK Dom \in SUBSET Int : b.frags \in [Dom -> Fragments]
  BY DEF Buffers
<1>2. Index(f) \in Int /\ f.types \in Types /\ f.tid \in TID /\ f.len \in Nat
  BY FragmentType
<1>3. Bound(b, f) \in Buffers /\ Bound(b, f).frags = b.frags
  BY <1>2 DEF Bound, Buffers
<1>4. CASE Rejects(b, f)
  BY <1>3, <1>4 DEF Push
<1>5. CASE ~Rejects(b, f)
  <2> DEFINE frags == [i \in DOMAIN b.frags \cup {Index(f)} |->
                          IF i = Index(f) THEN f ELSE b.frags[i]]
             size  == IF Index(f) \in DOMAIN b.frags THEN Bound(b, f).size
                      ELSE Bound(b, f).size + f.len
  <2>1. Push(b, f) = [Bound(b, f) EXCEPT !.size = size, !.frags = frags]
    BY <1>5 DEF Push
  <2>2. Dom \cup {Index(f)} \in SUBSET Int /\ frags \in [Dom \cup {Index(f)} -> Fragments]
    BY <1>1, <1>2
  <2>3. frags \in UNION {[E -> Fragments] : E \in SUBSET Int}
    BY <2>2
  <2>4. size \in Int
    BY <1>2, <1>3 DEF Buffers
  <2> HIDE DEF frags, size
  <2> QED
    BY <2>1, <2>3, <2>4, <1>3 DEF Buffers
<1> QED
  BY <1>4, <1>5

\* Push files a fragment of the Buffer's own key at the index of its id, and takes
\* nothing in but the fragment (buffer.cc:190).
LEMMA PushFiles ==
    ASSUME NEW b \in Buffers, NEW f \in Fragments, NEW k \in Keys,
           k = <<f.types, f.tid>>, FiledUnder(b, k)
    PROVE  /\ FiledUnder(Push(b, f), k)
           /\ \A g : Holds(Push(b, f), g) => g = f \/ Holds(b, g)
<1>1. /\ f.types \in Types /\ f.tid \in TID
      /\ Index(f) \in Int /\ (f.fid # 0 => Index(f) \in Nat)
      /\ k[1] = f.types /\ k[2] = f.tid /\ f.types # NoTypes
  BY FragmentType, FragmentBufferAssumption
<1>2. /\ Bound(b, f).frags = b.frags
      /\ Bound(b, f).types = f.types /\ Bound(b, f).tid = f.tid
      /\ Bound(b, f) \in Buffers
  BY <1>1 DEF Bound, Buffers, FiledUnder
<1>3. CASE f.fid = 0
  <2>1. Push(b, f) = Bound(b, f)
    BY <1>3 DEF Push, Rejects
  <2> QED
    BY <2>1, <1>1, <1>2 DEF FiledUnder, Holds
<1>4. CASE f.fid # 0
  <2> DEFINE frags == [i \in DOMAIN b.frags \cup {Index(f)} |->
                          IF i = Index(f) THEN f ELSE b.frags[i]]
  <2>1. /\ Push(b, f).frags = frags
        /\ Push(b, f).types = f.types /\ Push(b, f).tid = f.tid
    BY <1>2, <1>4 DEF Push, Rejects, Buffers
  <2>2. \A i \in DOMAIN frags :
          /\ i \in Nat /\ frags[i] \in Fragments
          /\ frags[i].types = k[1] /\ frags[i].tid = k[2] /\ Index(frags[i]) = i
          /\ frags[i] = f \/ (i \in DOMAIN b.frags /\ b.frags[i] = frags[i])
    BY <1>1, <1>4 DEF FiledUnder
  <2> HIDE DEF frags
  <2>3. FiledUnder(Push(b, f), k)
    BY <2>1, <2>2, <1>1 DEF FiledUnder
  <2>4. \A g : Holds(Push(b, f), g) => g = f \/ Holds(b, g)
    BY <2>1, <2>2 DEF Holds
  <2> QED
    BY <2>3, <2>4
<1> QED
  BY <1>3, <1>4

\* What a Buffer filed under the key of a good message holds: fragments of it, each
\* at its place, the one with the negative id at the last.
LEMMA FiledFragments ==
    ASSUME NEW b \in Buffers, NEW m \in Message, Good(m), FiledUnder(b, Key(m)),
           NEW i \in DOMAIN b.frags
    PROVE  /\ i \in 0..(Count[m] - 1)
           /\ b.frags[i] = FragmentOf(m, i + 1)
           /\ b.frags[i].fid < 0 <=> i = Count[m] - 1
<1>1. Count[m] \in Nat
  BY FragmentBufferAssumption
<1>2. /\ i \in Nat /\ b.frags[i] \in Fragments /\ Index(b.frags[i]) = i
      /\ b.frags[i].types = TypesOf[m] /\ b.frags[i].tid = TIDOf[m]
  BY DEF FiledUnder, Key
<1>3. PICK o \in Message : \E j \in 1..Count[o] : b.frags[i] = FragmentOf(o, j)
  BY <1>2, FragmentType
<1>4. PICK j \in 1..Count[o] : b.frags[i] = FragmentOf(o, j)
  BY <1>3
<1>5. TypesOf[o] = TypesOf[m] /\ TIDOf[o] = TIDOf[m]
  BY <1>2, <1>4 DEF FragmentOf
<1>6. o = m
  BY <1>5 DEF Good
<1>7. j \in 1..Count[m] /\ b.frags[i] = FragmentOf(m, j)
  BY <1>4, <1>6
<1>8. Index(FragmentOf(m, j)) = j - 1 /\ (FragmentOf(m, j).fid < 0 <=> j = Count[m])
  BY <1>7, GoodFragment
<1>9. i = j - 1
  BY <1>2, <1>7, <1>8
<1> QED
  BY <1>1, <1>2, <1>7, <1>8, <1>9

\* A complete Buffer filed under the key of a good message is that message.
LEMMA CompleteIsWhole ==
    ASSUME NEW b \in Buffers, NEW m \in Message, Good(m),
           FiledUnder(b, Key(m)), Complete(b)
    PROVE  Whole(b, m)
<1>1. PICK i \in DOMAIN b.frags : b.frags[i].fid < 0 /\ 0..i \subseteq DOMAIN b.frags
  BY DEF Complete
<1>2. i = Count[m] - 1
  BY <1>1, FiledFragments
<1>3. DOMAIN b.frags = 0..(Count[m] - 1)
  BY <1>1, <1>2, FiledFragments
<1> QED
  BY <1>3, FiledFragments DEF Whole

----------------------------------------------------------------------------
(* Maps of Buffers *)

KeyOf(f)    == <<f.types, f.tid>>
Filed(bufs) == \A k \in Keys : FiledUnder(bufs[k], k)

\* Pushing into the Buffer of a fragment's key keeps a map of Buffers filed.
LEMMA PushIntoMap ==
    ASSUME NEW bufs \in [Keys -> Buffers], Filed(bufs), NEW f \in Fragments,
           NEW new, new = [bufs EXCEPT ![<<f.types, f.tid>>] = Push(@, f)]
    PROVE  new \in [Keys -> Buffers] /\ Filed(new)
<1>1. <<f.types, f.tid>> \in Keys
  BY FragmentType
<1>2. /\ Push(bufs[<<f.types, f.tid>>], f) \in Buffers
      /\ FiledUnder(Push(bufs[<<f.types, f.tid>>], f), <<f.types, f.tid>>)
  BY <1>1, PushType, PushFiles DEF Filed
<1> QED
  BY <1>1, <1>2 DEF Filed

----------------------------------------------------------------------------
(* Whole messages *)

LEMMA WholeHoldsFirst ==
    ASSUME NEW b, NEW m \in Message, Whole(b, m)
    PROVE  /\ 0 \in DOMAIN b.frags /\ b.frags[0] = FragmentOf(m, 1)
           /\ Holds(b, FragmentOf(m, 1)) /\ FragmentOf(m, 1) \in Fragments
           /\ FragmentOf(m, 1).msg = m
<1>1. Count[m] \in Nat \ {0}
  BY FragmentBufferAssumption
<1>2. 0 \in DOMAIN b.frags /\ b.frags[0] = FragmentOf(m, 1)
  BY <1>1 DEF Whole
<1>3. FragmentOf(m, 1) \in Fragments
  BY <1>1 DEF Fragments, FragmentsOf
<1>4. FragmentOf(m, 1).msg = m
  BY DEF FragmentOf
<1> QED
  BY <1>2, <1>3, <1>4 DEF Holds

\* The message a complete Buffer is, when every message is good.
LEMMA MessageOf ==
    ASSUME \A m \in Message : Good(m),
           NEW b \in Buffers, Complete(b), NEW k \in Keys, FiledUnder(b, k)
    PROVE  b.frags[0].msg \in Message /\ Whole(b, b.frags[0].msg)
<1>1. PICK i \in DOMAIN b.frags : 0..i \subseteq DOMAIN b.frags
  BY DEF Complete
<1>2. i \in Nat /\ 0 \in 0..i
  BY DEF FiledUnder
<1> DEFINE f == b.frags[0]
<1>3. f \in Fragments /\ f.types = k[1] /\ f.tid = k[2]
  BY <1>1, <1>2 DEF FiledUnder
<1>4. PICK o \in Message : \E j \in 1..Count[o] : f = FragmentOf(o, j)
  BY <1>3, FragmentType
<1>5. f.msg = o /\ f.types = TypesOf[o] /\ f.tid = TIDOf[o]
  BY <1>4 DEF FragmentOf
<1>6. k = Key(o)
  <2>1. k = <<k[1], k[2]>>
    BY DEF Keys
  <2>2. k[1] = TypesOf[o] /\ k[2] = TIDOf[o]
    BY <1>3, <1>5
  <2> QED
    BY <2>1, <2>2 DEF Key
<1>7. Whole(b, o)
  BY <1>6, CompleteIsWhole
<1> QED
  BY <1>5, <1>7

\* Among the places of a message of n fragments, the first that is empty comes after
\* at most as many as are filled: FirstGap's choice exists.
LEMMA FirstGapExists ==
    ASSUME NEW n \in Nat, NEW Dom, Dom \subseteq 0..(n - 1), Dom # 0..(n - 1)
    PROVE  \E g \in 0..Cardinality(Dom) :
              g \notin Dom /\ g < n /\ 0..(g - 1) \subseteq Dom
<1>1. PICK g \in 0..(n - 1) \ Dom : \A k \in 0..(n - 1) \ Dom : g <= k
  <2> DEFINE Empty == 0..(n - 1) \ Dom
  <2>1. Empty \subseteq Nat
    OBVIOUS
  <2>2. Empty # {}
    OBVIOUS
  <2>3. \E g \in Empty : \A k \in Empty : g <= k
    <3> DEFINE Less == {p \in Nat \X Nat : p[1] < p[2]}
    <3>1. IsWellFoundedOn(Less, Nat)
      BY NatLessThanWellFounded DEF OpToRel
    <3> HIDE DEF Less, Empty
    <3>2. PICK k \in Empty : \A j \in Empty : <<j, k>> \notin Less
      BY <2>2, <2>1, <3>1, WFMin
    <3>3. ASSUME NEW j \in Empty PROVE k <= j
      <4>1. j \in Nat /\ k \in Nat
        BY <2>1
      <4>2. j < k => <<j, k>> \in Less
        BY <4>1 DEF Less
      <4> QED
        BY <3>2, <4>1, <4>2
    <3> QED
      BY <3>3
  <2> QED
    BY <2>3 DEF Empty
<1>2. 0..(g - 1) \subseteq Dom
  BY <1>1
<1>3. IsFiniteSet(Dom) /\ Cardinality(Dom) \in Nat
  <2>1. IsFiniteSet(0..(n - 1))
    BY FS_Interval
  <2> QED
    BY <2>1, FS_Subset, FS_CardinalityType
<1>4. Cardinality(0..(g - 1)) = g
  BY <1>1, FS_Interval
<1>5. g <= Cardinality(Dom)
  BY <1>2, <1>3, <1>4, FS_Subset
<1> QED
  BY <1>1, <1>2, <1>3, <1>5

----------------------------------------------------------------------------
(* Tails of sequences *)

\* The n elements of a behind the first p are those of b behind the first q.
Agree(a, p, b, q, n) == \A j \in 1..n : a[p + j] = b[q + j]

\* Two stretches of the same length with the same elements are equal.
LEMMA SameStretch ==
    ASSUME NEW T, NEW a \in Seq(T), NEW b \in Seq(T),
           NEW p \in Nat, NEW q \in Nat, NEW n \in Nat, p + n <= Len(a), q + n <= Len(b),
           Agree(a, p, b, q, n)
    PROVE  SubSeq(a, p + 1, p + n) = SubSeq(b, q + 1, q + n)
<1>1. ASSUME NEW c \in Seq(T), NEW k \in Nat, k + n <= Len(c)
      PROVE  LET s == SubSeq(c, k + 1, k + n)
             IN  s \in Seq(T) /\ Len(s) = n /\ \A j \in 1..n : s[j] = c[k + j]
  <2>1. Len(c) \in Nat /\ k + 1 \in Int /\ k + n \in Int
    OBVIOUS
  <2>2. \A j \in (k + 1)..(k + n) : c[j] \in T
    BY <1>1, <2>1, ElementOfSeq
  <2> DEFINE s == SubSeq(c, k + 1, k + n)
  <2>3. /\ s \in Seq(T)
        /\ Len(s) = IF k + 1 <= k + n THEN (k + n) - (k + 1) + 1 ELSE 0
        /\ \A j \in 1..((k + n) - (k + 1) + 1) : s[j] = c[k + 1 + j - 1]
    BY <2>1, <2>2, SubSeqProperties
  <2> HIDE DEF s
  <2>4. ASSUME NEW j \in 1..n PROVE s[j] = c[k + j]
    <3>1. j \in 1..((k + n) - (k + 1) + 1) /\ k + 1 + j - 1 = k + j
      OBVIOUS
    <3>2. s[j] = c[k + 1 + j - 1]
      BY <2>3, <3>1
    <3> QED
      BY <3>1, <3>2
  <2>5. Len(s) = n
    BY <2>3
  <2> QED
    BY <2>3, <2>4, <2>5 DEF s
<1> DEFINE s == SubSeq(a, p + 1, p + n)
           t == SubSeq(b, q + 1, q + n)
<1>2. s \in Seq(T) /\ Len(s) = n /\ \A j \in 1..n : s[j] = a[p + j]
  BY <1>1
<1>3. t \in Seq(T) /\ Len(t) = n /\ \A j \in 1..n : t[j] = b[q + j]
  BY <1>1
<1> HIDE DEF s, t
<1>4. \A j \in 1..n : s[j] = t[j]
  BY <1>2, <1>3 DEF Agree
<1> QED
  BY <1>2, <1>3, <1>4, SeqEqual DEF s, t

\* s is the end of t.
IsTail(s, t) == Len(s) <= Len(t) /\ s = SubSeq(t, Len(t) - Len(s) + 1, Len(t))

LEMMA TailByElements ==
    ASSUME NEW T, NEW s \in Seq(T), NEW t \in Seq(T)
    PROVE  IsTail(s, t) <=> /\ Len(s) <= Len(t)
                            /\ \A i \in 1..Len(s) : s[i] = t[Len(t) - Len(s) + i]
<1>1. Len(s) \in Nat /\ Len(t) \in Nat
  OBVIOUS
<1>2. ASSUME Len(s) <= Len(t)
      PROVE  LET u == SubSeq(t, Len(t) - Len(s) + 1, Len(t))
             IN  u \in Seq(T) /\ Len(u) = Len(s) /\ \A i \in 1..Len(s) : u[i] = t[Len(t) - Len(s) + i]
  <2> PICK m : m = Len(t) - Len(s) + 1
    OBVIOUS
  <2>0. m \in Nat \ {0} /\ m \in Int
    BY <1>1, <1>2
  <2>1. \A i \in m..Len(t) : t[i] \in T
    <3> SUFFICES ASSUME NEW i \in m..Len(t) PROVE t[i] \in T
      OBVIOUS
    <3>1. i \in 1..Len(t)
      BY <1>1, <2>0
    <3> QED
      BY <3>1, ElementOfSeq
  <2> DEFINE u == SubSeq(t, m, Len(t))
  <2>2. /\ u \in Seq(T)
        /\ Len(u) = IF m <= Len(t) THEN Len(t) - m + 1 ELSE 0
        /\ \A i \in 1..(Len(t) - m + 1) : u[i] = t[m + i - 1]
    BY <1>1, <2>0, <2>1, SubSeqProperties
  <2> HIDE DEF u
  <2>5. Len(t) - m + 1 = Len(s) /\ (~(m <= Len(t)) => Len(s) = 0)
    BY <1>1, <1>2
  <2>3. Len(u) = Len(s)
    BY <2>2, <2>5
  <2>4. ASSUME NEW i \in 1..Len(s) PROVE u[i] = t[Len(t) - Len(s) + i]
    <3>1. u[i] = t[m + i - 1]
      BY <2>2, <2>5
    <3>2. m + i - 1 = Len(t) - Len(s) + i
      BY <1>1
    <3> QED
      BY <3>1, <3>2
  <2> QED
    BY <2>2, <2>3, <2>4 DEF u
<1>3. ASSUME IsTail(s, t) PROVE \A i \in 1..Len(s) : s[i] = t[Len(t) - Len(s) + i]
  BY <1>2, <1>3 DEF IsTail
<1>4. ASSUME Len(s) <= Len(t), \A i \in 1..Len(s) : s[i] = t[Len(t) - Len(s) + i]
      PROVE  s = SubSeq(t, Len(t) - Len(s) + 1, Len(t))
  BY <1>2, <1>4, SeqEqual
<1> QED
  BY <1>3, <1>4 DEF IsTail

LEMMA TailOfItself ==
    ASSUME NEW T, NEW s \in Seq(T)
    PROVE  IsTail(s, s)
BY TailByElements

LEMMA TailOfTail ==
    ASSUME NEW T, NEW s \in Seq(T), NEW t \in Seq(T), NEW u \in Seq(T),
           IsTail(s, t), IsTail(t, u)
    PROVE  IsTail(s, u)
<1>1. Len(s) \in Nat /\ Len(t) \in Nat /\ Len(u) \in Nat
  OBVIOUS
<1>2. /\ Len(s) <= Len(t) /\ \A i \in 1..Len(s) : s[i] = t[Len(t) - Len(s) + i]
      /\ Len(t) <= Len(u) /\ \A i \in 1..Len(t) : t[i] = u[Len(u) - Len(t) + i]
  BY TailByElements
<1>3. ASSUME NEW i \in 1..Len(s) PROVE s[i] = u[Len(u) - Len(s) + i]
  <2>1. Len(t) - Len(s) + i \in 1..Len(t)
    BY <1>1, <1>2
  <2>2. Len(u) - Len(t) + (Len(t) - Len(s) + i) = Len(u) - Len(s) + i
    BY <1>1
  <2> QED
    BY <1>2, <2>1, <2>2
<1> QED
  BY <1>1, <1>2, <1>3, TailByElements

\* What comes behind the first p elements.
LEMMA TailFrom ==
    ASSUME NEW T, NEW t \in Seq(T), NEW p \in 0..Len(t)
    PROVE  LET s == SubSeq(t, p + 1, Len(t))
           IN  /\ s \in Seq(T) /\ Len(s) = Len(t) - p /\ IsTail(s, t)
               /\ \A i \in 1..(Len(t) - p) : s[i] = t[p + i]
<1> DEFINE s == SubSeq(t, p + 1, Len(t))
<1>1. Len(t) \in Nat /\ \A i \in (p + 1)..Len(t) : t[i] \in T
  BY ElementOfSeq
<1>2. /\ s \in Seq(T) /\ Len(s) = IF p + 1 <= Len(t) THEN Len(t) - (p + 1) + 1 ELSE 0
      /\ \A i \in 1..(Len(t) - (p + 1) + 1) : s[i] = t[p + 1 + i - 1]
  BY <1>1, SubSeqProperties
<1> HIDE DEF s
<1>3. Len(s) = Len(t) - p
  BY <1>1, <1>2
<1>4. ASSUME NEW i \in 1..(Len(t) - p) PROVE s[i] = t[p + i]
  <2>1. i \in 1..(Len(t) - (p + 1) + 1) /\ p + 1 + i - 1 = p + i
    BY <1>1
  <2>2. s[i] = t[p + 1 + i - 1]
    BY <1>2, <2>1
  <2> QED
    BY <2>1, <2>2
<1>5. ASSUME NEW i \in 1..Len(s) PROVE s[i] = t[Len(t) - Len(s) + i]
  <2>1. Len(t) - Len(s) + i = p + i
    BY <1>1, <1>3
  <2> QED
    BY <1>3, <1>4, <2>1
<1>6. Len(s) <= Len(t)
  BY <1>1, <1>3
<1>7. IsTail(s, t)
  BY <1>2, <1>5, <1>6, TailByElements
<1> QED
  BY <1>2, <1>3, <1>4, <1>7 DEF s

\* What is appended to a sequence is appended to its tails.
LEMMA TailAppended ==
    ASSUME NEW T, NEW s \in Seq(T), NEW t \in Seq(T), NEW u \in Seq(T), IsTail(s, t)
    PROVE  IsTail(s \o u, t \o u)
<1>1. Len(s) \in Nat /\ Len(t) \in Nat /\ Len(u) \in Nat
  OBVIOUS
<1>2. Len(s) <= Len(t) /\ \A i \in 1..Len(s) : s[i] = t[Len(t) - Len(s) + i]
  BY TailByElements
<1> DEFINE su == s \o u
           tu == t \o u
<1>3. /\ su \in Seq(T) /\ Len(su) = Len(s) + Len(u)
      /\ \A i \in 1..(Len(s) + Len(u)) : su[i] = IF i <= Len(s) THEN s[i] ELSE u[i - Len(s)]
  BY ConcatProperties
<1>4. /\ tu \in Seq(T) /\ Len(tu) = Len(t) + Len(u)
      /\ \A i \in 1..(Len(t) + Len(u)) : tu[i] = IF i <= Len(t) THEN t[i] ELSE u[i - Len(t)]
  BY ConcatProperties
<1> HIDE DEF su, tu
<1>5. ASSUME NEW i \in 1..Len(su) PROVE su[i] = tu[Len(tu) - Len(su) + i]
  <2>1. Len(tu) - Len(su) + i = Len(t) - Len(s) + i /\ Len(t) - Len(s) + i \in 1..(Len(t) + Len(u))
    BY <1>1, <1>2, <1>3, <1>4
  <2> PICK j : j = Len(t) - Len(s) + i
    OBVIOUS
  <2>2. CASE i <= Len(s)
    <3>1. i \in 1..Len(s) /\ i \in 1..(Len(s) + Len(u)) /\ j <= Len(t)
      BY <1>1, <2>2
    <3>2. su[i] = s[i] /\ s[i] = t[j]
      BY <1>2, <1>3, <2>2, <3>1
    <3>3. tu[j] = t[j]
      BY <1>4, <2>1, <3>1
    <3> QED
      BY <2>1, <3>2, <3>3
  <2>3. CASE i > Len(s)
    <3>1. i \in 1..(Len(s) + Len(u)) /\ j - Len(t) = i - Len(s) /\ ~(j <= Len(t)) /\ ~(i <= Len(s))
      BY <1>1, <1>3, <2>3
    <3>2. su[i] = u[i - Len(s)]
      BY <1>3, <3>1
    <3>3. tu[j] = u[j - Len(t)]
      BY <1>4, <2>1, <3>1
    <3> QED
      BY <2>1, <3>1, <3>2, <3>3
  <2> QED
    BY <1>1, <1>3, <2>2, <2>3
<1>6. Len(su) <= Len(tu)
  BY <1>1, <1>2, <1>3, <1>4
<1> QED
  BY <1>3, <1>4, <1>5, <1>6, TailByElements DEF su, tu

LEMMA SecondIsTail ==
    ASSUME NEW T, NEW s \in Seq(T), NEW u \in Seq(T)
    PROVE  IsTail(u, s \o u)
<1> DEFINE su == s \o u
<1>1. /\ su \in Seq(T) /\ Len(su) = Len(s) + Len(u) /\ Len(s) \in Nat /\ Len(u) \in Nat
      /\ \A i \in 1..(Len(s) + Len(u)) : su[i] = IF i <= Len(s) THEN s[i] ELSE u[i - Len(s)]
  BY ConcatProperties
<1> HIDE DEF su
<1>2. ASSUME NEW i \in 1..Len(u) PROVE u[i] = su[Len(su) - Len(u) + i]
  <2>1. /\ Len(su) - Len(u) + i = Len(s) + i /\ Len(s) + i \in 1..(Len(s) + Len(u))
        /\ ~(Len(s) + i <= Len(s)) /\ (Len(s) + i) - Len(s) = i
    BY <1>1
  <2> QED
    BY <1>1, <2>1
<1>3. Len(u) <= Len(su)
  BY <1>1
<1> QED
  BY <1>1, <1>2, <1>3, TailByElements DEF su

\* Tails of the same length are the same tail.
LEMMA SameTail ==
    ASSUME NEW s, NEW t, NEW u, IsTail(s, u), IsTail(t, u), Len(s) = Len(t)
    PROVE  s = t
BY DEF IsTail

----------------------------------------------------------------------------
(* findMagic *)

\* MAGIC stands behind the first p tokens.
MagicAt(data, p) == SubSeq(data, p + 1, p + Len(Magic)) = Magic

LEMMA MagicShift ==
    ASSUME NEW T, NEW a \in Seq(T), NEW b \in Seq(T), NEW p \in Nat, NEW q \in Nat,
           p + Len(Magic) <= Len(a), q + Len(Magic) <= Len(b),
           Agree(a, p, b, q, Len(Magic))
    PROVE  MagicAt(a, p) <=> MagicAt(b, q)
<1>1. Len(Magic) \in Nat
  BY RBufferAssumption
<1>2. SubSeq(a, p + 1, p + Len(Magic)) = SubSeq(b, q + 1, q + Len(Magic))
  BY <1>1, SameStretch
<1> QED
  BY <1>2 DEF MagicAt

LEMMA FindMagicFinds ==
    ASSUME NEW T, NEW data \in Seq(T), NEW skip \in Nat
    PROVE  \/ /\ FindMagic(data, skip) = -1
              /\ \A p \in skip..(Len(data) - Len(Magic)) : ~MagicAt(data, p)
           \/ /\ FindMagic(data, skip) \in skip..(Len(data) - Len(Magic))
              /\ MagicAt(data, FindMagic(data, skip))
              /\ \A p \in skip..(Len(data) - Len(Magic)) :
                    MagicAt(data, p) => FindMagic(data, skip) <= p
<1> DEFINE found == {p \in skip..(Len(data) - Len(Magic)) : MagicAt(data, p)}
<1>1. FindMagic(data, skip) = IF found = {} THEN -1
                              ELSE CHOOSE p \in found : \A q \in found : p <= q
  BY DEF FindMagic, MagicAt
<1>2. CASE found = {}
  BY <1>1, <1>2
<1>3. CASE found # {}
  <2>1. found \subseteq Nat
    OBVIOUS
  <2>2. \E p \in found : \A q \in found : p <= q
    <3> DEFINE Less == {p \in Nat \X Nat : p[1] < p[2]}
    <3>1. IsWellFoundedOn(Less, Nat)
      BY NatLessThanWellFounded DEF OpToRel
    <3> HIDE DEF Less, found
    <3>2. PICK k \in found : \A j \in found : <<j, k>> \notin Less
      BY <1>3, <2>1, <3>1, WFMin
    <3>3. ASSUME NEW j \in found PROVE k <= j
      <4>1. j \in Nat /\ k \in Nat
        BY <2>1
      <4>2. j < k => <<j, k>> \in Less
        BY <4>1 DEF Less
      <4> QED
        BY <3>2, <4>1, <4>2
    <3> QED
      BY <3>3
  <2>3. FindMagic(data, skip) \in found /\ \A q \in found : FindMagic(data, skip) <= q
    <3> HIDE DEF found
    <3> QED
      BY <1>1, <1>3, <2>2
  <2> QED
    BY <2>3
<1> QED
  BY <1>2, <1>3

\* findMagic returns the place of an occurrence that has none before it.
LEMMA FindMagicIs ==
    ASSUME NEW T, NEW data \in Seq(T), NEW skip \in Nat,
           NEW p \in skip..(Len(data) - Len(Magic)), MagicAt(data, p),
           \A q \in skip..(Len(data) - Len(Magic)) : q < p => ~MagicAt(data, q)
    PROVE  FindMagic(data, skip) = p
<1> PICK f : f = FindMagic(data, skip)
  OBVIOUS
<1>1. f \in skip..(Len(data) - Len(Magic)) /\ MagicAt(data, f) /\ f <= p
  BY FindMagicFinds
<1>2. ~(f < p)
  BY <1>1
<1>3. f \in Int /\ p \in Int
  BY <1>1
<1> QED
  BY <1>1, <1>2, <1>3

LEMMA FindMagicNone ==
    ASSUME NEW T, NEW data \in Seq(T), NEW skip \in Nat,
           \A q \in skip..(Len(data) - Len(Magic)) : ~MagicAt(data, q)
    PROVE  FindMagic(data, skip) = -1
BY FindMagicFinds

LEMMA MagicInFront ==
    ASSUME NEW T, NEW data \in Seq(T)
    PROVE  FindMagic(data, 0) = 0 <=> Len(Magic) <= Len(data) /\ MagicAt(data, 0)
<1>1. Len(data) \in Nat /\ Len(Magic) \in Nat
  BY RBufferAssumption
<1>2. ASSUME Len(Magic) <= Len(data), MagicAt(data, 0) PROVE FindMagic(data, 0) = 0
  <2>1. 0 \in 0..(Len(data) - Len(Magic)) /\ \A q \in 0..(Len(data) - Len(Magic)) : ~(q < 0)
    BY <1>1, <1>2
  <2> QED
    BY <1>2, <2>1, FindMagicIs
<1>3. ASSUME FindMagic(data, 0) = 0 PROVE Len(Magic) <= Len(data) /\ MagicAt(data, 0)
  <2>1. 0 \in 0..(Len(data) - Len(Magic)) /\ MagicAt(data, 0)
    BY <1>3, FindMagicFinds
  <2> QED
    BY <1>1, <2>1
<1> QED
  BY <1>2, <1>3

\* In a sequence's beginning MAGIC stands where it stands in the sequence.
LEMMA OccursInPrefix ==
    ASSUME NEW T, NEW part \in Seq(T), NEW all \in Seq(T), Len(part) <= Len(all),
           Agree(part, 0, all, 0, Len(part)), NEW q \in Nat, q + Len(Magic) <= Len(part)
    PROVE  MagicAt(part, q) <=> MagicAt(all, q)
<1>1. Len(part) \in Nat /\ Len(all) \in Nat /\ Len(Magic) \in Nat
  BY RBufferAssumption
<1>2. ASSUME NEW j \in 1..Len(Magic) PROVE part[q + j] = all[q + j]
  <2> PICK i : i = q + j
    OBVIOUS
  <2>1. i \in 1..Len(part) /\ 0 + i = i
    BY <1>1
  <2>2. part[i] = all[i]
    BY <2>1 DEF Agree
  <2> QED
    BY <2>2
<1>3. Agree(part, q, all, q, Len(Magic))
  BY <1>2 DEF Agree
<1>4. q + Len(Magic) <= Len(all)
  BY <1>1
<1> QED
  BY <1>3, <1>4, MagicShift

\* ... and in a tail, as far behind what is cut off.
LEMMA OccursInTail ==
    ASSUME NEW T, NEW part \in Seq(T), NEW all \in Seq(T), IsTail(part, all),
           NEW q \in Nat, q + Len(Magic) <= Len(part)
    PROVE  MagicAt(part, q) <=> MagicAt(all, Len(all) - Len(part) + q)
<1>1. Len(part) \in Nat /\ Len(all) \in Nat /\ Len(Magic) \in Nat
  BY RBufferAssumption
<1> PICK base : base = Len(all) - Len(part)
  OBVIOUS
<1>2. /\ base \in Nat /\ base + q \in Nat
      /\ \A i \in 1..Len(part) : part[i] = all[base + i]
  BY <1>1, TailByElements
<1>3. ASSUME NEW j \in 1..Len(Magic) PROVE part[q + j] = all[(base + q) + j]
  <2> PICK i : i = q + j
    OBVIOUS
  <2>1. i \in 1..Len(part) /\ base + i = (base + q) + j
    BY <1>1, <1>2
  <2>2. part[i] = all[base + i]
    BY <1>2, <2>1
  <2> QED
    BY <2>1, <2>2
<1>4. Agree(part, q, all, base + q, Len(Magic))
  BY <1>3 DEF Agree
<1>5. (base + q) + Len(Magic) <= Len(all)
  BY <1>1, <1>2
<1> QED
  BY <1>2, <1>4, <1>5, MagicShift

LEMMA FindInPrefix ==
    ASSUME NEW T, NEW part \in Seq(T), NEW all \in Seq(T), Len(part) <= Len(all),
           Agree(part, 0, all, 0, Len(part)), NEW skip \in Nat, FindMagic(part, skip) >= 0
    PROVE  FindMagic(all, skip) = FindMagic(part, skip)
<1>1. Len(part) \in Nat /\ Len(all) \in Nat /\ Len(Magic) \in Nat
  BY RBufferAssumption
<1> PICK p : p = FindMagic(part, skip)
  OBVIOUS
<1>2. /\ p \in skip..(Len(part) - Len(Magic)) /\ MagicAt(part, p)
      /\ \A q \in skip..(Len(part) - Len(Magic)) : MagicAt(part, q) => p <= q
  BY FindMagicFinds
<1>3. p \in skip..(Len(all) - Len(Magic)) /\ p \in Nat /\ p + Len(Magic) <= Len(part)
  BY <1>1, <1>2
<1>4. MagicAt(all, p)
  BY <1>2, <1>3, OccursInPrefix
<1>5. ASSUME NEW q \in skip..(Len(all) - Len(Magic)), q < p, MagicAt(all, q) PROVE FALSE
  <2>1. q \in Nat /\ q + Len(Magic) <= Len(part) /\ q \in skip..(Len(part) - Len(Magic))
    BY <1>1, <1>2, <1>5
  <2>2. MagicAt(part, q)
    BY <1>5, <2>1, OccursInPrefix
  <2> QED
    BY <1>2, <1>5, <2>1, <2>2
<1> QED
  BY <1>3, <1>4, <1>5, FindMagicIs

\* A place in a tail, and the same place in the whole.
LEMMA PlaceInAll ==
    ASSUME NEW x \in Nat, NEW y \in Nat, NEW n \in Nat, NEW b \in Nat, b = y - x, NEW p \in 0..(x - n)
    PROVE  b + p \in 0..(y - n) /\ b + p >= b /\ b + p - b = p
OBVIOUS

LEMMA PlaceInTail ==
    ASSUME NEW x \in Nat, NEW y \in Nat, NEW b, b = y - x, NEW p \in Int
    PROVE  y - (b + p) = x - p
OBVIOUS

\* Where MAGIC does not begin in front of a tail, it is sought in the tail.
LEMMA FindInTail ==
    ASSUME NEW T, NEW part \in Seq(T), NEW all \in Seq(T), IsTail(part, all),
           NEW base \in Nat, base = Len(all) - Len(part),
           \A q \in 0..(Len(all) - Len(Magic)) : q < base => ~MagicAt(all, q)
    PROVE  FindMagic(all, 0) = IF FindMagic(part, 0) >= 0 THEN base + FindMagic(part, 0) ELSE -1
<1>1. Len(part) \in Nat /\ Len(all) \in Nat /\ Len(Magic) \in Nat
  BY RBufferAssumption
<1>2. ASSUME NEW q \in 0..(Len(all) - Len(Magic)), q >= base
      PROVE  /\ q - base \in 0..(Len(part) - Len(Magic))
             /\ MagicAt(part, q - base) <=> MagicAt(all, q)
  <2> PICK i : i = q - base
    OBVIOUS
  <2>1. i \in Nat /\ i + Len(Magic) <= Len(part) /\ Len(all) - Len(part) + i = q
    BY <1>1, <1>2
  <2>2. MagicAt(part, i) <=> MagicAt(all, q)
    BY <2>1, OccursInTail
  <2>3. i \in 0..(Len(part) - Len(Magic))
    BY <1>1, <2>1
  <2> QED
    BY <2>2, <2>3
<1>3. CASE FindMagic(part, 0) >= 0
  <2> PICK p : p = FindMagic(part, 0)
    OBVIOUS
  <2>1. /\ p \in 0..(Len(part) - Len(Magic)) /\ MagicAt(part, p)
        /\ \A q \in 0..(Len(part) - Len(Magic)) : MagicAt(part, q) => p <= q
    BY <1>3, FindMagicFinds
  <2> DEFINE at == base + p
  <2>2. at = base + p /\ at \in 0..(Len(all) - Len(Magic)) /\ at >= base /\ at - base = p
    BY <1>1, <2>1, PlaceInAll
  <2> HIDE DEF at
  <2>3. MagicAt(all, at)
    <3>1. MagicAt(part, at - base) <=> MagicAt(all, at)
      BY <1>2, <2>2, Zenon
    <3>2. MagicAt(part, at - base)
      BY <2>1, <2>2, Zenon
    <3> QED
      BY <3>1, <3>2
  <2>4. ASSUME NEW q \in 0..(Len(all) - Len(Magic)), q < at, MagicAt(all, q) PROVE FALSE
    <3>1. q >= base
      BY <2>4
    <3>2. q - base \in 0..(Len(part) - Len(Magic)) /\ MagicAt(part, q - base)
      BY <1>2, <2>4, <3>1
    <3>3. p <= q - base
      BY <2>1, <3>2
    <3> QED
      BY <2>1, <2>2, <2>4, <3>3
  <2>5. FindMagic(all, 0) = at
    BY <2>2, <2>3, <2>4, FindMagicIs
  <2> QED
    BY <1>3, <2>2, <2>5
<1>4. CASE ~(FindMagic(part, 0) >= 0)
  <2>1. \A q \in 0..(Len(part) - Len(Magic)) : ~MagicAt(part, q)
    BY <1>1, <1>4, FindMagicFinds
  <2>2. ASSUME NEW q \in 0..(Len(all) - Len(Magic)), MagicAt(all, q) PROVE FALSE
    <3>1. q >= base
      BY <2>2
    <3> QED
      BY <1>2, <2>1, <2>2, <3>1
  <2> QED
    BY <1>4, <2>2, FindMagicNone
<1> QED
  BY <1>3, <1>4

----------------------------------------------------------------------------
(* detectMagic *)

\* What a search of all bytes leaves: MAGIC and what is behind it, or the bytes that
\* the start of one may be in.
Sought(all) ==
    IF FindMagic(all, 0) >= 0 THEN SubSeq(all, FindMagic(all, 0) + 1, Len(all))
    ELSE IF Len(all) < Len(Magic) THEN all
    ELSE SubSeq(all, Len(all) - Keep + 1, Len(all))

LEMMA SoughtIs ==
    ASSUME NEW T, NEW all \in Seq(T)
    PROVE  /\ Sought(all) \in Seq(T) /\ IsTail(Sought(all), all)
           /\ FindMagic(all, 0) >= 0 =>
                 Len(Sought(all)) = Len(all) - FindMagic(all, 0) /\ FindMagic(Sought(all), 0) = 0
           /\ ~(FindMagic(all, 0) >= 0) =>
                 Len(Sought(all)) = IF Len(all) < Len(Magic) THEN Len(all) ELSE Keep
<1>1. Len(all) \in Nat /\ Len(Magic) \in Nat \ {0} /\ Keep = Len(Magic) - 1
  BY RBufferAssumption DEF Keep
<1>2. CASE FindMagic(all, 0) >= 0
  <2> PICK p : p = FindMagic(all, 0)
    OBVIOUS
  <2>1. p \in 0..(Len(all) - Len(Magic)) /\ MagicAt(all, p)
    BY <1>2, FindMagicFinds
  <2>2. p \in 0..Len(all) /\ p >= 0
    BY <1>1, <2>1
  <2> DEFINE s == SubSeq(all, p + 1, Len(all))
  <2>3. s \in Seq(T) /\ Len(s) = Len(all) - p /\ IsTail(s, all)
    BY <2>2, TailFrom
  <2>4. s = Sought(all)
    BY <1>2 DEF Sought
  <2> HIDE DEF s
  <2>5. 0 + Len(Magic) <= Len(s) /\ Len(all) - Len(s) + 0 = p /\ Len(Magic) <= Len(s)
    BY <1>1, <2>1, <2>3
  <2>6. MagicAt(s, 0)
    BY <2>1, <2>3, <2>5, OccursInTail
  <2>7. FindMagic(s, 0) = 0
    BY <2>3, <2>5, <2>6, MagicInFront
  <2> QED
    BY <1>2, <2>3, <2>4, <2>7
<1>3. CASE ~(FindMagic(all, 0) >= 0) /\ Len(all) < Len(Magic)
  BY <1>3, TailOfItself DEF Sought
<1>4. CASE ~(FindMagic(all, 0) >= 0) /\ ~(Len(all) < Len(Magic))
  <2> PICK p : p = Len(all) - Keep
    OBVIOUS
  <2>1. p \in 0..Len(all) /\ Len(all) - p = Keep
    BY <1>1, <1>4
  <2> DEFINE s == SubSeq(all, p + 1, Len(all))
  <2>2. s \in Seq(T) /\ Len(s) = Len(all) - p /\ IsTail(s, all)
    BY <2>1, TailFrom
  <2>3. s = Sought(all)
    BY <1>4 DEF Sought
  <2> HIDE DEF s
  <2> QED
    BY <1>4, <2>1, <2>2, <2>3
<1> QED
  BY <1>2, <1>3, <1>4

\* Of what is too short for a MAGIC, or holds none, enough is left to find the next.
LEMMA SoughtInTail ==
    ASSUME NEW T, NEW part \in Seq(T), NEW all \in Seq(T), IsTail(part, all),
           Len(part) >= Keep,
           \A q \in 0..(Len(all) - Len(Magic)) : q < Len(all) - Len(part) => ~MagicAt(all, q)
    PROVE  Sought(part) = Sought(all)
<1>1. Len(all) \in Nat /\ Len(part) \in Nat /\ Len(Magic) \in Nat \ {0} /\ Keep = Len(Magic) - 1
  BY RBufferAssumption DEF Keep
<1>2. Len(part) <= Len(all)
  BY DEF IsTail
<1> PICK base : base = Len(all) - Len(part)
  OBVIOUS
<1> PICK at : at = FindMagic(part, 0)
  OBVIOUS
<1>3. base \in Nat /\ base = Len(all) - Len(part)
  BY <1>1, <1>2
<1>4. \A q \in 0..(Len(all) - Len(Magic)) : q < base => ~MagicAt(all, q)
  OBVIOUS
<1>5. FindMagic(all, 0) = IF at >= 0 THEN base + at ELSE -1
  BY <1>3, <1>4, FindInTail
<1>6. at \in Int
  BY FindMagicFinds
<1>7. /\ Sought(part) \in Seq(T) /\ IsTail(Sought(part), part)
      /\ at >= 0 => Len(Sought(part)) = Len(part) - at
      /\ ~(at >= 0) => Len(Sought(part)) = IF Len(part) < Len(Magic) THEN Len(part) ELSE Keep
  BY SoughtIs
<1>8. /\ Sought(all) \in Seq(T) /\ IsTail(Sought(all), all)
      /\ FindMagic(all, 0) >= 0 => Len(Sought(all)) = Len(all) - FindMagic(all, 0)
      /\ ~(FindMagic(all, 0) >= 0) =>
            Len(Sought(all)) = IF Len(all) < Len(Magic) THEN Len(all) ELSE Keep
  BY SoughtIs
<1>9. Len(Sought(part)) = Len(Sought(all))
  <2>1. CASE at >= 0
    <3>1. FindMagic(all, 0) = base + at /\ base + at >= 0
      BY <1>3, <1>5, <1>6, <2>1
    <3>2. Len(Sought(all)) = Len(all) - (base + at) /\ Len(Sought(part)) = Len(part) - at
      BY <1>7, <1>8, <2>1, <3>1
    <3>3. Len(all) \in Nat /\ Len(part) \in Nat
      BY <1>1
    <3>4. Len(all) - (base + at) = Len(part) - at
      BY <1>3, <1>6, <3>3, PlaceInTail
    <3> QED
      BY <3>2, <3>4
  <2>2. CASE ~(at >= 0)
    <3>1. ~(FindMagic(all, 0) >= 0)
      BY <1>5, <2>2
    <3>2. /\ Len(Sought(part)) = IF Len(part) < Len(Magic) THEN Len(part) ELSE Keep
          /\ Len(Sought(all)) = IF Len(all) < Len(Magic) THEN Len(all) ELSE Keep
      BY <1>7, <1>8, <2>2, <3>1
    <3> QED
      BY <1>1, <1>2, <3>2
  <2> QED
    BY <2>1, <2>2
<1>10. IsTail(Sought(part), all)
  BY <1>7, TailOfTail
<1> QED
  BY <1>8, <1>9, <1>10, SameTail

LEMMA EndIsTail ==
    ASSUME NEW T, NEW s \in Seq(T), NEW k \in Nat, k <= Len(s)
    PROVE  /\ MoveFront(s, Len(s) - k, k) \in Seq(T)
           /\ Len(MoveFront(s, Len(s) - k, k)) = k
           /\ IsTail(MoveFront(s, Len(s) - k, k), s)
           /\ MoveFront(s, Len(s) - k, k) = SubSeq(s, Len(s) - k + 1, Len(s))
<1> PICK p : p = Len(s) - k
  OBVIOUS
<1>1. p \in 0..Len(s) /\ Len(s) - p = k /\ p + k = Len(s)
  OBVIOUS
<1>2. /\ SubSeq(s, p + 1, Len(s)) \in Seq(T) /\ Len(SubSeq(s, p + 1, Len(s))) = Len(s) - p
      /\ IsTail(SubSeq(s, p + 1, Len(s)), s)
  BY <1>1, TailFrom
<1> QED
  BY <1>1, <1>2 DEF MoveFront

\* detectMagic over the bytes that are cached and the new ones, without joining them
\* (tssd.cc:467), is the search of all of them: no MAGIC that straddles the two is
\* missed, none is found that is not there, and the first one is taken.
LEMMA DetectAcrossSearches ==
    ASSUME NEW T, NEW pre \in Seq(T), NEW data \in Seq(T)
    PROVE  DetectAcross(pre, data) = Sought(pre \o data)
<1> DEFINE all  == pre \o data
           cp   == IF Len(data) < Keep THEN Len(data) ELSE Keep
           head == SubSeq(data, 1, cp)
           seam == pre \o head
           at   == FindMagic(seam, 0)
           pos  == FindMagic(data, 0)
<1>1. Len(pre) \in Nat /\ Len(data) \in Nat /\ Len(Magic) \in Nat \ {0} /\ Keep = Len(Magic) - 1
  BY RBufferAssumption DEF Keep
<1>2. cp \in 0..Len(data) /\ cp <= Keep /\ (cp = Keep \/ cp = Len(data))
  BY <1>1
<1>3. /\ all \in Seq(T) /\ Len(all) = Len(pre) + Len(data)
      /\ \A i \in 1..(Len(pre) + Len(data)) : all[i] = IF i <= Len(pre) THEN pre[i] ELSE data[i - Len(pre)]
  BY ConcatProperties
<1>4. head \in Seq(T) /\ Len(head) = cp /\ \A i \in 1..cp : head[i] = data[i]
  <2> HIDE DEF cp
  <2>1. \A i \in 1..cp : data[i] \in T
    <3> SUFFICES ASSUME NEW i \in 1..cp PROVE data[i] \in T
      OBVIOUS
    <3>1. i \in 1..Len(data)
      BY <1>1, <1>2
    <3> QED
      BY <3>1, ElementOfSeq
  <2>2. /\ head \in Seq(T) /\ Len(head) = IF 1 <= cp THEN cp - 1 + 1 ELSE 0
        /\ \A i \in 1..(cp - 1 + 1) : head[i] = data[1 + i - 1]
    BY <1>2, <2>1, SubSeqProperties
  <2> HIDE DEF head
  <2>3. Len(head) = cp
    BY <1>2, <2>2
  <2>4. ASSUME NEW i \in 1..cp PROVE head[i] = data[i]
    <3>1. i \in 1..(cp - 1 + 1) /\ 1 + i - 1 = i
      BY <1>2
    <3>2. head[i] = data[1 + i - 1]
      BY <2>2, <3>1
    <3> QED
      BY <3>1, <3>2
  <2> QED
    BY <2>2, <2>3, <2>4
<1> HIDE DEF cp, head
<1>5. /\ seam \in Seq(T) /\ Len(seam) = Len(pre) + cp
      /\ \A i \in 1..(Len(pre) + cp) : seam[i] = IF i <= Len(pre) THEN pre[i] ELSE head[i - Len(pre)]
  BY <1>4, ConcatProperties
<1> HIDE DEF all, seam
<1>6. Len(seam) <= Len(all) /\ Agree(seam, 0, all, 0, Len(seam))
  <2>1. ASSUME NEW i \in 1..Len(seam) PROVE seam[0 + i] = all[0 + i]
    <3>1. i \in 1..(Len(pre) + cp) /\ i \in 1..(Len(pre) + Len(data)) /\ 0 + i = i
      BY <1>1, <1>2, <1>5
    <3>2. CASE i <= Len(pre)
      BY <1>3, <1>5, <3>1, <3>2
    <3>3. CASE ~(i <= Len(pre))
      <4>1. i - Len(pre) \in 1..cp
        BY <1>1, <1>2, <3>1, <3>3
      <4>2. seam[i] = head[i - Len(pre)] /\ all[i] = data[i - Len(pre)]
        BY <1>3, <1>5, <3>1, <3>3
      <4> QED
        BY <1>4, <3>1, <4>1, <4>2
    <3> QED
      BY <3>2, <3>3
  <2> QED
    BY <1>1, <1>2, <1>3, <1>5, <2>1 DEF Agree
<1>7. IsTail(data, all)
  BY SecondIsTail DEF all
<1>8. CASE Len(pre) + Len(data) < Len(Magic)
  <2>1. \A q \in 0..(Len(all) - Len(Magic)) : ~MagicAt(all, q)
    BY <1>1, <1>3, <1>8
  <2>2. FindMagic(all, 0) = -1
    BY <1>3, <2>1, FindMagicNone
  <2>3. Sought(all) = all
    BY <1>3, <1>8, <2>2 DEF Sought
  <2> QED
    BY <1>8, <2>3 DEF DetectAcross, all
<1>9. CASE ~(Len(pre) + Len(data) < Len(Magic)) /\ at >= 0
  <2> PICK p : p = at
    OBVIOUS
  <2>1. FindMagic(all, 0) = p
    BY <1>3, <1>5, <1>6, <1>9, FindInPrefix
  <2>2. p \in 0..(Len(seam) - Len(Magic))
    BY <1>5, <1>9, FindMagicFinds
  <2>3. p \in 0..Len(pre) /\ p >= 0 /\ p + (Len(pre) - p) = Len(pre)
    BY <1>1, <1>2, <1>5, <2>2
  <2> DEFINE front == SubSeq(pre, p + 1, Len(pre))
  <2>4. front \in Seq(T) /\ Len(front) = Len(pre) - p /\ IsTail(front, pre)
    BY <2>3, TailFrom
  <2>5. DetectAcross(pre, data) = front \o data
    BY <1>9, <2>3 DEF DetectAcross, MoveFront, seam, head, cp
  <2> HIDE DEF front
  <2>6. IsTail(front \o data, all) /\ Len(front \o data) = Len(pre) - p + Len(data)
    BY <2>4, TailAppended, ConcatProperties DEF all
  <2>7. IsTail(Sought(all), all) /\ Len(Sought(all)) = Len(all) - p
    BY <1>3, <2>1, <2>3, SoughtIs
  <2>8. Len(front \o data) = Len(Sought(all))
    BY <1>1, <1>3, <2>3, <2>6, <2>7
  <2> QED
    BY <2>5, <2>6, <2>7, <2>8, SameTail DEF all
\* Nothing begins in pre: MAGIC would end in what seam holds of data.
<1>10. ASSUME ~(at >= 0), NEW q \in 0..(Len(all) - Len(Magic)), q < Len(pre), MagicAt(all, q)
       PROVE  FALSE
  <2>1. q \in Nat /\ q + Len(Magic) <= Len(seam) /\ q \in 0..(Len(seam) - Len(Magic))
    BY <1>1, <1>2, <1>3, <1>5, <1>10
  <2>2. MagicAt(seam, q)
    BY <1>3, <1>5, <1>6, <1>10, <2>1, OccursInPrefix
  <2> QED
    BY <1>5, <1>10, <2>1, <2>2, FindMagicFinds
<1>11. CASE ~(Len(pre) + Len(data) < Len(Magic)) /\ ~(at >= 0)
  <2>1. FindMagic(all, 0) = IF pos >= 0 THEN Len(pre) + pos ELSE -1
    <3>1. Len(pre) = Len(all) - Len(data)
      BY <1>1, <1>3
    <3>2. \A q \in 0..(Len(all) - Len(Magic)) : q < Len(pre) => ~MagicAt(all, q)
      BY <1>10, <1>11
    <3> QED
      BY <1>1, <1>3, <1>7, <3>1, <3>2, FindInTail
  <2>2. CASE pos >= 0
    <3> PICK p : p = pos
      OBVIOUS
    <3>1. p \in 0..(Len(data) - Len(Magic))
      BY <2>2, FindMagicFinds
    <3>2. p \in 0..Len(data)
      BY <1>1, <3>1
    <3> DEFINE rest == SubSeq(data, p + 1, Len(data))
    <3>3. rest \in Seq(T) /\ Len(rest) = Len(data) - p /\ IsTail(rest, data)
      BY <3>2, TailFrom
    <3>4. DetectAcross(pre, data) = rest
      BY <1>11, <2>2 DEF DetectAcross, seam, head, cp
    <3> HIDE DEF rest
    <3>5. IsTail(rest, all)
      BY <1>3, <1>7, <3>3, TailOfTail
    <3>6. FindMagic(all, 0) = Len(pre) + p /\ FindMagic(all, 0) >= 0
      BY <1>1, <2>1, <2>2, <3>2
    <3>7. IsTail(Sought(all), all) /\ Len(Sought(all)) = Len(all) - (Len(pre) + p)
      BY <1>3, <3>6, SoughtIs
    <3>8. Len(rest) = Len(Sought(all))
      BY <1>1, <1>3, <3>2, <3>3, <3>7
    <3> QED
      BY <3>4, <3>5, <3>7, <3>8, SameTail DEF all
  <2>3. CASE ~(pos >= 0)
    <3> DEFINE left == MoveFront(pre, Len(pre) - (Keep - cp), Keep - cp)
               rest == SubSeq(data, Len(data) - cp + 1, Len(data))
    <3>1. DetectAcross(pre, data) = left \o rest
      BY <1>11, <2>3 DEF DetectAcross, seam, head, cp
    <3>2. Keep - cp \in Nat /\ Keep - cp <= Len(pre) /\ cp \in Nat /\ cp <= Len(data)
      BY <1>1, <1>2, <1>11
    <3>3. left \in Seq(T) /\ Len(left) = Keep - cp /\ IsTail(left, pre)
      BY <3>2, EndIsTail
    <3>4. rest \in Seq(T) /\ Len(rest) = cp /\ IsTail(rest, data)
      <4>1. rest = MoveFront(data, Len(data) - cp, cp)
        BY <3>2, EndIsTail
      <4> HIDE DEF rest
      <4> QED
        BY <3>2, <4>1, EndIsTail
    <3> HIDE DEF left, rest
    <3>5. left \o rest \in Seq(T) /\ Len(left \o rest) = Keep
      <4>1. left \o rest \in Seq(T) /\ Len(left \o rest) = Len(left) + Len(rest)
        BY <3>3, <3>4, ConcatProperties
      <4> QED
        BY <1>1, <3>2, <3>3, <3>4, <4>1
    <3>6. IsTail(left \o rest, all)
      <4>1. CASE cp = Len(data)
        <5>1. rest = data
          BY <1>1, <3>4, <4>1, TailOfItself, SameTail
        <5> QED
          BY <3>3, <5>1, TailAppended DEF all
      <4>2. CASE cp = Keep
        <5>1. Len(left) = 0
          BY <1>1, <3>3, <4>2
        <5>2. left = <<>>
          BY <3>3, <5>1, EmptySeq
        <5>3. left \o rest = rest
          BY <3>4, <5>2, ConcatEmptySeq
        <5> QED
          BY <1>3, <1>7, <3>4, <5>3, TailOfTail
      <4> QED
        BY <1>2, <4>1, <4>2
    <3>7. IsTail(Sought(all), all) /\ Len(Sought(all)) = Keep
      <4>1. ~(FindMagic(all, 0) >= 0) /\ ~(Len(all) < Len(Magic))
        BY <1>3, <1>11, <2>1, <2>3
      <4> QED
        BY <1>3, <4>1, SoughtIs
    <3>8. Len(left \o rest) = Len(Sought(all))
      BY <3>5, <3>7
    <3> QED
      BY <3>1, <3>6, <3>7, <3>8, SameTail DEF all
  <2> QED
    BY <2>2, <2>3
<1> QED
  BY <1>8, <1>9, <1>11

\* The last Keep bytes of the cache are enough of it.
LEMMA DetectedInEnd ==
    ASSUME NEW T, NEW cache \in Seq(T), NEW data \in Seq(T), ~(Len(cache) < Len(Magic))
    PROVE  LET pre == MoveFront(cache, Len(cache) - Keep, Keep)
           IN  /\ pre \in Seq(T) /\ Len(pre) = Keep
               /\ pre \o data \in Seq(T) /\ Len(pre \o data) = Keep + Len(data)
               /\ IsTail(pre \o data, cache \o data)
               /\ DetectAcross(pre, data) = Sought(pre \o data)
<1>1. Len(cache) \in Nat /\ Len(data) \in Nat /\ Len(Magic) \in Nat \ {0} /\ Keep = Len(Magic) - 1
  BY RBufferAssumption DEF Keep
<1> DEFINE pre == MoveFront(cache, Len(cache) - Keep, Keep)
<1>2. pre \in Seq(T) /\ Len(pre) = Keep /\ IsTail(pre, cache)
  BY <1>1, EndIsTail
<1> HIDE DEF pre
<1>3. pre \o data \in Seq(T) /\ Len(pre \o data) = Keep + Len(data)
  BY <1>2, ConcatProperties
<1> QED
  BY <1>2, <1>3, TailAppended, DetectAcrossSearches DEF pre

\* detectMagic is the search of the cache and the new data, joined.
THEOREM DetectedSearches ==
    ASSUME NEW T, NEW cache \in Seq(T), NEW data \in Seq(T)
    PROVE  Detected(cache, data, 0) = Sought(cache \o data)
<1>1. Len(cache) \in Nat /\ Len(data) \in Nat /\ Len(Magic) \in Nat \ {0} /\ Keep = Len(Magic) - 1
  BY RBufferAssumption DEF Keep
<1> DEFINE all == cache \o data
<1>2. /\ all \in Seq(T) /\ Len(all) = Len(cache) + Len(data)
      /\ \A i \in 1..(Len(cache) + Len(data)) :
            all[i] = IF i <= Len(cache) THEN cache[i] ELSE data[i - Len(cache)]
  BY ConcatProperties
<1> HIDE DEF all
<1>3. Len(cache) <= Len(all) /\ Agree(cache, 0, all, 0, Len(cache))
  <2>1. ASSUME NEW i \in 1..Len(cache) PROVE cache[0 + i] = all[0 + i]
    <3>1. i \in 1..(Len(cache) + Len(data)) /\ 0 + i = i /\ i <= Len(cache)
      BY <1>1
    <3> QED
      BY <1>2, <3>1
  <2> QED
    BY <1>1, <1>2, <2>1 DEF Agree
<1>4. CASE Len(cache) < Len(Magic)
  BY <1>4, DetectAcrossSearches DEF Detected
<1>5. CASE ~(Len(cache) < Len(Magic)) /\ FindMagic(cache, 0) >= 0
  <2> PICK p : p = FindMagic(cache, 0)
    OBVIOUS
  <2>1. FindMagic(all, 0) = p
    BY <1>2, <1>3, <1>5, FindInPrefix
  <2>2. p \in 0..(Len(cache) - Len(Magic))
    BY <1>5, FindMagicFinds
  <2>3. p \in 0..Len(cache) /\ p >= 0 /\ p + (Len(cache) - p) = Len(cache)
    BY <1>1, <2>2
  <2> DEFINE front == SubSeq(cache, p + 1, Len(cache))
  <2>4. front \in Seq(T) /\ Len(front) = Len(cache) - p /\ IsTail(front, cache)
    BY <2>3, TailFrom
  <2>5. Detected(cache, data, 0) = front \o data
    BY <1>5, <2>3 DEF Detected, MoveFront
  <2> HIDE DEF front
  <2>6. IsTail(front \o data, all) /\ Len(front \o data) = Len(cache) - p + Len(data)
    BY <2>4, TailAppended, ConcatProperties DEF all
  <2>7. IsTail(Sought(all), all) /\ Len(Sought(all)) = Len(all) - p
    BY <1>2, <2>1, <2>3, SoughtIs
  <2>8. Len(front \o data) = Len(Sought(all))
    BY <1>1, <1>2, <2>3, <2>6, <2>7
  <2> QED
    BY <2>5, <2>6, <2>7, <2>8, SameTail DEF all
<1>6. CASE ~(Len(cache) < Len(Magic)) /\ ~(FindMagic(cache, 0) >= 0)
  <2> DEFINE pre  == MoveFront(cache, Len(cache) - Keep, Keep)
             part == pre \o data
  <2>1. /\ part \in Seq(T) /\ Len(part) = Keep + Len(data) /\ IsTail(part, all)
        /\ DetectAcross(pre, data) = Sought(part)
    BY <1>6, DetectedInEnd DEF all
  <2>2. Detected(cache, data, 0) = Sought(part)
    BY <1>6, <2>1 DEF Detected
  <2> HIDE DEF part
  <2>3. ASSUME NEW q \in 0..(Len(all) - Len(Magic)), q < Len(all) - Len(part), MagicAt(all, q)
        PROVE  FALSE
    <3>1. q \in Nat /\ q + Len(Magic) <= Len(cache) /\ q \in 0..(Len(cache) - Len(Magic))
      BY <1>1, <1>2, <2>1, <2>3
    <3>2. MagicAt(cache, q)
      BY <1>2, <1>3, <2>3, <3>1, OccursInPrefix
    <3> QED
      BY <1>6, <3>1, <3>2, FindMagicFinds
  <2>4. Len(part) >= Keep
    BY <1>1, <2>1
  <2>5. Sought(part) = Sought(all)
    BY <1>2, <2>1, <2>3, <2>4, SoughtInTail
  <2> QED
    BY <2>2, <2>5 DEF all
<1> QED
  BY <1>4, <1>5, <1>6

\* s is all of n tokens, or at least as many as the start of a MAGIC may have.
Enough(s, n) == Len(s) = n \/ Len(s) >= Keep

\* Wherever the search starts, it leaves an end of the bytes, with MAGIC in front or
\* too short for one, but long enough for the start of one.
LEMMA DetectedIs ==
    ASSUME NEW T, NEW cache \in Seq(T), NEW data \in Seq(T), NEW skip \in Nat
    PROVE  LET bytes == Detected(cache, data, skip)
           IN  /\ bytes \in Seq(T) /\ IsTail(bytes, cache \o data)
               /\ FindMagic(bytes, 0) = 0 \/ Len(bytes) <= Keep
               /\ Enough(bytes, Len(cache \o data))
<1>1. Len(cache) \in Nat /\ Len(data) \in Nat /\ Len(Magic) \in Nat \ {0} /\ Keep = Len(Magic) - 1
  BY RBufferAssumption DEF Keep
<1> DEFINE all == cache \o data
<1>2. all \in Seq(T) /\ Len(all) = Len(cache) + Len(data)
  BY ConcatProperties
<1>3. ASSUME NEW some \in Seq(T), IsTail(some, all), Enough(some, Len(all)),
             Detected(cache, data, skip) = Sought(some)
      PROVE  LET bytes == Detected(cache, data, skip)
             IN  /\ bytes \in Seq(T) /\ IsTail(bytes, all)
                 /\ FindMagic(bytes, 0) = 0 \/ Len(bytes) <= Keep
                 /\ Enough(bytes, Len(all))
  <2>1. /\ Sought(some) \in Seq(T) /\ IsTail(Sought(some), some)
        /\ FindMagic(some, 0) >= 0 => FindMagic(Sought(some), 0) = 0
        /\ ~(FindMagic(some, 0) >= 0) =>
              Len(Sought(some)) = IF Len(some) < Len(Magic) THEN Len(some) ELSE Keep
    BY SoughtIs
  <2>2. FindMagic(Sought(some), 0) = 0 \/ Len(Sought(some)) <= Keep
    BY <1>1, <2>1
  <2>3. IsTail(Sought(some), all)
    BY <1>2, <1>3, <2>1, TailOfTail
  <2>4. Enough(Sought(some), Len(all))
    <3> PICK k, l : k = Len(some) /\ l = Len(Sought(some))
      OBVIOUS
    <3>1. k \in Nat /\ (k = Len(all) \/ k >= Keep)
      BY <1>3 DEF Enough
    <3>2. CASE FindMagic(some, 0) >= 0
      <4>1. l >= Len(Magic)
        BY <2>1, <3>2, MagicInFront
      <4>2. l \in Nat
        BY <2>1
      <4> QED
        BY <1>1, <4>1, <4>2 DEF Enough
    <3>3. CASE ~(FindMagic(some, 0) >= 0)
      <4>1. l = IF k < Len(Magic) THEN k ELSE Keep
        BY <2>1, <3>3
      <4> QED
        BY <1>1, <3>1, <4>1 DEF Enough
    <3> QED
      BY <3>2, <3>3
  <2> QED
    BY <1>3, <2>1, <2>2, <2>3, <2>4
<1>4. CASE Len(cache) < Len(Magic)
  <2>1. Detected(cache, data, skip) = Sought(all)
    BY <1>4, DetectAcrossSearches DEF Detected
  <2>2. Enough(all, Len(all))
    BY DEF Enough
  <2> QED
    BY <1>2, <1>3, <2>1, <2>2, TailOfItself
<1>5. CASE ~(Len(cache) < Len(Magic)) /\ FindMagic(cache, skip) >= 0
  <2> PICK p : p = FindMagic(cache, skip)
    OBVIOUS
  <2>1. p \in skip..(Len(cache) - Len(Magic)) /\ MagicAt(cache, p)
    BY <1>5, FindMagicFinds
  <2>2. p \in 0..Len(cache) /\ p \in Nat /\ p + (Len(cache) - p) = Len(cache)
    BY <1>1, <2>1
  <2> DEFINE front == SubSeq(cache, p + 1, Len(cache))
             bytes == front \o data
  <2>3. front \in Seq(T) /\ Len(front) = Len(cache) - p /\ IsTail(front, cache)
    BY <2>2, TailFrom
  <2>4. Detected(cache, data, skip) = bytes
    BY <1>5, <2>2 DEF Detected, MoveFront
  <2> HIDE DEF front
  <2>5. IsTail(bytes, all) /\ bytes \in Seq(T) /\ Len(bytes) = Len(cache) - p + Len(data)
    BY <2>3, TailAppended, ConcatProperties
  <2> HIDE DEF bytes, all
  <2>11. /\ Len(front) = Len(cache) - p /\ Len(bytes) = Len(cache) - p + Len(data)
         /\ p \in Nat /\ p <= Len(cache) - Len(Magic)
    BY <1>1, <2>1, <2>2, <2>3, <2>5
  \* front begins with the MAGIC found, and bytes with front.
  <2>6. MagicAt(cache, p) <=> MagicAt(front, 0)
    <3>1. 0 + Len(Magic) <= Len(front)
      BY <1>1, <2>11
    <3>2. Len(cache) - Len(front) + 0 = p
      BY <1>1, <2>11
    <3>3. MagicAt(front, 0) <=> MagicAt(cache, Len(cache) - Len(front) + 0)
      BY <2>3, <3>1, OccursInTail
    <3> QED
      BY <3>2, <3>3
  <2>7. Agree(front, 0, bytes, 0, Len(front)) /\ Len(front) <= Len(bytes)
    <3>1. ASSUME NEW i \in 1..Len(front) PROVE front[0 + i] = bytes[0 + i]
      <4>1. i \in 1..(Len(front) + Len(data)) /\ i <= Len(front) /\ 0 + i = i
        BY <1>1, <2>3
      <4>2. bytes[i] = front[i]
        BY <2>3, <4>1, ConcatProperties DEF bytes
      <4> QED
        BY <4>1, <4>2
    <3>2. Len(front) <= Len(bytes)
      BY <1>1, <2>11
    <3> QED
      BY <3>1, <3>2 DEF Agree
  <2>8. 0 + Len(Magic) <= Len(front) /\ Len(Magic) <= Len(bytes)
    <3> PICK n, m, f, b : n = Len(Magic) /\ m = Len(cache) /\ f = Len(front) /\ b = Len(bytes)
      OBVIOUS
    <3>1. n \in Nat /\ m \in Nat /\ p \in Nat /\ f = m - p /\ p <= m - n
      BY <1>1, <2>11
    <3>2. f <= b /\ b \in Nat
      BY <2>5, <2>7
    <3>3. 0 + n <= f /\ f \in Int
      BY <3>1
    <3> QED
      BY <3>1, <3>2, <3>3
  <2>9. MagicAt(bytes, 0)
    BY <2>1, <2>3, <2>5, <2>6, <2>7, <2>8, OccursInPrefix
  <2>10. FindMagic(bytes, 0) = 0
    BY <2>5, <2>8, <2>9, MagicInFront
  <2>12. Enough(bytes, Len(all))
    BY <1>1, <2>8, <2>11 DEF Enough
  <2> QED
    BY <2>4, <2>5, <2>10, <2>12 DEF all
<1>6. CASE ~(Len(cache) < Len(Magic)) /\ ~(FindMagic(cache, skip) >= 0)
  <2> DEFINE pre == MoveFront(cache, Len(cache) - Keep, Keep)
  <2>1. /\ pre \o data \in Seq(T) /\ IsTail(pre \o data, all)
        /\ DetectAcross(pre, data) = Sought(pre \o data) /\ Len(pre \o data) = Keep + Len(data)
    BY <1>6, DetectedInEnd
  <2>2. Detected(cache, data, skip) = Sought(pre \o data)
    BY <1>6, <2>1 DEF Detected
  <2>3. Enough(pre \o data, Len(all))
    BY <1>1, <2>1 DEF Enough
  <2> QED
    BY <1>3, <2>1, <2>2, <2>3
<1> QED
  BY <1>4, <1>5, <1>6

----------------------------------------------------------------------------
(* The state of the parser *)

Field == Nat \cup {-1}

\* Every field that is set says what stands in the cache, and is set in the order of
\* the steps.
Fields(T) ==
    /\ rb \in [buffer : Seq(T), magic : {-1, 0}, heads_len : Field, payload : Field,
               payload_len : Field, checksum : Field, checksum_len : Field]
    /\ more \in Nat
MagicKnown ==
    /\ rb.magic = -1 => rb = Holding(rb.buffer)
    /\ rb.magic = 0 => FindMagic(rb.buffer, 0) = 0
HeadKnown ==
    IF rb.heads_len = -1 THEN rb.payload_len = -1 /\ rb.payload = -1
    ELSE /\ rb.magic = 0 /\ rb.heads_len = Len(Magic) + 4
         /\ HeadAt(rb.buffer, 0) /\ rb.payload_len = LenAt(rb.buffer, 0)
PayloadKnown ==
    IF rb.payload = -1 THEN rb.checksum = -1
    ELSE /\ rb.heads_len # -1 /\ rb.payload = rb.heads_len
         /\ rb.heads_len + rb.payload_len <= Len(rb.buffer)
ChecksumKnown ==
    rb.checksum # -1 =>
        /\ rb.payload # -1 /\ rb.checksum = rb.heads_len + rb.payload_len
        /\ rb.checksum + 1 <= Len(rb.buffer)
        /\ rb.buffer[rb.checksum + 1][1] = "array"
        /\ rb.checksum_len = rb.buffer[rb.checksum + 1][2] + 1
        /\ rb.checksum + rb.checksum_len <= Len(rb.buffer)
Stage ==
    /\ pc \in {"caller", "heads", "payload", "checksum", "validate", "again"}
    /\ pc # "caller" => rb.magic = 0
    /\ pc \in {"payload", "checksum", "validate"} => rb.heads_len # -1
    /\ pc \in {"checksum", "validate"} => rb.payload # -1
    /\ pc = "validate" => rb.checksum # -1

ParserInv(T) ==
    Fields(T) /\ MagicKnown /\ HeadKnown /\ PayloadKnown /\ ChecksumKnown /\ Stage

\* The length in an array's header is a number.
Lengths(T) == \A t \in T : t[1] = "array" => t[2] \in Nat

\* reset() leaves an object that knows nothing of its bytes.
LEMMA HoldingKnowsNothing ==
    ASSUME NEW T, NEW bytes \in Seq(T), NEW m \in Nat, rb' = Holding(bytes), more' = m,
           pc' = "caller"
    PROVE  ParserInv(T)' /\ rb'.buffer = bytes /\ rb'.magic = -1
<1>1. rb' = [buffer |-> bytes, magic |-> -1, heads_len |-> -1, payload |-> -1,
             payload_len |-> -1, checksum |-> -1, checksum_len |-> -1]
  BY DEF Holding, NewRBuffer
<1>2. Fields(T)'
  BY <1>1 DEF Fields, Field
<1>4. rb'.buffer = bytes /\ rb'.magic = -1
  BY <1>1
<1>5. MagicKnown'
  BY <1>4 DEF MagicKnown
<1>3. MagicKnown' /\ HeadKnown' /\ PayloadKnown' /\ ChecksumKnown'
  BY <1>1, <1>5 DEF HeadKnown, PayloadKnown, ChecksumKnown
<1> QED
  BY <1>1, <1>2, <1>3 DEF ParserInv, Stage

\* The search for MAGIC, when Extract begins and behind a format error.
LEMMA DetectMagicStep ==
    ASSUME NEW T, NEW cache \in Seq(T), NEW data \in Seq(T), NEW m \in Nat, NEW skip \in Nat,
           DetectMagic(cache, data, m, skip)
    PROVE  /\ ParserInv(T)' /\ IsTail(rb'.buffer, cache \o data)
           /\ Enough(rb'.buffer, Len(cache \o data))
           /\ IF pc' = "caller"
              THEN ret' = INSUFFICIENT /\ Len(rb'.buffer) <= Keep
              ELSE ret' = ret /\ rb'.magic = 0
<1> PICK bytes : bytes = Detected(cache, data, skip)
  OBVIOUS
<1>1. /\ bytes \in Seq(T) /\ IsTail(bytes, cache \o data)
      /\ FindMagic(bytes, 0) = 0 \/ Len(bytes) <= Keep
      /\ Enough(bytes, Len(cache \o data))
  BY DetectedIs
<1>2. /\ more' = Ask(bytes, m)
      /\ IF FindMagic(bytes, 0) = 0
         THEN rb' = [Holding(bytes) EXCEPT !.magic = 0] /\ pc' = "heads" /\ UNCHANGED ret
         ELSE rb' = Holding(bytes) /\ pc' = "caller" /\ ret' = INSUFFICIENT
  BY DEF DetectMagic
<1>3. more' \in Nat
  BY <1>1, <1>2, RBufferAssumption DEF Ask
<1>4. CASE FindMagic(bytes, 0) = 0
  <2>1. rb' = [buffer |-> bytes, magic |-> 0, heads_len |-> -1, payload |-> -1,
               payload_len |-> -1, checksum |-> -1, checksum_len |-> -1]
    BY <1>2, <1>4 DEF Holding, NewRBuffer
  <2>2. Fields(T)'
    BY <1>1, <1>3, <2>1 DEF Fields, Field
  <2>6. rb'.magic = 0 /\ rb'.buffer = bytes
    BY <2>1
  <2>7. MagicKnown'
    BY <1>4, <2>6 DEF MagicKnown
  <2>3. MagicKnown' /\ HeadKnown' /\ PayloadKnown' /\ ChecksumKnown'
    BY <2>1, <2>7 DEF HeadKnown, PayloadKnown, ChecksumKnown
  <2>4. pc' = "heads" /\ ret' = ret
    BY <1>2, <1>4
  <2>5. ParserInv(T)'
    BY <2>1, <2>2, <2>3, <2>4 DEF ParserInv, Stage
  <2> QED
    BY <1>1, <2>1, <2>4, <2>5
<1>5. CASE FindMagic(bytes, 0) # 0
  <2>1. ParserInv(T)' /\ rb'.buffer = bytes
    BY <1>1, <1>2, <1>3, <1>5, HoldingKnowsNothing
  <2> QED
    BY <1>1, <1>2, <1>5, <2>1
<1> QED
  BY <1>4, <1>5

\* A head in front of the cache.
LEMMA HeadInFront ==
    ASSUME NEW b, NEW n, n = Len(Magic)
    PROVE  /\ HeadAt(b, 0) <=> /\ n + 4 <= Len(b) /\ MagicAt(b, 0)
                               /\ b[n + 1][1] = "tschema" /\ b[n + 2][1] = "schema"
                               /\ b[n + 3] = <<"schema end", b[n + 2][2]>>
                               /\ b[n + 4][1] = "array"
           /\ LenAt(b, 0) = b[n + 4][2]
<1>1. 0 + Len(Magic) = n
  BY RBufferAssumption
<1> QED
  BY <1>1 DEF HeadAt, LenAt, MagicAt

LEMMA HeadFound ==
    ASSUME NEW b, NEW n, n = Len(Magic), n + 4 <= Len(b), MagicAt(b, 0),
           b[n + 1][1] = "tschema", b[n + 2][1] = "schema",
           b[n + 3] = <<"schema end", b[n + 2][2]>>, b[n + 4][1] = "array"
    PROVE  HeadAt(b, 0) /\ LenAt(b, 0) = b[n + 4][2]
BY HeadInFront

\* What is appended to the cache changes nothing of what is known of it.
LEMMA HeadStays ==
    ASSUME NEW T, NEW b \in Seq(T), NEW d \in Seq(T), HeadAt(b, 0)
    PROVE  HeadAt(b \o d, 0) /\ LenAt(b \o d, 0) = LenAt(b, 0)
<1>1. Len(b) \in Nat /\ Len(d) \in Nat /\ Len(Magic) \in Nat
  BY RBufferAssumption
<1> PICK n \in Nat : n = Len(Magic)
  BY <1>1
<1>2. /\ n + 4 <= Len(b) /\ MagicAt(b, 0)
      /\ b[n + 1][1] = "tschema" /\ b[n + 2][1] = "schema"
      /\ b[n + 3] = <<"schema end", b[n + 2][2]>> /\ b[n + 4][1] = "array"
      /\ LenAt(b, 0) = b[n + 4][2]
  BY HeadInFront
<1> DEFINE all == b \o d
<1>3. /\ all \in Seq(T) /\ Len(all) = Len(b) + Len(d)
      /\ \A i \in 1..(Len(b) + Len(d)) : all[i] = IF i <= Len(b) THEN b[i] ELSE d[i - Len(b)]
  BY ConcatProperties
<1> HIDE DEF all
<1>4. \A i \in 1..Len(b) : all[i] = b[i]
  BY <1>1, <1>3
<1>5. Len(b) <= Len(all) /\ Agree(b, 0, all, 0, Len(b))
  BY <1>1, <1>3, <1>4 DEF Agree
<1>12. n + 4 <= Len(b)
  BY <1>2
<1>6. 0 + Len(Magic) <= Len(b)
  BY <1>1, <1>12
<1>7. MagicAt(all, 0)
  BY <1>2, <1>3, <1>5, <1>6, OccursInPrefix
<1>8. n + 1 \in 1..Len(b) /\ n + 2 \in 1..Len(b) /\ n + 3 \in 1..Len(b) /\ n + 4 \in 1..Len(b)
  BY <1>1, <1>12
<1>9. /\ all[n + 1] = b[n + 1] /\ all[n + 2] = b[n + 2] /\ all[n + 3] = b[n + 3]
      /\ all[n + 4] = b[n + 4]
  BY <1>4, <1>8
<1>10. n + 4 <= Len(all)
  BY <1>1, <1>5, <1>12
<1>13. /\ all[n + 1][1] = "tschema" /\ all[n + 2][1] = "schema"
       /\ all[n + 3] = <<"schema end", all[n + 2][2]>> /\ all[n + 4][1] = "array"
  BY <1>2, <1>9
<1>11. HeadAt(all, 0) /\ LenAt(all, 0) = all[n + 4][2]
  BY <1>7, <1>10, <1>13, HeadInFront
<1> QED
  BY <1>2, <1>9, <1>11 DEF all

\* The length that a head says.
LEMMA HeadLength ==
    ASSUME NEW T, Lengths(T), NEW b \in Seq(T), HeadAt(b, 0)
    PROVE  LenAt(b, 0) \in Nat
<1> PICK n \in Nat : n = Len(Magic)
  BY RBufferAssumption
<1>1. n + 4 <= Len(b) /\ b[n + 4][1] = "array" /\ LenAt(b, 0) = b[n + 4][2]
  BY HeadInFront
<1>2. n + 4 <= Len(b)
  BY <1>1
<1>3. n + 4 \in 1..Len(b)
  BY <1>2
<1>4. b[n + 4] \in T
  BY <1>3, ElementOfSeq
<1> QED
  BY <1>1, <1>4 DEF Lengths

\* Extract, called with new data.
LEMMA CallStep ==
    ASSUME NEW T, Lengths(T), ParserInv(T), NEW data \in Seq(T), NEW m \in Nat, Call(data, m)
    PROVE  /\ ParserInv(T)' /\ IsTail(rb'.buffer, rb.buffer \o data)
           /\ Enough(rb'.buffer, Len(rb.buffer \o data))
           /\ IF pc' = "caller" THEN ret' = INSUFFICIENT /\ Len(rb'.buffer) <= Keep
                                ELSE ret' = ret /\ rb'.magic = 0
<1>1. rb.buffer \in Seq(T)
  BY DEF ParserInv, Fields
<1>2. CASE ~(rb.magic >= 0)
  BY <1>1, <1>2, DetectMagicStep DEF Call
<1>3. CASE rb.magic >= 0
  <2> PICK b, all : b = rb.buffer /\ all = b \o data
    OBVIOUS
  <2>1. rb' = [rb EXCEPT !.buffer = all] /\ more' = Ask(all, m) /\ pc' = "heads" /\ ret' = ret
    BY <1>3 DEF Call
  <2>2. /\ all \in Seq(T) /\ Len(all) = Len(b) + Len(data)
        /\ \A i \in 1..(Len(b) + Len(data)) : all[i] = IF i <= Len(b) THEN b[i] ELSE data[i - Len(b)]
    BY <1>1, ConcatProperties
  <2>3. Len(b) \in Nat /\ Len(all) \in Nat /\ Len(b) <= Len(all)
    BY <1>1, <2>2
  <2>4. \A i \in 1..Len(b) : all[i] = b[i]
    BY <2>2, <2>3
  <2>5. Agree(b, 0, all, 0, Len(b))
    BY <2>4 DEF Agree
  <2>6. rb \in [buffer : Seq(T), magic : {-1, 0}, heads_len : Field, payload : Field,
                payload_len : Field, checksum : Field, checksum_len : Field]
    BY DEF ParserInv, Fields
  <2>7. /\ rb'.buffer = all /\ rb'.magic = rb.magic /\ rb'.heads_len = rb.heads_len
        /\ rb'.payload = rb.payload /\ rb'.payload_len = rb.payload_len
        /\ rb'.checksum = rb.checksum /\ rb'.checksum_len = rb.checksum_len
    BY <2>1, <2>6
  <2>8. rb.magic = 0
    BY <1>3, <2>6
  <2>9. Fields(T)'
    <3>1. more' \in Nat
      BY <2>1, <2>3, RBufferAssumption DEF Ask
    <3> QED
      BY <2>1, <2>2, <2>6, <3>1 DEF Fields
  <2>10. MagicKnown'
    <3>1. FindMagic(b, 0) = 0 /\ FindMagic(b, 0) >= 0
      BY <2>8 DEF ParserInv, MagicKnown
    <3>3. b \in Seq(T)
      BY <1>1
    <3>4. all \in Seq(T) /\ Len(b) <= Len(all) /\ 0 \in Nat
      BY <2>2, <2>3
    <3>5. FindMagic(b, 0) >= 0
      BY <3>1
    <3>2. FindMagic(all, 0) = FindMagic(b, 0)
      BY <2>5, <3>3, <3>4, <3>5, FindInPrefix, Zenon
    <3> QED
      BY <2>7, <2>8, <3>1, <3>2 DEF MagicKnown
  <2>11. HeadKnown'
    <3>1. CASE rb.heads_len = -1
      BY <2>7, <3>1 DEF ParserInv, HeadKnown
    <3>2. CASE rb.heads_len # -1
      <4>1. rb.heads_len = Len(Magic) + 4 /\ HeadAt(b, 0) /\ rb.payload_len = LenAt(b, 0)
        BY <3>2 DEF ParserInv, HeadKnown
      <4>2. HeadAt(all, 0) /\ LenAt(all, 0) = LenAt(b, 0)
        BY <1>1, <4>1, HeadStays
      <4> QED
        BY <2>7, <2>8, <3>2, <4>1, <4>2 DEF HeadKnown
    <3> QED
      BY <3>1, <3>2
  <2>12. PayloadKnown'
    <3>1. CASE rb.payload = -1
      BY <2>7, <3>1 DEF ParserInv, PayloadKnown
    <3>2. CASE rb.payload # -1
      <4>1. rb.heads_len # -1 /\ rb.payload = rb.heads_len /\ rb.heads_len + rb.payload_len <= Len(b)
        BY <3>2 DEF ParserInv, PayloadKnown
      <4>2. rb.heads_len + rb.payload_len \in Int
        BY <2>6 DEF Field
      <4>3. rb.heads_len + rb.payload_len <= Len(all)
        BY <2>3, <4>1, <4>2
      <4> QED
        BY <2>7, <3>2, <4>1, <4>3 DEF PayloadKnown
    <3> QED
      BY <3>1, <3>2
  <2>13. ChecksumKnown'
    <3> SUFFICES ASSUME rb.checksum # -1 PROVE ChecksumKnown'
      BY <2>7 DEF ChecksumKnown
    <3> PICK c, len : c = rb.checksum /\ len = rb.checksum_len
      OBVIOUS
    <3>1. /\ rb.payload # -1 /\ c = rb.heads_len + rb.payload_len
          /\ c + 1 <= Len(b) /\ b[c + 1][1] = "array" /\ len = b[c + 1][2] + 1
          /\ c + len <= Len(b)
      BY DEF ParserInv, ChecksumKnown
    <3>2. c \in Nat /\ len \in Int
      BY <2>6 DEF Field
    <3>3. c + 1 <= Len(b)
      BY <3>1
    <3>4. c + len <= Len(b)
      BY <3>1
    <3>5. c + 1 \in 1..Len(b) /\ c + 1 <= Len(all) /\ c + len <= Len(all)
      BY <2>3, <3>2, <3>3, <3>4
    <3>6. all[c + 1] = b[c + 1]
      BY <2>4, <3>5
    <3> QED
      BY <2>7, <3>1, <3>5, <3>6 DEF ChecksumKnown
  <2>14. Stage'
    BY <2>1, <2>7, <2>8 DEF Stage
  <2>15. IsTail(all, all) /\ Enough(all, Len(all))
    BY <2>2, TailOfItself DEF Enough
  <2> QED
    BY <2>1, <2>7, <2>8, <2>9, <2>10, <2>11, <2>12, <2>13, <2>14, <2>15 DEF ParserInv
<1> QED
  BY <1>2, <1>3

\* Steps 1 to 3 leave the cache as it is and set one group of fields each.
LEMMA ParseHeadsStep ==
    ASSUME NEW T, Lengths(T), ParserInv(T), ParseHeads
    PROVE  ParserInv(T)' /\ rb'.buffer = rb.buffer /\ (ret' = ret \/ ret' = INSUFFICIENT)
           /\ (pc' = "caller" => ret' = INSUFFICIENT /\ rb'.magic = 0)
<1>1. /\ rb \in [buffer : Seq(T), magic : {-1, 0}, heads_len : Field, payload : Field,
                 payload_len : Field, checksum : Field, checksum_len : Field]
      /\ rb.magic = 0 /\ more \in Nat /\ pc = "heads"
  BY DEF ParserInv, Fields, Stage, ParseHeads
<1>2. Len(Magic) \in Nat /\ MinHeader \in Nat /\ Huge \in Nat /\ Size \in Nat
  BY <1>1, RBufferAssumption DEF Size
<1>3. ASSUME rb' = rb, more' \in Nat, pc' \in {"caller", "again"} \/ (pc' = "payload" /\ rb.heads_len # -1)
      PROVE  ParserInv(T)'
  <2>1. Fields(T)' /\ MagicKnown' /\ HeadKnown' /\ PayloadKnown' /\ ChecksumKnown'
    BY <1>1, <1>3 DEF ParserInv, Fields, MagicKnown, HeadKnown, PayloadKnown, ChecksumKnown
  <2>2. Stage'
    BY <1>1, <1>3 DEF Stage
  <2> QED
    BY <2>1, <2>2 DEF ParserInv
<1>4. CASE rb.heads_len >= 0 /\ Goto("payload") /\ UNCHANGED rb
  <2>1. rb.heads_len # -1
    BY <1>4
  <2> QED
    BY <1>1, <1>3, <1>4, <2>1 DEF Goto
<1>5. ASSUME UNCHANGED rb, NEW m \in Nat, Return(INSUFFICIENT, m)
      PROVE  ParserInv(T)' /\ rb'.buffer = rb.buffer /\ ret' = INSUFFICIENT /\ rb'.magic = 0
  BY <1>1, <1>3, <1>5 DEF Return
<1>6. ASSUME UNCHANGED rb, Goto("again")
      PROVE  ParserInv(T)' /\ rb'.buffer = rb.buffer /\ ret' = ret /\ pc' # "caller"
  BY <1>1, <1>3, <1>6 DEF Goto
<1>7. ASSUME rb.heads_len < 0, Size >= MinHeader, There(SchemaAt - 1, "tschema"), ~SchemaShort, ~SchemaWrong,
             There(ArrayAt, "array"),
             rb' = [rb EXCEPT !.payload_len = At(ArrayAt)[2], !.heads_len = ArrayAt + 1 - rb.magic],
             Goto("payload")
      PROVE  ParserInv(T)' /\ rb'.buffer = rb.buffer /\ ret' = ret /\ pc' # "caller"
  <2> PICK n \in Nat : n = Len(Magic)
    BY <1>2
  <2> PICK b : b = rb.buffer
    OBVIOUS
  <2>1. /\ SchemaAt = n + 1 /\ ArrayAt = n + 3 /\ ArrayAt + 1 - rb.magic = n + 4
        /\ SchemaAt - 1 = n /\ SchemaAt + 1 = n + 2
    BY <1>1 DEF SchemaAt, ArrayAt
  <2>2. n + 3 < Len(b) /\ b[n + 4][1] = "array" /\ At(ArrayAt) = b[n + 4]
    <3>1. n + 3 + 1 = n + 4
      OBVIOUS
    <3> QED
      BY <1>7, <2>1, <3>1 DEF There, At, Size
  <2>3. b[n + 1][1] = "tschema"
    BY <1>7, <2>1 DEF There, At
  <2>4. n + 1 < Len(b) /\ n + 2 < Len(b) /\ n + 4 <= Len(b) /\ Len(b) \in Nat
    BY <1>2, <2>2 DEF Size
  <2>5. b[n + 2][1] = "schema"
    <3>1. n + 1 + 1 = n + 2 /\ ~Short(SchemaAt)
      BY <1>7 DEF SchemaShort
    <3> QED
      BY <1>7, <2>1, <2>4, <3>1 DEF SchemaWrong, Wrong, At, Size
  <2>6. b[n + 3] = <<"schema end", b[n + 2][2]>>
    <3>1. n + 1 + 1 = n + 2 /\ n + 2 + 1 = n + 3
      OBVIOUS
    <3> QED
      BY <1>7, <2>1, <2>4, <3>1 DEF SchemaWrong, At, Size
  <2>7. MagicAt(b, 0)
    <3>1. FindMagic(b, 0) = 0
      BY <1>1 DEF ParserInv, MagicKnown
    <3>2. b \in Seq(T)
      BY <1>1
    <3> QED
      BY <3>1, <3>2, MagicInFront
  <2>8. HeadAt(b, 0) /\ LenAt(b, 0) = b[n + 4][2]
    <3>1. /\ n + 4 <= Len(b) /\ MagicAt(b, 0) /\ b[n + 1][1] = "tschema" /\ b[n + 2][1] = "schema"
          /\ b[n + 3] = <<"schema end", b[n + 2][2]>> /\ b[n + 4][1] = "array"
      BY <2>2, <2>3, <2>4, <2>5, <2>6, <2>7
    <3> QED
      BY <3>1, HeadFound
  <2>9. b[n + 4][2] \in Nat
    <3>1. n + 4 \in 1..Len(b)
      BY <2>4
    <3>2. b[n + 4] \in T
      BY <1>1, <3>1, ElementOfSeq
    <3> QED
      BY <2>2, <3>2 DEF Lengths
  <2>10. /\ rb' = [rb EXCEPT !.payload_len = b[n + 4][2], !.heads_len = n + 4]
         /\ pc' = "payload" /\ more' = more /\ ret' = ret
    BY <1>7, <2>1, <2>2 DEF Goto
  <2>11. /\ rb'.buffer = b /\ rb'.magic = 0 /\ rb'.heads_len = n + 4 /\ rb'.payload_len = b[n + 4][2]
         /\ rb'.payload = rb.payload /\ rb'.checksum = rb.checksum /\ rb'.checksum_len = rb.checksum_len
    BY <1>1, <2>10
  <2>12. Fields(T)'
    <3>1. n + 4 \in Field /\ b[n + 4][2] \in Field
      BY <2>9 DEF Field
    <3>2. Fields(T)
      BY DEF ParserInv
    <3>3. rb' \in [buffer : Seq(T), magic : {-1, 0}, heads_len : Field, payload : Field,
                   payload_len : Field, checksum : Field, checksum_len : Field]
      BY <2>10, <3>1, <3>2 DEF Fields
    <3>4. more' \in Nat
      BY <2>10, <3>2 DEF Fields
    <3> QED
      BY <3>3, <3>4 DEF Fields
  <2>13. rb.heads_len = -1 /\ rb.payload = -1 /\ rb.checksum = -1
    <3>1. rb.heads_len = -1
      BY <1>1, <1>7 DEF Field
    <3> QED
      BY <3>1 DEF ParserInv, HeadKnown, PayloadKnown
  <2>14. MagicKnown'
    <3>1. FindMagic(b, 0) = 0
      BY <1>1 DEF ParserInv, MagicKnown
    <3> QED
      BY <2>11, <3>1 DEF MagicKnown
  <2>15. HeadKnown'
    <3>1. n + 4 # -1
      OBVIOUS
    <3> QED
      BY <2>8, <2>11, <3>1 DEF HeadKnown
  <2>16. PayloadKnown' /\ ChecksumKnown'
    BY <2>11, <2>13 DEF PayloadKnown, ChecksumKnown
  <2>17. Stage'
    <3>1. n + 4 # -1
      OBVIOUS
    <3> QED
      BY <2>10, <2>11, <3>1 DEF Stage
  <2> QED
    BY <2>10, <2>11, <2>12, <2>14, <2>15, <2>16, <2>17 DEF ParserInv
<1> QED
  <2>1. CASE rb.heads_len < 0 /\ Size < MinHeader /\ Return(INSUFFICIENT, MinHeader - Size) /\ UNCHANGED rb
    <3>1. MinHeader - Size \in Nat
      BY <1>2, <2>1
    <3> QED
      BY <1>5, <2>1, <3>1
  <2>2. CASE UNCHANGED rb /\ (Return(INSUFFICIENT, MinHeader) \/ Return(INSUFFICIENT, Huge))
    BY <1>2, <1>5, <2>2
  <2>3. CASE UNCHANGED rb /\ Goto("again")
    BY <1>6, <2>3
  <2> QED
    BY <1>4, <1>7, <2>1, <2>2, <2>3 DEF ParseHeads, Goto

LEMMA ParsePayloadStep ==
    ASSUME NEW T, Lengths(T), ParserInv(T), ParsePayload
    PROVE  ParserInv(T)' /\ rb'.buffer = rb.buffer /\ (ret' = ret \/ ret' = INSUFFICIENT)
           /\ (pc' = "caller" => ret' = INSUFFICIENT /\ rb'.magic = 0)
<1>1. /\ rb \in [buffer : Seq(T), magic : {-1, 0}, heads_len : Field, payload : Field,
                 payload_len : Field, checksum : Field, checksum_len : Field]
      /\ rb.magic = 0 /\ more \in Nat /\ rb.heads_len # -1
  BY DEF ParserInv, Fields, Stage, ParsePayload
<1>2. /\ HeadAt(rb.buffer, 0) /\ rb.payload_len = LenAt(rb.buffer, 0)
      /\ rb.heads_len = Len(Magic) + 4
  BY <1>1 DEF ParserInv, HeadKnown
<1>3. rb.payload_len \in Nat /\ rb.heads_len \in Nat /\ Size \in Nat
  BY <1>1, <1>2, HeadLength, RBufferAssumption DEF Size
<1>4. ASSUME rb' = rb, more' \in Nat, pc' = "caller" \/ (pc' = "checksum" /\ rb.payload # -1)
      PROVE  ParserInv(T)'
  <2>1. Fields(T)' /\ MagicKnown' /\ HeadKnown' /\ PayloadKnown' /\ ChecksumKnown'
    BY <1>1, <1>4 DEF ParserInv, Fields, MagicKnown, HeadKnown, PayloadKnown, ChecksumKnown
  <2>2. Stage'
    BY <1>1, <1>4 DEF Stage
  <2> QED
    BY <2>1, <2>2 DEF ParserInv
<1>5. CASE rb.payload >= 0 /\ Goto("checksum") /\ UNCHANGED rb
  <2>1. rb.payload # -1
    BY <1>5
  <2> QED
    BY <1>1, <1>4, <1>5, <2>1 DEF Goto
<1>6. CASE rb.payload < 0 /\ PayloadMissing > 0 /\ Return(INSUFFICIENT, PayloadMissing) /\ UNCHANGED rb
  <2>1. PayloadMissing \in Nat
    BY <1>1, <1>3, <1>6 DEF PayloadMissing
  <2> QED
    BY <1>1, <1>4, <1>6, <2>1 DEF Return
<1>7. CASE /\ rb.payload < 0 /\ PayloadMissing <= 0
           /\ rb' = [rb EXCEPT !.payload = rb.magic + rb.heads_len]
           /\ Goto("checksum")
  <2>1. rb.magic + rb.heads_len = rb.heads_len
    BY <1>1, <1>3
  <2>2. /\ rb' = [rb EXCEPT !.payload = rb.heads_len]
        /\ pc' = "checksum" /\ more' = more /\ ret' = ret
    BY <1>7, <2>1 DEF Goto
  <2>3. /\ rb'.buffer = rb.buffer /\ rb'.magic = 0 /\ rb'.heads_len = rb.heads_len
        /\ rb'.payload_len = rb.payload_len /\ rb'.payload = rb.heads_len
        /\ rb'.checksum = rb.checksum /\ rb'.checksum_len = rb.checksum_len
    BY <1>1, <2>2
  <2>4. Fields(T)'
    BY <1>1, <1>3, <2>2 DEF Fields, Field
  <2>5. MagicKnown' /\ HeadKnown'
    BY <1>1, <1>2, <2>3 DEF ParserInv, MagicKnown, HeadKnown
  <2>6. rb.payload = -1
    BY <1>1, <1>7 DEF Field
  <2>7. rb.checksum = -1
    BY <2>6 DEF ParserInv, PayloadKnown
  <2>8. rb.heads_len + rb.payload_len <= Len(rb.buffer)
    BY <1>1, <1>3, <1>7 DEF PayloadMissing, Size
  <2>9. PayloadKnown'
    BY <1>1, <2>3, <2>8 DEF PayloadKnown
  <2>10. ChecksumKnown' /\ Stage'
    BY <1>1, <2>2, <2>3, <2>7 DEF ChecksumKnown, Stage
  <2> QED
    BY <2>2, <2>3, <2>4, <2>5, <2>9, <2>10 DEF ParserInv
<1> QED
  BY <1>5, <1>6, <1>7, <1>1, <1>4 DEF ParsePayload, Return, Goto

LEMMA ParseChecksumStep ==
    ASSUME NEW T, Lengths(T), ParserInv(T), ParseChecksum
    PROVE  ParserInv(T)' /\ rb'.buffer = rb.buffer /\ (ret' = ret \/ ret' = INSUFFICIENT)
           /\ (pc' = "caller" => ret' = INSUFFICIENT /\ rb'.magic = 0)
<1>1. /\ rb \in [buffer : Seq(T), magic : {-1, 0}, heads_len : Field, payload : Field,
                 payload_len : Field, checksum : Field, checksum_len : Field]
      /\ rb.magic = 0 /\ more \in Nat /\ rb.heads_len # -1 /\ rb.payload # -1
  BY DEF ParserInv, Fields, Stage, ParseChecksum
<1>2. rb.payload = rb.heads_len
  BY <1>1 DEF ParserInv, PayloadKnown
<1>3. ASSUME rb' = rb, more' \in Nat,
             pc' \in {"caller", "again"} \/ (pc' = "validate" /\ rb.checksum # -1)
      PROVE  ParserInv(T)'
  <2>1. Fields(T)' /\ MagicKnown' /\ HeadKnown' /\ PayloadKnown' /\ ChecksumKnown'
    BY <1>1, <1>3 DEF ParserInv, Fields, MagicKnown, HeadKnown, PayloadKnown, ChecksumKnown
  <2>2. Stage'
    BY <1>1, <1>3 DEF Stage
  <2> QED
    BY <2>1, <2>2 DEF ParserInv
<1>4. CASE rb.checksum >= 0 /\ Goto("validate") /\ UNCHANGED rb
  <2>1. rb.checksum # -1
    BY <1>4
  <2> QED
    BY <1>1, <1>3, <1>4, <2>1 DEF Goto
<1>5. CASE UNCHANGED rb /\ Return(INSUFFICIENT, more)
  BY <1>1, <1>3, <1>5 DEF Return
<1>6. CASE UNCHANGED rb /\ Goto("again")
  BY <1>1, <1>3, <1>6 DEF Goto
<1>7. ASSUME rb.checksum < 0, There(ChecksumAt, "array"),
             NEW len, len = At(ChecksumAt)[2],
             IF ChecksumAt + 1 + len > Size
             THEN rb' = [rb EXCEPT !.checksum_len = len] /\ Return(INSUFFICIENT, more)
             ELSE /\ rb' = [rb EXCEPT !.checksum_len = len + 1, !.checksum = ChecksumAt]
                  /\ Goto("validate")
      PROVE  ParserInv(T)' /\ rb'.buffer = rb.buffer /\ (ret' = ret \/ ret' = INSUFFICIENT)
             /\ (pc' = "caller" => ret' = INSUFFICIENT /\ rb'.magic = 0)
  <2> PICK b \in Seq(T) : b = rb.buffer
    BY <1>1
  <2> PICK c : c = ChecksumAt
    OBVIOUS
  <2>1. rb.checksum = -1
    BY <1>1, <1>7 DEF Field
  <2>2. c = rb.heads_len + rb.payload_len
    BY <1>2 DEF ChecksumAt
  <2>3. Len(b) \in Nat /\ Size = Len(b)
    BY DEF Size
  <2>4. c < Len(b) /\ b[c + 1][1] = "array" /\ len = b[c + 1][2]
    BY <1>7 DEF There, At, Size
  <2>5. rb.heads_len \in Nat /\ rb.payload_len \in Nat
    <3>1. HeadAt(b, 0) /\ rb.payload_len = LenAt(b, 0)
      BY <1>1 DEF ParserInv, HeadKnown
    <3>2. rb.payload_len \in Nat
      BY <3>1, HeadLength
    <3> QED
      BY <1>1, <3>2 DEF Field
  <2>6. c \in Nat /\ c + 1 \in 1..Len(b)
    <3>1. c \in Nat /\ c < Len(b)
      BY <2>2, <2>4, <2>5
    <3> QED
      BY <2>3, <3>1
  <2>7. len \in Nat
    <3>1. b[c + 1] \in T
      BY <2>6, ElementOfSeq
    <3> QED
      BY <2>4, <3>1 DEF Lengths
  <2>8. CASE c + 1 + len > Len(b)
    <3>1. rb' = [rb EXCEPT !.checksum_len = len] /\ pc' = "caller" /\ more' = more /\ ret' = INSUFFICIENT
      BY <1>7, <2>3, <2>8 DEF Return
    <3>2. /\ rb'.buffer = rb.buffer /\ rb'.magic = 0 /\ rb'.heads_len = rb.heads_len
          /\ rb'.payload_len = rb.payload_len /\ rb'.payload = rb.payload
          /\ rb'.checksum = rb.checksum
      BY <1>1, <3>1
    <3>3. Fields(T)'
      BY <1>1, <2>7, <3>1 DEF Fields, Field
    <3>4. MagicKnown' /\ HeadKnown' /\ PayloadKnown'
      BY <1>1, <3>2 DEF ParserInv, MagicKnown, HeadKnown, PayloadKnown
    <3>5. ChecksumKnown' /\ Stage'
      BY <2>1, <3>1, <3>2 DEF ChecksumKnown, Stage
    <3> QED
      BY <3>1, <3>2, <3>3, <3>4, <3>5 DEF ParserInv
  <2>9. CASE ~(c + 1 + len > Len(b))
    <3>1. /\ rb' = [rb EXCEPT !.checksum_len = len + 1, !.checksum = c]
          /\ pc' = "validate" /\ more' = more /\ ret' = ret
      BY <1>7, <2>3, <2>9 DEF Goto
    <3>2. /\ rb'.buffer = b /\ rb'.magic = 0 /\ rb'.heads_len = rb.heads_len
          /\ rb'.payload_len = rb.payload_len /\ rb'.payload = rb.payload
          /\ rb'.checksum = c /\ rb'.checksum_len = len + 1
      BY <1>1, <3>1
    <3>3. Fields(T)'
      <4>1. len + 1 \in Field /\ c \in Field
        BY <2>6, <2>7 DEF Field
      <4> QED
        BY <1>1, <3>1, <4>1 DEF Fields
    <3>4. MagicKnown' /\ HeadKnown'
      BY <1>1, <3>2 DEF ParserInv, MagicKnown, HeadKnown
    <3>5. PayloadKnown'
      BY <1>1, <3>2 DEF ParserInv, PayloadKnown
    <3>6. c + 1 <= Len(b) /\ c + (len + 1) <= Len(b)
      BY <2>3, <2>6, <2>7, <2>9
    <3>7. ChecksumKnown'
      BY <1>1, <2>2, <2>4, <3>2, <3>6 DEF ChecksumKnown
    <3>8. Stage'
      <4>1. c # -1
        BY <2>6
      <4> QED
        BY <1>1, <3>1, <3>2, <4>1 DEF Stage
    <3> QED
      BY <3>1, <3>2, <3>3, <3>4, <3>5, <3>7, <3>8 DEF ParserInv
  <2> QED
    BY <2>8, <2>9
<1> QED
  BY <1>1, <1>4, <1>5, <1>6, <1>7 DEF ParseChecksum, Return, Goto

----------------------------------------------------------------------------
(* The fragment that was found *)

\* An array's header is one token, in front of its bytes or counted with them.
LEMMA OneMore ==
    ASSUME NEW p \in Nat, NEW n \in Nat
    PROVE  p + 1 + n = p + (n + 1) /\ n + 1 \in Nat \ {0}
OBVIOUS

\* Where a hash was found, the fields tell where the fragment in front of the cache
\* ends, and what is validated and handed out is what IntactAt says of the bytes.
LEMMA FragmentInFront ==
    ASSUME NEW T, Lengths(T), ParserInv(T), rb.checksum # -1
    PROVE  /\ rb.magic = 0 /\ HeadAt(rb.buffer, 0)
           /\ EndAt(rb.buffer, 0) = FragmentLen /\ FragmentLen \in 1..Len(rb.buffer)
           /\ TheFragment = FragmentAt(rb.buffer, 0)
           /\ HashOf \in {<<>>, <<Hash(Covered)>>} => IntactAt(rb.buffer, 0)
<1> PICK b \in Seq(T) : b = rb.buffer
  BY DEF ParserInv, Fields
<1> PICK n \in Nat \ {0} : n = Len(Magic)
  BY RBufferAssumption
<1> PICK h, len, c, k : h = rb.heads_len /\ len = rb.payload_len /\ c = rb.checksum /\ k = rb.checksum_len
  OBVIOUS
<1>1. rb.payload # -1 /\ c = h + len /\ b[c + 1][1] = "array" /\ k = b[c + 1][2] + 1
  BY DEF ParserInv, ChecksumKnown
<1>2. c + 1 <= Len(b)
  BY DEF ParserInv, ChecksumKnown
<1>3. c + k <= Len(b)
  BY DEF ParserInv, ChecksumKnown
<1>4. rb.payload = h /\ h # -1
  BY <1>1 DEF ParserInv, PayloadKnown
<1>5. rb.magic = 0 /\ h = n + 4 /\ HeadAt(b, 0) /\ len = LenAt(b, 0)
  BY <1>4 DEF ParserInv, HeadKnown
<1>6. len \in Nat /\ h \in Nat /\ c \in Nat /\ Len(b) \in Nat
  BY <1>1, <1>5, HeadLength
<1>7. b[c + 1][2] \in Nat
  <2>1. c + 1 \in 1..Len(b)
    BY <1>2, <1>6
  <2>2. b[c + 1] \in T
    BY <2>1, ElementOfSeq
  <2> QED
    BY <1>1, <2>2 DEF Lengths
<1>8. SumAt(b, 0) = c
  <2>1. 0 + Len(Magic) + 4 + len = c
    BY <1>1, <1>5, <1>6
  <2> QED
    BY <1>5, <2>1 DEF SumAt
<1>9. EndAt(b, 0) = c + k /\ k \in Nat \ {0}
  <2> PICK v : v = b[c + 1][2]
    OBVIOUS
  <2>1. v \in Nat /\ k = v + 1
    BY <1>1, <1>7
  <2>3. c \in Nat
    BY <1>6
  <2>4. c + 1 + v = c + (v + 1) /\ v + 1 \in Nat \ {0}
    BY <2>1, <2>3, OneMore, Zenon
  <2>2. c + 1 + v = c + k /\ k \in Nat \ {0}
    BY <2>1, <2>4, Zenon
  <2> QED
    BY <1>8, <2>2 DEF EndAt
<1>10. FragmentLen = c + k /\ FragmentLen \in 1..Len(b)
  <2>1. FragmentLen = c + k
    BY <1>1 DEF FragmentLen
  <2>2. c + k \in 1..Len(b)
    BY <1>3, <1>6, <1>9
  <2> QED
    BY <2>1, <2>2
<1>11. TheFragment = FragmentAt(b, 0)
  <2>1. rb.magic + Len(Magic) + 1 + 1 = 0 + Len(Magic) + 2
    BY <1>5
  <2>2. rb.payload + 1 = 0 + Len(Magic) + 5 /\ rb.payload + rb.payload_len = c
    BY <1>1, <1>4, <1>5
  <2>3. TheFragment.schema = FragmentAt(b, 0).schema
    BY <2>1 DEF TheFragment, FragmentAt, SchemaAt, At
  <2>4. TheFragment.payload = FragmentAt(b, 0).payload
    BY <1>8, <2>2 DEF TheFragment, FragmentAt
  <2> QED
    BY <2>3, <2>4 DEF TheFragment, FragmentAt
<1>12. ASSUME HashOf \in {<<>>, <<Hash(Covered)>>} PROVE IntactAt(b, 0)
  <2>1. HashOf = SubSeq(b, c + 2, c + k)
    BY DEF HashOf
  <2>2. Covered = SubSeq(b, 0 + 1, c)
    <3>1. rb.magic + 1 = 0 + 1 /\ rb.magic + rb.heads_len + rb.payload_len = c
      BY <1>1, <1>5, <1>6
    <3> QED
      BY <3>1 DEF Covered
  <2> QED
    BY <1>1, <1>2, <1>3, <1>5, <1>8, <1>9, <1>12, <2>1, <2>2 DEF IntactAt
<1> QED
  BY <1>5, <1>9, <1>10, <1>11, <1>12

\* A fragment leaves the cache, after Validate or in Fragment(): what is behind it
\* stays.
LEMMA CutOut ==
    ASSUME NEW T, Lengths(T), ParserInv(T), rb.checksum # -1,
           rb' = Holding(Behind), more' \in Nat, pc' = "caller"
    PROVE  /\ ParserInv(T)' /\ IsTail(rb'.buffer, rb.buffer) /\ rb'.magic = -1
           /\ Len(rb'.buffer) = Len(rb.buffer) - EndAt(rb.buffer, 0)
<1> PICK b \in Seq(T) : b = rb.buffer
  BY DEF ParserInv, Fields
<1> PICK p : p = FragmentLen
  OBVIOUS
<1>1. p \in 1..Len(b) /\ p = EndAt(b, 0)
  BY FragmentInFront
<1>2. p \in 0..Len(b)
  BY <1>1
<1>3. /\ SubSeq(b, p + 1, Len(b)) \in Seq(T) /\ Len(SubSeq(b, p + 1, Len(b))) = Len(b) - p
      /\ IsTail(SubSeq(b, p + 1, Len(b)), b)
  BY <1>2, TailFrom
<1>4. Behind = SubSeq(b, p + 1, Len(b))
  BY DEF Behind, Size
<1>5. ParserInv(T)' /\ rb'.buffer = Behind /\ rb'.magic = -1
  BY <1>3, <1>4, HoldingKnowsNothing
<1> QED
  BY <1>1, <1>3, <1>4, <1>5

\* Validate returns OK with an intact fragment in front, and drops any other.
LEMMA ValidateStep ==
    ASSUME NEW T, Lengths(T), ParserInv(T), Validate
    PROVE  /\ ParserInv(T)' /\ IsTail(rb'.buffer, rb.buffer) /\ pc' = "caller"
           /\ \/ ret' = OK /\ rb' = rb /\ rb.checksum # -1 /\ IntactAt(rb.buffer, 0)
              \/ ret' = CHECKSUM
<1>1. rb.checksum # -1 /\ rb.buffer \in Seq(T)
  BY DEF ParserInv, Stage, Validate, Fields
<1>2. CASE HashOf \in {<<>>, <<Hash(Covered)>>}
  <2>1. rb' = rb /\ more' = 0 /\ pc' = "caller" /\ ret' = OK
    BY <1>2 DEF Validate, Return
  <2>2. ParserInv(T)'
    BY <2>1 DEF ParserInv, Fields, MagicKnown, HeadKnown, PayloadKnown, ChecksumKnown, Stage
  <2>3. IntactAt(rb.buffer, 0)
    BY <1>1, <1>2, FragmentInFront
  <2> QED
    BY <1>1, <2>1, <2>2, <2>3, TailOfItself
<1>3. CASE HashOf \notin {<<>>, <<Hash(Covered)>>}
  <2>1. rb' = Holding(Behind) /\ more' = 0 /\ pc' = "caller" /\ ret' = CHECKSUM
    BY <1>3 DEF Validate, Return
  <2> QED
    BY <1>1, <2>1, CutOut
<1> QED
  BY <1>2, <1>3

\* Any step of Extract: the cache loses bytes at its front only; OK is returned with
\* an intact fragment there; ERR_INSUFFICIENT_DATA without a MAGIC leaves too few
\* bytes for one; only a fragment of a wrong checksum takes more with it.
LEMMA StepKeeps ==
    ASSUME NEW T, Lengths(T), ParserInv(T), Step
    PROVE  /\ ParserInv(T)' /\ IsTail(rb'.buffer, rb.buffer)
           /\ ret' \in {ret, OK, INSUFFICIENT, CHECKSUM}
           /\ (pc' = "caller" /\ ret' = OK) => rb'.checksum # -1 /\ IntactAt(rb'.buffer, 0)
           /\ (pc' = "caller" /\ ret' = INSUFFICIENT /\ rb'.magic = -1) => Len(rb'.buffer) <= Keep
           /\ (ret' = OK /\ ret # OK) => pc' = "caller"
           /\ (pc = "validate" /\ ret' = CHECKSUM) \/ Enough(rb'.buffer, Len(rb.buffer))
<1>0. OK # INSUFFICIENT /\ OK # CHECKSUM /\ INSUFFICIENT # CHECKSUM
  BY DEF OK, INSUFFICIENT, CHECKSUM
<1>1. rb.buffer \in Seq(T) /\ more \in Nat
  BY DEF ParserInv, Fields
<1>2. ASSUME ParserInv(T)', rb'.buffer = rb.buffer, ret' = ret \/ ret' = INSUFFICIENT,
             pc' = "caller" => ret' = INSUFFICIENT /\ rb'.magic = 0
      PROVE  /\ ParserInv(T)' /\ IsTail(rb'.buffer, rb.buffer)
             /\ ret' \in {ret, OK, INSUFFICIENT, CHECKSUM}
             /\ (pc' = "caller" /\ ret' = OK) => rb'.checksum # -1 /\ IntactAt(rb'.buffer, 0)
             /\ (pc' = "caller" /\ ret' = INSUFFICIENT /\ rb'.magic = -1) => Len(rb'.buffer) <= Keep
             /\ (ret' = OK /\ ret # OK) => pc' = "caller"
             /\ (pc = "validate" /\ ret' = CHECKSUM) \/ Enough(rb'.buffer, Len(rb.buffer))
  <2>1. Enough(rb'.buffer, Len(rb.buffer))
    BY <1>2 DEF Enough
  <2> QED
    BY <1>0, <1>1, <1>2, <2>1, TailOfItself
<1>3. CASE ParseHeads
  BY <1>2, <1>3, ParseHeadsStep
<1>4. CASE ParsePayload
  BY <1>2, <1>4, ParsePayloadStep
<1>5. CASE ParseChecksum
  BY <1>2, <1>5, ParseChecksumStep
<1>6. CASE Validate
  <2>1. pc = "validate"
    BY <1>6 DEF Validate
  <2>2. rb' = rb => Enough(rb'.buffer, Len(rb.buffer))
    BY DEF Enough
  <2> QED
    BY <1>0, <1>6, <2>1, <2>2, ValidateStep
<1>7. CASE Again
  <2>1. DetectMagic(rb.buffer, <<>>, more, Len(Magic))
    BY <1>7 DEF Again
  <2>2. <<>> \in Seq(T) /\ Len(Magic) \in Nat /\ rb.buffer \o <<>> = rb.buffer
    BY <1>1, RBufferAssumption, ConcatEmptySeq
  <2> QED
    BY <1>0, <1>1, <2>1, <2>2, DetectMagicStep
<1> QED
  BY <1>3, <1>4, <1>5, <1>6, <1>7 DEF Step

----------------------------------------------------------------------------
(* The cache and the stream *)

\* The first f tokens of a stream.
Upto(u, f) == SubSeq(u, 1, f)

LEMMA UptoIs ==
    ASSUME NEW T, NEW u \in Seq(T), NEW f \in 0..Len(u)
    PROVE  Upto(u, f) \in Seq(T) /\ Len(Upto(u, f)) = f /\ \A i \in 1..f : Upto(u, f)[i] = u[i]
<1>1. \A i \in 1..f : u[i] \in T
  <2> SUFFICES ASSUME NEW i \in 1..f PROVE u[i] \in T
    OBVIOUS
  <2>1. i \in 1..Len(u)
    OBVIOUS
  <2> QED
    BY <2>1, ElementOfSeq
<1>2. /\ Upto(u, f) \in Seq(T)
      /\ Len(Upto(u, f)) = IF 1 <= f THEN f - 1 + 1 ELSE 0
      /\ \A i \in 1..(f - 1 + 1) : Upto(u, f)[i] = u[1 + i - 1]
  BY <1>1, SubSeqProperties DEF Upto
<1>3. ASSUME NEW i \in 1..f PROVE Upto(u, f)[i] = u[i]
  <2>1. i \in 1..(f - 1 + 1) /\ 1 + i - 1 = i
    OBVIOUS
  <2>2. Upto(u, f)[i] = u[1 + i - 1]
    BY <1>2, <2>1
  <2> QED
    BY <2>1, <2>2
<1> QED
  BY <1>2, <1>3

\* What is read next.
LEMMA UptoGrows ==
    ASSUME NEW T, NEW u \in Seq(T), NEW f \in Nat, NEW n \in Nat, f + n <= Len(u)
    PROVE  LET s == SubSeq(u, f + 1, f + n)
           IN  s \in Seq(T) /\ Len(s) = n /\ Upto(u, f + n) = Upto(u, f) \o s
<1>1. Len(u) \in Nat /\ f \in 0..Len(u) /\ f + n \in 0..Len(u)
  OBVIOUS
<1> DEFINE s == SubSeq(u, f + 1, f + n)
<1>2. \A i \in (f + 1)..(f + n) : u[i] \in T
  <2> SUFFICES ASSUME NEW i \in (f + 1)..(f + n) PROVE u[i] \in T
    OBVIOUS
  <2>1. i \in 1..Len(u)
    BY <1>1
  <2> QED
    BY <2>1, ElementOfSeq
<1>3. /\ s \in Seq(T) /\ Len(s) = IF f + 1 <= f + n THEN f + n - (f + 1) + 1 ELSE 0
      /\ \A i \in 1..(f + n - (f + 1) + 1) : s[i] = u[f + 1 + i - 1]
  BY <1>1, <1>2, SubSeqProperties
<1> HIDE DEF s
<1>4. Len(s) = n
  BY <1>3
<1>5. ASSUME NEW i \in 1..n PROVE s[i] = u[f + i]
  <2>1. i \in 1..(f + n - (f + 1) + 1) /\ f + 1 + i - 1 = f + i
    OBVIOUS
  <2>2. s[i] = u[f + 1 + i - 1]
    BY <1>3, <2>1
  <2> QED
    BY <2>1, <2>2
<1>6. Upto(u, f) \in Seq(T) /\ Len(Upto(u, f)) = f /\ \A i \in 1..f : Upto(u, f)[i] = u[i]
  BY <1>1, UptoIs
<1>7. /\ Upto(u, f + n) \in Seq(T) /\ Len(Upto(u, f + n)) = f + n
      /\ \A i \in 1..(f + n) : Upto(u, f + n)[i] = u[i]
  BY <1>1, UptoIs
<1> PICK a, b, c : a = Upto(u, f) /\ b = Upto(u, f + n) /\ c = a \o s
  OBVIOUS
<1>8. /\ c \in Seq(T) /\ Len(c) = Len(a) + Len(s)
      /\ \A i \in 1..(Len(a) + Len(s)) : c[i] = IF i <= Len(a) THEN a[i] ELSE s[i - Len(a)]
  <2>1. a \in Seq(T) /\ s \in Seq(T)
    BY <1>3, <1>6
  <2> QED
    BY <2>1, ConcatProperties
<1>9. Len(c) = f + n
  BY <1>4, <1>6, <1>8
<1>10. ASSUME NEW i \in 1..(f + n) PROVE b[i] = c[i]
  <2>1. b[i] = u[i]
    BY <1>7
  <2>2. CASE i <= f
    <3>1. i \in 1..f
      BY <2>2
    <3> QED
      BY <1>4, <1>6, <1>8, <2>1, <2>2, <3>1
  <2>3. CASE ~(i <= f)
    <3>1. i - f \in 1..n /\ f + (i - f) = i
      BY <2>3
    <3>2. s[i - f] = u[i]
      BY <1>5, <3>1
    <3> QED
      BY <1>4, <1>6, <1>8, <2>1, <2>3, <3>2
  <2> QED
    BY <2>2, <2>3
<1> QED
  BY <1>3, <1>4, <1>7, <1>8, <1>9, <1>10, SeqEqual DEF s

\* A tail of what was read, as a stretch of the stream.
LEMMA TailOfUpto ==
    ASSUME NEW T, NEW u \in Seq(T), NEW f \in 0..Len(u), NEW s \in Seq(T)
    PROVE  /\ IsTail(s, Upto(u, f)) <=> Len(s) <= f /\ s = SubSeq(u, f - Len(s) + 1, f)
           /\ IsTail(s, Upto(u, f)) => Agree(s, 0, u, f - Len(s), Len(s))
<1>1. Upto(u, f) \in Seq(T) /\ Len(Upto(u, f)) = f /\ \A i \in 1..f : Upto(u, f)[i] = u[i]
  BY UptoIs
<1> PICK t, n : t = Upto(u, f) /\ n = Len(s)
  OBVIOUS
<1>2. n \in Nat /\ f \in Nat /\ Len(u) \in Nat
  OBVIOUS
<1>3. ASSUME n <= f
      PROVE  Agree(t, f - n, u, f - n, n) /\ SubSeq(t, f - n + 1, f) = SubSeq(u, f - n + 1, f)
  <2> PICK p : p = f - n
    OBVIOUS
  <2>0. p \in Nat
    BY <1>2, <1>3
  <2>1. p + n = f /\ p + n <= Len(t) /\ p + n <= Len(u)
    BY <1>1, <1>2
  <2>2. ASSUME NEW j \in 1..n PROVE t[p + j] = u[p + j]
    <3>1. p + j \in 1..f
      BY <1>2, <2>0, <2>1
    <3> QED
      BY <1>1, <3>1
  <2>3. Agree(t, p, u, p, n)
    BY <2>2 DEF Agree
  <2>4. SubSeq(t, p + 1, p + n) = SubSeq(u, p + 1, p + n)
    <3>1. t \in Seq(T)
      BY <1>1
    <3>2. p \in Nat /\ n \in Nat
      BY <1>2, <2>0
    <3> QED
      BY <2>1, <2>3, <3>1, <3>2, SameStretch
  <2>5. SubSeq(t, p + 1, f) = SubSeq(u, p + 1, f)
    BY <2>1, <2>4, Zenon
  <2> QED
    BY <2>3, <2>5, Zenon
<1>4. IsTail(s, t) <=> n <= f /\ s = SubSeq(u, f - n + 1, f)
  BY <1>1, <1>3 DEF IsTail
<1>5. ASSUME IsTail(s, t) PROVE Agree(s, 0, u, f - n, n)
  <2>1. n <= f /\ \A i \in 1..n : s[i] = t[f - n + i]
    <3>1. Len(s) <= Len(t) /\ \A i \in 1..Len(s) : s[i] = t[Len(t) - Len(s) + i]
      <4>1. t \in Seq(T)
        BY <1>1
      <4> QED
        BY <1>5, <4>1, TailByElements
    <3>2. Len(t) = f
      BY <1>1
    <3> QED
      BY <3>1, <3>2, Zenon
  <2>2. Agree(t, f - n, u, f - n, n)
    BY <1>3, <2>1
  <2>3. ASSUME NEW j \in 1..n PROVE s[0 + j] = u[f - n + j]
    <3>1. 0 + j = j
      OBVIOUS
    <3> QED
      BY <2>1, <2>2, <3>1 DEF Agree
  <2> QED
    BY <2>3 DEF Agree
<1> QED
  BY <1>4, <1>5

\* A fragment is intact wherever it stands: what is true of it in front of the cache
\* is true of the place in the stream that it came from.
LEMMA IntactInStream ==
    ASSUME NEW T, Lengths(T), NEW s \in Seq(T), NEW u \in Seq(T), NEW q \in Nat,
           q + Len(s) <= Len(u), Agree(s, 0, u, q, Len(s)), IntactAt(s, 0)
    PROVE  /\ IntactAt(u, q) /\ FragmentAt(u, q) = FragmentAt(s, 0)
           /\ EndAt(u, q) = q + EndAt(s, 0) /\ EndAt(s, 0) \in 1..Len(s)
<1>n. PICK n \in Nat : n = Len(Magic)
  BY RBufferAssumption
<1>l. PICK len \in Nat : len = LenAt(s, 0)
  BY HeadLength DEF IntactAt
<1>c. PICK c \in Nat : c = n + 4 + len
  OBVIOUS
<1>1. /\ n + 4 <= Len(s) /\ MagicAt(s, 0) /\ s[n + 1][1] = "tschema" /\ s[n + 2][1] = "schema"
      /\ s[n + 3] = <<"schema end", s[n + 2][2]>> /\ s[n + 4][1] = "array"
  BY <1>n, HeadInFront DEF IntactAt
<1>2. SumAt(s, 0) = c
  <2>1. 0 + Len(Magic) + 4 + len = c
    BY <1>n, <1>c
  <2> QED
    BY <1>l, <2>1 DEF SumAt
<1>3. c + 1 <= Len(s) /\ s[c + 1][1] = "array"
  BY <1>2 DEF IntactAt
<1>4. c + 1 \in 1..Len(s)
  <2>1. c + 1 <= Len(s)
    BY <1>3
  <2> QED
    BY <2>1
<1>k. PICK k \in Nat : k = s[c + 1][2]
  <2>1. s[c + 1] \in T
    BY <1>4, ElementOfSeq
  <2> QED
    BY <1>3, <2>1 DEF Lengths
<1>5. EndAt(s, 0) = c + 1 + k
  BY <1>2, <1>k DEF EndAt
<1>6. /\ c + 1 + k <= Len(s)
      /\ SubSeq(s, c + 2, c + 1 + k) \in {<<>>, <<Hash(SubSeq(s, 0 + 1, c))>>}
  BY <1>2, <1>5 DEF IntactAt
<1>7. \A j \in 1..Len(s) : u[q + j] = s[j]
  <2> SUFFICES ASSUME NEW j \in 1..Len(s) PROVE u[q + j] = s[j]
    OBVIOUS
  <2>1. s[0 + j] = u[q + j] /\ 0 + j = j
    BY DEF Agree
  <2> QED
    BY <2>1
\* Any stretch of the cache is one of the stream.
<1> DEFINE Same(p, r, m) == SubSeq(s, p + 1, p + m) = SubSeq(u, r + 1, r + m)
<1>8. ASSUME NEW p \in Nat, NEW m \in Nat, p + m <= Len(s), NEW r \in Nat, r = q + p
      PROVE  Same(p, r, m)
  <2>1. r + m <= Len(u)
    BY <1>8
  <2>2. ASSUME NEW j \in 1..m PROVE s[p + j] = u[r + j]
    <3>1. p + j \in 1..Len(s) /\ r + j = q + (p + j)
      BY <1>8
    <3> QED
      BY <1>7, <3>1
  <2>3. Agree(s, p, u, r, m)
    BY <2>2 DEF Agree
  <2>4. SubSeq(s, p + 1, p + m) = SubSeq(u, r + 1, r + m)
    BY <1>8, <2>1, <2>3, SameStretch
  <2> QED
    BY <2>4
<1> HIDE DEF Same
<1>9. n + 4 <= Len(s)
  BY <1>1
<1>10. c + 1 + k <= Len(s)
  BY <1>6
<1>11. /\ n + 1 \in 1..Len(s) /\ n + 2 \in 1..Len(s) /\ n + 3 \in 1..Len(s) /\ n + 4 \in 1..Len(s)
       /\ c + 1 + k \in 1..Len(s) /\ c <= Len(s)
  BY <1>4, <1>9, <1>10
\* The places in the stream.
<1>v. PICK v \in Nat : v = q + n
  OBVIOUS
<1>w. PICK w \in Nat : w = q + c
  OBVIOUS
<1>12. /\ s[n + 1] = u[v + 1] /\ s[n + 2] = u[v + 2] /\ s[n + 3] = u[v + 3]
       /\ s[n + 4] = u[v + 4] /\ s[c + 1] = u[w + 1]
  <2>1. /\ q + (n + 1) = v + 1 /\ q + (n + 2) = v + 2 /\ q + (n + 3) = v + 3
        /\ q + (n + 4) = v + 4 /\ q + (c + 1) = w + 1
    BY <1>v, <1>w
  <2>2. /\ u[q + (n + 1)] = s[n + 1] /\ u[q + (n + 2)] = s[n + 2] /\ u[q + (n + 3)] = s[n + 3]
        /\ u[q + (n + 4)] = s[n + 4] /\ u[q + (c + 1)] = s[c + 1]
    BY <1>4, <1>7, <1>11, Zenon
  <2> QED
    BY <2>1, <2>2, Zenon
<1>13. v + 4 <= Len(u) /\ w + 1 <= Len(u) /\ w + 1 + k <= Len(u)
  <2>1. c + 1 <= Len(s)
    BY <1>4
  <2> QED
    BY <1>9, <1>10, <1>v, <1>w, <2>1
<1>14. SubSeq(s, 1, n) = SubSeq(u, q + 1, v)
  <2>1. 0 \in Nat /\ 0 + n <= Len(s) /\ q = q + 0 /\ 0 + n = n /\ 0 + 1 = 1 /\ q + n = v
    BY <1>9, <1>v
  <2>2. Same(0, q, n)
    BY <1>8, <2>1
  <2> QED
    BY <2>1, <2>2, Zenon DEF Same
<1>15. SubSeq(s, 1, c) = SubSeq(u, q + 1, w)
  <2>1. 0 \in Nat /\ 0 + c <= Len(s) /\ q = q + 0 /\ 0 + c = c /\ 0 + 1 = 1 /\ q + c = w
    BY <1>11, <1>w
  <2>2. Same(0, q, c)
    BY <1>8, <2>1
  <2> QED
    BY <2>1, <2>2, Zenon DEF Same
<1>16. SubSeq(s, c + 2, c + 1 + k) = SubSeq(u, w + 2, w + 1 + k)
  <2>1. /\ c + 1 \in Nat /\ w + 1 \in Nat /\ (c + 1) + k <= Len(s) /\ w + 1 = q + (c + 1)
        /\ (c + 1) + 1 = c + 2 /\ (w + 1) + 1 = w + 2
    BY <1>10, <1>w
  <2>2. Same(c + 1, w + 1, k)
    BY <1>8, <2>1
  <2> QED
    BY <2>1, <2>2, Zenon DEF Same
<1>17. SubSeq(s, n + 5, c) = SubSeq(u, v + 5, w)
  <2>1. /\ n + 4 \in Nat /\ v + 4 \in Nat /\ v + 4 = q + (n + 4) /\ (n + 4) + len = c
        /\ (v + 4) + len = w /\ (n + 4) + 1 = n + 5 /\ (v + 4) + 1 = v + 5
    BY <1>c, <1>v, <1>w
  <2>2. (n + 4) + len <= Len(s)
    BY <1>11, <2>1
  <2>3. Same(n + 4, v + 4, len)
    BY <1>8, <2>1, <2>2
  <2> QED
    BY <2>1, <2>3, Zenon DEF Same
\* What stands there.
<1>18. q + Len(Magic) = v /\ 0 + Len(Magic) = n /\ 0 + 1 = 1
  BY <1>n, <1>v
<1>19. HeadAt(u, q)
  <2>1. SubSeq(u, q + 1, v) = Magic
    BY <1>1, <1>14, <1>18 DEF MagicAt
  <2> QED
    BY <1>1, <1>12, <1>13, <1>18, <2>1 DEF HeadAt
<1>20. LenAt(u, q) = len /\ SumAt(u, q) = w
  <2>1. LenAt(s, 0) = s[n + 4][2] /\ LenAt(u, q) = u[v + 4][2]
    BY <1>18 DEF LenAt
  <2>2. LenAt(u, q) = len
    BY <1>l, <1>12, <2>1
  <2>3. v + 4 + len = w
    BY <1>c, <1>v, <1>w
  <2> QED
    BY <1>18, <2>2, <2>3 DEF SumAt
<1>21. EndAt(u, q) = w + 1 + k
  BY <1>12, <1>20, <1>k DEF EndAt
<1>22. EndAt(u, q) = q + EndAt(s, 0)
  <2>1. w + 1 + k = q + (c + 1 + k)
    BY <1>w
  <2> QED
    BY <1>5, <1>21, <2>1
<1>23. IntactAt(u, q)
  <2>1. SubSeq(u, w + 2, w + 1 + k) \in {<<>>, <<Hash(SubSeq(u, q + 1, w))>>}
    BY <1>6, <1>15, <1>16, <1>18
  <2>2. u[w + 1][1] = "array"
    BY <1>3, <1>12
  <2> QED
    BY <1>13, <1>19, <1>20, <1>21, <2>1, <2>2 DEF IntactAt
<1>24. FragmentAt(u, q) = FragmentAt(s, 0)
  <2>1. FragmentAt(s, 0) = [schema |-> s[n + 2][2], payload |-> SubSeq(s, n + 5, c)]
    BY <1>2, <1>18 DEF FragmentAt
  <2>2. FragmentAt(u, q) = [schema |-> u[v + 2][2], payload |-> SubSeq(u, v + 5, w)]
    BY <1>18, <1>20 DEF FragmentAt
  <2> QED
    BY <1>12, <1>17, <2>1, <2>2
<1> QED
  BY <1>5, <1>11, <1>22, <1>23, <1>24
=============================================================================
