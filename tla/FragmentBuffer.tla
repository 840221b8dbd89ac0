--------------------------- MODULE FragmentBuffer ---------------------------
(***************************************************************************)
(* The receive side of tssd::Buffer (buffer.h, buffer.cc): the fragments a *)
(* message is cut into, and the Buffer they are pushed into.  The payload  *)
(* of a fragment is abstracted to its length; `msg' and `no' name the      *)
(* message a fragment was cut from, for the properties only.               *)
(***************************************************************************)
EXTENDS Integers, FiniteSets

CONSTANTS
    Message,    \* the messages that are written
    Types,      \* hashes of the Types of the registered classes (Schema.Types)
    TID,        \* transaction ids (Schema.TID)
    NoTypes,    \* the empty Schema.Types of a Buffer nothing was pushed into
    TypesOf, TIDOf,  \* [Message -> Types], [Message -> TID]
    Count,      \* [Message -> Nat \ {0}], fragments of the message
    PayloadLen, \* [Message -> Nat \ {0}], payload bytes of its full fragments
    LastLen,    \* [Message -> Nat \ {0}], payload bytes of its last fragment
    Int16Max    \* the largest std::int16_t

ASSUME FragmentBufferAssumption ==
    /\ NoTypes \notin Types
    /\ TypesOf \in [Message -> Types] /\ TIDOf \in [Message -> TID]
    /\ Count \in [Message -> Nat \ {0}] /\ PayloadLen \in [Message -> Nat \ {0}]
    /\ LastLen \in [Message -> Nat \ {0}]
    /\ Int16Max \in Nat

\* What a std::int16_t holds after n was stored in it.
Int16(n) == ((n + Int16Max + 1) % (2 * (Int16Max + 1))) - (Int16Max + 1)

\* The i-th fragment of m as it arrives: the last one has the id -i.
FragmentOf(m, i) ==
    [types |-> TypesOf[m], tid |-> TIDOf[m],
     fid   |-> Int16(IF i = Count[m] THEN -i ELSE i),
     len   |-> IF i = Count[m] THEN LastLen[m] ELSE PayloadLen[m],
     msg   |-> m, no |-> i]

FragmentsOf(m) == {FragmentOf(m, i) : i \in 1..Count[m]}
Fragments      == UNION {FragmentsOf(m) : m \in Message}

\* Every id of the message fits the std::int16_t of Schema.FID, and no other
\* message was given its Types and its TID.
Good(m) ==
    /\ Count[m] <= Int16Max
    /\ \A o \in Message : (TypesOf[o] = TypesOf[m] /\ TIDOf[o] = TIDOf[m]) => o = m

----------------------------------------------------------------------------
(* fragments_ is a partial function on the index |FID| - 1. *)

EmptyBuffer == [types |-> NoTypes, tid |-> NoTypes, size |-> 0,
                frags |-> [i \in {} |-> 0]]

Index(f) == (IF f.fid < 0 THEN -f.fid ELSE f.fid) - 1

\* Push, up to its return value: the first fragment lends the Buffer its schema,
\* before the fragment's own id is looked at.
Bound(b, f) == IF b.types = NoTypes
               THEN [b EXCEPT !.types = f.types, !.tid = f.tid] ELSE b

\* Mutant of Rejects: the TID is not compared.
RejectsTypesOnly(b, f) == Bound(b, f).types # f.types \/ f.fid = 0

Rejects(b, f) == \/ Bound(b, f).types # f.types
                 \/ Bound(b, f).tid # f.tid
                 \/ f.fid = 0

\* Mutants of Push: fragments are filed as they come; a duplicate counts again.
PushInOrder(b, f) ==
    IF Rejects(b, f) THEN Bound(b, f)
    ELSE [Bound(b, f) EXCEPT
            !.size  = @ + f.len,
            !.frags = [i \in 0..Cardinality(DOMAIN b.frags) |->
                          IF i = Cardinality(DOMAIN b.frags) THEN f ELSE b.frags[i]]]
PushCounts(b, f) ==
    IF Rejects(b, f) THEN Bound(b, f)
    ELSE [Bound(b, f) EXCEPT
            !.size  = @ + f.len,
            !.frags = [i \in DOMAIN b.frags \cup {Index(f)} |->
                          IF i = Index(f) THEN f ELSE b.frags[i]]]

Push(b, f) ==
    IF Rejects(b, f) THEN Bound(b, f)
    ELSE [Bound(b, f) EXCEPT
            !.size  = IF Index(f) \in DOMAIN b.frags THEN @ ELSE @ + f.len,
            !.frags = [i \in DOMAIN b.frags \cup {Index(f)} |->
                          IF i = Index(f) THEN f ELSE b.frags[i]]]

\* Mutants of Complete: the last fragment is enough; a single fragment is not.
CompleteByLast(b)   == \E i \in DOMAIN b.frags : b.frags[i].fid < 0
CompleteIfSeveral(b) ==
    \E i \in DOMAIN b.frags \ {0} : b.frags[i].fid < 0 /\ 0..i \subseteq DOMAIN b.frags

\* Wanted: 0 when the fragments up to one with a negative id are all there,
\* else the number of the first one that is not.
Complete(b) == \E i \in DOMAIN b.frags : b.frags[i].fid < 0 /\ 0..i \subseteq DOMAIN b.frags

\* Mutant of FirstGap: as many as there are.
FirstGapByCount(b) == Cardinality(DOMAIN b.frags)

FirstGap(b) == CHOOSE g \in 0..Cardinality(DOMAIN b.frags) :
                  g \notin DOMAIN b.frags /\ 0..(g - 1) \subseteq DOMAIN b.frags

Wanted(b) == IF Complete(b) THEN 0 ELSE FirstGap(b) + 1

\* Buffers are filed by the Types and the TID of their fragments.
Keys   == Types \X TID
Key(m) == <<TypesOf[m], TIDOf[m]>>

Holds(b, f) == \E i \in DOMAIN b.frags : b.frags[i] = f

\* A Buffer filed under k holds fragments of k only, each at the index of its id,
\* and took k as its schema with the first of them.
FiledUnder(b, k) ==
    /\ b.types \in {NoTypes, k[1]} /\ b.tid = (IF b.types = NoTypes THEN NoTypes ELSE k[2])
    /\ b.types = NoTypes => b.frags = EmptyBuffer.frags
    /\ \A i \in DOMAIN b.frags :
          /\ i \in Nat
          /\ b.frags[i] \in Fragments
          /\ b.frags[i].types = k[1] /\ b.frags[i].tid = k[2]
          /\ Index(b.frags[i]) = i

\* A Buffer that holds the message m and nothing else.
Whole(b, m) ==
    /\ DOMAIN b.frags = 0..(Count[m] - 1)
    /\ \A i \in DOMAIN b.frags : b.frags[i] = FragmentOf(m, i + 1)
=============================================================================
