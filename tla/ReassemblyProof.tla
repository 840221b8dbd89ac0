-------------------------- MODULE ReassemblyProof ---------------------------
(***************************************************************************)
(* Proofs about Reassembly, for all messages, fragments and deliveries.    *)
(*                                                                         *)
(* The inductive invariant says where fragments are: each Buffer holds     *)
(* fragments of the key it is filed under, at the index of their id        *)
(* (FiledUnder), and what was delivered was complete when it was taken.    *)
(***************************************************************************)
EXTENDS Reassembly, RBufferProof

----------------------------------------------------------------------------
(* The inductive invariant *)

TypeInv ==
    /\ wire \subseteq Fragments
    /\ registered \subseteq Types
    /\ results \in [Keys -> Buffers] /\ unregistered \in [Keys -> Buffers]
    /\ delivered \in Seq(Buffers)

DeliveredComplete ==
    \A n \in DOMAIN delivered :
        Complete(delivered[n]) /\ \E k \in Keys : FiledUnder(delivered[n], k)

IInv == TypeInv /\ Filed(results) /\ Filed(unregistered) /\ DeliveredComplete

LEMMA InitIInv == Init => IInv
<1> SUFFICES ASSUME Init PROVE IInv
  OBVIOUS
<1>1. TypeInv
  BY EmptyIsABuffer, ReassemblyAssumption DEF Init, TypeInv
<1>2. Filed(results) /\ Filed(unregistered)
  BY EmptyIsABuffer DEF Init, Filed
<1>3. DeliveredComplete
  BY DEF Init, DeliveredComplete
<1> QED
  BY <1>1, <1>2, <1>3 DEF IInv

LEMMA NextIInv == IInv /\ [Next]_vars => IInv'
<1> SUFFICES ASSUME IInv, [Next]_vars PROVE IInv'
  OBVIOUS
<1> USE DEF IInv, TypeInv
<1>1. CASE UNCHANGED vars
  BY <1>1 DEF vars, Filed, DeliveredComplete
<1>2. ASSUME NEW f \in Fragments, Lose(f) PROVE IInv'
  BY <1>2 DEF Lose, Filed, DeliveredComplete
<1>3. ASSUME NEW f \in Fragments, PushKnown(f) PROVE IInv'
  <2>1. results' \in [Keys -> Buffers] /\ Filed(results')
    BY <1>3, PushIntoMap DEF PushKnown
  <2>2. UNCHANGED <<registered, unregistered, delivered>> /\ wire' \subseteq Fragments
    BY <1>3 DEF PushKnown, Receive
  <2> QED
    BY <2>1, <2>2 DEF Filed, DeliveredComplete
<1>4. ASSUME NEW f \in Fragments, PushUnknown(f) PROVE IInv'
  <2>1. unregistered' \in [Keys -> Buffers] /\ Filed(unregistered')
    BY <1>4, PushIntoMap DEF PushUnknown
  <2>2. UNCHANGED <<registered, results, delivered>> /\ wire' \subseteq Fragments
    BY <1>4 DEF PushUnknown, Receive
  <2> QED
    BY <2>1, <2>2 DEF Filed, DeliveredComplete
<1>5. ASSUME NEW t \in Types, Register(t) PROVE IInv'
  BY <1>5 DEF Register, Filed, DeliveredComplete
<1>6. ASSUME NEW t \in Types, NEW id \in TID, Take(t, id) PROVE IInv'
  <2> DEFINE b == results[<<t, id>>]
  <2>1. <<t, id>> \in Keys /\ b \in Buffers /\ FiledUnder(b, <<t, id>>) /\ Complete(b)
    BY <1>6 DEF Take, Keys, Filed
  <2>2. /\ delivered' = Append(delivered, b)
        /\ results' = [results EXCEPT ![<<t, id>>] = EmptyBuffer]
        /\ UNCHANGED <<wire, registered, unregistered>>
    BY <1>6 DEF Take
  <2>3. TypeInv' /\ Filed(results)'
    BY <2>1, <2>2, EmptyIsABuffer DEF Filed
  <2>4. DeliveredComplete'
    <3> HIDE DEF b
    <3>1. \A n \in DOMAIN delivered' :
            delivered'[n] = b \/ (n \in DOMAIN delivered /\ delivered'[n] = delivered[n])
      BY <2>1, <2>2
    <3> QED
      BY <3>1, <2>1 DEF DeliveredComplete
  <2> QED
    BY <2>2, <2>3, <2>4 DEF Filed
<1> QED
  BY <1>1, <1>2, <1>3, <1>4, <1>5, <1>6 DEF Next

THEOREM Invariance == Spec => []IInv
BY InitIInv, NextIInv, PTL DEF Spec

----------------------------------------------------------------------------
(* What follows from it *)

\* Every Buffer of results_ and unregistered_ holds fragments of the key it is filed
\* under, at the index of their id (pushFragment, tssd.cc:314; Push, buffer.cc:190).
THEOREM TypeCorrect == Spec => []TypeOK
<1>1. IInv => TypeOK
  BY DEF IInv, TypeInv, Filed, DeliveredComplete, TypeOK
<1> QED
  BY <1>1, Invariance, PTL

\* A delivered Buffer of a good message is that message.
LEMMA DeliveredIs ==
    ASSUME IInv, NEW n \in DOMAIN delivered, NEW m \in Message, Good(m),
           <<delivered[n].types, delivered[n].tid>> = Key(m)
    PROVE  Whole(delivered[n], m)
<1>1. delivered[n] \in Buffers /\ Complete(delivered[n])
  BY DEF IInv, TypeInv, DeliveredComplete
<1>2. PICK k \in Keys : FiledUnder(delivered[n], k)
  BY DEF IInv, DeliveredComplete
<1>3. delivered[n].types # NoTypes
  BY FragmentBufferAssumption DEF Key
<1>4. k = Key(m)
  BY <1>2, <1>3 DEF FiledUnder, Keys, Key
<1> QED
  BY <1>1, <1>2, <1>4, CompleteIsWhole

\* In every order of arrivals, losses, duplicates and registrations, a Buffer that is
\* handed out for a message is that message, whole, in order and alone
\* (Buffer, tssd.cc:269).
THEOREM DeliveryIsWhole == Spec => []DeliveredWhole
<1>1. IInv => DeliveredWhole
  BY DeliveredIs DEF DeliveredWhole, Of
<1> QED
  BY <1>1, Invariance, PTL

----------------------------------------------------------------------------
(* Push asks for the first missing fragment *)

\* At every moment, what Push and Wanted answer for a message is the first of its
\* fragments that the Buffer lacks, and 0 exactly when it lacks none (buffer.cc:214).
THEOREM WantsTheMissing == Spec => []WantedIsMissing
<1>1. IInv => WantedIsMissing
  <2> SUFFICES ASSUME IInv, NEW m \in Message, Good(m)
               PROVE  LET b    == results[Key(m)]
                          have == {b.frags[i].no : i \in DOMAIN b.frags}
                      IN  /\ Wanted(b) = 0 <=> have = 1..Count[m]
                          /\ Wanted(b) # 0 => /\ Wanted(b) \in 1..Count[m] \ have
                                              /\ 1..(Wanted(b) - 1) \subseteq have
    BY DEF WantedIsMissing
  <2> DEFINE b    == results[Key(m)]
             Dom  == DOMAIN b.frags
             have == {b.frags[i].no : i \in Dom}
             N    == Count[m]
  <2>1. N \in Nat \ {0} /\ Key(m) \in Keys
    BY FragmentBufferAssumption DEF Key, Keys
  <2>2. b \in Buffers /\ FiledUnder(b, Key(m))
    BY <2>1 DEF IInv, TypeInv, Filed
  <2> HIDE DEF b
  <2>3. \A i \in Dom : /\ i \in 0..(N - 1)
                       /\ b.frags[i].no = i + 1
                       /\ b.frags[i].fid < 0 <=> i = N - 1
    <3> SUFFICES ASSUME NEW i \in Dom
                 PROVE  /\ i \in 0..(N - 1)
                        /\ b.frags[i].no = i + 1
                        /\ b.frags[i].fid < 0 <=> i = N - 1
      OBVIOUS
    <3>1. b.frags[i] = FragmentOf(m, i + 1)
      BY <2>2, FiledFragments
    <3>2. FragmentOf(m, i + 1).no = i + 1
      BY DEF FragmentOf
    <3> QED
      BY <2>2, <3>1, <3>2, FiledFragments
  <2>4. have = {i + 1 : i \in Dom}
    BY <2>3
  <2>5. Complete(b) <=> Dom = 0..(N - 1)
    <3>1. ASSUME Complete(b) PROVE Dom = 0..(N - 1)
      <4>1. PICK i \in Dom : b.frags[i].fid < 0 /\ 0..i \subseteq Dom
        BY <3>1 DEF Complete
      <4> QED
        BY <2>3, <4>1
    <3>2. ASSUME Dom = 0..(N - 1) PROVE Complete(b)
      <4>1. N - 1 \in Dom
        BY <2>1, <3>2
      <4> QED
        BY <2>3, <3>2, <4>1 DEF Complete
    <3> QED
      BY <3>1, <3>2
  <2> HIDE DEF Dom, have
  <2>6. Dom \subseteq 0..(N - 1)
    BY <2>3
  <2>7. CASE Complete(b)
    <3>1. Wanted(b) = 0
      BY <2>7 DEF Wanted
    <3>2. have = 1..N
      <4>1. Dom = 0..(N - 1)
        BY <2>5, <2>7
      <4>2. have = {i + 1 : i \in 0..(N - 1)}
        BY <2>4, <4>1
      <4> HIDE DEF N
      <4>3. \A j \in 1..N : j - 1 \in 0..(N - 1) /\ (j - 1) + 1 = j
        BY <2>1
      <4> QED
        BY <2>1, <4>2, <4>3
    <3> QED
      BY <3>1, <3>2 DEF have, b, Dom
  <2>8. CASE ~Complete(b)
    <3> DEFINE g == FirstGap(b)
    <3>1. PICK c \in 0..Cardinality(Dom) : c \notin Dom /\ c < N /\ 0..(c - 1) \subseteq Dom
      BY <2>1, <2>5, <2>6, <2>8, FirstGapExists
    <3>2. g \in 0..Cardinality(Dom) /\ g \notin Dom /\ 0..(g - 1) \subseteq Dom
      BY <3>1 DEF FirstGap, Dom
    <3> HIDE DEF g
    <3>3. g \in Nat /\ g <= c
      BY <3>1, <3>2
    <3>4. Wanted(b) = g + 1
      BY <2>8 DEF Wanted, g
    <3>5. /\ g + 1 \in 1..N \ have
          /\ 1..g \subseteq have
      BY <2>1, <2>4, <2>6, <3>1, <3>2, <3>3
    <3> QED
      BY <3>3, <3>4, <3>5, <2>1 DEF have, b, Dom
  <2> QED
    BY <2>7, <2>8
<1> QED
  BY <1>1, Invariance, PTL

----------------------------------------------------------------------------
(* A fragment of a message that is not repeated is in one place *)

Once == {f \in Fragments : f.msg \notin Repeated}

OnePlace ==
    \A f \in Once :
        /\ f \in wire => ~Holds(results[KeyOf(f)], f)
        /\ \A n \in DOMAIN delivered :
              Holds(delivered[n], f) => f \notin wire /\ ~Holds(results[KeyOf(f)], f)
        /\ \A n1, n2 \in DOMAIN delivered :
              Holds(delivered[n1], f) /\ Holds(delivered[n2], f) => n1 = n2

LEMMA InitOnePlace == Init => OnePlace
<1> SUFFICES ASSUME Init, NEW f \in Fragments
             PROVE  ~Holds(results[KeyOf(f)], f) /\ DOMAIN delivered = {}
  BY DEF OnePlace, Once
<1>1. KeyOf(f) \in Keys
  BY FragmentType DEF KeyOf
<1> QED
  BY <1>1, EmptyIsABuffer DEF Init

LEMMA NextOnePlace ==
    ASSUME IInv, OnePlace, [Next]_vars
    PROVE  OnePlace'
<1> USE DEF IInv, TypeInv
<1>1. CASE UNCHANGED vars
  BY <1>1 DEF vars, OnePlace
<1>2. ASSUME NEW g \in Fragments, Lose(g) PROVE OnePlace'
  BY <1>2 DEF Lose, OnePlace
<1>3. ASSUME NEW g \in Fragments, PushKnown(g) PROVE OnePlace'
  <2>1. /\ g \in wire /\ wire' \subseteq wire /\ delivered' = delivered
        /\ g \in Once => wire' = wire \ {g}
        /\ results' = [results EXCEPT ![KeyOf(g)] = Push(results[KeyOf(g)], g)]
    BY <1>3 DEF PushKnown, Receive, KeyOf, Once
  <2>2. KeyOf(g) \in Keys
    BY FragmentType DEF KeyOf
  <2>3. \A f : Holds(Push(results[KeyOf(g)], g), f) => f = g \/ Holds(results[KeyOf(g)], f)
    BY <2>2, PushFiles DEF Filed, KeyOf
  <2>4. ASSUME NEW f \in Fragments, Holds(results'[KeyOf(f)], f)
        PROVE  f = g \/ Holds(results[KeyOf(f)], f)
    <3>1. KeyOf(f) \in Keys
      BY FragmentType DEF KeyOf
    <3> QED
      BY <2>1, <2>2, <2>3, <2>4, <3>1
  <2> QED
    BY <2>1, <2>4 DEF OnePlace, Once
<1>4. ASSUME NEW g \in Fragments, PushUnknown(g) PROVE OnePlace'
  BY <1>4 DEF PushUnknown, Receive, OnePlace, Once
<1>5. ASSUME NEW t \in Types, Register(t) PROVE OnePlace'
  BY <1>5 DEF Register, OnePlace
<1>6. ASSUME NEW t \in Types, NEW id \in TID, Take(t, id) PROVE OnePlace'
  <2> DEFINE b == results[<<t, id>>]
  <2>1. /\ <<t, id>> \in Keys /\ b \in Buffers /\ FiledUnder(b, <<t, id>>)
        /\ delivered' = Append(delivered, b) /\ wire' = wire
        /\ results' = [results EXCEPT ![<<t, id>>] = EmptyBuffer]
    BY <1>6 DEF Take, Keys, Filed
  <2>2. ASSUME NEW f \in Fragments, Holds(b, f)
        PROVE  KeyOf(f) = <<t, id>>
    BY <2>1, <2>2 DEF FiledUnder, Holds, KeyOf
  <2>3. ASSUME NEW f \in Fragments, Holds(results'[KeyOf(f)], f)
        PROVE  KeyOf(f) # <<t, id>> /\ Holds(results[KeyOf(f)], f)
    <3>1. KeyOf(f) \in Keys
      BY FragmentType DEF KeyOf
    <3> QED
      BY <2>1, <2>3, <3>1, EmptyIsABuffer
  <2> HIDE DEF b
  <2>4. /\ DOMAIN delivered' = DOMAIN delivered \cup {Len(delivered) + 1}
        /\ delivered'[Len(delivered) + 1] = b
        /\ \A n \in DOMAIN delivered : delivered'[n] = delivered[n] /\ n # Len(delivered) + 1
    BY <2>1
  <2>5. \A f \in Fragments : Holds(b, f) => Holds(results[KeyOf(f)], f)
    BY <2>2 DEF b
  <2> QED
    BY <2>1, <2>2, <2>3, <2>4, <2>5 DEF OnePlace, Once
<1> QED
  BY <1>1, <1>2, <1>3, <1>4, <1>5, <1>6 DEF Next

LEMMA InOnePlace == Spec => []OnePlace
BY Invariance, InitOnePlace, NextOnePlace, PTL DEF Spec

----------------------------------------------------------------------------
(* The Buffers of one message *)

LEMMA OnceEach ==
    ASSUME IInv, OnePlace, NEW n1 \in DOMAIN delivered, NEW n2 \in DOMAIN delivered,
           NEW m \in Message \ Repeated, Whole(delivered[n1], m), Whole(delivered[n2], m)
    PROVE  n1 = n2
BY WholeHoldsFirst DEF OnePlace, Once

\* A message the transport does not repeat is not handed out twice, not even in part,
\* whatever happens to others (Buffer erases what it hands out, tssd.cc:274).
THEOREM DeliveredAtMostOnce == Spec => []AtMostOnce
<1>1. IInv /\ OnePlace => AtMostOnce
  BY DeliveredIs, OnceEach DEF AtMostOnce, Of
<1> QED
  BY <1>1, Invariance, InOnePlace, PTL

----------------------------------------------------------------------------
(* Reassembly implements Delivery *)

LEMMA RefinesInit == Init => D!Init
<1> SUFFICES ASSUME Init PROVE D!Init
  OBVIOUS
<1>1. delivered = <<>> /\ DOMAIN delivered = {}
  BY DEF Init
<1>2. Out = <<>>
  BY <1>1 DEF Out
<1>3. Pending = Message
  BY <1>1, <1>2, ReassemblyAssumption DEF Pending
<1> QED
  BY <1>2, <1>3 DEF D!Init

LEMMA RefinesNext ==
    ASSUME \A m \in Message : Good(m), IInv, OnePlace', [Next]_vars
    PROVE  [D!Next]_<<Pending, Out>>
<1>1. CASE delivered' = delivered
  BY <1>1 DEF Out, Pending
<1>2. ASSUME NEW t \in Types, NEW id \in TID, Take(t, id) PROVE D!Next
  <2> DEFINE b    == results[<<t, id>>]
             m    == b.frags[0].msg
             last == Len(delivered) + 1
  <2>1. /\ <<t, id>> \in Keys /\ b \in Buffers
        /\ Complete(b) /\ FiledUnder(b, <<t, id>>)
        /\ delivered \in Seq(Buffers) /\ delivered' = Append(delivered, b)
    BY <1>2 DEF Take, Keys, IInv, TypeInv, Filed
  <2> HIDE DEF b
  <2>2. /\ DOMAIN delivered' = 1..last /\ DOMAIN delivered = 1..Len(delivered)
        /\ Len(delivered) \in Nat
        /\ delivered'[last] = b
        /\ \A n \in 1..Len(delivered) : delivered'[n] = delivered[n]
    BY <2>1
  <2>3. m \in Message /\ Whole(b, m)
    BY <2>1, MessageOf
  <2>4. \A n \in DOMAIN delivered : Out[n] \in Message /\ Whole(delivered[n], Out[n])
    BY MessageOf DEF IInv, TypeInv, DeliveredComplete, Out
  <2>5. m \notin Repeated => \A n \in DOMAIN delivered : Out[n] # m
    <3> SUFFICES ASSUME m \notin Repeated, NEW n \in DOMAIN delivered, Out[n] = m PROVE FALSE
      OBVIOUS
    <3>1. n \in DOMAIN delivered' /\ last \in DOMAIN delivered' /\ n # last
      BY <2>2
    <3>2. Whole(delivered'[n], m) /\ Whole(delivered'[last], m)
      BY <2>2, <2>3, <2>4
    <3> QED
      BY <3>1, <3>2, <2>3, WholeHoldsFirst DEF OnePlace, Once
  <2>6. /\ Out' = [n \in 1..last |-> IF n = last THEN m ELSE Out[n]]
        /\ Out \in Seq(Message) /\ Len(Out) = Len(delivered)
        /\ DOMAIN Out = 1..Len(delivered)
    BY <2>2, <2>4 DEF Out
  <2>7. Out' = Append(Out, m)
    BY <2>2, <2>3, <2>6
  <2>8. m \in Pending /\ Pending' = Pending \ ({m} \ Repeated)
    <3>1. DOMAIN Out' = 1..last /\ Out'[last] = m
          /\ \A n \in DOMAIN Out : Out'[n] = Out[n]
      BY <2>2, <2>6
    <3> HIDE DEF m
    <3> QED
      BY <3>1, <2>2, <2>3, <2>5, <2>6 DEF Pending
  <2> QED
    BY <2>3, <2>7, <2>8 DEF D!Next, D!Deliver
<1>3. CASE Next /\ delivered' # delivered
  BY <1>2, <1>3 DEF Next, Lose, PushKnown, PushUnknown, Register
<1> QED
  BY <1>1, <1>2, <1>3 DEF vars

\* RBuffer keeps Delivery's promise: with good messages, what the application gets is
\* a sequence of messages that were written, each at most once unless it is repeated.
THEOREM Implements ==
    ASSUME \A m \in Message : Good(m)
    PROVE  Spec => ImplementsDelivery
<1>1. Spec => []IInv /\ []OnePlace
  BY Invariance, InOnePlace
<1>2. IInv /\ OnePlace' /\ [Next]_vars => [D!Next]_<<Pending, Out>>
  BY RefinesNext
<1> QED
  BY <1>1, <1>2, RefinesInit, PTL DEF Spec, ImplementsDelivery, D!Spec
=============================================================================
