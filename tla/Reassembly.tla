----------------------------- MODULE Reassembly -----------------------------
(***************************************************************************)
(* How RBuffer (tssd.h, tssd.cc) puts messages together: fragments arrive  *)
(* in any order, pushFragment files each under the version its Types hash  *)
(* is registered for and its TID, and Buffer() hands out a complete one.   *)
(*                                                                         *)
(* The two maps of RBuffer are total here: a TID with no Buffer and one    *)
(* with a Buffer nothing was pushed into behave alike.  A Types hash       *)
(* stands for the (family, version) it is registered for.                  *)
(***************************************************************************)
EXTENDS FragmentBuffer, Sequences

CONSTANTS
    Known,        \* Types registered from the start
    Late,         \* Types the application may register later
    Repeated,     \* messages whose fragments the transport may hand over again
    MaxDelivered  \* bound: Buffers of one key the application takes

ASSUME ReassemblyAssumption ==
    /\ Known \subseteq Types /\ Late \subseteq Types
    /\ Repeated \subseteq Message
    /\ MaxDelivered \in Nat

VARIABLES
    wire,         \* fragments that were written and may still arrive
    registered,   \* Manager::families.second
    results,      \* results_, by Types and TID
    unregistered, \* unregistered_, by Types and TID
    delivered     \* history: the Buffers handed to the application

vars == <<wire, registered, results, unregistered, delivered>>

Init ==
    /\ wire = Fragments
    /\ registered = Known
    /\ results = [k \in Keys |-> EmptyBuffer]
    /\ unregistered = [k \in Keys |-> EmptyBuffer]
    /\ delivered = <<>>

\* The transport hands over f, and may hand it over again if it repeats f's message.
Receive(f) ==
    /\ f \in wire
    /\ \/ wire' = wire \ {f}
       \/ f.msg \in Repeated /\ wire' = wire

Lose(f) ==
    /\ f \in wire
    /\ wire' = wire \ {f}
    /\ UNCHANGED <<registered, results, unregistered, delivered>>

\* pushFragment with a version for the fragment's Types.
PushKnown(f) ==
    /\ Receive(f)
    /\ f.types \in registered
    /\ results' = [results EXCEPT ![<<f.types, f.tid>>] = Push(@, f)]
    /\ UNCHANGED <<registered, unregistered, delivered>>

\* ... and without one.
PushUnknown(f) ==
    /\ Receive(f)
    /\ f.types \notin registered
    /\ unregistered' = [unregistered EXCEPT ![<<f.types, f.tid>>] = Push(@, f)]
    /\ UNCHANGED <<registered, results, delivered>>

\* Manager::Register: what unregistered_ holds stays there.
Register(t) ==
    /\ t \in Late \ registered
    /\ registered' = registered \cup {t}
    /\ UNCHANGED <<wire, results, unregistered, delivered>>

Of(b, k) == <<b.types, b.tid>> = k

\* Mutant of Take: the Buffer stays in the map.
TakeKeeps(t, id) ==
    /\ Cardinality({n \in DOMAIN delivered : Of(delivered[n], <<t, id>>)}) < MaxDelivered
    /\ Complete(results[<<t, id>>])
    /\ delivered' = Append(delivered, results[<<t, id>>])
    /\ UNCHANGED <<wire, registered, results, unregistered>>

\* RBuffer::Buffer(family, version): some Buffer that wants nothing (Wanted() is 0
\* exactly when it is Complete), erased from the map.
Take(t, id) ==
    /\ Cardinality({n \in DOMAIN delivered : Of(delivered[n], <<t, id>>)}) < MaxDelivered
    /\ Complete(results[<<t, id>>])
    /\ delivered' = Append(delivered, results[<<t, id>>])
    /\ results' = [results EXCEPT ![<<t, id>>] = EmptyBuffer]
    /\ UNCHANGED <<wire, registered, unregistered>>

Next ==
    \/ \E f \in Fragments : Lose(f)
    \/ \E f \in Fragments : PushKnown(f)
    \/ \E f \in Fragments : PushUnknown(f)
    \/ \E t \in Types : Register(t)
    \/ \E t \in Types, id \in TID : Take(t, id)

Spec == Init /\ [][Next]_vars

\* The reader keeps reading, and the application keeps asking.
Fairness ==
    /\ \A f \in Fragments : WF_vars(PushKnown(f))
    /\ \A t \in Types, id \in TID : WF_vars(Take(t, id))

FairSpec == Spec /\ Fairness

----------------------------------------------------------------------------
(* Properties *)

\* The types of the state: both maps file every Buffer under its own key, and
\* what was handed out is complete (pushFragment, Buffer).
TypeOK ==
    /\ wire \subseteq Fragments
    /\ registered \subseteq Types
    /\ DOMAIN results = Keys /\ DOMAIN unregistered = Keys
    /\ \A k \in Keys : FiledUnder(results[k], k) /\ FiledUnder(unregistered[k], k)
    /\ \A n \in DOMAIN delivered : \E k \in Keys : FiledUnder(delivered[n], k)

\* Whatever order fragments of several messages arrive in, repeated or not, what
\* Buffer() hands out for a message is that message, whole, in order and alone.
DeliveredWhole ==
    \A n \in DOMAIN delivered, m \in Message :
        (Good(m) /\ Of(delivered[n], Key(m)))
            => Whole(delivered[n], m)

\* A message the transport does not repeat does not come out twice, whatever it
\* repeats of others: its fragments are on the wire, in one Buffer, or handed out.
AtMostOnce ==
    \A m \in Message \ Repeated, n1, n2 \in DOMAIN delivered :
        (Good(m) /\ Of(delivered[n1], Key(m)) /\ Of(delivered[n2], Key(m))) => n1 = n2

\* Push's answer (buffer.h:165-176): it asks for a fragment the message has and
\* that did not arrive, the first such, and for none exactly when all arrived.
WantedIsMissing ==
    \A m \in Message : Good(m) =>
        LET b    == results[Key(m)]
            have == {b.frags[i].no : i \in DOMAIN b.frags}
        IN  /\ Wanted(b) = 0 <=> have = 1..Count[m]
            /\ Wanted(b) # 0 => /\ Wanted(b) \in 1..Count[m] \ have
                                /\ 1..(Wanted(b) - 1) \subseteq have

\* A message none of whose fragments was lost comes out in the end, if its class
\* was registered before the first of them arrived.
HandedOut(f) == \E n \in DOMAIN delivered : Holds(delivered[n], f)
Lost(f) == /\ f \notin wire /\ ~HandedOut(f)
           /\ ~Holds(results[<<f.types, f.tid>>], f)

ComesOut ==
    \A m \in Message :
        (Good(m) /\ TypesOf[m] \in Known) =>
            <>(\A f \in FragmentsOf(m) : HandedOut(f)) \/ <>(\E f \in FragmentsOf(m) : Lost(f))

\* RBuffer delivers as Delivery promises, when every message is good.
Out     == [n \in DOMAIN delivered |-> delivered[n].frags[0].msg]
Pending == Repeated \cup (Message \ {Out[n] : n \in DOMAIN Out})

D == INSTANCE Delivery WITH pending <- Pending, out <- Out

ImplementsDelivery == D!Spec
=============================================================================
