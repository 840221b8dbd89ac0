---------------------------- MODULE MCReassembly ----------------------------
(***************************************************************************)
(* Instances of Reassembly: two classes of two registered, one of them     *)
(* with two messages under way at the same time.                           *)
(***************************************************************************)
EXTENDS Reassembly, TLC

CONSTANTS m1, m2, m3, A, B, x, y

\* m1 and m2 are of one class and differ in their TID, m3 is of another class
\* and carries m1's TID.
MCTypesOf == m1 :> A @@ m2 :> A @@ m3 :> B
MCTIDOf   == m1 :> x @@ m2 :> y @@ m3 :> x

MCCount      == m1 :> 3 @@ m2 :> 1 @@ m3 :> 2
MCPayloadLen == m1 :> 4 @@ m2 :> 4 @@ m3 :> 3
MCLastLen    == m1 :> 1 @@ m2 :> 2 @@ m3 :> 3
=============================================================================
