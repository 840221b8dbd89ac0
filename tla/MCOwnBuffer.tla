---------------------------- MODULE MCOwnBuffer -----------------------------
(***************************************************************************)
(* Two messages of the same class with different TIDs and two of another  *)
(* class; m4 has more fragments than Int16Max, so that its ids wrap.       *)
(***************************************************************************)
EXTENDS OwnBuffer, TLC

CONSTANTS m1, m2, m3, m4, A, B, x, y

MCTypesOf == m1 :> A @@ m2 :> A @@ m3 :> B @@ m4 :> B
MCTIDOf   == m1 :> x @@ m2 :> y @@ m3 :> x @@ m4 :> y

MCCount      == m1 :> 3 @@ m2 :> 1 @@ m3 :> 2 @@ m4 :> 5
MCPayloadLen == m1 :> 3 @@ m2 :> 2 @@ m3 :> 3 @@ m4 :> 1
MCLastLen    == m1 :> 2 @@ m2 :> 2 @@ m3 :> 2 @@ m4 :> 1
=============================================================================
