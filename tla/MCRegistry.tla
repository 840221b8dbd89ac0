----------------------------- MODULE MCRegistry -----------------------------
(***************************************************************************)
(* A family of three versions, each decorated from the one before, as in   *)
(* decorate_test.cc, and a family whose newer version refuses to decorate. *)
(***************************************************************************)
EXTENDS Registry, TLC

CONSTANTS v1, v2, v3, w, u, F, G

MCFamilyOf  == v1 :> F @@ v2 :> F @@ v3 :> F @@ w :> G @@ u :> G
MCProgenyOf == v1 :> v2 @@ v2 :> v3 @@ v3 :> NoClass @@ w :> u @@ u :> NoClass
MCDecorates == {<<v2, v1>>, <<v3, v2>>}

\* Every class has members of its own.
OwnLayouts  == v1 :> v1 @@ v2 :> v2 @@ v3 :> v3 @@ w :> w @@ u :> u
=============================================================================
