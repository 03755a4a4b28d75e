------------------------------ MODULE MCBundle ------------------------------
(* Instances of Bundle: two accounts, three transactions. *)
EXTENDS Bundle, TLC

CONSTANTS a1, a2, t1, t2, t3

MCFrom == t1 :> a1 @@ t2 :> a2 @@ t3 :> a1
MCTo == t1 :> a2 @@ t2 :> a1 @@ t3 :> a2

(* Two bundles share a transaction, and one holds a transaction twice. *)
MCBundles == {<<t1, t2>>, <<t2, t3>>, <<t3, t3>>}
=============================================================================
