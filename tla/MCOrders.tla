---- MODULE MCOrders ----
(***************************************************************************)
(* Small instances of Orders for TLC.                                      *)
(***************************************************************************)
EXTENDS Orders, TLC

CONSTANTS shirt, shirtM, shirtL, o1, o2, k1, k2

MCProductOf == [v \in Variant |-> shirt]

(* Units of a single Sku. *)
Only(n, t) == [s \in Sku |-> IF s = t THEN n ELSE 0]

(* Two units of the product or of a variant, or one of each variant:       *)
(* together they fit, fit exactly or overdraw the level of 2.              *)
MCBasket ==
    {Only(2, s) : s \in Sku} \cup {[s \in Sku |-> IF s \in Variant THEN 1 ELSE 0]}

Symmetric == Permutations({o1, o2}) \cup Permutations({k1, k2}) \cup Permutations(Variant)
====
