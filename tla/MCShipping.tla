---- MODULE MCShipping ----
(***************************************************************************)
(* Small instances of Shipping for TLC: one product without variants, so   *)
(* that the state space is spent on calls, statuses and couriers.          *)
(***************************************************************************)
EXTENDS Shipping, TLC

CONSTANTS cap, c1, c2, yalidine, zr

MCProductOf == [v \in Variant |-> cap]

OneUnit == {[s \in Sku |-> 1]}

Symmetric == Permutations(Caller) \cup Permutations(Provider)
====
