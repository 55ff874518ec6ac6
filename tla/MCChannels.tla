----------------------------- MODULE MCChannels -----------------------------
(***************************************************************************)
(* The instance TLC checks: two stores link the same page and the same     *)
(* Instagram account. Stores and links are interchangeable.                *)
(***************************************************************************)
EXTENDS Channels, TLC

Symmetry == Permutations(Store) \cup Permutations(Flow)
=============================================================================
