----------------------------- MODULE AccountMC ------------------------------
(* A small instance of Account: two browsers, one of which asks for three  *)
(* things and the other for two.                                           *)
EXTENDS Account, TLC

CONSTANTS b1, b2

MCAsks == (b1 :> 3) @@ (b2 :> 2)
MCSymmetry == Permutations(Slots) \cup Permutations(Secrets)
=============================================================================
