-------------------------- MODULE MCLevel3Loading ---------------------------
(***************************************************************************)
(* Level3Loading for TLC: all orders are alike.                            *)
(***************************************************************************)
EXTENDS Level3Loading

Symmetry == Permutations(Orders)
=============================================================================
