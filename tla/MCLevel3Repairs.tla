-------------------------- MODULE MCLevel3Repairs ---------------------------
(***************************************************************************)
(* Level3Repairs for TLC: orders of one side are alike.                    *)
(***************************************************************************)
EXTENDS Level3Repairs

Symmetry == Permutations(Bids) \union Permutations(Orders \ Bids)
=============================================================================
