-------------------------- MODULE MCTradingStrategy -------------------------
(***************************************************************************)
(* Model values for TradingStrategy: three prices and logarithms that are  *)
(* concave, as logarithms are, and coarse against the costs, so that       *)
(* positions are extended, reversed, restarted and held.                   *)
(***************************************************************************)
EXTENDS TradingStrategy

MCLog == [p \in Prices |-> CASE p = 1 -> 0 [] p = 2 -> 5 [] OTHER -> 9]
=============================================================================
