-------------------------- MODULE MCTradingEngine --------------------------
(* The trading loop on small instances. *)
EXTENDS TradingEngine, TLC

SymbolSymmetry == Permutations(Symbols)

=============================================================================
