----------------------------- MODULE MCBacktest -----------------------------
(* The backtest on a small instance. *)
EXTENDS Backtest

Shape(low, close, high) == [low |-> low, close |-> close, high |-> high]

\* Prices of 3, 4 and 6, a bar that touches stop and target, a gap, a price of 0.
FewShapes == {Shape(2, 3, 3), Shape(3, 4, 4), Shape(1, 3, 6), Shape(5, 6, 7), Shape(0, 0, 2)}
=============================================================================
