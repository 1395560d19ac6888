-------------------------- MODULE MCOrderExecution --------------------------
(* Model-checking instances of OrderExecution: the constants are bound in the *)
(* configuration files; symbols are interchangeable in the safety runs.       *)
EXTENDS OrderExecution, TLC

SymbolSymmetry == Permutations(Symbols)
=============================================================================
