--------------------------- MODULE MCModelRegistry ---------------------------
(* Model versions on small instances. *)
EXTENDS ModelRegistry
=============================================================================
