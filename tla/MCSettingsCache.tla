--------------------------- MODULE MCSettingsCache ---------------------------
(* The settings cache on small instances. *)
EXTENDS SettingsCache
=============================================================================
