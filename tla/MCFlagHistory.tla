--------------------------- MODULE MCFlagHistory ---------------------------
(* The instances of MCFlagService with the history variables. *)
EXTENDS MCFlagService, FlagHistoryInvariant
=============================================================================
