--------------------------- MODULE MCFarmCommands ---------------------------
(***************************************************************************)
(* Two nodes, either of which may lead while the other edits.              *)
(***************************************************************************)
EXTENDS FarmCommands

OneJob == {"j1"}
=============================================================================
