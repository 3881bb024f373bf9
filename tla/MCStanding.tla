----------------------------- MODULE MCStanding -----------------------------
(***************************************************************************)
(* Two nodes; two failures in a window bench a node.                       *)
(***************************************************************************)
EXTENDS Standing

CONSTANTS a, b
=============================================================================
