----------------------------- MODULE MCFailover -----------------------------
(***************************************************************************)
(* Two nodes and one chunk.  The second carries the tag "leader", so the   *)
(* first, with the smaller id, leads until it has polled the second.       *)
(***************************************************************************)
EXTENDS Failover, TLC

OnlyTwo == {2}
TwoNodes == {1, 2}
SecondLeads == 1 :> "plain" @@ 2 :> "leader"
NoneLeads == 1 :> "noleader" @@ 2 :> "plain"
=============================================================================
