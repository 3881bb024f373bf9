----------------------------- MODULE MCDispatch -----------------------------
(***************************************************************************)
(* Small instances of Dispatch: one or two jobs of one or two chunks, two  *)
(* nodes, of which n1 may be the leader's own.                             *)
(***************************************************************************)
EXTENDS DispatchContract, TLC

CONSTANTS n1, n2,     \* the nodes
          j1, j2      \* the jobs

OneJob == {j1}
TwoJobs == {j1, j2}
OneChunk == {1}
TwoChunks == {1, 2}
AllOfJ1 == [c \in Chunks |-> j1]
JobEach == [c \in Chunks |-> IF c = 1 THEN j1 ELSE j2]
OnlyN2ForJ2 == [j \in Jobs |-> IF j = j2 THEN {n2} ELSE Nodes]
NodeSymmetry == Permutations(Nodes)   \* when no node is the leader's
AnyNode == [j \in Jobs |-> Nodes]
=============================================================================
