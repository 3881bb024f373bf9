--------------------------- MODULE DispatchContract ---------------------------
(***************************************************************************)
(* Dispatch keeps the promises of ChunkContract: how a row of the chunk    *)
(* table reads as the status of a chunk.                                   *)
(***************************************************************************)
EXTENDS Dispatch

StatusState(s) ==
    CASE s = "pending"   -> "open"
      [] s = "assigned"  -> "held"
      [] s = "completed" -> "done"
      [] s = "failed"    -> "givenUp"
      [] s = "stopped"   -> "stopped"

\* A completed or failed row still names its last node.
StatusOf(row) ==
    [state |-> StatusState(row.state), holder |-> row.node, tried |-> row.failedOn]

StatusMap == [c \in Chunks |-> StatusOf(chunk[c])]

Undisturbed == INSTANCE ChunkContract WITH status <- StatusMap, Revocable <- FALSE
Disturbed   == INSTANCE ChunkContract WITH status <- StatusMap, Revocable <- TRUE

\* While no operator interferes and no POST times out, every statement on the
\* chunk table, from whichever thread and however late the report behind it,
\* is a step of the contract: what is done or given up stays so.
KeepsTheContract == Undisturbed!Spec

\* Whatever operators, networks and nodes do, short of assigning chunks by hand.
KeepsTheLooseContract == Disturbed!Spec
=============================================================================
