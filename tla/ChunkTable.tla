----------------------------- MODULE ChunkTable -----------------------------
(***************************************************************************)
(* The chunk rows of the leader's SQLite database and the statements that  *)
(* DatabaseManager runs on them.  Every statement holds the database mutex *)
(* from start to end, so each one is an operator from row to row that the  *)
(* modules of the processes apply in one step.                             *)
(*                                                                         *)
(* A row keeps what the statements compare or change: `state`, `node` (the *)
(* column assigned_to), `epoch` (edit_epoch), `retries` (retry_count),     *)
(* `failedOn`, and `id`, the AUTOINCREMENT key, which counts how often     *)
(* the row was deleted and inserted again.  Times and completed_frames are *)
(* left out.                                                               *)
(***************************************************************************)
EXTENDS Naturals

CONSTANTS Nodes,      \* node identities
          None        \* SQL NULL

ASSUME NoneAssumption == None \notin Nodes

ChunkStates == {"pending", "assigned", "completed", "failed", "stopped"}
JobStates   == {"active", "paused", "cancelled", "completed", "failed", "archived"}

Row == [state    : ChunkStates,
        node     : Nodes \cup {None},
        epoch    : Nat,
        retries  : Nat,
        failedOn : SUBSET Nodes,
        id       : Nat]

\* A row as insertChunks writes it: every column but the range has its
\* default, edit_epoch included.
FreshRow(id) == [state |-> "pending", node |-> None, epoch |-> 0,
                 retries |-> 0, failedOn |-> {}, id |-> id]

\* Mutant: the report's node is not compared.
IsChunkCurrentOnAnyNode(row, n, e) == row.state = "assigned" /\ row.epoch = e

\* Mutant: the report's epoch is not compared.
IsChunkCurrentInAnyEpoch(row, n, e) == row.state = "assigned" /\ row.node = n

\* The fence of completeChunk and failChunk: the report of node n, made
\* under epoch e, is about the attempt the row records.
IsChunkCurrent(row, n, e) ==
    /\ row.state = "assigned"
    /\ row.node = n
    /\ row.epoch = e

\* assignChunk: WHERE id = ? AND state = 'pending'.
Assignable(row, id) == row.state = "pending" /\ row.id = id

AssignChunk(row, n, e) ==
    [row EXCEPT !.state = "assigned", !.node = n, !.epoch = e]

CompleteChunk(row, n, e) ==
    IF IsChunkCurrent(row, n, e) THEN [row EXCEPT !.state = "completed"] ELSE row

Unassigned(row) == [row EXCEPT !.state = "pending", !.node = None]

\* What failChunk writes into a row: it blacklists the node, counts the
\* attempt, and either puts the row back or gives up and leaves assigned_to.
Failed(row, n, maxRetries) ==
    LET counted == [row EXCEPT !.failedOn = @ \cup {n}, !.retries = @ + 1]
    IN  IF row.retries + 1 < maxRetries THEN Unassigned(counted)
        ELSE [counted EXCEPT !.state = "failed"]

\* Mutant: failChunk before it was fenced.
FailChunkUnfenced(row, n, e, maxRetries) == Failed(row, n, maxRetries)

\* Mutant: the node is read from assigned_to after that was cleared.
FailChunkAfterClearing(row, n, e, maxRetries) ==
    IF IsChunkCurrent(row, n, e) THEN Failed(row, None, maxRetries) ELSE row

FailChunk(row, n, e, maxRetries) ==
    IF IsChunkCurrent(row, n, e) THEN Failed(row, n, maxRetries) ELSE row

\* revertChunkToPending has no condition on state, node or epoch.
RevertChunkToPending(row) == Unassigned(row)

ReassignDeadWorkerChunk(row, dead) ==
    IF row.state = "assigned" /\ row.node \in dead THEN Unassigned(row) ELSE row

Stoppable(row) == row.state \in {"pending", "assigned"}

StopChunk(row) == [row EXCEPT !.state = "stopped", !.node = None]

Reassignable(row) == row.state \in {"assigned", "failed", "stopped"}

\* reassignChunk with a target leaves edit_epoch as it was.
AssignDirectly(row, n) == [row EXCEPT !.state = "assigned", !.node = n]

ResetChunk(row) == [Unassigned(row) EXCEPT !.retries = 0, !.failedOn = {}]

ResetAssignedChunk(row) == IF row.state = "assigned" THEN Unassigned(row) ELSE row

\* Mutant: the rebuilt rows get NULL as edit_epoch.
RebuildChunkNoEpoch(row) == [FreshRow(row.id + 1) EXCEPT !.epoch = None]

RebuildChunk(row) == FreshRow(row.id + 1)

\* retryFailedChunks keeps the blacklist.
RetryFailedChunk(row) ==
    IF row.state = "failed" THEN [Unassigned(row) EXCEPT !.retries = 0] ELSE row

\* Mutant: a failed chunk keeps its job open.
CompletionStateIfAllDone(rows) ==
    IF \E r \in rows : r.state \notin {"completed", "stopped"} THEN None ELSE "completed"

\* getJobCompletionState over the rows of one job: None while a row is open.
CompletionState(rows) ==
    IF \E r \in rows : r.state \notin {"completed", "failed", "stopped"} THEN None
    ELSE IF \E r \in rows : r.state = "failed" THEN "failed"
    ELSE "completed"
=============================================================================
