------------------------------ MODULE Standing ------------------------------
(***************************************************************************)
(* The standing of the nodes: NodeFailureTracker in the memory of whoever  *)
(* leads benches a node that fails too often, every node keeps a mirror of *)
(* the leader's verdicts, and a button on any of them clears one.          *)
(*                                                                         *)
(* Who leads is Failover's: here the lead passes from node to node.  Which *)
(* chunk a node gets is Dispatch's: here a node that is not held back      *)
(* renders.                                                                *)
(***************************************************************************)
EXTENDS Naturals, Sequences, FiniteSets

CONSTANTS
    Nodes,
    Threshold,   \* SUSPEND_THRESHOLD
    Faults,      \* what may go wrong
    Failing,     \* the nodes whose renders may fail
    MaxFailures, \* bound: failed renders of each
    MaxChanges,  \* bound: changes of leader
    MaxMishaps   \* bound: faults

ASSUME StandingAssumption ==
    /\ Failing \subseteq Nodes /\ Threshold \in Nat \ {0}
    /\ Faults \subseteq {"lost", "lostAnswer"}
    /\ MaxFailures \in Nat /\ MaxChanges \in Nat /\ MaxMishaps \in Nat

VARIABLES
    leader,      \* the node that leads
    tracker,     \* m_failureTracker of each node
    failureQueue,\* m_failureQueue of each node
    recorded,    \* failed renders whose chunk the database has moved on from
    rendering,   \* the nodes that render
    outbox,      \* failed renders in each node's m_pendingReports
    clears,      \* POSTs of /api/nodes/:id/unsuspend on their way
    mirror,      \* m_suspendedNodes of each node
    broken,      \* history: renders that failed, per node
    recent,      \* history: reports each tracker took in within the window
    changes, mishaps

reportVars == <<failureQueue, recorded, outbox, broken>>
vars       == <<leader, tracker, recent, reportVars, rendering, clears, mirror, changes, mishaps>>

Failure  == [node : Nodes, nr : 1 .. MaxFailures]
\* A failure as it is reported: 0, or the mishap after which it is sent again.
Delivery == [node : Nodes, nr : 1 .. MaxFailures, copy : 0 .. MaxMishaps]
Record  == [count : Nat, suspended : BOOLEAN, lapsed : BOOLEAN, cooling : BOOLEAN]

TypeOK ==
    /\ leader \in Nodes
    /\ tracker \in [Nodes -> [Nodes -> Record]]
    /\ failureQueue \in [Nodes -> Seq(Delivery)] /\ recorded \subseteq Failure
    /\ rendering \subseteq Nodes
    /\ outbox \in [Nodes -> SUBSET Failure]
    /\ \A n \in Nodes : \A r \in outbox[n] : r.node = n /\ r.nr <= broken[n]
    /\ clears \subseteq Nodes
    /\ mirror \in [Nodes -> SUBSET Nodes]
    /\ broken \in [Nodes -> 0 .. MaxFailures]
    /\ recent \in [Nodes -> [Nodes -> SUBSET Delivery]]
    /\ changes \in 0 .. MaxChanges /\ mishaps \in 0 .. MaxMishaps

NoRecord == [count |-> 0, suspended |-> FALSE, lapsed |-> FALSE, cooling |-> FALSE]

Init ==
    /\ leader \in Nodes
    /\ tracker = [l \in Nodes |-> [n \in Nodes |-> NoRecord]]
    /\ failureQueue = [n \in Nodes |-> <<>>] /\ recorded = {}
    /\ rendering = {} /\ outbox = [n \in Nodes |-> {}]
    /\ clears = {} /\ mirror = [n \in Nodes |-> {}]
    /\ broken = [n \in Nodes |-> 0]
    /\ recent = [l \in Nodes |-> [n \in Nodes |-> {}]]
    /\ changes = 0 /\ mishaps = 0

Mishap(f) == f \in Faults /\ mishaps < MaxMishaps /\ mishaps' = mishaps + 1

-----------------------------------------------------------------------------
(* NodeFailureTracker counts in windows of five minutes, each from its     *)
(* first failure on.                                                       *)

\* Mutant: the count goes on when a window is over.
CountedOn(r) == r.count + 1

Counted(r) == IF r.lapsed THEN 1 ELSE r.count + 1

RecordFailure(r) ==
    [count |-> Counted(r), lapsed |-> FALSE, cooling |-> TRUE,
     suspended |-> r.suspended \/ Counted(r) >= Threshold]

\* Mutant: a node that failed is held back until it is unsuspended.
NeverCools(r) == r.count > 0

InCooldown(r) == r.cooling /\ ~r.suspended

\* What the tracker of node l says.
Suspended(l) == {n \in Nodes : tracker[l][n].suspended}

\* More than five minutes since the first failure of the window.
WindowPasses(l, n) ==
    /\ tracker[l][n].count > 0 /\ ~tracker[l][n].lapsed
    /\ tracker' = [tracker EXCEPT ![l][n].lapsed = TRUE]
    /\ recent' = [recent EXCEPT ![l][n] = {}]
    /\ UNCHANGED <<leader, reportVars, rendering, clears, mirror, changes, mishaps>>

\* Thirty seconds since the last failure.
CooldownEnds(l, n) ==
    /\ tracker[l][n].cooling
    /\ tracker' = [tracker EXCEPT ![l][n].cooling = FALSE]
    /\ UNCHANGED <<leader, recent, reportVars, rendering, clears, mirror, changes, mishaps>>

-----------------------------------------------------------------------------
(* Renders and the reports of those that failed.                           *)

\* assignWork passes over a node that is suspended or cooling down.
StartRender(n) ==
    /\ n \notin rendering
    /\ n \notin Suspended(leader) /\ ~InCooldown(tracker[leader][n])
    /\ rendering' = rendering \cup {n}
    /\ UNCHANGED <<leader, tracker, recent, reportVars, clears, mirror, changes, mishaps>>

FinishRender(n) ==
    /\ n \in rendering
    /\ rendering' = rendering \ {n}
    /\ UNCHANGED <<leader, tracker, recent, reportVars, clears, mirror, changes, mishaps>>

\* Mutant: the report names the node it is sent to.
FailureOfLeader(n) == [node |-> leader, nr |-> broken[n] + 1]

FailureOf(n) == [node |-> n, nr |-> broken[n] + 1]

\* The leader's own node goes to failChunk past the tracker.
FailRender(n) ==
    /\ n \in rendering \cap Failing /\ broken[n] < MaxFailures
    /\ IF n = leader
       THEN recorded' = recorded \cup {FailureOf(n)} /\ UNCHANGED outbox
       ELSE outbox' = [outbox EXCEPT ![n] = @ \cup {FailureOf(n)}] /\ UNCHANGED recorded
    /\ broken' = [broken EXCEPT ![n] = @ + 1]
    /\ rendering' = rendering \ {n}
    /\ UNCHANGED <<leader, tracker, recent, failureQueue, clears, mirror, changes, mishaps>>

\* isChunkCurrent: the chunk is still assigned to the node for that attempt.
StillCurrent(r) == r \notin recorded

\* /api/dispatch/failed on the leader.
Receive(r, copy) ==
    failureQueue' = [failureQueue EXCEPT ![leader] =
        IF StillCurrent(r) THEN Append(@, [node |-> r.node, nr |-> r.nr, copy |-> copy]) ELSE @]

\* flushCompletionReports: when the answer is lost the report is sent again.
FlushReport(n, r) ==
    /\ r \in outbox[n]
    /\ \/ /\ Receive(r, 0) /\ outbox' = [outbox EXCEPT ![n] = @ \ {r}]
          /\ UNCHANGED mishaps
       \/ /\ Mishap("lostAnswer") /\ Receive(r, mishaps')
          /\ UNCHANGED outbox
    /\ UNCHANGED <<leader, tracker, recent, recorded, broken, rendering, clears, mirror, changes>>

\* processReports on the leader: the report counts against the node also when
\* failChunk finds it out of date.
ApplyFailure ==
    /\ failureQueue[leader] # <<>>
    /\ LET d == Head(failureQueue[leader])
       IN  /\ recorded' = recorded \cup {[node |-> d.node, nr |-> d.nr]}
           /\ tracker' = [tracker EXCEPT ![leader][d.node] = RecordFailure(@)]
           /\ recent' = [recent EXCEPT ![leader][d.node] = @ \cup {d}]
    /\ failureQueue' = [failureQueue EXCEPT ![leader] = Tail(@)]
    /\ UNCHANGED <<leader, outbox, broken, rendering, clears, mirror, changes, mishaps>>

\* An operator, an edit or a dead-worker reclaim moves the chunk on.
ChunkMovesOn(r) ==
    /\ r.nr <= broken[r.node] /\ r \notin recorded
    /\ recorded' = recorded \cup {r}
    /\ UNCHANGED <<leader, tracker, recent, failureQueue, outbox, broken, rendering, clears,
                   mirror, changes, mishaps>>

\* The next leader restores a snapshot that may be older; the tracker and the
\* queue of the last one stay in its memory, until it leads again.
ChangeLeader(l) ==
    /\ changes < MaxChanges /\ l # leader
    /\ leader' = l
    /\ recorded' \in SUBSET recorded
    /\ changes' = changes + 1
    /\ UNCHANGED <<tracker, recent, failureQueue, outbox, broken, rendering, clears, mirror,
                   mishaps>>

\* The leader's process starts anew.
RestartLeader ==
    /\ changes < MaxChanges
    /\ tracker' = [tracker EXCEPT ![leader] = [n \in Nodes |-> NoRecord]]
    /\ recent' = [recent EXCEPT ![leader] = [n \in Nodes |-> {}]]
    /\ failureQueue' = [failureQueue EXCEPT ![leader] = <<>>]
    /\ outbox' = [outbox EXCEPT ![leader] = {}]
    /\ mirror' = [mirror EXCEPT ![leader] = {}]
    /\ rendering' = rendering \ {leader}
    /\ recorded' \in SUBSET recorded
    /\ changes' = changes + 1
    /\ UNCHANGED <<leader, broken, clears, mishaps>>

-----------------------------------------------------------------------------
(* Unsuspending, and the mirrors.                                          *)

\* clearNode of node l's tracker: n starts over.
ClearNode(l, n) ==
    /\ tracker' = [tracker EXCEPT ![l][n] = NoRecord]
    /\ recent' = [recent EXCEPT ![l][n] = {}]

\* unsuspendNode: the leader clears its tracker, others ask the leader.
Unsuspend(m, n) ==
    IF m = leader
    THEN ClearNode(m, n) /\ UNCHANGED clears
    ELSE clears' = clears \cup {n} /\ UNCHANGED <<tracker, recent>>

\* The user of node m picks a node that m shows as suspended.
UnsuspendNode(m, n) ==
    /\ n \in mirror[m] /\ m # n
    /\ Unsuspend(m, n)
    /\ UNCHANGED <<leader, reportVars, rendering, mirror, changes, mishaps>>

\* The node's own button: the mirror forgets the node before the leader does.
UnsuspendThisNode(m) ==
    /\ m \in mirror[m]
    /\ Unsuspend(m, m)
    /\ mirror' = [mirror EXCEPT ![m] = @ \ {m}]
    /\ UNCHANGED <<leader, reportVars, rendering, changes, mishaps>>

ClearArrives(n) ==
    /\ n \in clears
    /\ clears' = clears \ {n}
    /\ ClearNode(leader, n)
    /\ UNCHANGED <<leader, reportVars, rendering, mirror, changes, mishaps>>

ClearLost(n) ==
    /\ n \in clears /\ Mishap("lost")
    /\ clears' = clears \ {n}
    /\ UNCHANGED <<leader, tracker, recent, reportVars, rendering, mirror, changes>>

\* Mutant: a refresh adds verdicts and keeps the ones it shows.
MirrorMerged(m) == mirror[m] \cup Suspended(leader)

MirrorNext(m) == Suspended(leader)

\* refreshSuspendedNodes when the leader answers; otherwise the mirror stays.
RefreshMirror(m) ==
    /\ mirror' = [mirror EXCEPT ![m] = MirrorNext(m)]
    /\ UNCHANGED <<leader, tracker, recent, reportVars, rendering, clears, changes, mishaps>>

-----------------------------------------------------------------------------
Rendering ==
    \E n \in Nodes :
        \/ StartRender(n) \/ FinishRender(n) \/ FailRender(n)
        \/ \E r \in outbox[n] : FlushReport(n, r)

Leading ==
    \/ ApplyFailure \/ RestartLeader
    \/ \E r \in Failure : ChunkMovesOn(r)
    \/ \E n \in Nodes : ChangeLeader(n)
    \/ \E l, n \in Nodes : WindowPasses(l, n) \/ CooldownEnds(l, n)

Unsuspending ==
    \E n \in Nodes :
        \/ UnsuspendThisNode(n) \/ ClearArrives(n) \/ ClearLost(n) \/ RefreshMirror(n)
        \/ \E m \in Nodes : UnsuspendNode(m, n)

Next == Rendering \/ Leading \/ Unsuspending

Spec == Init /\ [][Next]_vars

(* Fairness: update() and the flush thread run for ever, POSTs end by their *)
(* timeouts, the cooldown is a matter of time, and assignWork runs every    *)
(* two seconds, also between failures that keep coming (SF).  A render      *)
(* need not end and nobody need press a button.                             *)
Fairness ==
    /\ WF_vars(ApplyFailure)
    /\ \A n \in Nodes :
         /\ SF_vars(StartRender(n))
         /\ WF_vars(\E r \in outbox[n] : FlushReport(n, r))
         /\ WF_vars(ClearArrives(n)) /\ WF_vars(RefreshMirror(n))
         /\ \A l \in Nodes : WF_vars(CooldownEnds(l, n))

FairSpec == Spec /\ Fairness

-----------------------------------------------------------------------------
(* Properties. *)

\* "The leader benched this node after N chunk failures": a tracker benches a
\* node when it has taken in as many reports of that node's failures as the
\* threshold asks, in one window and since the node was last cleared, no sooner
\* and no later.  Nothing carries over from an earlier window, from before an
\* unsuspend or a restart, or from what another leader has counted, and the
\* failure that opens a window is not forgotten.  A report that was queued
\* before its chunk moved on counts, and one whose answer was lost counts each
\* time it comes.
SuspensionIsEarned ==
    [][\A l, n \in Nodes :
         /\ tracker'[l][n].suspended /\ ~tracker[l][n].suspended
              => Cardinality(recent'[l][n]) >= Threshold
         /\ Cardinality(recent'[l][n]) >= Threshold => tracker'[l][n].suspended]_vars

\* What a node shows comes to agree with the leader for good: "If the leader
\* didn't actually clear it, the next refreshSuspendedNodes() puts it back."
MirrorsSettle ==
    \A m, n \in Nodes :
        /\ <>[](n \in Suspended(leader)) => <>[](n \in mirror[m])
        /\ <>[](n \notin Suspended(leader)) => <>[](n \notin mirror[m])

\* A failure holds a node back for a while only: unless it stays suspended, it
\* is given work again and again.
FailuresAreForgiven ==
    \A n \in Nodes : <>[](n \notin Suspended(leader)) => []<>(n \in rendering)
=============================================================================
