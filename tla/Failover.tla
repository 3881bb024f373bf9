------------------------------ MODULE Failover ------------------------------
(***************************************************************************)
(* Who leads, and with which database.  Every node keeps its own list of   *)
(* peers from endpoint files on the share, polls and multicast heartbeats, *)
(* and elects from that list alone: two nodes may lead at once.  A node    *)
(* that finds itself leader restores the farm's snapshot over its local    *)
(* database; a leader writes that snapshot every thirty seconds.           *)
(*                                                                         *)
(* One job, dispatched and reported without edits or failed renders (those *)
(* are Dispatch's), shows what a change of leader does to chunk rows.      *)
(***************************************************************************)
EXTENDS Naturals, FiniteSets, ChunkTable

CONSTANTS
    Chunks,
    Multicast,   \* config udp_enabled: heartbeats besides the polls
    Tag,         \* per node its election tag: "leader", "plain" or "noleader"
    Mortal,      \* the nodes that may go down
    DeadAfter,   \* failed polls in a row after which a peer is dead (3)
    Faults,      \* what may go wrong
    MaxMishaps,  \* bound: faults
    MaxSnapshots,\* bound: snapshots taken
    Torn,        \* a database file of which only a part has been copied
    Empty        \* a database without jobs

ASSUME FailoverAssumption ==
    /\ Nodes \subseteq Nat /\ IsFiniteSet(Nodes)
    /\ Multicast \in BOOLEAN /\ Mortal \subseteq Nodes
    /\ Tag \in [Nodes -> {"leader", "plain", "noleader"}]
    /\ Faults \subseteq {"crash", "leave", "partition", "share", "restart",
                    "unnoticed"}
    /\ DeadAfter \in Nat \ {0} /\ MaxMishaps \in Nat /\ MaxSnapshots \in Nat
    /\ Cardinality({None, Torn, Empty}) = 3
    /\ {None, Torn, Empty} \cap [Chunks -> Row] = {}

VARIABLES
    up,          \* the nodes whose farm is running
    endpoint,    \* the nodes with an endpoint.json on the share
    peers,       \* m_peers of each node
    toPoll,      \* the peers its pass has still to poll; None between passes
    leader,      \* m_leaderId
    wasLeader,   \* m_wasLeader
    opening,     \* what m_leaderThread is about to do
    ready,       \* m_leaderDbReady
    open,        \* m_databaseManager.isOpen()
    disk,        \* the local minrender.db
    snapshot,    \* state/snapshot.db on the share
    snapping,    \* the copy a detached snapshot thread is about to publish
    busy,        \* the chunk each node renders
    outbox,      \* m_pendingReports
    inbox,       \* m_completionQueue
    rendered,    \* history: renders that ended
    missed,      \* history: the nodes that missed a change of their role
    mishaps, taken

shareVars == <<endpoint, snapshot>>
peerVars  == <<peers, toPoll, leader>>
roleVars  == <<wasLeader, opening, ready, open>>
workVars  == <<busy, outbox, inbox, rendered>>
vars      == <<up, shareVars, peerVars, roleVars, disk, snapping, workVars, mishaps, taken, missed>>

Peer  == [alive : BOOLEAN, failed : 0 .. DeadAfter, tagged : BOOLEAN, heard : BOOLEAN]
Jobs  == [Chunks -> Row]
Files == Jobs \cup {Empty, Torn}

TypeOK ==
    /\ up \subseteq Nodes /\ endpoint \subseteq Nodes
    /\ peers \in [Nodes -> [Nodes -> Peer \cup {None}]]
    /\ toPoll \in [Nodes -> (SUBSET Nodes) \cup {None}]
    /\ leader \in [Nodes -> Nodes \cup {None}]
    /\ wasLeader \in [Nodes -> BOOLEAN]
    /\ opening \in [Nodes -> {"idle", "restore", "open"}]
    /\ ready \in [Nodes -> BOOLEAN] /\ open \in [Nodes -> BOOLEAN]
    /\ disk \in [Nodes -> Files \cup {None}] /\ snapshot \in Files
    /\ snapping \in [Nodes -> Jobs \cup {Empty, None}]
    /\ busy \in [Nodes -> Chunks \cup {None}]
    /\ outbox \in [Nodes -> SUBSET Chunks]
    /\ inbox \in [Nodes -> SUBSET (Nodes \X Chunks)]
    /\ rendered \subseteq Nodes \X Chunks
    /\ missed \subseteq Nodes
    /\ mishaps \in 0 .. MaxMishaps /\ taken \in 0 .. MaxSnapshots

NoPeers == [p \in Nodes |-> None]

\* The farm has just started on every node, with the endpoint files that
\* were already there; the job was in the last snapshot.
Init ==
    /\ up = Nodes /\ endpoint = Nodes
    /\ peers = [n \in Nodes |-> NoPeers]
    /\ toPoll = [n \in Nodes |-> None]
    /\ leader = [n \in Nodes |-> None]
    /\ wasLeader = [n \in Nodes |-> FALSE]
    /\ opening = [n \in Nodes |-> "idle"]
    /\ ready = [n \in Nodes |-> FALSE] /\ open = [n \in Nodes |-> FALSE]
    /\ disk = [n \in Nodes |-> None]
    /\ snapshot = [c \in Chunks |-> FreshRow(0)]
    /\ snapping = [n \in Nodes |-> None]
    /\ busy = [n \in Nodes |-> None]
    /\ outbox = [n \in Nodes |-> {}] /\ inbox = [n \in Nodes |-> {}]
    /\ rendered = {} /\ missed = {} /\ mishaps = 0 /\ taken = 0

Mishap(f) == f \in Faults /\ mishaps < MaxMishaps /\ mishaps' = mishaps + 1

Known(n)  == {p \in Nodes : peers[n][p] # None}
Alive(n)  == {p \in Known(n) : peers[n][p].alive}
IsLeader(n) == leader[n] = n

-----------------------------------------------------------------------------
(* The PeerManager thread: endpoint file, discovery, polls, election, and  *)
(* the heartbeats that reach m_peers from the main thread in between.      *)

NewPeer == [alive |-> TRUE, failed |-> 0, tagged |-> FALSE, heard |-> FALSE]

\* writeEndpoint and discoverPeers, then the list pollPeers will walk.  Peers
\* with multicast contact may be left out of it.
BeginPass(n) ==
    /\ n \in up /\ toPoll[n] = None
    /\ endpoint' = endpoint \cup {n}
    /\ LET found == (endpoint \ {n}) \ Known(n)
           known == Known(n) \cup found
       IN  /\ peers' = [peers EXCEPT ![n] =
                          [p \in Nodes |-> IF p \in found THEN NewPeer ELSE @[p]]]
           /\ \E skipped \in SUBSET {p \in Known(n) : peers[n][p].heard /\ peers[n][p].tagged} :
                toPoll' = [toPoll EXCEPT ![n] = known \ skipped]
    /\ UNCHANGED <<up, snapshot, leader, roleVars, disk, snapping, workVars, mishaps, taken, missed>>

\* What an answered poll overwrites in m_peers.
Polled(peer) == [peer EXCEPT !.alive = TRUE, !.failed = 0, !.tagged = TRUE]

\* GET /api/status is answered with the node's PeerInfo; only there do its
\* tags travel.
PollAnswered(n, p) ==
    /\ n \in up /\ toPoll[n] # None /\ p \in toPoll[n] /\ p \in up
    /\ peers' = [peers EXCEPT ![n][p] = Polled(@)]
    /\ toPoll' = [toPoll EXCEPT ![n] = @ \ {p}]
    /\ UNCHANGED <<up, shareVars, leader, roleVars, disk, snapping, workVars, mishaps, taken, missed>>

\* Too many failed polls and no heartbeat of the last ten seconds: dead.
FailPoll(peer) ==
    LET failed == IF peer.failed < DeadAfter THEN peer.failed + 1 ELSE DeadAfter
    IN  [peer EXCEPT !.failed = failed,
                     !.alive = @ /\ (failed < DeadAfter \/ peer.heard)]

PollFailed(n, p) ==
    /\ n \in up /\ toPoll[n] # None /\ p \in toPoll[n]
    /\ \/ p \notin up /\ UNCHANGED mishaps
       \/ p \in up /\ Mishap("partition")
    /\ peers' = [peers EXCEPT ![n][p] = FailPoll(@)]
    /\ toPoll' = [toPoll EXCEPT ![n] = @ \ {p}]
    /\ UNCHANGED <<up, shareVars, leader, roleVars, disk, snapping, workVars, taken, missed>>

\* The tags of a peer are known from its first answered poll on.
TagKnown(n, p) == IF p = n \/ peers[n][p].tagged THEN Tag[p] ELSE "plain"

Rank(tag) == IF tag = "leader" THEN 0 ELSE IF tag = "plain" THEN 1 ELSE 2

\* The candidate with the best tag, then the smallest id.
Elected(n, candidates) ==
    CHOOSE c \in candidates :
        \A d \in candidates :
            LET rc == Rank(TagKnown(n, c))
                rd == Rank(TagKnown(n, d))
            IN  rc < rd \/ (rc = rd /\ c <= d)

\* Mutant: a dead peer stays a candidate while its endpoint file exists.
CandidatesDeadToo(n) == {n} \cup Known(n)

Candidates(n) == {n} \cup Alive(n)

\* The end of the pass: dead peers without an endpoint file are forgotten,
\* recomputeLeader elects.
Elect(n) ==
    /\ n \in up /\ toPoll[n] = {}
    /\ toPoll' = [toPoll EXCEPT ![n] = None]
    /\ leader' = [leader EXCEPT ![n] = Elected(n, Candidates(n))]
    /\ peers' = [peers EXCEPT ![n] =
                   [p \in Nodes |-> IF p \in Known(n) \ Alive(n) /\ p \notin endpoint
                                    THEN None ELSE @[p]]]
    /\ UNCHANGED <<up, shareVars, roleVars, disk, snapping, workVars, mishaps, taken, missed>>

\* processUdpHeartbeat, for a known node; an unknown one is ignored.
Heard(peer) == [peer EXCEPT !.alive = TRUE, !.failed = 0, !.heard = TRUE]

\* A datagram of p may reach n; one that does not is never sent again.
Reaches(p, n) == Multicast /\ p \in up /\ n \in up \ {p}

\* sendUdpHeartbeat on p, handleUdpMessages on n.
Heartbeat(n, p) ==
    /\ Reaches(p, n) /\ p \in Known(n)
    /\ peers' = [peers EXCEPT ![n][p] = Heard(@)]
    /\ UNCHANGED <<up, shareVars, toPoll, leader, roleVars, disk, snapping, workVars,
                   mishaps, taken, missed>>

\* Ten seconds without a heartbeat of p: it no longer vetoes the verdict.
FallsSilent(n, p) ==
    /\ n \in up /\ p \in Known(n) /\ peers[n][p].heard
    /\ \/ p \notin up /\ UNCHANGED mishaps
       \/ p \in up /\ Mishap("partition")
    /\ peers' = [peers EXCEPT ![n][p].heard = FALSE]
    /\ UNCHANGED <<up, shareVars, toPoll, leader, roleVars, disk, snapping, workVars,
                   taken, missed>>

-----------------------------------------------------------------------------
(* Gaining and losing the lead, on the main thread and m_leaderThread.     *)

\* update() compares the role with that of its last call.  onBecomeLeader:
\* m_leaderThread is joined and started again.
BecomeLeader(n) ==
    /\ n \in up
    /\ IsLeader(n) /\ ~wasLeader[n]
    /\ opening[n] = "idle"
    /\ ready' = [ready EXCEPT ![n] = FALSE]
    /\ opening' = [opening EXCEPT ![n] = "restore"]
    /\ wasLeader' = [wasLeader EXCEPT ![n] = TRUE]
    /\ UNCHANGED <<up, shareVars, peerVars, open, disk, snapping, workVars, mishaps, taken, missed>>

\* Mutant: the thread that opens the database is not waited for.
ThreadIgnored(n) == TRUE

ThreadJoined(n) == opening[n] = "idle"

LoseLeadership(n) ==
    /\ n \in up
    /\ ~IsLeader(n) /\ wasLeader[n]
    /\ ThreadJoined(n)
    /\ ready' = [ready EXCEPT ![n] = FALSE]
    /\ open' = [open EXCEPT ![n] = FALSE]
    /\ wasLeader' = [wasLeader EXCEPT ![n] = FALSE]
    /\ UNCHANGED <<up, shareVars, peerVars, opening, disk, snapping, workVars,
                   mishaps, taken, missed>>

\* update() asks isLeader() a third time to set m_wasLeader.  A change between
\* its questions is taken for old news: neither function is called.
MissChange(n) ==
    /\ n \in up
    /\ IsLeader(n) # wasLeader[n] /\ Mishap("unnoticed")
    /\ wasLeader' = [wasLeader EXCEPT ![n] = IsLeader(n)]
    /\ missed' = missed \cup {n}
    /\ UNCHANGED <<up, shareVars, peerVars, opening, ready, open, disk, snapping, workVars,
                   taken>>

\* restoreFrom copies the snapshot over the local file and opens it; the copy
\* of a half-written snapshot does not open.
Restore(n) ==
    /\ n \in up /\ opening[n] = "restore"
    /\ disk' = [disk EXCEPT ![n] = snapshot]
    /\ opening' = [opening EXCEPT ![n] = IF snapshot = Torn THEN "open" ELSE "idle"]
    /\ open'  = [open EXCEPT ![n] = snapshot # Torn]
    /\ ready' = [ready EXCEPT ![n] = snapshot # Torn]
    /\ UNCHANGED <<up, shareVars, peerVars, wasLeader, snapping, workVars,
                   mishaps, taken, missed>>

\* copy_file fails, or the share does not show the snapshot.
RestoreFails(n) ==
    /\ n \in up /\ opening[n] = "restore" /\ Mishap("share")
    /\ opening' = [opening EXCEPT ![n] = "open"]
    /\ UNCHANGED <<up, shareVars, peerVars, wasLeader, open, ready, disk,
                   snapping, workVars, taken, missed>>

\* "opening fresh DB": the local file, whatever it holds.
OpenLocal(n) ==
    /\ n \in up /\ opening[n] = "open"
    /\ opening' = [opening EXCEPT ![n] = "idle"]
    /\ open'  = [open EXCEPT ![n] = disk[n] # Torn]
    /\ ready' = [ready EXCEPT ![n] = disk[n] # Torn]
    /\ disk'  = [disk EXCEPT ![n] = IF @ = None THEN Empty ELSE @]
    /\ UNCHANGED <<up, shareVars, peerVars, wasLeader, snapping, workVars,
                   mishaps, taken, missed>>

-----------------------------------------------------------------------------
(* The leader's dispatch cycle, its snapshots, and the reports.            *)

\* update() runs the dispatch cycle.
Dispatching(n) ==
    /\ n \in up
    /\ IsLeader(n) /\ wasLeader[n] /\ ready[n] /\ open[n]

\* A chunk goes to the leader itself or to a peer it believes alive; a peer
\* that renders for another leader refuses it, and the row is reverted.
AssignWork(l, m, c) ==
    /\ Dispatching(l) /\ disk[l] \in Jobs
    /\ m = l \/ m \in Alive(l)
    /\ m \in up /\ busy[m] = None
    /\ disk[l][c].state = "pending"
    /\ disk' = [disk EXCEPT ![l][c] = AssignChunk(@, m, 0)]
    /\ busy' = [busy EXCEPT ![m] = c]
    /\ UNCHANGED <<up, shareVars, peerVars, roleVars, snapping, outbox, inbox, rendered,
                   mishaps, taken, missed>>

\* detectDeadWorkers looks at the peers in the list, not at the nodes the
\* rows name.
DetectDeadWorkers(l) ==
    /\ Dispatching(l) /\ disk[l] \in Jobs
    /\ LET dead == Known(l) \ Alive(l)
       IN  disk' = [disk EXCEPT ![l] =
                      [c \in Chunks |-> ReassignDeadWorkerChunk(@[c], dead)]]
    /\ UNCHANGED <<up, shareVars, peerVars, roleVars, snapping, workVars, mishaps, taken, missed>>

\* processReports.
ProcessReports(l) ==
    /\ Dispatching(l) /\ inbox[l] # {}
    /\ disk' = IF disk[l] \notin Jobs THEN disk
               ELSE [disk EXCEPT ![l] =
                       [c \in Chunks |-> IF \E m \in Nodes : /\ <<m, c>> \in inbox[l]
                                                             /\ IsChunkCurrent(@[c], m, 0)
                                         THEN CompleteChunk(@[c], @[c].node, 0)
                                         ELSE @[c]]]
    /\ inbox' = [inbox EXCEPT ![l] = {}]
    /\ UNCHANGED <<up, shareVars, peerVars, roleVars, snapping, busy, outbox, rendered,
                   mishaps, taken, missed>>

\* doSnapshot: a backup of the local database on a detached thread, which
\* then copies it over the snapshot, in place.  Bound: MaxSnapshots, and none
\* that would only publish again what is there.
TakeSnapshot(l) ==
    /\ Dispatching(l) /\ snapping[l] = None
    /\ taken < MaxSnapshots /\ disk[l] # snapshot
    /\ snapping' = [snapping EXCEPT ![l] = disk[l]]
    /\ taken' = taken + 1
    /\ UNCHANGED <<up, shareVars, peerVars, roleVars, disk, workVars, mishaps, missed>>

\* Mutant: the file is copied whether or not the backup succeeded.
BackupAssumed(l) == TRUE

BackedUp(l) == snapping[l] # None

BeginCopy(l) ==
    /\ l \in up /\ BackedUp(l) /\ snapshot # Torn
    /\ snapshot' = Torn
    /\ UNCHANGED <<up, endpoint, peerVars, roleVars, disk, snapping, workVars, mishaps, taken, missed>>

EndCopy(l) ==
    /\ l \in up /\ BackedUp(l) /\ snapshot = Torn
    /\ snapshot' = snapping[l]
    /\ snapping' = [snapping EXCEPT ![l] = None]
    /\ UNCHANGED <<up, endpoint, peerVars, roleVars, disk, workVars, mishaps, taken, missed>>

\* reportCompletion: a leader with an open database writes, others buffer.
FinishRender(m) ==
    /\ m \in up /\ busy[m] # None
    /\ rendered' = rendered \cup {<<m, busy[m]>>}
    /\ IF IsLeader(m) /\ open[m]
       THEN /\ disk' = IF disk[m] \notin Jobs THEN disk
                       ELSE [disk EXCEPT ![m][busy[m]] = CompleteChunk(@, m, 0)]
            /\ UNCHANGED outbox
       ELSE /\ outbox' = [outbox EXCEPT ![m] = @ \cup {busy[m]}]
            /\ UNCHANGED disk
    /\ busy' = [busy EXCEPT ![m] = None]
    /\ UNCHANGED <<up, shareVars, peerVars, roleVars, snapping, inbox, mishaps, taken, missed>>

\* getLeaderEndpoint: an elected peer that is alive, or this node.
ReportsTo(m, l) == leader[m] = l /\ (l = m \/ l \in Alive(m))

QueueIfCurrent(l, m, c) ==
    disk[l] \in Jobs /\ IsChunkCurrent(disk[l][c], m, 0)

\* flushCompletionReports and the /api/dispatch/complete handler: a node that
\* does not lead answers 503 and the report is kept; a report that does not
\* fit the leader's database is answered "stale" and dropped.
FlushReport(m, l, c) ==
    /\ m \in up /\ c \in outbox[m] /\ ReportsTo(m, l)
    /\ l \in up /\ IsLeader(l) /\ open[l]
    /\ outbox' = [outbox EXCEPT ![m] = @ \ {c}]
    /\ inbox' = [inbox EXCEPT ![l] = IF QueueIfCurrent(l, m, c) THEN @ \cup {<<m, c>>} ELSE @]
    /\ UNCHANGED <<up, shareVars, peerVars, roleVars, disk, snapping, busy, rendered,
                   mishaps, taken, missed>>

-----------------------------------------------------------------------------
(* Nodes come and go.  What was in memory is lost, the local file stays.   *)

GoesDown(n) ==
    /\ n \in up \cap Mortal
    /\ up' = up \ {n}
    /\ toPoll' = [toPoll EXCEPT ![n] = None]
    /\ leader' = [leader EXCEPT ![n] = None]
    /\ wasLeader' = [wasLeader EXCEPT ![n] = FALSE]
    /\ opening' = [opening EXCEPT ![n] = "idle"]
    /\ ready' = [ready EXCEPT ![n] = FALSE]
    /\ open' = [open EXCEPT ![n] = FALSE]
    /\ snapping' = [snapping EXCEPT ![n] = None]
    /\ busy' = [busy EXCEPT ![n] = None]
    /\ outbox' = [outbox EXCEPT ![n] = {}]
    /\ inbox' = [inbox EXCEPT ![n] = {}]

\* Also what becomes of a leader that a report or command reaches before its
\* database is open: the handler dereferences a null pointer.
Crash(n) ==
    /\ Mishap("crash")
    /\ GoesDown(n)
    /\ peers' = [peers EXCEPT ![n] = NoPeers]
    /\ UNCHANGED <<shareVars, disk, rendered, taken, missed>>

\* processUdpGoodbye for node n at the nodes that hear it.
Goodbye(n, hearing) ==
    [m \in Nodes |-> IF m = n THEN NoPeers
                     ELSE IF m \in hearing
                     THEN [peers[m] EXCEPT ![n].alive = FALSE, ![n].heard = FALSE]
                     ELSE peers[m]]

\* shutdown: stopFarm joins the leader thread, says goodbye over multicast to
\* those that hear it, and removes the endpoint file.
Leave(n) ==
    /\ Mishap("leave")
    /\ opening[n] = "idle"
    /\ GoesDown(n)
    /\ endpoint' = endpoint \ {n}
    /\ \E hearing \in SUBSET {m \in up : Reaches(n, m) /\ n \in Known(m)} :
         peers' = Goodbye(n, hearing)
    /\ UNCHANGED <<snapshot, disk, rendered, taken, missed>>

Start(n) ==
    /\ n \notin up /\ "restart" \in Faults
    /\ up' = up \cup {n}
    /\ UNCHANGED <<shareVars, peerVars, roleVars, disk, snapping, workVars, mishaps, taken, missed>>

-----------------------------------------------------------------------------
Membership ==
    \E n \in Nodes :
        \/ BeginPass(n) \/ Elect(n)
        \/ \E p \in Nodes : \/ PollAnswered(n, p) \/ PollFailed(n, p)
                            \/ Heartbeat(n, p) \/ FallsSilent(n, p)

Transition ==
    \E n \in Nodes :
        \/ BecomeLeader(n) \/ LoseLeadership(n) \/ MissChange(n)
        \/ Restore(n) \/ RestoreFails(n) \/ OpenLocal(n)

Dispatch ==
    \E l \in Nodes :
        \/ DetectDeadWorkers(l) \/ ProcessReports(l)
        \/ TakeSnapshot(l) \/ BeginCopy(l) \/ EndCopy(l)
        \/ FinishRender(l)
        \/ \E m \in Nodes, c \in Chunks : AssignWork(l, m, c) \/ FlushReport(m, l, c)

Coming == \E n \in Nodes : Crash(n) \/ Leave(n) \/ Start(n)

Next == Membership \/ Transition \/ Dispatch \/ Coming

Spec == Init /\ [][Next]_vars

(* Fairness: the PeerManager thread runs for ever and polls end by their   *)
(* timeout; heartbeats may all be lost; a node that is down is not heard.  *)
ElectionFairness ==
    \A n \in Nodes :
        /\ WF_vars(BeginPass(n) \/ Elect(n) \/ \E p \in Nodes : PollAnswered(n, p)
                   \/ (PollFailed(n, p) /\ p \notin up))
        /\ WF_vars(\E p \in Nodes \ up : FallsSilent(n, p))

ElectionSpec == Spec /\ ElectionFairness

(* The timers of update() and the flush thread run for ever, m_leaderThread *)
(* and the snapshot thread end, renders end.  A node that went down need    *)
(* not come back.                                                           *)
WorkFairness ==
    \A n \in Nodes :
        /\ WF_vars(BecomeLeader(n) \/ LoseLeadership(n))
        /\ WF_vars(Restore(n)) /\ WF_vars(OpenLocal(n))
        /\ WF_vars(BeginCopy(n)) /\ WF_vars(EndCopy(n))
        /\ WF_vars(FinishRender(n)) /\ WF_vars(ProcessReports(n))
        /\ WF_vars(DetectDeadWorkers(n) /\ disk' # disk)
        /\ \A l \in Nodes, c \in Chunks :
             WF_vars(FlushReport(n, l, c)) /\ WF_vars(AssignWork(l, n, c))

FairSpec == ElectionSpec /\ WorkFairness

-----------------------------------------------------------------------------
(* Properties. *)

\* onLoseLeadership waits for m_leaderThread before it closes the database: a
\* node that has noticed that it does not lead has none open and no thread
\* that is about to open one, however often the lead came and went.  A node
\* that missed a change in the middle of update() is excepted.
DatabaseFollowsLeadership ==
    \A n \in Nodes \ missed :
        ~wasLeader[n]
            => ~open[n] /\ ~ready[n] /\ opening[n] = "idle"

\* Across restored snapshots, two leaders and reports buffered through a
\* change of leader: no database and no snapshot shows a chunk completed by a
\* node that did not render it.
CompletionsAreReal ==
    \A f \in {disk[n] : n \in Nodes} \cup {snapping[n] : n \in Nodes} \cup {snapshot} :
        f \in Jobs => \A c \in Chunks :
            f[c].state = "completed" => <<f[c].node, c>> \in rendered

\* When faults have ended, the running nodes come to agree for good on one
\* leader, which runs itself.
LeaderAgreed ==
    <>[](up # {} => \E l \in up : \A n \in up : leader[n] = l)

\* README: "If the leader drops, a new one picks up where it left off."  While
\* some node runs, the job is completed in the database of a leader.
JobGetsDone ==
    <>(up # {} => \E l \in up : /\ IsLeader(l) /\ disk[l] \in Jobs
                                /\ \A c \in Chunks : disk[l][c].state = "completed")
=============================================================================
