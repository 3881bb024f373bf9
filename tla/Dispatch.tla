------------------------------ MODULE Dispatch ------------------------------
(***************************************************************************)
(* How a leader hands the chunks of its jobs to the nodes of the farm and  *)
(* takes their reports back.  One leader for the whole behaviour: election *)
(* and restored snapshots are not in this module.                          *)
(*                                                                         *)
(* Four kinds of actor run concurrently and meet only in the database, in  *)
(* the mutex-protected queues and on the network:                          *)
(*   - the leader's main thread: DispatchManager::update, one pass through *)
(*     reports, jobs and assign, each database statement a step;           *)
(*   - the leader's HTTP threads: they take reports and, when HttpControls,*)
(*     operator commands, between any two statements of the main thread;   *)
(*   - the detached threads that POST one assignment each;                 *)
(*   - the nodes, which queue, render and report.                          *)
(***************************************************************************)
EXTENDS Naturals, Sequences, FiniteSets, ChunkTable

CONSTANTS
    Jobs,          \* job ids
    Chunks,        \* chunks, numbered in dispatch order: priority, then frame
    JobOf,         \* the job of each chunk
    Capable,       \* per job, the nodes that carry its required tags
    Local,         \* the leader's own node when it renders, else not in Nodes
    MaxRetries,    \* the manifest's max_retries
    Controls,      \* the operator commands used
    HttpControls,  \* they arrive over HTTP, not from the leader's own UI
    Faults,        \* what may go wrong
    MaxEdits,      \* bound: manifest edits
    MaxBacklog,    \* bound: dispatches or reports a node holds
    MaxMishaps     \* bound: faults, failed renders not counted

AllControls == {"pause", "resume", "cancel", "archive", "requeue", "retry",
                "stopChunk", "requeueChunk", "assignTo",
                "continue", "restart", "startover"}
AllFaults == {"renderFails", "agent", "timeout", "lostAck", "crash",
              "quickRestart", "partition", "stopNode", "slowBeat", "undispatchable"}

ASSUME DispatchAssumption ==
    /\ Chunks \subseteq Nat /\ IsFiniteSet(Chunks)
    /\ JobOf \in [Chunks -> Jobs]
    /\ Capable \in [Jobs -> SUBSET Nodes]
    /\ None \notin Jobs
    /\ MaxRetries \in Nat /\ MaxEdits \in Nat /\ MaxBacklog \in Nat \ {0} /\ MaxMishaps \in Nat
    /\ Controls \subseteq AllControls
    /\ Faults \subseteq AllFaults
    /\ HttpControls \in BOOLEAN

VARIABLES
    job,         \* jobs table: state, edit epoch, manifest version
    chunk,       \* chunks table
    phase,       \* where DispatchManager::update stands
    batch,       \* reports swapped out of the queues, not yet applied
    reverting,   \* reverts swapped out, not yet applied
    toJudge,     \* active jobs checkJobCompletions has not looked at
    verdict,     \* the final state it read and is about to write
    toServe,     \* peers assignWork has not served
    pick,        \* the chunk it found for a peer and has not assigned
    edit,        \* an edit that applyEditLocally has begun
    dispatched,  \* m_dispatchedNodes
    view,        \* what the leader believes each node is doing
    posts,       \* POSTs of /api/dispatch/assign in progress
    aborts,      \* POSTs of /api/render/abort in progress
    inbox,       \* m_completionQueue and m_failureQueue
    reverts,     \* m_revertQueue
    mode,        \* what each node is
    queue,       \* its m_dispatchQueue
    active,      \* its m_activeRender
    outbox,      \* its m_pendingReports
    fence,       \* history: the manifest in force at a job's latest restart
    finished,    \* history: renders that ran to a successful end
    mishaps      \* history: how many faults have struck

dbVars     == <<job, chunk, fence>>
tickVars   == <<phase, batch, reverting, toJudge, verdict, toServe, pick>>
leaderVars == <<edit, dispatched, view, posts, aborts, inbox, reverts>>
nodeVars   == <<mode, queue, active, outbox, finished, mishaps>>
vars       == <<dbVars, tickVars, leaderVars, nodeVars>>

Remote == Nodes \ {Local}

Work   == [chunk : Chunks, node : Nodes, epoch : Nat, manifest : Nat]
Report == [kind : {"completed", "failed"}, work : Work]
Post   == [work : Work, stage : {"sent", "taken", "refused", "givenUp"}]
Pick   == [node : Nodes, chunk : Chunks, id : Nat, manifest : Nat,
           epoch : Nat \cup {None}]
Edit   == [job : Jobs, how : {"restart", "startover"},
           at : {"bump", "reset", "finish"}, nodes : SUBSET Nodes]

ASSUME AbsenceAssumption == None \notin Work \cup Edit

TypeOK ==
    /\ job \in [Jobs -> [state : JobStates, epoch : Nat, manifest : Nat]]
    /\ chunk \in [Chunks -> Row]
    /\ phase \in {"rest", "reports", "jobs", "assign"}
    /\ batch \subseteq Report /\ reverting \subseteq Chunks
    /\ toJudge \subseteq Jobs
    /\ verdict \in [job : Jobs, state : {"completed", "failed"}] \cup {None}
    /\ toServe \subseteq Nodes
    /\ pick \in Pick \cup {None}
    /\ edit \in Edit \cup {None}
    /\ dispatched \subseteq Nodes
    /\ view \in [Nodes -> {"idle", "rendering", "stopped", "sick", "gone"}]
    /\ posts \subseteq Post
    /\ aborts \subseteq Nodes \X Jobs
    /\ inbox \subseteq Report /\ reverts \subseteq Chunks
    /\ mode \in [Nodes -> {"active", "stopped", "sick", "down"}]
    /\ queue \in [Nodes -> Seq(Work)]
    /\ active \in [Nodes -> Work \cup {None}]
    /\ outbox \in [Nodes -> Seq(Report)]
    /\ fence \in [Jobs -> Nat]
    /\ finished \subseteq Work /\ mishaps \in Nat

Init ==
    /\ job = [j \in Jobs |-> [state |-> "active", epoch |-> 0, manifest |-> 0]]
    /\ chunk = [c \in Chunks |-> FreshRow(0)]
    /\ phase = "rest" /\ batch = {} /\ reverting = {} /\ toJudge = {}
    /\ verdict = None /\ toServe = {} /\ pick = None /\ edit = None
    /\ dispatched = {} /\ view = [n \in Nodes |-> "idle"]
    /\ posts = {} /\ aborts = {} /\ inbox = {} /\ reverts = {}
    /\ mode = [n \in Nodes |-> "active"]
    /\ queue = [n \in Nodes |-> <<>>] /\ active = [n \in Nodes |-> None]
    /\ outbox = [n \in Nodes |-> <<>>]
    /\ fence = [j \in Jobs |-> 0] /\ finished = {} /\ mishaps = 0

-----------------------------------------------------------------------------
(* What several actions share. *)

ChunksOf(j) == {c \in Chunks : JobOf[c] = j}

\* The rows of job j after statement Op.
OnJob(j, Op(_)) ==
    [c \in Chunks |-> IF JobOf[c] = j THEN Op(chunk[c]) ELSE chunk[c]]

\* A fault strikes, at most MaxMishaps times.
Mishap(f) == f \in Faults /\ mishaps < MaxMishaps /\ mishaps' = mishaps + 1

SetJobState(j, s) == job' = [job EXCEPT ![j].state = s]

\* The main thread is between passes: nothing else it runs can interleave
\* with a pass.  An edit made on the main thread occupies it.
MainThreadFree == phase = "rest" /\ (edit = None \/ HttpControls)
Ticking        == edit = None \/ HttpControls

\* The local node's RenderCoordinator runs on the main thread too.
Runs(n) == n = Local => MainThreadFree

Current(w) == IsChunkCurrent(chunk[w.chunk], w.node, w.epoch)

\* What a heartbeat of node n says.
Status(n) == IF mode[n] = "active"
             THEN IF active[n] = None THEN "idle" ELSE "rendering"
             ELSE mode[n]

\* reportCompletion: the leader's own node writes to the database, any other
\* buffers the report.
Deliver(n, r) ==
    IF n = Local
    THEN /\ chunk' = [chunk EXCEPT ![r.work.chunk] =
                        IF r.kind = "completed"
                        THEN CompleteChunk(@, n, r.work.epoch)
                        ELSE FailChunk(@, n, r.work.epoch, MaxRetries)]
         /\ UNCHANGED outbox
    ELSE /\ Len(outbox[n]) < MaxBacklog
         /\ outbox' = [outbox EXCEPT ![n] = Append(@, r)]
         /\ UNCHANGED chunk

\* purgeJob: the dispatches in s of other jobs than j, in their order.
Keep(s, j) ==
    LET kept[i \in 0 .. Len(s)] ==
          IF i = 0 THEN <<>>
          ELSE IF JobOf[s[i].chunk] = j THEN kept[i - 1] ELSE Append(kept[i - 1], s[i])
    IN  kept[Len(s)]

\* abandonJobRender on node n: abandon the render of job j without a report
\* and drop its queued dispatches.
Abandon(n, j) ==
    /\ active' = [active EXCEPT ![n] =
                    IF @ # None /\ JobOf[@.chunk] = j THEN None ELSE @]
    /\ queue' = [queue EXCEPT ![n] = Keep(@, j)]

AbandonLocal(j) ==
    IF Local \in Nodes THEN Abandon(Local, j) ELSE UNCHANGED <<active, queue>>

-----------------------------------------------------------------------------
(* The leader's main thread: DispatchManager::update. *)

\* processReports swaps all queues out under one lock.
TickStart ==
    /\ MainThreadFree
    /\ phase' = "reports"
    /\ batch' = inbox /\ inbox' = {}
    /\ reverting' = reverts /\ reverts' = {}
    /\ UNCHANGED <<dbVars, toJudge, verdict, toServe, pick, edit, dispatched,
                   view, posts, aborts, nodeVars>>

\* Completions first, then failures, then reverts.
ApplyReport(r) ==
    /\ phase = "reports" /\ Ticking
    /\ r \in batch
    /\ r.kind = "failed" => \A s \in batch : s.kind = "failed"
    /\ chunk' = [chunk EXCEPT ![r.work.chunk] =
                   IF r.kind = "completed"
                   THEN CompleteChunk(@, r.work.node, r.work.epoch)
                   ELSE FailChunk(@, r.work.node, r.work.epoch, MaxRetries)]
    /\ batch' = batch \ {r}
    /\ UNCHANGED <<job, fence, phase, reverting, toJudge, verdict, toServe, pick,
                   leaderVars, nodeVars>>

ApplyRevert(c) ==
    /\ phase = "reports" /\ Ticking
    /\ batch = {}
    /\ c \in reverting
    /\ chunk' = [chunk EXCEPT ![c] = RevertChunkToPending(@)]
    /\ reverting' = reverting \ {c}
    /\ UNCHANGED <<job, fence, phase, batch, toJudge, verdict, toServe, pick,
                   leaderVars, nodeVars>>

\* detectDeadWorkers, then the list checkJobCompletions will walk.
ReclaimDead ==
    /\ phase = "reports" /\ Ticking
    /\ batch = {} /\ reverting = {}
    /\ LET dead == {n \in Remote : view[n] \in {"gone", "sick"}}
       IN  chunk' = [c \in Chunks |-> ReassignDeadWorkerChunk(chunk[c], dead)]
    /\ phase' = "jobs"
    /\ toJudge' = {j \in Jobs : job[j].state = "active"}
    /\ UNCHANGED <<job, fence, batch, reverting, verdict, toServe, pick,
                   leaderVars, nodeVars>>

\* getJobCompletionState and updateJobState are two statements.
JudgeJob(j) ==
    /\ phase = "jobs" /\ Ticking
    /\ verdict = None /\ j \in toJudge
    /\ LET s == CompletionState({chunk[c] : c \in ChunksOf(j)})
       IN  verdict' = IF s = None THEN None ELSE [job |-> j, state |-> s]
    /\ toJudge' = toJudge \ {j}
    /\ UNCHANGED <<dbVars, phase, batch, reverting, toServe, pick, leaderVars, nodeVars>>

CloseJob ==
    /\ phase = "jobs" /\ Ticking
    /\ verdict # None
    /\ SetJobState(verdict.job, verdict.state)
    /\ verdict' = None
    /\ UNCHANGED <<chunk, fence, phase, batch, reverting, toJudge, toServe, pick,
                   leaderVars, nodeVars>>

\* Mutant: a node that was given a chunk and still looks idle is served again.
ServableAgain(seen, waiting) == {n \in Nodes : seen[n] = "idle"}

Servable(seen, waiting) == {n \in Nodes \ waiting : seen[n] = "idle"}

\* assignWork forgets the dispatched nodes that show up rendering or dead,
\* and serves the other peers its snapshot shows idle.
ServePeers ==
    /\ phase = "jobs" /\ Ticking
    /\ verdict = None /\ toJudge = {}
    /\ phase' = "assign"
    /\ LET seen == [n \in Nodes |-> IF n = Local THEN Status(n) ELSE view[n]]
           left == {n \in dispatched : seen[n] \notin {"rendering", "gone"}}
       IN  /\ dispatched' = left
           /\ toServe' = Servable(seen, left)
    /\ UNCHANGED <<dbVars, batch, reverting, toJudge, verdict, pick, edit, view,
                   posts, aborts, inbox, reverts, nodeVars>>

\* Mutant: the query does not look at failed_on.
OfferedAgain(n) ==
    {c \in Chunks : /\ job[JobOf[c]].state = "active"
                    /\ n \in Capable[JobOf[c]]
                    /\ chunk[c].state = "pending"}

\* findNextPendingChunkForNode.
Offered(n) ==
    {c \in Chunks : /\ job[JobOf[c]].state = "active"
                    /\ n \in Capable[JobOf[c]]
                    /\ chunk[c].state = "pending"
                    /\ n \notin chunk[c].failedOn}

FindChunk(n) ==
    /\ phase = "assign" /\ Ticking
    /\ pick = None /\ n \in toServe
    /\ IF Offered(n) = {} THEN UNCHANGED pick
       ELSE \E c \in Offered(n) :
              /\ \A d \in Offered(n) : c <= d
              /\ pick' = [node |-> n, chunk |-> c, id |-> chunk[c].id,
                          manifest |-> job[JobOf[c]].manifest, epoch |-> None]
    /\ toServe' = toServe \ {n}
    /\ UNCHANGED <<dbVars, phase, batch, reverting, toJudge, verdict,
                   leaderVars, nodeVars>>

\* getJobEditEpoch is a statement of its own, after the manifest was read.
ReadEpoch ==
    /\ phase = "assign" /\ Ticking
    /\ pick # None /\ pick.epoch = None
    /\ pick' = [pick EXCEPT !.epoch = job[JobOf[pick.chunk]].epoch]
    /\ UNCHANGED <<dbVars, phase, batch, reverting, toJudge, verdict, toServe,
                   leaderVars, nodeVars>>

Picked == [chunk |-> pick.chunk, node |-> pick.node,
           epoch |-> pick.epoch, manifest |-> pick.manifest]

\* assignChunk, and the dispatch to the local queue or to a POST thread.
AssignPicked ==
    /\ phase = "assign" /\ Ticking
    /\ pick # None /\ pick.epoch # None
    /\ Assignable(chunk[pick.chunk], pick.id)
    /\ chunk' = [chunk EXCEPT ![pick.chunk] = AssignChunk(@, pick.node, pick.epoch)]
    /\ dispatched' = dispatched \cup {pick.node}
    /\ IF pick.node = Local
       THEN /\ queue' = [queue EXCEPT ![Local] = Append(@, Picked)]
            /\ UNCHANGED posts
       ELSE /\ posts' = posts \cup {[work |-> Picked, stage |-> "sent"]}
            /\ UNCHANGED queue
    /\ pick' = None
    /\ UNCHANGED <<job, fence, phase, batch, reverting, toJudge, verdict, toServe,
                   edit, view, aborts, inbox, reverts, mode, active, outbox, finished, mishaps>>

\* Mutant: the chunk stays assigned to the node that never gets it.
UndispatchedKept(row, n, e) == AssignChunk(row, n, e)

Undispatched(row, n, e) == RevertChunkToPending(AssignChunk(row, n, e))

\* The chunk is no longer pending; or its manifest does not parse, or the
\* peer has no endpoint, and the assignment is undone on the spot.
DropPicked ==
    /\ phase = "assign" /\ Ticking
    /\ pick # None /\ pick.epoch # None
    /\ IF ~Assignable(chunk[pick.chunk], pick.id) THEN UNCHANGED <<chunk, mishaps>>
       ELSE /\ Mishap("undispatchable")
            /\ chunk' = [chunk EXCEPT ![pick.chunk] =
                           Undispatched(@, pick.node, pick.epoch)]
    /\ pick' = None
    /\ UNCHANGED <<job, fence, phase, batch, reverting, toJudge, verdict, toServe,
                   leaderVars, mode, queue, active, outbox, finished>>

TickEnd ==
    /\ phase = "assign" /\ Ticking
    /\ toServe = {} /\ pick = None
    /\ phase' = "rest"
    /\ UNCHANGED <<dbVars, batch, reverting, toJudge, verdict, toServe, pick,
                   leaderVars, nodeVars>>

-----------------------------------------------------------------------------
(* The assignment POSTs.  A thread waits two seconds for the answer and    *)
(* queues a revert for anything but 200; a request it has given up may     *)
(* still be served.                                                        *)

\* The /api/dispatch/assign handler: busy and stopped nodes answer 409.
PostArrives(p) ==
    LET n       == p.work.node
        refused == active[n] # None \/ mode[n] = "stopped"
        waiting == p.stage = "sent"
    IN  /\ p \in posts /\ p.stage \in {"sent", "givenUp"}
        /\ mode[n] # "down"
        /\ Len(queue[n]) < MaxBacklog
        /\ queue' = IF refused THEN queue
                    ELSE [queue EXCEPT ![n] = Append(@, p.work)]
        /\ posts' = (posts \ {p}) \cup
                    (IF ~waiting THEN {}
                     ELSE {[p EXCEPT !.stage = IF refused THEN "refused" ELSE "taken"]})
        /\ UNCHANGED <<dbVars, tickVars, edit, dispatched, view, aborts, inbox,
                       reverts, mode, active, outbox, finished, mishaps>>

PostAnswered(p) ==
    /\ p \in posts /\ p.stage \in {"taken", "refused"}
    /\ mode[p.work.node] # "down"
    /\ posts' = posts \ {p}
    /\ reverts' = IF p.stage = "refused" THEN reverts \cup {p.work.chunk} ELSE reverts
    /\ UNCHANGED <<dbVars, tickVars, edit, dispatched, view, aborts, inbox, nodeVars>>

PostUnanswered(p) ==
    /\ p \in posts /\ p.stage # "givenUp"
    /\ \/ mode[p.work.node] = "down" /\ UNCHANGED mishaps
       \/ Mishap("timeout")
    /\ posts' = (posts \ {p}) \cup
                (IF p.stage = "sent" /\ mode[p.work.node] # "down"
                 THEN {[p EXCEPT !.stage = "givenUp"]} ELSE {})
    /\ reverts' = reverts \cup {p.work.chunk}
    /\ UNCHANGED <<dbVars, tickVars, edit, dispatched, view, aborts, inbox,
                   mode, queue, active, outbox, finished>>

PostDropped(p) ==
    /\ p \in posts /\ p.stage = "givenUp"
    /\ posts' = posts \ {p}
    /\ UNCHANGED <<dbVars, tickVars, edit, dispatched, view, aborts, inbox, reverts,
                   nodeVars>>

\* DISPATCHED_ENTRY_TTL_MS outlives the POST and the wait for an agent.
EntryExpires(n) ==
    /\ n \in dispatched
    /\ \A p \in posts : p.work.node = n => p.stage = "givenUp"
    /\ \/ queue[n] = <<>> /\ active[n] = None /\ UNCHANGED mishaps
       \/ n # Local /\ Mishap("slowBeat")
    /\ dispatched' = dispatched \ {n}
    /\ UNCHANGED <<dbVars, tickVars, edit, view, posts, aborts, inbox, reverts,
                   mode, queue, active, outbox, finished>>

-----------------------------------------------------------------------------
(* The nodes. *)

\* RenderCoordinator::update takes the next dispatch; a stopped node abandons
\* it without a report.
StartRender(n) ==
    /\ Runs(n) /\ mode[n] \in {"active", "sick"}
    /\ active[n] = None /\ queue[n] # <<>>
    /\ active' = [active EXCEPT ![n] = Head(queue[n])]
    /\ queue' = [queue EXCEPT ![n] = Tail(@)]
    /\ mode' = [mode EXCEPT ![n] = "active"]
    /\ UNCHANGED <<dbVars, tickVars, leaderVars, outbox, finished, mishaps>>

SkipDispatch(n) ==
    /\ Runs(n) /\ mode[n] = "stopped"
    /\ active[n] = None /\ queue[n] # <<>>
    /\ queue' = [queue EXCEPT ![n] = Tail(@)]
    /\ UNCHANGED <<dbVars, tickVars, leaderVars, mode, active, outbox, finished, mishaps>>

\* The agent does not start, which needs attention, or does not connect.
AgentUnavailable(n) ==
    /\ Mishap("agent")
    /\ Runs(n) /\ mode[n] \in {"active", "sick"}
    /\ active[n] = None /\ queue[n] # <<>>
    /\ Deliver(n, [kind |-> "failed", work |-> Head(queue[n])])
    /\ queue' = [queue EXCEPT ![n] = Tail(@)]
    /\ \E m \in {mode[n], "sick"} : mode' = [mode EXCEPT ![n] = m]
    /\ UNCHANGED <<job, fence, tickVars, leaderVars, active, finished>>

RecoverAgent(n) ==
    /\ mode[n] = "sick"
    /\ mode' = [mode EXCEPT ![n] = "active"]
    /\ UNCHANGED <<dbVars, tickVars, leaderVars, queue, active, outbox, finished, mishaps>>

FinishRender(n) ==
    /\ Runs(n) /\ active[n] # None
    /\ \E kind \in {"completed", "failed"} :
         /\ kind = "failed" => "renderFails" \in Faults
         /\ Deliver(n, [kind |-> kind, work |-> active[n]])
         /\ finished' = IF kind = "completed" THEN finished \cup {active[n]} ELSE finished
    /\ active' = [active EXCEPT ![n] = None]
    /\ UNCHANGED <<job, fence, tickVars, leaderVars, mode, queue, mishaps>>

\* abortRenderIfJobGone: the cached job list shows the job cancelled, or does
\* not show it.  The abort is reported as a failure.
AbortGone(n) ==
    /\ Runs(n) /\ active[n] # None
    /\ LET j == JobOf[active[n].chunk]
       IN  /\ job[j].state \in {"cancelled", "archived"}
           /\ Deliver(n, [kind |-> "failed", work |-> active[n]])
           /\ Abandon(n, j)
    /\ UNCHANGED <<job, fence, tickVars, leaderVars, mode, finished, mishaps>>

\* The node's frame reports come back stale: the job was edited.
SelfFence(n) ==
    /\ n # Local /\ active[n] # None
    /\ active[n].epoch # job[JobOf[active[n].chunk]].epoch
    /\ Abandon(n, JobOf[active[n].chunk])
    /\ UNCHANGED <<dbVars, tickVars, leaderVars, mode, outbox, finished, mishaps>>

AbortArrives(n, j) ==
    /\ <<n, j>> \in aborts
    /\ IF mode[n] = "down" THEN UNCHANGED <<active, queue>> ELSE Abandon(n, j)
    /\ aborts' = aborts \ {<<n, j>>}
    /\ UNCHANGED <<dbVars, tickVars, edit, dispatched, view, posts, inbox, reverts,
                   mode, outbox, finished, mishaps>>

AbortLost(n, j) ==
    /\ <<n, j>> \in aborts /\ Mishap("timeout")
    /\ aborts' = aborts \ {<<n, j>>}
    /\ UNCHANGED <<dbVars, tickVars, edit, dispatched, view, posts, inbox, reverts,
                   mode, queue, active, outbox, finished>>

\* flushCompletionReports sends the oldest report; the handler queues it if
\* it passes the fence and answers 200 either way.  Without the answer the
\* node sends it again.
FlushReport(n) ==
    /\ outbox[n] # <<>> /\ mode[n] # "down"
    /\ LET r == Head(outbox[n])
       IN  inbox' = IF Current(r.work) THEN inbox \cup {r} ELSE inbox
    /\ \/ outbox' = [outbox EXCEPT ![n] = Tail(@)] /\ UNCHANGED mishaps
       \/ Mishap("lostAck") /\ UNCHANGED outbox
    /\ UNCHANGED <<dbVars, tickVars, edit, dispatched, view, posts, aborts, reverts,
                   mode, queue, active, finished>>

\* setNodeState(Stopped) aborts the render, and that is reported as a failure.
StopNode(n) ==
    /\ Mishap("stopNode")
    /\ Runs(n) /\ mode[n] = "active"
    /\ mode' = [mode EXCEPT ![n] = "stopped"]
    /\ IF active[n] = None THEN UNCHANGED <<chunk, outbox>>
       ELSE Deliver(n, [kind |-> "failed", work |-> active[n]])
    /\ active' = [active EXCEPT ![n] = None]
    /\ UNCHANGED <<job, fence, tickVars, leaderVars, queue, finished>>

ResumeNode(n) ==
    /\ mode[n] = "stopped"
    /\ mode' = [mode EXCEPT ![n] = "active"]
    /\ UNCHANGED <<dbVars, tickVars, leaderVars, queue, active, outbox, finished, mishaps>>

\* A monitor process dies with everything it held in memory.
Crash(n) ==
    /\ Mishap("crash")
    /\ n # Local /\ mode[n] # "down"
    /\ mode' = [mode EXCEPT ![n] = "down"]
    /\ queue' = [queue EXCEPT ![n] = <<>>]
    /\ active' = [active EXCEPT ![n] = None]
    /\ outbox' = [outbox EXCEPT ![n] = <<>>]
    /\ UNCHANGED <<dbVars, tickVars, leaderVars, finished>>

\* Unless it may come back quickly, it stays away until the leader has
\* declared it dead and reclaimed its chunks.
Restart(n) ==
    /\ mode[n] = "down"
    /\ \/ "quickRestart" \in Faults
       \/ /\ view[n] = "gone"
          /\ \A c \in Chunks : ~(chunk[c].state = "assigned" /\ chunk[c].node = n)
          /\ \A p \in posts : p.work.node # n
          /\ pick # None => pick.node # n
    /\ mode' = [mode EXCEPT ![n] = "active"]
    /\ UNCHANGED <<dbVars, tickVars, leaderVars, queue, active, outbox, finished, mishaps>>

\* PeerManager: heartbeats and polls, three failed polls without them.
Heartbeat(n) ==
    /\ n # Local /\ mode[n] # "down"
    /\ view' = [view EXCEPT ![n] = Status(n)]
    /\ UNCHANGED <<dbVars, tickVars, edit, dispatched, posts, aborts, inbox, reverts,
                   nodeVars>>

DeclareDead(n) ==
    /\ n # Local
    /\ \/ mode[n] = "down" /\ UNCHANGED mishaps
       \/ mode[n] # "down" /\ Mishap("partition")
    /\ view' = [view EXCEPT ![n] = "gone"]
    /\ UNCHANGED <<dbVars, tickVars, edit, dispatched, posts, aborts, inbox, reverts,
                   mode, queue, active, outbox, finished>>

-----------------------------------------------------------------------------
(* Operator commands.  Over HTTP they run on a thread of the server, from   *)
(* the leader's own UI on the main thread.                                  *)

Commanded(op) == op \in Controls /\ (HttpControls \/ MainThreadFree)

Pause(j) ==
    /\ Commanded("pause")
    /\ SetJobState(j, "paused")
    /\ UNCHANGED <<chunk, fence, tickVars, leaderVars, nodeVars>>

Resume(j) ==
    /\ Commanded("resume")
    /\ SetJobState(j, "active")
    /\ UNCHANGED <<chunk, fence, tickVars, leaderVars, nodeVars>>

Archive(j) ==
    /\ Commanded("archive")
    /\ SetJobState(j, "archived")
    /\ UNCHANGED <<chunk, fence, tickVars, leaderVars, nodeVars>>

\* The leader's own render of the job is aborted at once, as a failure.
Cancel(j) ==
    /\ Commanded("cancel")
    /\ SetJobState(j, "cancelled")
    /\ IF Local \in Nodes /\ active[Local] # None /\ JobOf[active[Local].chunk] = j
       THEN Deliver(Local, [kind |-> "failed", work |-> active[Local]])
       ELSE UNCHANGED <<chunk, outbox>>
    /\ AbandonLocal(j)
    /\ UNCHANGED <<fence, tickVars, leaderVars, mode, finished, mishaps>>

Requeue(j) ==
    /\ Commanded("requeue")
    /\ chunk' = OnJob(j, ResetChunk)
    /\ SetJobState(j, "active")
    /\ UNCHANGED <<fence, tickVars, leaderVars, nodeVars>>

RetryFailed(j) ==
    /\ Commanded("retry")
    /\ \E c \in ChunksOf(j) : chunk[c].state = "failed"
    /\ chunk' = OnJob(j, RetryFailedChunk)
    /\ SetJobState(j, "active")
    /\ UNCHANGED <<fence, tickVars, leaderVars, nodeVars>>

\* The abort push names the job, not the chunk.
StopOneChunk(c) ==
    LET n == chunk[c].node
    IN  /\ Commanded("stopChunk")
        /\ Stoppable(chunk[c])
        /\ chunk' = [chunk EXCEPT ![c] = StopChunk(@)]
        /\ aborts' = IF n \in Remote THEN aborts \cup {<<n, JobOf[c]>>} ELSE aborts
        /\ IF n = Local THEN AbandonLocal(JobOf[c]) ELSE UNCHANGED <<active, queue>>
        /\ UNCHANGED <<job, fence, tickVars, edit, dispatched, view, posts, inbox,
                       reverts, mode, outbox, finished, mishaps>>

\* Mutant: only a completed job is reopened.
ReopenCompleted(j) ==
    IF job[j].state = "completed" THEN SetJobState(j, "active") ELSE UNCHANGED job

Reopen(j) ==
    IF job[j].state \in {"completed", "failed"}
    THEN SetJobState(j, "active") ELSE UNCHANGED job

\* reassignChunk without a target reopens a finished job.
RequeueChunk(c) ==
    /\ Commanded("requeueChunk")
    /\ Reassignable(chunk[c])
    /\ chunk' = [chunk EXCEPT ![c] = Unassigned(@)]
    /\ Reopen(JobOf[c])
    /\ UNCHANGED <<fence, tickVars, leaderVars, nodeVars>>

AssignChunkTo(c, n) ==
    /\ Commanded("assignTo")
    /\ Reassignable(chunk[c])
    /\ chunk' = [chunk EXCEPT ![c] = AssignDirectly(@, n)]
    /\ UNCHANGED <<job, fence, tickVars, leaderVars, nodeVars>>

\* applyEditLocally: the manifest and the nodes to abort, then for a restart
\* the epoch, the rows, and the job state with the abort pushes.
BeginEdit(j, how) ==
    /\ Commanded(how)
    /\ edit = None /\ job[j].manifest < MaxEdits
    /\ job' = [job EXCEPT ![j].manifest = @ + 1]
    /\ edit' = IF how = "continue" THEN None
               ELSE [job |-> j, how |-> how, at |-> "bump",
                     nodes |-> {n \in Nodes : \E c \in ChunksOf(j) :
                                  chunk[c].state = "assigned" /\ chunk[c].node = n}]
    /\ UNCHANGED <<chunk, fence, tickVars, dispatched, view, posts, aborts, inbox,
                   reverts, nodeVars>>

BumpEpoch ==
    /\ edit # None /\ edit.at = "bump"
    /\ job' = [job EXCEPT ![edit.job].epoch = @ + 1]
    /\ fence' = [fence EXCEPT ![edit.job] = job[edit.job].manifest]
    /\ edit' = [edit EXCEPT !.at = "reset"]
    /\ UNCHANGED <<chunk, tickVars, dispatched, view, posts, aborts, inbox, reverts,
                   nodeVars>>

ResetRows ==
    /\ edit # None /\ edit.at = "reset"
    /\ chunk' = IF edit.how = "restart" THEN OnJob(edit.job, ResetAssignedChunk)
                ELSE OnJob(edit.job, RebuildChunk)
    /\ edit' = [edit EXCEPT !.at = "finish"]
    /\ UNCHANGED <<job, fence, tickVars, dispatched, view, posts, aborts, inbox,
                   reverts, nodeVars>>

FinishEdit ==
    /\ edit # None /\ edit.at = "finish"
    /\ SetJobState(edit.job, "active")
    /\ aborts' = aborts \cup ((edit.nodes \ {Local}) \X {edit.job})
    /\ AbandonLocal(edit.job)
    /\ edit' = None
    /\ UNCHANGED <<chunk, fence, tickVars, dispatched, view, posts, inbox, reverts,
                   mode, outbox, finished, mishaps>>

-----------------------------------------------------------------------------
Tick ==
    \/ TickStart \/ ReclaimDead \/ CloseJob \/ ServePeers
    \/ ReadEpoch \/ AssignPicked \/ DropPicked \/ TickEnd
    \/ \E r \in batch : ApplyReport(r)
    \/ \E c \in reverting : ApplyRevert(c)
    \/ \E j \in Jobs : JudgeJob(j)
    \/ \E n \in Nodes : FindChunk(n)

Network ==
    \/ \E p \in posts : \/ PostArrives(p) \/ PostAnswered(p)
                        \/ PostUnanswered(p) \/ PostDropped(p)
    \/ \E n \in Nodes, j \in Jobs : AbortArrives(n, j) \/ AbortLost(n, j)
    \/ \E n \in Nodes : FlushReport(n) \/ Heartbeat(n) \/ DeclareDead(n)

Node ==
    \E n \in Nodes :
        \/ StartRender(n) \/ SkipDispatch(n) \/ AgentUnavailable(n) \/ RecoverAgent(n)
        \/ FinishRender(n) \/ AbortGone(n) \/ SelfFence(n)
        \/ StopNode(n) \/ ResumeNode(n) \/ Crash(n) \/ Restart(n) \/ EntryExpires(n)

Command ==
    \/ \E j \in Jobs :
        \/ Pause(j) \/ Resume(j) \/ Archive(j) \/ Cancel(j) \/ Requeue(j) \/ RetryFailed(j)
        \/ \E how \in {"continue", "restart", "startover"} : BeginEdit(j, how)
    \/ \E c \in Chunks :
        \/ StopOneChunk(c) \/ RequeueChunk(c)
        \/ \E n \in Nodes : AssignChunkTo(c, n)
    \/ BumpEpoch \/ ResetRows \/ FinishEdit

Next == Tick \/ Network \/ Node \/ Command

Spec == Init /\ [][Next]_vars

-----------------------------------------------------------------------------
(* Fairness.  MonitorApp::update runs on a timer and every pass ends; the  *)
(* local node's share of it precedes the dispatch pass, so it is not       *)
(* starved by passes that keep coming (SF).  Heartbeats, polls, HTTP       *)
(* requests and the flush of reports are retried or bounded by timeouts.   *)
(* Renders end.  Nothing obliges an operator to act or a fault to happen.  *)
NodeProgress(n) ==
    StartRender(n) \/ SkipDispatch(n) \/ FinishRender(n) \/ AbortGone(n)

Fairness ==
    /\ WF_vars(Tick)
    /\ WF_vars(BumpEpoch \/ ResetRows \/ FinishEdit)
    /\ WF_vars(\E p \in posts : PostArrives(p) \/ PostAnswered(p) \/ PostDropped(p))
    /\ \A n \in Nodes :
         /\ SF_vars(NodeProgress(n))
         /\ WF_vars(FlushReport(n)) /\ WF_vars(Heartbeat(n))
         /\ WF_vars(EntryExpires(n)) /\ WF_vars(RecoverAgent(n))

FairSpec == Spec /\ Fairness

-----------------------------------------------------------------------------
(* Properties. *)

AssignedTo(c, n) == chunk[c].state = "assigned" /\ chunk[c].node = n

\* Dispatches on their way to node n, in its queue or in its hands.
Carried(n) ==
    {p.work : p \in {q \in posts : q.work.node = n /\ q.stage \in {"sent", "givenUp"}}}
    \cup {queue[n][i] : i \in DOMAIN queue[n]}
    \cup ({active[n]} \ {None})

\* Reports of node n on their way to the database.
Reported(n) ==
    {outbox[n][i].work : i \in DOMAIN outbox[n]}
    \cup {r.work : r \in {s \in inbox \cup batch : s.work.node = n}}

\* A chunk is completed only by a render of that chunk which ended well, on
\* the node and under the epoch its row names: no late, repeated or fenced
\* report, and no report about another node's attempt, completes it.
NoPhantomCompletion ==
    \A c \in Chunks : chunk[c].state = "completed" =>
        \E w \in finished :
            w.chunk = c /\ w.node = chunk[c].node /\ w.epoch = chunk[c].epoch

\* Once a restarting edit is done, no dispatch, render or report that the
\* fence would still accept carries a manifest from before the edit.
EditFence ==
    edit = None =>
        \A n \in Nodes : \A w \in Carried(n) \cup Reported(n) :
            Current(w) => w.manifest >= fence[JobOf[w.chunk]]

\* A chunk shown as assigned to a node is with that node: being sent to it,
\* queued, rendered or reported, or on its way back because the POST failed.
\* Otherwise nothing would ever take the chunk out of 'assigned' while the
\* node lives.
AssignmentBacked ==
    \A c \in Chunks, n \in Nodes :
        AssignedTo(c, n) /\ job[JobOf[c]].state = "active" =>
            \/ \E w \in Carried(n) \cup Reported(n) : w.chunk = c /\ Current(w)
            \/ c \in reverts \cup reverting
            \/ \E p \in posts : p.work.chunk = c /\ p.stage = "refused"
            \/ mode[n] = "down"
            \/ n # Local /\ view[n] \in {"gone", "sick"}
            \/ edit # None /\ edit.job = JobOf[c]

\* checkJobCompletions closes a job only around settled chunks, and a command
\* that reopens a chunk reopens its job: dispatch looks at active jobs only.
\* An edit in progress has reset the chunks and not yet the job.
FinishedJobsAreSettled ==
    \A c \in Chunks :
        /\ job[JobOf[c]].state \in {"completed", "failed"}
        /\ edit # None => edit.job # JobOf[c]
        => chunk[c].state \in {"completed", "failed", "stopped"}

\* A node that failed a chunk is not given that chunk again, whatever happens
\* between the query that offers the chunk and the statement that assigns it.
BlacklistHonoured ==
    \A c \in Chunks, n \in Nodes : AssignedTo(c, n) => n \notin chunk[c].failedOn

\* A failure is counted once: a report that is sent again, because its answer
\* was lost or the node rendered the chunk twice, burns no second retry.
EachNodeFailsAChunkOnce ==
    \A c \in Chunks : chunk[c].retries <= Cardinality(chunk[c].failedOn)

\* The leader hands a node its next chunk only when the last one has left it:
\* m_dispatchedNodes covers the time in which the node still looks idle.
OneChunkAtATime ==
    \A n \in Nodes : Cardinality(Carried(n)) <= 1

\* Every active job comes to an end.
JobsSettle == \A j \in Jobs : job[j].state = "active" ~> job[j].state \in {"completed", "failed"}
=============================================================================
