# A verification model of MinRender's farm coordination

MinRender turns a set of workstations into a render farm. Every machine runs a
*monitor* (C++/Qt, `src/src/`); one of them is elected leader, keeps the farm's
SQLite database and hands *chunks* (frame ranges of a job) to the others; each
monitor starts a one-shot Rust *agent* (`src/mr-agent/`) that runs the renderer.
The monitors talk JSON over HTTP and UDP and share one directory, the sync root.

These modules model the coordination: who owns which chunk, when, what a report,
a crash, an edit or a late message may do to it, who leads and with which
database, how jobs come in and in which order they are dispatched, and what a
user's edit or button becomes on its way to the leader. Rendering, parsing of
renderer output, sockets and packaging are outside.

## Inventory

| Component | Source | State | Operations | Meets the others through |
|---|---|---|---|---|
| Chunk table | `monitor/database_manager.cpp` | rows `jobs`, `chunks` | one mutex-protected statement per method | method calls of every thread of the leader |
| Dispatcher | `monitor/dispatch_manager.cpp` | report, revert, frame and submission queues, `m_dispatchedNodes`, failure tracker | `update()` every 2 s: submissions, reports, dead workers, completions, assignments, snapshots | database, POST threads, peer list |
| HTTP server | `core/http_server.cpp` | none of its own | assign, abort, reports, frames, job and node commands, edits, submissions, on server threads | calls MonitorApp, RenderCoordinator and the queues directly |
| MonitorApp | `monitor/monitor_app.cpp` | report buffers, HTTP queue, cached jobs, leadership flags | `update()` on the main thread, an HTTP worker thread, operator commands | everything |
| RenderCoordinator | `monitor/render_coordinator.cpp` | dispatch queue, active render, pending deliveries | `update()`, agent messages, abort, abandon | AgentSupervisor, report callback |
| AgentSupervisor, IPC | `monitor/agent_supervisor.cpp`, `core/ipc_server.cpp` | connection, message queue, child process, readiness, health | spawn, IPC thread, `processMessages` | pipe or socket to the agent |
| Agent | `mr-agent/src/` | one active render | idle and rendering loops, reconnect, abort | IPC messages, the renderer's process tree |
| PeerManager | `monitor/peer_manager.cpp` | peers, failed polls, leader id | endpoint files, UDP heartbeats, polls, election | HTTP status, sync root |
| Snapshots and failover | `monitor_app.cpp`, `database_manager.cpp` | `snapshot.db` on the sync root, the local database | snapshot every 30 s, restore on becoming leader, close on losing the lead | sync root |
| Farm commands | `monitor_app.cpp`, `ui/app_bridge.cpp` | the edit dialog, `commands/*.json` on the sync root | fetch, post or queue an edit, apply, acknowledge, expire | sync root, HTTP |
| Job order | `database_manager.cpp` | `priority`, `sort_key` | move, change of priority, the order of list and dispatch | database |
| Submission | `submission_watcher.cpp`, `template_manager.cpp`, `dispatch_manager.cpp` | drop box, submission queue, `jobs/<id>` | submit, resubmit, delete, archive, clean up | sync root, HTTP |
| Failure tracker | `node_failure_tracker.h` | failures per node, mirrors of the verdict on every node | count, suspend, cool down, unsuspend | reports, HTTP |
| Frame progress | `monitor_app.cpp`, `dispatch_manager.cpp` | frame buffers, frame queue, `completed_frames` | report, flush, drain, fence | HTTP, database |

What is hard, and what makes each component correct:

- **Dispatcher and chunk table.** The leader's main thread reads and writes the
  database in many small statements; HTTP threads write between any two of them.
  Reports arrive late, twice or not at all. Correct means: a completion is a
  render that happened, in the attempt the row names; a failure is counted once;
  an assigned chunk is really with its node or about to be reclaimed; a finished
  job has no open chunk; every job ends.
- **Edits.** A restart edit must keep every render of the old manifest from
  counting. The code fences them with an epoch that assignments carry and
  reports echo.
- **RenderCoordinator, AgentSupervisor, agent.** Three threads and a process per
  render, joined by a queue and a pipe that can break. Correct means: each
  dispatch gets exactly one answer; *completed* means the frames have reached the
  destination; one machine renders one chunk at a time.
- **Peers and snapshots.** No consensus: leadership is computed by each node from
  what it sees, and a new leader restores a snapshot up to 30 s old. Correct
  means: the nodes come to agree, only a leader has the database open, and no
  restored row shows work that nobody did.
- **Farm commands.** An edit may be posted, lost, answered late and queued on the
  share as well. Correct means: applied once, in the order issued, and the editor
  is told what happened and can edit again.
- **Job order and submission.** A job is several statements from several threads,
  under an id that two submitters may want. Correct means: rows and chunks
  belong together, and the list is the order of dispatch.
- **Failure tracker and frame progress.** Mirrors and counters that lag behind.
  Correct means: they converge, and show nothing that was not earned.

`PROJECT.json` lists the components with their status and, under `hazards`, each
place where this can go wrong, with the property that covers it or the reason
why none does.

## Modules

| Module | Models | Lines stand for |
|---|---|---|
| `ChunkTable` | the chunk rows and every statement on them, as operators from row to row | `database_manager.cpp` |
| `Dispatch` (extends `ChunkTable`) | one leader, its dispatch pass, POST threads, HTTP threads, operator commands, and the nodes as the leader meets them | `dispatch_manager.cpp`, `monitor_app.cpp`, `http_server.cpp`, parts of `render_coordinator.cpp` and `peer_manager.cpp` |
| `ChunkContract` | what the farm promises about a chunk: open, held, done, given up or stopped | abstract |
| `DispatchContract` (extends `Dispatch`) | how a row reads as a status of `ChunkContract`; the two refinements | abstract |
| `Worker` | one node from inside: main thread, HTTP threads, IPC thread, agents | `render_coordinator.cpp`, `agent_supervisor.cpp`, `ipc_server.cpp`, `main.rs`, `executor.rs` |
| `Failover` (extends `ChunkTable`) | peers, election, change of role, snapshots, and the dispatch of one job across them | `peer_manager.cpp`, `monitor_app.cpp`, `database_manager.cpp`, `dispatch_manager.cpp` |
| `JobQueue` | submission, resubmission, order, closing and removal of jobs, and their directories | `dispatch_manager.cpp`, `database_manager.cpp`, `submission_watcher.cpp`, `template_manager.cpp`, `monitor_app.cpp` |
| `FarmCommands` | an edit from the dialog to the row: POST, command file, poll, acknowledgement | `monitor_app.cpp`, `app_bridge.cpp`, `http_server.cpp` |
| `FrameProgress` | frame reports, their flush, queue and fence, and what an outdated node learns from them | `monitor_app.cpp`, `dispatch_manager.cpp`, `database_manager.cpp`, `http_server.cpp` |
| `Standing` | the failure tracker of each leader, the mirrors of the nodes, unsuspending | `node_failure_tracker.h`, `monitor_app.cpp`, `dispatch_manager.cpp` |
| `MCDispatch`, `MCWorker`, `MCFailover`, `MCJobQueue`, `MCFarmCommands`, `MCFrameProgress`, `MCStanding` | constants of the runs | |
| `DispatchProofs` (extends `DispatchContract`) | what happens to the rows of `Dispatch`: types, completions, blacklist, the loose contract | |
| `DispatchFlow` (extends `DispatchProofs`) | where its dispatches are: one per node, closed jobs, edit fence, backing, the strict contract | |
| `WorkerProofs`, `FailoverProofs`, `JobQueueProofs`, `FarmCommandsProofs`, `StandingProofs`, `FrameProgressProofs` (each extends the module it is named after) | the theorems of one module each | |

### Dispatch: state and steps

`job` and `chunk` are the two tables. `phase` says where `DispatchManager::update`
stands: `rest`, then `reports` (`processReports`), `jobs` (`detectDeadWorkers` and
`checkJobCompletions`), `assign` (`assignWork`). Each step of the pass is one
database statement with the code that decides about it:

| Actions | Code |
|---|---|
| `TickStart`, `ApplyReport`, `ApplyRevert` | `processReports`: the queues are swapped out, then applied kind by kind |
| `ReclaimDead` | `detectDeadWorkers` |
| `JudgeJob`, `CloseJob` | `checkJobCompletions`: the state is read, then written |
| `ServePeers`, `FindChunk`, `ReadEpoch`, `AssignPicked`, `DropPicked`, `TickEnd` | `assignWork`: query, epoch and assignment are three statements |
| `PostArrives`, `PostAnswered`, `PostUnanswered`, `PostDropped` | the detached thread of an assignment and the handler on the node; a POST that timed out may still arrive |
| `StartRender`, `SkipDispatch`, `FinishRender`, `AbortGone`, `SelfFence`, `FlushReport` | the node: its queue, its render, its report buffer |
| `Heartbeat`, `DeclareDead`, `EntryExpires` | what the leader believes of a node |
| `Pause` ... `FinishEdit` | commands, and the statements of `applyEditLocally` one by one |

`fence`, `finished` and `mishaps` are history variables that no action reads for a
decision, except that `mishaps` bounds the faults.

### ChunkContract and what refines it

`ChunkContract` knows only the status of each chunk: its state, its holder and the
nodes that failed it. `DispatchContract` reads a row as such a status and
instantiates the contract twice. `Undisturbed` (nothing is ever revoked, so what is
done or given up stays so) is what `Dispatch` keeps while no operator acts and no
POST times out; `Disturbed` (a chunk may be put back or stopped at any time) is what
it keeps whatever happens, except for chunks that an operator assigns by hand.
Either way only a holder finishes or fails a chunk, no node that failed it holds it
again, and none is given up before `max_retries` different nodes have failed it.

### Worker: state and steps

`phase` walks through one `MonitorApp::update`: `messages` (`processMessages`
handles what it swapped out), `update` (deliveries, then the head of the queue),
`check` (the disconnect check), `rest`. `wait` is `m_requeueActive` with its ten
seconds, `grace` the 30 s of `m_disconnectGraceActive`; both clocks are steps that
may come at any time. `link`, `toAgent` and `mail` are the connection, what it
carries to the agent and `m_messageQueue`. An agent is `starting`, `idle`,
`rendering`, `lost` (connection broken, reconnecting), `leaving` (result sent, not
yet exited), `gone`, or
`orphaned`: dead, with a renderer that runs on in its own process group. `frames` says
where the frames of each dispatch are, `told` what became of it. `Staging` is
the configuration flag.

### Failover: state and steps

Three groups of variables per node: what its PeerManager thread knows (`peers`,
`toPoll`, `leader`), what its main thread and `m_leaderThread` have made of it
(`wasLeader`, `opening`, `ready`, `open`, `disk`), and its share of the work (`busy`,
`outbox`, `inbox`). `endpoint` and `snapshot` are the files on the share.

| Actions | Code |
|---|---|
| `BeginPass`, `PollAnswered`, `PollFailed`, `Elect` | one pass of the PeerManager thread: endpoint file, discovery, polls one by one, `recomputeLeader` |
| `Heartbeat`, `FallsSilent` | UDP contact, which keeps a peer alive when polls fail |
| `BecomeLeader`, `LoseLeadership`, `MissChange` | `MonitorApp::update`, which asks `isLeader()` three times |
| `Restore`, `RestoreFails`, `OpenLocal` | `m_leaderThread` |
| `TakeSnapshot`, `BeginCopy`, `EndCopy` | the detached snapshot thread; between the last two the file on the share is torn |
| `AssignWork`, `FinishRender`, `FlushReport`, `ProcessReports`, `DetectDeadWorkers` | the dispatch of one job, coarser than in `Dispatch` |
| `Crash`, `Leave`, `Start` | a farm that goes down, says goodbye or comes back |

### JobQueue, FarmCommands, FrameProgress, Standing

In `JobQueue` a multi-statement call is a record in `call[t]` of the thread that runs
it, standing before its next statement: choosing a version, inserting the row,
inserting the chunks, undoing the row, marking chunks completed. Nothing stops a
deletion in between; `torn` (history) are the ids it has struck. `jobs` has the keys
the list and the dispatch query sort by; `dirs` are the directories whose existence
`generateSlug` looks at. `hand` (history) is the move or priority change just made.

In `FarmCommands` the editor of each node is `opening`, `dialog`, `applying`, `posted`
(fetch for the dialog, the dialog, fetch for the apply, POST); the share is
`commands`, `processed`, `written`; the leader's poll is `listed` and `acking`, so that
the leader may die between applying a command and moving its file. A command takes the
time that orders it first (`StampCommand`) and shows its file later (`ShowCommand`), so
that the leader may have read on by then. `excuses` (history) counts, per edit, the
faults that left open whether that edit was applied; `unmoved` and `overtaken` (history)
are the commands another may go before. A row is known by
the edit that wrote it last, as an edit rewrites all that its form holds.

In `FrameProgress` a frame carries the epoch it was rendered under. `flush` is the
batch `flushFrameReports` has taken out, `checked` a frame that the main thread has
found current and not yet written, `frameQueue` the leader's queue, `shown` the column
`completed_frames`.

In `Standing` each node has a `tracker`, as each may lead, and a `mirror`; a record
keeps its count, whether its window has lapsed and whether it cools down. `recent`
(history) are the reports a tracker has taken in since the window began or the node was
cleared, one by one, where the code keeps a number.

### How they fit

`Dispatch` sees of a node only its queue, its render, its outbox and its
heartbeats; `Worker` opens that box. `StartRender`, `SkipDispatch` and
`FinishRender` of `Dispatch` are what `Worker` does in `StartRender`,
`SkipStopped` and the verdicts of `Tell`. `Worker`'s assumption about the
leader, `LeaderOffers`, is the filter of `Servable` in `Dispatch`.

`Dispatch` has one leader for ever; `Failover` shares its chunk rows and statements
(`ChunkTable`) and lets the leader change, with one job and without edits. The
other modules take up one table or buffer each, with the dispatch around it reduced
to what they need: `JobQueue` the `jobs` table, `FrameProgress` the column
`completed_frames`, `Standing` the tracker, `FarmCommands` the way of an edit up to
the point where `Dispatch` applies it statement by statement.

## Runs

Every run ends within four minutes with two worker threads; the sizes are distinct
states.

| Run | Instance | Checks | States |
|---|---|---|---|
| `DispatchFaults` | 2 nodes, 1 chunk, 2 attempts, 2 mishaps of seven kinds | `EachNodeFailsAChunkOnce`, `AssignmentBacked`, `KeepsTheLooseContract` | 893,000 |
| `DispatchControl` | 1 remote node, every command but direct assignment, 1 edit, on the main thread | `TypeOK`, `EditFence`, `FinishedJobsAreSettled`, `BlacklistHonoured` | 606,000 |
| `DispatchOverHttp` | the leader renders too, commands on HTTP threads, direct assignment, late POSTs, stops, crashes, quick restarts | `NoPhantomCompletion` | 821,000 |
| `DispatchLive` | 2 jobs, one of them for one node only, failing renders, a lost answer, fairness | `OneChunkAtATime`, `KeepsTheContract`, `JobsSettle` | 136,000 |
| `WorkerFaults` | 3 dispatches, up to 3 agents, staging, an impatient leader, 1 of six kinds of mishap, fairness | `TypeOK`, `Accounted`, `CompletedMeansDelivered`, `EveryDispatchAnswered` | 90,000 |
| `WorkerCommands` | 2 dispatches of 2 jobs, every command, a broken pipe, a dying agent whose renderer lives on, slow starts | `Accounted`, `OneRenderAtATime` | 789,000 |
| `FailoverFaults` | 2 nodes with multicast, one of them tagged leader, 1 chunk, 1 snapshot, 1 of five kinds of mishap and restarts, fairness of the election | `TypeOK`, `DatabaseFollowsLeadership`, `CompletionsAreReal`, `LeaderAgreed` | 533,000 |
| `FailoverLost` | 2 nodes of which one may crash, fairness of everything | `JobGetsDone` violated | stops at the violation |
| `JobQueueRun` | 1 name with its duplicates and versions, 2 threads, 3 submissions, 2 events | `TypeOK`, `ChunksMatchTheRow`, `QueuedJobsCloseDone`, `OrderChangesOnlyByHand`, `MoveIsExact` | 877,000 |
| `FarmCommandsRun` | 2 nodes, either of which leads, 2 edits, 2 mishaps of eight kinds, fairness | `TypeOK`, `AppliedOnce`, `AnswersAreTrue`, `CommandsInOrder`, `EditorsAreAnswered`, `CommandsSettle` | 455,000 |
| `FrameProgressRun` | the leader and a worker, 1 frame, 1 edit over HTTP, 1 mishap of three kinds, fairness | `TypeOK`, `ShownFramesAreCurrent`, `FramesArrive`, `OutdatedRendersStop` | 210,000 |
| `StandingRun` | 2 nodes, either of which leads, threshold 2, 2 failures, 1 change or restart of the leader, 1 lost message, fairness | `TypeOK`, `SuspensionIsEarned`, `MirrorsSettle`, `FailuresAreForgiven` | 37,000 |

What they show, in the terms of the code:

- *Reports.* However late, doubled or out of order a report is, it completes only a
  row that names its node and epoch; a failure costs one retry; nothing is given up
  before enough different nodes failed it (`DispatchFaults`, `DispatchOverHttp`).
- *Edits and commands* from the leader's own window keep the fence closed, a finished
  job without open chunks and the blacklist honoured (`DispatchControl`).
- *Progress.* Every active job ends, a node is never given a second chunk, and what is
  done stays done (`DispatchLive`).
- *One node* answers for each dispatch once, and completed means that the frames
  were copied (`WorkerFaults`, `WorkerCommands`).
- *Failover* never invents a completion, and the nodes agree on a leader again
  (`FailoverFaults`); that the job is done in the end is false (`FailoverLost`).
- *Jobs* keep their own chunks although ids collide, unless one is deleted while it is
  being inserted, and the list moves as the user moved it (`JobQueueRun`).
- *An edit over the share* is applied again only after a fault of its own, an editor's
  commands in the order it issued them, and the editor always hears of it
  (`FarmCommandsRun`).
- *Frames* of an older render are not shown after a fresh start, and a frame's "stale"
  stops a node whose abort push was lost (`FrameProgressRun`).
- *Suspension* comes with the report that fills the window, no sooner and no later:
  nothing of an earlier window, of the time before an unsuspend or a restart, or of
  another leader's count goes into it; and every mirror converges (`StandingRun`).

### Bounds

`MaxBacklog` bounds the dispatches and reports a node holds, `MaxEdits` the edits,
`MaxMishaps` the faults (in `Dispatch` failed renders are not counted: `MaxRetries`
bounds them), `Agents` the spawns of `Worker`, `MaxSnapshots` the snapshots,
`MaxSubmits` the submissions, `MaxEvents` moves and priority changes (a fault of
`JobQueue` is the last event), `MaxFailures` and `MaxChanges` the failed renders and
changes of leader in `Standing`.

Two nodes suffice for a report that meets another node's attempt, for two leaders and
for a mirror that differs from its source; one chunk suffices for the fences, which
compare one row, and two for a node that could be given a second one.
`DispatchControl` has one node because that is the harder case for the fence: between
two nodes the comparison of names helps it. One edit suffices for a dispatch from
before and one from after it; two mishaps for a fault that meets the consequences of
another. As many agents as dispatches are enough, because every spawn ends with a
dispatch that is started or failed.

Some constants of the code are smaller in a run: a peer is dead after one failed poll
(`DeadAfter`, three in the code; polls of a live peer fail as a mishap only, so that
the number matters for how long, not for whether), a node is suspended after two
failures (five in the code, in a window that may lapse between any two),
`generateSlug` tries two names (99) and a resubmission two versions (999), so that
running out of them is reached. In `Failover` one snapshot is enough for a restored
file that is older than the database it replaces, and a torn file needs no second one.

Symmetry is used in `DispatchFaults` only, where no node is the leader's and no
liveness is checked. `JobQueueRun` and `FarmCommandsRun` switch deadlock checking off:
submissions and edits are bounded, and when the last is dealt with nothing is left to
do. All other instances have timers that never stop.

### What the violation says

*FailoverLost.* The README promises that a new leader picks up where the old one left
off. The snapshot thread copies its file over the one on the share in place. When the
leader dies in between, the share holds a part of a database; the next leader's
`restoreFrom` has by then overwritten its own local copy with it, opening fails, and
the second attempt, `open`, fails on the same file: the node leads without a database
and the job never ends. A shorter way to the same end, a restored row that says
*assigned* to a live node which has nothing left to report, is listed among the hazards.

### Where a property stops holding

Each property is checked under the constants above. Beyond them the code allows:

- *Commands on HTTP threads* (`HttpControls`): a job is closed over a chunk that was
  requeued between the two statements of `checkJobCompletions`
  (`FinishedJobsAreSettled`); an edit between the query and the epoch dispatches the
  old manifest under the new epoch, past the fence (`EditFence`).
- *A POST that timed out at the leader and is served by the node*: the revert has no
  condition on state, node or epoch and undoes even a completion (`KeepsTheContract`;
  `KeepsTheLooseContract` allows for it).
- *A late abort push*: it names the job, not the epoch, and drops the work the same
  node was given after the edit (`AssignmentBacked` with edits).
- *A node stopped with a dispatch in its queue, or restarted within three polls*: the
  chunk stays assigned (`AssignmentBacked` with `stopNode`, `quickRestart`).
- *Fewer capable nodes than `max_retries`*: the job never ends (`JobsSettle`).
- *A peer declared dead by mistake*: it is given a second chunk (`OneChunkAtATime` with
  `partition`); likewise one that crashes and returns, one whose POST timed out and is
  served later, and one whose entry in `m_dispatchedNodes` expires before its heartbeat
  shows it rendering.
- *A chunk assigned by hand, or a revert that comes late*: neither `reassignChunk` nor the
  revert looks at the job, so that a closed job has an open chunk
  (`FinishedJobsAreSettled` with `assignTo` or `stopNode`).
- *An abandoned render that ends at that moment*: the coordinator takes every result for
  the active render's, so the old result completes the next dispatch
  (`CompletedMeansDelivered` with `abandon`); likewise after a broken pipe.
- *A slow agent that connects when the first one dies* is taken for the first one
  reconnected, and the render never ends (`EveryDispatchAnswered` with `slowStart` and
  `crash`).
- *Two dispatches that share a staging directory* lose frames
  (`CompletedMeansDelivered` with `SharedDir`).
- *A change of leader between two `isLeader()` calls of one `update()`*: a leader never
  opens its database, or a follower keeps it open (`DatabaseFollowsLeadership` excepts
  the nodes in `missed`).
- *An agent that dies under Unix*: its renderer runs on beside that of the next agent
  (`OneRenderAtATime` is about live, connected agents, and leaves that renderer and that
  of an agent that has lost its connection aside).
- *A `-vN` deleted while it is being inserted* (`deleteJob` takes no account of a thread
  between `insertJob` and `insertChunks`) and inserted again by another thread: both lay
  their chunks under one row, or the undo of the first removes the row of the second, or
  the completed marks of the first fall on chunks of the second (`ChunksMatchTheRow` and
  `QueuedJobsCloseDone` except the ids in `torn`).
- *A resubmission on an HTTP thread*: `checkJobCompletions` may close the job between
  its row and its chunks (`QueuedJobsCloseDone` speaks of the other routes).
- *An edit between `isJobEpochCurrent` and `addCompletedFrames`* of the leader's own
  frame (`ShownFramesAreCurrent` excepts `raced`).

The modules also reach behaviours that no property forbids, because nothing in the
code or its documentation does. A submission whose POST fails is moved to `processed/`
and lost; a submission whose rename fails is submitted again. A worker's cleanup dialog
lists the directories of archived jobs as orphaned. A command waiting on the share
overwrites an edit posted after it was issued. The manifest that a fetch returns is
applied to whichever job the dialog shows by then. The comment at
`monitor_app.cpp:1659` calls the name of a command file "the idempotency key", but nothing
compares a name with those in `processed/` or with what was applied: after a lost answer,
a death before the move or a move that failed the same edit is applied again, which
`AppliedOnce` allows once for each such fault of that edit. A drop next to a job of another
priority adopts that priority (`database_manager.cpp:286-294` and `JobListPanel.qml:153-160`
mean it so; `docs/monitor.md:16` says that the drop is refused); `MoveIsExact` speaks of
drops within a group, where code and documentation agree. `purgeJob` leaves the
ten-second wait of one dispatch to the next.
A requeue clears `completed_frames` and keeps the epoch, so late frames of the attempt
before it are shown. A leader whose database is not open dies of a report (`Crash` stands
for it). A leader
that has lost the lead may still publish its snapshot.

### Fairness

- `Dispatch` (`JobsSettle`): `MonitorApp::update` runs on a timer and each pass ends; an
  edit that has begun is carried through; POSTs are answered or time out; renders end;
  heartbeats, report flushes, the expiry of dispatched entries and the recovery of an
  agent are timer driven. The local node's steps need strong fairness because passes
  of the dispatcher keep disabling them, while the code runs the coordinator before
  the dispatcher in every update.
- `Worker` (`EveryDispatchAnswered`): the main and IPC threads loop, the two clocks
  advance, a held delivery ends within 600 s (strong, because it is enabled in one
  phase only), and an agent that lives goes on: it connects, reads, renders to an end
  and exits.
- `Failover`: `ElectionFairness` (`LeaderAgreed`) is the PeerManager thread, whose polls
  end by their timeouts, and the silence of a node that is down. `WorkFairness`
  (`JobGetsDone`) adds the timers of `update()`, the flush thread, `m_leaderThread` and
  the snapshot thread. Nobody need restart a node, and every heartbeat may be lost.
- `FarmCommands`: the threads run, socket calls have time limits, some node comes to
  lead and its database opens. That a late request is ever served is not assumed.
- `FrameProgress`: `update()` and the flush thread run, an edit that has begun ends. A
  render need not end and an abort push need not arrive.
- `Standing`: as above; in addition the cooldown passes, and `StartRender` is strongly
  fair, because `assignWork` looks at every node every two seconds while failures may
  hold it back again and again. Nobody need press a button.

In no module is a command, a user or a fault fair.

## Theorems

TLAPS proves these for every number of nodes, jobs, chunks, attempts, agents, threads
and edits and every choice of commands and faults, except where the table names a
hypothesis. Every safety property that a passing run checks is the subject of one; no
run leaves the hypothesis of the theorem on what it checks.

| Theorem | Module | Hypothesis | Property |
|---|---|---|---|
| `TypeCorrect` | `DispatchProofs` | | `TypeOK` |
| `CompletionsAreReal` | `DispatchProofs` | | `NoPhantomCompletion` |
| `BlacklistIsHonoured` | `DispatchProofs` | no direct assignment by an operator | `BlacklistHonoured` |
| `FailuresCountOnce` | `DispatchProofs` | no direct assignment by an operator | `EachNodeFailsAChunkOnce` |
| `DispatchKeepsContract` | `DispatchProofs` | no direct assignment by an operator | `KeepsTheLooseContract` |
| `NodesGetOneChunk` | `DispatchFlow` | `Timely` | `OneChunkAtATime` |
| `ClosedJobsAreSettled` | `DispatchFlow` | `Quiet` | `FinishedJobsAreSettled` |
| `EditsAreFenced` | `DispatchFlow` | commands on the main thread, no direct assignment | `EditFence` |
| `AssignmentsAreBacked` | `DispatchFlow` | `Undropped` | `AssignmentBacked` |
| `DispatchKeepsStrictContract` | `DispatchFlow` | `Unhindered` | `KeepsTheContract` |
| `TypeCorrect` | `WorkerProofs` | | `TypeOK` |
| `EveryDispatchIsAccounted` | `WorkerProofs` | | `Accounted` |
| `OneRender` | `WorkerProofs` | | `OneRenderAtATime` |
| `CompletedFramesArrived` | `WorkerProofs` | `Undisturbed` | `CompletedMeansDelivered` |
| `TypeCorrect` | `FailoverProofs` | | `TypeOK` |
| `FollowersHaveNoDatabase` | `FailoverProofs` | | `DatabaseFollowsLeadership` |
| `NothingInvented` | `FailoverProofs` | | `CompletionsAreReal` |
| `TypeCorrect` | `JobQueueProofs` | | `TypeOK` |
| `JobsHaveTheirChunks` | `JobQueueProofs` | | `ChunksMatchTheRow` |
| `JobsCloseWhenDone` | `JobQueueProofs` | | `QueuedJobsCloseDone` |
| `OnlyHandsReorder` | `JobQueueProofs` | | `OrderChangesOnlyByHand` |
| `MovesAreExact` | `JobQueueProofs` | | `MoveIsExact` |
| `TypeCorrect` | `FarmCommandsProofs` | | `TypeOK` |
| `EditsApplyOnce` | `FarmCommandsProofs` | | `AppliedOnce` |
| `AnswersStayTrue` | `FarmCommandsProofs` | | `AnswersAreTrue` |
| `CommandsAreInOrder` | `FarmCommandsProofs` | | `CommandsInOrder` |
| `TypeCorrect` | `StandingProofs` | | `TypeOK` |
| `SuspensionsAreEarned` | `StandingProofs` | | `SuspensionIsEarned` |
| `TypeCorrect` | `FrameProgressProofs` | | `TypeOK` |
| `NoFrameOutlivesAStartOver` | `FrameProgressProofs` | | `ShownFramesAreCurrent` |

### Assumptions

The constants satisfy the assumption of their module (`DispatchAssumption`,
`WorkerAssumption` and so on), which TLC evaluates in every run of that module. They ask
for the types of the constants and bounds that are numbers. `NoneAssumption` and the
three `AbsenceAssumption`s say that `None` is no node, row, dispatch or call, and
`FailoverAssumption` that a torn, an empty and a missing file are no table of rows: they
stand for a null pointer, an empty optional and an unreadable file, which the code tells
from values.

The hypotheses restrict the commands and faults to those under which the code keeps
the property; "Where a property stops holding" has what happens beyond each:

- `Timely`: no POST, poll or entry of `m_dispatchedNodes` is late and no node crashes,
  for these make the leader believe too early that a node is free.
- `Quiet`: in addition commands come from the leader's own UI, none assigns a chunk by
  hand, and no node is stopped. `Unhindered`: in addition there are no commands. Failing
  renders, lost answers and failing agents remain.
- `Undropped`: operators pause, resume, requeue, retry and edit without restarting, and no
  node is stopped or back before it was missed. An abort push, a restart and a stop make a
  node drop a dispatch unreported. Timeouts, late heartbeats, partitions, crashes and lost
  answers remain.
- `Undisturbed`: no operator command and no broken pipe, for the coordinator takes every
  result for the active render's; each dispatch has a directory of its own. Crashes of
  agents, slow and failed starts, failed copies and impatient leaders remain.

### Dispatch

`TypeOK` is inductive; the one difficulty is `purgeJob`, a recursive function over a
queue (`Keep`), whose value is shown to be a queue by the least prefix at which it would
not be (`NatLeast`, `KeepDefined`, `KeepType`). This least counterexample takes the place
of an induction over data, here and in `Worker`. `RowSteps` then says what one step of
the system may do to one row: nothing, take an attempt back, assign it, apply a report
that passed the fence, stop it, or assign it by hand.

For `CompletionsAreReal` the invariant is not inductive alone: a report must be honest
before it is applied. `Honest` adds that nodes hold only their own work and that a
completion in an outbox, in the inbox or in a batch is backed by a finished render. For
the blacklist, `PickHolds` says that a pending chunk picked for a node has not been
failed by that node, which survives HTTP threads because a failure needs the chunk
assigned and the assignment needs it pending; `Counted` says that the retry count is at
most the size of the blacklist, which the fence keeps, since a node's second failure
would need a second assignment.

`DispatchKeepsContract` is the refinement: initial rows read as open chunks, and each
case of `RowSteps`, read through `StatusOf`, is a step of `ChunkContract` or none. It
needs `Honest` and `Blacklist`: the assigned node must not be among those that failed
the chunk (`Take`), a report that passes the fence comes from the holder (`Finish`,
`Fail`), and a chunk whose retries are used up has as many different nodes on its
blacklist (`Counted`, in `Fail`). `DispatchKeepsStrictContract` needs besides that
nothing is put back once it is done: `NothingReturns`, no revert is under way, because a
node that is sent a chunk is free and takes it, and `OpenIsFree`, a waiting chunk has no
node.

`NodesGetOneChunk` rests on `Tracked`: a dispatch is on the wire, in the queue or
rendered (`InOnePlace`); until the node is seen rendering, the leader's own memory
`m_dispatchedNodes` covers it (`Remembered`); a node about to be served has nothing
(`ServesIdle`). Each alone is lost at the next step. `ClosedJobsAreSettled` adds that the
verdict of `checkJobCompletions` still holds when it is written (`VerdictHolds`) and that
nothing returns. `EditsAreFenced` follows every carrier of a dispatch (`Fenced`: older
than the epoch, or with a manifest as new as the fence), the node being served
(`FencedPick`: the manifest was read before the epoch) and the rows (`RowEpochs`, with
the exception of those of the job whose edit has bumped the epoch and not yet reset
them). `AssignmentsAreBacked` is proved for the exact dispatch, node, attempt and epoch
that the row names (`WithItsNode`); it needs that no node has a reason to drop one
(`NoReason`) and that reports and reverts taken out are applied in the same pass
(`BatchApplied`).

### Worker

`EveryDispatchIsAccounted` is a sum (`Balanced`): queue, active render, held deliveries
and verdicts hold each accepted dispatch once, and the code moves it between them.
`OneRender` needs that only the connected agent takes orders (`Linked`); an agent that
has died or lost its connection may still have a renderer, and takes no orders.
`CompletedFramesArrived` follows a render through `InOnePlace` (the order on the pipe,
the agent at work, or one message of its own), `NothingLeft` (no result of an ended
render is unread when the next begins), `AgentsFresh` and `FramesReady`.

### Failover

`FollowersHaveNoDatabase` needs nothing but the types of the four role variables:
whatever a node believes about its peers, the database is opened only by
`m_leaderThread` while `m_wasLeader` stands, and `onLoseLeadership` waits for that
thread. Nodes in `missed` are excepted throughout. `NothingInvented` adds to the
property that reports in a buffer or a queue are of renders that ended
(`ReportsAreReal`); files are then passed on as they are (`Unwritten`) or get rows
that are open, unchanged or completed by the reporting node (`Written`, `Rows`).
`TypeCorrect` needs that a pass polls only peers it has an entry of (`PolledAreKnown`),
that an open database is no torn file (`OpenAreWhole`), and that `recomputeLeader` finds
a leader at all: among its candidates one has the least rank and id (`ElectedIsCandidate`).

### JobQueue

A job and its chunks are inserted by two statements, so `ChunksMatchTheRow` holds between
them only if nobody else touches the id. `Insertion` says so: the call that inserted a row
owns it until it returns (`OneOwner`, `OwnersAgree`), its chunks are none until it inserts
them (`FillersFindNone`), every other row is complete (`FilledOrComplete`), and no chunk
lacks its row (`NoStrays`). All but the last are about ids that are not `torn`: a deletion
during an insertion takes its id out of the invariant for good, and the theorem out of
what it says of it. `JobsCloseWhenDone` adds that the main thread never closes a
job it is inserting (`MainKeepsOpen`) and that a closed row of its routes keeps its
completed chunks (`Closed`).

The two theorems on order are about `moveJob`: the listing of a group is a permutation of
it, the new listing is the old one without the moved job and with it beside its target, and
numbering along a listing orders the rows as the listing does (`Renumbered`, `MoveStep`).
Keys and times that were equal before do no harm, since all keys of the group are written.
All other statements leave priority, key and time of a row alone (`KeepsPlaces`).

### FarmCommands, Standing, FrameProgress

`EditsApplyOnce` and `AnswersStayTrue` share one account per edit (`Account`): what has
been applied plus what a late request may still apply (`Spent`) is at most one more than
the edit's own excuses, and only as many as these while the edit waits on the share or
its POST had no response; it is with one editor at a time, and what was refused has never
been shown on the share. Each fault either excuses the edit (`Excused`), or hits a request
that was not applied (`Unanswered`), or does not concern it (`Unconcerned`); that faults
of other edits never count is what the third lemma is for. `CommandsAreInOrder` needs that
while a later command is listed an earlier one is listed before it, is being acknowledged
or was passed (`InOrder`), and that an editor has nothing later on the share than the
edit it is posting (`Latest`): so a file renamed late can be passed only by another
editor's. The listing is sorted by the time of the stamp in the code, and so in the model.

`SuspensionsAreEarned` needs that the number a record keeps is the number of the different
reports taken in since its window began (`WindowsMatch`). A report is known by its failure and
by the mishap after which it was sent again; that none is taken in twice under one name
(`ReportsDiffer`) needs that each is with its node, in one queue or counted, on every node
that has ever led.
`NoFrameOutlivesAStartOver` needs that checked frames are of the epoch found and that no
start-over is ahead of the epoch (`Current`).

### Only model-checked

The liveness properties: `JobsSettle`, `EveryDispatchAnswered`, `LeaderAgreed`,
`EditorsAreAnswered`, `CommandsSettle`, `FramesArrive`, `OutdatedRendersStop`,
`MirrorsSettle`, `FailuresAreForgiven`. They rest on fairness, and so on `ENABLED`, about
which TLAPS cannot reason. Out of its reach too is what a recursive definition computes
for every input: of `purgeJob`'s loop is proved that it yields a queue of what was queued
and, in
`Worker`, how often each dispatch is left in it. Eleven hazards in `PROJECT.json` have no
property that covers them: each is a way in which the code breaks a checked property, under
a command, a fault or a shortage that the run leaves out or that the property excepts.

## Abstractions

In `Dispatch`: messages in flight are sets (handlers are idempotent in what they
change); a heartbeat is applied in one step; `ready_for_work`, the failure
tracker's cooldown and suspension, frames, submission, deletion, snapshots and a
change of leader are left to the other modules; tags are the static `Capable`; one
edit at a time; the handler's check of a report and its queueing are one step;
reports of old versions without node or epoch are excluded; peers are served in any
order; the lowest chunk number is offered first, which stands for priority and frame
order.

In `Worker`: processes are those of Unix, where nothing keeps two agents of one
node apart (Windows has a mutex) and a renderer outlives an agent that is killed
(Windows has a job object); a message sent on a live connection is read at
once; acks, progress, frame reports and log lines are left out; the two-second
throttle of a waiting dispatch only skips ticks; an HTTP thread's abandon is one
step between those of the main thread, although the code does not lock the render;
each dispatch arrives once and its job is not created again after a deletion.

In `Failover`: every farm has just started; ids are numbers, and a node has at most
one of the two election tags; a dispatch is an assignment that the node has
taken; reports are only completions; the files beside a database (`-wal`, `-shm`) are
not modelled; a database file is its rows, *torn* or *empty*.

In `JobQueue`: a job's frames are the places in its range, a submission's time is the
clock of its sender; a render never fails; the order within a tie is any; the UI
thread's calls on the leader are one statement each. In `FarmCommands`: an edit is
applied in one step (its statements are `Dispatch`'s); clocks are in step; one node
leads at a time; a manifest is the edit that wrote it. In `FrameProgress`: one job, one
chunk's frames, one leader. In `Standing`: the chunk a failure belongs to is reduced
to whether the database has moved on from it; windows and cooldowns end at any time.

## Not modelled

- `src/restart/` (a process that waits for another to exit), the installer and the DCC
  plugins: one process each, nothing to interleave with the farm.
- The preview (`src/preview/`), the Qt models, settings and translations: they decode
  or copy; the parts of `app_bridge.cpp` that take part in an edit, a submission or an
  unsuspend are modelled.
- The requests by which the leader restarts an agent or a farm, `shutdownAgent` and
  `killAgent`, and `RenderCoordinator::init` on a second farm session.
- Parsing of renderer output, log buffers, template expansion, manifest contents,
  framing of IPC and HTTP messages, authentication, path mapping.
- Two compositions whose state space TLC cannot explore here: edits across a failover
  (an edit epoch restored from a snapshot is issued again, and a render from before the
  failover then passes the fence), and two commands applied by two threads of
  `applyEditLocally` at once.

## Plan

1. Weaker hypotheses: `OneChunkAtATime` with crashes of nodes that stay down,
   `AssignmentBacked` with abort pushes of jobs that no edit touches, and
   `CompletedMeansDelivered` with commands that find no active render.
2. A contract of one node (a dispatch is taken, rendered, answered) that `Worker`
   implements and `Dispatch` assumes.
3. The agent restart request, in `Worker`.
4. Edit epochs in `Failover`, with dispatch and election reduced further.
