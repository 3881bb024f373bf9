------------------------------- MODULE Worker -------------------------------
(***************************************************************************)
(* One node at work: from the dispatch the leader hands it to the verdict  *)
(* it reports.  Four kinds of actor:                                       *)
(*   - the main thread, MonitorApp::update: the agent's messages, then     *)
(*     RenderCoordinator::update, then the rest, again and again;          *)
(*   - HTTP threads, which queue dispatches and abandon renders;           *)
(*   - the IPC thread, which accepts one agent, reads its messages into    *)
(*     m_messageQueue and notices when it is gone;                         *)
(*   - the agents, Rust processes that take one task and exit.             *)
(*                                                                         *)
(* Agents are numbered in the order they are spawned.  The processes are   *)
(* those of Unix, where nothing keeps two agents of one node apart and a   *)
(* renderer, in a process group of its own, outlives an agent that dies.   *)
(***************************************************************************)
EXTENDS Naturals, Sequences, FiniteSets

CONSTANTS
    Dispatches,   \* assignments the leader may make, each at most once
    JobOf,        \* the job of each
    DirOf,        \* the local staging directory of each: its job and frames
    Agents,       \* 1 .. n; a spawn needs one that is left
    Staging,      \* m_stagingEnabled
    Commands,     \* what operators and the leader may do
    Faults,       \* what may go wrong
    MaxMishaps,   \* bound on the faults that strike
    None

AllCommands == {"cancel", "abandon", "stop", "delete"}
AllFaults   == {"renderFails", "startFails", "crash", "pipeBreaks", "spawnFails",
                "undeliverable", "slowStart", "impatient"}

ASSUME WorkerAssumption ==
    /\ Agents \subseteq Nat
    /\ None \notin Dispatches /\ None \notin Agents
    /\ Staging \in BOOLEAN
    /\ Commands \subseteq AllCommands /\ Faults \subseteq AllFaults
    /\ MaxMishaps \in Nat

VARIABLES
    phase,     \* where MonitorApp::update stands
    batch,     \* messages swapped out of m_messageQueue, not yet handled
    queue,     \* m_dispatchQueue
    active,    \* m_activeRender
    wait,      \* m_requeueActive, and whether its 10 s are over
    grace,     \* m_disconnectGraceActive, and whether its 30 s are over
    stopped,   \* m_stopped
    held,      \* m_pendingDeliveries
    deleted,   \* m_deletedJobs
    link,      \* the agent whose connection is accepted
    mail,      \* m_messageQueue
    toAgent,   \* what the link carries to the agent
    child,     \* m_childPid
    ready,     \* m_readyForWork
    health,    \* m_agentHealth
    agent,     \* the agents
    frames,    \* where the frames of each dispatch are
    taken,     \* history: the dispatches accepted
    told,      \* history: what became of each
    mishaps    \* history: the faults that struck

tickVars    == <<phase, batch>>
renderVars  == <<queue, active, wait, grace, held, told>>
commandVars == <<stopped, deleted, taken>>
ipcVars     == <<link, mail, toAgent, child, ready, health>>
agentVars   == <<agent, frames, mishaps>>
vars        == <<tickVars, renderVars, commandVars, ipcVars, agentVars>>

JobSet == {JobOf[d] : d \in Dispatches}

Message == [kind : {"idle", "completed", "failed"}]
Order   == [kind : {"task", "abort"}, of : Dispatches \cup {None}]

TypeOK ==
    /\ phase \in {"rest", "messages", "update", "check"}
    /\ batch \in Seq(Message) /\ mail \in Seq(Message)
    /\ queue \in Seq(Dispatches) /\ active \in Dispatches \cup {None}
    /\ wait \in {"no", "spawned", "overdue"}
    /\ grace \in {"no", "running", "expired"}
    /\ stopped \in BOOLEAN /\ ready \in BOOLEAN
    /\ held \subseteq Dispatches /\ deleted \subseteq JobSet /\ taken \subseteq Dispatches
    /\ link \in Agents \cup {None} /\ child \in Agents \cup {None}
    /\ toAgent \in Seq(Order)
    /\ health \in {"ok", "needs_attention"}
    /\ agent \in [Agents ->
         [at : {"unborn", "starting", "idle", "rendering", "lost", "leaving", "gone", "orphaned"},
          task : Dispatches \cup {None}, killed : BOOLEAN,
          result : {"none", "completed", "failed"}]]
    /\ frames \in [Dispatches -> {"none", "torn", "staged", "delivered"}]
    /\ told \in [Dispatches -> Seq({"completed", "failed", "abandoned", "dropped"})]
    /\ mishaps \in Nat

Init ==
    /\ phase = "rest" /\ batch = <<>> /\ mail = <<>> /\ toAgent = <<>>
    /\ queue = <<>> /\ active = None /\ wait = "no" /\ grace = "no"
    /\ stopped = FALSE /\ held = {} /\ deleted = {} /\ taken = {}
    /\ link = None /\ child = None /\ ready = TRUE /\ health = "ok"
    /\ agent = [a \in Agents |-> [at |-> "unborn", task |-> None,
                                  killed |-> FALSE, result |-> "none"]]
    /\ frames = [d \in Dispatches |-> "none"]
    /\ told = [d \in Dispatches |-> <<>>]
    /\ mishaps = 0

Mishap(f) == f \in Faults /\ mishaps < MaxMishaps /\ mishaps' = mishaps + 1

-----------------------------------------------------------------------------
(* Dispatches arrive. *)

\* What the leader looks at before it assigns: the node's last report says
\* ready, healthy and not rendering, and nothing it sent is unconfirmed.  An
\* impatient leader has forgotten an unconfirmed assignment or is a second one.
LeaderOffers ==
    \/ ready /\ health = "ok" /\ queue = <<>>
    \/ "impatient" \in Faults

\* POST /api/dispatch/assign: 409 while rendering or stopped, else queued.
Enqueue(d) ==
    /\ d \notin taken /\ LeaderOffers
    /\ active = None /\ ~stopped
    /\ queue' = Append(queue, d) /\ taken' = taken \cup {d}
    /\ UNCHANGED <<tickVars, active, wait, grace, held, told, stopped, deleted,
                   ipcVars, agentVars>>

-----------------------------------------------------------------------------
(* The render in progress, its end and its delivery. *)

\* The completion callback, or for "dropped" the lack of one.
Tell(d, verdict) == told' = [told EXCEPT ![d] = Append(@, verdict)]

\* The active render is given up: failChunk and abandonCurrentRender.
EndActive(verdict) == active' = None /\ grace' = "no" /\ Tell(active, verdict)

\* d's directory is in use: since StartRender, until its agent is done.
InProgress(d) ==
    \/ d = active
    \/ \E a \in Agents : agent[a].at \in {"rendering", "lost", "orphaned"} /\ agent[a].task = d

\* deliverStagedFiles copies whatever the directory holds and removes it,
\* also under a render that is still writing into it.
FramesDelivered(dir) ==
    [d \in Dispatches |->
        IF DirOf[d] # dir THEN frames[d]
        ELSE IF InProgress(d) /\ frames[d] = "none" THEN "torn"
        ELSE IF frames[d] = "staged" THEN "delivered"
        ELSE frames[d]]

\* The copy succeeds; without staging there is nothing to copy.
Deliver(d) == frames' = IF Staging THEN FramesDelivered(DirOf[d]) ELSE frames

\* Mutant: a copy that fails is reported as completed all the same.
CompleteUndelivered ==
    /\ active' = None /\ Tell(active, "completed") /\ UNCHANGED <<held, grace>>
    /\ \/ Deliver(active) /\ UNCHANGED mishaps
       \/ Staging /\ Mishap("undeliverable") /\ UNCHANGED frames

\* Mutant: the render is reset before it is held.
CompleteAfterReset ==
    \/ /\ Deliver(active) /\ Tell(active, "completed")
       /\ active' = None /\ UNCHANGED <<held, grace, mishaps>>
    \/ /\ Staging /\ Mishap("undeliverable")
       /\ active' = None /\ held' = held \cup {active'}
       /\ UNCHANGED <<told, grace, frames>>

\* onChunkCompleted: the verdict waits until the frames are copied.
CompleteActive ==
    \/ /\ Deliver(active) /\ Tell(active, "completed")
       /\ active' = None /\ UNCHANGED <<held, grace, mishaps>>
    \/ /\ Staging /\ Mishap("undeliverable")
       /\ held' = held \cup {active}
       /\ active' = None /\ UNCHANGED <<told, grace, frames>>

\* Every message is taken to be about the active render; its job and frames
\* are not compared.
HandleResult(kind) ==
    IF active = None THEN UNCHANGED <<active, grace, held, told, frames, mishaps>>
    ELSE IF kind = "completed" THEN CompleteActive
    ELSE EndActive("failed") /\ UNCHANGED <<held, frames, mishaps>>

BeginTick ==
    /\ phase = "rest"
    /\ phase' = "messages" /\ batch' = mail /\ mail' = <<>>
    /\ UNCHANGED <<renderVars, commandVars, link, toAgent, child, ready, health, agentVars>>

HandleMessage ==
    /\ phase = "messages" /\ batch # <<>>
    /\ batch' = Tail(batch)
    /\ IF Head(batch).kind = "idle"
       THEN /\ ready' = TRUE
            /\ UNCHANGED <<active, grace, held, told, frames, mishaps>>
       ELSE HandleResult(Head(batch).kind) /\ UNCHANGED ready
    /\ UNCHANGED <<phase, queue, wait, commandVars, link, mail, toAgent, child, health, agent>>

EndMessages ==
    /\ phase = "messages" /\ batch = <<>> /\ phase' = "update"
    /\ UNCHANGED <<batch, renderVars, commandVars, ipcVars, agentVars>>

-----------------------------------------------------------------------------
(* updatePendingDeliveries: held frames are dropped with their job, copied  *)
(* again every 30 s, and given up after 600 s.                              *)

EndHeld(d, verdict) ==
    /\ phase = "update" /\ d \in held
    /\ held' = held \ {d} /\ Tell(d, verdict)
    /\ UNCHANGED <<tickVars, queue, active, wait, grace, commandVars, ipcVars, agent, mishaps>>

DropDelivery(d) == JobOf[d] \in deleted /\ EndHeld(d, "dropped") /\ UNCHANGED frames
Redeliver(d)    == JobOf[d] \notin deleted /\ EndHeld(d, "completed") /\ Deliver(d)
GiveUpDelivery(d) == JobOf[d] \notin deleted /\ EndHeld(d, "failed") /\ UNCHANGED frames

-----------------------------------------------------------------------------
(* RenderCoordinator::update: a dispatch is started or waits for an agent.  *)

Updated == \A d \in held : JobOf[d] \notin deleted

\* The rest of a tick without a render has nothing to check.
EndUpdate == phase' = IF active' = None THEN "rest" ELSE "check"

NothingToStart ==
    /\ phase = "update" /\ Updated
    /\ active # None \/ queue = <<>>
    /\ UNCHANGED <<batch, renderVars, commandVars, ipcVars, agentVars>> /\ EndUpdate

Dequeue == phase = "update" /\ Updated /\ active = None /\ queue # <<>>

SkipStopped ==
    /\ Dequeue /\ stopped
    /\ queue' = Tail(queue) /\ Tell(Head(queue), "abandoned")
    /\ UNCHANGED <<active, wait, grace, held>> /\ EndUpdate
    /\ UNCHANGED <<batch, commandVars, ipcVars, agentVars>>

NeedsAgent == Dequeue /\ ~stopped /\ link = None

\* No agent: the dispatch goes to the back of the queue.
PutBack == queue' = Append(Tail(queue), Head(queue))

SpawnAgent ==
    /\ NeedsAgent /\ wait = "no"
    /\ \E a \in Agents :
         /\ agent[a].at = "unborn" /\ \A b \in Agents : b < a => agent[b].at # "unborn"
         /\ agent' = [agent EXCEPT ![a].at = "starting"] /\ child' = a
    /\ wait' = "spawned" /\ PutBack
    /\ UNCHANGED <<active, grace, held, told>> /\ EndUpdate
    /\ UNCHANGED <<batch, commandVars, link, mail, toAgent, ready, health, frames, mishaps>>

SpawnFails ==
    /\ NeedsAgent /\ wait = "no" /\ Mishap("spawnFails")
    /\ queue' = Tail(queue) /\ Tell(Head(queue), "failed")
    /\ health' = "needs_attention"
    /\ UNCHANGED <<active, wait, grace, held>> /\ EndUpdate
    /\ UNCHANGED <<batch, commandVars, link, mail, toAgent, child, ready, agent, frames>>

KeepWaiting ==
    /\ NeedsAgent /\ wait = "spawned" /\ PutBack
    /\ UNCHANGED <<active, wait, grace, held, told>> /\ EndUpdate
    /\ UNCHANGED <<batch, commandVars, ipcVars, agentVars>>

\* Mutant: the dispatch that waited too long is failed and queued again.
FailOverdueKept ==
    /\ NeedsAgent /\ wait = "overdue"
    /\ PutBack /\ Tell(Head(queue), "failed") /\ wait' = "no"
    /\ UNCHANGED <<active, grace, held>> /\ EndUpdate
    /\ UNCHANGED <<batch, commandVars, ipcVars, agentVars>>

FailOverdue ==
    /\ NeedsAgent /\ wait = "overdue"
    /\ queue' = Tail(queue) /\ Tell(Head(queue), "failed") /\ wait' = "no"
    /\ UNCHANGED <<active, grace, held>> /\ EndUpdate
    /\ UNCHANGED <<batch, commandVars, ipcVars, agentVars>>

\* The task goes to whatever agent is connected, idle or not.
StartRender ==
    /\ Dequeue /\ ~stopped /\ link # None
    /\ active' = Head(queue) /\ queue' = Tail(queue)
    /\ wait' = "no" /\ grace' = "no" /\ ready' = FALSE
    /\ toAgent' = Append(toAgent, [kind |-> "task", of |-> Head(queue)])
    /\ UNCHANGED <<held, told>> /\ EndUpdate
    /\ UNCHANGED <<batch, commandVars, link, mail, child, health, agentVars>>

EndTick == /\ phase' = "rest"
           /\ UNCHANGED <<batch, queue, wait, held, commandVars, ipcVars, agentVars>>

\* An HTTP thread has abandoned the render since it was started.
NothingToCheck ==
    /\ phase = "check" /\ active = None
    /\ EndTick /\ UNCHANGED <<active, grace, told>>

\* The connection is there, or there again: by whichever agent.
Connected ==
    /\ phase = "check" /\ active # None /\ link # None
    /\ grace' = "no"
    /\ EndTick /\ UNCHANGED <<active, told>>

\* isAgentRunning: kill(m_childPid, 0), which an unreaped child passes.
StartGrace ==
    /\ phase = "check" /\ active # None /\ link = None /\ child # None /\ grace # "expired"
    /\ grace' = "running"
    /\ EndTick /\ UNCHANGED <<active, told>>

\* Mutant: the grace period has no end while the process looks alive.
FailIfDead ==
    /\ phase = "check" /\ active # None /\ link = None
    /\ child = None \/ grace = "expired"
    /\ IF child = None THEN EndActive("failed") ELSE UNCHANGED <<active, grace, told>>
    /\ EndTick

FailDisconnected ==
    /\ phase = "check" /\ active # None /\ link = None
    /\ child = None \/ grace = "expired"
    /\ EndActive("failed") /\ EndTick

-----------------------------------------------------------------------------
(* The two clocks. *)

\* Ten seconds since the spawn; a slow start is an agent that is alive then.
Overdue ==
    /\ wait = "spawned"
    /\ "slowStart" \in Faults \/ \A a \in Agents : agent[a].at # "starting"
    /\ wait' = "overdue"
    /\ UNCHANGED <<tickVars, queue, active, grace, held, told, commandVars, ipcVars, agentVars>>

GraceExpires ==
    /\ grace = "running" /\ grace' = "expired"
    /\ UNCHANGED <<tickVars, queue, active, wait, held, told, commandVars, ipcVars, agentVars>>

-----------------------------------------------------------------------------
(* Commands. *)

SendAbort == toAgent' = IF link = None THEN toAgent
                        ELSE Append(toAgent, [kind |-> "abort", of |-> None])

Queued(d) == \E i \in DOMAIN queue : queue[i] = d

\* purgeJob: the dispatches in s of other jobs than j, in their order.
Keep(s, j) ==
    LET kept[i \in 0 .. Len(s)] ==
          IF i = 0 THEN <<>>
          ELSE IF JobOf[s[i]] = j THEN kept[i - 1] ELSE Append(kept[i - 1], s[i])
    IN  kept[Len(s)]

\* Mutant: the dispatches of the job are dropped but stay in the queue.
ClearJobKeepsQueue(j, verdict) ==
    LET ended(d) == d = active /\ JobOf[d] = j
    IN  /\ UNCHANGED queue
        /\ told' = [d \in Dispatches |->
              IF ended(d) THEN Append(told[d], verdict)
              ELSE IF JobOf[d] = j /\ Queued(d) THEN Append(told[d], "dropped")
              ELSE told[d]]
        /\ IF \E d \in Dispatches : ended(d)
           THEN active' = None /\ grace' = "no" /\ SendAbort
           ELSE UNCHANGED <<active, grace, toAgent>>

\* The active render of job j ends with `verdict`, if there is one, and
\* purgeJob drops j's dispatches from the queue without a report.
ClearJob(j, verdict) ==
    LET ended(d) == d = active /\ JobOf[d] = j
    IN  /\ queue' = Keep(queue, j)
        /\ told' = [d \in Dispatches |->
              IF ended(d) THEN Append(told[d], verdict)
              ELSE IF JobOf[d] = j /\ Queued(d) THEN Append(told[d], "dropped")
              ELSE told[d]]
        /\ IF \E d \in Dispatches : ended(d)
           THEN active' = None /\ grace' = "no" /\ SendAbort
           ELSE UNCHANGED <<active, grace, toAgent>>

OnWorker == UNCHANGED <<tickVars, wait, held, taken, link, mail, child, ready,
                        health, agentVars>>

\* cancelJob, and abortRenderIfJobGone on a node that learns of it later.
Cancel(j)  == "cancel" \in Commands /\ ClearJob(j, "failed") /\ OnWorker
              /\ UNCHANGED <<stopped, deleted>>
\* abandonJobRender: the job was edited, or the chunk stopped.
Abandon(j) == "abandon" \in Commands /\ ClearJob(j, "abandoned") /\ OnWorker
              /\ UNCHANGED <<stopped, deleted>>
Delete(j)  == "delete" \in Commands /\ ClearJob(j, "failed") /\ OnWorker
              /\ deleted' = deleted \cup {j} /\ UNCHANGED stopped

\* setNodeState on the main thread: queued dispatches stay.
StopNode ==
    /\ "stop" \in Commands /\ phase = "rest" /\ ~stopped
    /\ stopped' = TRUE
    /\ IF active = None THEN UNCHANGED <<active, grace, told, toAgent>>
       ELSE EndActive("failed") /\ SendAbort
    /\ UNCHANGED <<queue, deleted>> /\ OnWorker

ResumeNode ==
    /\ phase = "rest" /\ stopped /\ stopped' = FALSE
    /\ UNCHANGED <<queue, active, grace, told, toAgent, deleted>> /\ OnWorker

-----------------------------------------------------------------------------
(* The IPC thread and the agents. *)

Idle == [kind |-> "idle"]

OnAgent == UNCHANGED <<tickVars, renderVars, commandVars>>

\* Mutant: a second connection is accepted while the first is served.
ConnectAnyway(a) ==
    /\ agent[a].at = "starting"
    /\ link' = a /\ toAgent' = <<>> /\ mail' = Append(mail, Idle) /\ health' = "ok"
    /\ agent' = [agent EXCEPT ![a].at = "idle"]
    /\ OnAgent /\ UNCHANGED <<child, ready, frames, mishaps>>

\* A new agent connects and says it is idle.
Connect(a) ==
    /\ agent[a].at = "starting" /\ link = None
    /\ link' = a /\ toAgent' = <<>> /\ mail' = Append(mail, Idle) /\ health' = "ok"
    /\ agent' = [agent EXCEPT ![a].at = "idle"]
    /\ OnAgent /\ UNCHANGED <<child, ready, frames, mishaps>>

\* The agent's process has ended; of an orphaned one the renderer has not.
Dead(a) == agent[a].at \in {"gone", "orphaned"}

\* The end of ipcThreadFunc's loop for one agent.  An agent that is only
\* just dying is not reaped, and nothing tries again.
Disconnect ==
    /\ link # None
    /\ Dead(link) \/ agent[link].at = "lost"
    /\ link' = None /\ toAgent' = <<>> /\ ready' = TRUE
    /\ \/ UNCHANGED child
       \/ child # None /\ Dead(child) /\ child' = None
    /\ OnAgent /\ UNCHANGED <<mail, health, agentVars>>

Reads(a, kind) == link = a /\ toAgent # <<>> /\ Head(toAgent).kind = kind
                  /\ toAgent' = Tail(toAgent)

TakeTask(a) ==
    /\ agent[a].at = "idle" /\ Reads(a, "task")
    /\ agent' = [agent EXCEPT ![a].at = "rendering", ![a].task = Head(toAgent).of]
    /\ OnAgent /\ UNCHANGED <<link, mail, child, ready, health, frames, mishaps>>

StartFails(a) ==
    /\ agent[a].at = "idle" /\ Reads(a, "task") /\ Mishap("startFails")
    /\ mail' = mail \o <<[kind |-> "failed"], Idle>>
    /\ OnAgent /\ UNCHANGED <<link, child, ready, health, agent, frames>>

\* "Received task while already rendering, ignoring"; an idle agent has
\* nothing to abort.
IgnoreOrder(a) ==
    /\ \/ agent[a].at = "rendering" /\ Reads(a, "task")
       \/ agent[a].at = "idle" /\ Reads(a, "abort")
    /\ OnAgent /\ UNCHANGED <<link, mail, child, ready, health, agentVars>>

\* A render that has ended is past being killed.
TakeAbort(a) ==
    /\ agent[a].at = "rendering" /\ Reads(a, "abort")
    /\ agent' = [agent EXCEPT ![a].killed = (agent[a].result = "none")]
    /\ OnAgent /\ UNCHANGED <<link, mail, child, ready, health, frames, mishaps>>

Running(a) == agent[a].at \in {"rendering", "lost", "orphaned"} /\ agent[a].result = "none"

\* The frames of a render whose directory was removed under it may be lost.
RenderSucceeds(a) ==
    /\ Running(a) /\ ~agent[a].killed
    /\ agent' = [agent EXCEPT ![a].result = "completed"]
    /\ \E where \in IF frames[agent[a].task] = "torn" THEN {"torn", "staged"} ELSE {"staged"} :
         frames' = [frames EXCEPT ![agent[a].task] = IF Staging THEN where ELSE "delivered"]
    /\ OnAgent /\ UNCHANGED <<ipcVars, mishaps>>

\* An orphaned renderer may also fail for want of someone to read its output.
RenderFails(a) ==
    /\ Running(a)
    /\ \/ (agent[a].killed \/ agent[a].at = "orphaned") /\ UNCHANGED mishaps
       \/ ~agent[a].killed /\ Mishap("renderFails")
    /\ agent' = [agent EXCEPT ![a].result = "failed"]
    /\ OnAgent /\ UNCHANGED <<ipcVars, frames>>

\* The result and the idle status are sent, and the agent leaves its loop.
SendResult(a) ==
    /\ agent[a].at = "rendering" /\ agent[a].result # "none" /\ link = a
    /\ mail' = mail \o <<[kind |-> agent[a].result], Idle>>
    /\ agent' = [agent EXCEPT ![a].at = "leaving"]
    /\ OnAgent /\ UNCHANGED <<link, toAgent, child, ready, health, frames, mishaps>>

Exit(a) ==
    /\ agent[a].at = "leaving"
    /\ agent' = [agent EXCEPT ![a].at = "gone"]
    /\ OnAgent /\ UNCHANGED <<ipcVars, frames, mishaps>>

\* An agent dies, or never finds the socket.  Its renderer, if it has not
\* ended or been killed, runs on; its frames come without a result.
Crash(a) ==
    /\ agent[a].at \in {"starting", "idle", "rendering", "lost"} /\ Mishap("crash")
    /\ agent' = [agent EXCEPT ![a].at =
                    IF Running(a) /\ ~agent[a].killed THEN "orphaned" ELSE "gone"]
    /\ OnAgent /\ UNCHANGED <<ipcVars, frames>>

\* The connection fails while both processes live: an idle agent exits, one
\* that renders tries six times in 30 s to connect again.
PipeBreaks(a) ==
    /\ link = a /\ agent[a].at \in {"idle", "rendering"} /\ Mishap("pipeBreaks")
    /\ agent' = [agent EXCEPT ![a].at = IF @ = "idle" THEN "gone" ELSE "lost"]
    /\ OnAgent /\ UNCHANGED <<ipcVars, frames>>

Reconnect(a) ==
    /\ agent[a].at = "lost" /\ link = None
    /\ link' = a /\ toAgent' = <<>> /\ health' = "ok"
    /\ agent' = [agent EXCEPT ![a].at = "rendering"]
    /\ OnAgent /\ UNCHANGED <<mail, child, ready, frames, mishaps>>

\* The sixth attempt failed: the render is killed and its result lost.
StopTrying(a) ==
    /\ agent[a].at = "lost"
    /\ agent' = [agent EXCEPT ![a].at = "gone"]
    /\ OnAgent /\ UNCHANGED <<ipcVars, frames, mishaps>>

-----------------------------------------------------------------------------
MainThread ==
    \/ BeginTick \/ HandleMessage \/ EndMessages
    \/ NothingToStart \/ SkipStopped \/ SpawnAgent \/ SpawnFails \/ KeepWaiting
    \/ FailOverdue \/ StartRender
    \/ NothingToCheck \/ Connected \/ StartGrace \/ FailDisconnected

EndDelivery == \E d \in Dispatches : DropDelivery(d) \/ Redeliver(d) \/ GiveUpDelivery(d)

Clock == Overdue \/ GraceExpires

Command == \/ \E j \in JobSet : Cancel(j) \/ Abandon(j) \/ Delete(j)
           \/ StopNode \/ ResumeNode

AgentStep(a) ==
    \/ Connect(a) \/ TakeTask(a) \/ IgnoreOrder(a) \/ TakeAbort(a)
    \/ RenderSucceeds(a) \/ SendResult(a) \/ Exit(a) \/ StopTrying(a)
    \/ (agent[a].killed /\ RenderFails(a))

AgentFault(a) == StartFails(a) \/ RenderFails(a) \/ Crash(a) \/ PipeBreaks(a) \/ Reconnect(a)

Next ==
    \/ \E d \in Dispatches : Enqueue(d)
    \/ MainThread \/ EndDelivery \/ Clock \/ Command \/ Disconnect
    \/ \E a \in Agents : AgentStep(a) \/ AgentFault(a)

Spec == Init /\ [][Next]_vars

\* The main thread and the IPC thread loop for ever, clocks run, held frames
\* are retried for at most 600 s, and an agent that lives goes on.
FairSpec ==
    /\ Spec
    /\ WF_vars(MainThread) /\ WF_vars(Clock) /\ WF_vars(Disconnect)
    /\ SF_vars(EndDelivery)
    /\ \A a \in Agents : WF_vars(AgentStep(a))

-----------------------------------------------------------------------------
(* Properties. *)

\* Every dispatch the node accepted is queued, rendered, held or ended, in
\* exactly one of these places, and ends once: no path through failChunk,
\* the callbacks, the queue's rotation, a purge or a delivery loses it or
\* answers for it twice.
Accounted ==
    \A d \in Dispatches :
        Len(told[d]) + Cardinality({i \in DOMAIN queue : queue[i] = d})
        + Cardinality({x \in {active} : x = d}) + Cardinality(held \cap {d})
        = IF d \in taken THEN 1 ELSE 0

\* onChunkCompleted: a chunk only counts as completed once its frames are
\* actually on the destination.  So a completed verdict is about the
\* dispatch's own render, and comes after its copy.
CompletedMeansDelivered ==
    \A d \in Dispatches : told[d] = <<"completed">> => frames[d] = "delivered"

\* The agent is one-shot, kills its process tree before it exits, and is
\* served alone: a machine renders two chunks at once only while an agent
\* that lost its connection has not given up, or while the renderer of one
\* that died runs on, however slowly agents start.
OneRenderAtATime ==
    \A a, b \in Agents :
        a # b /\ Running(a) /\ Running(b) =>
            agent[a].at # "rendering" \/ agent[b].at # "rendering"

\* Whatever happens to the agents, the leader gets an answer.
EveryDispatchAnswered ==
    \A d \in Dispatches : (d \in taken) ~> (told[d] # <<>>)
=============================================================================
