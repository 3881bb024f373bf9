--------------------------- MODULE DispatchProofs ---------------------------
(***************************************************************************)
(* Proofs about Dispatch for every value of its constants, in three parts. *)
(* Type correctness: one lemma per group of actions, one step per action.  *)
(* The rows of the chunks table: RowSteps says what one step may do to one *)
(* row, and the safety properties follow from the kinds of change it       *)
(* lists.  The contract: under the invariants of the blacklist each kind   *)
(* of change is a step of ChunkContract.                                   *)
(***************************************************************************)
EXTENDS DispatchContract, TLAPS, WellFoundedInduction, FiniteSetTheorems, SequenceTheorems

(* Type correctness.  purgeJob's loop is the only recursion.               *)

\* A non-empty set of numbers has a least element: what takes the place of an
\* induction over data.
LEMMA NatLeast ==
    ASSUME NEW T \in SUBSET Nat, T # {}
    PROVE  \E x \in T : \A y \in T : ~(y < x)
<1>1. \E x \in T : \A y \in T : ~(<<y, x>> \in OpToRel(<, Nat))
  BY NatLessThanWellFounded, WFMin
<1>2. QED  BY <1>1 DEF OpToRel

\* One turn of purgeJob's loop.
KeptStep(s, j, f, i) ==
    IF i = 0 THEN <<>>
    ELSE IF JobOf[s[i].chunk] = j THEN f[i - 1] ELSE Append(f[i - 1], s[i])

\* purgeJob's loop is a recursive function over the queue's prefixes; it is
\* defined on all of them, by the least prefix on which it would not be.
LEMMA KeepDefined ==
    ASSUME NEW S, NEW s \in Seq(S), NEW j
    PROVE  \E f : /\ f = [i \in 0 .. Len(s) |-> KeptStep(s, j, f, i)]
                  /\ Keep(s, j) = f[Len(s)]
<1> DEFINE Is(f, n) == f = [i \in 0 .. n |-> KeptStep(s, j, f, i)]
           T == {n \in Nat : ~ \E f : Is(f, n)}
<1>1. T = {}
  <2> SUFFICES ASSUME T # {} PROVE FALSE
    OBVIOUS
  <2>1. PICK n \in T : \A m \in T : ~(m < n)
    BY NatLeast
  <2>2. n # 0
    <3>1. Is([i \in 0 .. 0 |-> <<>>], 0)
      BY DEF KeptStep
    <3>2. QED  BY <3>1
  <2>3. n - 1 \in Nat /\ n - 1 < n
    BY <2>2
  <2>4. PICK f : Is(f, n - 1)
    BY <2>1, <2>3
  <2> DEFINE g == [i \in 0 .. n |-> KeptStep(s, j, f, i)]
  <2>5. \A i \in 0 .. n - 1 : g[i] = f[i]
    BY <2>4, <2>3
  <2>6. \A i \in 0 .. n : KeptStep(s, j, f, i) = KeptStep(s, j, g, i)
    <3> TAKE i \in 0 .. n
    <3>1. CASE i = 0
      BY <3>1 DEF KeptStep
    <3>2. CASE i # 0
      <4>1. i - 1 \in 0 .. n - 1
        BY <3>2
      <4>2. g[i - 1] = f[i - 1]
        BY <4>1, <2>5
      <4> HIDE DEF g
      <4>3. QED  BY <4>2, <3>2 DEF KeptStep
    <3>3. QED  BY <3>1, <3>2
  <2>7. Is(g, n)
    <3> DEFINE h == [i \in 0 .. n |-> KeptStep(s, j, g, i)]
    <3>1. g = h
      BY <2>6
    <3>2. QED  BY <3>1
  <2>8. QED  BY <2>7, <2>1
<1>2. Len(s) \in Nat
  OBVIOUS
<1>3. \E f : Is(f, Len(s))
  BY <1>1, <1>2
<1> DEFINE kept == CHOOSE f : Is(f, Len(s))
<1>4. Is(kept, Len(s))
  BY <1>3
<1>5. Keep(s, j) = kept[Len(s)]
  BY DEF Keep, KeptStep
<1>6. QED  BY <1>4, <1>5

\* Purging a job from a queue leaves a queue of entries that were in it.
LEMMA KeepType ==
    ASSUME NEW S, NEW s \in Seq(S), NEW j
    PROVE  Keep(s, j) \in Seq(S)
<1>1. PICK f : /\ f = [i \in 0 .. Len(s) |-> KeptStep(s, j, f, i)]
               /\ Keep(s, j) = f[Len(s)]
  BY KeepDefined
<1> DEFINE T == {i \in 0 .. Len(s) : f[i] \notin Seq(S)}
<1>2. T = {}
  <2> SUFFICES ASSUME T # {} PROVE FALSE
    OBVIOUS
  <2>1. T \in SUBSET Nat
    OBVIOUS
  <2>2. PICK i \in T : \A m \in T : ~(m < i)
    BY <2>1, NatLeast
  <2>3. f[i] = KeptStep(s, j, f, i)
    BY <1>1
  <2>4. i # 0
    <3>1. <<>> \in Seq(S)
      OBVIOUS
    <3>2. QED  BY <2>2, <2>3, <3>1 DEF KeptStep
  <2>5. f[i - 1] \in Seq(S)
    BY <2>2, <2>4
  <2>6. s[i] \in S
    BY <2>4
  <2>7. f[i] \in Seq(S)
    BY <2>3, <2>4, <2>5, <2>6 DEF KeptStep
  <2>8. QED  BY <2>7
<1>3. QED  BY <1>1, <1>2

-----------------------------------------------------------------------------
(* The statements of ChunkTable map rows to rows. *)

\* Every statement but failChunk turns a row into a row.
LEMMA RowTypes ==
    ASSUME NEW row \in Row, NEW n \in Nodes, NEW e \in Nat, NEW d, NEW id \in Nat
    PROVE  /\ FreshRow(id) \in Row /\ RebuildChunk(row) \in Row
           /\ AssignChunk(row, n, e) \in Row /\ AssignDirectly(row, n) \in Row
           /\ CompleteChunk(row, n, e) \in Row
           /\ Unassigned(row) \in Row /\ RevertChunkToPending(row) \in Row
           /\ Undispatched(row, n, e) \in Row
           /\ ReassignDeadWorkerChunk(row, d) \in Row
           /\ StopChunk(row) \in Row /\ ResetChunk(row) \in Row
           /\ ResetAssignedChunk(row) \in Row /\ RetryFailedChunk(row) \in Row
<1>1. /\ CompleteChunk(row, n, e) \in Row /\ AssignChunk(row, n, e) \in Row
      /\ AssignDirectly(row, n) \in Row /\ Unassigned(row) \in Row
      /\ StopChunk(row) \in Row
  BY DEF Row, ChunkStates, CompleteChunk, AssignChunk, AssignDirectly, Unassigned, StopChunk
<1>2. \A i \in Nat : FreshRow(i) \in Row
  BY DEF Row, ChunkStates, FreshRow
<1>3. RebuildChunk(row) \in Row
  <2>1. row.id + 1 \in Nat
    BY DEF Row
  <2>2. QED  BY <1>2, <2>1 DEF RebuildChunk
<1>4. Undispatched(row, n, e) \in Row
  BY <1>1 DEF Undispatched, RevertChunkToPending, Unassigned, Row, ChunkStates
<1>5. ResetChunk(row) \in Row /\ RetryFailedChunk(row) \in Row
  BY <1>1 DEF ResetChunk, RetryFailedChunk, Row
<1>6. QED
  BY <1>1, <1>2, <1>3, <1>4, <1>5
  DEF RevertChunkToPending, ReassignDeadWorkerChunk, ResetAssignedChunk

\* failChunk turns a row into a row: it blacklists the node of the report.
LEMMA FailChunkType ==
    ASSUME NEW row \in Row, NEW n \in Nodes, NEW e, NEW m \in Nat
    PROVE  FailChunk(row, n, e, m) \in Row
<1> DEFINE counted == [row EXCEPT !.failedOn = @ \cup {n}, !.retries = @ + 1]
<1>1. counted \in Row
  <2>1. row.failedOn \cup {n} \in SUBSET Nodes /\ row.retries + 1 \in Nat
    BY DEF Row
  <2>2. QED  BY <2>1 DEF Row
<1>2. Unassigned(counted) \in Row
  BY <1>1 DEF Unassigned, Row, ChunkStates
<1>3. [counted EXCEPT !.state = "failed"] \in Row
  BY <1>1 DEF Row, ChunkStates
<1> HIDE DEF counted
<1>4. Failed(row, n, m) \in {Unassigned(counted), [counted EXCEPT !.state = "failed"]}
  BY DEF Failed, counted
<1>5. QED  BY <1>2, <1>3, <1>4 DEF FailChunk

-----------------------------------------------------------------------------
(* Type correctness.  First what several actions share. *)

\* Handing a report to the leader or to the node's outbox.
LEMMA DeliverType ==
    ASSUME TypeOK, NEW n \in Nodes, NEW r \in Report, Deliver(n, r)
    PROVE  chunk' \in [Chunks -> Row] /\ outbox' \in [Nodes -> Seq(Report)]
<1>1. CASE n = Local
  <2>1. r.work.chunk \in Chunks /\ r.work.epoch \in Nat
    BY DEF Report, Work
  <2>2. chunk[r.work.chunk] \in Row
    BY <2>1 DEF TypeOK
  <2>3. CompleteChunk(chunk[r.work.chunk], n, r.work.epoch) \in Row
    BY <2>1, <2>2 DEF CompleteChunk, Row, ChunkStates
  <2>4. FailChunk(chunk[r.work.chunk], n, r.work.epoch, MaxRetries) \in Row
    BY <2>2, FailChunkType, DispatchAssumption
  <2>5. QED  BY <1>1, <2>3, <2>4 DEF Deliver, TypeOK
<1>2. CASE n # Local
  <2>1. /\ chunk' = chunk
        /\ outbox' = [outbox EXCEPT ![n] = Append(@, r)]
    BY <1>2 DEF Deliver
  <2>2. Append(outbox[n], r) \in Seq(Report)
    BY DEF TypeOK
  <2>3. QED  BY <2>1, <2>2 DEF TypeOK
<1>3. QED  BY <1>1, <1>2

\* Abandoning a job's render and purging its dispatches, here for any node.
LEMMA AbandonType ==
    ASSUME TypeOK, NEW n \in Nodes, NEW j, Abandon(n, j)
    PROVE  active' \in [Nodes -> Work \cup {None}] /\ queue' \in [Nodes -> Seq(Work)]
<1>1. Keep(queue[n], j) \in Seq(Work)
  BY KeepType DEF TypeOK
<1>2. QED  BY <1>1 DEF Abandon, TypeOK

\* The same for the leader's own node.
LEMMA AbandonLocalType ==
    ASSUME TypeOK, NEW j, AbandonLocal(j)
    PROVE  active' \in [Nodes -> Work \cup {None}] /\ queue' \in [Nodes -> Seq(Work)]
BY AbandonType DEF AbandonLocal, TypeOK

\* A fault is counted.
LEMMA MishapType ==
    ASSUME TypeOK, NEW f, Mishap(f)
    PROVE  mishaps' \in Nat
BY DEF Mishap, TypeOK

\* A statement that keeps rows keeps the table.
LEMMA OnJobType ==
    ASSUME NEW Op(_), NEW j, \A c \in Chunks : Op(chunk[c]) \in Row, TypeOK
    PROVE  OnJob(j, Op) \in [Chunks -> Row]
BY DEF OnJob, TypeOK

\* updateJobState keeps the jobs table.
LEMMA SetJobStateType ==
    ASSUME TypeOK, NEW j, NEW s \in JobStates, SetJobState(j, s)
    PROVE  job' \in [Jobs -> [state : JobStates, epoch : Nat, manifest : Nat]]
<1>1. job \in [Jobs -> [state : JobStates, epoch : Nat, manifest : Nat]]
  BY Zenon DEF TypeOK
<1>2. job' = [job EXCEPT ![j].state = s]
  BY DEF SetJobState
<1>3. QED  BY <1>1, <1>2

\* The first state is well typed.
LEMMA TypeInit == Init => TypeOK
<1> SUFFICES ASSUME Init PROVE TypeOK
  OBVIOUS
<1>1. FreshRow(0) \in Row
  BY DEF FreshRow, Row, ChunkStates
<1>2. chunk \in [Chunks -> Row]
  BY <1>1 DEF Init
<1>3. job \in [Jobs -> [state : JobStates, epoch : Nat, manifest : Nat]]
  BY DEF Init, JobStates
<1>4. QED  BY <1>2, <1>3 DEF Init, TypeOK

\* The leader's main thread, one case for each step of a pass.
LEMMA TypeTick == TypeOK /\ Tick => TypeOK'
<1> SUFFICES ASSUME TypeOK, Tick PROVE TypeOK'
  OBVIOUS
<1> USE DEF dbVars, tickVars, leaderVars, nodeVars
<1>1. CASE TickStart
  BY <1>1 DEF TickStart, TypeOK
<1>2. CASE ReclaimDead
  <2> DEFINE dead == {n \in Remote : view[n] \in {"gone", "sick"}}
  <2>1. \A c \in Chunks : ReassignDeadWorkerChunk(chunk[c], dead) \in Row
    <3> TAKE c \in Chunks
    <3>1. chunk[c] \in Row
      BY DEF TypeOK
    <3>2. Unassigned(chunk[c]) \in Row
      BY <3>1 DEF Unassigned, Row, ChunkStates
    <3> HIDE DEF dead
    <3>3. QED  BY <3>1, <3>2 DEF ReassignDeadWorkerChunk
  <2> HIDE DEF dead
  <2>2. chunk' = [c \in Chunks |-> ReassignDeadWorkerChunk(chunk[c], dead)]
    BY <1>2 DEF ReclaimDead, dead
  <2>3. chunk' \in [Chunks -> Row]
    BY <2>1, <2>2
  <2>4. QED  BY <1>2, <2>3 DEF ReclaimDead, TypeOK
<1>3. CASE CloseJob
  <2>1. verdict.state \in JobStates
    BY <1>3 DEF CloseJob, TypeOK, JobStates
  <2>2. job' \in [Jobs -> [state : JobStates, epoch : Nat, manifest : Nat]]
    BY <1>3, <2>1, SetJobStateType DEF CloseJob
  <2>3. QED  BY <1>3, <2>2 DEF CloseJob, TypeOK
<1>4. CASE ServePeers
  BY <1>4 DEF ServePeers, Servable, TypeOK
<1>5. CASE ReadEpoch
  <2>1. pick \in Pick /\ job[JobOf[pick.chunk]].epoch \in Nat
    BY <1>5, DispatchAssumption DEF ReadEpoch, TypeOK, Pick
  <2>2. pick' \in Pick
    BY <1>5, <2>1 DEF ReadEpoch, Pick
  <2>3. QED  BY <1>5, <2>2 DEF ReadEpoch, TypeOK
<1>6. CASE AssignPicked
  <2>1. Picked \in Work /\ pick.node \in Nodes /\ pick.chunk \in Chunks /\ pick.epoch \in Nat
    BY <1>6 DEF AssignPicked, Picked, TypeOK, Pick, Work
  <2>2. chunk' \in [Chunks -> Row]
    <3>1. chunk[pick.chunk] \in Row
      BY <2>1 DEF TypeOK
    <3>2. AssignChunk(chunk[pick.chunk], pick.node, pick.epoch) \in Row
      BY <2>1, <3>1 DEF AssignChunk, Row, ChunkStates
    <3>3. QED  BY <1>6, <3>2 DEF AssignPicked, TypeOK
  <2>3. posts' \subseteq Post
    BY <1>6, <2>1 DEF AssignPicked, TypeOK, Post
  <2>4. queue' \in [Nodes -> Seq(Work)]
    <3>1. CASE pick.node = Local
      <4>1. Append(queue[Local], Picked) \in Seq(Work)
        BY <2>1, <3>1 DEF TypeOK
      <4>2. QED  BY <1>6, <3>1, <4>1 DEF AssignPicked, TypeOK
    <3>2. CASE pick.node # Local
      BY <1>6, <3>2 DEF AssignPicked, TypeOK
    <3>3. QED  BY <3>1, <3>2
  <2>5. QED  BY <1>6, <2>1, <2>2, <2>3, <2>4 DEF AssignPicked, TypeOK
<1>7. CASE DropPicked
  <2>1. pick.node \in Nodes /\ pick.chunk \in Chunks /\ pick.epoch \in Nat
    BY <1>7 DEF DropPicked, TypeOK, Pick
  <2>2. Undispatched(chunk[pick.chunk], pick.node, pick.epoch) \in Row
    BY <2>1, RowTypes DEF TypeOK, Row
  <2>3. chunk' \in [Chunks -> Row] /\ mishaps' \in Nat
    BY <1>7, <2>2, MishapType DEF DropPicked, TypeOK
  <2>4. QED  BY <1>7, <2>3 DEF DropPicked, TypeOK
<1>8. CASE TickEnd
  BY <1>8 DEF TickEnd, TypeOK
<1>9. ASSUME NEW r \in batch, ApplyReport(r) PROVE TypeOK'
  <2>1. r \in Report /\ r.work.chunk \in Chunks /\ r.work.node \in Nodes
    BY DEF TypeOK, Report, Work
  <2>2. chunk[r.work.chunk] \in Row
    BY <2>1 DEF TypeOK
  <2>3. CompleteChunk(chunk[r.work.chunk], r.work.node, r.work.epoch) \in Row
    BY <2>2 DEF CompleteChunk, Row, ChunkStates
  <2>4. FailChunk(chunk[r.work.chunk], r.work.node, r.work.epoch, MaxRetries) \in Row
    BY <2>1, <2>2, FailChunkType, DispatchAssumption
  <2>5. chunk' \in [Chunks -> Row]
    BY <1>9, <2>3, <2>4 DEF ApplyReport, TypeOK
  <2>6. QED  BY <1>9, <2>5 DEF ApplyReport, TypeOK
<1>10. ASSUME NEW c \in reverting, ApplyRevert(c) PROVE TypeOK'
  <2>1. chunk' \in [Chunks -> Row]
    <3>1. c \in Chunks /\ chunk[c] \in Row
      BY DEF TypeOK
    <3>2. RevertChunkToPending(chunk[c]) \in Row
      BY <3>1 DEF RevertChunkToPending, Unassigned, Row, ChunkStates
    <3>3. QED  BY <1>10, <3>2 DEF ApplyRevert, TypeOK
  <2>2. QED  BY <1>10, <2>1 DEF ApplyRevert, TypeOK
<1>11. ASSUME NEW j \in Jobs, JudgeJob(j) PROVE TypeOK'
  BY <1>11 DEF JudgeJob, CompletionState, TypeOK
<1>12. ASSUME NEW n \in Nodes, FindChunk(n) PROVE TypeOK'
  <2>1. \A c \in Offered(n) : c \in Chunks /\ chunk[c].id \in Nat /\ job[JobOf[c]].manifest \in Nat
    BY DispatchAssumption DEF Offered, TypeOK, Row
  <2>2. pick' \in Pick \cup {None}
    BY <1>12, <2>1 DEF FindChunk, Pick, TypeOK
  <2>3. QED  BY <1>12, <2>2 DEF FindChunk, TypeOK
<1>13. QED
  BY <1>1, <1>2, <1>3, <1>4, <1>5, <1>6, <1>7, <1>8, <1>9, <1>10, <1>11, <1>12 DEF Tick

\* POSTs, aborts, reports and heartbeats.
LEMMA TypeNetwork == TypeOK /\ Network => TypeOK'
<1> SUFFICES ASSUME TypeOK, Network PROVE TypeOK'
  OBVIOUS
<1> USE DEF dbVars, tickVars, leaderVars, nodeVars
<1>1. ASSUME NEW p \in posts, PostArrives(p) PROVE TypeOK'
  <2>1. p \in Post /\ p.work \in Work /\ p.work.node \in Nodes
    BY DEF TypeOK, Post, Work
  <2>2. Append(queue[p.work.node], p.work) \in Seq(Work)
    BY <2>1 DEF TypeOK
  <2>3. queue' \in [Nodes -> Seq(Work)]
    BY <1>1, <2>1, <2>2 DEF PostArrives, TypeOK
  <2>4. \A s \in {"refused", "taken"} : [p EXCEPT !.stage = s] \in Post
    BY <2>1 DEF Post
  <2>5. posts' \subseteq Post
    BY <1>1, <2>4 DEF PostArrives, TypeOK
  <2>6. QED  BY <1>1, <2>3, <2>5 DEF PostArrives, TypeOK
<1>2. ASSUME NEW p \in posts, PostAnswered(p) PROVE TypeOK'
  <2>1. p.work.chunk \in Chunks
    BY DEF TypeOK, Post, Work
  <2>2. QED  BY <1>2, <2>1 DEF PostAnswered, TypeOK
<1>3. ASSUME NEW p \in posts, PostUnanswered(p) PROVE TypeOK'
  <2>1. p \in Post /\ p.work.chunk \in Chunks
    BY DEF TypeOK, Post, Work
  <2>2. [p EXCEPT !.stage = "givenUp"] \in Post
    BY <2>1 DEF Post
  <2>3. posts' \subseteq Post /\ reverts' \subseteq Chunks
    BY <1>3, <2>1, <2>2 DEF PostUnanswered, TypeOK
  <2>4. mishaps' \in Nat
    BY <1>3, MishapType DEF PostUnanswered, TypeOK
  <2>5. QED  BY <1>3, <2>3, <2>4 DEF PostUnanswered, TypeOK
<1>4. ASSUME NEW p \in posts, PostDropped(p) PROVE TypeOK'
  BY <1>4 DEF PostDropped, TypeOK
<1>5. ASSUME NEW n \in Nodes, NEW j \in Jobs, AbortArrives(n, j) PROVE TypeOK'
  <2>1. active' \in [Nodes -> Work \cup {None}] /\ queue' \in [Nodes -> Seq(Work)]
    BY <1>5, AbandonType DEF AbortArrives, TypeOK
  <2>2. QED  BY <1>5, <2>1 DEF AbortArrives, TypeOK
<1>6. ASSUME NEW n \in Nodes, NEW j \in Jobs, AbortLost(n, j) PROVE TypeOK'
  <2>1. mishaps' \in Nat
    BY <1>6, MishapType DEF AbortLost
  <2>2. QED  BY <1>6, <2>1 DEF AbortLost, TypeOK
<1>7. ASSUME NEW n \in Nodes, FlushReport(n) PROVE TypeOK'
  <2>1. Head(outbox[n]) \in Report /\ Tail(outbox[n]) \in Seq(Report)
    BY <1>7 DEF FlushReport, TypeOK
  <2>2. outbox' \in [Nodes -> Seq(Report)]
    BY <1>7, <2>1 DEF FlushReport, TypeOK
  <2>3. inbox' \subseteq Report
    BY <1>7, <2>1 DEF FlushReport, TypeOK
  <2>4. mishaps' \in Nat
    BY <1>7, MishapType DEF FlushReport, TypeOK
  <2>5. QED  BY <1>7, <2>2, <2>3, <2>4 DEF FlushReport, TypeOK
<1>8. ASSUME NEW n \in Nodes, Heartbeat(n) PROVE TypeOK'
  <2>1. Status(n) \in {"idle", "rendering", "stopped", "sick", "gone"}
    BY <1>8 DEF Heartbeat, Status, TypeOK
  <2>2. QED  BY <1>8, <2>1 DEF Heartbeat, TypeOK
<1>9. ASSUME NEW n \in Nodes, DeclareDead(n) PROVE TypeOK'
  <2>1. mishaps' \in Nat
    BY <1>9, MishapType DEF DeclareDead, TypeOK
  <2>2. QED  BY <1>9, <2>1 DEF DeclareDead, TypeOK
<1>10. QED
  BY <1>1, <1>2, <1>3, <1>4, <1>5, <1>6, <1>7, <1>8, <1>9 DEF Network

\* The nodes.
LEMMA TypeNode == TypeOK /\ Node => TypeOK'
<1> SUFFICES ASSUME TypeOK, NEW n \in Nodes,
                    \/ StartRender(n) \/ SkipDispatch(n) \/ AgentUnavailable(n)
                    \/ RecoverAgent(n) \/ FinishRender(n) \/ AbortGone(n) \/ SelfFence(n)
                    \/ StopNode(n) \/ ResumeNode(n) \/ Crash(n) \/ Restart(n) \/ EntryExpires(n)
             PROVE  TypeOK'
  BY DEF Node
<1> USE DEF dbVars, tickVars, leaderVars, nodeVars
<1>0. queue[n] # <<>> => Head(queue[n]) \in Work /\ Tail(queue[n]) \in Seq(Work)
  BY DEF TypeOK
<1>a. active[n] # None => active[n] \in Work
  BY DEF TypeOK
<1>b. \A w \in Work, kind \in {"completed", "failed"} : [kind |-> kind, work |-> w] \in Report
  BY DEF Report
<1>1. CASE StartRender(n)
  BY <1>1, <1>0 DEF StartRender, TypeOK
<1>2. CASE SkipDispatch(n)
  BY <1>2, <1>0 DEF SkipDispatch, TypeOK
<1>3. CASE AgentUnavailable(n)
  <2>1. chunk' \in [Chunks -> Row] /\ outbox' \in [Nodes -> Seq(Report)]
    BY <1>3, <1>0, <1>b, DeliverType DEF AgentUnavailable
  <2>2. mishaps' \in Nat
    BY <1>3, MishapType DEF AgentUnavailable
  <2>3. QED  BY <1>3, <1>0, <2>1, <2>2 DEF AgentUnavailable, TypeOK
<1>4. CASE RecoverAgent(n)
  BY <1>4 DEF RecoverAgent, TypeOK
<1>5. CASE FinishRender(n)
  <2>1. chunk' \in [Chunks -> Row] /\ outbox' \in [Nodes -> Seq(Report)]
    BY <1>5, <1>a, <1>b, DeliverType DEF FinishRender
  <2>2. finished' \subseteq Work
    BY <1>5, <1>a DEF FinishRender, TypeOK
  <2>3. QED  BY <1>5, <2>1, <2>2 DEF FinishRender, TypeOK
<1>6. CASE AbortGone(n)
  <2>1. chunk' \in [Chunks -> Row] /\ outbox' \in [Nodes -> Seq(Report)]
    BY <1>6, <1>a, <1>b, DeliverType DEF AbortGone
  <2>2. active' \in [Nodes -> Work \cup {None}] /\ queue' \in [Nodes -> Seq(Work)]
    BY <1>6, AbandonType DEF AbortGone
  <2>3. QED  BY <1>6, <2>1, <2>2 DEF AbortGone, TypeOK
<1>7. CASE SelfFence(n)
  <2>1. active' \in [Nodes -> Work \cup {None}] /\ queue' \in [Nodes -> Seq(Work)]
    BY <1>7, AbandonType DEF SelfFence
  <2>2. QED  BY <1>7, <2>1 DEF SelfFence, TypeOK
<1>8. CASE StopNode(n)
  <2>1. chunk' \in [Chunks -> Row] /\ outbox' \in [Nodes -> Seq(Report)]
    <3>1. CASE active[n] = None
      BY <1>8, <3>1 DEF StopNode, TypeOK
    <3>2. CASE active[n] # None
      BY <1>8, <1>a, <1>b, <3>2, DeliverType DEF StopNode
    <3>3. QED  BY <3>1, <3>2
  <2>2. mishaps' \in Nat
    BY <1>8, MishapType DEF StopNode
  <2>3. QED  BY <1>8, <2>1, <2>2 DEF StopNode, TypeOK
<1>9. CASE ResumeNode(n)
  BY <1>9 DEF ResumeNode, TypeOK
<1>10. CASE Crash(n)
  <2>1. mishaps' \in Nat
    BY <1>10, MishapType DEF Crash
  <2>2. /\ mode' = [mode EXCEPT ![n] = "down"] /\ queue' = [queue EXCEPT ![n] = <<>>]
        /\ active' = [active EXCEPT ![n] = None] /\ outbox' = [outbox EXCEPT ![n] = <<>>]
        /\ UNCHANGED <<dbVars, tickVars, leaderVars, finished>>
    BY <1>10 DEF Crash
  <2>3. /\ queue' \in [Nodes -> Seq(Work)] /\ outbox' \in [Nodes -> Seq(Report)]
        /\ active' \in [Nodes -> Work \cup {None}]
    BY <2>2 DEF TypeOK
  <2>4. QED  BY <2>1, <2>2, <2>3 DEF TypeOK
<1>11. CASE Restart(n)
  BY <1>11 DEF Restart, TypeOK
<1>12. CASE EntryExpires(n)
  <2>1. mishaps' \in Nat
    BY <1>12, MishapType DEF EntryExpires, TypeOK
  <2>2. QED  BY <1>12, <2>1 DEF EntryExpires, TypeOK
<1>13. QED
  BY <1>1, <1>2, <1>3, <1>4, <1>5, <1>6, <1>7, <1>8, <1>9, <1>10, <1>11, <1>12

\* The statements that commands run on all rows of a job.
LEMMA OnJobTypes ==
    ASSUME TypeOK, NEW j
    PROVE  /\ OnJob(j, ResetChunk) \in [Chunks -> Row]
           /\ OnJob(j, RetryFailedChunk) \in [Chunks -> Row]
           /\ OnJob(j, ResetAssignedChunk) \in [Chunks -> Row]
           /\ OnJob(j, RebuildChunk) \in [Chunks -> Row]
<1>1. ASSUME NEW row \in Row
      PROVE  /\ Unassigned(row) \in Row /\ ResetChunk(row) \in Row
             /\ RetryFailedChunk(row) \in Row /\ ResetAssignedChunk(row) \in Row
             /\ RebuildChunk(row) \in Row
  <2>1. Unassigned(row) \in Row
    BY DEF Unassigned, Row, ChunkStates
  <2>2. ResetChunk(row) \in Row /\ RetryFailedChunk(row) \in Row
    BY <2>1 DEF ResetChunk, RetryFailedChunk, Row
  <2>3. ResetAssignedChunk(row) \in Row
    BY <2>1 DEF ResetAssignedChunk
  <2>4. row.id + 1 \in Nat
    BY DEF Row
  <2>5. RebuildChunk(row) \in Row
    BY <2>4 DEF RebuildChunk, FreshRow, Row, ChunkStates
  <2>6. QED  BY <2>1, <2>2, <2>3, <2>5
<1>2. \A c \in Chunks : chunk[c] \in Row
  BY DEF TypeOK
<1>3. QED  BY <1>1, <1>2 DEF OnJob

\* The operators' commands, one case each.
LEMMA TypeCommand == TypeOK /\ Command => TypeOK'
<1> SUFFICES ASSUME TypeOK, Command PROVE TypeOK'
  OBVIOUS
<1> USE DEF dbVars, tickVars, leaderVars, nodeVars
<1> DEFINE JobType == [Jobs -> [state : JobStates, epoch : Nat, manifest : Nat]]
<1>0. \A j \in Jobs, s \in JobStates : SetJobState(j, s) => job' \in JobType
  BY SetJobStateType
<1>a. \A c \in Chunks : JobOf[c] \in Jobs /\ chunk[c] \in Row
  BY DispatchAssumption DEF TypeOK
<1>1. ASSUME NEW j \in Jobs, Pause(j) \/ Resume(j) \/ Archive(j) PROVE TypeOK'
  <2>1. job' \in JobType
    BY <1>0, <1>1 DEF Pause, Resume, Archive, JobStates
  <2>2. QED  BY <1>1, <2>1 DEF Pause, Resume, Archive, TypeOK
<1>2. ASSUME NEW j \in Jobs, Cancel(j) PROVE TypeOK'
  <2>1. job' \in JobType
    BY <1>0, <1>2 DEF Cancel, JobStates
  <2>2. active' \in [Nodes -> Work \cup {None}] /\ queue' \in [Nodes -> Seq(Work)]
    BY <1>2, AbandonLocalType DEF Cancel
  <2>3. chunk' \in [Chunks -> Row] /\ outbox' \in [Nodes -> Seq(Report)]
    <3>1. CASE Local \in Nodes /\ active[Local] # None /\ JobOf[active[Local].chunk] = j
      <4>1. [kind |-> "failed", work |-> active[Local]] \in Report
        BY <3>1 DEF TypeOK, Report
      <4>2. QED  BY <1>2, <3>1, <4>1, DeliverType DEF Cancel
    <3>2. CASE ~(Local \in Nodes /\ active[Local] # None /\ JobOf[active[Local].chunk] = j)
      BY <1>2, <3>2 DEF Cancel, TypeOK
    <3>3. QED  BY <3>1, <3>2
  <2>4. QED  BY <1>2, <2>1, <2>2, <2>3 DEF Cancel, TypeOK
<1>3. ASSUME NEW j \in Jobs, Requeue(j) \/ RetryFailed(j) PROVE TypeOK'
  <2>1. job' \in JobType
    BY <1>0, <1>3 DEF Requeue, RetryFailed, JobStates
  <2>2. chunk' \in [Chunks -> Row]
    BY <1>3, OnJobTypes DEF Requeue, RetryFailed
  <2>3. QED  BY <1>3, <2>1, <2>2 DEF Requeue, RetryFailed, TypeOK
<1>4. ASSUME NEW j \in Jobs, NEW how \in {"continue", "restart", "startover"}, BeginEdit(j, how)
      PROVE  TypeOK'
  <2>1. job' \in JobType
    <3>1. [job[j] EXCEPT !.manifest = @ + 1] \in
            [state : JobStates, epoch : Nat, manifest : Nat]
      <4>1. job[j] \in [state : JobStates, epoch : Nat, manifest : Nat]
        BY DEF TypeOK
      <4>2. job[j].manifest + 1 \in Nat
        BY <4>1
      <4>3. QED  BY <4>1, <4>2
    <3>2. job' = [job EXCEPT ![j] = [job[j] EXCEPT !.manifest = @ + 1]]
      BY <1>4 DEF BeginEdit
    <3>3. QED  BY <3>1, <3>2 DEF TypeOK
  <2>2. edit' \in Edit \cup {None}
    BY <1>4 DEF BeginEdit, Edit
  <2>3. QED  BY <1>4, <2>1, <2>2 DEF BeginEdit, TypeOK
<1>5. ASSUME NEW c \in Chunks, StopOneChunk(c) PROVE TypeOK'
  <2>1. StopChunk(chunk[c]) \in Row
    BY <1>a DEF StopChunk, Row, ChunkStates
  <2>2. chunk' \in [Chunks -> Row]
    BY <1>5, <2>1 DEF StopOneChunk, TypeOK
  <2>3. active' \in [Nodes -> Work \cup {None}] /\ queue' \in [Nodes -> Seq(Work)]
    <3>1. AbandonLocal(JobOf[c]) \/ UNCHANGED <<active, queue>>
      BY <1>5 DEF StopOneChunk
    <3>2. CASE AbandonLocal(JobOf[c])
      BY <3>2, AbandonLocalType
    <3>3. CASE UNCHANGED <<active, queue>>
      BY <3>3 DEF TypeOK
    <3>4. QED  BY <3>1, <3>2, <3>3
  <2>4. aborts' \subseteq Nodes \X Jobs
    BY <1>5, <1>a DEF StopOneChunk, Remote, TypeOK
  <2>5. QED  BY <1>5, <2>2, <2>3, <2>4 DEF StopOneChunk, TypeOK
<1>6. ASSUME NEW c \in Chunks, RequeueChunk(c) PROVE TypeOK'
  <2>1. Unassigned(chunk[c]) \in Row
    BY <1>a DEF Unassigned, Row, ChunkStates
  <2>2. chunk' \in [Chunks -> Row]
    BY <1>6, <2>1 DEF RequeueChunk, TypeOK
  <2>3. job' \in JobType
    BY <1>0, <1>6, <1>a DEF RequeueChunk, Reopen, JobStates, TypeOK
  <2>4. QED  BY <1>6, <2>2, <2>3 DEF RequeueChunk, TypeOK
<1>7. ASSUME NEW c \in Chunks, NEW n \in Nodes, AssignChunkTo(c, n) PROVE TypeOK'
  <2>1. AssignDirectly(chunk[c], n) \in Row
    BY <1>a DEF AssignDirectly, Row, ChunkStates
  <2>2. chunk' \in [Chunks -> Row]
    BY <1>7, <2>1 DEF AssignChunkTo, TypeOK
  <2>3. QED  BY <1>7, <2>2 DEF AssignChunkTo, TypeOK
<1>8. CASE BumpEpoch
  <2>1. edit \in Edit /\ edit.job \in Jobs
    BY <1>8 DEF BumpEpoch, TypeOK, Edit
  <2>2. edit' \in Edit
    BY <1>8, <2>1 DEF BumpEpoch, Edit
  <2>3. job' \in JobType
    <3>1. [job[edit.job] EXCEPT !.epoch = @ + 1] \in
            [state : JobStates, epoch : Nat, manifest : Nat]
      <4>1. job[edit.job] \in [state : JobStates, epoch : Nat, manifest : Nat]
        BY <2>1 DEF TypeOK
      <4>2. job[edit.job].epoch + 1 \in Nat
        BY <4>1
      <4>3. QED  BY <4>1, <4>2
    <3>2. job' = [job EXCEPT ![edit.job] = [job[edit.job] EXCEPT !.epoch = @ + 1]]
      BY <1>8 DEF BumpEpoch
    <3>3. QED  BY <3>1, <3>2 DEF TypeOK
  <2>4. job[edit.job].manifest \in Nat
    BY <2>1 DEF TypeOK
  <2>5. fence' \in [Jobs -> Nat]
    BY <1>8, <2>4 DEF BumpEpoch, TypeOK
  <2>6. QED  BY <1>8, <2>2, <2>3, <2>5 DEF BumpEpoch, TypeOK
<1>9. CASE ResetRows
  <2>1. edit \in Edit
    BY <1>9 DEF ResetRows, TypeOK
  <2>2. edit' \in Edit
    BY <1>9, <2>1 DEF ResetRows, Edit
  <2>3. chunk' \in [Chunks -> Row]
    BY <1>9, OnJobTypes DEF ResetRows
  <2>4. QED  BY <1>9, <2>2, <2>3 DEF ResetRows, TypeOK
<1>10. CASE FinishEdit
  <2>1. edit.job \in Jobs /\ edit.nodes \subseteq Nodes
    BY <1>10 DEF FinishEdit, TypeOK, Edit
  <2>2. job' \in JobType
    BY <1>0, <1>10, <2>1 DEF FinishEdit, JobStates
  <2>3. active' \in [Nodes -> Work \cup {None}] /\ queue' \in [Nodes -> Seq(Work)]
    BY <1>10, AbandonLocalType DEF FinishEdit
  <2>4. aborts' \subseteq Nodes \X Jobs
    BY <1>10, <2>1 DEF FinishEdit, TypeOK
  <2>5. QED  BY <1>10, <2>2, <2>3, <2>4 DEF FinishEdit, TypeOK
<1>11. QED
  BY <1>1, <1>2, <1>3, <1>4, <1>5, <1>6, <1>7, <1>8, <1>9, <1>10 DEF Command

\* Every step keeps the types.
LEMMA TypeStep == TypeOK /\ [Next]_vars => TypeOK'
<1>1. TypeOK /\ UNCHANGED vars => TypeOK'
  BY DEF vars, dbVars, tickVars, leaderVars, nodeVars, TypeOK
<1>2. QED
  BY <1>1, TypeTick, TypeNetwork, TypeNode, TypeCommand DEF Next

\* Every state the farm can reach is well typed, for any number of nodes, jobs
\* and chunks and any choice of faults and commands.
THEOREM TypeCorrect == Spec => []TypeOK
BY TypeInit, TypeStep, PTL DEF Spec

-----------------------------------------------------------------------------
(* Reports are honest: what a node queues, renders or reports is its own    *)
(* work, and a completion is reported only for a render that ended well.    *)

WorkOf(n) == {w \in Work : w.node = n}

OwnWork ==
    \A n \in Nodes : /\ queue[n] \in Seq(WorkOf(n))
                     /\ active[n] # None => active[n] \in WorkOf(n)

Backed(r) == r.kind = "completed" => r.work \in finished

HonestReports ==
    /\ \A r \in inbox \cup batch : Backed(r)
    /\ \A n \in Nodes : outbox[n] \in Seq({r \in Report : Backed(r)})

Honest == TypeOK /\ OwnWork /\ HonestReports

(* The kinds of change a row undergoes. *)

Freed(row, new) ==
    /\ new.state \in {"pending", "stopped"} /\ new.node = None
    /\ \/ new.failedOn = row.failedOn /\ new.retries \in {row.retries, 0}
       \/ new.failedOn = {} /\ new.retries = 0

\* Without an operator, the chunk is to be rendered and the blacklist stays.
Returned(row, new) == new.state = "pending" /\ new.failedOn = row.failedOn

RowStep(c) ==
    LET row == chunk[c]
        new == chunk'[c]
    IN  \/ new = row
        \/ Freed(row, new) /\ (Command \/ Returned(row, new))
        \/ row.state = "assigned" /\ new = Failed(row, row.node, MaxRetries)
        \/ /\ row.state = "assigned"
           /\ new = [row EXCEPT !.state = "completed"]
           /\ \E w \in finished' : w.chunk = c /\ w.node = row.node /\ w.epoch = row.epoch
        \/ /\ row.state = "pending" /\ pick # None /\ pick' = None /\ pick.chunk = c
           /\ new = AssignChunk(row, pick.node, pick.epoch)
        \/ /\ "assignTo" \in Controls
           /\ row.state \in {"assigned", "failed", "stopped"}
           /\ \E n \in Nodes : new = AssignDirectly(row, n)

\* The statements that take an attempt back never write a completion.
LEMMA FreedRows ==
    ASSUME NEW row \in Row, NEW n, NEW e \in Nat
    PROVE  /\ Freed(row, Unassigned(row)) /\ Freed(row, RevertChunkToPending(row))
           /\ Freed(row, Undispatched(row, n, e)) /\ Freed(row, StopChunk(row))
           /\ Freed(row, ResetChunk(row)) /\ Freed(row, RebuildChunk(row))
           /\ RetryFailedChunk(row) = row \/ Freed(row, RetryFailedChunk(row))
           /\ ResetAssignedChunk(row) = row \/ Freed(row, ResetAssignedChunk(row))
           /\ \A d : \/ ReassignDeadWorkerChunk(row, d) = row
                     \/ /\ Freed(row, ReassignDeadWorkerChunk(row, d))
                        /\ Returned(row, ReassignDeadWorkerChunk(row, d))
           /\ Returned(row, RevertChunkToPending(row)) /\ Returned(row, Undispatched(row, n, e))
BY DEF Freed, Returned, Row, Unassigned, RevertChunkToPending, Undispatched, AssignChunk, StopChunk,
       ResetChunk, RebuildChunk, FreshRow, RetryFailedChunk, ResetAssignedChunk,
       ReassignDeadWorkerChunk

\* What completeChunk and failChunk do, when the report passes the fence and
\* when it does not.
LEMMA ReportedRows ==
    ASSUME Honest, NEW r \in Report, r.kind = "completed" => r.work \in finished',
           NEW c \in Chunks, c = r.work.chunk, NEW new,
           new = IF r.kind = "completed"
                 THEN CompleteChunk(chunk[c], r.work.node, r.work.epoch)
                 ELSE FailChunk(chunk[c], r.work.node, r.work.epoch, MaxRetries),
           chunk'[c] = new
    PROVE  RowStep(c)
<1>1. CASE ~IsChunkCurrent(chunk[c], r.work.node, r.work.epoch)
  BY <1>1 DEF CompleteChunk, FailChunk, RowStep
<1>2. CASE IsChunkCurrent(chunk[c], r.work.node, r.work.epoch)
  <2>1. /\ chunk[c].state = "assigned" /\ chunk[c].node = r.work.node
        /\ chunk[c].epoch = r.work.epoch
    BY <1>2 DEF IsChunkCurrent
  <2>2. CASE r.kind = "completed"
    <3>1. r.work \in finished'
      BY <2>2
    <3>2. new = [chunk[c] EXCEPT !.state = "completed"]
      BY <1>2, <2>2 DEF CompleteChunk
    <3>3. QED  BY <2>1, <3>1, <3>2 DEF RowStep
  <2>3. CASE r.kind # "completed"
    <3>1. new = Failed(chunk[c], chunk[c].node, MaxRetries)
      BY <1>2, <2>1, <2>3 DEF FailChunk
    <3>2. QED  BY <2>1, <3>1 DEF RowStep
  <2>4. QED  BY <2>2, <2>3
<1>3. QED  BY <1>1, <1>2

\* A report of the leader's own node is applied to the row it names.
LEMMA DeliverRows ==
    ASSUME Honest, NEW n \in Nodes, NEW kind \in {"completed", "failed"},
           NEW w \in WorkOf(n), Deliver(n, [kind |-> kind, work |-> w]),
           kind = "completed" => w \in finished',
           NEW c \in Chunks
    PROVE  RowStep(c)
<1> PICK r : r = [kind |-> kind, work |-> w]
  OBVIOUS
<1>1. r \in Report /\ r.work.node = n /\ r.work.chunk \in Chunks
  BY DEF WorkOf, Report, Work
<1>2. CASE n = Local /\ c = r.work.chunk
  <2>1. chunk'[c] = IF r.kind = "completed"
                    THEN CompleteChunk(chunk[c], r.work.node, r.work.epoch)
                    ELSE FailChunk(chunk[c], r.work.node, r.work.epoch, MaxRetries)
    BY <1>1, <1>2 DEF Deliver, Honest, TypeOK
  <2>2. QED  BY <1>1, <1>2, <2>1, ReportedRows
<1>3. CASE ~(n = Local /\ c = r.work.chunk)
  <2>1. chunk'[c] = chunk[c]
    BY <1>1, <1>3 DEF Deliver, Honest, TypeOK
  <2>2. QED  BY <2>1 DEF RowStep
<1>4. QED  BY <1>2, <1>3

\* A statement run on all rows of a job is one of the changes RowStep lists.
LEMMA OnJobRows ==
    ASSUME NEW j, NEW c \in Chunks, TypeOK, Command,
           \/ chunk' = OnJob(j, ResetChunk) \/ chunk' = OnJob(j, RetryFailedChunk)
           \/ chunk' = OnJob(j, ResetAssignedChunk) \/ chunk' = OnJob(j, RebuildChunk)
    PROVE  RowStep(c)
<1>1. chunk[c] \in Row
  BY DEF TypeOK
<1>2. chunk'[c] \in {chunk[c], ResetChunk(chunk[c]), RetryFailedChunk(chunk[c]),
                     ResetAssignedChunk(chunk[c]), RebuildChunk(chunk[c])}
  BY DEF OnJob
<1>3. chunk'[c] = chunk[c] \/ Freed(chunk[c], chunk'[c])
  <2>1. /\ Freed(chunk[c], ResetChunk(chunk[c])) /\ Freed(chunk[c], RebuildChunk(chunk[c]))
        /\ \/ RetryFailedChunk(chunk[c]) = chunk[c]
           \/ Freed(chunk[c], RetryFailedChunk(chunk[c]))
        /\ \/ ResetAssignedChunk(chunk[c]) = chunk[c]
           \/ Freed(chunk[c], ResetAssignedChunk(chunk[c]))
    BY <1>1, FreedRows, 0 \in Nat
  <2>2. QED  BY <1>2, <2>1
<1>4. QED  BY <1>3 DEF RowStep

\* What a step of the leader's main thread does to a row.
LEMMA TickRows == Honest /\ Tick => \A c \in Chunks : RowStep(c)
<1> SUFFICES ASSUME Honest, Tick, NEW c \in Chunks PROVE RowStep(c)
  OBVIOUS
<1>0. TypeOK /\ chunk[c] \in Row
  BY DEF Honest, TypeOK
<1>a. chunk' = chunk => RowStep(c)
  BY DEF RowStep
<1>b. \A new : chunk'[c] = new /\ Freed(chunk[c], new) /\ Returned(chunk[c], new) => RowStep(c)
  BY DEF RowStep
<1>1. CASE TickStart \/ CloseJob \/ ServePeers \/ ReadEpoch \/ TickEnd
  BY <1>1, <1>a DEF TickStart, CloseJob, ServePeers, ReadEpoch, TickEnd, dbVars
<1>2. CASE ReclaimDead
  <2> DEFINE dead == {n \in Remote : view[n] \in {"gone", "sick"}}
  <2>1. chunk'[c] = ReassignDeadWorkerChunk(chunk[c], dead)
    BY <1>2 DEF ReclaimDead
  <2> HIDE DEF dead
  <2>2. QED  BY <2>1, <1>0, FreedRows, 0 \in Nat DEF RowStep
<1>3. CASE AssignPicked
  <2>1. CASE c = pick.chunk
    <3>1. chunk'[c] = AssignChunk(chunk[c], pick.node, pick.epoch)
      BY <1>0, <1>3, <2>1 DEF AssignPicked, TypeOK
    <3>2. QED  BY <1>3, <2>1, <3>1 DEF AssignPicked, Assignable, RowStep
  <2>2. CASE c # pick.chunk
    BY <1>0, <1>3, <2>2 DEF AssignPicked, RowStep, TypeOK
  <2>3. QED  BY <2>1, <2>2
<1>4. CASE DropPicked
  <2>1. CASE chunk' = chunk
    BY <2>1, <1>a
  <2>2. CASE chunk' # chunk /\ c = pick.chunk
    <3>1. chunk'[c] = Undispatched(chunk[c], pick.node, pick.epoch)
      BY <1>0, <1>4, <2>2 DEF DropPicked, TypeOK
    <3>2. pick.epoch \in Nat
      BY <1>0, <1>4 DEF DropPicked, TypeOK, Pick
    <3>3. QED  BY <1>0, <1>b, <3>1, <3>2, FreedRows
  <2>3. CASE chunk' # chunk /\ c # pick.chunk
    BY <1>0, <1>4, <2>3 DEF DropPicked, RowStep, TypeOK
  <2>4. QED  BY <2>1, <2>2, <2>3
<1>5. ASSUME NEW r \in batch, ApplyReport(r) PROVE RowStep(c)
  <2>1. r \in Report /\ r.work.chunk \in Chunks
    BY <1>0 DEF TypeOK, Report, Work
  <2>2. r.kind = "completed" => r.work \in finished'
    BY <1>5 DEF ApplyReport, Honest, HonestReports, Backed, nodeVars
  <2>3. CASE c = r.work.chunk
    <3>1. chunk'[c] = IF r.kind = "completed"
                      THEN CompleteChunk(chunk[c], r.work.node, r.work.epoch)
                      ELSE FailChunk(chunk[c], r.work.node, r.work.epoch, MaxRetries)
      BY <1>0, <1>5, <2>3 DEF ApplyReport, TypeOK
    <3>2. QED  BY <2>1, <2>2, <2>3, <3>1, ReportedRows
  <2>4. CASE c # r.work.chunk
    BY <1>0, <1>5, <2>4 DEF ApplyReport, RowStep, TypeOK
  <2>5. QED  BY <2>3, <2>4
<1>6. ASSUME NEW d \in reverting, ApplyRevert(d) PROVE RowStep(c)
  <2>1. CASE c = d
    <3>1. chunk'[c] = RevertChunkToPending(chunk[c])
      BY <1>0, <1>6, <2>1 DEF ApplyRevert, TypeOK
    <3>2. QED  BY <1>0, <1>b, <3>1, FreedRows, 0 \in Nat
  <2>2. CASE c # d
    BY <1>0, <1>6, <2>2 DEF ApplyRevert, RowStep, TypeOK
  <2>3. QED  BY <2>1, <2>2
<1>7. ASSUME NEW j \in Jobs, JudgeJob(j) PROVE RowStep(c)
  BY <1>7, <1>a DEF JudgeJob, dbVars
<1>8. ASSUME NEW n \in Nodes, FindChunk(n) PROVE RowStep(c)
  BY <1>8, <1>a DEF FindChunk, dbVars
<1>9. QED  BY <1>1, <1>2, <1>3, <1>4, <1>5, <1>6, <1>7, <1>8 DEF Tick

\* The network moves messages and leaves the rows alone.
LEMMA NetworkRows == Network => \A c \in Chunks : RowStep(c)
<1> SUFFICES ASSUME Network PROVE chunk' = chunk
  BY DEF RowStep
<1>1. QED
  BY DEF Network, PostArrives, PostAnswered, PostUnanswered, PostDropped, AbortArrives,
         AbortLost, FlushReport, Heartbeat, DeclareDead, dbVars

\* A node changes rows only when it is the leader's own and reports.
LEMMA NodeRows == Honest /\ Node => \A c \in Chunks : RowStep(c)
<1> SUFFICES ASSUME Honest, NEW c \in Chunks, NEW n \in Nodes,
                    \/ StartRender(n) \/ SkipDispatch(n) \/ AgentUnavailable(n)
                    \/ RecoverAgent(n) \/ FinishRender(n) \/ AbortGone(n) \/ SelfFence(n)
                    \/ StopNode(n) \/ ResumeNode(n) \/ Crash(n) \/ Restart(n) \/ EntryExpires(n)
             PROVE  RowStep(c)
  BY DEF Node
<1>a. chunk' = chunk => RowStep(c)
  BY DEF RowStep
<1>b. active[n] # None => active[n] \in WorkOf(n)
  BY DEF Honest, OwnWork
<1>c. \A w \in WorkOf(n) : Deliver(n, [kind |-> "failed", work |-> w]) => RowStep(c)
  BY DeliverRows
<1>1. CASE \/ StartRender(n) \/ SkipDispatch(n) \/ RecoverAgent(n) \/ SelfFence(n)
           \/ ResumeNode(n) \/ Crash(n) \/ Restart(n) \/ EntryExpires(n)
  BY <1>1, <1>a DEF StartRender, SkipDispatch, RecoverAgent, SelfFence, ResumeNode, Crash,
                    Restart, EntryExpires, dbVars
<1>2. CASE AgentUnavailable(n)
  <2>1. Head(queue[n]) \in WorkOf(n)
    BY <1>2 DEF AgentUnavailable, Honest, OwnWork
  <2>2. QED  BY <1>2, <2>1, <1>c DEF AgentUnavailable
<1>3. CASE FinishRender(n)
  <2>1. PICK kind \in {"completed", "failed"} :
             /\ Deliver(n, [kind |-> kind, work |-> active[n]])
             /\ kind = "completed" => active[n] \in finished'
    BY <1>3 DEF FinishRender
  <2>2. PICK w : w = active[n]
    OBVIOUS
  <2>3. w \in WorkOf(n)
    BY <1>3, <1>b, <2>2 DEF FinishRender
  <2>4. QED  BY <2>1, <2>2, <2>3, DeliverRows
<1>4. CASE AbortGone(n)
  BY <1>4, <1>b, <1>c DEF AbortGone
<1>5. CASE StopNode(n)
  BY <1>5, <1>a, <1>b, <1>c DEF StopNode
<1>6. QED  BY <1>1, <1>2, <1>3, <1>4, <1>5

\* What an operator's command does to a row.
LEMMA CommandRows == Honest /\ Command => \A c \in Chunks : RowStep(c)
<1> SUFFICES ASSUME Honest, Command, NEW c \in Chunks PROVE RowStep(c)
  OBVIOUS
<1>0. TypeOK /\ chunk[c] \in Row
  BY DEF Honest, TypeOK
<1>a. chunk' = chunk => RowStep(c)
  BY DEF RowStep
<1>b. \A new : chunk'[c] = new /\ Freed(chunk[c], new) => RowStep(c)
  BY DEF RowStep
<1>1. ASSUME NEW j \in Jobs, Pause(j) \/ Resume(j) \/ Archive(j) PROVE RowStep(c)
  BY <1>1, <1>a DEF Pause, Resume, Archive
<1>2. ASSUME NEW j \in Jobs, Cancel(j) PROVE RowStep(c)
  <2>1. CASE chunk' = chunk
    BY <2>1, <1>a
  <2>2. CASE Local \in Nodes /\ active[Local] # None
             /\ Deliver(Local, [kind |-> "failed", work |-> active[Local]])
    <3>1. PICK w : w = active[Local]
      OBVIOUS
    <3>2. w \in WorkOf(Local)
      BY <2>2, <3>1 DEF Honest, OwnWork
    <3>3. QED  BY <2>2, <3>1, <3>2, DeliverRows
  <2>3. QED  BY <1>2, <2>1, <2>2 DEF Cancel
<1>3. ASSUME NEW j \in Jobs, Requeue(j) \/ RetryFailed(j) PROVE RowStep(c)
  BY <1>0, <1>3, OnJobRows DEF Requeue, RetryFailed
<1>4. ASSUME NEW j \in Jobs, NEW how, BeginEdit(j, how) PROVE RowStep(c)
  BY <1>4, <1>a DEF BeginEdit
<1>5. ASSUME NEW d \in Chunks, StopOneChunk(d) PROVE RowStep(c)
  <2>1. CASE c = d
    <3>1. chunk'[c] = StopChunk(chunk[c])
      BY <1>0, <1>5, <2>1 DEF StopOneChunk, TypeOK
    <3>2. QED  BY <1>0, <1>b, <3>1, FreedRows, 0 \in Nat
  <2>2. CASE c # d
    BY <1>0, <1>5, <2>2 DEF StopOneChunk, RowStep, TypeOK
  <2>3. QED  BY <2>1, <2>2
<1>6. ASSUME NEW d \in Chunks, RequeueChunk(d) PROVE RowStep(c)
  <2>1. CASE c = d
    <3>1. chunk'[c] = Unassigned(chunk[c])
      BY <1>0, <1>6, <2>1 DEF RequeueChunk, TypeOK
    <3>2. QED  BY <1>0, <1>b, <3>1, FreedRows, 0 \in Nat
  <2>2. CASE c # d
    BY <1>0, <1>6, <2>2 DEF RequeueChunk, RowStep, TypeOK
  <2>3. QED  BY <2>1, <2>2
<1>7. ASSUME NEW d \in Chunks, NEW n \in Nodes, AssignChunkTo(d, n) PROVE RowStep(c)
  <2>1. CASE c = d
    <3>1. chunk'[c] = AssignDirectly(chunk[c], n)
      BY <1>0, <1>7, <2>1 DEF AssignChunkTo, TypeOK
    <3>2. QED  BY <1>7, <2>1, <3>1 DEF AssignChunkTo, Commanded, Reassignable, RowStep
  <2>2. CASE c # d
    BY <1>0, <1>7, <2>2 DEF AssignChunkTo, RowStep, TypeOK
  <2>3. QED  BY <2>1, <2>2
<1>8. CASE BumpEpoch \/ FinishEdit
  BY <1>8, <1>a DEF BumpEpoch, FinishEdit
<1>9. CASE ResetRows
  BY <1>0, <1>9, OnJobRows DEF ResetRows
<1>10. QED
  BY <1>1, <1>2, <1>3, <1>4, <1>5, <1>6, <1>7, <1>8, <1>9 DEF Command

\* Every step of the system changes each row in one of the listed ways.
LEMMA RowSteps == Honest /\ [Next]_vars => \A c \in Chunks : RowStep(c)
<1>1. UNCHANGED vars => \A c \in Chunks : RowStep(c)
  BY DEF vars, dbVars, RowStep
<1>2. QED  BY <1>1, TickRows, NetworkRows, NodeRows, CommandRows DEF Next

-----------------------------------------------------------------------------
(* Honest is an invariant. *)

\* In the first state nothing is queued or reported.
LEMMA HonestInit == Init => Honest
<1> SUFFICES ASSUME Init PROVE Honest
  OBVIOUS
<1>1. \A S : <<>> \in Seq(S)
  OBVIOUS
<1>2. QED  BY <1>1, TypeInit DEF Init, Honest, OwnWork, HonestReports

\* What a purge leaves in the queue is still the node's own work.
LEMMA AbandonOwn ==
    ASSUME Honest, NEW m \in Nodes, NEW j, Abandon(m, j)
    PROVE  OwnWork'
<1>1. Keep(queue[m], j) \in Seq(WorkOf(m))
  BY KeepType DEF Honest, OwnWork
<1>2. \A n \in Nodes : queue'[n] \in Seq(WorkOf(n))
  BY <1>1 DEF Abandon, Honest, TypeOK, OwnWork
<1>3. \A n \in Nodes : active'[n] # None => active'[n] \in WorkOf(n)
  BY DEF Abandon, Honest, TypeOK, OwnWork
<1>4. QED  BY <1>2, <1>3 DEF OwnWork, WorkOf

\* Dispatches reach only the node they are for.
LEMMA OwnWorkStep == Honest /\ [Next]_vars => OwnWork'
<1> SUFFICES ASSUME Honest, [Next]_vars PROVE OwnWork'
  OBVIOUS
<1>0. TypeOK /\ OwnWork
  BY DEF Honest
<1>a. UNCHANGED <<queue, active>> => OwnWork'
  BY <1>0 DEF OwnWork, WorkOf
<1>b. \A j : AbandonLocal(j) => OwnWork'
  BY <1>a, AbandonOwn DEF AbandonLocal
<1>1. CASE UNCHANGED vars
  BY <1>1, <1>a DEF vars, nodeVars
<1>2. CASE Tick
  <2>1. CASE AssignPicked
    <3>1. Picked \in WorkOf(pick.node) /\ pick.node \in Nodes
      BY <1>0, <2>1 DEF AssignPicked, Picked, TypeOK, Pick, Work, WorkOf
    <3>2. CASE pick.node = Local
      <4>1. Append(queue[Local], Picked) \in Seq(WorkOf(Local))
        BY <1>0, <3>1, <3>2 DEF OwnWork
      <4>2. \A n \in Nodes : queue'[n] \in Seq(WorkOf(n))
        BY <1>0, <2>1, <3>2, <4>1 DEF AssignPicked, OwnWork, TypeOK
      <4>3. active' = active
        BY <2>1 DEF AssignPicked
      <4>4. QED  BY <1>0, <4>2, <4>3 DEF OwnWork, WorkOf
    <3>3. CASE pick.node # Local
      BY <2>1, <3>3, <1>a DEF AssignPicked
    <3>4. QED  BY <3>2, <3>3
  <2>2. CASE Tick /\ ~AssignPicked
    BY <2>2, <1>a DEF Tick, TickStart, ReclaimDead, CloseJob, ServePeers, ReadEpoch,
       DropPicked, TickEnd, ApplyReport, ApplyRevert, JudgeJob, FindChunk, nodeVars
  <2>3. QED  BY <1>2, <2>1, <2>2
<1>3. CASE Network
  <2>1. ASSUME NEW p \in posts, PostArrives(p) PROVE OwnWork'
    <3>1. p.work \in WorkOf(p.work.node) /\ p.work.node \in Nodes
      BY <1>0 DEF TypeOK, Post, Work, WorkOf
    <3>2. Append(queue[p.work.node], p.work) \in Seq(WorkOf(p.work.node))
      BY <1>0, <3>1 DEF OwnWork
    <3>3. \A n \in Nodes : queue'[n] \in Seq(WorkOf(n))
      BY <1>0, <2>1, <3>2 DEF PostArrives, OwnWork, TypeOK
    <3>4. active' = active
      BY <2>1 DEF PostArrives
    <3>5. QED  BY <1>0, <3>3, <3>4 DEF OwnWork, WorkOf
  <2>2. ASSUME NEW n \in Nodes, NEW j \in Jobs, AbortArrives(n, j) PROVE OwnWork'
    BY <2>2, <1>a, AbandonOwn DEF AbortArrives
  <2>3. CASE UNCHANGED <<queue, active>>
    BY <2>3, <1>a
  <2>4. QED
    BY <1>3, <2>1, <2>2, <2>3 DEF Network, PostAnswered, PostUnanswered, PostDropped,
       AbortLost, FlushReport, Heartbeat, DeclareDead, nodeVars
<1>4. CASE Node
  <2> PICK n \in Nodes :
             \/ StartRender(n) \/ SkipDispatch(n) \/ AgentUnavailable(n)
             \/ RecoverAgent(n) \/ FinishRender(n) \/ AbortGone(n) \/ SelfFence(n)
             \/ StopNode(n) \/ ResumeNode(n) \/ Crash(n) \/ Restart(n) \/ EntryExpires(n)
    BY <1>4 DEF Node
  <2>a. queue[n] # <<>> => /\ Head(queue[n]) \in WorkOf(n)
                           /\ Tail(queue[n]) \in Seq(WorkOf(n))
    BY <1>0 DEF OwnWork
  <2>b. \A q \in {queue[n], Tail(queue[n]), <<>>},
           a \in {active[n], Head(queue[n]), None} :
          /\ q \in Seq(WorkOf(n)) /\ (a # None => a \in WorkOf(n))
          /\ queue' = [queue EXCEPT ![n] = q] /\ active' = [active EXCEPT ![n] = a]
          => OwnWork'
    <3> TAKE q \in {queue[n], Tail(queue[n]), <<>>}, a \in {active[n], Head(queue[n]), None}
    <3> HAVE /\ q \in Seq(WorkOf(n)) /\ (a # None => a \in WorkOf(n))
             /\ queue' = [queue EXCEPT ![n] = q] /\ active' = [active EXCEPT ![n] = a]
    <3>1. \A m \in Nodes : queue'[m] \in Seq(WorkOf(m))
      BY <1>0 DEF OwnWork, TypeOK
    <3>2. \A m \in Nodes : active'[m] # None => active'[m] \in WorkOf(m)
      BY <1>0 DEF OwnWork, TypeOK
    <3>3. QED  BY <3>1, <3>2 DEF OwnWork, WorkOf
  <2>c. /\ queue[n] \in Seq(WorkOf(n)) /\ <<>> \in Seq(WorkOf(n))
        /\ active[n] # None => active[n] \in WorkOf(n)
        /\ queue = [queue EXCEPT ![n] = queue[n]]
        /\ active = [active EXCEPT ![n] = active[n]]
    BY <1>0 DEF OwnWork, TypeOK
  <2>1. CASE StartRender(n)
    BY <2>1, <2>a, <2>b DEF StartRender
  <2>2. CASE SkipDispatch(n) \/ AgentUnavailable(n)
    BY <2>2, <2>a, <2>b, <2>c DEF SkipDispatch, AgentUnavailable
  <2>3. CASE FinishRender(n) \/ StopNode(n)
    BY <2>3, <2>b, <2>c DEF FinishRender, StopNode
  <2>4. CASE Crash(n)
    BY <2>4, <2>b, <2>c DEF Crash
  <2>5. CASE AbortGone(n) \/ SelfFence(n)
    BY <2>5, AbandonOwn DEF AbortGone, SelfFence
  <2>6. CASE RecoverAgent(n) \/ ResumeNode(n) \/ Restart(n) \/ EntryExpires(n)
    BY <2>6, <1>a DEF RecoverAgent, ResumeNode, Restart, EntryExpires
  <2>7. QED  BY <2>1, <2>2, <2>3, <2>4, <2>5, <2>6
<1>5. CASE Command
  BY <1>5, <1>a, <1>b DEF Command, Pause, Resume, Archive, Cancel, Requeue, RetryFailed,
     BeginEdit, StopOneChunk, RequeueChunk, AssignChunkTo, BumpEpoch, ResetRows, FinishEdit,
     nodeVars
<1>6. QED  BY <1>1, <1>2, <1>3, <1>4, <1>5 DEF Next

\* A render that ended well stays so.
LEMMA FinishedGrows == [Next]_vars => finished \subseteq finished'
BY DEF Next, Tick, TickStart, ReclaimDead, CloseJob, ServePeers, ReadEpoch, AssignPicked,
   DropPicked, TickEnd, ApplyReport, ApplyRevert, JudgeJob, FindChunk,
   Network, PostArrives, PostAnswered, PostUnanswered, PostDropped, AbortArrives, AbortLost,
   FlushReport, Heartbeat, DeclareDead,
   Node, StartRender, SkipDispatch, AgentUnavailable, RecoverAgent, FinishRender, AbortGone,
   SelfFence, StopNode, ResumeNode, Crash, Restart, EntryExpires,
   Command, Pause, Resume, Archive, Cancel, Requeue, RetryFailed, BeginEdit, StopOneChunk,
   RequeueChunk, AssignChunkTo, BumpEpoch, ResetRows, FinishEdit,
   vars, nodeVars

Good == {r \in Report : Backed(r)}

\* A report that was honest stays honest.
LEMMA GoodGrows == [Next]_vars => Good \subseteq Good'
BY FinishedGrows DEF Good, Backed

\* Handing on an honest report keeps reports honest.
LEMMA DeliverHonest ==
    ASSUME Honest, [Next]_vars, NEW n \in Nodes, NEW r \in Report, Deliver(n, r),
           r.kind = "completed" => r.work \in finished',
           UNCHANGED <<inbox, batch>>
    PROVE  HonestReports'
<1>1. r \in Good'
  BY DEF Good, Backed
<1>2. \A m \in Nodes : outbox[m] \in Seq(Good')
  BY GoodGrows, SeqMonotonic DEF Honest, HonestReports, Good
<1>3. Append(outbox[n], r) \in Seq(Good')
  BY <1>1, <1>2
<1>4. \A m \in Nodes : outbox'[m] \in Seq(Good')
  BY <1>2, <1>3 DEF Deliver, Honest, TypeOK
<1>5. \A s \in (inbox \cup batch)' : Backed(s)'
  BY FinishedGrows DEF Honest, HonestReports, Backed
<1>6. QED  BY <1>4, <1>5 DEF HonestReports, Good, Backed

\* Only the end of a render makes a report, and a completion only its success.
LEMMA HonestReportsStep == Honest /\ [Next]_vars => HonestReports'
<1> SUFFICES ASSUME Honest, [Next]_vars PROVE HonestReports'
  OBVIOUS
<1>0. TypeOK /\ OwnWork /\ HonestReports
  BY DEF Honest
<1>a. \A n \in Nodes : outbox[n] \in Seq(Good')
  BY <1>0, GoodGrows, SeqMonotonic DEF HonestReports, Good
<1>b. \A r \in inbox \cup batch : Backed(r)'
  BY <1>0, FinishedGrows DEF HonestReports, Backed
<1>c. ASSUME (inbox \cup batch)' \subseteq inbox \cup batch, UNCHANGED outbox
      PROVE  HonestReports'
  BY <1>a, <1>b, <1>c DEF HonestReports, Good
<1>d. ASSUME NEW n \in Nodes, NEW w \in WorkOf(n), UNCHANGED <<inbox, batch>>,
             Deliver(n, [kind |-> "failed", work |-> w])
      PROVE  HonestReports'
  <2>1. [kind |-> "failed", work |-> w] \in Report
    BY DEF Report, WorkOf
  <2>2. QED  BY <1>d, <2>1, DeliverHonest
<1>e. ASSUME NEW n \in Nodes, NEW q \in Seq(Good'), UNCHANGED batch,
             \A r \in inbox' : Backed(r)', outbox' = [outbox EXCEPT ![n] = q]
      PROVE  HonestReports'
  <2>1. \A m \in Nodes : outbox'[m] \in Seq(Good')
    BY <1>0, <1>a, <1>e DEF TypeOK
  <2>2. QED  BY <1>b, <1>e, <2>1 DEF HonestReports, Good
<1>1. CASE UNCHANGED vars
  BY <1>1, <1>c DEF vars, tickVars, leaderVars, nodeVars
<1>2. CASE Tick
  BY <1>2, <1>c DEF Tick, TickStart, ReclaimDead, CloseJob, ServePeers, ReadEpoch,
     AssignPicked, DropPicked, TickEnd, ApplyReport, ApplyRevert, JudgeJob, FindChunk,
     leaderVars, nodeVars
<1>3. CASE Network
  <2>1. ASSUME NEW n \in Nodes, FlushReport(n) PROVE HonestReports'
    <3>1. Head(outbox[n]) \in Good' /\ Tail(outbox[n]) \in Seq(Good')
      BY <1>a, <2>1 DEF FlushReport
    <3>2. \A r \in inbox' : Backed(r)'
      BY <1>b, <2>1, <3>1 DEF FlushReport, Good
    <3>3. outbox' \in {outbox, [outbox EXCEPT ![n] = Tail(outbox[n])]}
      BY <2>1 DEF FlushReport
    <3>4. outbox = [outbox EXCEPT ![n] = outbox[n]]
      BY <1>0 DEF TypeOK
    <3>5. UNCHANGED batch
      BY <2>1 DEF FlushReport, tickVars
    <3>6. QED  BY <1>a, <1>e, <3>1, <3>2, <3>3, <3>4, <3>5
  <2>2. CASE UNCHANGED <<inbox, batch, outbox>>
    BY <2>2, <1>c
  <2>3. QED
    BY <1>3, <2>1, <2>2 DEF Network, PostArrives, PostAnswered, PostUnanswered, PostDropped,
       AbortArrives, AbortLost, Heartbeat, DeclareDead, tickVars, nodeVars
<1>4. CASE Node
  <2> PICK n \in Nodes :
             \/ StartRender(n) \/ SkipDispatch(n) \/ AgentUnavailable(n)
             \/ RecoverAgent(n) \/ FinishRender(n) \/ AbortGone(n) \/ SelfFence(n)
             \/ StopNode(n) \/ ResumeNode(n) \/ Crash(n) \/ Restart(n) \/ EntryExpires(n)
    BY <1>4 DEF Node
  <2>a. active[n] # None => active[n] \in WorkOf(n)
    BY <1>0 DEF OwnWork
  <2>1. CASE \/ StartRender(n) \/ SkipDispatch(n) \/ RecoverAgent(n) \/ SelfFence(n)
             \/ ResumeNode(n) \/ Restart(n) \/ EntryExpires(n)
    BY <2>1, <1>c DEF StartRender, SkipDispatch, RecoverAgent, SelfFence, ResumeNode,
       Restart, EntryExpires, tickVars, leaderVars
  <2>2. CASE AgentUnavailable(n)
    <3>1. Head(queue[n]) \in WorkOf(n)
      BY <1>0, <2>2 DEF AgentUnavailable, OwnWork
    <3>2. QED  BY <2>2, <3>1, <1>d DEF AgentUnavailable, tickVars, leaderVars
  <2>3. CASE FinishRender(n)
    <3>1. PICK kind \in {"completed", "failed"} :
               /\ Deliver(n, [kind |-> kind, work |-> active[n]])
               /\ kind = "completed" => active[n] \in finished'
      BY <2>3 DEF FinishRender
    <3>2. [kind |-> kind, work |-> active[n]] \in Report
      BY <1>0, <2>3 DEF FinishRender, TypeOK, Report
    <3>3. PICK r \in Report : r = [kind |-> kind, work |-> active[n]]
      BY <3>2
    <3>4. UNCHANGED <<inbox, batch>>
      BY <2>3 DEF FinishRender, tickVars, leaderVars
    <3>5. QED  BY <3>1, <3>3, <3>4, DeliverHonest
  <2>4. CASE AbortGone(n)
    BY <2>4, <2>a, <1>d DEF AbortGone, tickVars, leaderVars
  <2>5. CASE StopNode(n)
    BY <2>5, <2>a, <1>c, <1>d DEF StopNode, tickVars, leaderVars
  <2>6. CASE Crash(n)
    <3>1. <<>> \in Seq(Good')
      OBVIOUS
    <3>2. UNCHANGED <<inbox, batch>> /\ outbox' = [outbox EXCEPT ![n] = <<>>]
      BY <2>6 DEF Crash, tickVars, leaderVars
    <3>3. QED  BY <1>b, <1>e, <3>1, <3>2
  <2>7. QED  BY <2>1, <2>2, <2>3, <2>4, <2>5, <2>6
<1>5. CASE Command
  <2>1. UNCHANGED <<inbox, batch>>
    BY <1>5 DEF Command, Pause, Resume, Archive, Cancel, Requeue, RetryFailed, BeginEdit,
       StopOneChunk, RequeueChunk, AssignChunkTo, BumpEpoch, ResetRows, FinishEdit,
       tickVars, leaderVars
  <2>2. CASE UNCHANGED outbox
    BY <2>1, <2>2, <1>c
  <2>3. CASE /\ Local \in Nodes /\ active[Local] # None
             /\ Deliver(Local, [kind |-> "failed", work |-> active[Local]])
    BY <1>0, <2>1, <2>3, <1>d DEF OwnWork
  <2>4. QED
    BY <1>5, <2>2, <2>3 DEF Command, Pause, Resume, Archive, Cancel, Requeue, RetryFailed,
       BeginEdit, StopOneChunk, RequeueChunk, AssignChunkTo, BumpEpoch, ResetRows, FinishEdit,
       nodeVars
<1>6. QED  BY <1>1, <1>2, <1>3, <1>4, <1>5 DEF Next

\* Honest is inductive.
LEMMA HonestStep == Honest /\ [Next]_vars => Honest'
BY TypeStep, OwnWorkStep, HonestReportsStep DEF Honest

-----------------------------------------------------------------------------
(* No phantom completion. *)

\* A row becomes completed only by an honest report about its attempt.
LEMMA PhantomStep == Honest /\ NoPhantomCompletion /\ [Next]_vars => NoPhantomCompletion'
<1> SUFFICES ASSUME Honest, NoPhantomCompletion, [Next]_vars,
                    NEW c \in Chunks, chunk'[c].state = "completed"
             PROVE  \E w \in finished' :
                      w.chunk = c /\ w.node = chunk'[c].node /\ w.epoch = chunk'[c].epoch
  BY DEF NoPhantomCompletion
<1>0. RowStep(c) /\ chunk[c] \in Row
  BY RowSteps DEF Honest, TypeOK
<1>1. CASE chunk'[c] = chunk[c]
  BY <1>1, FinishedGrows DEF NoPhantomCompletion
<1>2. CASE Freed(chunk[c], chunk'[c])
  BY <1>2 DEF Freed
<1>3. CASE chunk'[c] = Failed(chunk[c], chunk[c].node, MaxRetries)
  BY <1>0, <1>3 DEF Failed, Unassigned, Row
<1>4. CASE /\ chunk'[c] = [chunk[c] EXCEPT !.state = "completed"]
           /\ \E w \in finished' :
                w.chunk = c /\ w.node = chunk[c].node /\ w.epoch = chunk[c].epoch
  BY <1>0, <1>4 DEF Row
<1>5. CASE chunk'[c] = AssignChunk(chunk[c], pick.node, pick.epoch)
  BY <1>0, <1>5 DEF AssignChunk, Row
<1>6. CASE \E n \in Nodes : chunk'[c] = AssignDirectly(chunk[c], n)
  BY <1>0, <1>6 DEF AssignDirectly, Row
<1>7. QED  BY <1>0, <1>1, <1>2, <1>3, <1>4, <1>5, <1>6 DEF RowStep

\* completeChunk and its callers mark a chunk completed only for a render of
\* that chunk which ended well on the node and under the epoch of the row,
\* whatever is lost, repeated, late or reassigned, and whatever the operators
\* do.
THEOREM CompletionsAreReal == Spec => []NoPhantomCompletion
<1>1. Init => Honest /\ NoPhantomCompletion
  BY HonestInit DEF Init, NoPhantomCompletion, FreshRow
<1>2. Honest /\ NoPhantomCompletion /\ [Next]_vars => (Honest /\ NoPhantomCompletion)'
  BY HonestStep, PhantomStep
<1>3. QED  BY <1>1, <1>2, PTL DEF Spec

-----------------------------------------------------------------------------
(* The blacklist.  reassignChunk with a target overrides it, so these two  *)
(* theorems are about farms where operators do not use it.                 *)

\* The chunk picked for a node stays unassigned, and the node stays off its
\* blacklist, until the main thread assigns it: failChunk touches assigned
\* rows only.
PickHolds ==
    pick # None => /\ chunk[pick.chunk].state # "assigned"
                   /\ pick.node \notin chunk[pick.chunk].failedOn

\* retry_count never runs ahead of failed_on.
Counted ==
    \A c \in Chunks : /\ IsFiniteSet(chunk[c].failedOn)
                      /\ chunk[c].retries <= Cardinality(chunk[c].failedOn)

Blacklist == BlacklistHonoured /\ PickHolds /\ Counted

\* What a pass has read and not yet used belongs to the main thread's pass.
LEMMA TickKeepsItsOwn ==
    ASSUME [Next]_vars
    PROVE  Tick \/ UNCHANGED tickVars
<1>1. CASE Network
  BY <1>1 DEF Network, PostArrives, PostAnswered, PostUnanswered, PostDropped, AbortArrives,
     AbortLost, FlushReport, Heartbeat, DeclareDead, tickVars
<1>2. CASE Node
  BY <1>2 DEF Node, StartRender, SkipDispatch, AgentUnavailable, RecoverAgent, FinishRender,
     AbortGone, SelfFence, StopNode, ResumeNode, Crash, Restart, EntryExpires, tickVars
<1>3. CASE Command
  BY <1>3 DEF Command, Pause, Resume, Archive, Cancel, Requeue, RetryFailed, BeginEdit,
     StopOneChunk, RequeueChunk, AssignChunkTo, BumpEpoch, ResetRows, FinishEdit, tickVars
<1>4. CASE UNCHANGED vars
  BY <1>4 DEF vars
<1>5. QED  BY <1>1, <1>2, <1>3, <1>4 DEF Next

\* A pick is made by the query, and kept until it is used.
LEMMA PickOrigin ==
    ASSUME TypeOK, [Next]_vars, pick' # None
    PROVE  \/ /\ pick # None /\ pick'.chunk = pick.chunk /\ pick'.node = pick.node
           \/ /\ chunk' = chunk
              /\ chunk[pick'.chunk].state = "pending"
              /\ pick'.node \notin chunk[pick'.chunk].failedOn
<1>1. CASE ReadEpoch
  BY <1>1 DEF ReadEpoch, TypeOK, Pick
<1>2. ASSUME NEW n \in Nodes, FindChunk(n), Offered(n) # {}
      PROVE  /\ chunk' = chunk /\ chunk[pick'.chunk].state = "pending"
             /\ pick'.node \notin chunk[pick'.chunk].failedOn
  BY <1>2 DEF FindChunk, Offered, dbVars
<1>3. CASE UNCHANGED pick
  BY <1>3
<1>4. CASE Tick
  BY <1>1, <1>2, <1>3, <1>4 DEF Tick, TickStart, ReclaimDead, CloseJob, ServePeers, AssignPicked,
     DropPicked, TickEnd, ApplyReport, ApplyRevert, JudgeJob, FindChunk
<1>5. Tick \/ UNCHANGED pick
  BY TickKeepsItsOwn, Zenon DEF tickVars
<1>6. QED  BY <1>3, <1>4, <1>5

\* The node that is picked is not blacklisted until the assignment, because a
\* failure of that chunk needs the chunk assigned, and a pick needs it pending.
LEMMA BlacklistStep ==
    ASSUME "assignTo" \notin Controls, Honest, Blacklist, [Next]_vars
    PROVE  Blacklist'
<1>0. \A c \in Chunks : RowStep(c) /\ chunk[c] \in Row /\ chunk'[c] \in Row
  BY RowSteps, TypeStep DEF Honest, TypeOK
<1>a. \A c \in Chunks :
        /\ chunk[c].state = "assigned" => chunk[c].node \notin chunk[c].failedOn
        /\ IsFiniteSet(chunk[c].failedOn)
        /\ chunk[c].retries <= Cardinality(chunk[c].failedOn)
  BY <1>0 DEF Blacklist, BlacklistHonoured, AssignedTo, Counted, Row
<1>1. ASSUME NEW c \in Chunks, chunk[c].state = "assigned",
             chunk'[c] = Failed(chunk[c], chunk[c].node, MaxRetries)
      PROVE  /\ chunk'[c].state # "assigned" /\ IsFiniteSet(chunk'[c].failedOn)
             /\ chunk'[c].retries <= Cardinality(chunk'[c].failedOn)
  <2>1. /\ chunk'[c].state # "assigned"
        /\ chunk'[c].failedOn = chunk[c].failedOn \cup {chunk[c].node}
        /\ chunk'[c].retries = chunk[c].retries + 1
    BY <1>0, <1>1 DEF Failed, Unassigned, Row
  <2>2. /\ IsFiniteSet(chunk'[c].failedOn)
        /\ Cardinality(chunk'[c].failedOn) = Cardinality(chunk[c].failedOn) + 1
    <3>1. IsFiniteSet(chunk[c].failedOn) /\ chunk[c].node \notin chunk[c].failedOn
      BY <1>a, <1>1
    <3>2. /\ IsFiniteSet(chunk[c].failedOn \cup {chunk[c].node})
          /\ Cardinality(chunk[c].failedOn \cup {chunk[c].node})
               = Cardinality(chunk[c].failedOn) + 1
      BY <3>1, FS_AddElement
    <3>3. QED  BY <2>1, <3>2
  <2>3. Cardinality(chunk[c].failedOn) \in Nat
    BY <1>a, FS_CardinalityType
  <2>4. QED  BY <1>0, <1>a, <2>1, <2>2, <2>3 DEF Row
<1>2. ASSUME NEW c \in Chunks
      PROVE  /\ chunk'[c].state = "assigned" => chunk'[c].node \notin chunk'[c].failedOn
             /\ IsFiniteSet(chunk'[c].failedOn)
             /\ chunk'[c].retries <= Cardinality(chunk'[c].failedOn)
  <2>1. CASE chunk'[c] = chunk[c]
    BY <1>a, <2>1
  <2>2. CASE Freed(chunk[c], chunk'[c])
    <3>1. IsFiniteSet({}) /\ Cardinality({}) = 0
      BY FS_EmptySet
    <3>2. Cardinality(chunk[c].failedOn) \in Nat
      BY <1>a, FS_CardinalityType
    <3>3. IsFiniteSet(chunk[c].failedOn) /\ chunk[c].retries <= Cardinality(chunk[c].failedOn)
      BY <1>a
    <3>4. CASE chunk'[c].failedOn = chunk[c].failedOn /\ chunk'[c].retries \in {chunk[c].retries, 0}
      <4>1. 0 <= Cardinality(chunk'[c].failedOn)
        BY <3>2, <3>4
      <4>2. chunk'[c].state # "assigned"
        BY <2>2 DEF Freed
      <4>3. QED  BY <3>3, <3>4, <4>1, <4>2
    <3>5. CASE chunk'[c].failedOn = {} /\ chunk'[c].retries = 0
      BY <3>1, <3>5
    <3>6. QED  BY <2>2, <3>4, <3>5 DEF Freed
  <2>3. CASE chunk[c].state = "assigned"
             /\ chunk'[c] = Failed(chunk[c], chunk[c].node, MaxRetries)
    BY <1>1, <2>3
  <2>4. CASE chunk'[c] = [chunk[c] EXCEPT !.state = "completed"]
    BY <1>0, <1>a, <2>4 DEF Row
  <2>5. CASE /\ pick # None /\ pick.chunk = c
             /\ chunk'[c] = AssignChunk(chunk[c], pick.node, pick.epoch)
    BY <1>0, <1>a, <2>5 DEF AssignChunk, Row, Blacklist, PickHolds
  <2>6. QED  BY <1>0, <2>1, <2>2, <2>3, <2>4, <2>5 DEF RowStep
<1>3. BlacklistHonoured' /\ Counted'
  BY <1>2 DEF BlacklistHonoured, AssignedTo, Counted
<1>4. PickHolds'
  <2> SUFFICES ASSUME pick' # None
               PROVE  /\ chunk'[pick'.chunk].state # "assigned"
                      /\ pick'.node \notin chunk'[pick'.chunk].failedOn
    BY DEF PickHolds
  <2>1. CASE /\ chunk' = chunk /\ chunk[pick'.chunk].state = "pending"
             /\ pick'.node \notin chunk[pick'.chunk].failedOn
    BY <2>1
  <2>2. CASE pick # None /\ pick'.chunk = pick.chunk /\ pick'.node = pick.node
    <3> DEFINE c == pick.chunk
    <3>1. /\ c \in Chunks /\ chunk[c].state # "assigned"
          /\ pick.node \notin chunk[c].failedOn
      BY <2>2 DEF Honest, TypeOK, Pick, Blacklist, PickHolds
    <3>2. chunk'[c] = chunk[c] \/ Freed(chunk[c], chunk'[c])
      BY <1>0, <3>1 DEF RowStep
    <3>3. QED  BY <2>2, <3>1, <3>2 DEF Freed
  <2>3. QED  BY <2>1, <2>2, PickOrigin DEF Honest
<1>5. QED  BY <1>3, <1>4 DEF Blacklist

\* In the first state nothing is assigned and nothing has failed.
LEMMA BlacklistInit == Init => Blacklist
<1> SUFFICES ASSUME Init PROVE Blacklist
  OBVIOUS
<1>1. IsFiniteSet({}) /\ Cardinality({}) = 0
  BY FS_EmptySet
<1>2. \A c \in Chunks : chunk[c] = FreshRow(0)
  BY DEF Init
<1>3. \A c \in Chunks : /\ chunk[c].state = "pending" /\ chunk[c].failedOn = {}
                        /\ chunk[c].retries = 0
  BY <1>2 DEF FreshRow
<1>4. pick = None
  BY DEF Init
<1>5. Counted
  <2> SUFFICES ASSUME NEW c \in Chunks
               PROVE  /\ IsFiniteSet(chunk[c].failedOn)
                      /\ chunk[c].retries <= Cardinality(chunk[c].failedOn)
    BY DEF Counted
  <2>1. chunk[c].failedOn = {} /\ chunk[c].retries = 0
    BY <1>3
  <2>2. Cardinality(chunk[c].failedOn) = 0 /\ IsFiniteSet(chunk[c].failedOn)
    BY <1>1, <2>1
  <2>3. QED  BY <2>1, <2>2
<1>6. BlacklistHonoured
  BY <1>3 DEF BlacklistHonoured, AssignedTo
<1>7. QED  BY <1>4, <1>5, <1>6 DEF Blacklist, PickHolds

\* The three facts together are an invariant.
LEMMA BlacklistAlways ==
    ASSUME "assignTo" \notin Controls
    PROVE  Spec => [](Honest /\ Blacklist)
<1>1. Init => Honest /\ Blacklist
  BY HonestInit, BlacklistInit
<1>2. Honest /\ Blacklist /\ [Next]_vars => (Honest /\ Blacklist)'
  BY HonestStep, BlacklistStep
<1>3. QED  BY <1>1, <1>2, PTL DEF Spec

\* assignWork never gives a node a chunk which that node has failed, although
\* the query that offers the chunk and the statement that assigns it are apart
\* and HTTP threads write between them.
THEOREM BlacklistIsHonoured ==
    ASSUME "assignTo" \notin Controls
    PROVE  Spec => []BlacklistHonoured
<1>1. Honest /\ Blacklist => BlacklistHonoured
  BY DEF Blacklist
<1>2. QED  BY <1>1, BlacklistAlways, PTL

\* Every retry that failChunk counts is paid for by another node on the
\* blacklist: repeated and late failure reports are counted once.
THEOREM FailuresCountOnce ==
    ASSUME "assignTo" \notin Controls
    PROVE  Spec => []EachNodeFailsAChunkOnce
<1>1. Honest /\ Blacklist => EachNodeFailsAChunkOnce
  BY DEF Blacklist, Counted, EachNodeFailsAChunkOnce
<1>2. QED  BY <1>1, BlacklistAlways, PTL

-----------------------------------------------------------------------------
(* The contract of the chunks.                                            *)

\* A row reads as a status of the contract.
LEMMA StatusType ==
    ASSUME NEW row \in Row
    PROVE  StatusOf(row) \in Disturbed!Status
BY DEF Row, ChunkStates, StatusOf, StatusState, Disturbed!Status

\* The contract counts as FiniteSets does.
LEMMA SameCardinality == \A S : Disturbed!Cardinality(S) = Cardinality(S)
BY DEF Disturbed!Cardinality, Cardinality

\* Unless a row is freed, what RowSteps allows is a step of the contract.
LEMMA RowKeepsContract ==
    ASSUME "assignTo" \notin Controls, Honest, Blacklist, NEW c \in Chunks,
           RowStep(c), chunk'[c] \in Row
    PROVE  \/ StatusOf(chunk'[c]) = StatusOf(chunk[c])
           \/ Freed(chunk[c], chunk'[c]) /\ (Command \/ Returned(chunk[c], chunk'[c]))
           \/ Disturbed!Take(StatusOf(chunk[c]), StatusOf(chunk'[c]))
           \/ Disturbed!Finish(StatusOf(chunk[c]), StatusOf(chunk'[c]))
           \/ Disturbed!Fail(StatusOf(chunk[c]), StatusOf(chunk'[c]))
<1> DEFINE row == chunk[c]
           new == chunk'[c]
<1>0. row \in Row /\ new \in Row
  BY DEF Honest, TypeOK
<1>1. CASE new = row
  BY <1>1
<1>2. CASE Freed(row, new) /\ (Command \/ Returned(row, new))
  BY <1>2
<1>3. CASE row.state = "assigned" /\ new = Failed(row, row.node, MaxRetries)
  <2>1. /\ row.node \notin row.failedOn /\ IsFiniteSet(row.failedOn)
        /\ row.retries <= Cardinality(row.failedOn)
    BY <1>0, <1>3 DEF Blacklist, BlacklistHonoured, AssignedTo, Counted, Row
  <2>2. row.node \in Nodes \cup {None} /\ row.retries \in Nat /\ MaxRetries \in Nat
    BY <1>0, DispatchAssumption DEF Row
  <2>3. Cardinality(row.failedOn \cup {row.node}) = Cardinality(row.failedOn) + 1
    BY <2>1, FS_AddElement
  <2>4. Cardinality(row.failedOn) \in Nat
    BY <2>1, FS_CardinalityType
  <2>5. new.failedOn = row.failedOn \cup {row.node}
    BY <1>0, <1>3 DEF Failed, Unassigned, Row
  <2>6. CASE row.retries + 1 < MaxRetries
    <3>1. new.state = "pending" /\ new.node = None
      BY <1>0, <1>3, <2>6 DEF Failed, Unassigned, Row
    <3>2. Disturbed!Fail(StatusOf(row), StatusOf(new))
      BY <1>3, <2>5, <3>1 DEF Disturbed!Fail, StatusOf, StatusState
    <3>3. QED  BY <3>2
  <2>7. CASE ~(row.retries + 1 < MaxRetries)
    <3>1. new.state = "failed" /\ new.node = row.node
      BY <1>0, <1>3, <2>7 DEF Failed, Unassigned, Row
    <3>2. Cardinality(new.failedOn) >= MaxRetries
      <4>1. Cardinality(new.failedOn) = Cardinality(row.failedOn) + 1
        BY <2>3, <2>5
      <4>2. QED  BY <2>1, <2>2, <2>4, <2>7, <4>1
    <3>3. /\ StatusOf(row).state = "held" /\ StatusOf(row).holder = row.node
          /\ StatusOf(row).tried = row.failedOn
          /\ StatusOf(new).state = "givenUp" /\ StatusOf(new).holder = row.node
          /\ StatusOf(new).tried = new.failedOn
      BY <1>3, <3>1 DEF StatusOf, StatusState
    <3>4. Disturbed!Fail(StatusOf(row), StatusOf(new))
      BY <2>5, <3>2, <3>3, SameCardinality DEF Disturbed!Fail
    <3>5. QED  BY <3>4
  <2>8. QED  BY <2>6, <2>7
<1>4. CASE row.state = "assigned" /\ new = [row EXCEPT !.state = "completed"]
  <2>1. new.state = "completed" /\ new.node = row.node /\ new.failedOn = row.failedOn
    BY <1>0, <1>4 DEF Row
  <2>2. Disturbed!Finish(StatusOf(row), StatusOf(new))
    BY <1>4, <2>1 DEF Disturbed!Finish, StatusOf, StatusState
  <2>3. QED  BY <2>2
<1>5. CASE /\ row.state = "pending" /\ pick # None /\ pick.chunk = c
           /\ new = AssignChunk(row, pick.node, pick.epoch)
  <2>1. pick.node \in Nodes \ row.failedOn
    BY <1>5 DEF Honest, TypeOK, Pick, Blacklist, PickHolds
  <2>2. new.state = "assigned" /\ new.node = pick.node /\ new.failedOn = row.failedOn
    BY <1>0, <1>5 DEF AssignChunk, Row
  <2>3. Disturbed!Take(StatusOf(row), StatusOf(new))
    BY <1>5, <2>1, <2>2 DEF Disturbed!Take, StatusOf, StatusState
  <2>4. QED  BY <2>3
<1>6. QED  BY <1>1, <1>2, <1>3, <1>4, <1>5 DEF RowStep

\* Init of Dispatch reads as Init of the contract.
LEMMA ContractInit == Init => Disturbed!Init
BY DEF Init, FreshRow, Disturbed!Init, StatusMap, StatusOf, StatusState

\* A step of Dispatch reads as a step of the contract, on every chunk at once.
LEMMA ContractStep ==
    ASSUME "assignTo" \notin Controls, Honest, Blacklist, [Next]_vars
    PROVE  Disturbed!Next
<1>1. \A c \in Chunks : RowStep(c) /\ chunk'[c] \in Row
  BY RowSteps, TypeStep DEF Honest, TypeOK
<1>2. \A c \in Chunks : StatusMap'[c] = StatusOf(chunk'[c])
  BY DEF StatusMap
<1>3. \A c \in Chunks : \/ StatusMap'[c] = StatusMap[c]
                        \/ Disturbed!Step(StatusMap[c], StatusMap'[c])
  <2>1. ASSUME NEW c \in Chunks, Freed(chunk[c], chunk'[c])
        PROVE  Disturbed!Revoke(StatusOf(chunk[c]), StatusOf(chunk'[c]))
    BY <2>1 DEF Freed, Disturbed!Revoke, StatusOf, StatusState
  <2>2. QED
    BY <1>1, <1>2, <2>1, RowKeepsContract DEF StatusMap, Disturbed!Step
<1>4. StatusMap' \in [Chunks -> Disturbed!Status]
  BY <1>1, StatusType DEF StatusMap
<1>5. QED  BY <1>3, <1>4 DEF Disturbed!Next

\* Whatever is lost, late, repeated or interleaved, and whatever operators do
\* short of assigning chunks by hand, the chunk table keeps the contract: only
\* a holder finishes or fails a chunk, a node that failed it does not hold it
\* again, and failChunk gives up only after MaxRetries different nodes.
THEOREM DispatchKeepsContract ==
    ASSUME "assignTo" \notin Controls
    PROVE  Spec => KeepsTheLooseContract
<1>1. Init => Disturbed!Init
  BY ContractInit
<1>2. Honest /\ Blacklist /\ [Next]_vars => [Disturbed!Next]_StatusMap
  BY ContractStep
<1>3. QED
  BY <1>1, <1>2, BlacklistAlways, PTL DEF Spec, KeepsTheLooseContract, Disturbed!Spec

=============================================================================
