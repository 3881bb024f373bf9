---------------------------- MODULE FailoverProofs ----------------------------
(***************************************************************************)
(* Safety of Failover for any number of nodes and chunks, any tags and any *)
(* faults: who has a database open, and what a database may say.           *)
(***************************************************************************)
EXTENDS Failover, TLAPS, WellFoundedInduction

-----------------------------------------------------------------------------
(* The database follows the lead. *)

RoleTypes ==
    /\ wasLeader \in [Nodes -> BOOLEAN]
    /\ opening \in [Nodes -> {"idle", "restore", "open"}]
    /\ ready \in [Nodes -> BOOLEAN] /\ open \in [Nodes -> BOOLEAN]

Roles == RoleTypes /\ DatabaseFollowsLeadership

LEMMA RolesInit == Init => Roles
BY DEF Init, Roles, RoleTypes, DatabaseFollowsLeadership

\* What a node that goes down leaves behind.
LEMMA RolesDown ==
    ASSUME Roles, NEW n \in Nodes, GoesDown(n), missed' = missed
    PROVE  Roles'
BY DEF Roles, RoleTypes, DatabaseFollowsLeadership, GoesDown

LEMMA RolesStep == Roles /\ [Next]_vars => Roles'
<1> SUFFICES ASSUME Roles, [Next]_vars PROVE Roles'
  OBVIOUS
<1> USE DEF Roles, RoleTypes, DatabaseFollowsLeadership
<1>1. CASE UNCHANGED <<roleVars, missed>>
  BY <1>1 DEF roleVars
<1>2. ASSUME NEW n \in Nodes, BecomeLeader(n) PROVE Roles'
  BY <1>2 DEF BecomeLeader
<1>3. ASSUME NEW n \in Nodes, LoseLeadership(n) PROVE Roles'
  BY <1>3 DEF LoseLeadership, ThreadJoined
<1>4. ASSUME NEW n \in Nodes, MissChange(n) PROVE Roles'
  <2>1. wasLeader' \in [Nodes -> BOOLEAN]
    BY <1>4 DEF MissChange, IsLeader
  <2>2. \A m \in Nodes \ missed' : m # n /\ wasLeader'[m] = wasLeader[m]
    BY <1>4 DEF MissChange
  <2>3. QED  BY <1>4, <2>1, <2>2 DEF MissChange
<1>5. ASSUME NEW n \in Nodes, Restore(n) PROVE Roles'
  BY <1>5 DEF Restore
<1>6. ASSUME NEW n \in Nodes, RestoreFails(n) PROVE Roles'
  BY <1>6 DEF RestoreFails
<1>7. ASSUME NEW n \in Nodes, OpenLocal(n) PROVE Roles'
  BY <1>7 DEF OpenLocal
<1>8. CASE Coming
  <2>1. ASSUME NEW n \in Nodes, Crash(n) PROVE Roles'
    BY <2>1, RolesDown DEF Crash
  <2>2. ASSUME NEW n \in Nodes, Leave(n) PROVE Roles'
    BY <2>2, RolesDown DEF Leave
  <2>3. ASSUME NEW n \in Nodes, Start(n) PROVE Roles'
    BY <1>1, <2>3 DEF Start
  <2>4. QED  BY <1>8, <2>1, <2>2, <2>3 DEF Coming
<1>9. CASE Membership
  <2>1. UNCHANGED <<roleVars, missed>>
    BY <1>9 DEF Membership, BeginPass, Elect, PollAnswered, PollFailed, Heartbeat, FallsSilent
  <2>2. QED  BY <1>1, <2>1
<1>10. CASE Dispatch
  <2>1. UNCHANGED <<roleVars, missed>>
    BY <1>10 DEF Dispatch, DetectDeadWorkers, ProcessReports, TakeSnapshot, BeginCopy, EndCopy,
                 FinishRender, AssignWork, FlushReport
  <2>2. QED  BY <1>1, <2>1
<1>11. CASE UNCHANGED vars
  BY <1>1, <1>11 DEF vars
<1>12. CASE Transition
  BY <1>2, <1>3, <1>4, <1>5, <1>6, <1>7, <1>12 DEF Transition
<1>13. QED  BY <1>8, <1>9, <1>10, <1>11, <1>12 DEF Next

\* A node that has noticed that it does not lead has no database open and no
\* thread about to open one, unless it missed a change: onLoseLeadership waits
\* for m_leaderThread, and both functions compare with what they did last.
THEOREM FollowersHaveNoDatabase == Spec => []DatabaseFollowsLeadership
<1>1. Roles => DatabaseFollowsLeadership
  BY DEF Roles
<1>2. QED  BY <1>1, RolesInit, RolesStep, PTL DEF Spec

-----------------------------------------------------------------------------
(* What databases and snapshots may say. *)

\* What a database shows as completed is among the renders R.
Real(f, R) ==
    f \in Jobs => \A c \in Chunks :
        f[c].state = "completed" => <<f[c].node, c>> \in R

FileTypes ==
    /\ disk \in [Nodes -> Files \cup {None}] /\ snapshot \in Files
    /\ snapping \in [Nodes -> Files \cup {None}]

ReportTypes ==
    /\ busy \in [Nodes -> Chunks \cup {None}]
    /\ outbox \in [Nodes -> SUBSET Chunks]
    /\ inbox \in [Nodes -> SUBSET (Nodes \X Chunks)]
    /\ rendered \subseteq Nodes \X Chunks

\* Every report on its way is of a render that ended.
ReportsAreReal ==
    /\ \A m \in Nodes : \A c \in outbox[m] : <<m, c>> \in rendered
    /\ \A l \in Nodes : inbox[l] \subseteq rendered

FilesAreReal ==
    /\ \A n \in Nodes : Real(disk[n], rendered) /\ Real(snapping[n], rendered)
    /\ Real(snapshot, rendered)

Truthful == FileTypes /\ ReportTypes /\ ReportsAreReal /\ FilesAreReal

\* The three files that are not a table of rows.
LEMMA NoRows == Torn \notin Jobs /\ Empty \notin Jobs /\ None \notin Jobs
BY FailoverAssumption DEF Jobs

LEMMA TruthfulInit == Init => Truthful
<1> SUFFICES ASSUME Init PROVE Truthful
  OBVIOUS
<1>1. [c \in Chunks |-> FreshRow(0)] \in Jobs
  BY DEF Jobs, Row, FreshRow, ChunkStates
<1>2. FileTypes /\ ReportTypes /\ ReportsAreReal
  BY <1>1 DEF Init, FileTypes, ReportTypes, ReportsAreReal, Files
<1>3. Real(snapshot, rendered)
  BY DEF Init, Real, FreshRow
<1>4. FilesAreReal
  BY <1>3, NoRows DEF Init, FilesAreReal, Real
<1>5. QED  BY <1>2, <1>4 DEF Truthful

\* The statements on rows keep their type, and complete none but the row of
\* the reporting node.
LEMMA Rows ==
    ASSUME NEW row \in Row, NEW n \in Nodes, NEW dead
    PROVE  /\ AssignChunk(row, n, 0) \in Row
           /\ AssignChunk(row, n, 0).state # "completed"
           /\ ReassignDeadWorkerChunk(row, dead) \in Row
           /\ ReassignDeadWorkerChunk(row, dead).state = "completed"
                => ReassignDeadWorkerChunk(row, dead) = row
           /\ CompleteChunk(row, n, 0) \in Row
           /\ CompleteChunk(row, n, 0) = row \/ CompleteChunk(row, n, 0).node = n
BY DEF Row, ChunkStates, AssignChunk, ReassignDeadWorkerChunk, Unassigned,
       CompleteChunk, IsChunkCurrent

\* A database in which each row is as it was, open, or completed by a render.
LEMMA Rewritten ==
    ASSUME NEW f \in Jobs, NEW R, Real(f, R), NEW g \in Jobs,
           \A c \in Chunks : \/ g[c] = f[c]
                             \/ g[c].state # "completed"
                             \/ <<g[c].node, c>> \in R
    PROVE  Real(g, R)
BY DEF Real

\* A step that leaves every file as it is, or passes one on.
LEMMA Unwritten ==
    ASSUME Truthful, rendered' = rendered, FileTypes',
           \A n \in Nodes :
             /\ \/ disk'[n] = disk[n] \/ disk'[n] = snapshot
                \/ disk'[n] \in {Empty, Torn, None}
             /\ \/ snapping'[n] = snapping[n] \/ snapping'[n] = disk[n]
                \/ snapping'[n] = None,
           \/ snapshot' = snapshot \/ snapshot' = Torn
           \/ \E n \in Nodes : snapshot' = snapping[n]
    PROVE  FilesAreReal'
BY NoRows DEF Truthful, FilesAreReal, Real

\* A step that writes rows of one database.
LEMMA Written ==
    ASSUME Truthful, NEW l \in Nodes, disk[l] \in Jobs, NEW g \in Jobs,
           disk' = [disk EXCEPT ![l] = g], rendered \subseteq rendered',
           UNCHANGED <<snapping, snapshot>>,
           \A c \in Chunks : \/ g[c] = disk[l][c]
                             \/ g[c].state # "completed"
                             \/ <<g[c].node, c>> \in rendered'
    PROVE  FileTypes' /\ FilesAreReal'
<1>1. \A f : Real(f, rendered) => Real(f, rendered')
  BY DEF Real
<1>2. Real(g, rendered')
  BY <1>1, Rewritten DEF Truthful, FilesAreReal
<1>3. disk'[l] = g /\ \A n \in Nodes \ {l} : disk'[n] = disk[n]
  BY DEF Truthful, FileTypes
<1>4. FilesAreReal'
  BY <1>1, <1>2, <1>3 DEF Truthful, FilesAreReal
<1>5. FileTypes'
  BY DEF Truthful, FileTypes, Files
<1>6. QED  BY <1>4, <1>5

\* Renders are only added, so what is real stays real.
LEMMA Grown ==
    ASSUME Truthful, rendered \subseteq rendered', UNCHANGED <<disk, snapping, snapshot>>
    PROVE  FileTypes' /\ FilesAreReal'
BY DEF Truthful, FileTypes, FilesAreReal, Real

LEMMA TruthfulStep == Truthful /\ [Next]_vars => Truthful'
<1> SUFFICES ASSUME Truthful, [Next]_vars PROVE Truthful'
  OBVIOUS
<1> USE DEF Truthful
<1>1. CASE UNCHANGED <<disk, snapshot, snapping, workVars>>
  BY <1>1 DEF workVars, FileTypes, ReportTypes, ReportsAreReal, FilesAreReal, Real
<1>2. CASE Membership
  BY <1>1, <1>2 DEF Membership, BeginPass, Elect, PollAnswered, PollFailed, Heartbeat,
                    FallsSilent, shareVars
<1>3. CASE Transition
  <2>1. ASSUME NEW n \in Nodes, BecomeLeader(n) \/ LoseLeadership(n) \/ MissChange(n)
                                 \/ RestoreFails(n)
        PROVE  Truthful'
    BY <1>1, <2>1 DEF BecomeLeader, LoseLeadership, MissChange, RestoreFails, shareVars
  <2>2. ASSUME NEW n \in Nodes, Restore(n) \/ OpenLocal(n) PROVE Truthful'
    <3>1. /\ UNCHANGED <<workVars, snapping, snapshot>>
          /\ \/ disk' = [disk EXCEPT ![n] = snapshot]
             \/ disk' = [disk EXCEPT ![n] = Empty] \/ disk' = disk
      BY <2>2 DEF Restore, OpenLocal, shareVars, FileTypes
    <3>2. FileTypes' /\ ReportTypes' /\ ReportsAreReal'
      BY <3>1 DEF FileTypes, ReportTypes, ReportsAreReal, workVars, Files
    <3>3. FilesAreReal'
      BY <3>1, <3>2, Unwritten DEF workVars, FileTypes
    <3>4. QED  BY <3>2, <3>3
  <2>3. QED  BY <1>3, <2>1, <2>2 DEF Transition
<1>4. CASE Dispatch
  <2>1. ASSUME NEW l \in Nodes, NEW m \in Nodes, NEW c \in Chunks, AssignWork(l, m, c)
        PROVE  Truthful'
    <3> DEFINE g == [disk[l] EXCEPT ![c] = AssignChunk(disk[l][c], m, 0)]
    <3>1. /\ disk[l] \in Jobs /\ disk' = [disk EXCEPT ![l] = g]
          /\ UNCHANGED <<snapping, snapshot, outbox, inbox, rendered>>
          /\ busy' = [busy EXCEPT ![m] = c]
      BY <2>1 DEF AssignWork, shareVars
    <3>2. disk[l][c] \in Row
      BY <3>1 DEF Jobs
    <3>3. g \in Jobs /\ \A d \in Chunks : g[d] = disk[l][d] \/ g[d].state # "completed"
      BY <3>1, <3>2, Rows DEF Jobs
    <3>4. FileTypes' /\ FilesAreReal'
      BY <3>1, <3>3, Written
    <3>5. ReportTypes' /\ ReportsAreReal'
      BY <3>1 DEF ReportTypes, ReportsAreReal
    <3>6. QED  BY <3>4, <3>5
  <2>2. ASSUME NEW l \in Nodes, DetectDeadWorkers(l) PROVE Truthful'
    <3> DEFINE dead == Known(l) \ Alive(l)
               g == [c \in Chunks |-> ReassignDeadWorkerChunk(disk[l][c], dead)]
    <3>1. /\ disk[l] \in Jobs /\ disk' = [disk EXCEPT ![l] = g]
          /\ UNCHANGED <<workVars, snapping, snapshot>>
      BY <2>2 DEF DetectDeadWorkers, shareVars
    <3>2. \A c \in Chunks : disk[l][c] \in Row
      BY <3>1 DEF Jobs
    <3>3. g \in Jobs /\ \A c \in Chunks : g[c] = disk[l][c] \/ g[c].state # "completed"
      BY <3>2, Rows DEF Jobs
    <3>4. FileTypes' /\ FilesAreReal'
      BY <3>1, <3>3, Written DEF workVars
    <3>5. ReportTypes' /\ ReportsAreReal'
      BY <3>1 DEF ReportTypes, ReportsAreReal, workVars
    <3>6. QED  BY <3>4, <3>5
  <2>3. ASSUME NEW l \in Nodes, ProcessReports(l) PROVE Truthful'
    <3>1. /\ UNCHANGED <<snapping, snapshot, busy, outbox, rendered>>
          /\ inbox' = [inbox EXCEPT ![l] = {}]
      BY <2>3 DEF ProcessReports, shareVars
    <3>2. ReportTypes' /\ ReportsAreReal'
      BY <3>1 DEF ReportTypes, ReportsAreReal
    <3>3. CASE disk[l] \notin Jobs
      BY <2>3, <3>1, <3>2, <3>3, Grown DEF ProcessReports
    <3>4. CASE disk[l] \in Jobs
      <4> DEFINE Reported(c) == \E m \in Nodes : /\ <<m, c>> \in inbox[l]
                                                 /\ IsChunkCurrent(disk[l][c], m, 0)
                 g == [c \in Chunks |-> IF Reported(c)
                                        THEN CompleteChunk(disk[l][c], disk[l][c].node, 0)
                                        ELSE disk[l][c]]
      <4>1. disk' = [disk EXCEPT ![l] = g]
        BY <2>3, <3>4 DEF ProcessReports
      <4>2. ASSUME NEW c \in Chunks
            PROVE  g[c] \in Row /\ (g[c] = disk[l][c] \/ <<g[c].node, c>> \in rendered)
        <5>1. disk[l][c] \in Row
          BY <3>4 DEF Jobs
        <5>2. ASSUME Reported(c) PROVE disk[l][c].node \in Nodes
                                       /\ <<disk[l][c].node, c>> \in rendered
          BY <5>2 DEF IsChunkCurrent, ReportsAreReal
        <5>3. QED  BY <5>1, <5>2, Rows
      <4>3. g \in Jobs
        BY <4>2 DEF Jobs
      <4>4. FileTypes' /\ FilesAreReal'
        BY <3>1, <3>4, <4>1, <4>2, <4>3, Written
      <4>5. QED  BY <3>2, <4>4
    <3>5. QED  BY <3>3, <3>4
  <2>4. ASSUME NEW l \in Nodes, TakeSnapshot(l) \/ BeginCopy(l) \/ EndCopy(l)
        PROVE  Truthful'
    <3>1. /\ UNCHANGED <<workVars, disk>>
          /\ \/ snapping' = [snapping EXCEPT ![l] = disk[l]] /\ snapshot' = snapshot
             \/ snapping' = snapping /\ snapshot' = Torn
             \/ /\ snapping' = [snapping EXCEPT ![l] = None]
                /\ snapping[l] # None /\ snapshot' = snapping[l]
      BY <2>4 DEF TakeSnapshot, BeginCopy, EndCopy, BackedUp, shareVars
    <3>2. FileTypes' /\ ReportTypes' /\ ReportsAreReal'
      BY <3>1 DEF FileTypes, ReportTypes, ReportsAreReal, workVars, Files
    <3>3. FilesAreReal'
      BY <3>1, <3>2, Unwritten DEF workVars, FileTypes
    <3>4. QED  BY <3>2, <3>3
  <2>5. ASSUME NEW m \in Nodes, FinishRender(m) PROVE Truthful'
    <3> DEFINE c == busy[m]
               g == [disk[m] EXCEPT ![c] = CompleteChunk(disk[m][c], m, 0)]
    <3>1. /\ c \in Chunks /\ rendered' = rendered \cup {<<m, c>>}
          /\ busy' = [busy EXCEPT ![m] = None]
          /\ outbox' = outbox \/ outbox' = [outbox EXCEPT ![m] = outbox[m] \cup {c}]
          /\ UNCHANGED <<snapping, snapshot, inbox>>
          /\ \/ disk' = disk
             \/ disk[m] \in Jobs /\ disk' = [disk EXCEPT ![m] = g]
      BY <2>5 DEF FinishRender, shareVars, ReportTypes
    <3>2. ReportTypes' /\ ReportsAreReal'
      BY <3>1 DEF ReportTypes, ReportsAreReal
    <3>3. CASE disk' = disk
      BY <3>1, <3>2, <3>3, Grown
    <3>4. CASE disk[m] \in Jobs /\ disk' = [disk EXCEPT ![m] = g]
      <4>1. disk[m][c] \in Row
        BY <3>1, <3>4 DEF Jobs
      <4>2. /\ g \in Jobs
            /\ \A d \in Chunks : g[d] = disk[m][d] \/ <<g[d].node, d>> \in rendered'
        BY <3>1, <3>4, <4>1, Rows DEF Jobs
      <4>3. FileTypes' /\ FilesAreReal'
        BY <3>1, <3>4, <4>2, Written
      <4>4. QED  BY <3>2, <4>3
    <3>5. QED  BY <3>1, <3>3, <3>4
  <2>6. ASSUME NEW l \in Nodes, NEW m \in Nodes, NEW c \in Chunks, FlushReport(m, l, c)
        PROVE  Truthful'
    <3>1. /\ UNCHANGED <<disk, snapping, snapshot, busy, rendered>>
          /\ c \in outbox[m] /\ outbox' = [outbox EXCEPT ![m] = outbox[m] \ {c}]
          /\ inbox' = inbox \/ inbox' = [inbox EXCEPT ![l] = inbox[l] \cup {<<m, c>>}]
      BY <2>6 DEF FlushReport, shareVars, ReportTypes
    <3>2. ReportTypes' /\ ReportsAreReal'
      BY <3>1 DEF ReportTypes, ReportsAreReal
    <3>3. QED  BY <3>1, <3>2, Grown
  <2>7. QED  BY <1>4, <2>1, <2>2, <2>3, <2>4, <2>5, <2>6 DEF Dispatch
<1>5. CASE Coming
  <2>1. ASSUME NEW n \in Nodes, Start(n) PROVE Truthful'
    BY <1>1, <2>1 DEF Start, shareVars
  <2>2. ASSUME NEW n \in Nodes, Crash(n) \/ Leave(n) PROVE Truthful'
    <3>1. /\ UNCHANGED <<disk, snapshot, rendered>>
          /\ snapping' = [snapping EXCEPT ![n] = None]
          /\ busy' = [busy EXCEPT ![n] = None]
          /\ outbox' = [outbox EXCEPT ![n] = {}] /\ inbox' = [inbox EXCEPT ![n] = {}]
      BY <2>2 DEF Crash, Leave, GoesDown, shareVars
    <3>2. FileTypes' /\ ReportTypes' /\ ReportsAreReal'
      BY <3>1 DEF FileTypes, ReportTypes, ReportsAreReal
    <3>3. FilesAreReal'
      BY <3>1, <3>2, Unwritten DEF FileTypes
    <3>4. QED  BY <3>2, <3>3
  <2>3. QED  BY <1>5, <2>1, <2>2 DEF Coming
<1>6. CASE UNCHANGED vars
  BY <1>1, <1>6 DEF vars, shareVars
<1>7. QED  BY <1>2, <1>3, <1>4, <1>5, <1>6 DEF Next

\* However often the lead changes, whoever leads at once and whatever restored
\* file is older than the reports that reach it: no database and no snapshot
\* shows a chunk completed by a node that did not render it, because a report
\* completes the row of its own node only.
THEOREM NothingInvented == Spec => []CompletionsAreReal
<1>1. Truthful => CompletionsAreReal
  BY DEF Truthful, FilesAreReal, CompletionsAreReal, Real
<1>2. QED  BY <1>1, TruthfulInit, TruthfulStep, PTL DEF Spec

-----------------------------------------------------------------------------
(* Type correctness.  Two facts are needed besides the types: a pass polls *)
(* only peers it has entries of, and an open database is no torn file.     *)

PeerTypes ==
    /\ up \subseteq Nodes /\ endpoint \subseteq Nodes
    /\ peers \in [Nodes -> [Nodes -> Peer \cup {None}]]
    /\ toPoll \in [Nodes -> (SUBSET Nodes) \cup {None}]
    /\ leader \in [Nodes -> Nodes \cup {None}]

PolledAreKnown ==
    \A n \in Nodes : toPoll[n] # None => \A p \in toPoll[n] : peers[n][p] \in Peer

PassTypes == PeerTypes /\ PolledAreKnown

CountTypes == missed \subseteq Nodes /\ mishaps \in 0 .. MaxMishaps /\ taken \in 0 .. MaxSnapshots

OpenAreWhole ==
    /\ \A n \in Nodes : open[n] => disk[n] \in Jobs \cup {Empty}
    /\ snapping \in [Nodes -> Jobs \cup {Empty, None}]

LEMMA CountTypesKept == CountTypes /\ [Next]_vars => CountTypes'
<1> SUFFICES ASSUME CountTypes, [Next]_vars PROVE CountTypes'
  OBVIOUS
<1> USE DEF CountTypes
<1>1. ASSUME NEW f PROVE Mishap(f) => mishaps' \in 0 .. MaxMishaps
  BY FailoverAssumption DEF Mishap
<1>2. CASE Membership
  BY <1>1, <1>2 DEF Membership, BeginPass, Elect, PollAnswered, PollFailed, Heartbeat, FallsSilent
<1>3. CASE Transition
  BY <1>1, <1>3 DEF Transition, BecomeLeader, LoseLeadership, MissChange, Restore, RestoreFails,
                    OpenLocal
<1>4. CASE Dispatch
  <2>1. ASSUME NEW l \in Nodes, TakeSnapshot(l) PROVE CountTypes'
    BY <2>1, FailoverAssumption DEF TakeSnapshot
  <2>2. ASSUME NEW l \in Nodes, \/ DetectDeadWorkers(l) \/ ProcessReports(l) \/ BeginCopy(l)
                                \/ EndCopy(l) \/ FinishRender(l)
        PROVE  CountTypes'
    BY <2>2 DEF DetectDeadWorkers, ProcessReports, BeginCopy, EndCopy, FinishRender
  <2>3. ASSUME NEW l \in Nodes, NEW m \in Nodes, NEW c \in Chunks,
               AssignWork(l, m, c) \/ FlushReport(m, l, c)
        PROVE  CountTypes'
    BY <2>3 DEF AssignWork, FlushReport
  <2>4. QED  BY <1>4, <2>1, <2>2, <2>3 DEF Dispatch
<1>5. CASE Coming
  BY <1>1, <1>5 DEF Coming, Crash, Leave, Start
<1>6. CASE UNCHANGED vars
  BY <1>6 DEF vars
<1>7. QED  BY <1>2, <1>3, <1>4, <1>5, <1>6 DEF Next

\* What polls, heartbeats and silence write into an entry of m_peers.
LEMMA PeerEntries ==
    ASSUME NEW peer \in Peer
    PROVE  /\ Polled(peer) \in Peer /\ Heard(peer) \in Peer /\ FailPoll(peer) \in Peer
           /\ [peer EXCEPT !.heard = FALSE] \in Peer
           /\ [peer EXCEPT !.alive = FALSE, !.heard = FALSE] \in Peer
<1>1. FailPoll(peer) \in Peer
  <2>1. PICK failed : failed = IF peer.failed < DeadAfter THEN peer.failed + 1 ELSE DeadAfter
    OBVIOUS
  <2>2. failed \in 0 .. DeadAfter
    BY <2>1, FailoverAssumption DEF Peer
  <2>3. PICK alive : alive = (peer.alive /\ (failed < DeadAfter \/ peer.heard))
    OBVIOUS
  <2>4. alive \in BOOLEAN
    BY <2>3
  <2>5. FailPoll(peer) = [peer EXCEPT !.failed = failed, !.alive = alive]
    BY <2>1, <2>3 DEF FailPoll
  <2>6. QED  BY <2>2, <2>4, <2>5 DEF Peer
<1>2. 0 \in 0 .. DeadAfter
  BY FailoverAssumption
<1>3. Polled(peer) \in Peer /\ Heard(peer) \in Peer
  BY <1>2 DEF Peer, Polled, Heard
<1>4. [peer EXCEPT !.heard = FALSE] \in Peer
  BY DEF Peer
<1>5. [peer EXCEPT !.alive = FALSE, !.heard = FALSE] \in Peer
  BY DEF Peer
<1>6. QED  BY <1>1, <1>3, <1>4, <1>5

\* One entry of one node's list is overwritten.
LEMMA OneEntry ==
    ASSUME PassTypes, NEW n \in Nodes, NEW p \in Nodes, NEW peer \in Peer,
           peers' = [peers EXCEPT ![n][p] = peer], UNCHANGED <<up, endpoint, leader>>,
           toPoll' = toPoll \/ (toPoll[n] # None /\ toPoll' = [toPoll EXCEPT ![n] = @ \ {p}])
    PROVE  PassTypes'
<1>1. /\ peers' \in [Nodes -> [Nodes -> Peer \cup {None}]] /\ peers'[n][p] = peer
      /\ \A m, q \in Nodes : m # n \/ q # p => peers'[m][q] = peers[m][q]
  BY DEF PassTypes, PeerTypes
<1>2. toPoll' \in [Nodes -> (SUBSET Nodes) \cup {None}]
  <2>1. toPoll \in [Nodes -> (SUBSET Nodes) \cup {None}]
    BY DEF PassTypes, PeerTypes
  <2>2. CASE toPoll' = toPoll
    BY <2>1, <2>2
  <2>3. CASE toPoll[n] # None /\ toPoll' = [toPoll EXCEPT ![n] = @ \ {p}]
    <3>1. toPoll[n] \in SUBSET Nodes
      BY <2>1, <2>3
    <3>2. toPoll[n] \ {p} \in SUBSET Nodes
      BY <3>1
    <3>3. PICK T : T = toPoll[n] \ {p}
      OBVIOUS
    <3>4. T \in (SUBSET Nodes) \cup {None} /\ toPoll' = [toPoll EXCEPT ![n] = T]
      BY <2>3, <3>2, <3>3
    <3>5. QED  BY ONLY <2>1, <3>4
  <2>4. QED  BY <2>2, <2>3
<1>3. \A m \in Nodes : toPoll'[m] # None => toPoll[m] # None /\ toPoll'[m] \subseteq toPoll[m]
                                            /\ toPoll[m] \subseteq Nodes
  <2>1. toPoll \in [Nodes -> (SUBSET Nodes) \cup {None}]
    BY DEF PassTypes, PeerTypes
  <2>2. \A m \in Nodes : toPoll[m] # None => toPoll[m] \subseteq Nodes
    BY <2>1
  <2>3. ASSUME NEW m \in Nodes, toPoll'[m] # None
        PROVE  toPoll[m] # None /\ toPoll'[m] \subseteq toPoll[m]
    <3>1. CASE toPoll' = toPoll
      BY <2>3, <3>1
    <3>2. CASE toPoll[n] # None /\ toPoll' = [toPoll EXCEPT ![n] = @ \ {p}]
      BY <2>1, <2>3, <3>2
    <3>3. QED  BY <3>1, <3>2
  <2>4. QED  BY <2>2, <2>3
<1>4. PolledAreKnown'
  <2> SUFFICES ASSUME NEW m \in Nodes, toPoll'[m] # None, NEW q \in toPoll'[m]
               PROVE  peers'[m][q] \in Peer
    BY DEF PolledAreKnown
  <2>1. q \in toPoll[m] /\ q \in Nodes /\ peers[m][q] \in Peer
    BY <1>3 DEF PassTypes, PolledAreKnown
  <2>2. QED  BY <1>1, <2>1
<1>5. QED  BY <1>1, <1>2, <1>4 DEF PassTypes, PeerTypes

LEMMA LeastNumber ==
    ASSUME NEW T \in SUBSET Nat, T # {}
    PROVE  \E x \in T : \A y \in T : x <= y
<1>1. \E x \in T : \A y \in T : ~(<<y, x>> \in OpToRel(<, Nat))
  BY Zenon, NatLessThanWellFounded, WFMin
<1>2. PICK x \in T : \A y \in T : ~(y < x)
  BY <1>1 DEF OpToRel
<1>3. \A y \in T : x <= y
  BY <1>2
<1>4. QED  BY <1>3

\* recomputeLeader elects one of the candidates: ranks and ids are compared
\* like numbers, so among any candidates there is a best one.
LEMMA ElectedIsCandidate ==
    ASSUME NEW n \in Nodes, NEW C \in SUBSET Nodes, C # {}
    PROVE  Elected(n, C) \in C
<1> DEFINE rank(c) == Rank(TagKnown(n, c))
<1>1. \A c \in C : rank(c) \in Nat
  BY DEF Rank
<1>2. PICK r \in {rank(c) : c \in C} : \A x \in {rank(c) : c \in C} : r <= x
  <2>1. {rank(c) : c \in C} \in SUBSET Nat /\ {rank(c) : c \in C} # {}
    BY <1>1
  <2>2. QED  BY <2>1, LeastNumber
<1> HIDE DEF rank
<1>3. PICK b \in {c \in C : rank(c) = r} : \A x \in {c \in C : rank(c) = r} : b <= x
  <2>1. {c \in C : rank(c) = r} \in SUBSET Nat /\ {c \in C : rank(c) = r} # {}
    BY <1>2, FailoverAssumption
  <2>2. QED  BY <2>1, LeastNumber
<1>4. ASSUME NEW d \in C PROVE rank(b) < rank(d) \/ (rank(b) = rank(d) /\ b <= d)
  <2>1. rank(b) = r /\ r <= rank(d) /\ r \in Nat /\ rank(d) \in Nat
    BY <1>1, <1>2, <1>3
  <2>2. CASE rank(d) = r
    BY <1>3, <2>1, <2>2
  <2>3. CASE rank(d) # r
    BY <2>1, <2>3
  <2>4. QED  BY <2>2, <2>3
<1>5. \E c \in C : \A d \in C : rank(c) < rank(d) \/ (rank(c) = rank(d) /\ c <= d)
  BY <1>3, <1>4
<1>6. Elected(n, C) = CHOOSE c \in C : \A d \in C : rank(c) < rank(d) \/ (rank(c) = rank(d) /\ c <= d)
  BY DEF Elected, rank
<1>7. QED  BY <1>5, <1>6

LEMMA PassTypesKept == PassTypes /\ [Next]_vars => PassTypes'
<1> SUFFICES ASSUME PassTypes, [Next]_vars PROVE PassTypes'
  OBVIOUS
<1>1. UNCHANGED <<up, endpoint, peerVars>> => PassTypes'
  BY DEF PassTypes, PeerTypes, PolledAreKnown, peerVars
<1>2. \A n, p \in Nodes : peers[n][p] # None => peers[n][p] \in Peer
  BY DEF PassTypes, PeerTypes
<1>3. ASSUME NEW n \in Nodes, NEW p \in Nodes, PollAnswered(n, p) PROVE PassTypes'
  <2>1. peers[n][p] \in Peer
    BY <1>3 DEF PollAnswered, PassTypes, PolledAreKnown
  <2>2. Polled(peers[n][p]) \in Peer
    BY Zenon, <2>1, PeerEntries
  <2>3. peers' = [peers EXCEPT ![n][p] = Polled(peers[n][p])]
    BY <1>3 DEF PollAnswered, PassTypes, PeerTypes
  <2>4. QED  BY <1>3, <2>2, <2>3, OneEntry DEF PollAnswered, shareVars
<1>4. ASSUME NEW n \in Nodes, NEW p \in Nodes, PollFailed(n, p) PROVE PassTypes'
  <2>1. peers[n][p] \in Peer
    BY <1>4 DEF PollFailed, PassTypes, PolledAreKnown
  <2>2. FailPoll(peers[n][p]) \in Peer
    BY Zenon, <2>1, PeerEntries
  <2>3. peers' = [peers EXCEPT ![n][p] = FailPoll(peers[n][p])]
    BY <1>4 DEF PollFailed, PassTypes, PeerTypes
  <2>4. QED  BY <1>4, <2>2, <2>3, OneEntry DEF PollFailed, shareVars
<1>5. ASSUME NEW n \in Nodes, NEW p \in Nodes, Heartbeat(n, p) PROVE PassTypes'
  <2>1. peers[n][p] \in Peer
    BY <1>2, <1>5 DEF Heartbeat, Known
  <2>2. Heard(peers[n][p]) \in Peer
    BY Zenon, <2>1, PeerEntries
  <2>3. peers' = [peers EXCEPT ![n][p] = Heard(peers[n][p])]
    BY <1>5 DEF Heartbeat, PassTypes, PeerTypes
  <2>4. QED  BY <1>5, <2>2, <2>3, OneEntry DEF Heartbeat, shareVars
<1>6. ASSUME NEW n \in Nodes, NEW p \in Nodes, FallsSilent(n, p) PROVE PassTypes'
  <2>1. peers[n][p] \in Peer
    BY <1>2, <1>6 DEF FallsSilent, Known
  <2>2. [peers[n][p] EXCEPT !.heard = FALSE] \in Peer
    BY Zenon, <2>1, PeerEntries
  <2>3. peers' = [peers EXCEPT ![n][p] = [peers[n][p] EXCEPT !.heard = FALSE]]
    BY <1>6 DEF FallsSilent, PassTypes, PeerTypes
  <2>4. QED  BY <1>6, <2>2, <2>3, OneEntry DEF FallsSilent, shareVars
<1>7. ASSUME NEW n \in Nodes, BeginPass(n) PROVE PassTypes'
  <2> DEFINE found == (endpoint \ {n}) \ Known(n)
             list == [p \in Nodes |-> IF p \in found THEN NewPeer ELSE peers[n][p]]
  <2>1. peers' = [peers EXCEPT ![n] = list] /\ endpoint' = endpoint \cup {n}
        /\ UNCHANGED <<up, leader>>
    BY Zenon, <1>7 DEF BeginPass
  <2>2. PICK skipped : toPoll' = [toPoll EXCEPT ![n] = (Known(n) \cup found) \ skipped]
    BY Zenon, <1>7 DEF BeginPass
  <2>3. PICK T : T = (Known(n) \cup found) \ skipped
    OBVIOUS
  <2>4. NewPeer \in Peer
    BY FailoverAssumption DEF NewPeer, Peer
  <2>5. T \subseteq Nodes /\ \A p \in T : list[p] \in Peer
    BY <1>2, <2>3, <2>4 DEF Known, PassTypes, PeerTypes
  <2>6. list \in [Nodes -> Peer \cup {None}]
    BY <2>4 DEF PassTypes, PeerTypes
  <2> HIDE DEF list
  <2>7. /\ peers'[n] = list /\ \A m \in Nodes : m # n => peers'[m] = peers[m]
        /\ toPoll'[n] = T /\ \A m \in Nodes : m # n => toPoll'[m] = toPoll[m]
    BY <2>1, <2>2, <2>3 DEF PassTypes, PeerTypes
  <2>8. PolledAreKnown'
    BY <2>5, <2>7 DEF PassTypes, PolledAreKnown
  <2>9. PeerTypes'
    BY <2>1, <2>2, <2>3, <2>5, <2>6 DEF PassTypes, PeerTypes
  <2>10. QED  BY <2>8, <2>9 DEF PassTypes
<1>8. ASSUME NEW n \in Nodes, Elect(n) PROVE PassTypes'
  <2> DEFINE list == [p \in Nodes |-> IF p \in Known(n) \ Alive(n) /\ p \notin endpoint
                                      THEN None ELSE peers[n][p]]
  <2>1. /\ peers' = [peers EXCEPT ![n] = list] /\ toPoll' = [toPoll EXCEPT ![n] = None]
        /\ leader' = [leader EXCEPT ![n] = Elected(n, Candidates(n))]
        /\ UNCHANGED <<up, endpoint>>
    BY Zenon, <1>8 DEF Elect, shareVars
  <2>2. Elected(n, Candidates(n)) \in Nodes
    BY ElectedIsCandidate DEF Candidates, Alive, Known
  <2>3. list \in [Nodes -> Peer \cup {None}]
    BY DEF PassTypes, PeerTypes
  <2> HIDE DEF list
  <2>4. /\ \A m \in Nodes : m # n => peers'[m] = peers[m] /\ toPoll'[m] = toPoll[m]
        /\ toPoll'[n] = None
    BY <2>1 DEF PassTypes, PeerTypes
  <2>5. PolledAreKnown'
    BY <2>4 DEF PassTypes, PolledAreKnown
  <2>6. PeerTypes'
    BY <2>1, <2>2, <2>3 DEF PassTypes, PeerTypes
  <2>7. QED  BY <2>5, <2>6 DEF PassTypes
<1>9. NoPeers \in [Nodes -> Peer \cup {None}]
  BY DEF NoPeers
<1>10. ASSUME NEW n \in Nodes, Crash(n) PROVE PassTypes'
  <2>1. /\ peers' = [peers EXCEPT ![n] = NoPeers] /\ toPoll' = [toPoll EXCEPT ![n] = None]
        /\ leader' = [leader EXCEPT ![n] = None] /\ up' = up \ {n} /\ endpoint' = endpoint
    BY <1>10 DEF Crash, GoesDown, shareVars
  <2>2. /\ \A m \in Nodes : m # n => peers'[m] = peers[m] /\ toPoll'[m] = toPoll[m]
        /\ toPoll'[n] = None
    BY <2>1 DEF PassTypes, PeerTypes
  <2>3. PolledAreKnown'
    BY <2>2 DEF PassTypes, PolledAreKnown
  <2>4. PeerTypes'
    BY <1>9, <2>1 DEF PassTypes, PeerTypes
  <2>5. QED  BY <2>3, <2>4 DEF PassTypes
<1>11. ASSUME NEW n \in Nodes, Leave(n) PROVE PassTypes'
  <2>1. /\ toPoll' = [toPoll EXCEPT ![n] = None] /\ endpoint' = endpoint \ {n}
        /\ leader' = [leader EXCEPT ![n] = None] /\ up' = up \ {n}
    BY <1>11 DEF Leave, GoesDown
  <2>2. PICK hearing \in SUBSET {m \in up : Reaches(n, m) /\ n \in Known(m)} :
          peers' = Goodbye(n, hearing)
    BY Zenon, <1>11 DEF Leave
  <2>3. ASSUME NEW m \in Nodes, m # n
        PROVE  /\ peers'[m] \in [Nodes -> Peer \cup {None}]
               /\ \A q \in Nodes : peers[m][q] \in Peer => peers'[m][q] \in Peer
    <3>1. CASE m \in hearing
      <4>1. PICK peer : peer = [peers[m][n] EXCEPT !.alive = FALSE, !.heard = FALSE]
        OBVIOUS
      <4>2. peer \in Peer
        <5>1. m \in up /\ n \in Known(m)
          BY <2>2, <3>1
        <5>2. peers[m][n] \in Peer
          BY <1>2, <5>1 DEF Known
        <5>3. QED  BY Zenon, <4>1, <5>2, PeerEntries
      <4>3. peers'[m] = [peers[m] EXCEPT ![n].alive = FALSE, ![n].heard = FALSE]
        BY <2>2, <2>3, <3>1 DEF Goodbye
      <4>4. peers'[m] = [peers[m] EXCEPT ![n] = peer]
        BY <4>1, <4>3 DEF PassTypes, PeerTypes
      <4>5. QED  BY <4>2, <4>4 DEF PassTypes, PeerTypes
    <3>2. CASE m \notin hearing
      BY <2>2, <2>3, <3>2 DEF Goodbye, PassTypes, PeerTypes
    <3>3. QED  BY <3>1, <3>2
  <2>4. peers' = [m \in Nodes |-> peers'[m]] /\ peers'[n] = NoPeers
    BY Zenon, <2>2 DEF Goodbye
  <2>5. \A m \in Nodes : peers'[m] \in [Nodes -> Peer \cup {None}]
    BY <1>9, <2>3, <2>4
  <2>6. peers' \in [Nodes -> [Nodes -> Peer \cup {None}]]
    BY <2>4, <2>5
  <2>7. PeerTypes'
    BY <2>1, <2>6 DEF PassTypes, PeerTypes
  <2>8. toPoll'[n] = None /\ \A m \in Nodes : m # n => toPoll'[m] = toPoll[m]
    BY <2>1 DEF PassTypes, PeerTypes
  <2>9. \A m \in Nodes : toPoll[m] # None => toPoll[m] \subseteq Nodes
    BY DEF PassTypes, PeerTypes
  <2>10. PolledAreKnown'
    BY <2>3, <2>8, <2>9 DEF PassTypes, PolledAreKnown
  <2>11. QED  BY <2>7, <2>10 DEF PassTypes
<1>12. CASE Membership
  BY <1>3, <1>4, <1>5, <1>6, <1>7, <1>8, <1>12 DEF Membership
<1>13. CASE Transition
  BY <1>1, <1>13 DEF Transition, BecomeLeader, LoseLeadership, MissChange, Restore, RestoreFails,
                     OpenLocal, shareVars
<1>14. CASE Dispatch
  <2>1. UNCHANGED <<up, endpoint, peerVars>>
    BY <1>14 DEF Dispatch, DetectDeadWorkers, ProcessReports, TakeSnapshot, BeginCopy, EndCopy,
                 FinishRender, AssignWork, FlushReport, shareVars
  <2>2. QED  BY <1>1, <2>1
<1>15. ASSUME NEW n \in Nodes, Start(n) PROVE PassTypes'
  BY <1>15 DEF Start, shareVars, peerVars, PassTypes, PeerTypes, PolledAreKnown
<1>16. CASE UNCHANGED vars
  BY <1>1, <1>16 DEF vars, shareVars
<1>17. CASE Coming
  BY <1>10, <1>11, <1>15, <1>17 DEF Coming
<1>18. QED  BY <1>12, <1>13, <1>14, <1>16, <1>17 DEF Next

\* A node whose database is open has a readable file, and only that is backed
\* up: nothing but a restore or the opening itself puts a file in its place.
LEMMA OpenAreWholeKept == Truthful /\ Roles /\ OpenAreWhole /\ [Next]_vars => OpenAreWhole'
<1> SUFFICES ASSUME Truthful, Roles, OpenAreWhole, [Next]_vars PROVE OpenAreWhole'
  OBVIOUS
<1> DEFINE Whole == Jobs \cup {Empty}
<1>1. /\ disk \in [Nodes -> Files \cup {None}] /\ snapshot \in Files
      /\ open \in [Nodes -> BOOLEAN] /\ snapping \in [Nodes -> Whole \cup {None}]
      /\ \A n \in Nodes : open[n] => disk[n] \in Whole
  BY DEF Truthful, FileTypes, Roles, RoleTypes, OpenAreWhole
<1>2. FileTypes' /\ Truthful'
  BY TruthfulStep DEF Truthful
<1>3. ASSUME \A n \in Nodes : open'[n] => open[n], UNCHANGED <<disk, snapping>>
      PROVE  OpenAreWhole'
  BY <1>1, <1>3 DEF OpenAreWhole
<1>4. CASE Membership
  BY <1>3, <1>4 DEF Membership, BeginPass, Elect, PollAnswered, PollFailed, Heartbeat,
                    FallsSilent, roleVars
<1>5. ASSUME NEW n \in Nodes, BecomeLeader(n) \/ LoseLeadership(n) \/ MissChange(n)
                              \/ RestoreFails(n)
      PROVE  OpenAreWhole'
  BY <1>1, <1>3, <1>5 DEF BecomeLeader, LoseLeadership, MissChange, RestoreFails
<1>6. ASSUME NEW n \in Nodes, Restore(n) PROVE OpenAreWhole'
  <2>1. /\ disk' = [disk EXCEPT ![n] = snapshot] /\ snapping' = snapping
        /\ open' = [open EXCEPT ![n] = snapshot # Torn]
    BY <1>6 DEF Restore
  <2>2. snapshot # Torn => snapshot \in Whole
    BY <1>1 DEF Files
  <2>3. QED  BY <1>1, <2>1, <2>2 DEF OpenAreWhole
<1>7. ASSUME NEW n \in Nodes, OpenLocal(n) PROVE OpenAreWhole'
  <2>1. /\ disk' = [disk EXCEPT ![n] = IF disk[n] = None THEN Empty ELSE disk[n]]
        /\ open' = [open EXCEPT ![n] = disk[n] # Torn] /\ snapping' = snapping
    BY <1>1, <1>7 DEF OpenLocal
  <2>2. disk[n] # Torn => disk'[n] \in Whole
    BY <1>1, <2>1 DEF Files
  <2>3. QED  BY <1>1, <2>1, <2>2 DEF OpenAreWhole
<1>8. ASSUME NEW l \in Nodes, DetectDeadWorkers(l) \/ ProcessReports(l) \/ FinishRender(l)
                              \/ \E m \in Nodes, c \in Chunks : AssignWork(l, m, c)
      PROVE  OpenAreWhole'
  <2>0. disk[l] \in Jobs => \A c \in Chunks : disk[l][c] \in Row
    BY DEF Jobs
  <2>1. /\ open' = open /\ snapping' = snapping
        /\ \/ disk' = disk
           \/ \E g \in Jobs : disk' = [disk EXCEPT ![l] = g]
    <3>1. CASE DetectDeadWorkers(l)
      <4>1. PICK dead : disk' = [disk EXCEPT ![l] =
                                   [c \in Chunks |-> ReassignDeadWorkerChunk(disk[l][c], dead)]]
        BY <1>1, <3>1 DEF DetectDeadWorkers
      <4>2. disk[l] \in Jobs /\ UNCHANGED <<roleVars, snapping>>
        BY <3>1 DEF DetectDeadWorkers
      <4>3. \A c \in Chunks : ReassignDeadWorkerChunk(disk[l][c], dead) \in Row
        BY <2>0, <4>2, Rows
      <4>4. [c \in Chunks |-> ReassignDeadWorkerChunk(disk[l][c], dead)] \in Jobs
        BY <4>3 DEF Jobs
      <4>5. QED  BY <4>1, <4>2, <4>4 DEF roleVars
    <3>2. CASE ProcessReports(l)
      <4>1. UNCHANGED <<roleVars, snapping>>
        BY <3>2 DEF ProcessReports
      <4>2. CASE disk[l] \notin Jobs
        BY <3>2, <4>1, <4>2 DEF ProcessReports, roleVars
      <4>3. CASE disk[l] \in Jobs
        <5> DEFINE Reported(c) == \E m \in Nodes : /\ <<m, c>> \in inbox[l]
                                                   /\ IsChunkCurrent(disk[l][c], m, 0)
                   g == [c \in Chunks |-> IF Reported(c)
                                          THEN CompleteChunk(disk[l][c], disk[l][c].node, 0)
                                          ELSE disk[l][c]]
        <5>1. disk' = [disk EXCEPT ![l] = g]
          BY <1>1, <3>2, <4>3 DEF ProcessReports
        <5>2. ASSUME NEW c \in Chunks PROVE g[c] \in Row
          <6>1. Reported(c) => disk[l][c].node \in Nodes
            BY DEF IsChunkCurrent
          <6>2. QED  BY <2>0, <4>3, <6>1, Rows
        <5>3. g \in Jobs
          BY <5>2 DEF Jobs
        <5>4. QED  BY <4>1, <5>1, <5>3 DEF roleVars
      <4>4. QED  BY <4>2, <4>3
    <3>3. CASE FinishRender(l)
      <4> DEFINE c == busy[l]
                 g == [disk[l] EXCEPT ![c] = CompleteChunk(disk[l][c], l, 0)]
      <4>1. /\ c \in Chunks /\ UNCHANGED <<roleVars, snapping>>
            /\ \/ disk' = disk
               \/ disk[l] \in Jobs /\ disk' = [disk EXCEPT ![l] = g]
        BY <1>1, <3>3 DEF FinishRender, Truthful, ReportTypes
      <4>2. CASE disk' = disk
        BY <4>1, <4>2 DEF roleVars
      <4>3. CASE disk[l] \in Jobs /\ disk' = [disk EXCEPT ![l] = g]
        <5>1. g \in Jobs
          BY <2>0, <4>1, <4>3, Rows DEF Jobs
        <5>2. QED  BY <4>1, <4>3, <5>1 DEF roleVars
      <4>4. QED  BY <4>1, <4>2, <4>3
    <3>4. ASSUME NEW m \in Nodes, NEW c \in Chunks, AssignWork(l, m, c) PROVE <2>1!:
      <4>1. /\ disk[l] \in Jobs /\ UNCHANGED <<roleVars, snapping>>
            /\ disk' = [disk EXCEPT ![l][c] = AssignChunk(@, m, 0)]
        BY <3>4 DEF AssignWork
      <4> DEFINE g == [disk[l] EXCEPT ![c] = AssignChunk(disk[l][c], m, 0)]
      <4>2. disk' = [disk EXCEPT ![l] = g]
        BY <1>1, <4>1
      <4>3. g \in Jobs
        BY <2>0, <4>1, Rows DEF Jobs
      <4>4. QED  BY <4>1, <4>2, <4>3 DEF roleVars
    <3>5. QED  BY <1>8, <3>1, <3>2, <3>3, <3>4
  <2>2. CASE disk' = disk
    BY <1>3, <2>1, <2>2
  <2>3. ASSUME NEW g \in Jobs, disk' = [disk EXCEPT ![l] = g] PROVE OpenAreWhole'
    BY <1>1, <2>1, <2>3 DEF OpenAreWhole
  <2>4. QED  BY <2>1, <2>2, <2>3
<1>9. ASSUME NEW l \in Nodes, TakeSnapshot(l) PROVE OpenAreWhole'
  <2>1. /\ snapping' = [snapping EXCEPT ![l] = disk[l]] /\ open[l]
        /\ open' = open /\ disk' = disk
    BY <1>9 DEF TakeSnapshot, Dispatching, roleVars
  <2>2. QED  BY <1>1, <2>1 DEF OpenAreWhole
<1>10. ASSUME NEW l \in Nodes, BeginCopy(l) \/ EndCopy(l)
              \/ \E m \in Nodes, c \in Chunks : FlushReport(m, l, c)
       PROVE  OpenAreWhole'
  <2>1. /\ open' = open /\ disk' = disk
        /\ snapping' = snapping \/ snapping' = [snapping EXCEPT ![l] = None]
    BY <1>10 DEF BeginCopy, EndCopy, FlushReport, roleVars
  <2>2. QED  BY <1>1, <2>1 DEF OpenAreWhole
<1>11. ASSUME NEW n \in Nodes, Crash(n) \/ Leave(n) PROVE OpenAreWhole'
  <2>1. /\ open' = [open EXCEPT ![n] = FALSE] /\ disk' = disk
        /\ snapping' = [snapping EXCEPT ![n] = None]
    BY <1>11 DEF Crash, Leave, GoesDown
  <2>2. QED  BY <1>1, <2>1 DEF OpenAreWhole
<1>12. ASSUME NEW n \in Nodes, Start(n) PROVE OpenAreWhole'
  BY <1>3, <1>12 DEF Start, roleVars
<1>13. CASE Transition
  BY <1>5, <1>6, <1>7, <1>13 DEF Transition
<1>14. CASE Dispatch
  BY <1>8, <1>9, <1>10, <1>14 DEF Dispatch
<1>15. CASE Coming
  BY <1>11, <1>12, <1>15 DEF Coming
<1>16. CASE UNCHANGED vars
  BY <1>3, <1>16 DEF vars, roleVars
<1>17. QED  BY <1>4, <1>13, <1>14, <1>15, <1>16 DEF Next

\* Every variable keeps its type.  In particular an election always finds a
\* leader among nodes that exist, and a snapshot is never taken of a torn file.
THEOREM TypeCorrect == Spec => []TypeOK
<1> DEFINE Typed == Truthful /\ Roles /\ PassTypes /\ CountTypes /\ OpenAreWhole
<1>1. Init => PassTypes /\ CountTypes /\ OpenAreWhole
  <2> SUFFICES ASSUME Init PROVE PassTypes /\ CountTypes /\ OpenAreWhole
    OBVIOUS
  <2>1. PassTypes
    BY DEF Init, PassTypes, PeerTypes, PolledAreKnown, NoPeers
  <2>2. CountTypes
    BY FailoverAssumption DEF Init, CountTypes
  <2>3. OpenAreWhole
    BY DEF Init, OpenAreWhole
  <2>4. QED  BY <2>1, <2>2, <2>3
<1>2. Init => Typed
  BY <1>1, TruthfulInit, RolesInit
<1>3. Typed /\ [Next]_vars => Typed'
  BY TruthfulStep, RolesStep, PassTypesKept, CountTypesKept, OpenAreWholeKept
<1>4. Typed => TypeOK
  BY DEF Truthful, FileTypes, ReportTypes, Roles, RoleTypes, PassTypes, PeerTypes, CountTypes,
         OpenAreWhole, TypeOK
<1>5. QED  BY <1>2, <1>3, <1>4, PTL DEF Spec
=============================================================================
