----------------------------- MODULE DispatchFlow -----------------------------
(***************************************************************************)
(* Proofs about where the dispatches of Dispatch are: that a node holds    *)
(* one at a time, that jobs are closed around settled chunks, that the     *)
(* edit fence holds, and that an assigned chunk is with its node.  Each of *)
(* them is proved under the conditions the code needs for it; README.md    *)
(* says what happens beyond them.                                          *)
(***************************************************************************)
EXTENDS DispatchProofs

(* One chunk at a time.  The leader's memory of what it sent, in           *)
(* m_dispatchedNodes, covers a node until the node is seen rendering.      *)

\* Nothing makes the leader's view of a node older than its own memory: no
\* POST that it gave up is served later, no entry expires under a working
\* node, and no node is declared dead or comes back without its work.
Timely == Faults \cap {"timeout", "slowBeat", "partition", "crash"} = {}

NoPost(m) == \A p \in posts : p.work.node = m => p.stage # "sent"

Idles(m) == NoPost(m) /\ queue[m] = <<>> /\ active[m] = None

UnseenBusy(m) == m # Local => view[m] # "rendering"

Alive ==
    /\ \A n \in Nodes : mode[n] # "down" /\ view[n] # "gone"
    /\ \A p \in posts : p.stage # "givenUp"

\* A dispatch is on the wire, or queued, or rendered.
InOnePlace(m) ==
    /\ active[m] # None => NoPost(m) /\ queue[m] = <<>>
    /\ queue[m] # <<>> => NoPost(m) /\ Len(queue[m]) = 1
    /\ \A p, q \in posts : /\ p.work.node = m /\ p.stage = "sent"
                           /\ q.work.node = m /\ q.stage = "sent"
                           => p = q

\* A node that does not yet render what it was sent is still remembered.
Remembered(m) ==
    /\ ~NoPost(m) \/ queue[m] # <<>> => m \in dispatched /\ UnseenBusy(m)
    /\ active[m] # None => m = Local \/ m \in dispatched \/ view[m] # "idle"

\* The nodes assignWork is about to serve have nothing to do.
ServesIdle(m) ==
    /\ m \in toServe \/ (pick # None /\ pick.node = m) => Idles(m) /\ UnseenBusy(m)
    /\ pick # None /\ pick.node = m => m \notin toServe

Fits(m) == InOnePlace(m) /\ Remembered(m) /\ ServesIdle(m)

\* A chunk is picked and assigned within one pass of the main thread.
PickInPass == pick # None => phase = "assign"

Tracked == TypeOK /\ Alive /\ PickInPass /\ \A m \in Nodes : Fits(m)

\* A purge leaves a queue of one dispatch as it is or empty.
LEMMA KeepOne ==
    ASSUME NEW S, NEW s \in Seq(S), Len(s) \in {0, 1}, NEW j
    PROVE  Keep(s, j) \in {<<>>, s}
<1>1. PICK f : /\ f = [i \in 0 .. Len(s) |-> KeptStep(s, j, f, i)]
               /\ Keep(s, j) = f[Len(s)]
  BY KeepDefined
<1>2. Len(s) \in Nat /\ f[0] = <<>>
  BY <1>1 DEF KeptStep
<1>3. CASE Len(s) = 0
  BY <1>1, <1>2, <1>3
<1>4. CASE Len(s) = 1
  <2>1. f[1] = KeptStep(s, j, f, 1)
    BY <1>1, <1>4
  <2>2. f[1] = IF JobOf[s[1].chunk] = j THEN f[0] ELSE Append(f[0], s[1])
    BY <2>1, 1 - 1 = 0, 1 # 0 DEF KeptStep
  <2>3. s = <<s[1]>>
    BY <1>4
  <2>4. Append(<<>>, s[1]) = <<s[1]>>
    OBVIOUS
  <2>5. f[1] = <<>> \/ f[1] = s
    BY <1>2, <2>2, <2>3, <2>4
  <2>6. QED  BY <1>1, <1>4, <2>5
<1>5. QED  BY <1>3, <1>4

\* A node that loses work, or nothing, still fits.
LEMMA LosingFits ==
    ASSUME NEW m, Fits(m),
           UNCHANGED <<posts, dispatched, view, toServe, pick>>,
           queue'[m] \in {queue[m], <<>>}, active'[m] \in {active[m], None}
    PROVE  Fits(m)'
<1>1. CASE queue'[m] = queue[m] /\ active'[m] = active[m]
  BY <1>1 DEF Fits, InOnePlace, Remembered, ServesIdle, NoPost, Idles, UnseenBusy
<1>2. CASE queue'[m] = <<>>
  BY <1>2 DEF Fits, InOnePlace, Remembered, ServesIdle, NoPost, Idles, UnseenBusy
<1>3. CASE queue'[m] = queue[m] /\ active'[m] = None
  BY <1>3 DEF Fits, InOnePlace, Remembered, ServesIdle, NoPost, Idles, UnseenBusy
<1>4. QED  BY <1>1, <1>2, <1>3

\* An abort takes work away from its node only.
LEMMA AbandonFits ==
    ASSUME Tracked, NEW n \in Nodes, NEW j, Abandon(n, j), NEW m \in Nodes,
           UNCHANGED <<posts, dispatched, view, toServe, pick>>
    PROVE  Fits(m)'
<1>1. Len(queue[n]) \in {0, 1}
  <2>1. queue[n] # <<>> => Len(queue[n]) = 1
    BY DEF Tracked, Fits, InOnePlace
  <2>2. queue[n] = <<>> => Len(queue[n]) = 0
    OBVIOUS
  <2>3. QED  BY <2>1, <2>2
<1>2. queue[n] \in Seq(Work)
  BY DEF Tracked, TypeOK
<1>3. Keep(queue[n], j) \in {<<>>, queue[n]}
  BY <1>1, <1>2, KeepOne
<1>4. queue'[m] \in {queue[m], <<>>}
  <2>1. queue' = [queue EXCEPT ![n] = Keep(queue[n], j)]
    BY DEF Abandon
  <2>2. QED  BY <1>3, <2>1 DEF Tracked, TypeOK
<1>5. active'[m] \in {active[m], None}
  BY DEF Abandon, Tracked, TypeOK
<1>6. QED  BY <1>4, <1>5, LosingFits DEF Tracked

\* A node that keeps what it has and is not served fits as long as it is
\* remembered as well as before.
LEMMA RestingFits ==
    ASSUME NEW m, Fits(m), UNCHANGED <<queue, active, view>>,
           \A p \in posts' : p.work.node = m => p \in posts \/ p.stage # "sent",
           \A p \in posts : p.work.node = m /\ p.stage = "sent" => p \in posts',
           m \in dispatched => m \in dispatched',
           m \in toServe' => m \in toServe,
           pick' # None => pick # None /\ pick'.node = pick.node
    PROVE  Fits(m)'
<1>1. NoPost(m)' <=> NoPost(m)
  BY DEF NoPost
<1>2. InOnePlace(m)'
  <2>1. \A p \in posts' : p.work.node = m /\ p.stage = "sent" => p \in posts
    OBVIOUS
  <2>2. \A p, q \in posts' : /\ p.work.node = m /\ p.stage = "sent"
                             /\ q.work.node = m /\ q.stage = "sent"
                             => p = q
    BY <2>1 DEF Fits, InOnePlace
  <2>3. QED  BY <1>1, <2>2 DEF Fits, InOnePlace
<1>3. Remembered(m)' /\ ServesIdle(m)'
  BY <1>1 DEF Fits, Remembered, ServesIdle, Idles, UnseenBusy
<1>4. QED  BY <1>2, <1>3 DEF Fits

\* The main thread serves idle nodes only, one chunk each.
LEMMA TrackedTick == Tracked /\ Tick => \A m \in Nodes : Fits(m)'
<1> SUFFICES ASSUME Tracked, Tick, NEW m \in Nodes PROVE Fits(m)'
  OBVIOUS
<1>0. TypeOK /\ Alive /\ Fits(m)
  BY DEF Tracked
<1>1. CASE \/ TickStart \/ ReclaimDead \/ CloseJob \/ ReadEpoch \/ DropPicked \/ TickEnd
           \/ \E r \in batch : ApplyReport(r)
           \/ \E c \in reverting : ApplyRevert(c)
           \/ \E j \in Jobs : JudgeJob(j)
  <2>1. UNCHANGED <<queue, active, view, posts, dispatched, toServe>>
    BY <1>1 DEF TickStart, ReclaimDead, CloseJob, ReadEpoch, DropPicked, TickEnd,
       ApplyReport, ApplyRevert, JudgeJob, tickVars, leaderVars, nodeVars
  <2>2. pick' # None => pick # None /\ pick'.node = pick.node
    <3>1. CASE ReadEpoch
      BY <1>0, <3>1 DEF ReadEpoch, TypeOK, Pick
    <3>2. CASE ~ReadEpoch
      BY <1>1, <3>2 DEF TickStart, ReclaimDead, CloseJob, DropPicked, TickEnd,
         ApplyReport, ApplyRevert, JudgeJob
    <3>3. QED  BY <3>1, <3>2
  <2>3. QED  BY <1>0, <2>1, <2>2, RestingFits
<1>2. CASE ServePeers
  <2> DEFINE seen == [n \in Nodes |-> IF n = Local THEN Status(n) ELSE view[n]]
             left == {n \in dispatched : seen[n] \notin {"rendering", "gone"}}
  <2>1. /\ dispatched' = left /\ toServe' = Servable(seen, left)
        /\ UNCHANGED <<queue, active, view, posts, pick>>
    BY <1>2 DEF ServePeers, leaderVars, nodeVars
  <2>2. seen[m] = IF m = Local THEN Status(m) ELSE view[m]
    OBVIOUS
  <2>3. m \in left <=> m \in dispatched /\ seen[m] \notin {"rendering", "gone"}
    OBVIOUS
  <2>4. m \in toServe' <=> m \notin left /\ seen[m] = "idle"
    BY <2>1 DEF Servable
  <2> HIDE DEF seen, left
  <2>5. active[m] = None => Status(m) \notin {"rendering", "gone"}
    BY <1>0 DEF Status, TypeOK
  <2>6. active[m] # None => Status(m) # "idle"
    BY <1>0 DEF Status, TypeOK
  <2>7. pick = None
    BY <1>2 DEF ServePeers, Tracked, PickInPass
  <2>8. QED
    BY <1>0, <2>1, <2>2, <2>3, <2>4, <2>5, <2>6, <2>7
       DEF Alive, Fits, InOnePlace, Remembered, ServesIdle, NoPost, Idles, UnseenBusy
<1>3. ASSUME NEW n \in Nodes, FindChunk(n) PROVE Fits(m)'
  <2>1. /\ UNCHANGED <<queue, active, view, posts, dispatched>>
        /\ n \in toServe /\ toServe' = toServe \ {n} /\ pick = None
        /\ pick' # None => pick'.node = n
    BY <1>3 DEF FindChunk, leaderVars, nodeVars
  <2>2. QED
    BY <1>0, <2>1 DEF Fits, InOnePlace, Remembered, ServesIdle, NoPost, Idles, UnseenBusy
<1>4. CASE AssignPicked
  <2>1. /\ pick # None /\ pick' = None /\ UNCHANGED <<active, view, toServe>>
        /\ dispatched' = dispatched \cup {pick.node} /\ pick.node \in Nodes
    BY <1>0, <1>4 DEF AssignPicked, TypeOK, Pick
  <2>2. Picked.node = pick.node
    BY DEF Picked
  <2>3. CASE m # pick.node
    <3>1. queue'[m] = queue[m]
      BY <1>0, <1>4, <2>3 DEF AssignPicked, TypeOK
    <3>2. \A p : p.work.node = m => (p \in posts' <=> p \in posts)
      BY <1>4, <2>2, <2>3 DEF AssignPicked
    <3>3. QED
      BY <1>0, <2>1, <3>1, <3>2, <2>3
         DEF Fits, InOnePlace, Remembered, ServesIdle, NoPost, Idles, UnseenBusy
  <2>4. CASE m = pick.node
    <3>1. Idles(m) /\ UnseenBusy(m) /\ m \notin toServe
      BY <1>0, <2>1, <2>4 DEF Fits, ServesIdle
    <3>2. CASE m = Local
      <4>1. posts' = posts /\ queue'[m] = Append(<<>>, Picked)
        BY <1>0, <1>4, <2>4, <3>1, <3>2 DEF AssignPicked, TypeOK, Idles
      <4>2. Len(queue'[m]) = 1
        BY <4>1
      <4>3. NoPost(m)'
        BY <3>1, <4>1 DEF Idles, NoPost
      <4>4. QED
        BY <2>1, <2>4, <3>1, <4>1, <4>2, <4>3
           DEF Fits, InOnePlace, Remembered, ServesIdle, NoPost, Idles, UnseenBusy
    <3>3. CASE m # Local
      <4>1. posts' = posts \cup {[work |-> Picked, stage |-> "sent"]} /\ queue' = queue
        BY <1>4, <2>4, <3>3 DEF AssignPicked
      <4>2. \A p \in posts' : p.work.node = m /\ p.stage = "sent"
                                => p = [work |-> Picked, stage |-> "sent"]
        BY <3>1, <4>1 DEF Idles, NoPost
      <4>3. QED
        BY <2>1, <2>4, <3>1, <4>1, <4>2
           DEF Fits, InOnePlace, Remembered, ServesIdle, Idles, UnseenBusy
    <3>4. QED  BY <3>2, <3>3
  <2>5. QED  BY <2>3, <2>4
<1>5. QED  BY <1>1, <1>2, <1>3, <1>4 DEF Tick

\* The statements of a pass keep to their phase.
LEMMA PickInPassStep == PickInPass /\ [Next]_vars => PickInPass'
<1> SUFFICES ASSUME PickInPass, [Next]_vars PROVE PickInPass'
  OBVIOUS
<1> USE DEF PickInPass
<1>1. CASE Tick
  BY <1>1 DEF Tick, TickStart, ReclaimDead, CloseJob, ServePeers, ReadEpoch, AssignPicked,
     DropPicked, TickEnd, ApplyReport, ApplyRevert, JudgeJob, FindChunk, MainThreadFree
<1>2. QED  BY <1>1, TickKeepsItsOwn DEF tickVars

\* Nothing that Timely excludes happens.
LEMMA NoMishap ==
    ASSUME Timely, NEW f \in {"timeout", "slowBeat", "partition", "crash"}
    PROVE  ~Mishap(f)
BY DEF Timely, Mishap

\* The network hands a dispatch to a node that waits for it, and shows the
\* leader a node as rendering only when it has taken its dispatch.
LEMMA TrackedNetwork ==
    ASSUME Timely, Tracked, Network, NEW m \in Nodes
    PROVE  Fits(m)'
<1>0. TypeOK /\ Alive /\ Fits(m)
  BY DEF Tracked
<1>1. ASSUME NEW p \in posts, PostArrives(p) PROVE Fits(m)'
  <2>1. /\ UNCHANGED <<active, view, dispatched, toServe, pick>>
        /\ p.stage = "sent" /\ p.work.node \in Nodes
    BY <1>0, <1>1 DEF PostArrives, Alive, tickVars, TypeOK, Post, Work
  <2>2. PICK s \in {"taken", "refused"} : posts' = (posts \ {p}) \cup {[p EXCEPT !.stage = s]}
    BY <1>1, <2>1 DEF PostArrives
  <2>3. [p EXCEPT !.stage = s].stage = s /\ [p EXCEPT !.stage = s].work = p.work
    BY <1>0 DEF TypeOK, Post
  <2>4. PICK r : r = [p EXCEPT !.stage = s]
    OBVIOUS
  <2>5. posts' = (posts \ {p}) \cup {r} /\ r.stage # "sent" /\ r.work = p.work
    BY <2>2, <2>3, <2>4
  <2>6. CASE m # p.work.node
    <3>1. queue'[m] = queue[m]
      BY <1>0, <1>1, <2>6 DEF PostArrives, TypeOK
    <3>2. \A q : q.work.node = m => (q \in posts' <=> q \in posts)
      BY <2>5, <2>6
    <3>3. QED
      BY <1>0, <2>1, <3>1, <3>2
         DEF Fits, InOnePlace, Remembered, ServesIdle, NoPost, Idles, UnseenBusy
  <2>7. CASE m = p.work.node
    <3>1. NoPost(m)'
      <4>1. \A q \in posts : q.work.node = m /\ q.stage = "sent" => q = p
        BY <1>0, <2>1, <2>7 DEF Fits, InOnePlace
      <4>2. QED  BY <2>5, <4>1 DEF NoPost
    <3>2. ~NoPost(m)
      BY <2>1, <2>7 DEF NoPost
    <3>3. /\ active[m] = None /\ queue[m] = <<>> /\ m \in dispatched /\ UnseenBusy(m)
          /\ m \notin toServe /\ ~(pick # None /\ pick.node = m)
      BY <1>0, <3>2 DEF Fits, InOnePlace, Remembered, ServesIdle, Idles
    <3>4. queue'[m] \in {<<>>, Append(<<>>, p.work)}
      BY <1>0, <1>1, <2>7, <3>3 DEF PostArrives, TypeOK
    <3>5. queue'[m] # <<>> => Len(queue'[m]) = 1
      BY <3>4
    <3>6. QED
      BY <2>1, <3>1, <3>3, <3>5
         DEF Fits, InOnePlace, Remembered, ServesIdle, NoPost, Idles, UnseenBusy
  <2>8. QED  BY <2>6, <2>7
<1>2. ASSUME NEW p \in posts, PostAnswered(p) PROVE Fits(m)'
  <2>1. UNCHANGED <<queue, active, view, dispatched, toServe, pick>>
    BY <1>2 DEF PostAnswered, tickVars, nodeVars
  <2>2. posts' = posts \ {p} /\ p.stage # "sent"
    BY <1>2 DEF PostAnswered
  <2>3. QED  BY <1>0, <2>1, <2>2, RestingFits
<1>3. ASSUME NEW p \in posts, PostUnanswered(p) \/ PostDropped(p) PROVE FALSE
  <2>1. p.work.node \in Nodes
    BY <1>0 DEF TypeOK, Post, Work
  <2>2. QED  BY <1>0, <1>3, <2>1, NoMishap DEF PostUnanswered, PostDropped, Alive
<1>4. ASSUME NEW n \in Nodes, NEW j \in Jobs, AbortArrives(n, j) PROVE Fits(m)'
  <2>1. UNCHANGED <<posts, dispatched, view, toServe, pick>> /\ Abandon(n, j)
    BY <1>0, <1>4 DEF AbortArrives, tickVars, Alive
  <2>2. QED  BY <2>1, AbandonFits
<1>5. ASSUME NEW n \in Nodes, NEW j \in Jobs, AbortLost(n, j) PROVE FALSE
  BY <1>5, NoMishap DEF AbortLost
<1>6. ASSUME NEW n \in Nodes, FlushReport(n) PROVE Fits(m)'
  BY <1>0, <1>6, LosingFits DEF FlushReport, tickVars
<1>7. ASSUME NEW n \in Nodes, Heartbeat(n) PROVE Fits(m)'
  <2>1. /\ UNCHANGED <<queue, active, posts, dispatched, toServe, pick>>
        /\ n # Local /\ view' = [view EXCEPT ![n] = Status(n)]
    BY <1>7 DEF Heartbeat, tickVars, nodeVars
  <2>2. CASE m # n
    <3>1. view'[m] = view[m]
      BY <1>0, <2>1, <2>2 DEF TypeOK
    <3>2. QED
      BY <1>0, <2>1, <3>1
         DEF Fits, InOnePlace, Remembered, ServesIdle, NoPost, Idles, UnseenBusy
  <2>3. CASE m = n
    <3>1. view'[m] = Status(m)
      BY <1>0, <2>1, <2>3 DEF TypeOK
    <3>2. active[m] = None => Status(m) # "rendering"
      BY <1>0 DEF Status, TypeOK
    <3>3. active[m] # None => Status(m) # "idle"
      BY <1>0 DEF Status, TypeOK
    <3>4. QED
      BY <1>0, <2>1, <3>1, <3>2, <3>3
         DEF Fits, InOnePlace, Remembered, ServesIdle, NoPost, Idles, UnseenBusy
  <2>4. QED  BY <2>2, <2>3
<1>8. ASSUME NEW n \in Nodes, DeclareDead(n) PROVE FALSE
  BY <1>0, <1>8, NoMishap DEF DeclareDead, Alive
<1>9. QED  BY <1>1, <1>2, <1>3, <1>4, <1>5, <1>6, <1>7, <1>8 DEF Network

\* A node that starts a render has been sent nothing else; otherwise nodes
\* only lose work, and are forgotten when they have none.
LEMMA TrackedNode ==
    ASSUME Timely, Tracked, Node, NEW m \in Nodes
    PROVE  Fits(m)'
<1>0. TypeOK /\ Alive /\ Fits(m)
  BY DEF Tracked
<1> PICK n \in Nodes :
           \/ StartRender(n) \/ SkipDispatch(n) \/ AgentUnavailable(n)
           \/ RecoverAgent(n) \/ FinishRender(n) \/ AbortGone(n) \/ SelfFence(n)
           \/ StopNode(n) \/ ResumeNode(n) \/ Crash(n) \/ Restart(n) \/ EntryExpires(n)
  BY DEF Node
<1>a. queue[n] # <<>> => Tail(queue[n]) = <<>>
  <2>1. queue[n] # <<>> => Len(queue[n]) = 1
    BY DEF Tracked, Fits, InOnePlace
  <2>2. queue[n] \in Seq(Work)
    BY <1>0 DEF TypeOK
  <2>3. queue[n] # <<>> => Tail(queue[n]) \in Seq(Work) /\ Len(Tail(queue[n])) = 0
    BY <2>1, <2>2, HeadTailProperties
  <2>4. QED  BY <2>3, EmptySeq
<1>1. CASE StartRender(n)
  <2>1. /\ UNCHANGED <<posts, dispatched, view, toServe, pick>>
        /\ queue[n] # <<>> /\ queue' = [queue EXCEPT ![n] = <<>>]
        /\ active' = [active EXCEPT ![n] = Head(queue[n])]
    BY <1>a, <1>1 DEF StartRender, tickVars, leaderVars
  <2>2. CASE m # n
    <3>1. queue'[m] = queue[m] /\ active'[m] = active[m]
      BY <1>0, <2>1, <2>2 DEF TypeOK
    <3>2. QED  BY <1>0, <2>1, <3>1, LosingFits
  <2>3. CASE m = n
    <3>1. queue'[m] = <<>>
      BY <1>0, <2>1, <2>3 DEF TypeOK
    <3>2. QED
      BY <1>0, <2>1, <2>3, <3>1
         DEF Fits, InOnePlace, Remembered, ServesIdle, NoPost, Idles, UnseenBusy
  <2>4. QED  BY <2>2, <2>3
<1>2. CASE SkipDispatch(n) \/ AgentUnavailable(n)
  <2>1. /\ UNCHANGED <<posts, dispatched, view, toServe, pick, active>>
        /\ queue' = [queue EXCEPT ![n] = <<>>]
    BY <1>a, <1>2 DEF SkipDispatch, AgentUnavailable, tickVars, leaderVars
  <2>2. queue'[m] \in {queue[m], <<>>}
    BY <1>0, <2>1 DEF TypeOK
  <2>3. QED  BY <1>0, <2>1, <2>2, LosingFits
<1>3. CASE FinishRender(n) \/ StopNode(n)
  <2>1. /\ UNCHANGED <<posts, dispatched, view, toServe, pick, queue>>
        /\ active' = [active EXCEPT ![n] = None]
    BY <1>3 DEF FinishRender, StopNode, tickVars, leaderVars
  <2>2. active'[m] \in {active[m], None}
    BY <1>0, <2>1 DEF TypeOK
  <2>3. QED  BY <1>0, <2>1, <2>2, LosingFits
<1>4. CASE AbortGone(n) \/ SelfFence(n)
  <2>1. UNCHANGED <<posts, dispatched, view, toServe, pick>> /\ \E j : Abandon(n, j)
    BY <1>4 DEF AbortGone, SelfFence, tickVars, leaderVars
  <2>2. QED  BY <2>1, AbandonFits
<1>5. CASE RecoverAgent(n) \/ ResumeNode(n) \/ Restart(n)
  BY <1>0, <1>5, LosingFits DEF RecoverAgent, ResumeNode, Restart, tickVars, leaderVars
<1>6. CASE Crash(n)
  BY <1>6, NoMishap DEF Crash
<1>7. CASE EntryExpires(n)
  <2>1. /\ queue[n] = <<>> /\ active[n] = None
        /\ UNCHANGED <<queue, active, view, posts, toServe, pick>>
        /\ dispatched' = dispatched \ {n}
    BY <1>7, NoMishap DEF EntryExpires, tickVars
  <2>2. NoPost(n)
    BY <1>0, <1>7 DEF EntryExpires, NoPost, Alive
  <2>3. QED
    BY <1>0, <2>1, <2>2
       DEF Fits, InOnePlace, Remembered, ServesIdle, NoPost, Idles, UnseenBusy
<1>8. QED  BY <1>1, <1>2, <1>3, <1>4, <1>5, <1>6, <1>7

\* Operators take work away and hand none out.
LEMMA TrackedCommand ==
    ASSUME Tracked, Command, NEW m \in Nodes
    PROVE  Fits(m)'
<1>1. UNCHANGED <<posts, dispatched, view, toServe, pick>>
  BY DEF Command, Pause, Resume, Archive, Cancel, Requeue, RetryFailed, BeginEdit,
     StopOneChunk, RequeueChunk, AssignChunkTo, BumpEpoch, ResetRows, FinishEdit,
     tickVars, leaderVars
<1>2. CASE UNCHANGED <<queue, active>>
  BY <1>1, <1>2, LosingFits DEF Tracked
<1>3. CASE \E j : AbandonLocal(j)
  BY <1>1, <1>2, <1>3, AbandonFits DEF AbandonLocal
<1>4. QED
  BY <1>2, <1>3 DEF Command, Pause, Resume, Archive, Cancel, Requeue, RetryFailed, BeginEdit,
     StopOneChunk, RequeueChunk, AssignChunkTo, BumpEpoch, ResetRows, FinishEdit, nodeVars

\* Nobody dies, and every POST is answered.
LEMMA AliveStep == ASSUME Timely, TypeOK, Alive, [Next]_vars PROVE Alive'
<1>a. UNCHANGED <<mode, view, posts>> => Alive'
  BY DEF Alive
<1>b. \A p \in posts : p.work.node \in Nodes /\ [p EXCEPT !.stage = "taken"].stage = "taken"
                       /\ [p EXCEPT !.stage = "refused"].stage = "refused"
  BY DEF TypeOK, Post, Work
<1>1. CASE Tick
  <2>1. CASE AssignPicked
    BY <2>1 DEF AssignPicked, Alive
  <2>2. CASE ~AssignPicked
    BY <1>1, <1>a, <2>2 DEF Tick, TickStart, ReclaimDead, CloseJob, ServePeers, ReadEpoch,
       DropPicked, TickEnd, ApplyReport, ApplyRevert, JudgeJob, FindChunk, leaderVars, nodeVars
  <2>3. QED  BY <2>1, <2>2
<1>2. CASE Network
  <2>1. ASSUME NEW p \in posts, PostArrives(p) PROVE Alive'
    <3>1. UNCHANGED <<mode, view>>
      BY <2>1 DEF PostArrives
    <3>2. \A q \in posts' : q \in posts \/ q = [p EXCEPT !.stage = "taken"]
                            \/ q = [p EXCEPT !.stage = "refused"]
      BY <2>1 DEF PostArrives
    <3>3. QED  BY <1>b, <3>1, <3>2 DEF Alive
  <2>2. ASSUME NEW p \in posts, PostAnswered(p) \/ PostUnanswered(p) \/ PostDropped(p)
        PROVE  Alive'
    <3>1. PostAnswered(p)
      BY <1>b, <2>2, NoMishap DEF PostUnanswered, PostDropped, Alive
    <3>2. QED  BY <3>1 DEF PostAnswered, Alive, nodeVars
  <2>3. ASSUME NEW n \in Nodes, Heartbeat(n) PROVE Alive'
    <3>1. Status(n) # "gone" /\ mode' = mode /\ posts' = posts
      BY <2>3 DEF Heartbeat, Status, Alive, TypeOK, nodeVars
    <3>2. \A m \in Nodes : view'[m] \in {view[m], Status(n)}
      BY <2>3 DEF Heartbeat, TypeOK
    <3>3. QED  BY <3>1, <3>2 DEF Alive
  <2>4. ASSUME NEW n \in Nodes, DeclareDead(n) PROVE FALSE
    BY <2>4, NoMishap DEF DeclareDead, Alive
  <2>5. ASSUME NEW n \in Nodes, FlushReport(n) \/ \E j \in Jobs : AbortArrives(n, j) \/ AbortLost(n, j)
        PROVE  Alive'
    BY <1>a, <2>5 DEF AbortArrives, AbortLost, FlushReport
  <2>6. QED  BY <1>2, <2>1, <2>2, <2>3, <2>4, <2>5 DEF Network
<1>3. CASE Node
  <2> PICK n \in Nodes :
             \/ StartRender(n) \/ SkipDispatch(n) \/ AgentUnavailable(n)
             \/ RecoverAgent(n) \/ FinishRender(n) \/ AbortGone(n) \/ SelfFence(n)
             \/ StopNode(n) \/ ResumeNode(n) \/ Crash(n) \/ Restart(n) \/ EntryExpires(n)
    BY <1>3 DEF Node
  <2>1. UNCHANGED <<view, posts>>
    BY DEF StartRender, SkipDispatch, AgentUnavailable, RecoverAgent, FinishRender, AbortGone,
       SelfFence, StopNode, ResumeNode, Crash, Restart, EntryExpires, leaderVars
  <2>2. UNCHANGED mode \/ \E d \in {"active", "sick", "stopped"} : mode' = [mode EXCEPT ![n] = d]
    <3>1. ~Crash(n)
      BY NoMishap DEF Crash
    <3>2. CASE AgentUnavailable(n)
      BY <3>2 DEF AgentUnavailable
    <3>3. QED
      BY <3>1, <3>2 DEF StartRender, SkipDispatch, RecoverAgent, FinishRender, AbortGone,
         SelfFence, StopNode, ResumeNode, Restart, EntryExpires
  <2>3. QED  BY <2>1, <2>2 DEF Alive, TypeOK
<1>4. CASE Command
  BY <1>4, <1>a DEF Command, Pause, Resume, Archive, Cancel, Requeue, RetryFailed,
     BeginEdit, StopOneChunk, RequeueChunk, AssignChunkTo, BumpEpoch, ResetRows, FinishEdit,
     leaderVars, nodeVars
<1>5. CASE UNCHANGED vars
  BY <1>5, <1>a DEF vars, leaderVars, nodeVars
<1>6. QED  BY <1>1, <1>2, <1>3, <1>4, <1>5 DEF Next

\* Tracked is an invariant.
LEMMA TrackedAlways == ASSUME Timely PROVE Spec => []Tracked
<1>1. Init => Tracked
  <2> SUFFICES ASSUME Init PROVE Tracked
    OBVIOUS
  <2>1. TypeOK
    BY TypeInit
  <2>2. Alive /\ PickInPass
    BY DEF Init, Alive, PickInPass
  <2>3. \A m \in Nodes : Fits(m)
    BY DEF Init, Fits, InOnePlace, Remembered, ServesIdle, NoPost, Idles, UnseenBusy
  <2>4. QED  BY <2>1, <2>2, <2>3 DEF Tracked
<1>2. Tracked /\ [Next]_vars => Tracked'
  <2> SUFFICES ASSUME Tracked, [Next]_vars PROVE Tracked'
    OBVIOUS
  <2>1. TypeOK' /\ Alive' /\ PickInPass'
    BY TypeStep, AliveStep, PickInPassStep DEF Tracked
  <2>2. ASSUME NEW m \in Nodes PROVE Fits(m)'
    <3>1. CASE UNCHANGED vars
      BY <3>1, LosingFits DEF Tracked, vars, tickVars, leaderVars, nodeVars
    <3>2. QED
      BY <3>1, TrackedTick, TrackedNetwork, TrackedNode, TrackedCommand DEF Next
  <2>3. QED  BY <2>1, <2>2 DEF Tracked
<1>3. QED  BY <1>1, <1>2, PTL DEF Spec

\* Where a dispatch is on its way, queued or rendered, nothing else is.
LEMMA FitsOne ==
    ASSUME TypeOK, Alive, NEW n \in Nodes, Fits(n)
    PROVE  Carried(n) = {} \/ \E w : Carried(n) = {w}
<1> DEFINE sent == {q \in posts : q.work.node = n /\ q.stage \in {"sent", "givenUp"}}
           onWire == {p.work : p \in sent}
           queued == {queue[n][i] : i \in DOMAIN queue[n]}
           held == {active[n]} \ {None}
<1>0. Carried(n) = onWire \cup queued \cup held
  BY DEF Carried
<1>1. NoPost(n) => onWire = {}
  BY DEF NoPost, Alive
<1>2. queue[n] = <<>> => queued = {}
  OBVIOUS
<1>3. CASE active[n] # None
  BY <1>0, <1>1, <1>2, <1>3 DEF Fits, InOnePlace
<1>4. CASE active[n] = None /\ queue[n] # <<>>
  <2>1. queued = {queue[n][1]}
    BY <1>4 DEF TypeOK, Fits, InOnePlace
  <2>2. onWire = {}
    BY <1>1, <1>4 DEF Fits, InOnePlace
  <2>3. QED  BY <1>0, <1>4, <2>1, <2>2
<1>5. CASE active[n] = None /\ queue[n] = <<>>
  <2>1. CASE NoPost(n)
    BY <1>0, <1>1, <1>2, <1>5, <2>1
  <2>2. CASE ~NoPost(n)
    <3>1. PICK p \in posts : p.work.node = n /\ p.stage = "sent"
      BY <2>2 DEF NoPost
    <3>2. \A q \in sent : q = p
      BY <3>1 DEF Fits, InOnePlace, Alive
    <3>3. onWire = {p.work}
      BY <3>1, <3>2
    <3>4. QED  BY <1>0, <1>2, <1>5, <3>3
  <2>3. QED  BY <2>1, <2>2
<1>6. QED  BY <1>3, <1>4, <1>5

\* assignWork gives a node its next chunk only when the last one has left it,
\* whatever operators, agents and lost answers do.  Timely excludes what makes
\* the leader believe too early that a node is free.
THEOREM NodesGetOneChunk ==
    ASSUME Timely
    PROVE  Spec => []OneChunkAtATime
<1>1. Tracked => OneChunkAtATime
  <2> SUFFICES ASSUME Tracked, NEW n \in Nodes PROVE Cardinality(Carried(n)) <= 1
    BY DEF OneChunkAtATime
  <2>1. Carried(n) = {} \/ \E w : Carried(n) = {w}
    BY FitsOne DEF Tracked
  <2>2. \A w : Cardinality({w}) = 1
    BY FS_Singleton
  <2>3. Cardinality({}) = 0
    BY FS_EmptySet
  <2>4. Cardinality(Carried(n)) \in {0, 1}
    BY <2>1, <2>2, <2>3
  <2>5. QED  BY <2>4
<1>2. QED  BY <1>1, TrackedAlways, PTL

-----------------------------------------------------------------------------
(* Jobs are closed around settled chunks.  Operators use the leader's own   *)
(* UI, so commands fall between passes; a chunk that reassignChunk gives    *)
(* to a chosen node does not reopen its job; and a node that is stopped     *)
(* refuses POSTs, whose revert comes too late.                              *)

Quiet == /\ ~HttpControls /\ "assignTo" \notin Controls
         /\ Timely /\ "stopNode" \notin Faults

Settled(c) == chunk[c].state \in {"completed", "failed", "stopped"}

\* No assignment is taken back by a revert: no node refuses one.
NothingReturns ==
    /\ \A n \in Nodes : mode[n] # "stopped"
    /\ \A p \in posts : p.stage # "refused"
    /\ reverts = {} /\ reverting = {}

\* An edit occupies the main thread.
EditsAtRest == edit # None => phase = "rest"

\* The verdict checkJobCompletions is about to write still holds.
VerdictHolds ==
    verdict # None => phase = "jobs" /\ \A c \in ChunksOf(verdict.job) : Settled(c)

Closing == NothingReturns /\ EditsAtRest /\ VerdictHolds /\ FinishedJobsAreSettled

\* A node that is sent a dispatch is free, so it does not refuse it.
LEMMA NothingReturnsStep ==
    ASSUME Quiet, Tracked, NothingReturns, [Next]_vars
    PROVE  NothingReturns'
<1>0. TypeOK /\ Alive
  BY DEF Tracked
<1>a. UNCHANGED <<mode, posts, reverts, reverting>> => NothingReturns'
  BY DEF NothingReturns
<1>1. CASE Tick
  <2>1. CASE TickStart
    BY <2>1 DEF TickStart, NothingReturns, nodeVars
  <2>2. CASE AssignPicked
    BY <2>2 DEF AssignPicked, NothingReturns
  <2>3. ASSUME NEW c \in reverting, ApplyRevert(c) PROVE FALSE
    BY DEF NothingReturns
  <2>4. CASE UNCHANGED <<mode, posts, reverts, reverting>>
    BY <2>4, <1>a
  <2>5. QED
    BY <1>1, <2>1, <2>2, <2>3, <2>4 DEF Tick, ReclaimDead, CloseJob, ServePeers, ReadEpoch,
       DropPicked, TickEnd, ApplyReport, JudgeJob, FindChunk, leaderVars, nodeVars
<1>2. CASE Network
  <2>1. ASSUME NEW p \in posts, PostArrives(p) PROVE NothingReturns'
    <3>1. p.stage = "sent" /\ p.work.node \in Nodes
      BY <1>0, <2>1 DEF PostArrives, Alive, TypeOK, Post, Work
    <3>2. active[p.work.node] = None /\ mode[p.work.node] # "stopped"
      BY <3>1 DEF Tracked, Fits, InOnePlace, NoPost, NothingReturns
    <3>3. posts' = (posts \ {p}) \cup {[p EXCEPT !.stage = "taken"]}
      BY <2>1, <3>1, <3>2 DEF PostArrives
    <3>4. [p EXCEPT !.stage = "taken"].stage = "taken"
      BY <1>0 DEF TypeOK, Post
    <3>5. UNCHANGED <<mode, reverts, reverting>>
      BY <2>1 DEF PostArrives, tickVars
    <3>6. QED  BY <3>3, <3>4, <3>5 DEF NothingReturns
  <2>2. ASSUME NEW p \in posts, PostAnswered(p) PROVE NothingReturns'
    BY <2>2 DEF PostAnswered, NothingReturns, tickVars, nodeVars
  <2>3. ASSUME NEW p \in posts, PostUnanswered(p) \/ PostDropped(p) PROVE FALSE
    <3>1. p.work.node \in Nodes
      BY <1>0 DEF TypeOK, Post, Work
    <3>2. QED  BY <1>0, <2>3, <3>1, NoMishap DEF PostUnanswered, PostDropped, Alive, Quiet
  <2>4. CASE UNCHANGED <<mode, posts, reverts, reverting>>
    BY <2>4, <1>a
  <2>5. QED
    BY <1>2, <2>1, <2>2, <2>3, <2>4 DEF Network, AbortArrives, AbortLost, FlushReport,
       Heartbeat, DeclareDead, tickVars, nodeVars
<1>3. CASE Node
  <2> PICK n \in Nodes :
             \/ StartRender(n) \/ SkipDispatch(n) \/ AgentUnavailable(n)
             \/ RecoverAgent(n) \/ FinishRender(n) \/ AbortGone(n) \/ SelfFence(n)
             \/ StopNode(n) \/ ResumeNode(n) \/ Crash(n) \/ Restart(n) \/ EntryExpires(n)
    BY <1>3 DEF Node
  <2>1. UNCHANGED <<posts, reverts, reverting>>
    BY DEF StartRender, SkipDispatch, AgentUnavailable, RecoverAgent, FinishRender, AbortGone,
       SelfFence, StopNode, ResumeNode, Crash, Restart, EntryExpires, leaderVars, tickVars
  <2>2. UNCHANGED mode \/ \E d \in {"active", "sick"} : mode' = [mode EXCEPT ![n] = d]
    <3>1. ~Crash(n) /\ ~StopNode(n)
      BY NoMishap DEF Crash, StopNode, Mishap, Quiet
    <3>2. CASE AgentUnavailable(n)
      <4>1. mode[n] \in {"active", "sick"}
        BY <3>2 DEF AgentUnavailable
      <4>2. QED  BY <3>2, <4>1 DEF AgentUnavailable
    <3>3. QED
      BY <3>1, <3>2 DEF StartRender, SkipDispatch, RecoverAgent, FinishRender, AbortGone,
         SelfFence, ResumeNode, Restart, EntryExpires
  <2>3. QED  BY <1>0, <2>1, <2>2 DEF NothingReturns, TypeOK
<1>4. CASE Command
  BY <1>4, <1>a DEF Command, Pause, Resume, Archive, Cancel, Requeue, RetryFailed,
     BeginEdit, StopOneChunk, RequeueChunk, AssignChunkTo, BumpEpoch, ResetRows, FinishEdit,
     leaderVars, nodeVars, tickVars
<1>5. CASE UNCHANGED vars
  BY <1>5, <1>a DEF vars, leaderVars, nodeVars, tickVars
<1>6. QED  BY <1>1, <1>2, <1>3, <1>4, <1>5 DEF Next

\* Over the leader's UI an edit begins and goes on between passes.
LEMMA EditsAtRestStep == ASSUME ~HttpControls, EditsAtRest, [Next]_vars PROVE EditsAtRest'
<1> USE DEF EditsAtRest
<1>1. CASE Tick
  BY <1>1 DEF Tick, TickStart, ReclaimDead, CloseJob, ServePeers, ReadEpoch, AssignPicked,
     DropPicked, TickEnd, ApplyReport, ApplyRevert, JudgeJob, FindChunk, MainThreadFree,
     Ticking, leaderVars
<1>2. CASE Network
  BY <1>2 DEF Network, PostArrives, PostAnswered, PostUnanswered, PostDropped,
     AbortArrives, AbortLost, FlushReport, Heartbeat, DeclareDead, tickVars, leaderVars
<1>3. CASE Node
  BY <1>3 DEF Node, StartRender, SkipDispatch, AgentUnavailable, RecoverAgent, FinishRender,
     AbortGone, SelfFence, StopNode, ResumeNode, Crash, Restart, EntryExpires, tickVars, leaderVars
<1>4. CASE Command
  BY <1>4 DEF Command, Pause, Resume, Archive, Cancel, Requeue, RetryFailed, BeginEdit,
     StopOneChunk, RequeueChunk, AssignChunkTo, BumpEpoch, ResetRows, FinishEdit, Commanded,
     MainThreadFree, tickVars, leaderVars
<1>5. CASE UNCHANGED vars
  BY <1>5 DEF vars, tickVars, leaderVars
<1>6. QED  BY <1>1, <1>2, <1>3, <1>4, <1>5 DEF Next

\* A report about a settled row does not pass the fence.
LEMMA SettledReport ==
    ASSUME NEW row, row.state \in {"completed", "failed", "stopped"}, NEW n, NEW e
    PROVE  CompleteChunk(row, n, e) = row /\ FailChunk(row, n, e, MaxRetries) = row
BY DEF CompleteChunk, FailChunk, IsChunkCurrent

LEMMA SettledDeliver ==
    ASSUME TypeOK, NEW n, NEW r, Deliver(n, r), NEW c \in Chunks, Settled(c)
    PROVE  chunk'[c] = chunk[c]
<1>1. CASE c = r.work.chunk /\ n = Local
  BY <1>1, SettledReport DEF Deliver, TypeOK, Settled
<1>2. CASE ~(c = r.work.chunk /\ n = Local)
  BY <1>2 DEF Deliver, TypeOK
<1>3. QED  BY <1>1, <1>2

\* The commands that open a settled chunk again.
Reopens(c) ==
    \/ Requeue(JobOf[c]) \/ RetryFailed(JobOf[c]) \/ RequeueChunk(c)
    \/ ResetRows /\ edit.job = JobOf[c]

\* Nothing else does.
LEMMA SettledStays ==
    ASSUME Quiet, TypeOK, NothingReturns, Next, NEW c \in Chunks, Settled(c)
    PROVE  Settled(c)' \/ Reopens(c)
<1>a. chunk'[c] = chunk[c] => Settled(c)'
  BY DEF Settled
<1>b. chunk \in [Chunks -> Row]
  BY DEF TypeOK
<1>1. CASE Tick
  <2>1. CASE AssignPicked \/ DropPicked
    <3>1. CASE c = pick.chunk
      <4>1. chunk' = chunk
        BY <2>1, <3>1 DEF AssignPicked, DropPicked, Assignable, Settled
      <4>2. QED  BY <4>1, <1>a
    <3>2. CASE c # pick.chunk
      BY <1>a, <1>b, <2>1, <3>2 DEF AssignPicked, DropPicked
    <3>3. QED  BY <3>1, <3>2
  <2>2. ASSUME NEW r \in batch, ApplyReport(r) PROVE Settled(c)'
    <3>1. CASE c = r.work.chunk
      BY <1>a, <1>b, <2>2, <3>1, SettledReport DEF ApplyReport, Settled
    <3>2. CASE c # r.work.chunk
      BY <1>a, <1>b, <2>2, <3>2 DEF ApplyReport
    <3>3. QED  BY <3>1, <3>2
  <2>3. ASSUME NEW d \in reverting, ApplyRevert(d) PROVE FALSE
    BY DEF NothingReturns
  <2>4. CASE ReclaimDead
    BY <1>a, <2>4 DEF ReclaimDead, ReassignDeadWorkerChunk, Settled
  <2>5. CASE UNCHANGED chunk
    BY <2>5, <1>a
  <2>6. QED
    BY <1>1, <2>1, <2>2, <2>3, <2>4, <2>5 DEF Tick, TickStart, CloseJob, ServePeers,
       ReadEpoch, TickEnd, JudgeJob, FindChunk, dbVars
<1>2. CASE Network
  BY <1>2, <1>a DEF Network, PostArrives, PostAnswered, PostUnanswered, PostDropped,
     AbortArrives, AbortLost, FlushReport, Heartbeat, DeclareDead, dbVars
<1>3. CASE Node
  <2>1. chunk' = chunk \/ \E n, r : Deliver(n, r)
    BY <1>3 DEF Node, StartRender, SkipDispatch, AgentUnavailable, RecoverAgent,
       FinishRender, AbortGone, SelfFence, StopNode, ResumeNode, Crash, Restart, EntryExpires,
       dbVars
  <2>2. QED  BY <1>a, <2>1, SettledDeliver
<1>4. CASE Command
  <2>1. ASSUME NEW j \in Jobs, Requeue(j) \/ RetryFailed(j) PROVE Settled(c)' \/ Reopens(c)
    <3>1. CASE j = JobOf[c]
      BY <2>1, <3>1 DEF Reopens
    <3>2. CASE j # JobOf[c]
      BY <1>a, <2>1, <3>2 DEF Requeue, RetryFailed, OnJob
    <3>3. QED  BY <3>1, <3>2
  <2>2. ASSUME NEW d \in Chunks, RequeueChunk(d) PROVE Settled(c)' \/ Reopens(c)
    <3>1. CASE d = c
      BY <2>2, <3>1 DEF Reopens
    <3>2. CASE d # c
      BY <1>a, <1>b, <2>2, <3>2 DEF RequeueChunk
    <3>3. QED  BY <3>1, <3>2
  <2>3. ASSUME NEW d \in Chunks, StopOneChunk(d) PROVE Settled(c)'
    <3>1. CASE d = c
      BY <1>b, <2>3, <3>1 DEF StopOneChunk, StopChunk, Settled, Row
    <3>2. CASE d # c
      BY <1>a, <1>b, <2>3, <3>2 DEF StopOneChunk
    <3>3. QED  BY <3>1, <3>2
  <2>4. ASSUME NEW d \in Chunks, NEW n \in Nodes, AssignChunkTo(d, n) PROVE FALSE
    BY <2>4 DEF AssignChunkTo, Commanded, Quiet
  <2>5. CASE ResetRows
    <3>1. CASE edit.job = JobOf[c]
      BY <2>5, <3>1 DEF Reopens
    <3>2. CASE edit.job # JobOf[c]
      BY <1>a, <2>5, <3>2 DEF ResetRows, OnJob
    <3>3. QED  BY <3>1, <3>2
  <2>6. ASSUME NEW j \in Jobs, Cancel(j) PROVE Settled(c)'
    <3>1. chunk' = chunk \/ \E n, r : Deliver(n, r)
      BY <2>6 DEF Cancel
    <3>2. QED  BY <1>a, <3>1, SettledDeliver
  <2>7. CASE UNCHANGED chunk
    BY <2>7, <1>a
  <2>8. QED
    BY <1>4, <2>1, <2>2, <2>3, <2>4, <2>5, <2>6, <2>7 DEF Command, Pause, Resume, Archive,
       BeginEdit, BumpEpoch, FinishEdit
<1>5. QED  BY <1>1, <1>2, <1>3, <1>4 DEF Next

\* Only checkJobCompletions writes a final state.
LEMMA OnlyClosing ==
    ASSUME TypeOK, Next, NEW j \in Jobs, job'[j].state \in {"completed", "failed"}
    PROVE  \/ job[j].state \in {"completed", "failed"}
           \/ CloseJob /\ verdict # None /\ verdict.job = j
<1>0. job \in [Jobs -> [state : JobStates, epoch : Nat, manifest : Nat]]
  BY DEF TypeOK
<1>a. job'[j].state = job[j].state => job[j].state \in {"completed", "failed"}
  OBVIOUS
<1>b. ASSUME NEW i \in Jobs, NEW s \in {"active", "paused", "cancelled", "archived"},
             SetJobState(i, s)
      PROVE  job'[j].state = job[j].state
  <2>1. job' = [job EXCEPT ![i].state = s]
    BY <1>b DEF SetJobState
  <2>2. CASE i = j
    <3>1. job'[j].state = s
      BY <1>0, <2>1, <2>2
    <3>2. QED  BY <3>1
  <2>3. CASE i # j
    BY <1>0, <2>1, <2>3
  <2>4. QED  BY <2>2, <2>3
<1>1. CASE Tick
  <2>1. CASE CloseJob
    <3>1. verdict # None /\ job' = [job EXCEPT ![verdict.job].state = verdict.state]
      BY <2>1 DEF CloseJob, SetJobState
    <3>2. CASE verdict.job # j
      BY <1>0, <1>a, <3>1, <3>2
    <3>3. QED  BY <2>1, <3>1, <3>2
  <2>2. CASE ~CloseJob
    BY <1>1, <1>a, <2>2 DEF Tick, TickStart, ReclaimDead, ServePeers, ReadEpoch, AssignPicked,
       DropPicked, TickEnd, ApplyReport, ApplyRevert, JudgeJob, FindChunk, dbVars
  <2>3. QED  BY <2>1, <2>2
<1>2. CASE Network
  BY <1>2, <1>a DEF Network, PostArrives, PostAnswered, PostUnanswered, PostDropped,
     AbortArrives, AbortLost, FlushReport, Heartbeat, DeclareDead, dbVars
<1>3. CASE Node
  BY <1>3, <1>a DEF Node, StartRender, SkipDispatch, AgentUnavailable, RecoverAgent,
     FinishRender, AbortGone, SelfFence, StopNode, ResumeNode, Crash, Restart, EntryExpires,
     dbVars
<1>4. CASE Command
  <2>1. ASSUME NEW i \in Jobs,
               \/ Pause(i) \/ Resume(i) \/ Archive(i) \/ Cancel(i) \/ Requeue(i)
               \/ RetryFailed(i)
        PROVE  job'[j].state = job[j].state
    BY <1>b, <2>1 DEF Pause, Resume, Archive, Cancel, Requeue, RetryFailed
  <2>2. ASSUME NEW i \in Jobs, NEW how, BeginEdit(i, how) PROVE job'[j].state = job[j].state
    BY <1>0, <2>2 DEF BeginEdit
  <2>3. ASSUME NEW c \in Chunks, RequeueChunk(c) PROVE job'[j].state = job[j].state
    <3>1. JobOf[c] \in Jobs
      BY DispatchAssumption
    <3>2. QED  BY <1>b, <2>3, <3>1 DEF RequeueChunk, Reopen
  <2>4. CASE BumpEpoch
    BY <1>0, <2>4 DEF BumpEpoch
  <2>5. CASE FinishEdit
    <3>1. edit.job \in Jobs
      BY <2>5 DEF FinishEdit, TypeOK, Edit
    <3>2. QED  BY <1>a, <1>b, <2>5, <3>1 DEF FinishEdit
  <2>6. CASE UNCHANGED job
    BY <2>6
  <2>7. QED
    BY <1>4, <1>a, <2>1, <2>2, <2>3, <2>4, <2>5, <2>6 DEF Command, StopOneChunk,
       AssignChunkTo, ResetRows
<1>5. QED  BY <1>1, <1>2, <1>3, <1>4 DEF Next

\* A job that is opened again, or edited, is not closed.
LEMMA Reopened ==
    ASSUME TypeOK, NEW c \in Chunks, Reopens(c)
    PROVE  \/ job'[JobOf[c]].state \notin {"completed", "failed"}
           \/ edit' # None /\ edit'.job = JobOf[c]
<1>0. JobOf[c] \in Jobs /\ job \in [Jobs -> [state : JobStates, epoch : Nat, manifest : Nat]]
  BY DispatchAssumption DEF TypeOK
<1>1. SetJobState(JobOf[c], "active") => job'[JobOf[c]].state = "active"
  BY <1>0 DEF SetJobState
<1>2. CASE Requeue(JobOf[c]) \/ RetryFailed(JobOf[c]) \/ RequeueChunk(c)
  BY <1>1, <1>2 DEF Requeue, RetryFailed, RequeueChunk, Reopen
<1>3. CASE ResetRows /\ edit.job = JobOf[c]
  <2>1. edit \in Edit /\ edit' = [edit EXCEPT !.at = "finish"]
    BY <1>3 DEF ResetRows, TypeOK
  <2>2. edit' \in Edit /\ edit'.job = edit.job
    BY <2>1 DEF Edit
  <2>3. QED  BY <1>3, <2>2, AbsenceAssumption
<1>4. QED  BY <1>2, <1>3 DEF Reopens

\* An edit stays until it is finished, and that opens its job.
LEMMA EditStays ==
    ASSUME TypeOK, Next, edit # None
    PROVE  \/ edit' # None /\ edit'.job = edit.job
           \/ job'[edit.job].state = "active"
<1>0. edit \in Edit /\ None \notin Edit /\ edit.job \in Jobs
  BY AbsenceAssumption DEF TypeOK, Edit
<1>a. \A at \in {"reset", "finish"} : edit' = [edit EXCEPT !.at = at] =>
        edit' # None /\ edit'.job = edit.job
  <2> SUFFICES ASSUME NEW at \in {"reset", "finish"}, edit' = [edit EXCEPT !.at = at]
               PROVE  edit' \in Edit /\ edit'.job = edit.job
    BY <1>0
  <2>1. QED  BY <1>0 DEF Edit
<1>1. CASE BumpEpoch
  BY <1>a, <1>1 DEF BumpEpoch
<1>2. CASE ResetRows
  BY <1>a, <1>2 DEF ResetRows
<1>3. CASE FinishEdit
  BY <1>0, <1>3 DEF FinishEdit, SetJobState, TypeOK
<1>4. CASE UNCHANGED edit
  BY <1>4
<1>5. ~\E j \in Jobs, how \in {"continue", "restart", "startover"} : BeginEdit(j, how)
  BY DEF BeginEdit
<1>6. QED
  BY <1>1, <1>2, <1>3, <1>4, <1>5 DEF Next, Tick, TickStart, ReclaimDead, CloseJob, ServePeers,
     ReadEpoch, AssignPicked, DropPicked, TickEnd, ApplyReport, ApplyRevert, JudgeJob, FindChunk,
     Network, PostArrives, PostAnswered, PostUnanswered, PostDropped, AbortArrives, AbortLost,
     FlushReport, Heartbeat, DeclareDead,
     Node, StartRender, SkipDispatch, AgentUnavailable, RecoverAgent, FinishRender, AbortGone,
     SelfFence, StopNode, ResumeNode, Crash, Restart, EntryExpires,
     Command, Pause, Resume, Archive, Cancel, Requeue, RetryFailed, BeginEdit, StopOneChunk,
     RequeueChunk, AssignChunkTo, leaderVars

\* Between the two statements of checkJobCompletions nothing is opened.
LEMMA VerdictStep ==
    ASSUME Quiet, TypeOK, Closing, Next
    PROVE  VerdictHolds'
<1> SUFFICES ASSUME verdict' # None
             PROVE  phase' = "jobs" /\ \A c \in ChunksOf(verdict'.job) : Settled(c)'
  BY DEF VerdictHolds
<1>1. CASE \E j \in Jobs : JudgeJob(j)
  <2> PICK j \in Jobs : JudgeJob(j)
    BY <1>1
  <2>1. /\ phase' = "jobs" /\ chunk' = chunk
        /\ CompletionState({chunk[c] : c \in ChunksOf(j)}) # None
        /\ verdict'.job = j
    BY DEF JudgeJob, dbVars
  <2>2. \A c \in ChunksOf(j) : Settled(c)
    BY <2>1 DEF CompletionState, Settled
  <2>3. QED  BY <2>1, <2>2 DEF Settled
<1>2. CASE ~\E j \in Jobs : JudgeJob(j)
  <2>1. verdict' = verdict
    <3>1. CASE Tick
      BY <1>2, <3>1 DEF Tick, TickStart, ReclaimDead, CloseJob, ServePeers, ReadEpoch,
         AssignPicked, DropPicked, TickEnd, ApplyReport, ApplyRevert, FindChunk
    <3>2. Tick \/ UNCHANGED verdict
      BY TickKeepsItsOwn, Zenon DEF tickVars
    <3>3. QED  BY <3>1, <3>2
  <2>2. /\ verdict # None /\ phase = "jobs" /\ edit = None
        /\ \A c \in ChunksOf(verdict.job) : Settled(c)
    BY <2>1 DEF Closing, VerdictHolds, EditsAtRest
  <2>3. ~Command /\ ~ServePeers
    BY <2>2 DEF Command, ServePeers, Pause, Resume, Archive, Cancel, Requeue, RetryFailed,
       BeginEdit, StopOneChunk, RequeueChunk, AssignChunkTo, BumpEpoch, ResetRows, FinishEdit,
       Commanded, MainThreadFree, Quiet
  <2>4. phase' = phase
    BY <2>2, <2>3 DEF MainThreadFree, Next, Tick, TickStart, ReclaimDead, CloseJob, ReadEpoch,
     AssignPicked, DropPicked, TickEnd, ApplyReport, ApplyRevert, JudgeJob, FindChunk,
     Network, PostArrives, PostAnswered, PostUnanswered, PostDropped, AbortArrives, AbortLost,
     FlushReport, Heartbeat, DeclareDead,
     Node, StartRender, SkipDispatch, AgentUnavailable, RecoverAgent, FinishRender, AbortGone,
     SelfFence, StopNode, ResumeNode, Crash, Restart, EntryExpires, tickVars
  <2>5. ASSUME NEW c \in ChunksOf(verdict.job) PROVE Settled(c)'
    <3>1. c \in Chunks /\ Settled(c)
      BY <2>2 DEF ChunksOf
    <3>2. ~Reopens(c)
      BY <2>2 DEF Reopens, Requeue, RetryFailed, RequeueChunk, ResetRows, Commanded,
         MainThreadFree, Quiet
    <3>3. QED  BY <3>1, <3>2, SettledStays DEF Closing
  <2>6. QED  BY <2>1, <2>2, <2>4, <2>5
<1>3. QED  BY <1>1, <1>2

\* A closed job stays settled until it is opened.
LEMMA ClosedStep ==
    ASSUME Quiet, TypeOK, Closing, Next
    PROVE  FinishedJobsAreSettled'
<1> SUFFICES ASSUME NEW c \in Chunks, job'[JobOf[c]].state \in {"completed", "failed"},
                    edit' # None => edit'.job # JobOf[c]
             PROVE  Settled(c)'
  BY DEF FinishedJobsAreSettled, Settled
<1>0. JobOf[c] \in Jobs
  BY DispatchAssumption
<1>1. Settled(c)
  <2>1. edit # None => edit.job # JobOf[c]
    BY EditStays
  <2>2. CASE job[JobOf[c]].state \in {"completed", "failed"}
    BY <2>1, <2>2 DEF Closing, FinishedJobsAreSettled, Settled
  <2>3. CASE CloseJob /\ verdict # None /\ verdict.job = JobOf[c]
    BY <2>3 DEF Closing, VerdictHolds, ChunksOf
  <2>4. QED  BY <1>0, <2>2, <2>3, OnlyClosing
<1>2. ~Reopens(c)
  BY Reopened
<1>3. QED  BY <1>1, <1>2, SettledStays DEF Closing

\* checkJobCompletions marks a job completed or failed only around chunks that
\* are completed, failed or stopped, and they stay so until a command opens
\* the job again: no late report and no edit undoes it.
THEOREM ClosedJobsAreSettled ==
    ASSUME Quiet
    PROVE  Spec => []FinishedJobsAreSettled
<1>1. Timely
  BY DEF Quiet
<1>2. Init => Closing
  <2> SUFFICES ASSUME Init PROVE Closing
    OBVIOUS
  <2>1. NothingReturns /\ EditsAtRest /\ VerdictHolds
    BY DEF Init, NothingReturns, EditsAtRest, VerdictHolds
  <2>2. \A c \in Chunks : JobOf[c] \in Jobs
    BY DispatchAssumption
  <2>3. \A j \in Jobs : job[j].state = "active"
    BY DEF Init
  <2>4. FinishedJobsAreSettled
    BY <2>2, <2>3 DEF FinishedJobsAreSettled
  <2>5. QED  BY <2>1, <2>4 DEF Closing
<1>3. Tracked /\ Closing /\ [Next]_vars => Closing'
  <2> SUFFICES ASSUME Tracked, Closing, [Next]_vars PROVE Closing'
    OBVIOUS
  <2>1. NothingReturns' /\ EditsAtRest'
    BY NothingReturnsStep, EditsAtRestStep DEF Closing, Quiet
  <2>2. CASE Next
    BY <2>1, <2>2, VerdictStep, ClosedStep DEF Closing, Tracked
  <2>3. CASE UNCHANGED vars
    BY <2>3 DEF Closing, NothingReturns, EditsAtRest, VerdictHolds, FinishedJobsAreSettled,
       Settled, vars, dbVars, tickVars, leaderVars, nodeVars
  <2>4. QED  BY <2>2, <2>3
<1>4. Closing => FinishedJobsAreSettled
  BY DEF Closing
<1>5. QED  BY <1>1, <1>2, <1>3, <1>4, TrackedAlways, PTL DEF Spec

-----------------------------------------------------------------------------
(* The contract, while nobody interferes: what is done or given up stays    *)
(* so.                                                                      *)

\* No operator command, no delay and no stopped node.
Unhindered == Quiet /\ Controls = {}

\* A chunk that waits has no node.
OpenIsFree == \A c \in Chunks : chunk[c].state = "pending" => chunk[c].node = None

Calm == NothingReturns /\ edit = None /\ OpenIsFree

LEMMA NoCommand == ASSUME Unhindered, edit = None PROVE ~Command
BY DEF Unhindered, Command, Pause, Resume, Archive, Cancel, Requeue, RetryFailed, BeginEdit,
   StopOneChunk, RequeueChunk, AssignChunkTo, BumpEpoch, ResetRows, FinishEdit, Commanded

\* Of the ways to free a row only the return of a held chunk is left.
LEMMA CalmRow ==
    ASSUME Unhindered, Honest, Blacklist, Calm, [Next]_vars, NEW c \in Chunks
    PROVE  /\ \/ StatusOf(chunk'[c]) = StatusOf(chunk[c])
              \/ Undisturbed!Step(StatusOf(chunk[c]), StatusOf(chunk'[c]))
           /\ chunk'[c].state = "pending" => chunk'[c].node = None
<1> DEFINE row == chunk[c]
           new == chunk'[c]
<1>0. /\ row \in Row /\ new \in Row /\ RowStep(c) /\ TypeOK /\ Quiet
      /\ "assignTo" \notin Controls /\ NothingReturns
      /\ row.state = "pending" => row.node = None
  BY RowSteps, TypeStep DEF Honest, TypeOK, Unhindered, Calm, OpenIsFree
<1>1. CASE new # row /\ Freed(row, new)
  <2>1. Returned(row, new)
    <3>1. CASE new = Failed(row, row.node, MaxRetries)
      <4>1. new.failedOn # {} /\ new.state \in {"pending", "failed"}
        BY <1>0, <3>1 DEF Failed, Unassigned, Row
      <4>2. QED  BY <1>1, <4>1 DEF Freed, Returned
    <3>2. new # [row EXCEPT !.state = "completed"] /\ new # AssignChunk(row, pick.node, pick.epoch)
      BY <1>0, <1>1 DEF Freed, AssignChunk, Row
    <3>3. ~Command
      BY NoCommand DEF Calm
    <3>4. QED  BY <1>0, <1>1, <3>1, <3>2, <3>3 DEF RowStep
  <2>2. new.state = "pending" /\ new.node = None /\ new.failedOn = row.failedOn
    BY <1>1, <2>1 DEF Freed, Returned
  <2>3. CASE row.state = "pending"
    BY <1>0, <2>2, <2>3 DEF StatusOf
  <2>4. CASE row.state = "assigned"
    <3>1. Undisturbed!Return(StatusOf(row), StatusOf(new))
      BY <2>2, <2>4 DEF Undisturbed!Return, StatusOf, StatusState
    <3>2. QED  BY <2>2, <3>1 DEF Undisturbed!Step
  <2>5. CASE Settled(c)
    <3>1. ~Reopens(c)
      BY DEF Reopens, Unhindered, Calm, Requeue, RetryFailed, RequeueChunk, ResetRows, Commanded
    <3>2. ~Settled(c)'
      BY <2>2 DEF Settled
    <3>3. CASE Next
      BY <1>0, <2>5, <3>1, <3>2, <3>3, SettledStays
    <3>4. CASE UNCHANGED vars
      BY <2>5, <3>2, <3>4 DEF Settled, vars, dbVars
    <3>5. QED  BY <3>3, <3>4
  <2>6. QED  BY <1>0, <2>3, <2>4, <2>5 DEF Settled, Row, ChunkStates
<1>2. CASE new = row
  BY <1>0, <1>2
<1>3. CASE ~Freed(row, new)
  <2>1. \/ StatusOf(new) = StatusOf(row)
        \/ Disturbed!Take(StatusOf(row), StatusOf(new))
        \/ Disturbed!Finish(StatusOf(row), StatusOf(new))
        \/ Disturbed!Fail(StatusOf(row), StatusOf(new))
    BY <1>0, <1>3, RowKeepsContract
  <2>2. \/ StatusOf(new) = StatusOf(row)
        \/ Undisturbed!Step(StatusOf(row), StatusOf(new))
    <3>1. Disturbed!Take(StatusOf(row), StatusOf(new))
            => Undisturbed!Take(StatusOf(row), StatusOf(new))
      BY DEF Disturbed!Take, Undisturbed!Take
    <3>2. Disturbed!Finish(StatusOf(row), StatusOf(new))
            => Undisturbed!Finish(StatusOf(row), StatusOf(new))
      BY DEF Disturbed!Finish, Undisturbed!Finish
    <3>3. Disturbed!Fail(StatusOf(row), StatusOf(new))
            => Undisturbed!Fail(StatusOf(row), StatusOf(new))
      BY DEF Disturbed!Fail, Undisturbed!Fail, Disturbed!Cardinality, Undisturbed!Cardinality
    <3>4. QED  BY <2>1, <3>1, <3>2, <3>3 DEF Undisturbed!Step
  <2>3. new.state = "pending" => new.node = None
    <3>1. CASE new = row
      BY <1>0, <3>1
    <3>2. CASE new = Failed(row, row.node, MaxRetries)
      BY <1>0, <3>2 DEF Failed, Unassigned, Row
    <3>3. CASE new = [row EXCEPT !.state = "completed"]
      BY <1>0, <3>3 DEF Row
    <3>4. CASE new = AssignChunk(row, pick.node, pick.epoch)
      BY <1>0, <3>4 DEF AssignChunk, Row
    <3>5. QED  BY <1>0, <1>3, <3>1, <3>2, <3>3, <3>4 DEF RowStep
  <2>4. QED  BY <2>2, <2>3
<1>4. QED  BY <1>1, <1>2, <1>3

\* Without commands there is no edit.
LEMMA NoEdit == ASSUME Unhindered, edit = None, [Next]_vars PROVE edit' = None
<1>1. ~Command
  BY NoCommand
<1>2. CASE Tick
  BY <1>2 DEF Tick, TickStart, ReclaimDead, CloseJob, ServePeers, ReadEpoch,
     AssignPicked, DropPicked, TickEnd, ApplyReport, ApplyRevert, JudgeJob, FindChunk, leaderVars
<1>3. CASE Network
  BY <1>3 DEF Network, PostArrives, PostAnswered, PostUnanswered, PostDropped, AbortArrives,
     AbortLost, FlushReport, Heartbeat, DeclareDead
<1>4. CASE Node
  BY <1>4 DEF Node, StartRender, SkipDispatch, AgentUnavailable, RecoverAgent, FinishRender,
     AbortGone, SelfFence, StopNode, ResumeNode, Crash, Restart, EntryExpires, leaderVars
<1>5. QED  BY <1>1, <1>2, <1>3, <1>4 DEF Next, vars, leaderVars

\* While no operator interferes, no POST or poll is late and no node is
\* stopped or crashes, every statement on the chunk table, from whichever
\* thread and however late or repeated the report behind it, is a step of the
\* strict contract: a chunk that is done or given up stays so.
THEOREM DispatchKeepsStrictContract ==
    ASSUME Unhindered
    PROVE  Spec => KeepsTheContract
<1>0. Quiet /\ Timely /\ "assignTo" \notin Controls
  BY DEF Unhindered, Quiet
<1>1. Init => Calm /\ Undisturbed!Init
  BY DEF Init, FreshRow, Calm, NothingReturns, OpenIsFree, Undisturbed!Init, StatusMap,
     StatusOf, StatusState
<1>2. Tracked /\ Honest /\ Blacklist /\ Calm /\ [Next]_vars => Calm' /\ [Undisturbed!Next]_StatusMap
  <2> SUFFICES ASSUME Tracked, Honest, Blacklist, Calm, [Next]_vars
               PROVE  Calm' /\ Undisturbed!Next
    OBVIOUS
  <2>1. NothingReturns' /\ edit' = None
    BY <1>0, NothingReturnsStep, NoEdit DEF Calm
  <2>2. \A c \in Chunks : /\ \/ StatusOf(chunk'[c]) = StatusOf(chunk[c])
                             \/ Undisturbed!Step(StatusOf(chunk[c]), StatusOf(chunk'[c]))
                          /\ chunk'[c].state = "pending" => chunk'[c].node = None
    BY CalmRow
  <2>3. \A c \in Chunks : chunk'[c] \in Row
    BY TypeStep DEF Honest, TypeOK
  <2>4. StatusMap' \in [Chunks -> Undisturbed!Status]
    BY <2>3 DEF StatusMap, Row, ChunkStates, StatusOf, StatusState, Undisturbed!Status
  <2>5. \A c \in Chunks : /\ StatusMap'[c] = StatusOf(chunk'[c])
                          /\ StatusMap[c] = StatusOf(chunk[c])
    BY DEF StatusMap
  <2>6. Undisturbed!Next
    BY <2>2, <2>4, <2>5 DEF Undisturbed!Next
  <2>7. QED  BY <2>1, <2>2, <2>6 DEF Calm, OpenIsFree
<1>3. QED
  BY <1>0, <1>1, <1>2, TrackedAlways, BlacklistAlways, PTL
  DEF Spec, KeepsTheContract, Undisturbed!Spec

-----------------------------------------------------------------------------
(* Where work comes from.  A dispatch that is on the wire, on a node or in  *)
(* a report was there before, or has just been assigned.                    *)

SentFrom(S) == \A p \in posts : p.work \in S

HeldFrom(S) == \A n \in Nodes : /\ queue[n] \in Seq(S)
                                /\ active[n] # None => active[n] \in S

ReportsOf(S) == {r \in Report : r.work \in S}

ReportedFrom(S) ==
    /\ \A n \in Nodes : outbox[n] \in Seq(ReportsOf(S))
    /\ \A r \in inbox \cup batch : r.work \in S

PlacedIn(S) == SentFrom(S) /\ HeldFrom(S) /\ ReportedFrom(S)

LEMMA PlacedGrows ==
    ASSUME NEW S, NEW T, S \subseteq T, PlacedIn(S)
    PROVE  PlacedIn(T)
<1>1. Seq(S) \subseteq Seq(T) /\ Seq(ReportsOf(S)) \subseteq Seq(ReportsOf(T))
  <2>1. ReportsOf(S) \subseteq ReportsOf(T)
    BY DEF ReportsOf
  <2>2. QED  BY <2>1, SeqMonotonic
<1>2. QED  BY <1>1 DEF PlacedIn, SentFrom, HeldFrom, ReportedFrom

\* assignWork is the only sender.
LEMMA SentStep ==
    ASSUME NEW S, TypeOK, PlacedIn(S), [Next]_vars, AssignPicked => Picked \in S
    PROVE  SentFrom(S)'
<1>a. posts' \subseteq posts => SentFrom(S)'
  BY DEF PlacedIn, SentFrom
<1>1. CASE AssignPicked
  BY <1>1 DEF AssignPicked, PlacedIn, SentFrom
<1>2. ASSUME NEW p \in posts, PostArrives(p) \/ PostUnanswered(p) PROVE SentFrom(S)'
  <2>1. \A q \in posts' : q \in posts \/ \E s \in {"taken", "refused", "givenUp"} :
                                            q = [p EXCEPT !.stage = s]
    BY <1>2 DEF PostArrives, PostUnanswered
  <2>2. \A s : [p EXCEPT !.stage = s].work = p.work
    BY DEF TypeOK, Post
  <2>3. QED  BY <2>1, <2>2 DEF PlacedIn, SentFrom
<1>3. ASSUME NEW p \in posts, PostAnswered(p) \/ PostDropped(p) PROVE SentFrom(S)'
  BY <1>3, <1>a DEF PostAnswered, PostDropped
<1>4. CASE UNCHANGED posts
  BY <1>4, <1>a
<1>5. QED
  BY <1>1, <1>2, <1>3, <1>4 DEF Next, Tick, TickStart, ReclaimDead, CloseJob, ServePeers,
     ReadEpoch, DropPicked, TickEnd, ApplyReport, ApplyRevert, JudgeJob, FindChunk,
     Network, AbortArrives, AbortLost, FlushReport, Heartbeat, DeclareDead,
     Node, StartRender, SkipDispatch, AgentUnavailable, RecoverAgent, FinishRender, AbortGone,
     SelfFence, StopNode, ResumeNode, Crash, Restart, EntryExpires,
     Command, Pause, Resume, Archive, Cancel, Requeue, RetryFailed, BeginEdit, StopOneChunk,
     RequeueChunk, AssignChunkTo, BumpEpoch, ResetRows, FinishEdit, vars, leaderVars

\* What a purge leaves was there.
LEMMA AbandonHeld ==
    ASSUME NEW S, TypeOK, HeldFrom(S), NEW m \in Nodes, NEW j, Abandon(m, j)
    PROVE  HeldFrom(S)'
<1>1. Keep(queue[m], j) \in Seq(S)
  BY KeepType DEF HeldFrom
<1>2. queue' = [queue EXCEPT ![m] = Keep(queue[m], j)]
  BY DEF Abandon
<1>3. \A n \in Nodes : queue'[n] \in Seq(S)
  BY <1>1, <1>2 DEF HeldFrom, TypeOK
<1>4. \A n \in Nodes : active'[n] # None => active'[n] \in S
  BY DEF Abandon, TypeOK, HeldFrom
<1>5. QED  BY <1>3, <1>4 DEF HeldFrom

\* A node holds what it was sent, and the leader's own what it was given.
LEMMA HeldStep ==
    ASSUME NEW S, TypeOK, PlacedIn(S), [Next]_vars, AssignPicked => Picked \in S
    PROVE  HeldFrom(S)'
<1>0. SentFrom(S) /\ HeldFrom(S)
  BY DEF PlacedIn
<1>a. UNCHANGED <<queue, active>> => HeldFrom(S)'
  BY <1>0 DEF HeldFrom
<1>b. \A j : AbandonLocal(j) => HeldFrom(S)'
  BY <1>0, <1>a, AbandonHeld DEF AbandonLocal
<1>c. ASSUME NEW n \in Nodes, NEW w \in S, queue' = [queue EXCEPT ![n] = Append(@, w)],
             UNCHANGED active
      PROVE  HeldFrom(S)'
  <2>1. Append(queue[n], w) \in Seq(S)
    BY <1>0 DEF HeldFrom
  <2>2. \A m \in Nodes : queue'[m] \in Seq(S)
    BY <1>0, <1>c, <2>1 DEF HeldFrom, TypeOK
  <2>3. QED  BY <1>0, <1>c, <2>2 DEF HeldFrom
<1>1. CASE Tick
  <2>1. CASE AssignPicked
    <3>1. CASE pick.node = Local
      <4>1. Local \in Nodes
        BY <2>1, <3>1 DEF AssignPicked, TypeOK, Pick
      <4>2. queue' = [queue EXCEPT ![Local] = Append(@, Picked)] /\ UNCHANGED active
        BY <2>1, <3>1 DEF AssignPicked
      <4>3. PICK w : w = Picked
        OBVIOUS
      <4>4. w \in S /\ queue' = [queue EXCEPT ![Local] = Append(@, w)]
        BY <2>1, <4>2, <4>3
      <4>5. QED  BY <1>c, <4>1, <4>2, <4>4
    <3>2. CASE pick.node # Local
      BY <1>a, <2>1, <3>2 DEF AssignPicked
    <3>3. QED  BY <3>1, <3>2
  <2>2. CASE ~AssignPicked
    BY <1>1, <1>a, <2>2 DEF Tick, TickStart, ReclaimDead, CloseJob, ServePeers, ReadEpoch,
       DropPicked, TickEnd, ApplyReport, ApplyRevert, JudgeJob, FindChunk, nodeVars
  <2>3. QED  BY <2>1, <2>2
<1>2. CASE Network
  <2>1. ASSUME NEW p \in posts, PostArrives(p) PROVE HeldFrom(S)'
    <3>1. p.work.node \in Nodes /\ p.work \in S
      BY <1>0 DEF SentFrom, TypeOK, Post, Work
    <3>2. PICK n, w : n = p.work.node /\ w = p.work
      OBVIOUS
    <3>3. /\ UNCHANGED active
          /\ queue' = queue \/ queue' = [queue EXCEPT ![n] = Append(@, w)]
      BY <2>1, <3>2 DEF PostArrives
    <3>4. QED  BY <1>a, <1>c, <3>1, <3>2, <3>3
  <2>2. ASSUME NEW n \in Nodes, NEW j \in Jobs, AbortArrives(n, j) PROVE HeldFrom(S)'
    BY <1>0, <1>a, <2>2, AbandonHeld DEF AbortArrives
  <2>3. CASE UNCHANGED <<queue, active>>
    BY <2>3, <1>a
  <2>4. QED
    BY <1>2, <2>1, <2>2, <2>3 DEF Network, PostAnswered, PostUnanswered, PostDropped,
       AbortLost, FlushReport, Heartbeat, DeclareDead, nodeVars
<1>3. CASE Node
  <2> PICK n \in Nodes :
             \/ StartRender(n) \/ SkipDispatch(n) \/ AgentUnavailable(n)
             \/ RecoverAgent(n) \/ FinishRender(n) \/ AbortGone(n) \/ SelfFence(n)
             \/ StopNode(n) \/ ResumeNode(n) \/ Crash(n) \/ Restart(n) \/ EntryExpires(n)
    BY <1>3 DEF Node
  <2>a. /\ <<>> \in Seq(S) /\ queue[n] \in Seq(S) /\ (active[n] # None => active[n] \in S)
        /\ queue[n] # <<>> => Head(queue[n]) \in S /\ Tail(queue[n]) \in Seq(S)
    BY <1>0 DEF HeldFrom
  <2>b. ASSUME NEW q \in Seq(S), NEW w, w # None => w \in S,
               queue' = [queue EXCEPT ![n] = q], active' = [active EXCEPT ![n] = w]
        PROVE  HeldFrom(S)'
    <3>1. \A m \in Nodes : queue'[m] \in Seq(S)
      BY <1>0, <2>b DEF HeldFrom, TypeOK
    <3>2. \A m \in Nodes : active'[m] # None => active'[m] \in S
      BY <1>0, <2>b DEF HeldFrom, TypeOK
    <3>3. QED  BY <3>1, <3>2 DEF HeldFrom
  <2>c. queue = [queue EXCEPT ![n] = queue[n]] /\ active = [active EXCEPT ![n] = active[n]]
    BY DEF TypeOK
  <2>1. CASE StartRender(n)
    BY <2>1, <2>a, <2>b DEF StartRender
  <2>2. CASE SkipDispatch(n) \/ AgentUnavailable(n)
    BY <2>2, <2>a, <2>b, <2>c DEF SkipDispatch, AgentUnavailable
  <2>3. CASE FinishRender(n) \/ StopNode(n)
    BY <2>3, <2>a, <2>b, <2>c DEF FinishRender, StopNode
  <2>4. CASE Crash(n)
    BY <2>4, <2>a, <2>b DEF Crash
  <2>5. CASE AbortGone(n) \/ SelfFence(n)
    BY <1>0, <2>5, AbandonHeld DEF AbortGone, SelfFence
  <2>6. CASE RecoverAgent(n) \/ ResumeNode(n) \/ Restart(n) \/ EntryExpires(n)
    BY <2>6, <1>a DEF RecoverAgent, ResumeNode, Restart, EntryExpires
  <2>7. QED  BY <2>1, <2>2, <2>3, <2>4, <2>5, <2>6
<1>4. CASE Command
  BY <1>4, <1>a, <1>b DEF Command, Pause, Resume, Archive, Cancel, Requeue, RetryFailed,
     BeginEdit, StopOneChunk, RequeueChunk, AssignChunkTo, BumpEpoch, ResetRows, FinishEdit,
     nodeVars
<1>5. CASE UNCHANGED vars
  BY <1>5, <1>a DEF vars, nodeVars
<1>6. QED  BY <1>1, <1>2, <1>3, <1>4, <1>5 DEF Next

\* A node reports what it holds, and reports are handed on.
LEMMA ReportedStep ==
    ASSUME NEW S, TypeOK, PlacedIn(S), [Next]_vars
    PROVE  ReportedFrom(S)'
<1>0. /\ HeldFrom(S) /\ ReportedFrom(S)
      /\ outbox \in [Nodes -> Seq(Report)] /\ inbox \cup batch \subseteq Report
  BY DEF PlacedIn, TypeOK
<1>a. ASSUME (inbox \cup batch)' \subseteq inbox \cup batch, UNCHANGED outbox
      PROVE  ReportedFrom(S)'
  BY <1>0, <1>a DEF ReportedFrom, ReportsOf
<1>b. ASSUME NEW n \in Nodes, NEW q \in Seq(ReportsOf(S)), UNCHANGED batch,
             \A r \in inbox' : r.work \in S, outbox' = [outbox EXCEPT ![n] = q]
      PROVE  ReportedFrom(S)'
  <2>1. \A m \in Nodes : outbox'[m] \in Seq(ReportsOf(S))
    BY <1>0, <1>b DEF ReportedFrom
  <2>2. \A r \in (inbox \cup batch)' : r.work \in S
    BY <1>0, <1>b DEF ReportedFrom
  <2>3. QED  BY <2>1, <2>2 DEF ReportedFrom, ReportsOf
<1>c. ASSUME NEW n \in Nodes, NEW kind \in {"completed", "failed"}, NEW w \in S, w \in Work,
             UNCHANGED <<inbox, batch>>, Deliver(n, [kind |-> kind, work |-> w])
      PROVE  ReportedFrom(S)'
  <2>1. PICK r : r = [kind |-> kind, work |-> w]
    OBVIOUS
  <2>2. r \in ReportsOf(S)
    BY <1>c, <2>1 DEF ReportsOf, Report
  <2>3. Append(outbox[n], r) \in Seq(ReportsOf(S))
    BY <1>0, <2>2 DEF ReportedFrom
  <2>4. outbox' = outbox \/ outbox' = [outbox EXCEPT ![n] = Append(outbox[n], r)]
    BY <1>c, <2>1 DEF Deliver
  <2>5. CASE outbox' = outbox
    BY <1>a, <1>c, <2>5
  <2>6. CASE outbox' = [outbox EXCEPT ![n] = Append(outbox[n], r)]
    BY <1>0, <1>b, <1>c, <2>3, <2>6 DEF ReportedFrom
  <2>7. QED  BY <2>4, <2>5, <2>6
<1>d. \A n \in Nodes : /\ active[n] # None => active[n] \in S /\ active[n] \in Work
                       /\ queue[n] # <<>> => Head(queue[n]) \in S /\ Head(queue[n]) \in Work
  BY <1>0 DEF HeldFrom, TypeOK
<1>1. CASE Tick
  BY <1>1, <1>a DEF Tick, TickStart, ReclaimDead, CloseJob, ServePeers, ReadEpoch,
     AssignPicked, DropPicked, TickEnd, ApplyReport, ApplyRevert, JudgeJob, FindChunk,
     leaderVars, nodeVars
<1>2. CASE Network
  <2>1. ASSUME NEW n \in Nodes, FlushReport(n) PROVE ReportedFrom(S)'
    <3>1. outbox[n] \in Seq(ReportsOf(S)) /\ outbox[n] # <<>>
      BY <1>0, <2>1 DEF FlushReport, ReportedFrom
    <3>2. Head(outbox[n]) \in ReportsOf(S) /\ Tail(outbox[n]) \in Seq(ReportsOf(S))
      BY <3>1
    <3>3. inbox' = inbox \/ inbox' = inbox \cup {Head(outbox[n])}
      BY <2>1 DEF FlushReport
    <3>4. Head(outbox[n]).work \in S
      BY <3>2 DEF ReportsOf
    <3>5. \A r \in inbox' : r.work \in S
      BY <1>0, <3>3, <3>4 DEF ReportedFrom
    <3>6. /\ UNCHANGED batch
          /\ \/ outbox' = [outbox EXCEPT ![n] = Tail(outbox[n])]
             \/ outbox' = [outbox EXCEPT ![n] = outbox[n]]
      BY <1>0, <2>1 DEF FlushReport, tickVars
    <3>7. QED  BY <1>b, <3>1, <3>2, <3>5, <3>6
  <2>2. CASE UNCHANGED <<inbox, batch, outbox>>
    BY <2>2, <1>a
  <2>3. QED
    BY <1>2, <2>1, <2>2 DEF Network, PostArrives, PostAnswered, PostUnanswered, PostDropped,
       AbortArrives, AbortLost, Heartbeat, DeclareDead, tickVars, nodeVars
<1>3. CASE Node
  <2> PICK n \in Nodes :
             \/ StartRender(n) \/ SkipDispatch(n) \/ AgentUnavailable(n)
             \/ RecoverAgent(n) \/ FinishRender(n) \/ AbortGone(n) \/ SelfFence(n)
             \/ StopNode(n) \/ ResumeNode(n) \/ Crash(n) \/ Restart(n) \/ EntryExpires(n)
    BY <1>3 DEF Node
  <2>0. UNCHANGED <<inbox, batch>>
    BY DEF StartRender, SkipDispatch, AgentUnavailable, RecoverAgent, FinishRender, AbortGone,
       SelfFence, StopNode, ResumeNode, Crash, Restart, EntryExpires, tickVars, leaderVars
  <2>1. CASE UNCHANGED outbox
    BY <2>0, <2>1, <1>a
  <2>2. CASE AgentUnavailable(n)
    <3>1. PICK w : w = Head(queue[n])
      OBVIOUS
    <3>2. Deliver(n, [kind |-> "failed", work |-> w]) /\ w \in S /\ w \in Work
      BY <1>d, <2>2, <3>1 DEF AgentUnavailable
    <3>3. QED  BY <2>0, <3>2, <1>c
  <2>3. CASE FinishRender(n) \/ AbortGone(n) \/ StopNode(n)
    <3>1. PICK w : w = active[n]
      OBVIOUS
    <3>2. \/ UNCHANGED outbox
          \/ /\ \E kind \in {"completed", "failed"} : Deliver(n, [kind |-> kind, work |-> w])
             /\ w \in S /\ w \in Work
      BY <1>d, <2>3, <3>1 DEF FinishRender, AbortGone, StopNode
    <3>3. QED  BY <2>0, <2>1, <3>2, <1>c
  <2>4. CASE Crash(n)
    <3>1. <<>> \in Seq(ReportsOf(S)) /\ outbox' = [outbox EXCEPT ![n] = <<>>]
      BY <2>4 DEF Crash
    <3>2. QED  BY <1>0, <1>b, <2>0, <3>1 DEF ReportedFrom
  <2>5. QED
    BY <2>1, <2>2, <2>3, <2>4 DEF StartRender, SkipDispatch, RecoverAgent, SelfFence,
       ResumeNode, Restart, EntryExpires
<1>4. CASE Command
  <2>1. UNCHANGED <<inbox, batch>>
    BY <1>4 DEF Command, Pause, Resume, Archive, Cancel, Requeue, RetryFailed, BeginEdit,
       StopOneChunk, RequeueChunk, AssignChunkTo, BumpEpoch, ResetRows, FinishEdit,
       tickVars, leaderVars
  <2>2. CASE UNCHANGED outbox
    BY <2>1, <2>2, <1>a
  <2>3. CASE /\ Local \in Nodes /\ active[Local] # None
             /\ Deliver(Local, [kind |-> "failed", work |-> active[Local]])
    <3>1. PICK w : w = active[Local]
      OBVIOUS
    <3>2. Deliver(Local, [kind |-> "failed", work |-> w]) /\ w \in S /\ w \in Work
      BY <1>d, <2>3, <3>1
    <3>3. QED  BY <1>c, <2>1, <2>3, <3>2
  <2>4. QED
    BY <1>4, <2>2, <2>3 DEF Command, Pause, Resume, Archive, Cancel, Requeue, RetryFailed,
       BeginEdit, StopOneChunk, RequeueChunk, AssignChunkTo, BumpEpoch, ResetRows, FinishEdit,
       nodeVars
<1>5. CASE UNCHANGED vars
  BY <1>5, <1>a DEF vars, tickVars, leaderVars, nodeVars
<1>6. QED  BY <1>1, <1>2, <1>3, <1>4, <1>5 DEF Next

\* The three together.
LEMMA PlacedStep ==
    ASSUME NEW S, TypeOK, PlacedIn(S), [Next]_vars, AssignPicked => Picked \in S
    PROVE  PlacedIn(S)'
BY SentStep, HeldStep, ReportedStep DEF PlacedIn

\* In the first state there is no dispatch.
LEMMA PlacedInit == ASSUME NEW S, Init PROVE PlacedIn(S)
<1>1. <<>> \in Seq(S) /\ <<>> \in Seq(ReportsOf(S))
  OBVIOUS
<1>2. QED  BY <1>1 DEF Init, PlacedIn, SentFrom, HeldFrom, ReportedFrom

\* What a node carries or has reported is placed.
LEMMA CarriedPlaced ==
    ASSUME NEW S, TypeOK, PlacedIn(S), NEW n \in Nodes, NEW w \in Carried(n) \cup Reported(n)
    PROVE  w \in S
<1>1. CASE w \in {p.work : p \in {q \in posts : q.work.node = n
                                               /\ q.stage \in {"sent", "givenUp"}}}
  BY <1>1 DEF PlacedIn, SentFrom
<1>2. CASE w \in {queue[n][i] : i \in DOMAIN queue[n]}
  <2>1. PICK i \in DOMAIN queue[n] : w = queue[n][i]
    BY <1>2
  <2>2. queue[n] \in Seq(S)
    BY DEF PlacedIn, HeldFrom
  <2>3. QED  BY <2>1, <2>2
<1>3. CASE w \in {active[n]} \ {None}
  BY <1>3 DEF PlacedIn, HeldFrom
<1>4. CASE w \in {outbox[n][i].work : i \in DOMAIN outbox[n]}
  <2>1. PICK i \in DOMAIN outbox[n] : w = outbox[n][i].work
    BY <1>4
  <2>2. outbox[n] \in Seq(ReportsOf(S))
    BY DEF PlacedIn, ReportedFrom
  <2>3. outbox[n][i] \in ReportsOf(S)
    BY <2>1, <2>2
  <2>4. QED  BY <2>1, <2>3 DEF ReportsOf
<1>5. CASE w \in {r.work : r \in {s \in inbox \cup batch : s.work.node = n}}
  BY <1>5 DEF PlacedIn, ReportedFrom
<1>6. QED  BY <1>1, <1>2, <1>3, <1>4, <1>5 DEF Carried, Reported

-----------------------------------------------------------------------------
(* The edit fence.                                                          *)

\* A dispatch is older than its job's latest restart, or carries a manifest
\* at least as new.
Fenced(w) ==
    LET j == JobOf[w.chunk]
    IN  /\ w.epoch <= job[j].epoch
        /\ w.epoch = job[j].epoch => w.manifest >= fence[j]

FencedWork == {w \in Work : Fenced(w)}

\* The manifest was read before the epoch, and no edit came between.
FencedPick ==
    pick # None => /\ pick.manifest >= fence[JobOf[pick.chunk]]
                   /\ pick.epoch # None => pick.epoch = job[JobOf[pick.chunk]].epoch

\* The rows of the job are about to be reset.
BetweenBumpAndReset(c) == edit # None /\ edit.job = JobOf[c] /\ edit.at = "reset"

\* An assigned row was assigned under its job's epoch.
RowEpochs ==
    \A c \in Chunks : chunk[c].state = "assigned" /\ ~BetweenBumpAndReset(c)
                        => chunk[c].epoch = job[JobOf[c]].epoch

FenceBehind == \A j \in Jobs : fence[j] <= job[j].manifest

Fencing == /\ EditsAtRest /\ PickInPass /\ FenceBehind
           /\ PlacedIn(FencedWork) /\ FencedPick /\ RowEpochs

\* The second statement of an edit moves the epoch of one job, and the fence
\* with it; nothing else moves them, and the manifest only grows.
LEMMA Epochs ==
    ASSUME TypeOK, [Next]_vars, NEW j \in Jobs
    PROVE  /\ job'[j].manifest >= job[j].manifest
           /\ \/ job'[j].epoch = job[j].epoch /\ fence'[j] = fence[j]
              \/ /\ BumpEpoch /\ edit.job = j
                 /\ job'[j].epoch = job[j].epoch + 1 /\ fence'[j] = job'[j].manifest
<1>0. /\ job \in [Jobs -> [state : JobStates, epoch : Nat, manifest : Nat]]
      /\ fence \in [Jobs -> Nat]
      /\ job[j].manifest \in Nat /\ job[j].epoch \in Nat
  BY DEF TypeOK
<1>a. ASSUME NEW i, NEW s, SetJobState(i, s)
      PROVE  job'[j].manifest = job[j].manifest /\ job'[j].epoch = job[j].epoch
  BY <1>0, <1>a DEF SetJobState
<1>b. job' = job /\ fence' = fence =>
        /\ job'[j].manifest >= job[j].manifest
        /\ job'[j].epoch = job[j].epoch /\ fence'[j] = fence[j]
  BY <1>0
<1>c. ASSUME NEW i, NEW s, SetJobState(i, s), fence' = fence
      PROVE  /\ job'[j].manifest >= job[j].manifest
             /\ job'[j].epoch = job[j].epoch /\ fence'[j] = fence[j]
  BY <1>0, <1>a, <1>c
<1>1. CASE BumpEpoch
  <2>1. /\ job' = [job EXCEPT ![edit.job].epoch = @ + 1]
        /\ fence' = [fence EXCEPT ![edit.job] = job[edit.job].manifest]
    BY <1>1 DEF BumpEpoch
  <2>2. CASE edit.job = j
    <3>1. job'[j].manifest = job[j].manifest /\ job'[j].epoch = job[j].epoch + 1
      BY <1>0, <2>1, <2>2
    <3>2. fence'[j] = job[j].manifest
      BY <1>0, <2>1, <2>2
    <3>3. QED  BY <1>0, <1>1, <2>2, <3>1, <3>2
  <2>3. CASE edit.job # j
    BY <1>0, <2>1, <2>3
  <2>4. QED  BY <2>2, <2>3
<1>2. ASSUME NEW i \in Jobs, NEW how, BeginEdit(i, how)
      PROVE  /\ job'[j].manifest >= job[j].manifest
             /\ job'[j].epoch = job[j].epoch /\ fence'[j] = fence[j]
  <2>1. job' = [job EXCEPT ![i].manifest = @ + 1] /\ fence' = fence
    BY <1>2 DEF BeginEdit
  <2>2. CASE i = j
    BY <1>0, <2>1, <2>2
  <2>3. CASE i # j
    BY <1>0, <2>1, <2>3
  <2>4. QED  BY <2>2, <2>3
<1>3. CASE Tick
  <2>1. CASE CloseJob
    BY <1>c, <2>1 DEF CloseJob
  <2>2. CASE ~CloseJob
    BY <1>3, <1>b, <2>2 DEF Tick, TickStart, ReclaimDead, ServePeers, ReadEpoch, AssignPicked,
       DropPicked, TickEnd, ApplyReport, ApplyRevert, JudgeJob, FindChunk, dbVars
  <2>3. QED  BY <2>1, <2>2
<1>4. CASE Network
  BY <1>4, <1>b DEF Network, PostArrives, PostAnswered, PostUnanswered, PostDropped,
     AbortArrives, AbortLost, FlushReport, Heartbeat, DeclareDead, dbVars
<1>5. CASE Node
  BY <1>5, <1>b DEF Node, StartRender, SkipDispatch, AgentUnavailable, RecoverAgent,
     FinishRender, AbortGone, SelfFence, StopNode, ResumeNode, Crash, Restart, EntryExpires,
     dbVars
<1>6. CASE Command
  <2>1. ASSUME NEW i \in Jobs,
               \/ Pause(i) \/ Resume(i) \/ Archive(i) \/ Cancel(i) \/ Requeue(i)
               \/ RetryFailed(i)
        PROVE  /\ job'[j].manifest >= job[j].manifest
               /\ job'[j].epoch = job[j].epoch /\ fence'[j] = fence[j]
    BY <1>c, <2>1 DEF Pause, Resume, Archive, Cancel, Requeue, RetryFailed
  <2>2. ASSUME NEW c \in Chunks, RequeueChunk(c)
        PROVE  /\ job'[j].manifest >= job[j].manifest
               /\ job'[j].epoch = job[j].epoch /\ fence'[j] = fence[j]
    BY <1>b, <1>c, <2>2 DEF RequeueChunk, Reopen
  <2>3. CASE FinishEdit
    BY <1>c, <2>3 DEF FinishEdit
  <2>4. CASE job' = job /\ fence' = fence
    BY <1>b, <2>4
  <2>5. QED
    BY <1>1, <1>2, <1>6, <2>1, <2>2, <2>3, <2>4 DEF Command, StopOneChunk, AssignChunkTo,
       ResetRows
<1>7. CASE UNCHANGED vars
  BY <1>7, <1>b DEF vars, dbVars
<1>8. QED  BY <1>3, <1>4, <1>5, <1>6, <1>7 DEF Next

\* A dispatch that is fenced stays so.
LEMMA FencedGrows ==
    ASSUME TypeOK, FenceBehind, [Next]_vars
    PROVE  FencedWork \subseteq FencedWork' /\ FenceBehind'
<1>1. ASSUME NEW w \in Work, Fenced(w) PROVE Fenced(w)'
  <2> PICK j : j = JobOf[w.chunk]
    OBVIOUS
  <2>1. w.epoch \in Nat /\ w.manifest \in Nat /\ j \in Jobs
    BY DispatchAssumption DEF Work
  <2>2. job[j].epoch \in Nat
    BY <2>1 DEF TypeOK
  <2>3. w.epoch <= job[j].epoch /\ (w.epoch = job[j].epoch => w.manifest >= fence[j])
    BY <1>1 DEF Fenced
  <2>4. w.epoch <= job'[j].epoch /\ (w.epoch = job'[j].epoch => w.manifest >= fence'[j])
    <3>1. CASE job'[j].epoch = job[j].epoch /\ fence'[j] = fence[j]
      BY <2>3, <3>1
    <3>2. CASE job'[j].epoch = job[j].epoch + 1
      <4>1. w.epoch <= job[j].epoch + 1 /\ w.epoch # job[j].epoch + 1
        BY <2>1, <2>2, <2>3
      <4>2. QED  BY <3>2, <4>1
    <3>3. QED  BY <2>1, <3>1, <3>2, Epochs
  <2>5. QED  BY <2>4 DEF Fenced
<1>2. ASSUME NEW j \in Jobs PROVE fence'[j] <= job'[j].manifest
  <2>1. fence[j] \in Nat /\ job[j].manifest \in Nat /\ job'[j].manifest \in Nat
    BY TypeStep DEF TypeOK
  <2>2. fence[j] <= job[j].manifest
    BY DEF FenceBehind
  <2>3. job'[j].manifest >= job[j].manifest
        /\ (fence'[j] = fence[j] \/ fence'[j] = job'[j].manifest)
    BY Epochs
  <2>4. QED  BY <2>1, <2>2, <2>3
<1>3. QED  BY <1>1, <1>2 DEF FencedWork, FenceBehind

\* While a chunk is picked the main thread is in a pass, and jobs stand still.
LEMMA PassHoldsJobs ==
    ASSUME ~HttpControls, EditsAtRest, PickInPass, pick # None, [Next]_vars
    PROVE  job' = job /\ fence' = fence
<1>1. phase = "assign" /\ edit = None
  BY DEF EditsAtRest, PickInPass
<1>2. ~Command /\ ~CloseJob
  BY <1>1 DEF CloseJob, Command, Pause, Resume, Archive, Cancel, Requeue, RetryFailed,
     BeginEdit, StopOneChunk, RequeueChunk, AssignChunkTo, BumpEpoch, ResetRows, FinishEdit,
     Commanded, MainThreadFree
<1>3. QED
  BY <1>2 DEF Next, Tick, TickStart, ReclaimDead, CloseJob, ServePeers,
     ReadEpoch, AssignPicked, DropPicked, TickEnd, ApplyReport, ApplyRevert, JudgeJob, FindChunk,
     Network, PostArrives, PostAnswered, PostUnanswered, PostDropped, AbortArrives, AbortLost,
     FlushReport, Heartbeat, DeclareDead,
     Node, StartRender, SkipDispatch, AgentUnavailable, RecoverAgent, FinishRender, AbortGone,
     SelfFence, StopNode, ResumeNode, Crash, Restart, EntryExpires, vars, dbVars

\* The manifest and the epoch that are read in one pass belong together.
LEMMA FencedPickStep ==
    ASSUME ~HttpControls, TypeOK, Fencing, [Next]_vars
    PROVE  FencedPick'
<1> SUFFICES ASSUME pick' # None
             PROVE  /\ pick'.manifest >= fence'[JobOf[pick'.chunk]]
                    /\ pick'.epoch # None => pick'.epoch = job'[JobOf[pick'.chunk]].epoch
  BY DEF FencedPick
<1>1. CASE UNCHANGED pick
  BY <1>1, PassHoldsJobs DEF Fencing, FencedPick
<1>2. CASE ReadEpoch
  <2>1. pick # None /\ pick \in Pick /\ job' = job /\ fence' = fence
    BY <1>2, PassHoldsJobs DEF ReadEpoch, TypeOK, Fencing
  <2>2. pick' = [pick EXCEPT !.epoch = job[JobOf[pick.chunk]].epoch]
    BY <1>2 DEF ReadEpoch
  <2>3. /\ pick'.manifest = pick.manifest /\ pick'.chunk = pick.chunk
        /\ pick'.epoch = job[JobOf[pick.chunk]].epoch
    BY <2>1, <2>2 DEF Pick
  <2>4. QED  BY <2>1, <2>3 DEF Fencing, FencedPick
<1>3. ASSUME NEW n \in Nodes, FindChunk(n), pick' # pick
      PROVE  /\ pick'.manifest >= fence'[JobOf[pick'.chunk]]
             /\ pick'.epoch # None => pick'.epoch = job'[JobOf[pick'.chunk]].epoch
  <2>1. PICK c \in Offered(n) :
             pick' = [node |-> n, chunk |-> c, id |-> chunk[c].id,
                      manifest |-> job[JobOf[c]].manifest, epoch |-> None]
    BY <1>3 DEF FindChunk
  <2>2. job' = job /\ fence' = fence
    BY <1>3 DEF FindChunk, dbVars
  <2>3. JobOf[c] \in Jobs
    BY DispatchAssumption DEF Offered
  <2>4. fence[JobOf[c]] <= job[JobOf[c]].manifest
    BY <2>3 DEF Fencing, FenceBehind
  <2>5. fence[JobOf[c]] \in Nat /\ job[JobOf[c]].manifest \in Nat
    BY <2>3 DEF TypeOK
  <2>6. job[JobOf[c]].manifest >= fence[JobOf[c]]
    BY <2>4, <2>5
  <2>7. /\ pick'.manifest = job[JobOf[c]].manifest /\ pick'.chunk = c
        /\ pick'.epoch = None
    BY <2>1
  <2>8. QED  BY <2>2, <2>6, <2>7
<1>4. CASE Tick
  BY <1>1, <1>2, <1>3, <1>4 DEF Tick, TickStart, ReclaimDead, CloseJob, ServePeers, AssignPicked,
     DropPicked, TickEnd, ApplyReport, ApplyRevert, JudgeJob, FindChunk
<1>5. Tick \/ UNCHANGED pick
  BY TickKeepsItsOwn, Zenon DEF tickVars
<1>6. QED  BY <1>1, <1>4, <1>5

\* A row becomes assigned in one statement only.
LEMMA AssignedBefore ==
    ASSUME "assignTo" \notin Controls, Honest, [Next]_vars, NEW c \in Chunks,
           chunk'[c].state = "assigned"
    PROVE  \/ chunk'[c] = chunk[c]
           \/ /\ AssignPicked /\ pick # None /\ pick.epoch # None /\ pick.chunk = c
              /\ chunk'[c] = AssignChunk(chunk[c], pick.node, pick.epoch)
<1>0. RowStep(c) /\ chunk[c] \in Row /\ TypeOK
  BY RowSteps DEF Honest, TypeOK
<1>1. CASE Freed(chunk[c], chunk'[c])
  BY <1>1 DEF Freed
<1>2. CASE chunk'[c] = Failed(chunk[c], chunk[c].node, MaxRetries)
  BY <1>0, <1>2 DEF Failed, Unassigned, Row
<1>3. CASE chunk'[c] = [chunk[c] EXCEPT !.state = "completed"]
  BY <1>0, <1>3 DEF Row
<1>4. CASE /\ chunk[c].state = "pending" /\ pick # None /\ pick' = None /\ pick.chunk = c
           /\ chunk'[c] = AssignChunk(chunk[c], pick.node, pick.epoch)
  <2>1. CASE AssignPicked
    BY <1>4, <2>1 DEF AssignPicked
  <2>2. CASE DropPicked
    <3>1. \/ chunk' = chunk
          \/ chunk' = [chunk EXCEPT ![pick.chunk] = Undispatched(@, pick.node, pick.epoch)]
      BY <2>2 DEF DropPicked
    <3>2. CASE chunk' = [chunk EXCEPT ![pick.chunk] = Undispatched(@, pick.node, pick.epoch)]
      <4>1. chunk'[c] = Undispatched(chunk[c], pick.node, pick.epoch)
        BY <1>0, <1>4, <3>2 DEF TypeOK
      <4>2. chunk'[c].state = "pending"
        BY <1>0, <4>1 DEF Undispatched, RevertChunkToPending, Unassigned, AssignChunk, Row
      <4>3. QED  BY <4>2
    <3>3. QED  BY <3>1, <3>2
  <2>3. CASE chunk' = chunk
    BY <2>3
  <2>4. CASE Tick
    BY <1>4, <2>1, <2>2, <2>3, <2>4 DEF Tick, TickStart, ReclaimDead, CloseJob, ServePeers,
       ReadEpoch, TickEnd, ApplyReport, ApplyRevert, JudgeJob, FindChunk, dbVars
  <2>5. Tick \/ UNCHANGED pick
    BY TickKeepsItsOwn, Zenon DEF tickVars
  <2>6. QED  BY <1>4, <2>4, <2>5
<1>5. QED  BY <1>0, <1>1, <1>2, <1>3, <1>4 DEF RowStep

\* Under "assigned" stands the epoch of the job.
LEMMA RowEpochsStep ==
    ASSUME ~HttpControls, "assignTo" \notin Controls, Honest, Fencing, [Next]_vars
    PROVE  RowEpochs'
<1> SUFFICES ASSUME NEW c \in Chunks, chunk'[c].state = "assigned", ~BetweenBumpAndReset(c)'
             PROVE  chunk'[c].epoch = job'[JobOf[c]].epoch
  BY DEF RowEpochs
<1>0. TypeOK /\ JobOf[c] \in Jobs /\ chunk[c] \in Row
  BY DispatchAssumption DEF Honest, TypeOK
<1>1. CASE AssignPicked /\ pick # None /\ pick.epoch # None /\ pick.chunk = c
           /\ chunk'[c] = AssignChunk(chunk[c], pick.node, pick.epoch)
  <2>1. chunk'[c].epoch = pick.epoch
    BY <1>0, <1>1 DEF AssignChunk, Row
  <2>2. job' = job
    BY <1>1 DEF AssignPicked
  <2>3. QED  BY <1>1, <2>1, <2>2 DEF Fencing, FencedPick
<1>2. CASE chunk'[c] = chunk[c]
  <2>1. CASE ResetRows /\ edit.job = JobOf[c]
    <3>1. chunk'[c] = ResetAssignedChunk(chunk[c]) \/ chunk'[c] = RebuildChunk(chunk[c])
      BY <2>1 DEF ResetRows, OnJob
    <3>2. ResetAssignedChunk(chunk[c]).state # "assigned"
      BY <1>0 DEF ResetAssignedChunk, Unassigned, Row
    <3>3. RebuildChunk(chunk[c]).state = "pending"
      BY DEF RebuildChunk, FreshRow
    <3>4. QED  BY <3>1, <3>2, <3>3
  <2>2. CASE BumpEpoch /\ edit.job = JobOf[c]
    <3>1. edit \in Edit /\ edit' = [edit EXCEPT !.at = "reset"]
      BY <1>0, <2>2 DEF BumpEpoch, TypeOK
    <3>2. edit' \in Edit /\ edit'.job = edit.job /\ edit'.at = "reset"
      BY <3>1 DEF Edit
    <3>3. QED  BY <2>2, <3>2, AbsenceAssumption DEF BetweenBumpAndReset
  <2>3. CASE ~(ResetRows /\ edit.job = JobOf[c]) /\ ~(BumpEpoch /\ edit.job = JobOf[c])
    <3>1. job'[JobOf[c]].epoch = job[JobOf[c]].epoch
      BY <1>0, <2>3, Epochs
    <3>2. ~BetweenBumpAndReset(c)
      <4>1. SUFFICES ASSUME edit # None, edit.job = JobOf[c], edit.at = "reset"
                     PROVE  FALSE
        BY DEF BetweenBumpAndReset
      <4>2. ~ResetRows /\ ~BumpEpoch /\ ~FinishEdit
            /\ ~\E j \in Jobs, how \in {"continue", "restart", "startover"} : BeginEdit(j, how)
        BY <2>3, <4>1 DEF BumpEpoch, FinishEdit, BeginEdit
      <4>3. edit' = edit
        BY <4>2 DEF Next, Tick, TickStart, ReclaimDead, CloseJob, ServePeers,
     ReadEpoch, AssignPicked, DropPicked, TickEnd, ApplyReport, ApplyRevert, JudgeJob, FindChunk,
     Network, PostArrives, PostAnswered, PostUnanswered, PostDropped, AbortArrives, AbortLost,
     FlushReport, Heartbeat, DeclareDead,
     Node, StartRender, SkipDispatch, AgentUnavailable, RecoverAgent, FinishRender, AbortGone,
     SelfFence, StopNode, ResumeNode, Crash, Restart, EntryExpires,
     Command, Pause, Resume, Archive, Cancel, Requeue, RetryFailed, StopOneChunk,
     RequeueChunk, AssignChunkTo, vars, leaderVars
      <4>4. QED  BY <4>1, <4>3 DEF BetweenBumpAndReset
    <3>3. QED  BY <1>2, <3>1, <3>2 DEF Fencing, RowEpochs
  <2>4. QED  BY <2>1, <2>2, <2>3
<1>3. QED  BY <1>1, <1>2, AssignedBefore

\* What is assigned is fenced, and what is placed stays fenced.
LEMMA FencedPlaces ==
    ASSUME ~HttpControls, TypeOK, Fencing, [Next]_vars
    PROVE  PlacedIn(FencedWork)'
<1>1. AssignPicked => Picked \in FencedWork'
  <2> SUFFICES ASSUME AssignPicked PROVE Picked \in FencedWork
    BY FencedGrows DEF Fencing
  <2>1. /\ pick # None /\ pick.epoch # None /\ pick \in Pick
    BY DEF AssignPicked, TypeOK
  <2>2. Picked \in Work /\ pick.epoch \in Nat
    BY <2>1 DEF Picked, Pick, Work
  <2>3. pick.epoch = job[JobOf[pick.chunk]].epoch /\ pick.manifest >= fence[JobOf[pick.chunk]]
    BY <2>1 DEF Fencing, FencedPick
  <2>4. pick.epoch <= job[JobOf[pick.chunk]].epoch
    BY <2>2, <2>3
  <2>5. /\ Picked.chunk = pick.chunk /\ Picked.epoch = pick.epoch
        /\ Picked.manifest = pick.manifest
    BY DEF Picked
  <2>6. QED  BY <2>2, <2>3, <2>4, <2>5 DEF FencedWork, Fenced
<1>2. PICK S : S = FencedWork'
  OBVIOUS
<1>3. FencedWork \subseteq S
  BY <1>2, FencedGrows DEF Fencing
<1>4. PlacedIn(S)
  <2>1. PICK T : T = FencedWork
    OBVIOUS
  <2>2. PlacedIn(T)
    BY <2>1 DEF Fencing, PlacedIn, SentFrom, HeldFrom, ReportedFrom, ReportsOf
  <2>3. QED  BY <1>3, <2>1, <2>2, PlacedGrows
<1>5. PlacedIn(S)'
  BY <1>1, <1>2, <1>4, PlacedStep
<1>6. QED  BY <1>2, <1>5 DEF PlacedIn, SentFrom, HeldFrom, ReportedFrom, ReportsOf

\* Once a restarting edit is done, nothing that is on the wire, on a node or
\* in a report and would pass the fence of completeChunk and failChunk carries
\* a manifest from before the edit.  Commands come from the leader's own UI:
\* on an HTTP thread an edit can fall between the two reads of assignWork.
THEOREM EditsAreFenced ==
    ASSUME ~HttpControls, "assignTo" \notin Controls
    PROVE  Spec => []EditFence
<1>1. Init => Honest /\ Fencing
  <2> SUFFICES ASSUME Init PROVE Fencing
    BY HonestInit
  <2>1. EditsAtRest /\ PickInPass /\ FencedPick
    BY DEF Init, EditsAtRest, PickInPass, FencedPick
  <2>2. FenceBehind
    BY DEF Init, FenceBehind
  <2>3. RowEpochs
    BY DEF Init, RowEpochs, FreshRow
  <2>4. PICK S : S = FencedWork
    OBVIOUS
  <2>5. PlacedIn(FencedWork)
    BY <2>4, PlacedInit DEF PlacedIn, SentFrom, HeldFrom, ReportedFrom, ReportsOf
  <2>6. QED  BY <2>1, <2>2, <2>3, <2>5 DEF Fencing
<1>2. Honest /\ Fencing /\ [Next]_vars => (Honest /\ Fencing)'
  <2> SUFFICES ASSUME Honest, Fencing, [Next]_vars PROVE Honest' /\ Fencing'
    OBVIOUS
  <2>1. TypeOK
    BY DEF Honest
  <2>2. EditsAtRest' /\ PickInPass' /\ FenceBehind'
    BY <2>1, EditsAtRestStep, PickInPassStep, FencedGrows DEF Fencing
  <2>3. PlacedIn(FencedWork)' /\ FencedPick' /\ RowEpochs'
    BY <2>1, FencedPlaces, FencedPickStep, RowEpochsStep
  <2>4. QED  BY <2>2, <2>3, HonestStep DEF Fencing
<1>3. Honest /\ Fencing => EditFence
  <2> SUFFICES ASSUME Honest, Fencing, edit = None, NEW n \in Nodes,
                      NEW w \in Carried(n) \cup Reported(n), Current(w)
               PROVE  w.manifest >= fence[JobOf[w.chunk]]
    BY DEF EditFence
  <2>1. PICK S : S = FencedWork
    OBVIOUS
  <2>2. PlacedIn(S)
    BY <2>1 DEF Fencing, PlacedIn, SentFrom, HeldFrom, ReportedFrom, ReportsOf
  <2>3. w \in S
    BY <2>2, CarriedPlaced DEF Honest
  <2>4. w \in Work /\ Fenced(w)
    BY <2>1, <2>3 DEF FencedWork
  <2>5. w.chunk \in Chunks /\ chunk[w.chunk].state = "assigned" /\ chunk[w.chunk].epoch = w.epoch
    BY <2>4 DEF Current, IsChunkCurrent, Work
  <2>6. chunk[w.chunk].epoch = job[JobOf[w.chunk]].epoch
    BY <2>5 DEF Fencing, RowEpochs, BetweenBumpAndReset
  <2>7. QED  BY <2>4, <2>5, <2>6 DEF Fenced
<1>4. QED  BY <1>1, <1>2, <1>3, PTL DEF Spec

-----------------------------------------------------------------------------
(* An assigned chunk is with its node.  Without aborts, stopped nodes and   *)
(* nodes that are back before they were missed, nobody drops a dispatch.    *)

Undropped ==
    /\ Controls \subseteq {"pause", "resume", "requeue", "retry", "requeueChunk", "continue"}
    /\ Faults \cap {"stopNode", "quickRestart"} = {}

ZeroWork == {w \in Work : w.epoch = 0}

\* No node has a reason to abandon work.
NoReason ==
    /\ \A j \in Jobs : job[j].epoch = 0 /\ job[j].state \notin {"cancelled", "archived"}
    /\ PlacedIn(ZeroWork)
    /\ pick # None => pick.epoch \in {0, None}
    /\ aborts = {} /\ edit = None
    /\ \A n \in Nodes : mode[n] # "stopped"

\* Reports and reverts are applied within a pass.
BatchApplied == phase # "reports" => batch = {} /\ reverting = {}

Among(x, s) == \E i \in DOMAIN s : s[i] = x

\* Dispatch w is on the wire, queued, rendered or reported.
Somewhere(w) ==
    \/ \E p \in posts : p.work = w /\ p.stage = "sent"
    \/ Among(w, queue[w.node]) \/ active[w.node] = w
    \/ \E r \in Report : /\ r.work = w
                         /\ Among(r, outbox[w.node]) \/ r \in inbox \cup batch

\* Chunk c will be pending again.
Returning(c) ==
    \/ c \in reverts \cup reverting
    \/ \E p \in posts : p.work.chunk = c /\ p.stage = "refused"

WithItsNode ==
    \A c \in Chunks : chunk[c].state = "assigned" =>
        \/ \E w \in Work : w.chunk = c /\ Current(w) /\ Somewhere(w)
        \/ Returning(c)
        \/ \E n \in Nodes : chunk[c].node = n /\ mode[n] = "down"

\* A queue loses its head only, and only at its front.
LEMMA AmongTail ==
    ASSUME NEW S, NEW s \in Seq(S), s # <<>>, NEW x, Among(x, s), x # Head(s)
    PROVE  Among(x, Tail(s))
<1>1. PICK i \in DOMAIN s : s[i] = x
  BY DEF Among
<1>2. i \in 1 .. Len(s) /\ i # 1 /\ Len(s) \in Nat
  BY <1>1
<1>3. i - 1 \in 1 .. Len(s) - 1 /\ (i - 1) + 1 = i
  BY <1>2
<1>4. Tail(s) \in Seq(S) /\ Len(Tail(s)) = Len(s) - 1
      /\ \A k \in 1 .. Len(Tail(s)) : Tail(s)[k] = s[k + 1]
  BY HeadTailProperties
<1>5. i - 1 \in DOMAIN Tail(s) /\ Tail(s)[i - 1] = s[i]
  BY <1>3, <1>4
<1>6. QED  BY <1>1, <1>5 DEF Among

LEMMA AmongAppend ==
    ASSUME NEW S, NEW s \in Seq(S), NEW y \in S, NEW x, Among(x, s) \/ x = y
    PROVE  Among(x, Append(s, y))
<1>1. /\ Len(Append(s, y)) = Len(s) + 1 /\ Len(s) \in Nat /\ Append(s, y) \in Seq(S)
      /\ \A i \in 1 .. Len(s) : Append(s, y)[i] = s[i]
      /\ Append(s, y)[Len(s) + 1] = y
  OBVIOUS
<1>2. DOMAIN s = 1 .. Len(s) /\ DOMAIN Append(s, y) = 1 .. Len(s) + 1
  BY <1>1
<1>3. CASE x = y
  <2>1. Len(s) + 1 \in DOMAIN Append(s, y)
    BY <1>1, <1>2
  <2>2. QED  BY <1>1, <1>3, <2>1 DEF Among
<1>4. CASE Among(x, s)
  <2>1. PICK i \in DOMAIN s : s[i] = x
    BY <1>4 DEF Among
  <2>2. i \in DOMAIN Append(s, y) /\ Append(s, y)[i] = x
    BY <1>1, <1>2, <2>1
  <2>3. QED  BY <2>2 DEF Among
<1>5. QED  BY <1>3, <1>4

\* A report that passes the fence changes the row.
LEMMA CurrentReported ==
    ASSUME NEW row \in Row, NEW n, NEW e, IsChunkCurrent(row, n, e)
    PROVE  CompleteChunk(row, n, e) # row /\ FailChunk(row, n, e, MaxRetries) # row
<1>1. row.state = "assigned"
  BY DEF IsChunkCurrent
<1>2. CompleteChunk(row, n, e).state = "completed"
  BY DEF CompleteChunk, Row
<1>3. FailChunk(row, n, e, MaxRetries).state \in {"pending", "failed"}
  <2>1. FailChunk(row, n, e, MaxRetries) = Failed(row, n, MaxRetries)
    BY DEF FailChunk
  <2>2. Failed(row, n, MaxRetries).state \in {"pending", "failed"}
    BY DEF Failed, Unassigned, Row
  <2>3. QED  BY <2>1, <2>2
<1>4. QED  BY <1>1, <1>2, <1>3

\* What a node reports about its attempt is then in its outbox, or applied.
LEMMA DeliverKeeps ==
    ASSUME TypeOK, NEW w \in Work, NEW n \in Nodes, NEW kind \in {"completed", "failed"},
           NEW x \in Work, Deliver(n, [kind |-> kind, work |-> x])
    PROVE  /\ \A r, m : m \in Nodes /\ Among(r, outbox[m]) => Among(r, outbox'[m])
           /\ x = w /\ w.node = n /\ Current(w) /\ chunk'[w.chunk] = chunk[w.chunk]
                => \E r \in Report : r.work = w /\ Among(r, outbox'[w.node])
<1> PICK r : r = [kind |-> kind, work |-> x]
  OBVIOUS
<1>1. r \in Report /\ r.work = x /\ r.kind = kind /\ Deliver(n, r) /\ x.chunk \in Chunks
  BY DEF Report, Work
<1>2. CASE n = Local
  <2>1. chunk' = [chunk EXCEPT ![x.chunk] =
                    IF kind = "completed" THEN CompleteChunk(@, n, x.epoch)
                    ELSE FailChunk(@, n, x.epoch, MaxRetries)] /\ outbox' = outbox
    BY <1>1, <1>2 DEF Deliver
  <2>2. chunk[x.chunk] \in Row
    BY <1>1 DEF TypeOK
  <2>3. Current(x) /\ x.node = n => chunk'[x.chunk] # chunk[x.chunk]
    <3>1. chunk'[x.chunk] = IF kind = "completed" THEN CompleteChunk(chunk[x.chunk], n, x.epoch)
                            ELSE FailChunk(chunk[x.chunk], n, x.epoch, MaxRetries)
      BY <1>1, <2>1 DEF TypeOK
    <3>2. Current(x) /\ x.node = n => IsChunkCurrent(chunk[x.chunk], n, x.epoch)
      BY DEF Current
    <3>3. QED  BY <2>2, <3>1, <3>2, CurrentReported
  <2>4. QED  BY <2>1, <2>3
<1>3. CASE n # Local
  <2>1. outbox' = [outbox EXCEPT ![n] = Append(outbox[n], r)] /\ outbox[n] \in Seq(Report)
    BY <1>1, <1>3 DEF Deliver, TypeOK
  <2>2. outbox'[n] = Append(outbox[n], r) /\ \A m \in Nodes : m # n => outbox'[m] = outbox[m]
    BY <2>1 DEF TypeOK
  <2>3. Among(r, outbox'[n])
    BY <1>1, <2>1, <2>2, AmongAppend
  <2>4. \A s : Among(s, outbox[n]) => Among(s, outbox'[n])
    BY <1>1, <2>1, <2>2, AmongAppend
  <2>5. QED  BY <1>1, <2>2, <2>3, <2>4
<1>4. QED  BY <1>2, <1>3

\* The commands that drop work are not used.
LEMMA UndroppedCommands ==
    ASSUME Undropped, NoReason, Command
    PROVE  /\ UNCHANGED <<phase, batch, reverting, pick, edit, posts, aborts, inbox, reverts>>
           /\ UNCHANGED <<mode, queue, active, outbox>>
           /\ \/ job' = job
              \/ \E i \in Jobs, s \in {"active", "paused"} : SetJobState(i, s)
              \/ \E i \in Jobs : job' = [job EXCEPT ![i].manifest = @ + 1]
<1>1. \A op \in {"archive", "cancel", "stopChunk", "assignTo", "restart", "startover"} :
        op \notin Controls
  BY DEF Undropped
<1>2. ~BumpEpoch /\ ~ResetRows /\ ~FinishEdit
  BY DEF NoReason, BumpEpoch, ResetRows, FinishEdit
<1>3. ASSUME NEW j \in Jobs, Pause(j) \/ Resume(j) \/ Requeue(j) \/ RetryFailed(j)
      PROVE  /\ UNCHANGED <<phase, batch, reverting, pick, edit, posts, aborts, inbox, reverts>>
             /\ UNCHANGED <<mode, queue, active, outbox>>
             /\ \E i \in Jobs, s \in {"active", "paused"} : SetJobState(i, s)
  BY <1>3 DEF Pause, Resume, Requeue, RetryFailed, tickVars, leaderVars, nodeVars
<1>4. ASSUME NEW j \in Jobs, Archive(j) \/ Cancel(j) PROVE FALSE
  BY <1>1, <1>4 DEF Archive, Cancel, Commanded
<1>5. ASSUME NEW j \in Jobs, NEW how \in {"continue", "restart", "startover"}, BeginEdit(j, how)
      PROVE  /\ UNCHANGED <<phase, batch, reverting, pick, edit, posts, aborts, inbox, reverts>>
             /\ UNCHANGED <<mode, queue, active, outbox>>
             /\ \E i \in Jobs : job' = [job EXCEPT ![i].manifest = @ + 1]
  <2>1. how = "continue"
    BY <1>1, <1>5 DEF BeginEdit, Commanded
  <2>2. edit' = edit
    BY <1>5, <2>1 DEF BeginEdit
  <2>3. QED  BY <1>5, <2>2 DEF BeginEdit, tickVars, nodeVars
<1>6. ASSUME NEW c \in Chunks, StopOneChunk(c) \/ \E n \in Nodes : AssignChunkTo(c, n)
      PROVE  FALSE
  BY <1>1, <1>6 DEF StopOneChunk, AssignChunkTo, Commanded
<1>7. ASSUME NEW c \in Chunks, RequeueChunk(c)
      PROVE  /\ UNCHANGED <<phase, batch, reverting, pick, edit, posts, aborts, inbox, reverts>>
             /\ UNCHANGED <<mode, queue, active, outbox>>
             /\ job' = job \/ \E i \in Jobs, s \in {"active", "paused"} : SetJobState(i, s)
  <2>1. JobOf[c] \in Jobs
    BY DispatchAssumption
  <2>2. QED  BY <1>7, <2>1 DEF RequeueChunk, Reopen, tickVars, leaderVars, nodeVars
<1>8. QED  BY <1>2, <1>3, <1>4, <1>5, <1>6, <1>7 DEF Command

\* Reports and reverts do not outlive their phase.
LEMMA BatchStep == BatchApplied /\ [Next]_vars => BatchApplied'
<1> SUFFICES ASSUME BatchApplied, [Next]_vars PROVE BatchApplied'
  OBVIOUS
<1> USE DEF BatchApplied
<1>1. CASE Tick
  BY <1>1 DEF Tick, TickStart, ReclaimDead, CloseJob, ServePeers, ReadEpoch, AssignPicked,
     DropPicked, TickEnd, ApplyReport, ApplyRevert, JudgeJob, FindChunk
<1>2. QED  BY <1>1, TickKeepsItsOwn DEF tickVars

\* Every epoch stays zero, and nobody is stopped.
LEMMA NoReasonStep ==
    ASSUME Undropped, TypeOK, NoReason, [Next]_vars
    PROVE  NoReason'
<1>0. \A j \in Jobs : job[j].epoch = 0 /\ job[j].state \notin {"cancelled", "archived"}
  BY DEF NoReason
<1>1. PlacedIn(ZeroWork)'
  <2>1. AssignPicked => Picked \in ZeroWork
    <3> SUFFICES ASSUME AssignPicked PROVE Picked \in ZeroWork
      OBVIOUS
    <3>1. pick # None /\ pick.epoch # None /\ pick \in Pick
      BY DEF AssignPicked, TypeOK
    <3>2. Picked \in Work /\ Picked.epoch = 0
      BY <3>1 DEF Picked, Pick, Work, NoReason
    <3>3. QED  BY <3>2 DEF ZeroWork
  <2>2. PICK S : S = ZeroWork
    OBVIOUS
  <2>3. PlacedIn(S)
    BY <2>2 DEF NoReason, PlacedIn, SentFrom, HeldFrom, ReportedFrom, ReportsOf
  <2>4. PlacedIn(S)'
    BY <2>1, <2>2, <2>3, PlacedStep
  <2>5. QED
    BY <2>2, <2>4 DEF PlacedIn, SentFrom, HeldFrom, ReportedFrom, ReportsOf, ZeroWork
<1>2. \A j \in Jobs : job'[j].epoch = 0
  <2>1. ~BumpEpoch
    BY DEF BumpEpoch, NoReason
  <2>2. QED  BY <1>0, <2>1, Epochs
<1>3. \A j \in Jobs : job'[j].state \notin {"cancelled", "archived"}
  <2>1. CASE job' = job
    BY <1>0, <2>1
  <2>2. CASE \E i \in Jobs, s \in {"active", "paused", "completed", "failed"} : SetJobState(i, s)
    BY <1>0, <2>2 DEF SetJobState, TypeOK
  <2>3. CASE \E i \in Jobs : job' = [job EXCEPT ![i].manifest = @ + 1]
    BY <1>0, <2>3 DEF TypeOK
  <2>4. CASE CloseJob
    <3>1. verdict \in [job : Jobs, state : {"completed", "failed"}]
      BY <2>4 DEF CloseJob, TypeOK
    <3>2. QED  BY <2>2, <2>4, <3>1 DEF CloseJob
  <2>5. CASE Command
    BY <2>1, <2>2, <2>3, <2>5, UndroppedCommands
  <2>6. QED
    BY <2>1, <2>4, <2>5 DEF Next, Tick, TickStart, ReclaimDead, ServePeers, ReadEpoch,
       AssignPicked, DropPicked, TickEnd, ApplyReport, ApplyRevert, JudgeJob, FindChunk,
       Network, PostArrives, PostAnswered, PostUnanswered, PostDropped, AbortArrives, AbortLost,
       FlushReport, Heartbeat, DeclareDead,
       Node, StartRender, SkipDispatch, AgentUnavailable, RecoverAgent, FinishRender, AbortGone,
       SelfFence, StopNode, ResumeNode, Crash, Restart, EntryExpires, vars, dbVars
<1>4. aborts' = {} /\ edit' = None
  <2>1. aborts = {} /\ edit = None
    BY DEF NoReason
  <2>2. CASE Command
    BY <2>1, <2>2, UndroppedCommands
  <2>3. QED
    BY <2>1, <2>2 DEF Next, Tick, TickStart, ReclaimDead, CloseJob, ServePeers, ReadEpoch,
       AssignPicked, DropPicked, TickEnd, ApplyReport, ApplyRevert, JudgeJob, FindChunk,
       Network, PostArrives, PostAnswered, PostUnanswered, PostDropped, AbortArrives, AbortLost,
       FlushReport, Heartbeat, DeclareDead,
       Node, StartRender, SkipDispatch, AgentUnavailable, RecoverAgent, FinishRender, AbortGone,
       SelfFence, StopNode, ResumeNode, Crash, Restart, EntryExpires, vars, leaderVars
<1>5. pick' # None => pick'.epoch \in {0, None}
  <2>1. CASE UNCHANGED pick
    BY <2>1 DEF NoReason
  <2>2. CASE ReadEpoch
    <3>1. pick \in Pick /\ pick' = [pick EXCEPT !.epoch = job[JobOf[pick.chunk]].epoch]
      BY <2>2 DEF ReadEpoch, TypeOK
    <3>2. pick'.epoch = job[JobOf[pick.chunk]].epoch /\ JobOf[pick.chunk] \in Jobs
      BY <3>1, DispatchAssumption DEF Pick
    <3>3. QED  BY <1>0, <3>2
  <2>3. ASSUME NEW n \in Nodes, FindChunk(n) PROVE pick' # None => pick'.epoch \in {0, None}
    BY <2>3 DEF FindChunk
  <2>4. CASE Command
    BY <2>1, <2>4, UndroppedCommands
  <2>5. QED
    BY <2>1, <2>2, <2>3, <2>4 DEF Next, Tick, TickStart, ReclaimDead, CloseJob, ServePeers,
       AssignPicked, DropPicked, TickEnd, ApplyReport, ApplyRevert, JudgeJob,
       Network, PostArrives, PostAnswered, PostUnanswered, PostDropped, AbortArrives, AbortLost,
       FlushReport, Heartbeat, DeclareDead,
       Node, StartRender, SkipDispatch, AgentUnavailable, RecoverAgent, FinishRender, AbortGone,
       SelfFence, StopNode, ResumeNode, Crash, Restart, EntryExpires, vars, tickVars
<1>6. \A n \in Nodes : mode'[n] # "stopped"
  <2>1. CASE UNCHANGED mode
    BY <2>1 DEF NoReason
  <2>2. CASE \E n \in Nodes, d \in {"active", "sick", "down"} : mode' = [mode EXCEPT ![n] = d]
    BY <2>2 DEF NoReason, TypeOK
  <2>3. ASSUME NEW n \in Nodes, StopNode(n) PROVE FALSE
    BY <2>3 DEF StopNode, Mishap, Undropped
  <2>4. ASSUME NEW n \in Nodes, AgentUnavailable(n)
        PROVE  \E d \in {"active", "sick", "down"} : mode' = [mode EXCEPT ![n] = d]
    <3>1. mode[n] \in {"active", "sick"}
      BY <2>4 DEF AgentUnavailable
    <3>2. QED  BY <2>4, <3>1 DEF AgentUnavailable
  <2>5. CASE Node
    BY <2>1, <2>2, <2>3, <2>4, <2>5 DEF Node, StartRender, SkipDispatch, RecoverAgent,
       FinishRender, AbortGone, SelfFence, ResumeNode, Crash, Restart, EntryExpires
  <2>6. CASE Command
    BY <2>1, <2>6, UndroppedCommands
  <2>7. QED
    BY <2>1, <2>5, <2>6 DEF Next, Tick, TickStart, ReclaimDead, CloseJob, ServePeers, ReadEpoch,
       AssignPicked, DropPicked, TickEnd, ApplyReport, ApplyRevert, JudgeJob, FindChunk,
       Network, PostArrives, PostAnswered, PostUnanswered, PostDropped, AbortArrives, AbortLost,
       FlushReport, Heartbeat, DeclareDead, vars, nodeVars
<1>7. QED  BY <1>1, <1>2, <1>3, <1>4, <1>5, <1>6 DEF NoReason

LEMMA SomewhereTick ==
    ASSUME TypeOK, BatchApplied, Tick, NEW w \in Work, Current(w), Somewhere(w),
           chunk'[w.chunk] = chunk[w.chunk]
    PROVE  Somewhere(w)'
<1>0. w.node \in Nodes /\ w.chunk \in Chunks
  BY DEF Work
<1>1. ASSUME UNCHANGED <<posts, queue, active, outbox, inbox, batch>>
      PROVE  Somewhere(w)'
  BY <1>1 DEF Somewhere
<1>2. CASE TickStart
  <2>1. batch = {}
    BY <1>2 DEF TickStart, MainThreadFree, BatchApplied
  <2>2. UNCHANGED <<posts, queue, active, outbox>> /\ inbox \cup batch \subseteq inbox' \cup batch'
    BY <1>2, <2>1 DEF TickStart, nodeVars
  <2>3. QED  BY <2>2 DEF Somewhere
<1>3. ASSUME NEW r \in batch, ApplyReport(r) PROVE Somewhere(w)'
  <2>1. UNCHANGED <<posts, queue, active, outbox, inbox>> /\ batch' = batch \ {r}
    BY <1>3 DEF ApplyReport, leaderVars, nodeVars
  <2>2. r.work # w
    <3> SUFFICES ASSUME r.work = w PROVE FALSE
      OBVIOUS
    <3>1. chunk'[w.chunk] = IF r.kind = "completed"
                            THEN CompleteChunk(chunk[w.chunk], w.node, w.epoch)
                            ELSE FailChunk(chunk[w.chunk], w.node, w.epoch, MaxRetries)
      BY <1>0, <1>3 DEF ApplyReport, TypeOK
    <3>2. chunk[w.chunk] \in Row
      BY <1>0 DEF TypeOK
    <3>3. IsChunkCurrent(chunk[w.chunk], w.node, w.epoch)
      BY DEF Current
    <3>4. QED  BY <3>1, <3>2, <3>3, CurrentReported
  <2>3. QED  BY <2>1, <2>2 DEF Somewhere
<1>4. CASE AssignPicked
  <2>1. posts \subseteq posts' /\ UNCHANGED <<active, outbox, inbox, batch>>
    BY <1>4 DEF AssignPicked
  <2>2. Among(w, queue[w.node]) => Among(w, queue'[w.node])
    <3>1. CASE queue' = queue
      BY <3>1
    <3>2. CASE pick.node = Local
      <4>1. queue' = [queue EXCEPT ![Local] = Append(@, Picked)]
        BY <1>4, <3>2 DEF AssignPicked
      <4>2. pick \in Pick /\ pick.epoch # None
        BY <1>4 DEF AssignPicked, TypeOK
      <4>3. Picked \in Work /\ queue[w.node] \in Seq(Work)
        BY <1>0, <4>2 DEF Picked, Pick, Work, TypeOK
      <4>4. queue'[w.node] = Append(queue[w.node], Picked) \/ queue'[w.node] = queue[w.node]
        BY <1>0, <4>1 DEF TypeOK
      <4>5. QED  BY <4>3, <4>4, AmongAppend
    <3>3. QED  BY <1>4, <3>1, <3>2 DEF AssignPicked
  <2>3. QED  BY <2>1, <2>2 DEF Somewhere
<1>5. QED
  BY <1>1, <1>2, <1>3, <1>4 DEF Tick, ReclaimDead, CloseJob, ServePeers, ReadEpoch,
     DropPicked, TickEnd, ApplyRevert, JudgeJob, FindChunk, tickVars, leaderVars, nodeVars

LEMMA SomewhereNetwork ==
    ASSUME TypeOK, NoReason, Network, NEW w \in Work, Current(w), Somewhere(w)
    PROVE  Somewhere(w)' \/ Returning(w.chunk)'
<1>0. w.node \in Nodes /\ w.chunk \in Chunks
  BY DEF Work
<1>1. ASSUME UNCHANGED <<queue, active, outbox, inbox, batch>>,
             \A p \in posts : p.work = w /\ p.stage = "sent" => p \in posts'
      PROVE  Somewhere(w)'
  BY <1>1 DEF Somewhere
<1>2. ASSUME NEW p \in posts, PostArrives(p) PROVE Somewhere(w)' \/ Returning(w.chunk)'
  <2>1. UNCHANGED <<active, outbox, inbox, batch>> /\ posts \ {p} \subseteq posts'
    BY <1>2 DEF PostArrives, tickVars
  <2>2. p \in Post /\ p.work \in Work /\ p.work.node \in Nodes
    BY DEF TypeOK, Post, Work
  <2>3. queue' = queue \/ queue' = [queue EXCEPT ![p.work.node] = Append(@, p.work)]
    BY <1>2 DEF PostArrives
  <2>4. Among(w, queue[w.node]) => Among(w, queue'[w.node])
    <3>1. queue[w.node] \in Seq(Work)
      BY <1>0 DEF TypeOK
    <3>2. queue'[w.node] = queue[w.node] \/ queue'[w.node] = Append(queue[w.node], p.work)
      BY <1>0, <2>3 DEF TypeOK
    <3>3. QED  BY <2>2, <3>1, <3>2, AmongAppend
  <2>5. CASE p.work = w /\ p.stage = "sent"
    <3>1. CASE active[w.node] # None \/ mode[w.node] = "stopped"
      <4>1. [p EXCEPT !.stage = "refused"] \in posts'
        BY <1>2, <2>5, <3>1 DEF PostArrives
      <4>2. [p EXCEPT !.stage = "refused"].stage = "refused"
            /\ [p EXCEPT !.stage = "refused"].work = w
        BY <2>2, <2>5 DEF Post
      <4>3. QED  BY <4>1, <4>2 DEF Returning
    <3>2. CASE ~(active[w.node] # None \/ mode[w.node] = "stopped")
      <4>1. queue' = [queue EXCEPT ![w.node] = Append(@, w)]
        BY <1>2, <2>5, <3>2 DEF PostArrives
      <4>2. queue'[w.node] = Append(queue[w.node], w) /\ queue[w.node] \in Seq(Work)
        BY <1>0, <4>1 DEF TypeOK
      <4>3. Among(w, queue'[w.node])
        BY <4>2, AmongAppend
      <4>4. QED  BY <4>3 DEF Somewhere
    <3>3. QED  BY <3>1, <3>2
  <2>6. CASE ~(p.work = w /\ p.stage = "sent")
    BY <2>1, <2>4, <2>6 DEF Somewhere
  <2>7. QED  BY <2>5, <2>6
<1>3. ASSUME NEW p \in posts, PostAnswered(p) PROVE Somewhere(w)'
  <2>1. UNCHANGED <<queue, active, outbox, inbox, batch>> /\ posts' = posts \ {p}
        /\ p.stage # "sent"
    BY <1>3 DEF PostAnswered, tickVars, nodeVars
  <2>2. QED  BY <1>1, <2>1
<1>4. ASSUME NEW p \in posts, PostUnanswered(p) PROVE Somewhere(w)' \/ Returning(w.chunk)'
  <2>1. UNCHANGED <<queue, active, outbox, inbox, batch>> /\ posts \ {p} \subseteq posts'
        /\ p.work.chunk \in reverts'
    BY <1>4 DEF PostUnanswered, tickVars
  <2>2. CASE p.work = w
    BY <2>1, <2>2 DEF Returning
  <2>3. CASE p.work # w
    BY <1>1, <2>1, <2>3
  <2>4. QED  BY <2>2, <2>3
<1>5. ASSUME NEW p \in posts, PostDropped(p) PROVE Somewhere(w)'
  <2>1. UNCHANGED <<queue, active, outbox, inbox, batch>> /\ posts' = posts \ {p}
        /\ p.stage # "sent"
    BY <1>5 DEF PostDropped, tickVars, nodeVars
  <2>2. QED  BY <1>1, <2>1
<1>6. ASSUME NEW n \in Nodes, NEW j \in Jobs, AbortArrives(n, j) \/ AbortLost(n, j)
      PROVE  FALSE
  BY <1>6 DEF AbortArrives, AbortLost, NoReason
<1>7. ASSUME NEW n \in Nodes, FlushReport(n) PROVE Somewhere(w)'
  <2>1. UNCHANGED <<posts, queue, active, batch>> /\ inbox \subseteq inbox'
    BY <1>7 DEF FlushReport, tickVars
  <2>2. outbox[n] \in Seq(Report) /\ outbox[n] # <<>>
    BY <1>7 DEF FlushReport, TypeOK
  <2>3. ASSUME NEW r \in Report, r.work = w, Among(r, outbox[w.node])
        PROVE  Among(r, outbox'[w.node]) \/ r \in inbox'
    <3>1. CASE outbox'[w.node] = outbox[w.node]
      BY <2>3, <3>1
    <3>2. CASE w.node = n /\ outbox'[n] = Tail(outbox[n])
      <4>1. CASE r = Head(outbox[n])
        BY <1>7, <2>3, <4>1 DEF FlushReport
      <4>2. CASE r # Head(outbox[n])
        BY <2>2, <2>3, <3>2, <4>2, AmongTail
      <4>3. QED  BY <4>1, <4>2
    <3>3. outbox' = outbox \/ outbox' = [outbox EXCEPT ![n] = Tail(@)]
      BY <1>7 DEF FlushReport
    <3>4. QED  BY <1>0, <3>1, <3>2, <3>3 DEF TypeOK
  <2>4. QED  BY <2>1, <2>3 DEF Somewhere
<1>8. ASSUME NEW n \in Nodes, Heartbeat(n) \/ DeclareDead(n) PROVE Somewhere(w)'
  <2>1. UNCHANGED <<posts, queue, active, outbox, inbox, batch>>
    BY <1>8 DEF Heartbeat, DeclareDead, tickVars, nodeVars
  <2>2. QED  BY <1>1, <2>1
<1>9. QED  BY <1>2, <1>3, <1>4, <1>5, <1>6, <1>7, <1>8 DEF Network

LEMMA SomewhereNode ==
    ASSUME TypeOK, NoReason, Undropped, Node, NEW w \in Work, Current(w), Somewhere(w),
           chunk'[w.chunk] = chunk[w.chunk]
    PROVE  Somewhere(w)' \/ mode'[w.node] = "down"
<1>0. w.node \in Nodes /\ w.chunk \in Chunks /\ w # None /\ JobOf[w.chunk] \in Jobs
  BY AbsenceAssumption, DispatchAssumption DEF Work
<1> DEFINE Reports(r) == Among(r, outbox[w.node]) => Among(r, outbox'[w.node])
<1>1. ASSUME UNCHANGED <<posts, inbox, batch>>, \A r : Reports(r),
             Among(w, queue[w.node]) => Among(w, queue'[w.node]) \/ active'[w.node] = w,
             active[w.node] = w => active'[w.node] = w
      PROVE  Somewhere(w)'
  BY <1>1 DEF Somewhere
<1>2. ASSUME UNCHANGED <<posts, inbox, batch>>,
             \E r \in Report : r.work = w /\ Among(r, outbox'[w.node])
      PROVE  Somewhere(w)'
  BY <1>2 DEF Somewhere
<1>3. ASSUME NEW n \in Nodes, StartRender(n) PROVE Somewhere(w)'
  <2>1. UNCHANGED <<posts, inbox, batch, outbox>> /\ active[n] = None /\ queue[n] # <<>>
        /\ active' = [active EXCEPT ![n] = Head(queue[n])]
        /\ queue' = [queue EXCEPT ![n] = Tail(@)]
    BY <1>3 DEF StartRender, tickVars, leaderVars
  <2>2. queue[n] \in Seq(Work) /\ active'[n] = Head(queue[n]) /\ queue'[n] = Tail(queue[n])
        /\ \A m \in Nodes : m # n => active'[m] = active[m] /\ queue'[m] = queue[m]
    BY <2>1 DEF TypeOK
  <2>3. Among(w, queue[n]) => Among(w, queue'[n]) \/ active'[n] = w
    BY <2>1, <2>2, AmongTail
  <2>4. QED  BY <1>0, <1>1, <2>1, <2>2, <2>3
<1>4. ASSUME NEW n \in Nodes, SkipDispatch(n) PROVE FALSE
  BY <1>4 DEF SkipDispatch, NoReason
<1>5. ASSUME NEW n \in Nodes, AgentUnavailable(n) PROVE Somewhere(w)'
  <2> PICK x : x = Head(queue[n])
    OBVIOUS
  <2>1. UNCHANGED <<posts, inbox, batch, active>> /\ queue[n] # <<>>
        /\ Deliver(n, [kind |-> "failed", work |-> x])
        /\ queue' = [queue EXCEPT ![n] = Tail(@)]
    BY <1>5 DEF AgentUnavailable, tickVars, leaderVars
  <2>2. queue[n] \in Seq(Work) /\ queue'[n] = Tail(queue[n]) /\ x \in Work
        /\ \A m \in Nodes : m # n => queue'[m] = queue[m]
    BY <2>1 DEF TypeOK
  <2>3. (\A r : Reports(r)) /\ (x = w /\ w.node = n =>
            \E r \in Report : r.work = w /\ Among(r, outbox'[w.node]))
    BY <1>0, <2>1, <2>2, DeliverKeeps
  <2>4. CASE x = w /\ w.node = n
    BY <1>2, <2>1, <2>3, <2>4
  <2>5. CASE ~(x = w /\ w.node = n)
    <3>1. Among(w, queue[w.node]) => Among(w, queue'[w.node])
      BY <1>0, <2>1, <2>2, <2>5, AmongTail
    <3>2. QED  BY <1>1, <2>1, <2>3, <3>1
  <2>6. QED  BY <2>4, <2>5
<1>6. ASSUME NEW n \in Nodes, FinishRender(n) PROVE Somewhere(w)'
  <2> PICK x : x = active[n]
    OBVIOUS
  <2>1. PICK kind \in {"completed", "failed"} : Deliver(n, [kind |-> kind, work |-> x])
    BY <1>6 DEF FinishRender
  <2>2. UNCHANGED <<posts, inbox, batch, queue>> /\ active' = [active EXCEPT ![n] = None]
        /\ x # None
    BY <1>6 DEF FinishRender, tickVars, leaderVars
  <2>3. x \in Work /\ \A m \in Nodes : m # n => active'[m] = active[m]
    BY <2>2 DEF TypeOK
  <2>4. (\A r : Reports(r)) /\ (x = w /\ w.node = n =>
            \E r \in Report : r.work = w /\ Among(r, outbox'[w.node]))
    BY <1>0, <2>1, <2>3, DeliverKeeps
  <2>5. CASE x = w /\ w.node = n
    BY <1>2, <2>2, <2>4, <2>5
  <2>6. CASE ~(x = w /\ w.node = n)
    BY <1>0, <1>1, <2>2, <2>3, <2>4, <2>6
  <2>7. QED  BY <2>5, <2>6
<1>7. ASSUME NEW n \in Nodes, AbortGone(n) \/ SelfFence(n) PROVE FALSE
  <2>1. active[n] # None /\ active[n] \in ZeroWork
    BY <1>7 DEF AbortGone, SelfFence, NoReason, PlacedIn, HeldFrom
  <2>2. active[n].epoch = 0 /\ active[n].chunk \in Chunks
    BY <2>1 DEF ZeroWork, Work
  <2>3. JobOf[active[n].chunk] \in Jobs
    BY <2>2, DispatchAssumption
  <2>4. QED  BY <1>7, <2>2, <2>3 DEF AbortGone, SelfFence, NoReason
<1>8. ASSUME NEW n \in Nodes, StopNode(n) PROVE FALSE
  BY <1>8 DEF StopNode, Mishap, Undropped
<1>9. ASSUME NEW n \in Nodes, Crash(n) PROVE Somewhere(w)' \/ mode'[w.node] = "down"
  <2>1. UNCHANGED <<posts, inbox, batch>> /\ mode' = [mode EXCEPT ![n] = "down"]
        /\ queue' = [queue EXCEPT ![n] = <<>>] /\ active' = [active EXCEPT ![n] = None]
        /\ outbox' = [outbox EXCEPT ![n] = <<>>]
    BY <1>9 DEF Crash, tickVars, leaderVars
  <2>2. CASE n = w.node
    BY <2>1, <2>2 DEF TypeOK
  <2>3. CASE n # w.node
    <3>1. queue'[w.node] = queue[w.node] /\ active'[w.node] = active[w.node]
          /\ outbox'[w.node] = outbox[w.node]
      BY <1>0, <2>1, <2>3 DEF TypeOK
    <3>2. QED  BY <1>1, <2>1, <3>1
  <2>4. QED  BY <2>2, <2>3
<1>10. ASSUME NEW n \in Nodes,
              RecoverAgent(n) \/ ResumeNode(n) \/ Restart(n) \/ EntryExpires(n)
       PROVE  Somewhere(w)'
  <2>1. UNCHANGED <<posts, inbox, batch, queue, active, outbox>>
    BY <1>10 DEF RecoverAgent, ResumeNode, Restart, EntryExpires, tickVars, leaderVars
  <2>2. QED  BY <1>1, <2>1
<1>11. QED
  BY <1>3, <1>4, <1>5, <1>6, <1>7, <1>8, <1>9, <1>10 DEF Node

\* A chunk on its way back arrives.
LEMMA ReturningStep ==
    ASSUME TypeOK, Undropped, NoReason, BatchApplied, [Next]_vars, NEW c \in Chunks,
           Returning(c), chunk[c].state = "assigned", chunk'[c] = chunk[c]
    PROVE  Returning(c)'
<1>1. ASSUME c \in reverts \cup reverting => c \in reverts' \cup reverting',
             \A p \in posts : p.stage = "refused" =>
                 p \in posts' \/ p.work.chunk \in reverts'
      PROVE  Returning(c)'
  BY <1>1 DEF Returning
<1>2. CASE UNCHANGED <<posts, reverts, reverting>>
  BY <1>1, <1>2
<1>3. CASE TickStart
  <2>1. reverting = {}
    BY <1>3 DEF TickStart, MainThreadFree, BatchApplied
  <2>2. posts' = posts /\ reverting' = reverts
    BY <1>3 DEF TickStart
  <2>3. QED  BY <1>1, <2>1, <2>2
<1>4. ASSUME NEW d \in reverting, ApplyRevert(d) PROVE Returning(c)'
  <2>1. UNCHANGED <<posts, reverts>> /\ reverting' = reverting \ {d}
    BY <1>4 DEF ApplyRevert, leaderVars
  <2>2. d # c
    <3> SUFFICES ASSUME d = c PROVE FALSE
      OBVIOUS
    <3>1. chunk'[c] = RevertChunkToPending(chunk[c]) /\ chunk[c] \in Row
      BY <1>4 DEF ApplyRevert, TypeOK
    <3>2. chunk'[c].state = "pending"
      BY <3>1 DEF RevertChunkToPending, Unassigned, Row
    <3>3. QED  BY <3>2
  <2>3. QED  BY <1>1, <2>1, <2>2
<1>5. CASE AssignPicked
  BY <1>1, <1>5 DEF AssignPicked
<1>6. ASSUME NEW p \in posts, PostArrives(p) \/ PostAnswered(p) \/ PostUnanswered(p)
                              \/ PostDropped(p)
      PROVE  Returning(c)'
  <2>1. reverting' = reverting /\ posts \ {p} \subseteq posts' /\ reverts \subseteq reverts'
    BY <1>6 DEF PostArrives, PostAnswered, PostUnanswered, PostDropped, tickVars
  <2>2. p.stage = "refused" => p.work.chunk \in reverts'
    BY <1>6 DEF PostArrives, PostAnswered, PostUnanswered, PostDropped
  <2>3. QED  BY <1>1, <2>1, <2>2
<1>7. CASE Command
  BY <1>2, <1>7, UndroppedCommands
<1>8. CASE Tick
  BY <1>2, <1>3, <1>4, <1>5, <1>8 DEF Tick, ReclaimDead, CloseJob, ServePeers, ReadEpoch,
     DropPicked, TickEnd, ApplyReport, JudgeJob, FindChunk, leaderVars
<1>9. CASE Network
  BY <1>2, <1>6, <1>9 DEF Network, AbortArrives, AbortLost, FlushReport, Heartbeat,
     DeclareDead, tickVars
<1>10. CASE Node
  BY <1>2, <1>10 DEF Node, StartRender, SkipDispatch, AgentUnavailable, RecoverAgent,
     FinishRender, AbortGone, SelfFence, StopNode, ResumeNode, Crash, Restart, EntryExpires,
     tickVars, leaderVars
<1>11. QED
  BY <1>2, <1>7, <1>8, <1>9, <1>10 DEF Next, vars, tickVars, leaderVars

LEMMA WithItsNodeStep ==
    ASSUME Undropped, Honest, NoReason, BatchApplied, WithItsNode, [Next]_vars
    PROVE  WithItsNode'
<1>0. TypeOK /\ "assignTo" \notin Controls /\ "quickRestart" \notin Faults
  BY DEF Honest, Undropped
<1> SUFFICES ASSUME NEW c \in Chunks, chunk'[c].state = "assigned"
             PROVE  \/ \E w \in Work : w.chunk = c /\ Current(w)' /\ Somewhere(w)'
                    \/ Returning(c)'
                    \/ \E n \in Nodes : chunk'[c].node = n /\ mode'[n] = "down"
  BY DEF WithItsNode
<1>1. CASE /\ AssignPicked /\ pick # None /\ pick.epoch # None /\ pick.chunk = c
           /\ chunk'[c] = AssignChunk(chunk[c], pick.node, pick.epoch)
  <2>1. Picked \in Work /\ Picked.chunk = c /\ Picked.node = pick.node
        /\ Picked.epoch = pick.epoch
    BY <1>0, <1>1 DEF Picked, Pick, Work, TypeOK
  <2> PICK w : w = Picked
    OBVIOUS
  <2>2. chunk[c] \in Row
    BY <1>0 DEF TypeOK
  <2>3. Current(w)'
    <3>1. chunk'[w.chunk] = AssignChunk(chunk[c], w.node, w.epoch)
      BY <1>1, <2>1
    <3>2. IsChunkCurrent(chunk'[w.chunk], w.node, w.epoch)
      BY <2>2, <3>1 DEF IsChunkCurrent, AssignChunk, Row
    <3>3. QED  BY <3>2 DEF Current
  <2>4. CASE pick.node = Local
    <3>1. queue' = [queue EXCEPT ![Local] = Append(@, w)] /\ w.node = Local
      BY <1>1, <2>1, <2>4 DEF AssignPicked
    <3>2. Local \in Nodes /\ queue[Local] \in Seq(Work)
      BY <1>0, <2>1, <3>1 DEF TypeOK, Work
    <3>3. queue'[w.node] = Append(queue[Local], w)
      BY <1>0, <3>1, <3>2 DEF TypeOK
    <3>4. Among(w, queue'[w.node])
      BY <2>1, <3>2, <3>3, AmongAppend
    <3>5. Somewhere(w)'
      BY <3>4 DEF Somewhere
    <3>6. QED  BY <2>1, <2>3, <3>5
  <2>5. CASE pick.node # Local
    <3>1. [work |-> w, stage |-> "sent"] \in posts'
      BY <1>1, <2>5 DEF AssignPicked
    <3>2. Somewhere(w)'
      BY <3>1 DEF Somewhere
    <3>3. QED  BY <2>1, <2>3, <3>2
  <2>6. QED  BY <2>4, <2>5
<1>2. CASE chunk'[c] = chunk[c]
  <2>1. CASE \E w \in Work : w.chunk = c /\ Current(w) /\ Somewhere(w)
    <3>1. PICK w \in Work : w.chunk = c /\ Current(w) /\ Somewhere(w)
      BY <2>1
    <3>2. Current(w)' /\ w.node \in Nodes /\ chunk'[c].node = w.node
      BY <1>2, <3>1 DEF Current, IsChunkCurrent, Work
    <3>3. Somewhere(w)' \/ Returning(c)' \/ mode'[w.node] = "down"
      <4>1. CASE Command
        <5>1. UNCHANGED <<posts, queue, active, outbox, inbox, batch>>
          BY <4>1, UndroppedCommands
        <5>2. QED  BY <3>1, <5>1 DEF Somewhere
      <4>2. CASE UNCHANGED vars
        BY <3>1, <4>2 DEF Somewhere, vars, tickVars, leaderVars, nodeVars
      <4>3. QED
        BY <1>0, <1>2, <3>1, <4>1, <4>2, SomewhereTick, SomewhereNetwork, SomewhereNode
        DEF Next
    <3>4. QED  BY <3>1, <3>2, <3>3
  <2>2. CASE Returning(c)
    BY <1>0, <1>2, <2>2, ReturningStep
  <2>3. ASSUME NEW n \in Nodes, chunk[c].node = n, mode[n] = "down"
        PROVE  mode'[n] = "down"
    <3>1. CASE UNCHANGED mode
      BY <2>3, <3>1
    <3>2. CASE \E m \in Nodes, d \in {"active", "sick", "down", "stopped"} :
                 (m = n => d = "down") /\ mode' = [mode EXCEPT ![m] = d]
      BY <1>0, <2>3, <3>2 DEF TypeOK
    <3>3. ASSUME NEW m \in Nodes, Restart(m) PROVE m # n /\ mode' = [mode EXCEPT ![m] = "active"]
      BY <1>0, <1>2, <2>3, <3>3 DEF Restart
    <3>4. CASE Node
      <4>1. ASSUME NEW m \in Nodes, StartRender(m) \/ AgentUnavailable(m) \/ RecoverAgent(m)
                                     \/ StopNode(m) \/ ResumeNode(m) \/ Crash(m)
            PROVE  \E d \in {"active", "sick", "down", "stopped"} :
                     (m = n => d = "down") /\ mode' = [mode EXCEPT ![m] = d]
        BY <2>3, <4>1 DEF StartRender, AgentUnavailable, RecoverAgent, StopNode, ResumeNode,
           Crash
      <4>2. ASSUME NEW m \in Nodes, SkipDispatch(m) \/ FinishRender(m) \/ AbortGone(m)
                                     \/ SelfFence(m) \/ EntryExpires(m)
            PROVE  UNCHANGED mode
        BY <4>2 DEF SkipDispatch, FinishRender, AbortGone, SelfFence, EntryExpires
      <4>3. QED  BY <3>1, <3>2, <3>3, <3>4, <4>1, <4>2 DEF Node
    <3>5. CASE Command
      BY <3>1, <3>5, UndroppedCommands
    <3>6. CASE Tick
      BY <3>1, <3>6 DEF Tick, TickStart, ReclaimDead, CloseJob, ServePeers, ReadEpoch,
         AssignPicked, DropPicked, TickEnd, ApplyReport, ApplyRevert, JudgeJob, FindChunk, nodeVars
    <3>7. CASE Network
      BY <3>1, <3>7 DEF Network, PostArrives, PostAnswered, PostUnanswered, PostDropped,
         AbortArrives, AbortLost, FlushReport, Heartbeat, DeclareDead, nodeVars
    <3>8. QED  BY <3>1, <3>4, <3>5, <3>6, <3>7 DEF Next, vars, nodeVars
  <2>4. chunk[c].state = "assigned"
    BY <1>2
  <2>5. QED  BY <1>2, <2>1, <2>2, <2>3, <2>4 DEF WithItsNode
<1>3. QED  BY <1>0, <1>1, <1>2, AssignedBefore

\* A chunk shown as assigned to a node is on its way to the node, with it, on
\* its way back, or the node has crashed: AssignmentBacked, for operators and
\* faults that do not drop a dispatch without telling the leader (Undropped
\* leaves out the restarting edits, the abort pushes, and a node that is
\* stopped, or restarts before it is declared dead, with work in its queue).
THEOREM AssignmentsAreBacked ==
    ASSUME Undropped PROVE Spec => []AssignmentBacked
<1> DEFINE IInv == Honest /\ NoReason /\ BatchApplied /\ WithItsNode
<1>1. Init => IInv
  <2> SUFFICES ASSUME Init PROVE NoReason /\ BatchApplied /\ WithItsNode
    BY HonestInit
  <2>1. \A j \in Jobs : job[j].epoch = 0 /\ job[j].state = "active"
    BY DEF Init
  <2>2. PlacedIn(ZeroWork)
    BY PlacedInit
  <2>3. NoReason /\ BatchApplied
    BY <2>1, <2>2 DEF Init, NoReason, BatchApplied
  <2>4. \A c \in Chunks : chunk[c].state = "pending"
    BY DEF Init, FreshRow
  <2>5. QED  BY <2>3, <2>4 DEF WithItsNode
<1>2. IInv /\ [Next]_vars => IInv'
  BY HonestStep, NoReasonStep, BatchStep, WithItsNodeStep DEF Honest
<1>3. IInv => AssignmentBacked
  <2> SUFFICES ASSUME IInv, NEW c \in Chunks, NEW n \in Nodes, AssignedTo(c, n)
               PROVE  \/ \E w \in Carried(n) \cup Reported(n) : w.chunk = c /\ Current(w)
                      \/ Returning(c)
                      \/ mode[n] = "down"
    BY DEF AssignmentBacked, Returning
  <2>1. chunk[c].state = "assigned" /\ chunk[c].node = n
    BY DEF AssignedTo
  <2>2. ASSUME NEW w \in Work, w.chunk = c, Current(w), Somewhere(w)
        PROVE  w \in Carried(n) \cup Reported(n)
    <3>1. w.node = n /\ w # None
      BY <2>1, <2>2, AbsenceAssumption DEF Current, IsChunkCurrent
    <3>2. CASE \E p \in posts : p.work = w /\ p.stage = "sent"
      BY <3>1, <3>2 DEF Carried
    <3>3. CASE Among(w, queue[w.node])
      BY <3>1, <3>3 DEF Carried, Among
    <3>4. CASE active[w.node] = w
      BY <3>1, <3>4 DEF Carried
    <3>5. ASSUME NEW r \in Report, r.work = w, Among(r, outbox[w.node])
          PROVE  w \in Reported(n)
      BY <3>1, <3>5 DEF Reported, Among
    <3>6. ASSUME NEW r \in inbox \cup batch, r.work = w PROVE w \in Reported(n)
      BY <3>1, <3>6 DEF Reported
    <3>7. QED  BY <2>2, <3>2, <3>3, <3>4, <3>5, <3>6 DEF Somewhere
  <2>3. QED  BY <2>1, <2>2 DEF WithItsNode
<1>4. QED  BY <1>1, <1>2, <1>3, PTL DEF Spec
=============================================================================
