----------------------------- MODULE WorkerProofs -----------------------------
(***************************************************************************)
(* Of Worker, for any dispatches, agents, commands and faults: type        *)
(* correctness, that every dispatch is accounted for, and that one agent   *)
(* renders at a time.                                                      *)
(***************************************************************************)
EXTENDS Worker, TLAPS, FiniteSetTheorems, SequenceTheorems, WellFoundedInduction

-----------------------------------------------------------------------------
(* How often a queue holds a dispatch. *)

Places(q, d) == {i \in DOMAIN q : q[i] = d}

LEMMA PlacesFinite ==
    ASSUME NEW S, NEW q \in Seq(S), NEW d
    PROVE  IsFiniteSet(Places(q, d)) /\ Cardinality(Places(q, d)) \in Nat
<1>1. Len(q) \in Nat /\ DOMAIN q = 1 .. Len(q)
  OBVIOUS
<1>2. IsFiniteSet(1 .. Len(q)) /\ Places(q, d) \subseteq 1 .. Len(q)
  BY <1>1, FS_Interval DEF Places
<1>3. QED  BY <1>2, FS_Subset, FS_CardinalityType

LEMMA PlacesEmpty ==
    ASSUME NEW d
    PROVE  Cardinality(Places(<<>>, d)) = 0
<1>1. Places(<<>>, d) = {}
  BY DEF Places
<1>2. QED  BY <1>1, FS_EmptySet

\* Whether a dispatch is there to be found.
LEMMA PlacesQueued ==
    ASSUME NEW S, NEW q \in Seq(S), NEW d
    PROVE  (\E i \in DOMAIN q : q[i] = d) <=> Cardinality(Places(q, d)) # 0
<1>1. IsFiniteSet(Places(q, d))
  BY PlacesFinite
<1>2. Cardinality(Places(q, d)) = 0 <=> Places(q, d) = {}
  BY <1>1, FS_EmptySet
<1>3. Places(q, d) = {} <=> ~ \E i \in DOMAIN q : q[i] = d
  BY DEF Places
<1>4. QED  BY <1>2, <1>3

LEMMA PlacesAppend ==
    ASSUME NEW S, NEW q \in Seq(S), NEW r \in S, NEW d
    PROVE  Cardinality(Places(Append(q, r), d)) =
             Cardinality(Places(q, d)) + (IF r = d THEN 1 ELSE 0)
<1> DEFINE l == Len(q)
<1>1. l \in Nat /\ DOMAIN q = 1 .. l /\ DOMAIN Append(q, r) = 1 .. l + 1
  OBVIOUS
<1>2. \A i \in 1 .. l + 1 : Append(q, r)[i] = IF i <= l THEN q[i] ELSE r
  OBVIOUS
<1>3. Places(Append(q, r), d) = IF r = d THEN Places(q, d) \cup {l + 1} ELSE Places(q, d)
  BY <1>1, <1>2 DEF Places
<1>4. l + 1 \notin Places(q, d)
  BY <1>1 DEF Places
<1>5. IsFiniteSet(Places(q, d)) /\ Cardinality(Places(q, d)) \in Nat
  BY PlacesFinite
<1>6. Cardinality(Places(q, d) \cup {l + 1}) = Cardinality(Places(q, d)) + 1
  BY <1>4, <1>5, FS_AddElement
<1>7. QED  BY <1>3, <1>5, <1>6

\* The other places move one to the front.
LEMMA PlacesTail ==
    ASSUME NEW S, NEW q \in Seq(S), q # <<>>, NEW d
    PROVE  Cardinality(Places(q, d)) =
             Cardinality(Places(Tail(q), d)) + (IF Head(q) = d THEN 1 ELSE 0)
<1> DEFINE l == Len(q)
           rest == Places(Tail(q), d)
           moved == {i \in 2 .. l : q[i] = d}
           f == [i \in rest |-> i + 1]
<1>1. /\ l \in Nat \ {0} /\ Tail(q) \in Seq(S) /\ Head(q) = q[1]
      /\ DOMAIN q = 1 .. l /\ DOMAIN Tail(q) = 1 .. l - 1
  OBVIOUS
<1>2. \A i \in 1 .. l - 1 : Tail(q)[i] = q[i + 1]
  OBVIOUS
<1>3. f \in Bijection(rest, moved)
  <2>1. \A i \in rest : i \in 1 .. l - 1 /\ i + 1 \in moved
    BY <1>1, <1>2 DEF Places
  <2>2. \A i \in moved : i - 1 \in rest /\ f[i - 1] = i
    BY <1>1, <1>2 DEF Places
  <2>3. \A i, k \in rest : f[i] = f[k] => i = k
    BY <2>1
  <2>4. f \in [rest -> moved]
    BY <2>1
  <2>5. QED  BY <2>2, <2>3, <2>4 DEF Bijection, Injection, Surjection, IsInjective
<1>4. IsFiniteSet(rest) /\ Cardinality(rest) \in Nat
  BY <1>1, PlacesFinite
<1>5. IsFiniteSet(moved) /\ Cardinality(moved) = Cardinality(rest)
  BY <1>3, <1>4, FS_Bijection DEF ExistsBijection
<1>6. Places(q, d) = IF q[1] = d THEN moved \cup {1} ELSE moved
  BY <1>1 DEF Places
<1>7. 1 \notin moved
  OBVIOUS
<1>8. Cardinality(moved \cup {1}) = Cardinality(moved) + 1
  BY <1>5, <1>7, FS_AddElement
<1>9. QED  BY <1>1, <1>4, <1>5, <1>6, <1>8

-----------------------------------------------------------------------------
(* purgeJob's loop, a recursive function on the queue's prefixes. *)

\* A non-empty set of numbers has a least element; an argument by the least
\* counterexample takes the place of an induction.
LEMMA NatLeast ==
    ASSUME NEW T \in SUBSET Nat, T # {}
    PROVE  \E x \in T : \A y \in T : ~(y < x)
<1>1. \E x \in T : \A y \in T : ~(<<y, x>> \in OpToRel(<, Nat))
  BY NatLessThanWellFounded, WFMin
<1>2. QED  BY <1>1 DEF OpToRel

\* One turn of the loop.
KeptStep(s, j, f, i) ==
    IF i = 0 THEN <<>>
    ELSE IF JobOf[s[i]] = j THEN f[i - 1] ELSE Append(f[i - 1], s[i])

\* The loop is defined on every prefix, by the least one on which it is not.
LEMMA KeepDefined ==
    ASSUME NEW S, NEW s \in Seq(S), NEW j
    PROVE  \E f : /\ f = [i \in 0 .. Len(s) |-> KeptStep(s, j, f, i)]
                  /\ Keep(s, j) = f[Len(s)]
<1> DEFINE Is(f, n) == f = [i \in 0 .. n |-> KeptStep(s, j, f, i)]
           T == {n \in Nat : ~ \E f : Is(f, n)}
<1>1. T = {}
  <2> SUFFICES ASSUME T # {} PROVE FALSE
    OBVIOUS
  <2>1. PICK n \in T : \A m \in T : ~(m < n)
    BY NatLeast
  <2>2. n # 0
    <3>1. Is([i \in 0 .. 0 |-> <<>>], 0)
      BY DEF KeptStep
    <3>2. QED  BY <3>1
  <2>3. n - 1 \in Nat /\ n - 1 < n
    BY <2>2
  <2>4. PICK f : Is(f, n - 1)
    BY <2>1, <2>3
  <2> DEFINE g == [i \in 0 .. n |-> KeptStep(s, j, f, i)]
  <2>5. \A i \in 0 .. n - 1 : g[i] = f[i]
    BY <2>4, <2>3
  <2>6. \A i \in 0 .. n : KeptStep(s, j, f, i) = KeptStep(s, j, g, i)
    <3> TAKE i \in 0 .. n
    <3>1. CASE i = 0
      BY <3>1 DEF KeptStep
    <3>2. CASE i # 0
      <4>1. i - 1 \in 0 .. n - 1
        BY <3>2
      <4>2. g[i - 1] = f[i - 1]
        BY <4>1, <2>5
      <4> HIDE DEF g
      <4>3. QED  BY <4>2, <3>2 DEF KeptStep
    <3>3. QED  BY <3>1, <3>2
  <2>7. Is(g, n)
    <3> DEFINE h == [i \in 0 .. n |-> KeptStep(s, j, g, i)]
    <3>1. g = h
      BY <2>6
    <3>2. QED  BY <3>1
  <2>8. QED  BY <2>7, <2>1
<1>2. Len(s) \in Nat
  OBVIOUS
<1>3. \E f : Is(f, Len(s))
  BY <1>1, <1>2
<1> DEFINE kept == CHOOSE f : Is(f, Len(s))
<1>4. Is(kept, Len(s))
  BY <1>3
<1>5. Keep(s, j) = kept[Len(s)]
  BY DEF Keep, KeptStep
<1>6. QED  BY <1>4, <1>5

\* The places of d among the first n of s.
Among(s, n, d) == {i \in 1 .. n : s[i] = d}

\* A purge leaves the other jobs' dispatches, each as often as it was there.
LEMMA KeepCounts ==
    ASSUME NEW S, NEW s \in Seq(S), NEW j
    PROVE  /\ Keep(s, j) \in Seq(S)
           /\ \A d : Cardinality(Places(Keep(s, j), d)) =
                       IF JobOf[d] = j THEN 0 ELSE Cardinality(Places(s, d))
<1>1. PICK f : /\ f = [i \in 0 .. Len(s) |-> KeptStep(s, j, f, i)]
               /\ Keep(s, j) = f[Len(s)]
  BY KeepDefined
<1> DEFINE Right(i) ==
      /\ f[i] \in Seq(S)
      /\ \A d : Cardinality(Places(f[i], d)) =
                  IF JobOf[d] = j THEN 0 ELSE Cardinality(Among(s, i, d))
           T == {i \in 0 .. Len(s) : ~Right(i)}
<1>2. Len(s) \in Nat /\ DOMAIN s = 1 .. Len(s)
  OBVIOUS
<1>3. T = {}
  <2> SUFFICES ASSUME T # {} PROVE FALSE
    OBVIOUS
  <2>1. T \in SUBSET Nat
    OBVIOUS
  <2> HIDE DEF T
  <2>2. PICK i \in T : \A m \in T : ~(m < i)
    BY <2>1, NatLeast
  <2>3. i \in 0 .. Len(s) /\ f[i] = KeptStep(s, j, f, i)
    BY <1>1 DEF T
  <2>4. i # 0
    <3>1. ASSUME i = 0 PROVE Right(0)
      <4>1. f[0] = <<>> /\ <<>> \in Seq(S)
        BY <2>3, <3>1 DEF KeptStep
      <4>2. \A d : Among(s, 0, d) = {}
        BY DEF Among
      <4>3. QED  BY <4>1, <4>2, PlacesEmpty, FS_EmptySet
    <3>2. QED  BY <3>1, <2>2 DEF T
  <2>5. i - 1 \in 0 .. Len(s) /\ i - 1 < i /\ s[i] \in S
    BY <2>3, <2>4
  <2>6. Right(i - 1)
    BY <2>2, <2>5 DEF T
  <2>7. \A d : Cardinality(Among(s, i, d)) =
                 Cardinality(Among(s, i - 1, d)) + (IF s[i] = d THEN 1 ELSE 0)
    <3> TAKE d
    <3>1. IsFiniteSet(1 .. i - 1) /\ Among(s, i - 1, d) \subseteq 1 .. i - 1
      BY <2>5, FS_Interval DEF Among
    <3>2. IsFiniteSet(Among(s, i - 1, d)) /\ Cardinality(Among(s, i - 1, d)) \in Nat
      BY <3>1, FS_Subset, FS_CardinalityType
    <3>3. Among(s, i, d) =
            IF s[i] = d THEN Among(s, i - 1, d) \cup {i} ELSE Among(s, i - 1, d)
      BY <2>3, <2>4 DEF Among
    <3>4. i \notin Among(s, i - 1, d)
      BY <2>3 DEF Among
    <3>5. Cardinality(Among(s, i - 1, d) \cup {i}) = Cardinality(Among(s, i - 1, d)) + 1
      BY <3>2, <3>4, FS_AddElement
    <3>6. QED  BY <3>2, <3>3, <3>5
  <2>8. Right(i)
    <3>1. CASE JobOf[s[i]] = j
      <4>1. f[i] = f[i - 1]
        BY <2>3, <2>4, <3>1 DEF KeptStep
      <4>2. \A d : JobOf[d] # j => Cardinality(Among(s, i, d)) = Cardinality(Among(s, i - 1, d))
        <5> TAKE d
        <5> HAVE JobOf[d] # j
        <5>1. s[i] # d
          BY <3>1
        <5>2. IsFiniteSet(1 .. i - 1) /\ Among(s, i - 1, d) \subseteq 1 .. i - 1
          BY <2>5, FS_Interval DEF Among
        <5>3. Cardinality(Among(s, i - 1, d)) \in Nat
          BY <5>2, FS_Subset, FS_CardinalityType
        <5>4. QED  BY <2>7, <5>1, <5>3
      <4>3. QED  BY <2>6, <4>1, <4>2
    <3>2. CASE JobOf[s[i]] # j
      <4>1. f[i] = Append(f[i - 1], s[i])
        BY <2>3, <2>4, <3>2 DEF KeptStep
      <4>2. f[i] \in Seq(S)
        BY <2>5, <2>6, <4>1
      <4>3. \A d : Cardinality(Places(f[i], d)) =
                     Cardinality(Places(f[i - 1], d)) + (IF s[i] = d THEN 1 ELSE 0)
        BY <2>5, <2>6, <4>1, PlacesAppend
      <4>4. ASSUME NEW d
            PROVE  Cardinality(Places(f[i], d)) =
                     IF JobOf[d] = j THEN 0 ELSE Cardinality(Among(s, i, d))
        BY <2>6, <2>7, <3>2, <4>3
      <4>5. QED  BY <4>2, <4>4
    <3>3. QED  BY <3>1, <3>2
  <2>9. QED  BY <2>2, <2>8 DEF T
<1>4. Right(Len(s))
  BY <1>2, <1>3
<1>5. \A d : Among(s, Len(s), d) = Places(s, d)
  BY <1>2 DEF Among, Places
<1>6. QED  BY <1>1, <1>4, <1>5

-----------------------------------------------------------------------------
(* Types. *)

Verdict == {"completed", "failed", "abandoned", "dropped"}

\* The state one agent is in.
AgentState ==
    [at : {"unborn", "starting", "idle", "rendering", "lost", "leaving", "gone", "orphaned"},
     task : Dispatches \cup {None}, killed : BOOLEAN,
     result : {"none", "completed", "failed"}]

LEMMA TypesInit == Init => TypeOK
<1> SUFFICES ASSUME Init PROVE TypeOK
  OBVIOUS
<1>1. [at |-> "unborn", task |-> None, killed |-> FALSE, result |-> "none"] \in AgentState
  BY DEF AgentState
<1>2. agent \in [Agents -> AgentState]
  BY <1>1 DEF Init
<1>3. \A S : <<>> \in Seq(S)
  OBVIOUS
<1>4. told \in [Dispatches -> Seq(Verdict)]
  BY <1>3 DEF Init
<1>5. frames \in [Dispatches -> {"none", "torn", "staged", "delivered"}]
  BY DEF Init
<1>6. QED  BY <1>2, <1>3, <1>4, <1>5 DEF Init, TypeOK, AgentState, Verdict

\* A verdict is added to what a dispatch was told.
LEMMA TellType ==
    ASSUME TypeOK, NEW d \in Dispatches, NEW v \in Verdict, Tell(d, v)
    PROVE  told' \in [Dispatches -> Seq(Verdict)]
<1>1. told \in [Dispatches -> Seq(Verdict)]
  BY DEF TypeOK, Verdict
<1>2. Append(told[d], v) \in Seq(Verdict)
  BY <1>1
<1>3. QED  BY <1>1, <1>2 DEF Tell

LEMMA MishapType == ASSUME TypeOK, NEW f, Mishap(f) PROVE mishaps' \in Nat
BY DEF TypeOK, Mishap

\* A copy leaves frames where frames can be.
LEMMA DeliverType ==
    ASSUME TypeOK, NEW d, Deliver(d)
    PROVE  frames' \in [Dispatches -> {"none", "torn", "staged", "delivered"}]
BY DEF TypeOK, Deliver, FramesDelivered

\* An active render ends, held or told.
LEMMA EndTypes ==
    ASSUME TypeOK, active # None,
           \/ \E v \in Verdict : EndActive(v) /\ UNCHANGED <<held, frames, mishaps>>
           \/ CompleteActive
    PROVE  /\ active' \in Dispatches \cup {None} /\ grace' \in {"no", "running", "expired"}
           /\ held' \subseteq Dispatches
           /\ told' \in [Dispatches -> Seq(Verdict)] /\ mishaps' \in Nat
           /\ frames' \in [Dispatches -> {"none", "torn", "staged", "delivered"}]
<1>1. active \in Dispatches
  BY DEF TypeOK
<1>2. ASSUME NEW v \in Verdict, EndActive(v), UNCHANGED <<held, frames, mishaps>>
      PROVE  told' \in [Dispatches -> Seq(Verdict)]
  BY <1>1, <1>2, TellType DEF EndActive
<1>3. CASE \E v \in Verdict : EndActive(v) /\ UNCHANGED <<held, frames, mishaps>>
  BY <1>2, <1>3 DEF TypeOK, EndActive
<1>4. CASE CompleteActive
  <2>1. CASE Deliver(active) /\ Tell(active, "completed") /\ active' = None
             /\ UNCHANGED <<held, grace, mishaps>>
    <3>1. told' \in [Dispatches -> Seq(Verdict)]
      BY <1>1, <2>1, TellType DEF Verdict
    <3>2. QED  BY <2>1, <3>1, DeliverType DEF TypeOK
  <2>2. CASE Mishap("undeliverable") /\ held' = held \cup {active} /\ active' = None
             /\ UNCHANGED <<told, grace, frames>>
    BY <1>1, <2>2, MishapType DEF TypeOK, Verdict
  <2>3. QED  BY <1>4, <2>1, <2>2 DEF CompleteActive
<1>5. QED  BY <1>3, <1>4

LEMMA TypesTick ==
    ASSUME TypeOK, BeginTick \/ HandleMessage \/ EndMessages
    PROVE  TypeOK'
<1>1. CASE BeginTick \/ EndMessages
  <2>1. CASE BeginTick
    <3>1. <<>> \in Seq(Message)
      OBVIOUS
    <3>2. QED  BY <2>1, <3>1 DEF TypeOK, BeginTick, renderVars, commandVars, agentVars
  <2>2. CASE EndMessages
    BY <2>2 DEF TypeOK, EndMessages, renderVars, commandVars, ipcVars, agentVars
  <2>3. QED  BY <1>1, <2>1, <2>2
<1>2. CASE HandleMessage
  <2>1. batch' \in Seq(Message) /\ Head(batch) \in Message
    BY <1>2 DEF HandleMessage, TypeOK
  <2>2. UNCHANGED <<phase, queue, wait, commandVars, link, mail, toAgent, child, health, agent>>
    BY <1>2 DEF HandleMessage
  <2>3. /\ active' \in Dispatches \cup {None} /\ grace' \in {"no", "running", "expired"}
        /\ held' \subseteq Dispatches
        /\ told' \in [Dispatches -> Seq(Verdict)] /\ mishaps' \in Nat
        /\ frames' \in [Dispatches -> {"none", "torn", "staged", "delivered"}]
    <3>1. CASE UNCHANGED <<active, grace, held, told, frames, mishaps>>
      BY <3>1 DEF TypeOK, Verdict
    <3>2. CASE active # None /\ CompleteActive
      BY <3>2, EndTypes
    <3>3. CASE active # None /\ EndActive("failed") /\ UNCHANGED <<held, frames, mishaps>>
      BY <3>3, EndTypes DEF Verdict
    <3>4. QED  BY <1>2, <3>1, <3>2, <3>3 DEF HandleMessage, HandleResult
  <2>4. ready' \in BOOLEAN
    BY <1>2 DEF HandleMessage, TypeOK
  <2>5. QED  BY <2>1, <2>2, <2>3, <2>4 DEF TypeOK, Verdict, commandVars
<1>3. QED  BY <1>1, <1>2

LEMMA TypesUpdate ==
    ASSUME TypeOK,
           \/ NothingToStart \/ SkipStopped \/ SpawnAgent \/ SpawnFails \/ KeepWaiting
           \/ FailOverdue \/ StartRender
    PROVE  TypeOK'
<1>1. phase' \in {"rest", "messages", "update", "check"}
  BY DEF NothingToStart, SkipStopped, SpawnAgent, SpawnFails, KeepWaiting, FailOverdue,
         StartRender, EndUpdate
<1>2. CASE NothingToStart
  BY <1>1, <1>2 DEF TypeOK, NothingToStart, renderVars, commandVars, ipcVars, agentVars
<1>3. ASSUME queue # <<>>
      PROVE  /\ Head(queue) \in Dispatches /\ Tail(queue) \in Seq(Dispatches)
             /\ Append(Tail(queue), Head(queue)) \in Seq(Dispatches)
  BY <1>3 DEF TypeOK
<1>4. CASE SkipStopped
  <2>1. queue # <<>> /\ queue' = Tail(queue) /\ Tell(Head(queue), "abandoned")
    BY <1>4 DEF SkipStopped, Dequeue
  <2>2. told' \in [Dispatches -> Seq(Verdict)]
    BY <1>3, <2>1, TellType DEF Verdict
  <2>3. QED
    BY <1>1, <1>3, <1>4, <2>1, <2>2
       DEF TypeOK, Verdict, SkipStopped, commandVars, ipcVars, agentVars
<1>5. CASE SpawnAgent
  <2>1. queue # <<>> /\ queue' = Append(Tail(queue), Head(queue))
    BY <1>5 DEF SpawnAgent, NeedsAgent, Dequeue, PutBack
  <2>2. PICK a \in Agents : agent' = [agent EXCEPT ![a].at = "starting"] /\ child' = a
    BY <1>5 DEF SpawnAgent
  <2>3. agent' \in [Agents -> AgentState]
    <3>1. agent \in [Agents -> AgentState]
      BY Zenon DEF TypeOK, AgentState
    <3>2. agent[a] \in AgentState
      BY <3>1
    <3>3. [agent[a] EXCEPT !.at = "starting"] \in AgentState
      BY <3>2 DEF AgentState
    <3>4. agent' = [agent EXCEPT ![a] = [agent[a] EXCEPT !.at = "starting"]]
      BY <2>2
    <3>5. QED  BY <3>1, <3>3, <3>4
  <2>4. QED
    BY <1>1, <1>3, <1>5, <2>1, <2>2, <2>3 DEF TypeOK, AgentState, SpawnAgent, commandVars
<1>6. CASE SpawnFails
  <2>1. queue # <<>> /\ queue' = Tail(queue) /\ Tell(Head(queue), "failed")
    BY <1>6 DEF SpawnFails, NeedsAgent, Dequeue
  <2>2. told' \in [Dispatches -> Seq(Verdict)]
    BY <1>3, <2>1, TellType DEF Verdict
  <2>3. mishaps' \in Nat
    BY <1>6, MishapType DEF SpawnFails
  <2>4. QED
    BY <1>1, <1>3, <1>6, <2>1, <2>2, <2>3 DEF TypeOK, Verdict, SpawnFails, commandVars
<1>7. CASE KeepWaiting
  <2>1. queue # <<>> /\ queue' = Append(Tail(queue), Head(queue))
    BY <1>7 DEF KeepWaiting, NeedsAgent, Dequeue, PutBack
  <2>2. QED
    BY <1>1, <1>3, <1>7, <2>1 DEF TypeOK, KeepWaiting, commandVars, ipcVars, agentVars
<1>8. CASE FailOverdue
  <2>1. queue # <<>> /\ queue' = Tail(queue) /\ Tell(Head(queue), "failed")
    BY <1>8 DEF FailOverdue, NeedsAgent, Dequeue
  <2>2. told' \in [Dispatches -> Seq(Verdict)]
    BY <1>3, <2>1, TellType DEF Verdict
  <2>3. QED
    BY <1>1, <1>3, <1>8, <2>1, <2>2
       DEF TypeOK, Verdict, FailOverdue, commandVars, ipcVars, agentVars
<1>9. CASE StartRender
  <2>1. queue # <<>> /\ queue' = Tail(queue) /\ active' = Head(queue)
    BY <1>9 DEF StartRender, Dequeue
  <2>2. [kind |-> "task", of |-> Head(queue)] \in Order
    BY <1>3, <2>1 DEF Order
  <2>3. toAgent' \in Seq(Order)
    BY <1>9, <2>2 DEF StartRender, TypeOK
  <2>4. QED
    BY <1>1, <1>3, <1>9, <2>1, <2>3 DEF TypeOK, StartRender, commandVars, agentVars
<1>10. QED  BY <1>2, <1>4, <1>5, <1>6, <1>7, <1>8, <1>9

LEMMA TypesCheck ==
    ASSUME TypeOK, NothingToCheck \/ Connected \/ StartGrace \/ FailDisconnected
    PROVE  TypeOK'
<1>1. CASE NothingToCheck \/ Connected \/ StartGrace
  BY <1>1 DEF TypeOK, NothingToCheck, Connected, StartGrace, EndTick, commandVars, ipcVars,
              agentVars
<1>2. CASE FailDisconnected
  <2>1. told' \in [Dispatches -> Seq(Verdict)]
    <3>1. active \in Dispatches /\ Tell(active, "failed")
      BY <1>2 DEF FailDisconnected, EndActive, TypeOK
    <3>2. QED  BY <3>1, TellType DEF Verdict
  <2>2. QED
    BY <1>2, <2>1
       DEF TypeOK, Verdict, FailDisconnected, EndActive, EndTick, commandVars, ipcVars, agentVars
<1>3. QED  BY <1>1, <1>2

LEMMA TypesDelivery ==
    ASSUME TypeOK, NEW d \in Dispatches, DropDelivery(d) \/ Redeliver(d) \/ GiveUpDelivery(d)
    PROVE  TypeOK'
<1>1. PICK v \in Verdict : EndHeld(d, v)
  BY DEF DropDelivery, Redeliver, GiveUpDelivery, Verdict
<1>2. told' \in [Dispatches -> Seq(Verdict)]
  BY <1>1, TellType DEF EndHeld
<1>3. frames' \in [Dispatches -> {"none", "torn", "staged", "delivered"}]
  <2>1. CASE Redeliver(d)
    BY <2>1, DeliverType DEF Redeliver
  <2>2. CASE DropDelivery(d) \/ GiveUpDelivery(d)
    BY <2>2 DEF DropDelivery, GiveUpDelivery, TypeOK
  <2>3. QED  BY <2>1, <2>2
<1>4. QED
  BY <1>1, <1>2, <1>3 DEF TypeOK, Verdict, EndHeld, tickVars, commandVars, ipcVars

LEMMA TypesClock == ASSUME TypeOK, Clock PROVE TypeOK'
BY DEF Clock, Overdue, GraceExpires, TypeOK, tickVars, commandVars, ipcVars, agentVars

\* A purge of job j, with the abort it sends.
LEMMA ClearTypes ==
    ASSUME TypeOK, NEW j, NEW v \in Verdict, ClearJob(j, v)
    PROVE  /\ queue' \in Seq(Dispatches) /\ told' \in [Dispatches -> Seq(Verdict)]
           /\ active' \in Dispatches \cup {None} /\ grace' \in {"no", "running", "expired"}
           /\ toAgent' \in Seq(Order)
<1>1. queue' \in Seq(Dispatches)
  BY KeepCounts DEF ClearJob, TypeOK
<1>2. told' \in [Dispatches -> Seq(Verdict)]
  <2>1. \A d \in Dispatches : /\ told[d] \in Seq(Verdict)
                              /\ Append(told[d], v) \in Seq(Verdict)
                              /\ Append(told[d], "dropped") \in Seq(Verdict)
    BY DEF TypeOK, Verdict
  <2>2. QED  BY <2>1 DEF ClearJob
<1>3. [kind |-> "abort", of |-> None] \in Order
  BY DEF Order
<1>4. toAgent' \in Seq(Order)
  <2>1. toAgent \in Seq(Order) /\ Append(toAgent, [kind |-> "abort", of |-> None]) \in Seq(Order)
    BY <1>3 DEF TypeOK
  <2>2. toAgent' \in {toAgent, Append(toAgent, [kind |-> "abort", of |-> None])}
    BY DEF ClearJob, SendAbort
  <2>3. QED  BY <2>1, <2>2
<1>5. QED  BY <1>1, <1>2, <1>4 DEF ClearJob, TypeOK

LEMMA TypesCommand == ASSUME TypeOK, Command PROVE TypeOK'
<1>1. ASSUME NEW j \in JobSet, Cancel(j) \/ Abandon(j) \/ Delete(j) PROVE TypeOK'
  <2>1. PICK v \in Verdict : ClearJob(j, v)
    BY <1>1 DEF Cancel, Abandon, Delete, Verdict
  <2>2. deleted' \subseteq JobSet /\ stopped' = stopped /\ OnWorker
    BY <1>1 DEF Cancel, Abandon, Delete, TypeOK
  <2>3. QED  BY <2>1, <2>2, ClearTypes DEF TypeOK, Verdict, OnWorker, tickVars, agentVars
<1>2. CASE StopNode
  <2>1. /\ active' \in Dispatches \cup {None} /\ grace' \in {"no", "running", "expired"}
        /\ told' \in [Dispatches -> Seq(Verdict)] /\ toAgent' \in Seq(Order)
    <3>1. CASE active = None
      BY <1>2, <3>1 DEF StopNode, TypeOK, Verdict
    <3>2. CASE active # None
      <4>1. active' = None /\ grace' = "no" /\ Tell(active, "failed") /\ SendAbort
        BY <1>2, <3>2 DEF StopNode, EndActive
      <4>2. told' \in [Dispatches -> Seq(Verdict)]
        BY <3>2, <4>1, TellType DEF Verdict, TypeOK
      <4>3. [kind |-> "abort", of |-> None] \in Order
        BY DEF Order
      <4>4. toAgent' \in Seq(Order)
        BY <4>1, <4>3 DEF SendAbort, TypeOK
      <4>5. QED  BY <4>1, <4>2, <4>4
    <3>3. QED  BY <3>1, <3>2
  <2>2. QED  BY <1>2, <2>1 DEF StopNode, TypeOK, Verdict, OnWorker, tickVars, agentVars
<1>3. CASE ResumeNode
  BY <1>3 DEF ResumeNode, TypeOK, OnWorker, tickVars, agentVars
<1>4. QED  BY <1>1, <1>2, <1>3 DEF Command

\* The messages of an agent.
LEMMA Messages ==
    ASSUME mail \in Seq(Message), NEW k \in {"completed", "failed"}
    PROVE  Append(mail, Idle) \in Seq(Message) /\ mail \o <<[kind |-> k], Idle>> \in Seq(Message)
<1>1. Idle \in Message /\ [kind |-> k] \in Message
  BY DEF Idle, Message
<1>2. QED  BY <1>1

LEMMA TypesAgent ==
    ASSUME TypeOK, NEW a \in Agents, AgentStep(a) \/ AgentFault(a)
    PROVE  TypeOK'
<1>1. agent \in [Agents -> AgentState] /\ agent[a] \in AgentState
  BY DEF TypeOK, AgentState
<1>2. UNCHANGED <<tickVars, renderVars, commandVars>>
  BY DEF AgentStep, AgentFault, OnAgent, Connect, TakeTask, IgnoreOrder, TakeAbort,
         RenderSucceeds, SendResult, Exit, StopTrying, RenderFails, StartFails, Crash,
         PipeBreaks, Reconnect
<1>3. agent' \in [Agents -> AgentState]
  <2>1. CASE UNCHANGED agent
    BY <1>1, <2>1
  <2>2. CASE \E w \in {"starting", "idle", "rendering", "lost", "leaving", "gone", "orphaned"} :
               agent' = [agent EXCEPT ![a].at = w]
    BY <1>1, <2>2 DEF AgentState
  <2>3. CASE \E v \in {"completed", "failed"} : agent' = [agent EXCEPT ![a].result = v]
    BY <1>1, <2>3 DEF AgentState
  <2>4. CASE TakeTask(a)
    <3>1. Head(toAgent).of \in Dispatches \cup {None}
      <4>1. Head(toAgent) \in Order
        BY <2>4 DEF TakeTask, Reads, TypeOK
      <4>2. QED  BY <4>1 DEF Order
    <3>2. QED  BY <1>1, <2>4, <3>1 DEF TakeTask, AgentState
  <2>5. CASE TakeAbort(a)
    <3>1. (agent[a].result = "none") \in BOOLEAN
      OBVIOUS
    <3>2. QED  BY <1>1, <2>5, <3>1 DEF TakeAbort, AgentState
  <2>6. CASE PipeBreaks(a)
    BY <1>1, <2>6 DEF PipeBreaks, AgentState
  <2>7. CASE Connect(a) \/ SendResult(a) \/ Exit(a) \/ StopTrying(a) \/ Crash(a) \/ Reconnect(a)
    <3>1. \E w \in {"starting", "idle", "rendering", "lost", "leaving", "gone", "orphaned"} :
            agent' = [agent EXCEPT ![a].at = w]
      BY <2>7 DEF Connect, SendResult, Exit, StopTrying, Crash, Reconnect
    <3>2. QED  BY <2>2, <3>1
  <2>8. CASE RenderSucceeds(a) \/ RenderFails(a)
    BY <2>3, <2>8 DEF RenderSucceeds, RenderFails
  <2>9. CASE IgnoreOrder(a) \/ StartFails(a)
    BY <2>1, <2>9 DEF IgnoreOrder, StartFails, agentVars
  <2>10. QED  BY <2>4, <2>5, <2>6, <2>7, <2>8, <2>9 DEF AgentStep, AgentFault
<1>4. /\ mail' \in Seq(Message) /\ toAgent' \in Seq(Order) /\ link' \in Agents \cup {None}
      /\ child' = child /\ ready' = ready /\ health' \in {"ok", "needs_attention"}
  <2>1. CASE Connect(a) \/ Reconnect(a)
    <3>1. <<>> \in Seq(Order) /\ Append(mail, Idle) \in Seq(Message) /\ mail \in Seq(Message)
      BY Messages DEF TypeOK
    <3>2. /\ mail' \in {mail, Append(mail, Idle)} /\ toAgent' = <<>> /\ link' = a
          /\ child' = child /\ ready' = ready /\ health' = "ok"
      BY <2>1 DEF Connect, Reconnect
    <3>3. QED  BY <3>1, <3>2
  <2>2. CASE TakeTask(a) \/ IgnoreOrder(a) \/ TakeAbort(a)
    <3>1. toAgent # <<>> /\ toAgent' = Tail(toAgent)
      BY <2>2 DEF TakeTask, IgnoreOrder, TakeAbort, Reads
    <3>2. toAgent' \in Seq(Order)
      BY <3>1 DEF TypeOK
    <3>3. QED  BY <2>2, <3>2 DEF TakeTask, IgnoreOrder, TakeAbort, TypeOK
  <2>3. CASE StartFails(a)
    BY <2>3, Messages DEF StartFails, Reads, TypeOK
  <2>4. CASE SendResult(a)
    <3>1. agent[a].result \in {"completed", "failed"}
      BY <1>1, <2>4 DEF SendResult, AgentState
    <3>2. QED  BY <2>4, <3>1, Messages DEF SendResult, TypeOK
  <2>5. CASE \/ RenderSucceeds(a) \/ Exit(a) \/ StopTrying(a) \/ RenderFails(a) \/ Crash(a)
             \/ PipeBreaks(a)
    BY <2>5 DEF RenderSucceeds, Exit, StopTrying, RenderFails, Crash, PipeBreaks, ipcVars, TypeOK
  <2>6. QED  BY <2>1, <2>2, <2>3, <2>4, <2>5 DEF AgentStep, AgentFault
<1>5. frames' \in [Dispatches -> {"none", "torn", "staged", "delivered"}]
  <2>1. CASE RenderSucceeds(a)
    BY <2>1 DEF RenderSucceeds, TypeOK
  <2>2. CASE UNCHANGED frames
    BY <2>2 DEF TypeOK
  <2>3. QED
    BY <2>1, <2>2
       DEF AgentStep, AgentFault, Connect, TakeTask, IgnoreOrder, TakeAbort, SendResult, Exit,
           StopTrying, RenderFails, StartFails, Crash, PipeBreaks, Reconnect, agentVars
<1>6. mishaps' \in Nat
  <2>1. CASE \E f : Mishap(f)
    BY <2>1, MishapType
  <2>2. CASE UNCHANGED mishaps
    BY <2>2 DEF TypeOK
  <2>3. QED
    BY <2>1, <2>2
       DEF AgentStep, AgentFault, Connect, TakeTask, IgnoreOrder, TakeAbort, SendResult, Exit,
           RenderSucceeds, StopTrying, RenderFails, StartFails, Crash, PipeBreaks, Reconnect,
           agentVars
<1>7. QED
  BY <1>2, <1>3, <1>4, <1>5, <1>6
     DEF TypeOK, AgentState, tickVars, renderVars, commandVars

LEMMA TypesStep == TypeOK /\ [Next]_vars => TypeOK'
<1>1. TypeOK /\ UNCHANGED vars => TypeOK'
  BY DEF TypeOK, vars, tickVars, renderVars, commandVars, ipcVars, agentVars
<1>2. ASSUME TypeOK, NEW d \in Dispatches, Enqueue(d) PROVE TypeOK'
  BY <1>2 DEF TypeOK, Enqueue, tickVars, ipcVars, agentVars
<1>3. ASSUME TypeOK, Disconnect PROVE TypeOK'
  BY <1>3 DEF TypeOK, Disconnect, OnAgent, tickVars, renderVars, commandVars, agentVars
<1>4. ASSUME TypeOK, MainThread PROVE TypeOK'
  BY <1>4, TypesTick, TypesUpdate, TypesCheck DEF MainThread
<1>5. ASSUME TypeOK, EndDelivery PROVE TypeOK'
  BY <1>5, TypesDelivery DEF EndDelivery
<1>6. QED
  BY <1>1, <1>2, <1>3, <1>4, <1>5, TypesClock, TypesCommand, TypesAgent DEF Next

\* Every variable of Worker keeps its type, whatever commands come and whatever
\* goes wrong.
THEOREM TypeCorrect == Spec => []TypeOK
<1>1. QED  BY TypesInit, TypesStep, PTL DEF Spec

-----------------------------------------------------------------------------
(* Every dispatch is in one place. *)

Here(d) ==
    Len(told[d]) + Cardinality(Places(queue, d))
      + (IF active = d THEN 1 ELSE 0) + (IF d \in held THEN 1 ELSE 0)

Balanced == \A d \in Dispatches : Here(d) = IF d \in taken THEN 1 ELSE 0

\* The places of Accounted are those of Balanced.
LEMMA AccountedBalanced == Accounted <=> Balanced
<1>1. ASSUME NEW d
      PROVE  /\ Cardinality({x \in {active} : x = d}) = IF active = d THEN 1 ELSE 0
             /\ Cardinality(held \cap {d}) = IF d \in held THEN 1 ELSE 0
  <2>1. {x \in {active} : x = d} = IF active = d THEN {d} ELSE {}
    OBVIOUS
  <2>2. held \cap {d} = IF d \in held THEN {d} ELSE {}
    OBVIOUS
  <2>3. Cardinality({d}) = 1 /\ Cardinality({}) = 0
    BY FS_Singleton, FS_EmptySet
  <2>4. QED  BY <2>1, <2>2, <2>3
<1>2. QED  BY <1>1 DEF Accounted, Balanced, Here, Places

\* The numbers of a balance, and what they leave room for.
LEMMA Numbers ==
    ASSUME TypeOK, Balanced, NEW d \in Dispatches
    PROVE  /\ Len(told[d]) \in Nat /\ Cardinality(Places(queue, d)) \in Nat
           /\ active = d =>
                d \notin held /\ Cardinality(Places(queue, d)) = 0 /\ Len(told[d]) = 0
           /\ d \in held => active # d /\ Len(told[d]) = 0
           /\ d \notin taken => active # d /\ d \notin held
<1>1. Len(told[d]) \in Nat
  BY DEF TypeOK
<1>2. Cardinality(Places(queue, d)) \in Nat
  BY PlacesFinite DEF TypeOK
<1>3. Here(d) = IF d \in taken THEN 1 ELSE 0
  BY DEF Balanced
<1>4. QED  BY <1>1, <1>2, <1>3 DEF Here

LEMMA BalancedInit == Init => Balanced
<1> SUFFICES ASSUME Init, NEW d \in Dispatches PROVE Here(d) = 0 /\ d \notin taken
  BY DEF Balanced
<1>1. Cardinality(Places(queue, d)) = 0
  BY PlacesEmpty DEF Init
<1>2. Len(told[d]) = 0 /\ active # d /\ d \notin held /\ d \notin taken
  BY WorkerAssumption DEF Init
<1>3. QED  BY <1>1, <1>2 DEF Here

\* A dispatch told one thing more.
LEMMA Told ==
    ASSUME TypeOK, NEW c \in Dispatches, NEW v, Tell(c, v), NEW d \in Dispatches
    PROVE  Len(told'[d]) = Len(told[d]) + (IF c = d THEN 1 ELSE 0)
<1>1. told \in [Dispatches -> Seq(Verdict)]
  BY DEF TypeOK, Verdict
<1>2. told'[d] = IF c = d THEN Append(told[d], v) ELSE told[d]
  BY <1>1 DEF Tell
<1>3. Len(Append(told[d], v)) = Len(told[d]) + 1 /\ Len(told[d]) \in Nat
  BY <1>1
<1>4. CASE c = d
  BY <1>2, <1>3, <1>4
<1>5. CASE c # d
  BY <1>2, <1>3, <1>5
<1>6. QED  BY <1>4, <1>5

LEMMA BalancedSame ==
    ASSUME Balanced, UNCHANGED <<told, queue, active, held, taken>>
    PROVE  Balanced'
BY DEF Balanced, Here

\* The active render ends and is told, or is held.
LEMMA BalancedEnd ==
    ASSUME TypeOK, Balanced, active # None, active' = None, UNCHANGED <<queue, taken>>,
           \/ held' = held /\ \E v \in Verdict : Tell(active, v)
           \/ told' = told /\ held' = held \cup {active}
    PROVE  Balanced'
<1> SUFFICES ASSUME NEW d \in Dispatches PROVE Here(d)' = IF d \in taken THEN 1 ELSE 0
  BY DEF Balanced
<1>1. Here(d) = IF d \in taken THEN 1 ELSE 0
  BY DEF Balanced
<1>2. active \in Dispatches /\ None \notin Dispatches
  BY WorkerAssumption DEF TypeOK
<1>3. /\ Len(told[d]) \in Nat /\ Cardinality(Places(queue, d)) \in Nat
      /\ active = d => d \notin held
  BY Numbers
<1>4. CASE held' = held /\ \E v \in Verdict : Tell(active, v)
  <2>1. Len(told'[d]) = Len(told[d]) + (IF active = d THEN 1 ELSE 0)
    BY <1>2, <1>4, Told
  <2>2. CASE active = d
    BY <1>1, <1>2, <1>3, <1>4, <2>1, <2>2 DEF Here
  <2>3. CASE active # d
    BY <1>1, <1>2, <1>3, <1>4, <2>1, <2>3 DEF Here
  <2>4. QED  BY <2>2, <2>3
<1>5. CASE told' = told /\ held' = held \cup {active}
  BY <1>1, <1>2, <1>3, <1>5 DEF Here
<1>6. QED  BY <1>4, <1>5

\* The head of the queue is told, is put at its end, or becomes active.
LEMMA BalancedHead ==
    ASSUME TypeOK, Balanced, queue # <<>>, UNCHANGED <<held, taken>>,
           \/ /\ queue' = Tail(queue) /\ active' = active
              /\ \E v \in Verdict : Tell(Head(queue), v)
           \/ /\ queue' = Append(Tail(queue), Head(queue))
              /\ UNCHANGED <<active, told>>
           \/ /\ queue' = Tail(queue) /\ active = None /\ active' = Head(queue)
              /\ told' = told
    PROVE  Balanced'
<1> SUFFICES ASSUME NEW d \in Dispatches PROVE Here(d)' = IF d \in taken THEN 1 ELSE 0
  BY DEF Balanced
<1>1. Here(d) = IF d \in taken THEN 1 ELSE 0
  BY DEF Balanced
<1>2. /\ queue \in Seq(Dispatches) /\ Head(queue) \in Dispatches
      /\ Tail(queue) \in Seq(Dispatches) /\ None \notin Dispatches
  BY WorkerAssumption DEF TypeOK
<1>3. Len(told[d]) \in Nat /\ Cardinality(Places(queue, d)) \in Nat
  BY Numbers
<1>4. /\ Cardinality(Places(Tail(queue), d)) \in Nat
      /\ Cardinality(Places(queue, d)) =
           Cardinality(Places(Tail(queue), d)) + (IF Head(queue) = d THEN 1 ELSE 0)
  BY <1>2, PlacesTail, PlacesFinite
<1>5. CASE queue' = Tail(queue) /\ active' = active /\ \E v \in Verdict : Tell(Head(queue), v)
  <2>1. Len(told'[d]) = Len(told[d]) + (IF Head(queue) = d THEN 1 ELSE 0)
    BY <1>2, <1>5, Told
  <2>2. CASE Head(queue) = d
    BY <1>1, <1>3, <1>4, <1>5, <2>1, <2>2 DEF Here
  <2>3. CASE Head(queue) # d
    BY <1>1, <1>3, <1>4, <1>5, <2>1, <2>3 DEF Here
  <2>4. QED  BY <2>2, <2>3
<1>6. CASE queue' = Append(Tail(queue), Head(queue)) /\ UNCHANGED <<active, told>>
  <2>1. Cardinality(Places(queue', d)) =
          Cardinality(Places(Tail(queue), d)) + (IF Head(queue) = d THEN 1 ELSE 0)
    <3>1. \A q \in Seq(Dispatches), r \in Dispatches :
            Cardinality(Places(Append(q, r), d)) =
              Cardinality(Places(q, d)) + (IF r = d THEN 1 ELSE 0)
      BY PlacesAppend
    <3>2. QED  BY <1>2, <1>6, <3>1
  <2>2. QED  BY <1>1, <1>3, <1>4, <1>6, <2>1 DEF Here
<1>7. CASE queue' = Tail(queue) /\ active = None /\ active' = Head(queue) /\ told' = told
  BY <1>1, <1>2, <1>3, <1>4, <1>7 DEF Here
<1>8. QED  BY <1>5, <1>6, <1>7

LEMMA BalancedEnqueue ==
    ASSUME TypeOK, Balanced, NEW c \in Dispatches, Enqueue(c)
    PROVE  Balanced'
<1> SUFFICES ASSUME NEW d \in Dispatches PROVE Here(d)' = IF d \in taken' THEN 1 ELSE 0
  BY DEF Balanced
<1>1. Here(d) = IF d \in taken THEN 1 ELSE 0
  BY DEF Balanced
<1>2. /\ c \notin taken /\ queue' = Append(queue, c) /\ taken' = taken \cup {c}
      /\ UNCHANGED <<active, held, told>>
  BY DEF Enqueue
<1>3. Cardinality(Places(queue', d)) = Cardinality(Places(queue, d)) + (IF c = d THEN 1 ELSE 0)
  BY <1>2, PlacesAppend DEF TypeOK
<1>4. Len(told[d]) \in Nat /\ Cardinality(Places(queue, d)) \in Nat
  BY Numbers
<1>5. QED  BY <1>1, <1>2, <1>3, <1>4 DEF Here

LEMMA BalancedDelivery ==
    ASSUME TypeOK, Balanced, NEW c \in Dispatches,
           DropDelivery(c) \/ Redeliver(c) \/ GiveUpDelivery(c)
    PROVE  Balanced'
<1> SUFFICES ASSUME NEW d \in Dispatches PROVE Here(d)' = IF d \in taken' THEN 1 ELSE 0
  BY DEF Balanced
<1>1. Here(d) = IF d \in taken THEN 1 ELSE 0
  BY DEF Balanced
<1>2. PICK v : EndHeld(c, v)
  BY DEF DropDelivery, Redeliver, GiveUpDelivery
<1>3. /\ c \in held /\ held' = held \ {c} /\ Tell(c, v)
      /\ UNCHANGED <<queue, active, taken>>
  BY <1>2 DEF EndHeld, commandVars
<1>4. Len(told'[d]) = Len(told[d]) + (IF c = d THEN 1 ELSE 0)
  BY <1>3, Told
<1>5. Len(told[d]) \in Nat /\ Cardinality(Places(queue, d)) \in Nat
  BY Numbers
<1>6. CASE c = d
  BY <1>1, <1>3, <1>4, <1>5, <1>6 DEF Here
<1>7. CASE c # d
  BY <1>1, <1>3, <1>4, <1>5, <1>7 DEF Here
<1>8. QED  BY <1>6, <1>7

\* A purge tells each dispatch of the job once, wherever it is.
LEMMA BalancedClear ==
    ASSUME TypeOK, Balanced, NEW j, NEW v, ClearJob(j, v), UNCHANGED <<held, taken>>
    PROVE  Balanced'
<1> SUFFICES ASSUME NEW d \in Dispatches PROVE Here(d)' = IF d \in taken THEN 1 ELSE 0
  BY DEF Balanced
<1>1. Here(d) = IF d \in taken THEN 1 ELSE 0
  BY DEF Balanced
<1>2. /\ Len(told[d]) \in Nat /\ Cardinality(Places(queue, d)) \in Nat
      /\ active = d => d \notin held /\ Cardinality(Places(queue, d)) = 0
  BY Numbers
<1>3. Cardinality(Places(queue', d)) =
        IF JobOf[d] = j THEN 0 ELSE Cardinality(Places(queue, d))
  BY KeepCounts DEF ClearJob, TypeOK
<1>4. Queued(d) <=> Cardinality(Places(queue, d)) # 0
  BY PlacesQueued DEF TypeOK, Queued
<1>5. told[d] \in Seq(Verdict)
  BY DEF TypeOK, Verdict
<1>6. \A w : Len(Append(told[d], w)) = Len(told[d]) + 1
  BY <1>5
<1>7. told'[d] = IF d = active /\ JobOf[d] = j THEN Append(told[d], v)
                 ELSE IF JobOf[d] = j /\ Queued(d) THEN Append(told[d], "dropped")
                 ELSE told[d]
  BY DEF ClearJob
<1>8. active' = d <=> active = d /\ JobOf[d] # j
  <2>1. None \notin Dispatches
    BY WorkerAssumption
  <2>2. CASE \E c \in Dispatches : c = active /\ JobOf[c] = j
    BY <2>1, <2>2 DEF ClearJob
  <2>3. CASE ~ \E c \in Dispatches : c = active /\ JobOf[c] = j
    BY <2>3 DEF ClearJob
  <2>4. QED  BY <2>2, <2>3
<1>9. CASE JobOf[d] # j
  BY <1>1, <1>2, <1>3, <1>7, <1>8, <1>9 DEF Here
<1>10. CASE JobOf[d] = j
  <2>1. Cardinality(Places(queue', d)) = 0 /\ active' # d
    BY <1>3, <1>8, <1>10
  <2>2. CASE d = active
    <3>1. Len(told'[d]) = Len(told[d]) + 1
      BY <1>6, <1>7, <1>10, <2>2
    <3>2. QED  BY <1>1, <1>2, <2>1, <2>2, <3>1 DEF Here
  <2>3. CASE d # active /\ Cardinality(Places(queue, d)) # 0
    <3>1. Len(told'[d]) = Len(told[d]) + 1
      BY <1>4, <1>6, <1>7, <1>10, <2>3
    <3>2. d \in taken /\ d \notin held /\ Len(told[d]) = 0
      BY <1>1, <1>2, <2>3 DEF Here
    <3>3. Here(d)' = 1
      BY <2>1, <3>1, <3>2 DEF Here
    <3>4. QED  BY <3>2, <3>3
  <2>4. CASE d # active /\ Cardinality(Places(queue, d)) = 0
    <3>1. told'[d] = told[d]
      BY <1>4, <1>7, <1>10, <2>4
    <3>2. QED  BY <1>1, <1>2, <2>1, <2>4, <3>1 DEF Here
  <2>5. QED  BY <2>2, <2>3, <2>4
<1>11. QED  BY <1>9, <1>10

LEMMA BalancedMainThread == TypeOK /\ Balanced /\ MainThread => Balanced'
<1> SUFFICES ASSUME TypeOK, Balanced, MainThread PROVE Balanced'
  OBVIOUS
<1>1. CASE \/ BeginTick \/ EndMessages \/ NothingToStart
           \/ NothingToCheck \/ Connected \/ StartGrace
  BY <1>1, BalancedSame
     DEF BeginTick, EndMessages, NothingToStart, NothingToCheck, Connected, StartGrace, EndTick,
         renderVars, commandVars
<1>2. CASE HandleMessage
  <2>1. UNCHANGED <<queue, taken>>
    BY <1>2 DEF HandleMessage, commandVars
  <2>2. CASE UNCHANGED <<active, held, told>>
    BY <2>1, <2>2, BalancedSame
  <2>3. CASE active # None /\ CompleteActive
    BY <2>1, <2>3, BalancedEnd DEF CompleteActive, Verdict
  <2>4. CASE active # None /\ EndActive("failed") /\ held' = held
    BY <2>1, <2>4, BalancedEnd DEF EndActive, Verdict
  <2>5. QED  BY <1>2, <2>2, <2>3, <2>4 DEF HandleMessage, HandleResult
<1>3. CASE SkipStopped \/ SpawnFails \/ FailOverdue
  <2>1. /\ queue # <<>> /\ queue' = Tail(queue) /\ UNCHANGED <<active, held, taken>>
        /\ \E v \in Verdict : Tell(Head(queue), v)
    BY <1>3 DEF SkipStopped, SpawnFails, FailOverdue, NeedsAgent, Dequeue, commandVars, Verdict
  <2>2. QED  BY <2>1, BalancedHead
<1>4. CASE SpawnAgent \/ KeepWaiting
  <2>1. /\ queue # <<>> /\ queue' = Append(Tail(queue), Head(queue))
        /\ UNCHANGED <<active, told, held, taken>>
    BY <1>4 DEF SpawnAgent, KeepWaiting, NeedsAgent, Dequeue, PutBack, commandVars
  <2>2. QED  BY <2>1, BalancedHead
<1>5. CASE StartRender
  <2>1. /\ queue # <<>> /\ queue' = Tail(queue) /\ active = None /\ active' = Head(queue)
        /\ UNCHANGED <<told, held, taken>>
    BY <1>5 DEF StartRender, Dequeue, commandVars
  <2>2. QED  BY <2>1, BalancedHead
<1>6. CASE FailDisconnected
  <2>1. active # None /\ active' = None /\ Tell(active, "failed") /\ UNCHANGED <<queue, held, taken>>
    BY <1>6 DEF FailDisconnected, EndActive, EndTick, commandVars
  <2>2. QED  BY <2>1, BalancedEnd DEF Verdict
<1>7. QED  BY <1>1, <1>2, <1>3, <1>4, <1>5, <1>6 DEF MainThread

LEMMA BalancedCommand == TypeOK /\ Balanced /\ Command => Balanced'
<1> SUFFICES ASSUME TypeOK, Balanced, Command PROVE Balanced'
  OBVIOUS
<1>1. ASSUME NEW j \in JobSet, Cancel(j) \/ Abandon(j) \/ Delete(j) PROVE Balanced'
  <2>1. PICK v : ClearJob(j, v)
    BY <1>1 DEF Cancel, Abandon, Delete
  <2>2. UNCHANGED <<held, taken>>
    BY <1>1 DEF Cancel, Abandon, Delete, OnWorker
  <2>3. QED  BY <2>1, <2>2, BalancedClear
<1>2. CASE StopNode
  <2>1. UNCHANGED <<queue, held, taken>>
    BY <1>2 DEF StopNode, OnWorker
  <2>2. CASE active = None
    BY <1>2, <2>1, <2>2, BalancedSame DEF StopNode
  <2>3. CASE active # None
    <3>1. active' = None /\ Tell(active, "failed")
      BY <1>2, <2>3 DEF StopNode, EndActive
    <3>2. QED  BY <2>1, <2>3, <3>1, BalancedEnd DEF Verdict
  <2>4. QED  BY <2>2, <2>3
<1>3. CASE ResumeNode
  BY <1>3, BalancedSame DEF ResumeNode, OnWorker
<1>4. QED  BY <1>1, <1>2, <1>3 DEF Command

LEMMA BalancedStep == TypeOK /\ Balanced /\ [Next]_vars => Balanced'
<1> SUFFICES ASSUME TypeOK, Balanced, [Next]_vars PROVE Balanced'
  OBVIOUS
<1>1. CASE UNCHANGED vars
  BY <1>1, BalancedSame DEF vars, renderVars, commandVars
<1>2. CASE Disconnect \/ Clock
  BY <1>2, BalancedSame
     DEF Disconnect, OnAgent, Clock, Overdue, GraceExpires, renderVars, commandVars
<1>3. ASSUME NEW a \in Agents, AgentStep(a) \/ AgentFault(a) PROVE Balanced'
  <2>1. OnAgent
    BY <1>3
       DEF AgentStep, AgentFault, Connect, TakeTask, IgnoreOrder, TakeAbort, RenderSucceeds,
           SendResult, Exit, StopTrying, RenderFails, StartFails, Crash, PipeBreaks, Reconnect
  <2>2. QED  BY <2>1, BalancedSame DEF OnAgent, renderVars, commandVars
<1>4. CASE EndDelivery
  BY <1>4, BalancedDelivery DEF EndDelivery
<1>5. QED
  BY <1>1, <1>2, <1>3, <1>4, BalancedEnqueue, BalancedMainThread, BalancedCommand DEF Next

\* No dispatch the node accepted is lost or answered twice: it waits, renders,
\* is held for its copy, or has been told one verdict, through every message,
\* timeout, purge, stop and redelivery.
THEOREM EveryDispatchIsAccounted == Spec => []Accounted
<1>1. QED  BY TypeCorrect, BalancedInit, BalancedStep, AccountedBalanced, PTL DEF Spec

-----------------------------------------------------------------------------
(* One render at a time. *)

\* An agent that takes orders is the one connected.
Linked == \A a \in Agents : agent[a].at \in {"idle", "rendering"} => link = a

LEMMA LinkedStep == TypeOK /\ Linked /\ [Next]_vars => Linked'
<1> SUFFICES ASSUME TypeOK, Linked, [Next]_vars PROVE Linked'
  OBVIOUS
<1>1. CASE UNCHANGED <<link, agent>>
  BY <1>1 DEF Linked
<1>2. CASE SpawnAgent
  <2>1. PICK a \in Agents : agent' = [agent EXCEPT ![a].at = "starting"]
    BY <1>2 DEF SpawnAgent
  <2>2. \A b \in Agents : agent'[b].at \in {agent[b].at, "starting"}
    BY <2>1 DEF TypeOK
  <2>3. link' = link
    BY <1>2 DEF SpawnAgent
  <2>4. QED  BY <2>2, <2>3 DEF Linked
<1>3. CASE Disconnect
  <2>1. link # None /\ agent[link].at \in {"gone", "orphaned", "lost"} /\ agent' = agent
    BY <1>3 DEF Disconnect, Dead, agentVars
  <2>2. \A a \in Agents : agent[a].at \notin {"idle", "rendering"}
    BY <2>1 DEF Linked
  <2>3. QED  BY <2>1, <2>2 DEF Linked
<1>4. ASSUME NEW a \in Agents, AgentStep(a) \/ AgentFault(a) PROVE Linked'
  <2>1. CASE Connect(a) \/ Reconnect(a)
    <3>1. link = None /\ link' = a
      BY <2>1 DEF Connect, Reconnect
    <3>2. \A b \in Agents : agent[b].at \notin {"idle", "rendering"}
      BY <3>1, WorkerAssumption DEF Linked
    <3>3. \A b \in Agents : b # a => agent'[b] = agent[b]
      BY <2>1 DEF Connect, Reconnect, TypeOK
    <3>4. QED  BY <3>1, <3>2, <3>3 DEF Linked
  <2>2. CASE TakeTask(a)
    <3>1. agent[a].at = "idle" /\ link' = link
      BY <2>2 DEF TakeTask
    <3>2. \A b \in Agents : b # a => agent'[b] = agent[b]
      BY <2>2 DEF TakeTask, TypeOK
    <3>3. QED  BY <3>1, <3>2 DEF Linked
  <2>3. CASE \/ IgnoreOrder(a) \/ TakeAbort(a) \/ RenderSucceeds(a) \/ SendResult(a) \/ Exit(a)
             \/ StopTrying(a) \/ RenderFails(a) \/ StartFails(a) \/ Crash(a) \/ PipeBreaks(a)
    <3>1. link' = link
      <4>1. CASE IgnoreOrder(a) \/ TakeAbort(a) \/ SendResult(a) \/ StartFails(a)
        BY <4>1 DEF IgnoreOrder, TakeAbort, SendResult, StartFails
      <4>2. CASE \/ RenderSucceeds(a) \/ Exit(a) \/ StopTrying(a) \/ RenderFails(a)
                 \/ Crash(a) \/ PipeBreaks(a)
        BY <4>2 DEF RenderSucceeds, Exit, StopTrying, RenderFails, Crash, PipeBreaks, ipcVars
      <4>3. QED  BY <2>3, <4>1, <4>2
    <3>2. \A b \in Agents : agent'[b].at \in {agent[b].at, "leaving", "gone", "lost", "orphaned"}
      <4>1. agent \in [Agents -> AgentState]
        BY DEF TypeOK, AgentState
      <4>2. CASE UNCHANGED agent
        BY <4>2
      <4>3. CASE \E w : agent' = [agent EXCEPT ![a].killed = w] \/ agent' = [agent EXCEPT ![a].result = w]
        BY <4>1, <4>3 DEF AgentState
      <4>4. CASE \E w \in {"leaving", "gone", "lost", "orphaned"} : agent' = [agent EXCEPT ![a].at = w]
        BY <4>1, <4>4 DEF AgentState
      <4>5. CASE IgnoreOrder(a) \/ StartFails(a)
        BY <4>2, <4>5 DEF IgnoreOrder, StartFails, agentVars
      <4>6. CASE TakeAbort(a) \/ RenderSucceeds(a) \/ RenderFails(a)
        BY <4>3, <4>6 DEF TakeAbort, RenderSucceeds, RenderFails
      <4>7. CASE SendResult(a) \/ Exit(a) \/ StopTrying(a) \/ Crash(a)
        BY <4>4, <4>7 DEF SendResult, Exit, StopTrying, Crash
      <4>8. CASE PipeBreaks(a)
        BY <4>1, <4>8 DEF PipeBreaks, AgentState
      <4>9. QED  BY <2>3, <4>5, <4>6, <4>7, <4>8
    <3>3. QED  BY <3>1, <3>2 DEF Linked
  <2>4. QED  BY <1>4, <2>1, <2>2, <2>3 DEF AgentStep, AgentFault
<1>5. CASE MainThread
  <2>1. SpawnAgent \/ UNCHANGED <<link, agent>>
    BY <1>5
       DEF MainThread, BeginTick, HandleMessage, EndMessages, NothingToStart, SkipStopped,
           SpawnFails, KeepWaiting, FailOverdue, StartRender, NothingToCheck, Connected,
           StartGrace, FailDisconnected, EndTick, ipcVars, agentVars
  <2>2. QED  BY <1>1, <1>2, <2>1
<1>6. CASE Command \/ EndDelivery \/ Clock \/ \E d \in Dispatches : Enqueue(d)
  <2>1. UNCHANGED <<link, agent>>
    BY <1>6
       DEF Command, Cancel, Abandon, Delete, StopNode, ResumeNode, OnWorker, EndDelivery,
           DropDelivery, Redeliver, GiveUpDelivery, EndHeld, Clock, Overdue, GraceExpires,
           Enqueue, ipcVars, agentVars
  <2>2. QED  BY <1>1, <2>1
<1>7. CASE UNCHANGED vars
  BY <1>1, <1>7 DEF vars, ipcVars, agentVars
<1>8. QED  BY <1>3, <1>4, <1>5, <1>6, <1>7 DEF Next

\* An agent takes one task and is served alone, however many are spawned: of
\* two renders one is that of an agent that has lost its connection and not
\* given up, or the renderer that an agent left behind when it died.
THEOREM OneRender == Spec => []OneRenderAtATime
<1>1. Init => Linked
  BY DEF Init, Linked
<1>2. Linked => OneRenderAtATime
  <2> SUFFICES ASSUME Linked, NEW a \in Agents, NEW b \in Agents, a # b,
                      agent[a].at = "rendering", agent[b].at = "rendering"
               PROVE  FALSE
    BY DEF OneRenderAtATime
  <2>1. QED  BY DEF Linked
<1>3. QED  BY <1>1, <1>2, TypeCorrect, LinkedStep, PTL DEF Spec
-----------------------------------------------------------------------------
(* What a completed verdict is about.  The coordinator takes every result   *)
(* for the active render's, so this is a theorem of nodes where no render   *)
(* is given up while its agent lives, and each chunk has its directory.     *)

Undisturbed ==
    /\ Commands = {} /\ "pipeBreaks" \notin Faults
    /\ \A c, d \in Dispatches : DirOf[c] = DirOf[d] => c = d

NoResult(s) == \A i \in DOMAIN s : s[i].kind = "idle"

\* Where the frames of a render that succeeded are.
Ready == IF Staging THEN "staged" ELSE "delivered"

TaskOf(d) == [kind |-> "task", of |-> d]

\* No agent loses its connection and lives, and one that has not begun has no result.
AgentsFresh ==
    \A a \in Agents : /\ agent[a].at # "lost"
                      /\ agent[a].at \in {"unborn", "starting", "idle"} => agent[a].result = "none"

\* The active render is in one place: on its way to the agent, in the agent,
\* or in one message of the agent's.
InOnePlace ==
    /\ toAgent # <<>> => /\ active # None /\ toAgent = <<TaskOf(active)>> /\ link # None
                         /\ NoResult(batch) /\ NoResult(mail)
    /\ \A a \in Agents : agent[a].at = "rendering" =>
         /\ active # None /\ agent[a].task = active /\ toAgent = <<>>
         /\ NoResult(batch) /\ NoResult(mail)
    /\ NoResult(batch) \/ NoResult(mail)

\* Nothing of an ended render is left when the next one is started.
NothingLeft ==
    /\ phase # "messages" => batch = <<>>
    /\ active = None /\ phase # "rest" => NoResult(mail)

\* Frames are ready when their agent, a message or the held delivery says so.
FramesReady ==
    /\ \A a \in Agents :
         agent[a].at = "rendering" /\ agent[a].result = "completed" => frames[active] = Ready
    /\ active # None => \A s \in {batch, mail} : \A i \in DOMAIN s :
         s[i].kind = "completed" => frames[active] = Ready
    /\ \A d \in held : Staging /\ frames[d] = "staged"
    /\ \A d \in Dispatches : frames[d] # "torn"

Unsuccessful(d) == told[d] \notin {<<>>, <<"completed">>}

\* What an orphaned renderer works on will not be reported completed: no agent
\* has it any more and no result is on its way, or it has ended otherwise.
OrphansUnanswered ==
    \A a \in Agents : agent[a].at = "orphaned" =>
      /\ agent[a].task \in Dispatches
      /\ \/ /\ agent[a].task = active /\ toAgent = <<>>
            /\ NoResult(batch) /\ NoResult(mail)
            /\ \A b \in Agents : agent[b].at # "rendering"
         \/ Unsuccessful(agent[a].task)

Sound ==
    /\ AgentsFresh /\ InOnePlace /\ NothingLeft /\ FramesReady
    /\ OrphansUnanswered /\ CompletedMeansDelivered

LEMMA SoundInit == Init => Sound
<1> SUFFICES ASSUME Init PROVE Sound
  OBVIOUS
<1>1. AgentsFresh
  BY DEF Init, AgentsFresh
<1>2. InOnePlace /\ NothingLeft
  BY DEF Init, InOnePlace, NothingLeft, NoResult
<1>3. FramesReady /\ OrphansUnanswered /\ CompletedMeansDelivered
  BY DEF Init, FramesReady, OrphansUnanswered, CompletedMeansDelivered
<1>4. QED  BY <1>1, <1>2, <1>3 DEF Sound

\* What a dispatch is told last is the last of what it was told.
LEMMA LastTold ==
    ASSUME NEW s \in Seq(Verdict), NEW v \in Verdict, v # "completed"
    PROVE  Append(s, v) \notin {<<>>, <<"completed">>}
<1>1. /\ Len(Append(s, v)) = Len(s) + 1 /\ Len(s) \in Nat
      /\ Append(s, v)[Len(s) + 1] = v
  OBVIOUS
<1>2. ASSUME Append(s, v) = <<"completed">> PROVE FALSE
  <2>1. Len(Append(s, v)) = 1 /\ Append(s, v)[1] = "completed"
    BY <1>2
  <2>2. QED  BY <1>1, <2>1
<1>3. ASSUME Append(s, v) = <<>> PROVE FALSE
  <2>1. Len(Append(s, v)) = 0
    BY <1>3
  <2>2. QED  BY <1>1, <2>1
<1>4. QED  BY <1>2, <1>3

\* Another verdict than "completed" completes nothing.
LEMMA ToldLast ==
    ASSUME TypeOK, NEW c \in Dispatches, NEW v \in Verdict, v # "completed", Tell(c, v)
    PROVE  /\ \A d \in Dispatches : told'[d] = <<"completed">> => told[d] = <<"completed">>
           /\ \A d \in Dispatches : Unsuccessful(d) => Unsuccessful(d)'
           /\ told'[c] \notin {<<>>, <<"completed">>}
<1>1. told \in [Dispatches -> Seq(Verdict)]
  BY DEF TypeOK, Verdict
<1>2. \A d \in Dispatches : told'[d] = IF c = d THEN Append(told[d], v) ELSE told[d]
  BY <1>1 DEF Tell
<1>3. \A d \in Dispatches : Append(told[d], v) \notin {<<>>, <<"completed">>}
  BY <1>1, LastTold
<1>4. QED  BY <1>2, <1>3 DEF Unsuccessful

\* A copy, for a dispatch with a directory of its own, moves its frames only.
LEMMA OwnFramesDelivered ==
    ASSUME TypeOK, Undisturbed, NEW c \in Dispatches, frames[c] = Ready, Deliver(c)
    PROVE  /\ frames'[c] = "delivered"
           /\ \A d \in Dispatches : d # c => frames'[d] = frames[d]
<1>1. \A d \in Dispatches : d # c => DirOf[d] # DirOf[c]
  BY DEF Undisturbed
<1>2. CASE Staging
  BY <1>1, <1>2 DEF Deliver, FramesDelivered, Ready
<1>3. CASE ~Staging
  BY <1>3 DEF Deliver, Ready
<1>4. QED  BY <1>2, <1>3

\* Nothing that a result passes through moves; other verdicts may be told.
LEMMA SoundKept ==
    ASSUME TypeOK, Sound,
           UNCHANGED <<active, batch, mail, toAgent, link, agent, frames, held>>,
           phase' # "messages" => batch = <<>>,
           active = None /\ phase' # "rest" => NoResult(mail),
           \/ told' = told
           \/ \E c \in Dispatches, v \in Verdict : v # "completed" /\ Tell(c, v)
    PROVE  Sound'
<1>1. AgentsFresh'
  BY DEF Sound, AgentsFresh
<1>2. InOnePlace'
  BY DEF Sound, InOnePlace, NoResult, TaskOf
<1>3. NothingLeft'
  BY DEF Sound, NothingLeft, NoResult
<1>4. FramesReady'
  BY DEF Sound, FramesReady, Ready
<1>5. CompletedMeansDelivered'
  BY ToldLast DEF Sound, CompletedMeansDelivered
<1>6. OrphansUnanswered'
  <2>1. \A d \in Dispatches : Unsuccessful(d) => Unsuccessful(d)'
    BY ToldLast DEF Unsuccessful
  <2>2. QED  BY <2>1 DEF Sound, OrphansUnanswered, NoResult
<1>7. QED  BY <1>1, <1>2, <1>3, <1>4, <1>5, <1>6 DEF Sound

LEMMA SoundMessage ==
    ASSUME TypeOK, Balanced, Undisturbed, Sound, HandleMessage
    PROVE  Sound'
<1> USE DEF Sound
<1>1. /\ phase = "messages" /\ batch # <<>> /\ batch' = Tail(batch) /\ batch \in Seq(Message)
      /\ UNCHANGED <<phase, link, mail, toAgent, agent>>
  BY DEF HandleMessage, TypeOK
<1>2. \A s \in {batch'} : \A i \in DOMAIN s : i + 1 \in DOMAIN batch /\ s[i] = batch[i + 1]
  BY <1>1
<1>3. Head(batch) = batch[1] /\ 1 \in DOMAIN batch
  BY <1>1
<1>4. NoResult(batch) => NoResult(batch')
  BY <1>2 DEF NoResult
<1>5. AgentsFresh'
  BY <1>1 DEF AgentsFresh
<1>6. CASE UNCHANGED <<active, held, told, frames>>
  <2>1. InOnePlace'
    BY <1>1, <1>4, <1>6 DEF InOnePlace, NoResult, TaskOf
  <2>2. NothingLeft'
    BY <1>1, <1>6 DEF NothingLeft, NoResult
  <2>3. FramesReady'
    BY <1>1, <1>2, <1>6 DEF FramesReady, Ready
  <2>4. OrphansUnanswered' /\ CompletedMeansDelivered'
    BY <1>1, <1>4, <1>6 DEF OrphansUnanswered, Unsuccessful, NoResult, CompletedMeansDelivered
  <2>5. QED  BY <1>5, <2>1, <2>2, <2>3, <2>4
<1>7. CASE /\ active # None /\ Head(batch).kind # "idle"
           /\ \/ Head(batch).kind = "completed" /\ CompleteActive
              \/ EndActive("failed") /\ UNCHANGED <<held, frames, mishaps>>
  <2>1. ~NoResult(batch)
    BY <1>3, <1>7 DEF NoResult
  <2>2. /\ toAgent = <<>> /\ NoResult(mail)
        /\ \A a \in Agents : agent[a].at # "rendering"
    BY <2>1 DEF InOnePlace
  <2>3. active' = None /\ active \in Dispatches
    BY <1>7 DEF CompleteActive, EndActive, TypeOK
  <2>4. InOnePlace' /\ NothingLeft'
    BY <1>1, <2>2, <2>3 DEF InOnePlace, NothingLeft, NoResult
  <2>5. active \notin held /\ told[active] = <<>>
    <3>1. active \notin held /\ Len(told[active]) = 0
      BY <2>3, Numbers
    <3>2. QED  BY <2>3, <3>1 DEF TypeOK
  <2> DEFINE Other == \A d \in Dispatches : d # active => told'[d] = told[d]
  <2>9. Other => OrphansUnanswered'
    <3> SUFFICES ASSUME Other PROVE OrphansUnanswered'
      OBVIOUS
    <3>1. \A a \in Agents : agent[a].at = "orphaned" =>
            agent[a].task \in Dispatches /\ Unsuccessful(agent[a].task)
      BY <2>1 DEF OrphansUnanswered
    <3>2. \A d \in Dispatches : Unsuccessful(d) => Unsuccessful(d)'
      BY <2>5 DEF Unsuccessful
    <3>3. QED  BY <1>1, <3>1, <3>2 DEF OrphansUnanswered
  <2>10. CompleteActive \/ EndActive("failed") => Other
    BY DEF CompleteActive, EndActive, Tell, TypeOK
  <2> HIDE DEF Other
  <2>6. CASE Head(batch).kind = "completed" /\ CompleteActive
    <3>1. frames[active] = Ready
      BY <1>3, <1>7, <2>6 DEF FramesReady
    <3>2. CASE Deliver(active) /\ Tell(active, "completed") /\ held' = held
      <4>1. /\ frames'[active] = "delivered"
            /\ \A d \in Dispatches : d # active => frames'[d] = frames[d]
        BY <2>3, <3>1, <3>2, OwnFramesDelivered
      <4>2. FramesReady'
        BY <1>1, <2>2, <2>3, <2>5, <3>2, <4>1 DEF FramesReady, TypeOK
      <4>3. \A d \in Dispatches : d # active => told'[d] = told[d]
        BY <3>2 DEF Tell, TypeOK
      <4>4. CompletedMeansDelivered'
        BY <4>1, <4>3 DEF CompletedMeansDelivered
      <4>5. QED  BY <1>5, <2>4, <2>6, <2>9, <2>10, <4>2, <4>4
    <3>3. CASE Staging /\ held' = held \cup {active} /\ UNCHANGED <<told, frames>>
      <4>1. FramesReady'
        BY <1>1, <2>2, <2>3, <3>1, <3>3 DEF FramesReady, Ready
      <4>2. CompletedMeansDelivered'
        BY <3>3 DEF CompletedMeansDelivered
      <4>3. QED  BY <1>5, <2>4, <2>6, <2>9, <2>10, <4>1, <4>2
    <3>4. QED  BY <2>6, <3>2, <3>3 DEF CompleteActive
  <2>7. CASE EndActive("failed") /\ UNCHANGED <<held, frames, mishaps>>
    <3>1. FramesReady'
      BY <1>1, <2>2, <2>3, <2>7 DEF FramesReady
    <3>2. CompletedMeansDelivered'
      <4>1. Tell(active, "failed") /\ "failed" \in Verdict /\ "failed" # "completed"
        BY <2>7 DEF EndActive, Verdict
      <4>2. QED  BY <2>3, <2>7, <4>1, ToldLast DEF CompletedMeansDelivered
    <3>3. QED  BY <1>5, <2>4, <2>7, <2>9, <2>10, <3>1, <3>2
  <2>8. QED  BY <1>7, <2>6, <2>7
<1>8. QED
  <2>1. \/ UNCHANGED <<active, held, told, frames>>
        \/ /\ active # None /\ Head(batch).kind # "idle"
           /\ \/ Head(batch).kind = "completed" /\ CompleteActive
              \/ EndActive("failed") /\ UNCHANGED <<held, frames, mishaps>>
    BY DEF HandleMessage, HandleResult
  <2>2. QED  BY <1>6, <1>7, <2>1

LEMMA SoundMainThread ==
    ASSUME TypeOK, Balanced, Linked, Undisturbed, Sound, MainThread
    PROVE  Sound'
<1> USE DEF Sound
<1>1. CASE BeginTick
  <2>1. /\ phase = "rest" /\ phase' = "messages" /\ batch' = mail /\ mail' = <<>>
        /\ UNCHANGED <<active, held, told, link, toAgent, agent, frames>>
    BY <1>1 DEF BeginTick, renderVars, agentVars
  <2>2. NoResult(<<>>) /\ NoResult(mail') /\ DOMAIN mail' = {}
    BY <2>1 DEF NoResult
  <2>3. AgentsFresh' /\ CompletedMeansDelivered'
    BY <2>1 DEF AgentsFresh, CompletedMeansDelivered
  <2>4. InOnePlace' /\ NothingLeft'
    BY <2>1, <2>2 DEF InOnePlace, NothingLeft, NoResult, TaskOf
  <2>5. FramesReady'
    BY <2>1, <2>2 DEF FramesReady, Ready
  <2>6. OrphansUnanswered'
    BY <2>1, <2>2 DEF OrphansUnanswered, Unsuccessful, NoResult
  <2>7. QED  BY <2>3, <2>4, <2>5, <2>6
<1>2. CASE EndMessages
  <2>1. batch = <<>> /\ active = None => NoResult(mail)
    BY <1>2 DEF EndMessages, NothingLeft
  <2>2. QED
    BY <1>2, <2>1, SoundKept DEF EndMessages, renderVars, ipcVars, agentVars
<1>3. CASE NothingToStart \/ SkipStopped \/ SpawnFails \/ KeepWaiting \/ FailOverdue
  <2>1. UNCHANGED <<active, batch, mail, toAgent, link, agent, frames, held>>
    BY <1>3 DEF NothingToStart, SkipStopped, SpawnFails, KeepWaiting, FailOverdue, renderVars,
                ipcVars, agentVars
  <2>2. phase = "update" /\ EndUpdate
    BY <1>3 DEF NothingToStart, SkipStopped, SpawnFails, KeepWaiting, FailOverdue, NeedsAgent,
                Dequeue
  <2>3. batch = <<>> /\ (active = None => phase' = "rest")
    BY <2>1, <2>2 DEF NothingLeft, EndUpdate
  <2>4. \/ told' = told
        \/ \E c \in Dispatches, v \in Verdict : v # "completed" /\ Tell(c, v)
    <3>1. CASE NothingToStart \/ KeepWaiting
      BY <3>1 DEF NothingToStart, KeepWaiting, renderVars
    <3>2. CASE SkipStopped \/ SpawnFails \/ FailOverdue
      <4>1. queue # <<>> /\ \E v \in {"failed", "abandoned"} : Tell(Head(queue), v)
        BY <3>2 DEF SkipStopped, SpawnFails, FailOverdue, NeedsAgent, Dequeue
      <4>2. Head(queue) \in Dispatches
        BY <4>1 DEF TypeOK
      <4>3. QED  BY <4>1, <4>2 DEF Verdict
    <3>3. QED  BY <1>3, <3>1, <3>2
  <2>5. QED  BY <2>1, <2>3, <2>4, SoundKept
<1>4. CASE SpawnAgent
  <2>1. PICK a \in Agents : agent[a].at = "unborn" /\ agent' = [agent EXCEPT ![a].at = "starting"]
    BY <1>4 DEF SpawnAgent
  <2>2. /\ \A b \in Agents : b # a => agent'[b] = agent[b]
        /\ agent'[a].at = "starting" /\ agent'[a].result = agent[a].result
    <3>1. agent \in [Agents -> AgentState]
      BY DEF TypeOK, AgentState
    <3>2. QED  BY <2>1, <3>1 DEF AgentState
  <2>3. /\ UNCHANGED <<active, told, held, batch, mail, toAgent, link, frames>>
        /\ phase = "update" /\ active = None
    BY <1>4 DEF SpawnAgent, NeedsAgent, Dequeue
  <2>4. batch = <<>> /\ phase' = "rest"
    BY <1>4, <2>3 DEF NothingLeft, SpawnAgent, EndUpdate
  <2>5. AgentsFresh'
    BY <2>1, <2>2 DEF AgentsFresh
  <2>6. InOnePlace' /\ NothingLeft'
    BY <2>2, <2>3, <2>4 DEF InOnePlace, NothingLeft, NoResult, TaskOf
  <2>7. FramesReady' /\ CompletedMeansDelivered'
    BY <2>2, <2>3 DEF FramesReady, CompletedMeansDelivered, Ready
  <2>8. OrphansUnanswered'
    BY <2>2, <2>3, WorkerAssumption DEF OrphansUnanswered, Unsuccessful, NoResult
  <2>9. QED  BY <2>5, <2>6, <2>7, <2>8
<1>5. CASE StartRender
  <2>1. /\ phase = "update" /\ active = None /\ link # None /\ queue # <<>>
        /\ active' = Head(queue) /\ toAgent' = Append(toAgent, TaskOf(Head(queue)))
        /\ UNCHANGED <<told, held, batch, mail, link, agent, frames>>
    BY <1>5 DEF StartRender, Dequeue, agentVars, TaskOf
  <2>2. active' \in Dispatches /\ active' # None
    BY <2>1, WorkerAssumption DEF TypeOK
  <2>3. /\ batch = <<>> /\ NoResult(mail) /\ toAgent = <<>>
        /\ \A a \in Agents : agent[a].at # "rendering"
    BY <2>1 DEF NothingLeft, InOnePlace
  <2>4. NoResult(batch)
    BY <2>3 DEF NoResult
  <2>5. toAgent' = <<TaskOf(active')>>
    BY <2>1, <2>3
  <2>6. phase' = "check"
    BY <1>5, <2>2 DEF StartRender, EndUpdate
  <2>7. AgentsFresh' /\ CompletedMeansDelivered'
    BY <2>1 DEF AgentsFresh, CompletedMeansDelivered
  <2>8. InOnePlace' /\ NothingLeft'
    BY <2>1, <2>2, <2>3, <2>4, <2>5, <2>6 DEF InOnePlace, NothingLeft, NoResult, TaskOf
  <2>9. FramesReady'
    BY <2>1, <2>3, <2>4 DEF FramesReady, Ready, NoResult
  <2>10. OrphansUnanswered'
    BY <2>1, WorkerAssumption DEF OrphansUnanswered, Unsuccessful
  <2>11. QED  BY <2>7, <2>8, <2>9, <2>10
<1>6. CASE NothingToCheck \/ Connected \/ StartGrace
  <2>1. /\ UNCHANGED <<active, told, batch, mail, toAgent, link, agent, frames, held>>
        /\ phase = "check" /\ phase' = "rest"
    BY <1>6 DEF NothingToCheck, Connected, StartGrace, EndTick, ipcVars, agentVars
  <2>2. batch = <<>>
    BY <2>1 DEF NothingLeft
  <2>3. QED  BY <2>1, <2>2, SoundKept
<1>7. CASE FailDisconnected
  <2>1. /\ phase = "check" /\ phase' = "rest" /\ active # None /\ active' = None /\ link = None
        /\ Tell(active, "failed")
        /\ UNCHANGED <<batch, mail, toAgent, link, agent, frames, held>>
    BY <1>7 DEF FailDisconnected, EndActive, EndTick, ipcVars, agentVars
  <2>2. batch = <<>> /\ toAgent = <<>> /\ \A a \in Agents : agent[a].at # "rendering"
    BY <2>1, WorkerAssumption DEF NothingLeft, InOnePlace, Linked
  <2>3. AgentsFresh' /\ InOnePlace' /\ NothingLeft'
    BY <2>1, <2>2 DEF AgentsFresh, InOnePlace, NothingLeft, NoResult
  <2>4. FramesReady'
    BY <2>1, <2>2 DEF FramesReady, Ready
  <2>5. active \in Dispatches /\ "failed" \in Verdict /\ "failed" # "completed"
    BY <2>1 DEF TypeOK, Verdict
  <2>6. CompletedMeansDelivered'
    BY <2>1, <2>5, ToldLast DEF CompletedMeansDelivered
  <2>7. OrphansUnanswered'
    <3>1. /\ told'[active] \notin {<<>>, <<"completed">>}
          /\ \A d \in Dispatches : Unsuccessful(d) => Unsuccessful(d)'
      BY <2>1, <2>5, ToldLast
    <3>2. \A a \in Agents : agent[a].at = "orphaned" =>
            agent[a].task \in Dispatches /\ told'[agent[a].task] \notin {<<>>, <<"completed">>}
      <4> SUFFICES ASSUME NEW a \in Agents, agent[a].at = "orphaned"
                   PROVE  /\ agent[a].task \in Dispatches
                          /\ told'[agent[a].task] \notin {<<>>, <<"completed">>}
        OBVIOUS
      <4>1. agent[a].task \in Dispatches /\ (agent[a].task = active \/ Unsuccessful(agent[a].task))
        BY DEF OrphansUnanswered
      <4>2. CASE agent[a].task = active
        BY <3>1, <4>1, <4>2
      <4>3. CASE Unsuccessful(agent[a].task)
        <5>1. \A d \in Dispatches : Unsuccessful(d) => told'[d] \notin {<<>>, <<"completed">>}
          BY <3>1 DEF Unsuccessful
        <5>2. QED  BY <4>1, <4>3, <5>1
      <4>4. QED  BY <4>1, <4>2, <4>3
    <3>3. QED  BY <2>1, <3>2 DEF OrphansUnanswered, Unsuccessful
  <2>8. QED  BY <2>3, <2>4, <2>6, <2>7
<1>8. QED
  BY <1>1, <1>2, <1>3, <1>4, <1>5, <1>6, <1>7, SoundMessage DEF MainThread

LEMMA SoundDelivery ==
    ASSUME TypeOK, Balanced, Undisturbed, Sound, NEW c \in Dispatches,
           DropDelivery(c) \/ Redeliver(c) \/ GiveUpDelivery(c)
    PROVE  Sound'
<1> USE DEF Sound
<1>1. PICK v \in Verdict : EndHeld(c, v) /\ (v = "completed" => Deliver(c))
                                        /\ (v # "completed" => frames' = frames)
  BY DEF DropDelivery, Redeliver, GiveUpDelivery, Verdict
<1>2. /\ c \in held /\ held' = held \ {c} /\ Tell(c, v) /\ phase = "update"
      /\ UNCHANGED <<phase, batch, active, mail, toAgent, link, agent>>
  BY <1>1 DEF EndHeld, tickVars, ipcVars
<1>3. c # active /\ frames[c] = Ready
  <2>1. c # active
    BY <1>2, Numbers
  <2>2. QED  BY <1>2, <2>1 DEF FramesReady, Ready
<1>4. AgentsFresh' /\ InOnePlace' /\ NothingLeft'
  BY <1>2 DEF AgentsFresh, InOnePlace, NothingLeft, NoResult, TaskOf
<1>8. OrphansUnanswered'
  <2>1. told[c] = <<>>
    <3>1. Len(told[c]) = 0
      BY <1>2, Numbers
    <3>2. QED  BY <3>1 DEF TypeOK
  <2>2. \A d \in Dispatches : Unsuccessful(d) => Unsuccessful(d)'
    BY <1>2, <2>1 DEF Unsuccessful, Tell, TypeOK
  <2>3. QED  BY <1>2, <2>2 DEF OrphansUnanswered, NoResult
<1>5. CASE v = "completed"
  <2>1. frames'[c] = "delivered" /\ \A d \in Dispatches : d # c => frames'[d] = frames[d]
    BY <1>1, <1>3, <1>5, OwnFramesDelivered
  <2>2. active \in Dispatches => frames'[active] = frames[active]
    BY <1>3, <2>1
  <2>3. \A a \in Agents : agent[a].at = "rendering" => active \in Dispatches
    BY DEF InOnePlace, TypeOK
  <2>4. active # None => active \in Dispatches
    BY DEF TypeOK
  <2>5. FramesReady'
    BY <1>2, <2>1, <2>2, <2>3, <2>4 DEF FramesReady, Ready, TypeOK
  <2>6. \A d \in Dispatches : d # c => told'[d] = told[d]
    BY <1>2 DEF Tell, TypeOK
  <2>7. CompletedMeansDelivered'
    BY <2>1, <2>6 DEF CompletedMeansDelivered
  <2>8. QED  BY <1>4, <1>8, <2>5, <2>7
<1>6. CASE v # "completed"
  <2>1. FramesReady'
    BY <1>1, <1>2, <1>6 DEF FramesReady, Ready
  <2>2. CompletedMeansDelivered'
    BY <1>1, <1>2, <1>6, ToldLast DEF CompletedMeansDelivered
  <2>3. QED  BY <1>4, <1>8, <2>1, <2>2
<1>7. QED  BY <1>5, <1>6

\* Messages an agent adds come after those that were there.
LEMMA Mailed ==
    ASSUME TypeOK, NEW m \in Message
    PROVE  /\ \A i \in DOMAIN Append(mail, m) :
                \/ i \in DOMAIN mail /\ Append(mail, m)[i] = mail[i]
                \/ Append(mail, m)[i] = m
           /\ \A i \in DOMAIN (mail \o <<m, Idle>>) :
                \/ i \in DOMAIN mail /\ (mail \o <<m, Idle>>)[i] = mail[i]
                \/ (mail \o <<m, Idle>>)[i] \in {m, Idle}
<1>1. mail \in Seq(Message) /\ Idle \in Message
  BY DEF TypeOK, Idle, Message
<1> HIDE DEF Idle
<1>2. QED  BY <1>1

LEMMA SoundAgent ==
    ASSUME TypeOK, Balanced, Linked, Undisturbed, Sound, NEW a \in Agents,
           AgentStep(a) \/ AgentFault(a)
    PROVE  Sound'
<1> USE DEF Sound
<1>1. agent \in [Agents -> AgentState] /\ agent[a] \in AgentState
  BY DEF TypeOK, AgentState
<1>2. UNCHANGED <<phase, batch, active, held, told>>
  BY DEF AgentStep, AgentFault, OnAgent, Connect, TakeTask, IgnoreOrder, TakeAbort,
         RenderSucceeds, SendResult, Exit, StopTrying, RenderFails, StartFails, Crash,
         PipeBreaks, Reconnect, tickVars, renderVars
<1>3. agent[a].at # "lost" /\ ~PipeBreaks(a) /\ ~Reconnect(a) /\ ~StopTrying(a)
  BY DEF AgentsFresh, Undisturbed, PipeBreaks, Mishap, Reconnect, StopTrying
<1>4. agent[a].at \in {"idle", "rendering"} =>
        link = a /\ \A b \in Agents : b # a => agent[b].at # "rendering"
  BY DEF Linked
<1>5. ~IgnoreOrder(a) /\ ~TakeAbort(a)
  <2>1. agent[a].at = "rendering" => toAgent = <<>>
    BY DEF InOnePlace
  <2>2. toAgent # <<>> => Head(toAgent).kind = "task"
    BY DEF InOnePlace, TaskOf
  <2>3. QED  BY <2>1, <2>2 DEF IgnoreOrder, TakeAbort, Reads
<1>6. Idle \in Message /\ Idle.kind = "idle"
  BY DEF Idle, Message
<1>7. CASE Crash(a) \/ Exit(a)
  <2>1. /\ \/ agent' = [agent EXCEPT ![a].at = "gone"]
           \/ agent[a].at = "rendering" /\ agent' = [agent EXCEPT ![a].at = "orphaned"]
        /\ UNCHANGED <<link, mail, toAgent, frames>>
    BY <1>3, <1>7 DEF Crash, Exit, Running, ipcVars
  <2>2. \A b \in Agents : \/ agent'[b] = agent[b]
                          \/ agent'[b].at = "gone"
                          \/ /\ agent[b].at = "rendering" /\ agent'[b].at = "orphaned"
                             /\ agent'[b].task = agent[b].task
    BY <1>1, <2>1 DEF AgentState
  <2>3. AgentsFresh' /\ CompletedMeansDelivered'
    BY <1>2, <2>1, <2>2 DEF AgentsFresh, CompletedMeansDelivered
  <2>4. InOnePlace' /\ NothingLeft'
    BY <1>2, <2>1, <2>2 DEF InOnePlace, NothingLeft, NoResult, TaskOf
  <2>5. FramesReady'
    BY <1>2, <2>1, <2>2 DEF FramesReady, Ready
  <2>6. OrphansUnanswered'
    <3>1. \A b \in Agents : agent[b].at = "rendering" =>
            /\ agent[b].task \in Dispatches /\ agent[b].task = active /\ toAgent = <<>>
            /\ NoResult(batch) /\ NoResult(mail) /\ b = link
      BY DEF InOnePlace, Linked, TypeOK
    <3>2. \A b \in Agents : agent'[b].at = "rendering" => agent'[b] = agent[b]
      BY <2>2
    <3>3. QED  BY <1>2, <2>1, <2>2, <3>1, <3>2 DEF OrphansUnanswered, Unsuccessful, NoResult
  <2>7. QED  BY <2>3, <2>4, <2>5, <2>6
<1>8. CASE Connect(a)
  <2>1. /\ agent[a].at = "starting" /\ agent' = [agent EXCEPT ![a].at = "idle"]
        /\ link = None /\ link' = a /\ toAgent' = <<>> /\ mail' = Append(mail, Idle)
        /\ frames' = frames
    BY <1>8 DEF Connect
  <2>2. /\ \A b \in Agents : b # a => agent'[b] = agent[b]
        /\ agent'[a].at = "idle" /\ agent'[a].result = agent[a].result
    BY <1>1, <2>1 DEF AgentState
  <2>3. \A i \in DOMAIN mail' : \/ i \in DOMAIN mail /\ mail'[i] = mail[i]
                               \/ mail'[i].kind = "idle"
    BY <1>6, <2>1, Mailed
  <2>4. NoResult(mail) => NoResult(mail')
    BY <2>3 DEF NoResult
  <2>5. AgentsFresh' /\ CompletedMeansDelivered'
    BY <1>2, <2>1, <2>2 DEF AgentsFresh, CompletedMeansDelivered
  <2>6. InOnePlace' /\ NothingLeft'
    BY <1>2, <2>1, <2>2, <2>4 DEF InOnePlace, NothingLeft, NoResult
  <2>7. FramesReady'
    BY <1>2, <2>1, <2>2, <2>3 DEF FramesReady, Ready
  <2>8. OrphansUnanswered'
    BY <1>2, <2>1, <2>2, <2>4 DEF OrphansUnanswered, Unsuccessful, NoResult
  <2>9. QED  BY <2>5, <2>6, <2>7, <2>8
<1>9. CASE TakeTask(a)
  <2>1. /\ agent[a].at = "idle" /\ link = a /\ toAgent # <<>> /\ toAgent' = Tail(toAgent)
        /\ agent' = [agent EXCEPT ![a].at = "rendering", ![a].task = Head(toAgent).of]
        /\ UNCHANGED <<link, mail, frames>>
    BY <1>9 DEF TakeTask, Reads
  <2>2. /\ active # None /\ toAgent = <<TaskOf(active)>>
        /\ NoResult(batch) /\ NoResult(mail)
    BY <2>1 DEF InOnePlace
  <2>3. toAgent' = <<>> /\ Head(toAgent).of = active
    BY <2>1, <2>2 DEF TaskOf
  <2>4. /\ \A b \in Agents : b # a => agent'[b] = agent[b]
        /\ agent'[a].at = "rendering" /\ agent'[a].task = active
        /\ agent'[a].result = agent[a].result
    BY <1>1, <2>1, <2>3 DEF AgentState
  <2>5. agent[a].result = "none"
    BY <2>1 DEF AgentsFresh
  <2>6. AgentsFresh' /\ CompletedMeansDelivered'
    BY <1>2, <2>1, <2>4 DEF AgentsFresh, CompletedMeansDelivered
  <2>7. InOnePlace' /\ NothingLeft'
    BY <1>2, <1>4, <2>1, <2>2, <2>3, <2>4 DEF InOnePlace, NothingLeft, NoResult
  <2>8. FramesReady'
    BY <1>2, <2>1, <2>4, <2>5 DEF FramesReady, Ready
  <2>9. OrphansUnanswered'
    BY <1>2, <2>1, <2>4 DEF OrphansUnanswered, Unsuccessful
  <2>10. QED  BY <2>6, <2>7, <2>8, <2>9
<1>10. CASE StartFails(a)
  <2>1. /\ agent[a].at = "idle" /\ link = a /\ toAgent # <<>> /\ toAgent' = Tail(toAgent)
        /\ mail' = mail \o <<[kind |-> "failed"], Idle>>
        /\ UNCHANGED <<link, agent, frames>>
    BY <1>10 DEF StartFails, Reads
  <2>2. active # None /\ NoResult(batch) /\ NoResult(mail) /\ toAgent' = <<>>
    <3>1. active # None /\ NoResult(batch) /\ NoResult(mail) /\ toAgent = <<TaskOf(active)>>
      BY <2>1 DEF InOnePlace
    <3>2. QED  BY <2>1, <3>1 DEF TaskOf
  <2>3. [kind |-> "failed"] \in Message
    BY DEF Message
  <2>4. \A i \in DOMAIN mail' : \/ i \in DOMAIN mail /\ mail'[i] = mail[i]
                               \/ mail'[i].kind \in {"failed", "idle"}
    <3>1. \A i \in DOMAIN mail' : \/ i \in DOMAIN mail /\ mail'[i] = mail[i]
                                 \/ mail'[i] \in {[kind |-> "failed"], Idle}
      BY <2>1, <2>3, Mailed
    <3>2. QED  BY <1>6, <3>1
  <2>5. AgentsFresh' /\ CompletedMeansDelivered'
    BY <1>2, <2>1 DEF AgentsFresh, CompletedMeansDelivered
  <2>6. InOnePlace' /\ NothingLeft'
    BY <1>2, <1>4, <2>1, <2>2 DEF InOnePlace, NothingLeft, NoResult
  <2>7. FramesReady'
    BY <1>2, <2>1, <2>2, <2>4 DEF FramesReady, Ready, NoResult
  <2>8. OrphansUnanswered'
    BY <1>2, <2>1 DEF OrphansUnanswered, Unsuccessful
  <2>9. QED  BY <2>5, <2>6, <2>7, <2>8
<1>11. CASE RenderSucceeds(a)
  <2> DEFINE c == agent[a].task
  <2>1. /\ agent[a].at \in {"rendering", "orphaned"}
        /\ agent' = [agent EXCEPT ![a].result = "completed"]
        /\ UNCHANGED <<link, mail, toAgent>>
    BY <1>3, <1>11 DEF RenderSucceeds, Running, ipcVars
  <2>2. /\ c \in Dispatches /\ told[c] # <<"completed">>
        /\ agent[a].at = "rendering" => c = active
    <3>1. c \in Dispatches /\ (c = active \/ Unsuccessful(c))
      BY <2>1 DEF InOnePlace, OrphansUnanswered, TypeOK
    <3>2. agent[a].at = "rendering" => c = active
      BY DEF InOnePlace
    <3>3. CASE c = active
      <4>1. Len(told[c]) = 0 /\ Len(<<"completed">>) = 1
        BY <3>1, <3>3, Numbers
      <4>2. told[c] # <<"completed">>
        BY <4>1
      <4>3. QED  BY <3>1, <3>2, <4>2
    <3>4. CASE Unsuccessful(c)
      BY <3>1, <3>2, <3>4 DEF Unsuccessful
    <3>5. QED  BY <3>1, <3>3, <3>4
  <2>3. frames' = [frames EXCEPT ![c] = Ready]
    <3>1. frames[c] # "torn"
      BY <2>2 DEF FramesReady
    <3>2. QED  BY <1>11, <2>2, <3>1 DEF RenderSucceeds, Ready
  <2>4. frames'[c] = Ready /\ \A d \in Dispatches : d # c => frames'[d] = frames[d]
    BY <2>2, <2>3 DEF TypeOK
  <2>5. /\ \A b \in Agents : b # a => agent'[b] = agent[b]
        /\ agent'[a].at = agent[a].at /\ agent'[a].task = agent[a].task
    BY <1>1, <2>1 DEF AgentState
  <2>6. AgentsFresh'
    BY <2>1, <2>5 DEF AgentsFresh
  <2>7. CompletedMeansDelivered'
    BY <1>2, <2>2, <2>4 DEF CompletedMeansDelivered
  <2>8. InOnePlace' /\ NothingLeft' /\ OrphansUnanswered'
    BY <1>2, <2>1, <2>5
       DEF InOnePlace, NothingLeft, OrphansUnanswered, Unsuccessful, NoResult, TaskOf
  <2>9. FramesReady'
    <3>1. /\ \A d \in held : d \in Dispatches
          /\ active # None => active \in Dispatches
          /\ \A b \in Agents : agent[b].at = "rendering" => active \in Dispatches
      BY DEF InOnePlace, TypeOK
    <3>2. Ready # "torn" /\ (Staging => Ready = "staged")
      BY DEF Ready
    <3> HIDE DEF c
    <3>3. \A b \in Agents :
            agent'[b].at = "rendering" /\ agent'[b].result = "completed" =>
              frames'[active] = Ready
      <4>1. agent[a].at = "rendering" => frames'[active] = Ready
        BY <2>2, <2>4 DEF c
      <4>2. QED  BY <2>4, <2>5, <3>1, <4>1 DEF FramesReady
    <3>4. QED  BY <1>2, <2>1, <2>4, <3>1, <3>2, <3>3 DEF FramesReady, Ready
  <2>10. QED  BY <2>6, <2>7, <2>8, <2>9
<1>12. CASE RenderFails(a)
  <2>1. /\ agent[a].at \in {"rendering", "orphaned"}
        /\ agent' = [agent EXCEPT ![a].result = "failed"]
        /\ UNCHANGED <<link, mail, toAgent, frames>>
    BY <1>3, <1>12 DEF RenderFails, Running, ipcVars
  <2>2. /\ \A b \in Agents : b # a => agent'[b] = agent[b]
        /\ agent'[a].at = agent[a].at /\ agent'[a].task = agent[a].task
        /\ agent'[a].result = "failed"
    BY <1>1, <2>1 DEF AgentState
  <2>3. AgentsFresh' /\ CompletedMeansDelivered'
    BY <1>2, <2>1, <2>2 DEF AgentsFresh, CompletedMeansDelivered
  <2>4. InOnePlace' /\ NothingLeft' /\ OrphansUnanswered'
    BY <1>2, <2>1, <2>2
       DEF InOnePlace, NothingLeft, OrphansUnanswered, Unsuccessful, NoResult, TaskOf
  <2>5. FramesReady'
    BY <1>2, <2>1, <2>2 DEF FramesReady, Ready
  <2>6. QED  BY <2>3, <2>4, <2>5
<1>13. CASE SendResult(a)
  <2>1. /\ agent[a].at = "rendering" /\ agent[a].result # "none"
        /\ mail' = mail \o <<[kind |-> agent[a].result], Idle>>
        /\ agent' = [agent EXCEPT ![a].at = "leaving"]
        /\ UNCHANGED <<link, toAgent, frames>>
    BY <1>13 DEF SendResult
  <2>2. active # None /\ NoResult(batch) /\ NoResult(mail) /\ toAgent = <<>>
    BY <2>1 DEF InOnePlace
  <2>3. [kind |-> agent[a].result] \in Message
    BY <1>1, <2>1 DEF Message, AgentState
  <2>4. \A i \in DOMAIN mail' : \/ i \in DOMAIN mail /\ mail'[i] = mail[i]
                               \/ mail'[i].kind \in {agent[a].result, "idle"}
    <3>1. \A i \in DOMAIN mail' : \/ i \in DOMAIN mail /\ mail'[i] = mail[i]
                                 \/ mail'[i] \in {[kind |-> agent[a].result], Idle}
      BY <2>1, <2>3, Mailed
    <3>2. QED  BY <1>6, <3>1
  <2>5. agent[a].result = "completed" => frames[active] = Ready
    BY <2>1 DEF FramesReady
  <2>6. /\ \A b \in Agents : b # a => agent'[b] = agent[b]
        /\ agent'[a].at = "leaving"
    BY <1>1, <2>1 DEF AgentState
  <2>7. AgentsFresh' /\ CompletedMeansDelivered'
    BY <1>2, <2>1, <2>6 DEF AgentsFresh, CompletedMeansDelivered
  <2>8. InOnePlace' /\ NothingLeft'
    BY <1>2, <1>4, <2>1, <2>2, <2>6 DEF InOnePlace, NothingLeft, NoResult
  <2>9. FramesReady'
    BY <1>2, <2>1, <2>2, <2>4, <2>5, <2>6 DEF FramesReady, Ready, NoResult
  <2>10. OrphansUnanswered'
    BY <1>2, <2>1, <2>6 DEF OrphansUnanswered, Unsuccessful
  <2>11. QED  BY <2>7, <2>8, <2>9, <2>10
<1>14. QED
  BY <1>3, <1>5, <1>7, <1>8, <1>9, <1>10, <1>11, <1>12, <1>13 DEF AgentStep, AgentFault

LEMMA SoundStep ==
    ASSUME TypeOK, Balanced, Linked, Undisturbed, Sound, [Next]_vars
    PROVE  Sound'
<1>1. CASE UNCHANGED vars
  <2>1. /\ UNCHANGED <<active, batch, mail, toAgent, link, agent, frames, held>>
        /\ told' = told /\ phase' = phase
    BY <1>1 DEF vars, tickVars, renderVars, ipcVars, agentVars
  <2>2. QED  BY <2>1, SoundKept DEF Sound, NothingLeft
<1>2. CASE Clock \/ \E d \in Dispatches : Enqueue(d)
  <2>1. /\ UNCHANGED <<active, batch, mail, toAgent, link, agent, frames, held>>
        /\ told' = told /\ phase' = phase
    BY <1>2 DEF Clock, Overdue, GraceExpires, Enqueue, tickVars, ipcVars, agentVars
  <2>2. QED  BY <2>1, SoundKept DEF Sound, NothingLeft
<1>3. CASE Command
  <2>1. ResumeNode
    BY <1>3 DEF Command, Cancel, Abandon, Delete, StopNode, Undisturbed
  <2>2. /\ UNCHANGED <<active, batch, mail, toAgent, link, agent, frames, held>>
        /\ told' = told /\ phase' = phase
    BY <2>1 DEF ResumeNode, OnWorker, tickVars, agentVars
  <2>3. QED  BY <2>2, SoundKept DEF Sound, NothingLeft
<1>4. CASE Disconnect
  <2>1. /\ toAgent' = <<>> /\ UNCHANGED <<active, batch, mail, agent, frames, held, told, phase>>
    BY <1>4 DEF Disconnect, OnAgent, tickVars, renderVars, agentVars
  <2>2. AgentsFresh' /\ CompletedMeansDelivered'
    BY <2>1 DEF Sound, AgentsFresh, CompletedMeansDelivered
  <2>3. InOnePlace' /\ NothingLeft'
    BY <2>1 DEF Sound, InOnePlace, NothingLeft, NoResult
  <2>4. FramesReady'
    BY <2>1 DEF Sound, FramesReady, Ready
  <2>5. OrphansUnanswered'
    BY <2>1 DEF Sound, OrphansUnanswered, Unsuccessful, NoResult
  <2>6. QED  BY <2>2, <2>3, <2>4, <2>5 DEF Sound
<1>5. QED
  BY <1>1, <1>2, <1>3, <1>4, SoundMainThread, SoundDelivery, SoundAgent DEF Next, EndDelivery

\* onChunkCompleted and the held deliveries report a chunk completed when its
\* own frames have arrived, through failed copies, crashes, slow or failed
\* starts and results that come late, as long as no render is given up for a
\* command or a broken pipe while its agent lives.
THEOREM CompletedFramesArrived ==
    ASSUME Undisturbed
    PROVE  Spec => []CompletedMeansDelivered
<1>1. Sound => CompletedMeansDelivered
  BY DEF Sound
<1>2. Init => Balanced /\ Linked /\ Sound
  BY BalancedInit, SoundInit DEF Init, Linked
<1>3. TypeOK /\ (Balanced /\ Linked /\ Sound) /\ [Next]_vars => (Balanced /\ Linked /\ Sound)'
  BY BalancedStep, LinkedStep, SoundStep
<1>4. QED  BY <1>1, <1>2, <1>3, TypeCorrect, PTL DEF Spec
=============================================================================
