---------------------------- MODULE StandingProofs ----------------------------
(***************************************************************************)
(* Type correctness of Standing, and that a node is benched for as many    *)
(* reports of its own failures in one window as the threshold asks, no     *)
(* sooner and no later, for any nodes, leaders and faults.                 *)
(***************************************************************************)
EXTENDS Standing, TLAPS, FiniteSetTheorems

-----------------------------------------------------------------------------
(* Types. *)

\* What the tracker writes is a record.
LEMMA Records ==
    ASSUME NEW r \in Record
    PROVE  /\ NoRecord \in Record /\ RecordFailure(r) \in Record
           /\ [r EXCEPT !.lapsed = TRUE] \in Record /\ [r EXCEPT !.cooling = FALSE] \in Record
<1>1. NoRecord \in Record
  BY DEF Record, NoRecord
<1>2. /\ [r EXCEPT !.lapsed = TRUE] \in Record
      /\ [r EXCEPT !.cooling = FALSE] \in Record
  BY DEF Record
<1>3. Counted(r) \in Nat
  BY DEF Record, Counted
<1>4. (r.suspended \/ Counted(r) >= Threshold) \in BOOLEAN
  OBVIOUS
<1>5. RecordFailure(r) \in Record
  BY <1>3, <1>4 DEF Record, RecordFailure
<1>6. QED  BY <1>1, <1>2, <1>5

\* One record of one tracker is written.
LEMMA TrackerWritten ==
    ASSUME tracker \in [Nodes -> [Nodes -> Record]], NEW l \in Nodes, NEW n \in Nodes,
           NEW r \in Record, tracker' = [tracker EXCEPT ![l][n] = r]
    PROVE  /\ tracker' \in [Nodes -> [Nodes -> Record]]
           /\ \A k, m \in Nodes :
                tracker'[k][m] = IF k = l /\ m = n THEN r ELSE tracker[k][m]
OBVIOUS

\* The same for what is remembered of one tracker's window.
LEMMA RecentWritten ==
    ASSUME recent \in [Nodes -> [Nodes -> SUBSET Delivery]], NEW l \in Nodes, NEW n \in Nodes,
           NEW w \in SUBSET Delivery, recent' = [recent EXCEPT ![l][n] = w]
    PROVE  /\ recent' \in [Nodes -> [Nodes -> SUBSET Delivery]]
           /\ \A k, m \in Nodes :
                recent'[k][m] = IF k = l /\ m = n THEN w ELSE recent[k][m]
OBVIOUS

LEMMA TypesInit == Init => TypeOK
BY StandingAssumption DEF Init, TypeOK, NoRecord, Record, Failure

LEMMA TypesRendering == TypeOK /\ Rendering => TypeOK'
<1> SUFFICES ASSUME TypeOK, NEW n \in Nodes,
                    \/ StartRender(n) \/ FinishRender(n) \/ FailRender(n)
                    \/ \E r \in outbox[n] : FlushReport(n, r)
             PROVE  TypeOK'
  BY DEF Rendering
<1> USE DEF TypeOK
<1>1. CASE StartRender(n) \/ FinishRender(n)
  BY <1>1 DEF StartRender, FinishRender, reportVars
<1>2. CASE FailRender(n)
  <2>1. broken[n] \in 0 .. MaxFailures /\ broken[n] + 1 \in 1 .. MaxFailures
    BY <1>2, StandingAssumption DEF FailRender
  <2>2. FailureOf(n) \in Failure /\ FailureOf(n).node = n /\ FailureOf(n).nr = broken[n] + 1
    BY <2>1 DEF FailureOf, Failure
  <2>3. broken' = [broken EXCEPT ![n] = broken[n] + 1]
        /\ \/ recorded' = recorded \cup {FailureOf(n)} /\ outbox' = outbox
           \/ outbox' = [outbox EXCEPT ![n] = outbox[n] \cup {FailureOf(n)}] /\ recorded' = recorded
    BY <1>2 DEF FailRender
  <2>4. \A m \in Nodes : broken'[m] \in 0 .. MaxFailures /\ broken[m] <= broken'[m]
    BY <2>1, <2>3
  <2>5. /\ outbox' \in [Nodes -> SUBSET Failure] /\ recorded' \subseteq Failure
        /\ \A m \in Nodes : \A r \in outbox'[m] : r.node = m /\ r.nr <= broken'[m]
    <3>1. \A m \in Nodes : \A r \in outbox'[m] :
            r \in outbox[m] \/ (m = n /\ r = FailureOf(n))
      BY <2>3
    <3>2. \A r \in Failure : r.nr \in Nat
      BY StandingAssumption DEF Failure
    <3>3. \A m \in Nodes : \A r \in outbox'[m] : r.node = m /\ r.nr <= broken'[m]
      BY <2>1, <2>2, <2>3, <2>4, <3>1, <3>2
    <3>4. outbox' \in [Nodes -> SUBSET Failure]
      <4>1. outbox[n] \cup {FailureOf(n)} \in SUBSET Failure
        BY <2>2
      <4>2. QED  BY <2>3, <4>1
    <3>5. recorded' \subseteq Failure
      BY <2>2, <2>3
    <3>6. QED  BY <3>3, <3>4, <3>5
  <2>6. QED  BY <1>2, <2>3, <2>4, <2>5 DEF FailRender
<1>3. ASSUME NEW r \in outbox[n], FlushReport(n, r) PROVE TypeOK'
  <2>1. r \in Failure
    OBVIOUS
  <2>2. PICK c \in 0 .. MaxMishaps :
          /\ Receive(r, c) /\ mishaps' \in 0 .. MaxMishaps
          /\ outbox' = outbox \/ outbox' = [outbox EXCEPT ![n] = outbox[n] \ {r}]
    <3>1. CASE Receive(r, 0) /\ outbox' = [outbox EXCEPT ![n] = outbox[n] \ {r}]
                             /\ mishaps' = mishaps
      BY <3>1, StandingAssumption
    <3>2. CASE Mishap("lostAnswer") /\ Receive(r, mishaps') /\ outbox' = outbox
      <4>1. mishaps' \in 0 .. MaxMishaps
        BY <3>2, StandingAssumption DEF Mishap
      <4>2. QED  BY <3>2, <4>1
    <3>3. QED  BY <1>3, <3>1, <3>2 DEF FlushReport
  <2>3. failureQueue' \in [Nodes -> Seq(Delivery)]
    <3>1. [node |-> r.node, nr |-> r.nr, copy |-> c] \in Delivery
      BY <2>1 DEF Failure, Delivery
    <3>2. Append(failureQueue[leader], [node |-> r.node, nr |-> r.nr, copy |-> c]) \in Seq(Delivery)
      BY <3>1
    <3>3. QED  BY <2>2, <3>2 DEF Receive
  <2>4. /\ outbox' \in [Nodes -> SUBSET Failure]
        /\ \A m \in Nodes : \A q \in outbox'[m] : q \in outbox[m]
    <3>1. outbox[n] \ {r} \in SUBSET Failure /\ outbox \in [Nodes -> SUBSET Failure]
      OBVIOUS
    <3>2. outbox' \in [Nodes -> SUBSET Failure]
      <4>1. CASE outbox' = outbox
        BY <3>1, <4>1
      <4>2. CASE outbox' = [outbox EXCEPT ![n] = outbox[n] \ {r}]
        BY <3>1, <4>2
      <4>3. QED  BY <2>2, <4>1, <4>2
    <3>3. \A m \in Nodes : outbox'[m] \in {outbox[m], outbox[m] \ {r}}
      BY <2>2
    <3>4. QED  BY <3>2, <3>3
  <2>5. QED  BY <1>3, <2>2, <2>3, <2>4 DEF FlushReport
<1>4. QED  BY <1>1, <1>2, <1>3

LEMMA TypesLeading == TypeOK /\ Leading => TypeOK'
<1> SUFFICES ASSUME TypeOK, Leading PROVE TypeOK'
  OBVIOUS
<1> USE DEF TypeOK
<1>1. CASE ApplyFailure
  <2> DEFINE d == Head(failureQueue[leader])
  <2>1. d \in Delivery /\ Tail(failureQueue[leader]) \in Seq(Delivery)
    BY <1>1 DEF ApplyFailure
  <2>2. d.node \in Nodes /\ [node |-> d.node, nr |-> d.nr] \in Failure
    BY <2>1 DEF Delivery, Failure
  <2>3. /\ tracker' = [tracker EXCEPT ![leader][d.node] = RecordFailure(tracker[leader][d.node])]
        /\ recent' = [recent EXCEPT ![leader][d.node] = recent[leader][d.node] \cup {d}]
    BY <1>1 DEF ApplyFailure
  <2>4. tracker' \in [Nodes -> [Nodes -> Record]]
    <3>1. RecordFailure(tracker[leader][d.node]) \in Record
      <4>1. tracker[leader][d.node] \in Record
        BY <2>2
      <4>2. QED  BY <4>1, Records
    <3>2. QED  BY <2>2, <2>3, <3>1, TrackerWritten
  <2>5. recent' \in [Nodes -> [Nodes -> SUBSET Delivery]]
    <3>1. recent[leader][d.node] \cup {d} \in SUBSET Delivery
      BY <2>1, <2>2
    <3>2. QED  BY <2>2, <2>3, <3>1, RecentWritten
  <2>6. QED  BY <1>1, <2>1, <2>2, <2>4, <2>5 DEF ApplyFailure
<1>2. CASE RestartLeader
  <2>1. NoRecord \in Record
    BY DEF NoRecord, Record
  <2>2. /\ tracker' \in [Nodes -> [Nodes -> Record]] /\ changes' \in 0 .. MaxChanges
        /\ recent' \in [Nodes -> [Nodes -> SUBSET Delivery]]
    BY <1>2, <2>1, StandingAssumption DEF RestartLeader
  <2>3. QED  BY <1>2, <2>2 DEF RestartLeader
<1>3. ASSUME NEW r \in Failure, ChunkMovesOn(r) PROVE TypeOK'
  BY <1>3 DEF ChunkMovesOn
<1>4. ASSUME NEW n \in Nodes, ChangeLeader(n) PROVE TypeOK'
  <2>1. changes' \in 0 .. MaxChanges
    BY <1>4, StandingAssumption DEF ChangeLeader
  <2>2. QED  BY <1>4, <2>1 DEF ChangeLeader
<1>5. ASSUME NEW l \in Nodes, NEW n \in Nodes, WindowPasses(l, n) \/ CooldownEnds(l, n)
      PROVE  TypeOK'
  <2>1. \/ tracker' = [tracker EXCEPT ![l][n] = [tracker[l][n] EXCEPT !.lapsed = TRUE]]
        \/ tracker' = [tracker EXCEPT ![l][n] = [tracker[l][n] EXCEPT !.cooling = FALSE]]
    BY <1>5 DEF WindowPasses, CooldownEnds
  <2>2. tracker' \in [Nodes -> [Nodes -> Record]]
    <3>1. /\ [tracker[l][n] EXCEPT !.lapsed = TRUE] \in Record
          /\ [tracker[l][n] EXCEPT !.cooling = FALSE] \in Record
      <4>1. tracker[l][n] \in Record
        OBVIOUS
      <4>2. QED  BY <4>1, Records
    <3>2. QED  BY <2>1, <3>1, TrackerWritten
  <2>3. UNCHANGED <<leader, reportVars, rendering, clears, mirror, changes, mishaps>>
    BY <1>5 DEF WindowPasses, CooldownEnds
  <2>4. recent' \in [Nodes -> [Nodes -> SUBSET Delivery]]
    <3>1. recent' = recent \/ recent' = [recent EXCEPT ![l][n] = {}]
      BY <1>5 DEF WindowPasses, CooldownEnds
    <3>2. {} \in SUBSET Delivery
      OBVIOUS
    <3>3. QED  BY <3>1, <3>2, RecentWritten
  <2>5. QED  BY <2>2, <2>3, <2>4 DEF reportVars
<1>6. QED  BY <1>1, <1>2, <1>3, <1>4, <1>5 DEF Leading

\* A tracker forgets a node.
LEMMA Cleared ==
    ASSUME TypeOK, NEW l \in Nodes, NEW n \in Nodes, ClearNode(l, n)
    PROVE  /\ tracker' \in [Nodes -> [Nodes -> Record]]
           /\ recent' \in [Nodes -> [Nodes -> SUBSET Delivery]]
           /\ \A k, m \in Nodes :
                /\ tracker'[k][m] = IF k = l /\ m = n THEN NoRecord ELSE tracker[k][m]
                /\ recent'[k][m] = IF k = l /\ m = n THEN {} ELSE recent[k][m]
<1>1. NoRecord \in Record /\ {} \in SUBSET Delivery
  BY DEF NoRecord, Record
<1>2. /\ tracker \in [Nodes -> [Nodes -> Record]] /\ recent \in [Nodes -> [Nodes -> SUBSET Delivery]]
      /\ tracker' = [tracker EXCEPT ![l][n] = NoRecord] /\ recent' = [recent EXCEPT ![l][n] = {}]
  BY DEF TypeOK, ClearNode
<1>3. QED  BY <1>1, <1>2, TrackerWritten, RecentWritten

LEMMA TypesUnsuspending == TypeOK /\ Unsuspending => TypeOK'
<1> SUFFICES ASSUME TypeOK, NEW n \in Nodes, NEW m \in Nodes,
                    \/ UnsuspendThisNode(n) \/ ClearArrives(n) \/ ClearLost(n)
                    \/ RefreshMirror(n) \/ UnsuspendNode(m, n)
             PROVE  TypeOK'
  BY DEF Unsuspending
<1> USE DEF TypeOK
<1>2. CASE UnsuspendThisNode(n) \/ UnsuspendNode(m, n)
  <2>1. PICK k \in Nodes : Unsuspend(k, n)
    BY <1>2 DEF UnsuspendThisNode, UnsuspendNode
  <2>2. ClearNode(k, n) \/ UNCHANGED <<tracker, recent>>
    BY <2>1 DEF Unsuspend
  <2>3. /\ tracker' \in [Nodes -> [Nodes -> Record]]
        /\ recent' \in [Nodes -> [Nodes -> SUBSET Delivery]]
    BY <2>2, Cleared
  <2>4. clears' \subseteq Nodes
    BY <2>1 DEF Unsuspend
  <2>5. mirror' \in [Nodes -> SUBSET Nodes]
    <3>1. mirror[n] \ {n} \in SUBSET Nodes
      OBVIOUS
    <3>2. QED  BY <1>2, <3>1 DEF UnsuspendThisNode, UnsuspendNode
  <2>6. UNCHANGED <<leader, reportVars, rendering, changes, mishaps>>
    BY <1>2 DEF UnsuspendThisNode, UnsuspendNode
  <2>7. QED  BY <2>3, <2>4, <2>5, <2>6 DEF reportVars
<1>3. CASE ClearArrives(n)
  BY <1>3, Cleared DEF ClearArrives, reportVars
<1>4. CASE ClearLost(n)
  <2>1. /\ mishaps < MaxMishaps /\ mishaps' = mishaps + 1 /\ clears' = clears \ {n}
        /\ UNCHANGED <<leader, tracker, recent, reportVars, rendering, mirror, changes>>
    BY <1>4 DEF ClearLost, Mishap
  <2>2. mishaps' \in 0 .. MaxMishaps /\ clears' \subseteq Nodes
    BY <2>1, StandingAssumption
  <2>3. QED  BY <2>1, <2>2 DEF reportVars
<1>5. CASE RefreshMirror(n)
  BY <1>5 DEF RefreshMirror, MirrorNext, Suspended, reportVars
<1>6. QED  BY <1>2, <1>3, <1>4, <1>5

LEMMA TypesStep == TypeOK /\ [Next]_vars => TypeOK'
<1>1. TypeOK /\ UNCHANGED vars => TypeOK'
  BY DEF TypeOK, vars, reportVars, Failure
<1>2. QED  BY <1>1, TypesRendering, TypesLeading, TypesUnsuspending DEF Next

\* Every variable of Standing keeps its type: the trackers hold records, the
\* queues reports of failures that happened, the bounds are kept.
THEOREM TypeCorrect == Spec => []TypeOK
<1>1. QED  BY TypesInit, TypesStep, PTL DEF Spec

-----------------------------------------------------------------------------
(* Suspension. *)

\* A window holds as many reports as the tracker counts, none when it is over,
\* and never enough to bench a node that is not benched.
WindowsMatch ==
    \A l, n \in Nodes :
        /\ IsFiniteSet(recent[l][n])
        /\ IF tracker[l][n].lapsed THEN recent[l][n] = {}
           ELSE tracker[l][n].count = Cardinality(recent[l][n])
        /\ Cardinality(recent[l][n]) >= Threshold => tracker[l][n].suspended

\* A report comes again only when its answer was lost, and then as another copy.
Known(d) ==
    /\ d.copy <= mishaps /\ d.nr <= broken[d.node]
    /\ d.copy = 0 => [node |-> d.node, nr |-> d.nr] \notin outbox[d.node]

Waits(l, d) == \E i \in DOMAIN failureQueue[l] : failureQueue[l][i] = d

\* No leader has the same copy of a report twice.
ReportsDiffer ==
    \A l \in Nodes, d \in Delivery :
        /\ \A n \in Nodes : d \in recent[l][n] => d.node = n /\ Known(d)
        /\ Waits(l, d) => Known(d) /\ d \notin recent[l][d.node]
        /\ \A i, j \in DOMAIN failureQueue[l] :
             failureQueue[l][i] = d /\ failureQueue[l][j] = d => i = j

Reckoned == WindowsMatch /\ ReportsDiffer

LEMMA ReckonedInit == Init => Reckoned
<1> SUFFICES ASSUME Init PROVE Reckoned
  OBVIOUS
<1>1. IsFiniteSet({}) /\ Cardinality({}) = 0
  BY FS_EmptySet
<1>2. WindowsMatch
  BY <1>1, StandingAssumption DEF Init, WindowsMatch, NoRecord
<1>3. ReportsDiffer
  <2>1. \A l \in Nodes : DOMAIN failureQueue[l] = {} /\ \A n \in Nodes : recent[l][n] = {}
    BY DEF Init
  <2>2. QED  BY <2>1 DEF ReportsDiffer, Waits, Delivery
<1>4. QED  BY <1>2, <1>3 DEF Reckoned

\* Windows end, and nothing is counted.
LEMMA WindowsEnd ==
    ASSUME WindowsMatch,
           \A l, n \in Nodes :
             \/ /\ recent'[l][n] = recent[l][n]
                /\ tracker'[l][n].lapsed = tracker[l][n].lapsed
                /\ tracker'[l][n].count = tracker[l][n].count
                /\ tracker'[l][n].suspended = tracker[l][n].suspended
             \/ /\ recent'[l][n] = {}
                /\ tracker'[l][n].lapsed \/ tracker'[l][n].count = 0
    PROVE  WindowsMatch'
<1>1. IsFiniteSet({}) /\ Cardinality({}) = 0
  BY FS_EmptySet
<1> SUFFICES ASSUME NEW l \in Nodes, NEW n \in Nodes
             PROVE  /\ IsFiniteSet(recent'[l][n])
                    /\ IF tracker'[l][n].lapsed THEN recent'[l][n] = {}
                       ELSE tracker'[l][n].count = Cardinality(recent'[l][n])
                    /\ Cardinality(recent'[l][n]) >= Threshold => tracker'[l][n].suspended
  BY DEF WindowsMatch
<1>2. CASE /\ recent'[l][n] = recent[l][n]
           /\ tracker'[l][n].lapsed = tracker[l][n].lapsed
           /\ tracker'[l][n].count = tracker[l][n].count
           /\ tracker'[l][n].suspended = tracker[l][n].suspended
  BY <1>2 DEF WindowsMatch
<1>3. CASE recent'[l][n] = {} /\ (tracker'[l][n].lapsed \/ tracker'[l][n].count = 0)
  BY <1>1, <1>3, StandingAssumption
<1>4. QED  BY <1>2, <1>3

\* No report is received or taken in.
LEMMA ReportsKept ==
    ASSUME ReportsDiffer, \A d \in Delivery : Known(d) => Known(d)',
           \A l \in Nodes : failureQueue'[l] \in {failureQueue[l], <<>>},
           \A l, n \in Nodes : recent'[l][n] \in {recent[l][n], {}}
    PROVE  ReportsDiffer'
<1> SUFFICES ASSUME NEW l \in Nodes, NEW d \in Delivery
             PROVE  /\ \A n \in Nodes : d \in recent'[l][n] => d.node = n /\ Known(d)'
                    /\ Waits(l, d)' => Known(d)' /\ d \notin recent'[l][d.node]
                    /\ \A i, j \in DOMAIN failureQueue'[l] :
                         failureQueue'[l][i] = d /\ failureQueue'[l][j] = d => i = j
  BY DEF ReportsDiffer
<1>1. /\ \A n \in Nodes : d \in recent[l][n] => d.node = n /\ Known(d)
      /\ Waits(l, d) => Known(d) /\ d \notin recent[l][d.node]
      /\ \A i, j \in DOMAIN failureQueue[l] :
           failureQueue[l][i] = d /\ failureQueue[l][j] = d => i = j
  BY DEF ReportsDiffer
<1>2. d.node \in Nodes
  BY DEF Delivery
<1>3. \A i \in DOMAIN failureQueue'[l] : failureQueue'[l] = failureQueue[l]
  OBVIOUS
<1>4. Waits(l, d)' => Waits(l, d)
  BY <1>3 DEF Waits
<1>5. \A n \in Nodes : d \in recent'[l][n] => d \in recent[l][n]
  OBVIOUS
<1>6. QED  BY <1>1, <1>2, <1>3, <1>4, <1>5

\* What is known of a report stays so while no report is sent.
LEMMA KnownKept ==
    ASSUME TypeOK, TypeOK', mishaps <= mishaps',
           \A n \in Nodes : broken[n] <= broken'[n]
             /\ \A r \in outbox'[n] : r \in outbox[n] \/ r.nr > broken[n],
           NEW d \in Delivery, Known(d)
    PROVE  Known(d)'
<1>1. d.node \in Nodes /\ d.copy \in 0 .. MaxMishaps /\ d.nr \in 1 .. MaxFailures
  BY DEF Delivery
<1>2. /\ broken[d.node] \in Nat /\ broken'[d.node] \in Nat
      /\ mishaps \in Nat /\ mishaps' \in Nat /\ d.copy \in Nat /\ d.nr \in Nat
  <2>1. /\ broken \in [Nodes -> 0 .. MaxFailures] /\ broken' \in [Nodes -> 0 .. MaxFailures]
        /\ mishaps \in 0 .. MaxMishaps /\ mishaps' \in 0 .. MaxMishaps
    BY DEF TypeOK
  <2>2. broken[d.node] \in 0 .. MaxFailures /\ broken'[d.node] \in 0 .. MaxFailures
    BY <1>1, <2>1
  <2>3. QED  BY <1>1, <2>1, <2>2, StandingAssumption
<1>3. d.copy = 0 => [node |-> d.node, nr |-> d.nr] \notin outbox'[d.node]
  <2> SUFFICES ASSUME d.copy = 0, [node |-> d.node, nr |-> d.nr] \in outbox'[d.node]
               PROVE  FALSE
    OBVIOUS
  <2> DEFINE r == [node |-> d.node, nr |-> d.nr]
  <2>1. r \in outbox[d.node] \/ r.nr > broken[d.node]
    BY <1>1
  <2>2. r.nr = d.nr /\ d.nr <= broken[d.node] /\ r \notin outbox[d.node]
    BY DEF Known
  <2>3. QED  BY <1>2, <2>1, <2>2
<1>4. d.copy <= mishaps /\ d.nr <= broken[d.node] /\ broken[d.node] <= broken'[d.node]
  BY <1>1 DEF Known
<1>5. d.copy <= mishaps' /\ d.nr <= broken'[d.node]
  BY <1>2, <1>4
<1>6. QED  BY <1>3, <1>5 DEF Known

\* The steps that take no report in and end no window.
LEMMA ReckonedQuiet ==
    ASSUME TypeOK, TypeOK', Reckoned, UNCHANGED <<tracker, recent, failureQueue>>,
           mishaps <= mishaps',
           \A n \in Nodes : broken[n] <= broken'[n]
             /\ \A r \in outbox'[n] : r \in outbox[n] \/ r.nr > broken[n]
    PROVE  Reckoned'
<1>1. \A d \in Delivery : Known(d) => Known(d)'
  BY KnownKept
<1>2. WindowsMatch'
  BY DEF Reckoned, WindowsMatch
<1>3. ReportsDiffer'
  BY <1>1, ReportsKept DEF Reckoned
<1>4. QED  BY <1>2, <1>3 DEF Reckoned

\* The steps that end windows or forget a node.
LEMMA ReckonedCleared ==
    ASSUME TypeOK, TypeOK', Reckoned, UNCHANGED <<broken, mishaps>>,
           \A n \in Nodes : outbox'[n] \subseteq outbox[n],
           \A l \in Nodes : failureQueue'[l] \in {failureQueue[l], <<>>},
           \A l, n \in Nodes :
             \/ /\ recent'[l][n] = recent[l][n]
                /\ tracker'[l][n].lapsed = tracker[l][n].lapsed
                /\ tracker'[l][n].count = tracker[l][n].count
                /\ tracker'[l][n].suspended = tracker[l][n].suspended
             \/ /\ recent'[l][n] = {}
                /\ tracker'[l][n].lapsed \/ tracker'[l][n].count = 0
    PROVE  Reckoned'
<1>1. mishaps \in Nat /\ \A n \in Nodes : broken[n] \in Nat
  BY StandingAssumption DEF TypeOK
<1>2. \A d \in Delivery : Known(d) => Known(d)'
  BY <1>1, KnownKept
<1>3. WindowsMatch'
  BY WindowsEnd DEF Reckoned
<1>4. \A l, n \in Nodes : recent'[l][n] \in {recent[l][n], {}}
  OBVIOUS
<1>5. ReportsDiffer'
  BY <1>2, <1>4, ReportsKept DEF Reckoned
<1>6. QED  BY <1>3, <1>5 DEF Reckoned

\* What is appended to a sequence that lacks it leaves each element once.
LEMMA OnceAppended ==
    ASSUME NEW S, NEW q \in Seq(S), NEW e \in S, NEW d,
           \A i \in DOMAIN q : q[i] # e,
           \A i, j \in DOMAIN q : q[i] = d /\ q[j] = d => i = j
    PROVE  \A i, j \in DOMAIN Append(q, e) :
             Append(q, e)[i] = d /\ Append(q, e)[j] = d => i = j
<1> DEFINE p == Append(q, e)
<1>1. /\ DOMAIN p = 1 .. Len(q) + 1 /\ DOMAIN q = 1 .. Len(q) /\ Len(q) \in Nat
      /\ \A i \in 1 .. Len(q) : p[i] = q[i]
      /\ p[Len(q) + 1] = e
  OBVIOUS
<1> HIDE DEF p
<1>2. \A i \in DOMAIN p : i \in 1 .. Len(q) \/ i = Len(q) + 1
  BY <1>1
<1>3. \A i, j \in DOMAIN p : p[i] = d /\ p[j] = d => i = j
  BY <1>1, <1>2
<1>4. QED  BY <1>3 DEF p

LEMMA ReckonedRendering == TypeOK /\ TypeOK' /\ Reckoned /\ Rendering => Reckoned'
<1> SUFFICES ASSUME TypeOK, TypeOK', Reckoned, NEW m \in Nodes,
                    \/ StartRender(m) \/ FinishRender(m) \/ FailRender(m)
                    \/ \E r \in outbox[m] : FlushReport(m, r)
             PROVE  Reckoned'
  BY DEF Rendering
<1>0. mishaps \in Nat /\ \A n \in Nodes : broken[n] \in Nat
  BY StandingAssumption DEF TypeOK
<1>1. CASE StartRender(m) \/ FinishRender(m)
  BY <1>0, <1>1, ReckonedQuiet DEF StartRender, FinishRender, reportVars
<1>2. CASE FailRender(m)
  <2>1. /\ UNCHANGED <<tracker, recent, failureQueue, mishaps>>
        /\ broken' = [broken EXCEPT ![m] = broken[m] + 1]
        /\ outbox' = outbox \/ outbox' = [outbox EXCEPT ![m] = outbox[m] \cup {FailureOf(m)}]
    BY <1>2 DEF FailRender
  <2>2. broken \in [Nodes -> 0 .. MaxFailures] /\ outbox \in [Nodes -> SUBSET Failure]
    BY Zenon DEF TypeOK
  <2>3. FailureOf(m).nr = broken[m] + 1
    BY DEF FailureOf
  <2>4. \A n \in Nodes : broken[n] <= broken'[n]
    BY <1>0, <2>1, <2>2
  <2>5. \A n \in Nodes : \A r \in outbox'[n] : r \in outbox[n] \/ (n = m /\ r = FailureOf(m))
    BY <2>1, <2>2
  <2>6. \A n \in Nodes : \A r \in outbox'[n] : r \in outbox[n] \/ r.nr > broken[n]
    BY <1>0, <2>3, <2>5
  <2>7. QED  BY <1>0, <2>1, <2>4, <2>6, ReckonedQuiet
<1>3. ASSUME NEW r \in outbox[m], FlushReport(m, r) PROVE Reckoned'
  <2>1. r \in Failure /\ r.node = m /\ r.nr <= broken[m]
    BY DEF TypeOK
  <2>2. PICK c \in 0 .. MaxMishaps :
          /\ Receive(r, c) /\ UNCHANGED <<tracker, recent, broken>>
          /\ mishaps <= mishaps' /\ c <= mishaps' /\ (c # 0 => c > mishaps)
          /\ \A n \in Nodes : outbox'[n] \subseteq outbox[n]
          /\ c = 0 => r \notin outbox'[m]
    <3>1. CASE /\ Receive(r, 0) /\ outbox' = [outbox EXCEPT ![m] = outbox[m] \ {r}]
               /\ mishaps' = mishaps
      <4>1. outbox \in [Nodes -> SUBSET Failure]
        BY Zenon DEF TypeOK
      <4>2. 0 \in 0 .. MaxMishaps
        BY StandingAssumption
      <4>3. (\A n \in Nodes : outbox'[n] \subseteq outbox[n]) /\ r \notin outbox'[m]
        BY <3>1, <4>1
      <4>4. QED  BY <1>0, <1>3, <3>1, <4>2, <4>3 DEF FlushReport
    <3>2. CASE Mishap("lostAnswer") /\ Receive(r, mishaps') /\ outbox' = outbox
      <4>1. mishaps' = mishaps + 1 /\ mishaps' \in 0 .. MaxMishaps
        BY <3>2, <1>0, StandingAssumption DEF Mishap
      <4>2. QED  BY <1>0, <1>3, <3>2, <4>1 DEF FlushReport
    <3>3. QED  BY <1>3, <3>1, <3>2 DEF FlushReport
  <2> DEFINE new == [node |-> r.node, nr |-> r.nr, copy |-> c]
  <2>3. /\ new \in Delivery /\ new.node = m /\ new.nr = r.nr /\ new.copy = c
        /\ r = [node |-> new.node, nr |-> new.nr]
    BY <2>1 DEF Delivery, Failure
  <2> HIDE DEF new
  <2>4. \A d \in Delivery : Known(d) => Known(d)'
    BY <1>0, <2>2, KnownKept
  <2>5. ~Known(new) /\ Known(new)'
    <3>1. CASE c = 0
      BY <1>0, <2>1, <2>2, <2>3, <3>1 DEF Known
    <3>2. CASE c # 0
      BY <1>0, <2>1, <2>2, <2>3, <3>2 DEF Known
    <3>3. QED  BY <3>1, <3>2
  <2>6. ASSUME NEW l \in Nodes
        PROVE  \/ failureQueue'[l] = failureQueue[l]
               \/ failureQueue'[l] = Append(failureQueue[l], new)
    BY <2>2 DEF Receive, TypeOK, new
  <2>7. WindowsMatch'
    BY <2>2 DEF Reckoned, WindowsMatch
  <2>8. ASSUME NEW l \in Nodes, NEW d \in Delivery
        PROVE  /\ \A n \in Nodes : d \in recent'[l][n] => d.node = n /\ Known(d)'
               /\ Waits(l, d)' => Known(d)' /\ d \notin recent'[l][d.node]
               /\ \A i, j \in DOMAIN failureQueue'[l] :
                    failureQueue'[l][i] = d /\ failureQueue'[l][j] = d => i = j
    <3>1. /\ \A n \in Nodes : d \in recent[l][n] => d.node = n /\ Known(d)
          /\ Waits(l, d) => Known(d) /\ d \notin recent[l][d.node]
          /\ \A i, j \in DOMAIN failureQueue[l] :
               failureQueue[l][i] = d /\ failureQueue[l][j] = d => i = j
      BY DEF Reckoned, ReportsDiffer
    <3>2. d.node \in Nodes
      BY DEF Delivery
    <3>3. failureQueue[l] \in Seq(Delivery)
      BY DEF TypeOK
    <3>4. CASE failureQueue'[l] = failureQueue[l]
      <4>1. Waits(l, d)' <=> Waits(l, d)
        BY <3>4 DEF Waits
      <4>2. QED  BY <2>2, <2>4, <3>1, <3>4, <4>1
    <3>5. CASE failureQueue'[l] = Append(failureQueue[l], new)
      <4>1. /\ DOMAIN failureQueue'[l] = 1 .. Len(failureQueue[l]) + 1
            /\ DOMAIN failureQueue[l] = 1 .. Len(failureQueue[l]) /\ Len(failureQueue[l]) \in Nat
            /\ \A i \in 1 .. Len(failureQueue[l]) : failureQueue'[l][i] = failureQueue[l][i]
            /\ failureQueue'[l][Len(failureQueue[l]) + 1] = new
        BY <2>3, <3>3, <3>5
      <4>2. Waits(l, d)' => Waits(l, d) \/ d = new
        <5> SUFFICES ASSUME NEW i \in DOMAIN failureQueue'[l], failureQueue'[l][i] = d
                     PROVE  Waits(l, d) \/ d = new
          BY DEF Waits
        <5>1. CASE i \in 1 .. Len(failureQueue[l])
          BY <4>1, <5>1 DEF Waits
        <5>2. CASE i = Len(failureQueue[l]) + 1
          BY <4>1, <5>2
        <5>3. QED  BY <4>1, <5>1, <5>2
      <4>3. ~Waits(l, new) /\ new \notin recent[l][new.node]
        BY <2>3, <2>5 DEF Reckoned, ReportsDiffer
      <4>4. \A i, j \in DOMAIN failureQueue'[l] :
              failureQueue'[l][i] = d /\ failureQueue'[l][j] = d => i = j
        <5>1. \A k \in DOMAIN failureQueue[l] : failureQueue[l][k] # new
          BY <4>3 DEF Waits
        <5> HIDE DEF new
        <5>2. QED  BY <2>3, <3>1, <3>3, <3>5, <5>1, OnceAppended
      <4>5. QED  BY <2>2, <2>4, <2>5, <3>1, <4>2, <4>3, <4>4
    <3>6. QED  BY <2>6, <3>4, <3>5
  <2>9. ReportsDiffer'
    BY <2>8 DEF ReportsDiffer
  <2>10. QED  BY <2>7, <2>9 DEF Reckoned
<1>4. QED  BY <1>1, <1>2, <1>3

LEMMA ReckonedApplied == TypeOK /\ TypeOK' /\ Reckoned /\ ApplyFailure => Reckoned'
<1> SUFFICES ASSUME TypeOK, TypeOK', Reckoned, ApplyFailure PROVE Reckoned'
  OBVIOUS
<1> DEFINE q == failureQueue[leader]
           new == Head(q)
           n == new.node
           was == tracker[leader][n]
<1>1. leader \in Nodes /\ q \in Seq(Delivery) /\ q # <<>>
  BY DEF ApplyFailure, TypeOK
<1>2. new \in Delivery /\ n \in Nodes /\ new = q[1] /\ 1 \in DOMAIN q
  <2>1. new \in Delivery /\ new = q[1] /\ 1 \in DOMAIN q
    BY <1>1
  <2>2. QED  BY <2>1 DEF Delivery
<1>3. was \in Record /\ recent[leader][n] \in SUBSET Delivery
  <2>1. tracker \in [Nodes -> [Nodes -> Record]] /\ recent \in [Nodes -> [Nodes -> SUBSET Delivery]]
    BY Zenon DEF TypeOK
  <2>2. QED  BY <1>1, <1>2, <2>1
<1>4. /\ tracker' = [tracker EXCEPT ![leader][n] = RecordFailure(was)]
      /\ recent' = [recent EXCEPT ![leader][n] = recent[leader][n] \cup {new}]
      /\ failureQueue' = [failureQueue EXCEPT ![leader] = Tail(q)]
      /\ UNCHANGED <<leader, outbox, broken, mishaps>>
  BY DEF ApplyFailure
<1>5. /\ \A l, m \in Nodes :
           /\ tracker'[l][m] = IF l = leader /\ m = n THEN RecordFailure(was) ELSE tracker[l][m]
           /\ recent'[l][m] = IF l = leader /\ m = n THEN recent[leader][n] \cup {new}
                              ELSE recent[l][m]
      /\ \A l \in Nodes : failureQueue'[l] = IF l = leader THEN Tail(q) ELSE failureQueue[l]
  <2>1. /\ tracker \in [Nodes -> [Nodes -> Record]] /\ RecordFailure(was) \in Record
        /\ recent \in [Nodes -> [Nodes -> SUBSET Delivery]]
        /\ recent[leader][n] \cup {new} \in SUBSET Delivery
        /\ failureQueue \in [Nodes -> Seq(Delivery)]
    BY <1>2, <1>3, Records DEF TypeOK
  <2> HIDE DEF n, new, was, q
  <2>2. QED  BY <1>1, <1>2, <1>4, <2>1, TrackerWritten, RecentWritten
<1>6. /\ Waits(leader, new)
      /\ Known(new) /\ new \notin recent[leader][n]
  <2>1. Waits(leader, new)
    BY <1>2 DEF Waits
  <2>2. QED  BY <1>1, <1>2, <2>1 DEF Reckoned, ReportsDiffer
<1>7. WindowsMatch'
  <2> SUFFICES ASSUME NEW l \in Nodes, NEW m \in Nodes
               PROVE  /\ IsFiniteSet(recent'[l][m])
                      /\ IF tracker'[l][m].lapsed THEN recent'[l][m] = {}
                         ELSE tracker'[l][m].count = Cardinality(recent'[l][m])
                      /\ Cardinality(recent'[l][m]) >= Threshold => tracker'[l][m].suspended
    BY DEF WindowsMatch
  <2>1. CASE l = leader /\ m = n
    <3>1. /\ IsFiniteSet(recent[l][m])
          /\ IF was.lapsed THEN recent[l][m] = {} ELSE was.count = Cardinality(recent[l][m])
      BY <2>1 DEF Reckoned, WindowsMatch
    <3>2. /\ IsFiniteSet(recent'[l][m])
          /\ Cardinality(recent'[l][m]) = Cardinality(recent[l][m]) + 1
      <4>1. recent'[l][m] = recent[l][m] \cup {new}
        BY <1>5, <2>1
      <4>2. new \notin recent[l][m]
        BY <1>6, <2>1
      <4>3. IsFiniteSet(recent[l][m])
        BY <3>1
      <4> HIDE DEF new
      <4>4. QED  BY <4>1, <4>2, <4>3, FS_AddElement
    <3>3. Cardinality({}) = 0
      BY FS_EmptySet
    <3>4. Cardinality(recent'[l][m]) = Counted(was)
      <4> HIDE DEF was
      <4>1. CASE was.lapsed
        <5>1. Cardinality(recent[l][m]) = 0
          BY <3>1, <3>3, <4>1
        <5>2. QED  BY <3>2, <4>1, <5>1 DEF Counted
      <4>2. CASE ~was.lapsed
        <5>1. was.count = Cardinality(recent[l][m])
          BY <3>1, <4>2
        <5>2. QED  BY <3>2, <4>2, <5>1 DEF Counted
      <4>3. QED  BY <4>1, <4>2
    <3>5. tracker'[l][m] = RecordFailure(was)
      BY <1>5, <2>1
    <3> HIDE DEF was
    <3>6. /\ ~tracker'[l][m].lapsed /\ tracker'[l][m].count = Counted(was)
          /\ Counted(was) >= Threshold => tracker'[l][m].suspended
      <4>1. RecordFailure(was).suspended = (was.suspended \/ Counted(was) >= Threshold)
        BY DEF RecordFailure
      <4>2. RecordFailure(was).lapsed = FALSE /\ RecordFailure(was).count = Counted(was)
        BY DEF RecordFailure
      <4>3. Counted(was) >= Threshold => RecordFailure(was).suspended
        BY Zenon, <4>1
      <4>4. QED  BY <3>5, <4>2, <4>3
    <3>7. QED  BY <3>2, <3>4, <3>6
  <2>2. CASE ~(l = leader /\ m = n)
    <3>1. tracker'[l][m] = tracker[l][m] /\ recent'[l][m] = recent[l][m]
      BY <1>5, <2>2
    <3>2. QED  BY <3>1 DEF Reckoned, WindowsMatch
  <2>3. QED  BY <2>1, <2>2
<1>8. \A d \in Delivery : Known(d) => Known(d)'
  BY <1>4 DEF Known
<1>9. ASSUME NEW l \in Nodes, NEW d \in Delivery
      PROVE  /\ \A m \in Nodes : d \in recent'[l][m] => d.node = m /\ Known(d)'
             /\ Waits(l, d)' => Known(d)' /\ d \notin recent'[l][d.node]
             /\ \A i, j \in DOMAIN failureQueue'[l] :
                  failureQueue'[l][i] = d /\ failureQueue'[l][j] = d => i = j
  <2>1. /\ \A m \in Nodes : d \in recent[l][m] => d.node = m /\ Known(d)
        /\ Waits(l, d) => Known(d) /\ d \notin recent[l][d.node]
        /\ \A i, j \in DOMAIN failureQueue[l] :
             failureQueue[l][i] = d /\ failureQueue[l][j] = d => i = j
    BY DEF Reckoned, ReportsDiffer
  <2>2. \A m \in Nodes : d \in recent'[l][m] => d.node = m /\ Known(d)'
    <3> TAKE m \in Nodes
    <3>1. d \in recent'[l][m] => d \in recent[l][m] \/ (d = new /\ m = n)
      <4>1. CASE l = leader /\ m = n
        <5>1. recent'[l][m] = recent[l][m] \cup {new}
          BY <1>5, <4>1
        <5> HIDE DEF new, n
        <5>2. QED  BY <4>1, <5>1
      <4>2. CASE ~(l = leader /\ m = n)
        <5>1. recent'[l][m] = recent[l][m]
          BY <1>5, <4>2
        <5>2. QED  BY <5>1
      <4>3. QED  BY <4>1, <4>2
    <3> HIDE DEF new, n
    <3>2. d = new => Known(d)
      BY <1>6
    <3>3. d = new => d.node = n
      BY DEF n
    <3>4. QED  BY <1>8, <2>1, <3>1, <3>2, <3>3
  <2>3. CASE l # leader
    <3>1. failureQueue'[l] = failureQueue[l] /\ \A m \in Nodes : recent'[l][m] = recent[l][m]
      BY <1>5, <2>3
    <3>2. d.node \in Nodes
      BY DEF Delivery
    <3>3. Waits(l, d)' <=> Waits(l, d)
      BY <3>1 DEF Waits
    <3>4. QED  BY <1>8, <2>1, <2>2, <3>1, <3>2, <3>3
  <2>4. CASE l = leader
    <3>1. /\ DOMAIN failureQueue'[l] = 1 .. Len(q) - 1 /\ DOMAIN q = 1 .. Len(q)
          /\ \A i \in 1 .. Len(q) - 1 : failureQueue'[l][i] = q[i + 1]
          /\ Len(q) \in Nat
      <4>1. failureQueue'[l] = Tail(q)
        BY <1>5, <2>4
      <4>2. QED  BY <1>1, <4>1
    <3>2. ASSUME NEW i \in DOMAIN failureQueue'[l], failureQueue'[l][i] = d
          PROVE  i \in Nat /\ i + 1 \in DOMAIN q /\ q[i + 1] = d /\ d # new
      <4>1. i \in Nat /\ i + 1 \in DOMAIN q /\ q[i + 1] = d /\ i + 1 # 1
        BY <3>1, <3>2
      <4>2. d # new
        BY <1>2, <2>1, <2>4, <4>1
      <4>3. QED  BY <4>1, <4>2
    <3>3. Waits(l, d)' => Waits(l, d) /\ d # new
      BY <2>4, <3>2 DEF Waits
    <3>4. \A i, j \in DOMAIN failureQueue'[l] :
            failureQueue'[l][i] = d /\ failureQueue'[l][j] = d => i = j
      <4> SUFFICES ASSUME NEW i \in DOMAIN failureQueue'[l], NEW j \in DOMAIN failureQueue'[l],
                          failureQueue'[l][i] = d, failureQueue'[l][j] = d
                   PROVE  i = j
        OBVIOUS
      <4>1. /\ i \in Nat /\ i + 1 \in DOMAIN q /\ q[i + 1] = d
            /\ j \in Nat /\ j + 1 \in DOMAIN q /\ q[j + 1] = d
        BY <3>2
      <4>2. i + 1 = j + 1
        BY <2>1, <2>4, <4>1
      <4>3. QED  BY <4>1, <4>2
    <3>5. d.node \in Nodes
      BY DEF Delivery
    <3>6. d \in recent'[l][d.node] => d \in recent[l][d.node] \/ d = new
      BY <1>5, <2>4, <3>5
    <3>7. QED  BY <1>8, <2>1, <2>2, <3>3, <3>4, <3>6
  <2>5. QED  BY <2>3, <2>4
<1>10. ReportsDiffer'
  BY <1>9 DEF ReportsDiffer
<1>11. QED  BY <1>7, <1>10 DEF Reckoned

LEMMA ReckonedLeading == TypeOK /\ TypeOK' /\ Reckoned /\ Leading => Reckoned'
<1> SUFFICES ASSUME TypeOK, TypeOK', Reckoned, Leading PROVE Reckoned'
  OBVIOUS
<1>1. mishaps \in Nat /\ \A n \in Nodes : broken[n] \in Nat
  BY StandingAssumption DEF TypeOK
<1>2. CASE RestartLeader
  <2>1. /\ tracker' = [tracker EXCEPT ![leader] = [n \in Nodes |-> NoRecord]]
        /\ recent' = [recent EXCEPT ![leader] = [n \in Nodes |-> {}]]
        /\ failureQueue' = [failureQueue EXCEPT ![leader] = <<>>]
        /\ outbox' = [outbox EXCEPT ![leader] = {}]
        /\ UNCHANGED <<broken, mishaps>>
    BY <1>2 DEF RestartLeader
  <2>2. /\ \A l \in Nodes : failureQueue'[l] \in {failureQueue[l], <<>>}
        /\ \A l \in Nodes : outbox'[l] \subseteq outbox[l]
        /\ \A l, n \in Nodes :
             \/ recent'[l][n] = recent[l][n] /\ tracker'[l][n] = tracker[l][n]
             \/ recent'[l][n] = {} /\ tracker'[l][n] = NoRecord
    BY <2>1 DEF TypeOK
  <2>3. NoRecord.count = 0
    BY DEF NoRecord
  <2>4. QED  BY <2>1, <2>2, <2>3, ReckonedCleared
<1>3. ASSUME NEW l \in Nodes, NEW n \in Nodes, WindowPasses(l, n) \/ CooldownEnds(l, n)
      PROVE  Reckoned'
  <2>1. /\ tracker \in [Nodes -> [Nodes -> Record]] /\ recent \in [Nodes -> [Nodes -> SUBSET Delivery]]
        /\ tracker[l][n] \in Record
    <3>1. tracker \in [Nodes -> [Nodes -> Record]] /\ recent \in [Nodes -> [Nodes -> SUBSET Delivery]]
      BY Zenon DEF TypeOK
    <3>2. QED  BY ONLY <3>1, l \in Nodes, n \in Nodes
  <2>2. UNCHANGED <<failureQueue, outbox, broken, mishaps>>
    BY <1>3 DEF WindowPasses, CooldownEnds, reportVars
  <2>3. \A k, m \in Nodes :
          \/ /\ recent'[k][m] = recent[k][m]
             /\ tracker'[k][m].lapsed = tracker[k][m].lapsed
             /\ tracker'[k][m].count = tracker[k][m].count
             /\ tracker'[k][m].suspended = tracker[k][m].suspended
          \/ recent'[k][m] = {} /\ tracker'[k][m].lapsed
    <3>1. CASE WindowPasses(l, n)
      <4> DEFINE r == [tracker[l][n] EXCEPT !.lapsed = TRUE]
      <4>1. /\ tracker' = [tracker EXCEPT ![l][n] = r] /\ recent' = [recent EXCEPT ![l][n] = {}]
            /\ r \in Record /\ r.lapsed /\ {} \in SUBSET Delivery
        BY <2>1, <3>1, Records DEF WindowPasses, Record
      <4> HIDE DEF r
      <4>2. QED  BY <2>1, <4>1, TrackerWritten, RecentWritten
    <3>2. CASE CooldownEnds(l, n)
      <4> DEFINE r == [tracker[l][n] EXCEPT !.cooling = FALSE]
      <4>1. /\ tracker' = [tracker EXCEPT ![l][n] = r] /\ recent' = recent
            /\ r \in Record /\ r.lapsed = tracker[l][n].lapsed /\ r.count = tracker[l][n].count
            /\ r.suspended = tracker[l][n].suspended
        BY <2>1, <3>2, Records DEF CooldownEnds, Record
      <4> HIDE DEF r
      <4>2. QED  BY <2>1, <4>1, TrackerWritten
    <3>3. QED  BY <1>3, <3>1, <3>2
  <2>4. QED  BY <2>2, <2>3, ReckonedCleared
<1>4. ASSUME NEW r \in Failure, ChunkMovesOn(r) PROVE Reckoned'
  BY <1>1, <1>4, ReckonedQuiet DEF ChunkMovesOn
<1>5. ASSUME NEW n \in Nodes, ChangeLeader(n) PROVE Reckoned'
  BY <1>1, <1>5, ReckonedQuiet DEF ChangeLeader
<1>6. QED  BY <1>2, <1>3, <1>4, <1>5, ReckonedApplied DEF Leading

LEMMA ReckonedUnsuspending == TypeOK /\ TypeOK' /\ Reckoned /\ Unsuspending => Reckoned'
<1> SUFFICES ASSUME TypeOK, TypeOK', Reckoned, NEW n \in Nodes, NEW m \in Nodes,
                    \/ UnsuspendThisNode(n) \/ ClearArrives(n) \/ ClearLost(n)
                    \/ RefreshMirror(n) \/ UnsuspendNode(m, n)
             PROVE  Reckoned'
  BY DEF Unsuspending
<1>1. mishaps \in Nat /\ leader \in Nodes /\ \A k \in Nodes : broken[k] \in Nat
  BY StandingAssumption DEF TypeOK
<1>2. /\ UNCHANGED <<failureQueue, outbox, broken>> /\ mishaps' \in {mishaps, mishaps + 1}
      /\ \/ UNCHANGED <<tracker, recent>>
         \/ mishaps' = mishaps /\ \E l \in Nodes : ClearNode(l, n)
  <2>1. CASE UnsuspendThisNode(n) \/ UnsuspendNode(m, n)
    BY <2>1 DEF UnsuspendThisNode, UnsuspendNode, Unsuspend, reportVars
  <2>2. CASE ClearArrives(n)
    BY <1>1, <2>2 DEF ClearArrives, reportVars
  <2>3. CASE ClearLost(n) \/ RefreshMirror(n)
    BY <2>3 DEF ClearLost, RefreshMirror, Mishap, reportVars
  <2>4. QED  BY <2>1, <2>2, <2>3
<1>3. CASE UNCHANGED <<tracker, recent>>
  BY <1>1, <1>2, <1>3, ReckonedQuiet
<1>4. ASSUME NEW l \in Nodes, ClearNode(l, n), mishaps' = mishaps PROVE Reckoned'
  <2>1. \A k, j \in Nodes :
          \/ recent'[k][j] = recent[k][j] /\ tracker'[k][j] = tracker[k][j]
          \/ recent'[k][j] = {} /\ tracker'[k][j] = NoRecord
    BY <1>4, Cleared
  <2>2. NoRecord.count = 0
    BY DEF NoRecord
  <2>3. QED  BY <1>2, <1>4, <2>1, <2>2, ReckonedCleared
<1>5. QED  BY <1>2, <1>3, <1>4

-----------------------------------------------------------------------------
(* The theorems. *)

\* Init and the steps together.
LEMMA ReckonedStep == TypeOK /\ TypeOK' /\ Reckoned /\ [Next]_vars => Reckoned'
<1> SUFFICES ASSUME TypeOK, TypeOK', Reckoned, [Next]_vars PROVE Reckoned'
  OBVIOUS
<1>1. CASE UNCHANGED vars
  BY <1>1, ReckonedQuiet, StandingAssumption DEF vars, reportVars, TypeOK
<1>2. CASE Next
  BY <1>2, ReckonedRendering, ReckonedLeading, ReckonedUnsuspending DEF Next
<1>3. QED  BY <1>1, <1>2

\* Only a failure taken in benches a node, in a window that is open.
LEMMA BenchedByCount ==
    ASSUME TypeOK, [Next]_vars, NEW l \in Nodes, NEW n \in Nodes,
           tracker'[l][n].suspended, ~tracker[l][n].suspended
    PROVE  ~tracker'[l][n].lapsed /\ tracker'[l][n].count >= Threshold
<1>1. /\ tracker \in [Nodes -> [Nodes -> Record]] /\ leader \in Nodes
      /\ tracker[l][n] \in Record
  <2>1. tracker \in [Nodes -> [Nodes -> Record]] /\ leader \in Nodes
    BY Zenon DEF TypeOK
  <2>2. QED  BY ONLY <2>1, l \in Nodes, n \in Nodes
<1>2. tracker'[l][n] # tracker[l][n] /\ ~NoRecord.suspended
  BY DEF NoRecord
<1>3. ASSUME ApplyFailure PROVE ~tracker'[l][n].lapsed /\ tracker'[l][n].count >= Threshold
  <2> DEFINE d == Head(failureQueue[leader])
             was == tracker[leader][d.node]
  <2>1. failureQueue[leader] \in Seq(Delivery) /\ failureQueue[leader] # <<>>
    BY <1>3 DEF ApplyFailure, TypeOK
  <2>2. d \in Delivery /\ d.node \in Nodes
    <3>1. d \in Delivery
      BY <2>1
    <3>2. QED  BY <3>1 DEF Delivery
  <2>3. was \in Record /\ RecordFailure(was) \in Record
    <3>1. was \in Record
      BY <1>1, <2>2
    <3>2. QED  BY <3>1, Records
  <2>4. tracker' = [tracker EXCEPT ![leader][d.node] = RecordFailure(was)]
    BY <1>3 DEF ApplyFailure
  <2>5. /\ l = leader /\ n = d.node
        /\ tracker'[l][n] = RecordFailure(was)
    <3> HIDE DEF d, was
    <3>1. tracker'[l][n] = IF l = leader /\ n = d.node THEN RecordFailure(was) ELSE tracker[l][n]
      BY <1>1, <2>2, <2>3, <2>4, TrackerWritten
    <3>2. QED  BY <1>2, <3>1
  <2>6. ~was.suspended
    BY <2>5
  <2> HIDE DEF was
  <2>7. RecordFailure(was).suspended = (was.suspended \/ Counted(was) >= Threshold)
    BY DEF RecordFailure
  <2>8. RecordFailure(was).lapsed = FALSE /\ RecordFailure(was).count = Counted(was)
    BY DEF RecordFailure
  <2>9. Counted(was) >= Threshold
    <3>1. RecordFailure(was).suspended
      BY <2>5
    <3>2. QED  BY Zenon, <2>6, <2>7, <3>1
  <2>10. QED  BY <2>5, <2>8, <2>9
<1>4. ASSUME NEW k \in Nodes, NEW m \in Nodes, ClearNode(k, m) PROVE FALSE
  BY <1>2, <1>4, Cleared
<1>5. ~UNCHANGED tracker
  BY <1>2
<1>6. CASE Rendering
  BY <1>5, <1>6 DEF Rendering, StartRender, FinishRender, FailRender, FlushReport
<1>7. CASE Leading
  <2>1. CASE RestartLeader
    <3>1. tracker'[l][n] \in {tracker[l][n], NoRecord}
      BY <1>1, <2>1 DEF RestartLeader
    <3>2. QED  BY <1>2, <3>1
  <2>2. ASSUME NEW k \in Nodes, NEW m \in Nodes, WindowPasses(k, m) \/ CooldownEnds(k, m)
        PROVE  FALSE
    <3>1. PICK r \in Record : /\ tracker' = [tracker EXCEPT ![k][m] = r]
                              /\ r.suspended = tracker[k][m].suspended
      <4>1. tracker[k][m] \in Record
        BY ONLY <1>1, k \in Nodes, m \in Nodes
      <4>2. CASE WindowPasses(k, m)
        <5> DEFINE r == [tracker[k][m] EXCEPT !.lapsed = TRUE]
        <5>1. r \in Record /\ r.suspended = tracker[k][m].suspended
          BY <4>1, Records DEF Record
        <5>2. tracker' = [tracker EXCEPT ![k][m] = r]
          BY <4>2 DEF WindowPasses
        <5> HIDE DEF r
        <5>3. QED  BY <5>1, <5>2
      <4>3. CASE CooldownEnds(k, m)
        <5> DEFINE r == [tracker[k][m] EXCEPT !.cooling = FALSE]
        <5>1. r \in Record /\ r.suspended = tracker[k][m].suspended
          BY <4>1, Records DEF Record
        <5>2. tracker' = [tracker EXCEPT ![k][m] = r]
          BY <4>3 DEF CooldownEnds
        <5> HIDE DEF r
        <5>3. QED  BY <5>1, <5>2
      <4>4. QED  BY <2>2, <4>2, <4>3
    <3>2. tracker'[l][n] = IF l = k /\ n = m THEN r ELSE tracker[l][n]
      BY <1>1, <3>1, TrackerWritten
    <3>3. QED  BY <3>1, <3>2
  <2>3. ASSUME NEW r \in Failure, ChunkMovesOn(r) PROVE FALSE
    BY <1>5, <2>3 DEF ChunkMovesOn
  <2>4. ASSUME NEW m \in Nodes, ChangeLeader(m) PROVE FALSE
    BY <1>5, <2>4 DEF ChangeLeader
  <2>5. QED  BY <1>3, <1>7, <2>1, <2>2, <2>3, <2>4 DEF Leading
<1>8. CASE Unsuspending
  <2> SUFFICES ASSUME NEW m \in Nodes, NEW k \in Nodes,
                      \/ UnsuspendThisNode(m) \/ ClearArrives(m) \/ ClearLost(m)
                      \/ RefreshMirror(m) \/ UnsuspendNode(k, m)
               PROVE  FALSE
    BY <1>8 DEF Unsuspending
  <2>1. UNCHANGED tracker \/ \E j \in Nodes : ClearNode(j, m)
    <3>1. CASE UnsuspendThisNode(m) \/ UnsuspendNode(k, m)
      BY <3>1 DEF UnsuspendThisNode, UnsuspendNode, Unsuspend
    <3>2. CASE ClearArrives(m)
      BY <1>1, <3>2 DEF ClearArrives
    <3>3. CASE ClearLost(m) \/ RefreshMirror(m)
      BY <3>3 DEF ClearLost, RefreshMirror
    <3>4. QED  BY <3>1, <3>2, <3>3
  <2>2. QED  BY <1>4, <1>5, <2>1
<1>9. CASE UNCHANGED vars
  BY <1>5, <1>9 DEF vars
<1>10. QED  BY <1>6, <1>7, <1>8, <1>9 DEF Next

\* Reckoned holds throughout.
THEOREM ReckonedAlways == Spec => [](TypeOK /\ Reckoned)
<1>1. Init => TypeOK /\ Reckoned
  BY TypesInit, ReckonedInit
<1>2. TypeOK /\ [Next]_vars => TypeOK'
  BY TypesStep
<1>3. TypeOK /\ Reckoned /\ [Next]_vars => (TypeOK /\ Reckoned)'
  BY <1>2, ReckonedStep
<1>4. QED  BY <1>1, <1>3, PTL DEF Spec

\* A node is benched for as many reports of its failures as the threshold asks,
\* taken in within one window of one leader's, no sooner and no later
\* (failure_tracker.h).
THEOREM SuspensionsAreEarned == Spec => SuspensionIsEarned
<1> DEFINE Earned ==
      \A l, n \in Nodes :
        /\ tracker'[l][n].suspended /\ ~tracker[l][n].suspended
             => Cardinality(recent'[l][n]) >= Threshold
        /\ Cardinality(recent'[l][n]) >= Threshold => tracker'[l][n].suspended
<1>1. TypeOK /\ Reckoned /\ TypeOK' /\ Reckoned' /\ [Next]_vars => [Earned]_vars
  <2> SUFFICES ASSUME TypeOK, WindowsMatch', [Next]_vars, NEW l \in Nodes, NEW n \in Nodes
               PROVE  /\ tracker'[l][n].suspended /\ ~tracker[l][n].suspended
                           => Cardinality(recent'[l][n]) >= Threshold
                      /\ Cardinality(recent'[l][n]) >= Threshold => tracker'[l][n].suspended
    BY DEF Reckoned
  <2>1. /\ ~tracker'[l][n].lapsed => tracker'[l][n].count = Cardinality(recent'[l][n])
        /\ Cardinality(recent'[l][n]) >= Threshold => tracker'[l][n].suspended
    BY DEF WindowsMatch
  <2>2. QED  BY <2>1, BenchedByCount
<1>2. QED  BY <1>1, ReckonedAlways, PTL DEF Spec, SuspensionIsEarned
=============================================================================
