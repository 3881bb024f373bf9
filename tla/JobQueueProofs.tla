---------------------------- MODULE JobQueueProofs ----------------------------
(***************************************************************************)
(* Proofs about JobQueue: a job and its chunks are inserted by one thread  *)
(* at a time, so they belong together, and a renumbered group of jobs      *)
(* keeps its order but for the job that was moved.                         *)
(***************************************************************************)
EXTENDS JobQueue, TLAPS, FiniteSetTheorems, SequenceTheorems, WellFoundedInduction

LEMMA NatLeast ==
    ASSUME NEW T \in SUBSET Nat, T # {}
    PROVE  \E x \in T : \A y \in T : ~(y < x)
<1>1. \E x \in T : \A y \in T : ~(<<y, x>> \in OpToRel(<, Nat))
  BY NatLessThanWellFounded, WFMin
<1>2. QED  BY <1>1 DEF OpToRel

\* There are finitely many job ids.
LEMMA IdsFinite == IsFiniteSet(Ids) /\ Cardinality(Ids) \in Nat
<1> DEFINE A == 1 .. MaxDedup
           B == 1 .. MaxVersion
           P == (Names \X A) \X B
           f == [p \in P |-> <<p[1][1], p[1][2], p[2]>>]
<1>1. IsFiniteSet(A) /\ IsFiniteSet(B) /\ IsFiniteSet(Names)
  BY JobQueueAssumption, FS_Interval
<1>2. IsFiniteSet(P)
  BY <1>1, FS_Product
<1>3. f \in [P -> Ids]
  BY DEF Ids
<1>4. ASSUME NEW j \in Ids PROVE \E p \in P : f[p] = j
  <2>1. PICK n \in Names, a \in A, b \in B : j = <<n, a, b>>
    BY DEF Ids
  <2>2. <<<<n, a>>, b>> \in P
    OBVIOUS
  <2>3. f[<<<<n, a>>, b>>] = j
    BY <2>1, <2>2
  <2>4. QED  BY <2>2, <2>3
<1>5. f \in Surjection(P, Ids)
  BY <1>3, <1>4 DEF Surjection
<1>6. QED  BY <1>2, <1>5, FS_Surjection, FS_CardinalityType

-----------------------------------------------------------------------------
(* Types. *)

LEMMA KeyType == ASSUME NEW at \in Times PROVE TimeKey(at) \in Nat
BY IdsFinite, JobQueueAssumption DEF TimeKey

LEMMA VersionType == ASSUME NEW j \in Ids PROVE NextVersion(j) \in Ids
<1> DEFINE free == {v \in 2 .. MaxVersion : ~Exists([j EXCEPT ![3] = v])} \cup {MaxVersion}
           w == CHOOSE v \in free : \A u \in free : v <= u
<1>1. free \in SUBSET Nat /\ free # {} /\ free \subseteq 1 .. MaxVersion
  BY JobQueueAssumption
<1>2. \E v \in free : \A u \in free : v <= u
  <2>1. PICK v \in free : \A u \in free : ~(u < v)
    BY <1>1, NatLeast
  <2>2. \A u \in free : u \in Nat /\ v \in Nat
    BY <1>1
  <2>3. \A u \in free : v <= u
    BY <2>1, <2>2
  <2>4. QED  BY <2>3
<1>3. w \in 1 .. MaxVersion
  BY <1>1, <1>2
<1>4. NextVersion(j) = [j EXCEPT ![3] = w]
  BY DEF NextVersion
<1> HIDE DEF w
<1>5. PICK n \in Names, a \in 1 .. MaxDedup, b \in 1 .. MaxVersion : j = <<n, a, b>>
  BY DEF Ids
<1>6. [j EXCEPT ![3] = w] = <<n, a, w>>
  BY <1>5
<1>7. QED  BY <1>3, <1>4, <1>6 DEF Ids

LEMMA SlugType ==
    ASSUME NEW name \in Names, NEW id \in Slugs(name)
    PROVE  id \in Ids
<1>1. PICK d \in 1 .. MaxDedup : id = <<name, d, 1>>
  BY DEF Slugs
<1>2. 1 \in 1 .. MaxVersion
  BY JobQueueAssumption
<1>3. QED  BY <1>1, <1>2 DEF Ids

LEMMA BakedType ==
    ASSUME NEW id \in Ids, NEW prio \in Priorities, NEW at \in Times, NEW grid \in Grids,
           NEW route \in {"main", "http"}
    PROVE  Baked(id, prio, at, grid, route) \in Submission
BY DEF Baked, Submission

LEMMA QueueType ==
    ASSUME TypeOK, NEW sub \in Submission, Enqueue(sub)
    PROVE  queue' \in Seq(Submission)
BY DEF Enqueue, TypeOK

LEMMA BeginType ==
    ASSUME TypeOK, NEW t \in Threads, NEW step \in {"choose", "job"}, NEW sub \in Submission,
           NEW done \in SUBSET Nat, Begin(t, step, sub, done)
    PROVE  call' \in [Threads -> Call \cup {None}]
BY DEF Begin, TypeOK, Call

\* A call takes its next step, or returns.
LEMMA ProceedType ==
    ASSUME TypeOK, NEW t \in Threads, call[t] # None,
           NEW step \in {"choose", "job", "chunks", "undo", "mark"}, Proceed(t, step)
    PROVE  /\ call' \in [Threads -> Call \cup {None}]
           /\ call'[t] # None /\ call'[t].step = step /\ call'[t].sub = call[t].sub
           /\ \A u \in Threads : u # t => call'[u] = call[u]
<1> PICK c : c = call[t]
  OBVIOUS
<1>1. c \in Call
  BY DEF TypeOK
<1>2. [c EXCEPT !.step = step] \in Call /\ [c EXCEPT !.step = step].step = step
      /\ [c EXCEPT !.step = step].sub = c.sub
  BY <1>1 DEF Call
<1>3. call' = [call EXCEPT ![t] = [c EXCEPT !.step = step]]
  BY DEF Proceed
<1>4. QED  BY <1>2, <1>3, AbsenceAssumption DEF TypeOK

LEMMA ReturnType ==
    ASSUME TypeOK, NEW t \in Threads, Return(t)
    PROVE  /\ call' \in [Threads -> Call \cup {None}] /\ call'[t] = None
           /\ \A u \in Threads : u # t => call'[u] = call[u]
BY DEF Return, TypeOK

LEMMA NewRowType ==
    ASSUME NEW sub \in Submission
    PROVE  NewRow(sub) \in JobRow /\ NewRow(sub) # None
BY KeyType, AbsenceAssumption DEF NewRow, JobRow, Submission

LEMMA DropRowType ==
    ASSUME TypeOK, NEW j \in Ids, DropRow(j)
    PROVE  /\ jobs' \in [Ids -> JobRow \cup {None}] /\ chunks' \in [Ids -> Seq(Chunk)]
           /\ jobs'[j] = None /\ chunks'[j] = <<>>
           /\ \A k \in Ids : k # j => jobs'[k] = jobs[k] /\ chunks'[k] = chunks[k]
BY DEF DropRow, TypeOK

\* One chunk changes its state.
LEMMA SetChunkType ==
    ASSUME TypeOK, NEW j \in Ids, NEW i \in DOMAIN chunks[j],
           NEW s \in {"pending", "assigned", "completed"}, SetChunk(j, i, s)
    PROVE  /\ chunks' \in [Ids -> Seq(Chunk)]
           /\ \A k \in Ids : k # j => chunks'[k] = chunks[k]
           /\ DOMAIN chunks'[j] = DOMAIN chunks[j]
           /\ \A x \in DOMAIN chunks[j] :
                /\ chunks'[j][x].at = chunks[j][x].at
                /\ x # i => chunks'[j][x] = chunks[j][x]
           /\ chunks'[j][i].state = s
<1> PICK q : q = chunks[j]
  OBVIOUS
<1>1. q \in Seq(Chunk) /\ q[i] \in Chunk /\ chunks \in [Ids -> Seq(Chunk)]
  BY DEF TypeOK
<1> PICK c : c = [q[i] EXCEPT !.state = s]
  OBVIOUS
<1>2. c \in Chunk /\ c.at = q[i].at /\ c.state = s
  BY <1>1 DEF Chunk
<1> PICK r : r = [q EXCEPT ![i] = c]
  OBVIOUS
<1>3. /\ r \in Seq(Chunk) /\ DOMAIN r = DOMAIN q /\ r[i] = c
      /\ \A x \in DOMAIN q : x # i => r[x] = q[x]
  BY <1>1, <1>2
<1>4. chunks' = [chunks EXCEPT ![j] = r]
  BY DEF SetChunk
<1>5. chunks'[j] = r /\ \A k \in Ids : k # j => chunks'[k] = chunks[k]
  BY <1>1, <1>4
<1>6. chunks' \in [Ids -> Seq(Chunk)]
  BY <1>1, <1>3, <1>4
<1>7. QED  BY <1>2, <1>3, <1>5, <1>6

-----------------------------------------------------------------------------
(* Places in a renumbered group. *)

LEMMA InsertAtIs ==
    ASSUME NEW S, NEW s \in Seq(S), NEW p \in 1 .. Len(s) + 1, NEW e \in S,
           NEW r, r = InsertAt(s, p, e)
    PROVE  /\ r \in Seq(S) /\ Len(r) = Len(s) + 1 /\ r[p] = e
           /\ \A i \in 1 .. Len(s) : i < p => r[i] = s[i]
           /\ \A i \in 1 .. Len(s) : ~(i < p) => r[i + 1] = s[i]
<1> DEFINE a == SubSeq(s, 1, p - 1)
           b == <<e>>
           c == SubSeq(s, p, Len(s))
<1>0. Len(s) \in Nat /\ p \in Nat /\ p >= 1 /\ p <= Len(s) + 1 /\ p \in Int /\ p - 1 \in Int
      /\ Len(s) \in Int /\ \A i \in 1 .. Len(s) : s[i] \in S
  OBVIOUS
<1>1. /\ a \in Seq(S) /\ Len(a) = p - 1 /\ \A i \in 1 .. p - 1 : a[i] = s[i]
  <2>1. \A i \in 1 .. p - 1 : s[i] \in S
    BY <1>0
  <2>2. /\ a \in Seq(S) /\ Len(a) = IF 1 <= p - 1 THEN p - 1 - 1 + 1 ELSE 0
        /\ \A i \in 1 .. p - 1 - 1 + 1 : a[i] = s[1 + i - 1]
    BY <1>0, <2>1, SubSeqProperties
  <2>3. Len(a) = p - 1
    BY <1>0, <2>2
  <2>4. \A i \in 1 .. p - 1 : i \in 1 .. p - 1 - 1 + 1 /\ 1 + i - 1 = i
    BY <1>0
  <2>5. QED  BY <2>2, <2>3, <2>4
<1>2. b \in Seq(S) /\ Len(b) = 1 /\ b[1] = e
  OBVIOUS
<1>3. /\ c \in Seq(S) /\ Len(c) = Len(s) - p + 1
      /\ \A i \in 1 .. Len(s) - p + 1 : c[i] = s[p + i - 1]
  <2>1. \A i \in p .. Len(s) : s[i] \in S
    BY <1>0
  <2>2. /\ c \in Seq(S) /\ Len(c) = IF p <= Len(s) THEN Len(s) - p + 1 ELSE 0
        /\ \A i \in 1 .. Len(s) - p + 1 : c[i] = s[p + i - 1]
    BY <1>0, <2>1, SubSeqProperties
  <2>3. QED  BY <1>0, <2>2
<1>4. r = (a \o b) \o c
  BY DEF InsertAt
<1> HIDE DEF a, b, c
<1>5. /\ a \o b \in Seq(S) /\ Len(a \o b) = p
      /\ \A i \in 1 .. p : (a \o b)[i] = IF i <= p - 1 THEN a[i] ELSE b[i - (p - 1)]
  <2>1. Len(a) + Len(b) = p
    BY <1>0, <1>1, <1>2
  <2>2. /\ a \o b \in Seq(S) /\ Len(a \o b) = Len(a) + Len(b)
        /\ \A i \in 1 .. Len(a) + Len(b) : (a \o b)[i] = IF i <= Len(a) THEN a[i] ELSE b[i - Len(a)]
    BY <1>1, <1>2, ConcatProperties
  <2>3. Len(a) = p - 1
    BY <1>1
  <2>4. /\ Len(a \o b) = p
        /\ \A i \in 1 .. p : (a \o b)[i] = IF i <= Len(a) THEN a[i] ELSE b[i - Len(a)]
    BY ONLY <2>1, <2>2
  <2>5. QED  BY ONLY <2>2, <2>3, <2>4
<1>6. /\ r \in Seq(S) /\ Len(r) = Len(s) + 1
      /\ \A i \in 1 .. Len(s) + 1 : r[i] = IF i <= p THEN (a \o b)[i] ELSE c[i - p]
  <2>1. Len(a \o b) + Len(c) = Len(s) + 1
    BY <1>0, <1>3, <1>5
  <2>2. PICK d : d = a \o b
    OBVIOUS
  <2>3. d \in Seq(S) /\ c \in Seq(S) /\ r = d \o c /\ Len(d) = p
    BY <1>3, <1>4, <1>5, <2>2
  <2>4. /\ r \in Seq(S) /\ Len(r) = Len(d) + Len(c)
        /\ \A i \in 1 .. Len(d) + Len(c) : r[i] = IF i <= Len(d) THEN d[i] ELSE c[i - Len(d)]
    BY <2>3, ConcatProperties
  <2>5. Len(d) + Len(c) = Len(s) + 1
    BY <2>1, <2>2
  <2>6. QED  BY ONLY <2>2, <2>3, <2>4, <2>5
<1>7. r[p] = e
  <2>0. p \in 1 .. p /\ ~(p <= p - 1) /\ p - (p - 1) = 1 /\ p \in 1 .. Len(s) + 1 /\ p <= p
    BY <1>0
  <2>1. (a \o b)[p] = b[p - (p - 1)] /\ p - (p - 1) = 1
    BY <1>5, <2>0
  <2>2. r[p] = (a \o b)[p]
    BY <1>6, <2>0
  <2>3. QED  BY <1>2, <2>1, <2>2
<1>8. ASSUME NEW i \in 1 .. Len(s), i < p PROVE r[i] = s[i]
  <2>1. i \in 1 .. p - 1 /\ i \in 1 .. p /\ i \in 1 .. Len(s) + 1 /\ i <= p /\ i <= p - 1
    BY <1>0, <1>8
  <2>2. r[i] = (a \o b)[i] /\ (a \o b)[i] = a[i] /\ a[i] = s[i]
    BY <1>1, <1>5, <1>6, <2>1
  <2>3. QED  BY <2>2
<1>9. ASSUME NEW i \in 1 .. Len(s), ~(i < p) PROVE r[i + 1] = s[i]
  <2>1. /\ i + 1 \in 1 .. Len(s) + 1 /\ ~(i + 1 <= p) /\ i + 1 - p \in 1 .. Len(s) - p + 1
        /\ p + (i + 1 - p) - 1 = i
    BY <1>0, <1>9
  <2>2. r[i + 1] = c[i + 1 - p]
    <3>1. PICK k : k = i + 1
      OBVIOUS
    <3>2. k \in 1 .. Len(s) + 1 /\ ~(k <= p)
      BY <2>1, <3>1
    <3>3. r[k] = c[k - p]
      BY <1>6, <3>2
    <3>4. QED  BY <3>1, <3>3
  <2>3. c[i + 1 - p] = s[i]
    BY <1>3, <2>1
  <2>4. QED  BY <2>2, <2>3
<1>10. QED  BY <1>6, <1>7, <1>8, <1>9

LEMMA IndexIs ==
    ASSUME NEW s, NEW x \in ToSet(s)
    PROVE  Index(s, x) \in DOMAIN s /\ s[Index(s, x)] = x
BY DEF ToSet, Index

\* A query lists the jobs of a group once each, none before an earlier one.
LEMMA ListingIs ==
    ASSUME NEW S \in SUBSET Ids, NEW s \in Listings(S)
    PROVE  /\ s \in Seq(S) /\ ToSet(s) = S
           /\ \A i, k \in DOMAIN s : s[i] = s[k] => i = k
           /\ \A i, k \in DOMAIN s : i < k => ~InGroupBefore(jobs, s[k], s[i])
<1>1. IsFiniteSet(S) /\ Cardinality(S) \in Nat
  BY IdsFinite, FS_Subset, FS_CardinalityType
<1>2. /\ s \in [1 .. Cardinality(S) -> S] /\ ToSet(s) = S
      /\ \A m, n \in DOMAIN s : m < n => ~InGroupBefore(jobs, s[n], s[m])
  BY DEF Listings
<1>3. s \in Seq(S)
  BY <1>1, <1>2, SeqDef
<1>4. s \in Surjection(1 .. Cardinality(S), S)
  BY <1>2 DEF Surjection, ToSet
<1>5. IsFiniteSet(1 .. Cardinality(S)) /\ Cardinality(1 .. Cardinality(S)) = Cardinality(S)
  <2>1. 1 \in Int /\ Cardinality(S) \in Int
    BY <1>1
  <2>2. IsFiniteSet(1 .. Cardinality(S))
        /\ Cardinality(1 .. Cardinality(S)) =
             IF 1 > Cardinality(S) THEN 0 ELSE Cardinality(S) - 1 + 1
    BY <2>1, FS_Interval
  <2>3. QED  BY <1>1, <2>2
<1>6. s \in Injection(1 .. Cardinality(S), S)
  BY <1>4, <1>5, FS_Surjection
<1>7. \A i, k \in 1 .. Cardinality(S) : s[i] = s[k] => i = k
  BY <1>2, <1>6 DEF Injection, IsInjective
<1>8. DOMAIN s = 1 .. Cardinality(S)
  BY <1>2
<1>9. QED  BY <1>2, <1>3, <1>7, <1>8

\* Where everyone is after a job has been inserted into the list of a group.
LEMMA PlacesAre ==
    ASSUME NEW S \in SUBSET Ids, NEW s \in Listings(S), NEW j \in Ids, j \notin S,
           NEW p \in 1 .. Len(s) + 1, NEW r, r = InsertAt(s, p, j)
    PROVE  /\ ToSet(r) = S \cup {j} /\ Index(r, j) = p
           /\ \A x \in S : /\ Index(s, x) \in 1 .. Len(s) /\ s[Index(s, x)] = x
                           /\ Index(r, x) = IF Index(s, x) < p THEN Index(s, x)
                                            ELSE Index(s, x) + 1
<1>1. /\ s \in Seq(S) /\ ToSet(s) = S /\ \A i, k \in DOMAIN s : s[i] = s[k] => i = k
  BY ListingIs
<1>2. s \in Seq(S \cup {j}) /\ j \in S \cup {j}
  BY <1>1, SeqMonotonic
<1>3. /\ r \in Seq(S \cup {j}) /\ Len(r) = Len(s) + 1 /\ r[p] = j
      /\ \A i \in 1 .. Len(s) : i < p => r[i] = s[i]
      /\ \A i \in 1 .. Len(s) : ~(i < p) => r[i + 1] = s[i]
  <2>1. PICK T : T = S \cup {j}
    OBVIOUS
  <2>2. s \in Seq(T) /\ j \in T
    BY <1>2, <2>1
  <2>3. /\ r \in Seq(T) /\ Len(r) = Len(s) + 1 /\ r[p] = j
        /\ \A i \in 1 .. Len(s) : i < p => r[i] = s[i]
        /\ \A i \in 1 .. Len(s) : ~(i < p) => r[i + 1] = s[i]
    BY <2>2, InsertAtIs
  <2>4. QED  BY <2>1, <2>3
<1>4. /\ DOMAIN s = 1 .. Len(s) /\ DOMAIN r = 1 .. Len(s) + 1 /\ Len(s) \in Nat
      /\ \A i \in 1 .. Len(s) : s[i] \in S
  BY <1>1, <1>3
<1>5. ASSUME NEW k \in DOMAIN r
      PROVE  \/ k = p
             \/ k \in 1 .. Len(s) /\ k < p /\ r[k] = s[k]
             \/ k - 1 \in 1 .. Len(s) /\ ~(k - 1 < p) /\ r[k] = s[k - 1]
  <2>1. CASE k < p
    BY <1>3, <1>4, <2>1
  <2>2. CASE k > p
    <3>1. k - 1 \in 1 .. Len(s) /\ ~(k - 1 < p) /\ k - 1 + 1 = k
      BY <1>4, <2>2
    <3>2. r[k - 1 + 1] = s[k - 1]
      BY <1>3, <3>1
    <3>3. QED  BY <3>1, <3>2
  <2>3. QED  BY <1>4, <2>1, <2>2
<1>6. p \in DOMAIN r
  BY <1>4
<1>7. \A x \in S : /\ Index(s, x) \in 1 .. Len(s) /\ s[Index(s, x)] = x
  BY <1>1, <1>4, IndexIs
<1>8. j \in ToSet(r)
  BY <1>3, <1>6 DEF ToSet
<1>9. ASSUME NEW x \in S
      PROVE  \E k \in DOMAIN r : /\ k = IF Index(s, x) < p THEN Index(s, x) ELSE Index(s, x) + 1
                                 /\ r[k] = x
  BY <1>3, <1>4, <1>7
<1>10. ToSet(r) = S \cup {j}
  <2>1. \A k \in DOMAIN r : r[k] \in S \cup {j}
    BY <1>3
  <2>2. QED  BY <1>8, <1>9, <2>1 DEF ToSet
<1>11. ASSUME NEW k \in DOMAIN r, r[k] = j PROVE k = p
  BY <1>4, <1>5, <1>11
<1>12. Index(r, j) = p
  BY <1>8, <1>11, IndexIs
<1>13. ASSUME NEW x \in S
       PROVE  Index(r, x) = IF Index(s, x) < p THEN Index(s, x) ELSE Index(s, x) + 1
  <2> PICK i : i = Index(s, x)
    OBVIOUS
  <2> PICK k : k = Index(r, x)
    OBVIOUS
  <2>1. k \in DOMAIN r /\ r[k] = x /\ i \in 1 .. Len(s) /\ s[i] = x
    BY <1>7, <1>10, IndexIs
  <2>2. k # p
    BY <1>3, <2>1
  <2>3. CASE k < p
    <3>1. s[k] = x /\ k \in DOMAIN s
      BY <1>4, <1>5, <2>1, <2>2, <2>3
    <3>2. k = i
      BY <1>1, <1>4, <2>1, <3>1
    <3>3. QED  BY <2>3, <3>2
  <2>4. CASE ~(k < p)
    <3>1. s[k - 1] = x /\ k - 1 \in 1 .. Len(s) /\ ~(k - 1 < p)
      BY <1>4, <1>5, <2>1, <2>2, <2>4
    <3>2. k - 1 = i
      BY <1>1, <1>4, <2>1, <3>1
    <3>3. ~(i < p) /\ k = i + 1
      BY <1>4, <2>1, <3>1, <3>2
    <3>4. QED  BY <3>3
  <2>5. QED  BY <2>3, <2>4
<1>14. QED  BY <1>7, <1>10, <1>12, <1>13

\* The jobs a moved one is placed among.
Group(j, t) == {k \in Existing \ {j} : jobs[k].prio = jobs[t].prio}

\* What renumbering writes: the places in the group as it was listed, the jobs
\* from the gap on one further.
Renumbered(j, t, before, s) ==
    LET p == Place(s, t, before)
    IN  /\ p \in 1 .. Len(s) + 1
        /\ jobs'[j].key = p
        /\ \A k \in Group(j, t) :
             /\ Index(s, k) \in 1 .. Len(s) /\ s[Index(s, k)] = k
             /\ jobs'[k].key = IF Index(s, k) < p THEN Index(s, k) ELSE Index(s, k) + 1
        /\ \A k \in Existing : k \notin Group(j, t) /\ k # j => jobs'[k].key = jobs[k].key

\* A row before and after a step that neither inserts nor removes a job.
KeepsRows ==
    \A k \in Ids :
      /\ jobs'[k] # None <=> jobs[k] # None
      /\ jobs[k] # None => /\ jobs'[k].grid = jobs[k].grid /\ jobs'[k].route = jobs[k].route
                           /\ jobs'[k].at = jobs[k].at

LEMMA MoveStep ==
    ASSUME TypeOK, NEW j \in Ids, NEW t \in Ids, NEW before \in BOOLEAN, MoveJob(j, t, before)
    PROVE  /\ jobs' \in [Ids -> JobRow \cup {None}] /\ KeepsRows
           /\ \A k \in Existing : /\ jobs'[k].state = jobs[k].state
                                  /\ jobs'[k].prio = IF k = j THEN jobs[t].prio ELSE jobs[k].prio
           /\ \E s \in Listings(Group(j, t)) : Renumbered(j, t, before, s)
<1>1. PICK s \in Listings(Group(j, t)) :
        jobs' = [k \in Ids |->
           IF ~Exists(k) THEN None
           ELSE [jobs[k] EXCEPT !.key = Renumber(InsertAt(s, Place(s, t, before), j), j, k),
                                !.prio = IF k = j THEN AdoptedPriority(j, t) ELSE @]]
  <2>1. \E s \in Listings({k \in Existing \ {j} : jobs[k].prio = jobs[t].prio}) :
          jobs' = [k \in Ids |->
             IF ~Exists(k) THEN None
             ELSE [jobs[k] EXCEPT !.key = Renumber(InsertAt(s, Place(s, t, before), j), j, k),
                                  !.prio = IF k = j THEN AdoptedPriority(j, t) ELSE @]]
    BY Zenon DEF MoveJob
  <2>2. QED  BY Zenon, <2>1 DEF Group
<1>2. Group(j, t) \in SUBSET Ids /\ j \notin Group(j, t) /\ t \in Group(j, t) /\ Exists(j)
      /\ Exists(t)
  <2>1. j # t /\ Exists(j) /\ Exists(t)
    BY Zenon DEF MoveJob
  <2>2. QED  BY <2>1 DEF Group, Existing
<1> PICK p : p = Place(s, t, before)
  OBVIOUS
<1> PICK r : r = InsertAt(s, p, j)
  OBVIOUS
<1>3. s \in Seq(Group(j, t)) /\ ToSet(s) = Group(j, t)
  BY <1>2, ListingIs
<1>4. p \in 1 .. Len(s) + 1
  <2>1. Index(s, t) \in 1 .. Len(s)
    BY <1>2, <1>3, IndexIs
  <2>2. QED  BY <1>3, <2>1 DEF Place
<1>5. /\ ToSet(r) = Group(j, t) \cup {j} /\ Index(r, j) = p
      /\ \A x \in Group(j, t) :
           /\ Index(s, x) \in 1 .. Len(s) /\ s[Index(s, x)] = x
           /\ Index(r, x) = IF Index(s, x) < p THEN Index(s, x) ELSE Index(s, x) + 1
  <2>1. PICK G : G = Group(j, t)
    OBVIOUS
  <2>2. G \in SUBSET Ids /\ s \in Listings(G) /\ j \notin G
    BY <1>2, <2>1
  <2>3. /\ ToSet(r) = G \cup {j} /\ Index(r, j) = p
        /\ \A x \in G : /\ Index(s, x) \in 1 .. Len(s) /\ s[Index(s, x)] = x
                        /\ Index(r, x) = IF Index(s, x) < p THEN Index(s, x) ELSE Index(s, x) + 1
    BY <1>4, <2>2, PlacesAre
  <2>4. QED  BY <2>1, <2>3
<1>6. ASSUME NEW k \in Existing
      PROVE  /\ jobs'[k] \in JobRow
             /\ jobs'[k].grid = jobs[k].grid /\ jobs'[k].route = jobs[k].route
             /\ jobs'[k].at = jobs[k].at /\ jobs'[k].state = jobs[k].state
             /\ jobs'[k].prio = IF k = j THEN jobs[t].prio ELSE jobs[k].prio
             /\ jobs'[k].key = Renumber(r, j, k)
  <2>1. k \in Ids /\ Exists(k)
    BY DEF Existing
  <2> PICK a : a = jobs[k]
    OBVIOUS
  <2> PICK x : x = Renumber(r, j, k)
    OBVIOUS
  <2> PICK y : y = IF k = j THEN jobs[t].prio ELSE jobs[k].prio
    OBVIOUS
  <2>2. a \in JobRow /\ jobs[t] \in JobRow
    BY <1>2, <2>1 DEF Exists, TypeOK
  <2>3. y \in Priorities
    BY <2>2 DEF JobRow
  <2>4. x \in Nat
    <3>1. CASE k \in ToSet(r)
      <4>1. Index(r, k) \in Nat
        BY <1>3, <1>4, <1>5, <3>1
      <4>2. QED  BY <3>1, <4>1 DEF Renumber
    <3>2. CASE k \notin ToSet(r)
      <4>1. a.key \in Nat
        BY <2>2 DEF JobRow
      <4>2. QED  BY <3>2, <4>1 DEF Renumber
    <3>3. QED  BY <3>1, <3>2
  <2>5. jobs'[k] = [a EXCEPT !.key = x, !.prio = y]
    <3>1. jobs'[k] = [jobs[k] EXCEPT !.key = Renumber(r, j, k),
                                     !.prio = IF k = j THEN AdoptedPriority(j, t) ELSE @]
      BY Zenon, <1>1, <2>1
    <3>2. jobs'[k] = [a EXCEPT !.key = x, !.prio = IF k = j THEN jobs[t].prio ELSE @]
      BY Zenon, <3>1 DEF AdoptedPriority
    <3>3. CASE k = j
      <4>1. jobs'[k] = [a EXCEPT !.key = x, !.prio = jobs[t].prio]
        BY <3>2, <3>3
      <4>2. QED  BY <3>3, <4>1
    <3>4. CASE k # j
      <4>1. jobs'[k] = [a EXCEPT !.key = x]
        BY <2>2, <3>2, <3>4 DEF JobRow
      <4>2. QED  BY <2>2, <3>4, <4>1 DEF JobRow
    <3>5. QED  BY <3>3, <3>4
  <2>6. QED  BY <2>2, <2>3, <2>4, <2>5 DEF JobRow
<1>7. \A k \in Ids : k \notin Existing => jobs'[k] = None
  BY Zenon, <1>1 DEF Existing
<1>8. jobs' \in [Ids -> JobRow \cup {None}]
  <2>1. jobs' = [k \in Ids |-> jobs'[k]]
    BY Zenon, <1>1
  <2>2. QED  BY <1>6, <1>7, <2>1
<1>9. KeepsRows
  BY <1>6, <1>7, AbsenceAssumption DEF KeepsRows, Existing, Exists
<1>10. Renumbered(j, t, before, s)
  <2>1. j \in Existing /\ Group(j, t) \subseteq Existing
    BY <1>2 DEF Existing, Group
  <2>2. \A k \in Group(j, t) \cup {j} : Renumber(r, j, k) = Index(r, k)
    BY <1>5 DEF Renumber
  <2>3. \A k \in Existing : k \notin Group(j, t) /\ k # j => Renumber(r, j, k) = jobs[k].key
    BY <1>5 DEF Renumber
  <2>4. QED  BY <1>4, <1>5, <1>6, <2>1, <2>2, <2>3 DEF Renumbered
<1>11. QED  BY <1>6, <1>8, <1>9, <1>10

-----------------------------------------------------------------------------
(* Type correctness. *)

LEMMA SetPriorityStep ==
    ASSUME TypeOK, NEW j \in Ids, NEW p \in Priorities, SetJobPriority(j, p)
    PROVE  /\ jobs' \in [Ids -> JobRow \cup {None}] /\ KeepsRows
           /\ \A k \in Existing : jobs'[k].state = jobs[k].state
           /\ \A k \in Ids : k # j => jobs'[k] = jobs[k]
<1> PICK a : a = jobs[j]
  OBVIOUS
<1>1. jobs[j] # None /\ jobs' = [jobs EXCEPT ![j].prio = p, ![j].key = TimeKey(jobs[j].at)]
  BY DEF SetJobPriority, Exists
<1>2. a \in JobRow /\ a.at \in Times
  BY <1>1 DEF TypeOK, JobRow
<1>3. TimeKey(a.at) \in Nat
  BY <1>2, KeyType
<1> PICK b : b = [a EXCEPT !.prio = p, !.key = TimeKey(a.at)]
  OBVIOUS
<1>4. /\ b \in JobRow /\ b.grid = a.grid /\ b.route = a.route /\ b.at = a.at /\ b.state = a.state
  BY <1>2, <1>3 DEF JobRow
<1>5. jobs' = [jobs EXCEPT ![j] = b]
  BY <1>1, <1>2 DEF TypeOK
<1>6. /\ jobs' \in [Ids -> JobRow \cup {None}] /\ jobs'[j] = b
      /\ \A k \in Ids : k # j => jobs'[k] = jobs[k]
  BY <1>4, <1>5 DEF TypeOK
<1>7. b # None
  BY <1>4, AbsenceAssumption
<1>8. QED  BY <1>1, <1>4, <1>6, <1>7 DEF KeepsRows, Existing, Exists

\* A job is closed or archived.
LEMMA SetStateStep ==
    ASSUME TypeOK, NEW j \in Ids, Exists(j), NEW x \in {"completed", "archived"},
           jobs' = [jobs EXCEPT ![j].state = x]
    PROVE  /\ jobs' \in [Ids -> JobRow \cup {None}] /\ KeepsRows
           /\ \A k \in Ids : k # j => jobs'[k] = jobs[k]
           /\ jobs'[j].state = x /\ jobs'[j].prio = jobs[j].prio /\ jobs'[j].key = jobs[j].key
<1> PICK a : a = jobs[j]
  OBVIOUS
<1>1. a \in JobRow /\ a # None
  BY DEF TypeOK, Exists
<1> PICK b : b = [a EXCEPT !.state = x]
  OBVIOUS
<1>2. /\ b \in JobRow /\ b.grid = a.grid /\ b.route = a.route /\ b.at = a.at /\ b.state = x
      /\ b.prio = a.prio /\ b.key = a.key
  BY <1>1 DEF JobRow
<1>3. jobs' = [jobs EXCEPT ![j] = b]
  BY DEF TypeOK
<1>4. /\ jobs' \in [Ids -> JobRow \cup {None}] /\ jobs'[j] = b
      /\ \A k \in Ids : k # j => jobs'[k] = jobs[k]
  BY <1>2, <1>3 DEF TypeOK
<1>5. b # None
  BY <1>2, AbsenceAssumption
<1>6. QED  BY <1>1, <1>2, <1>4, <1>5 DEF KeepsRows

LEMMA CountTypes ==
    ASSUME TypeOK
    PROVE  /\ Event => events' \in 0 .. MaxEvents
           /\ \A f : Strike(f) => events' \in 0 .. MaxEvents
           /\ \A route : Submitting(route) => submits' \in 0 .. MaxSubmits
BY JobQueueAssumption DEF TypeOK, Event, Strike, Submitting

LEMMA TypedOrder == ASSUME TypeOK, Order PROVE TypeOK'
<1>1. ASSUME NEW j \in Ids, NEW t \in Ids, NEW before \in BOOLEAN, MoveJob(j, t, before)
      PROVE  TypeOK'
  <2>1. jobs' \in [Ids -> JobRow \cup {None}]
    BY <1>1, MoveStep
  <2>2. hand' \in Gesture /\ Event
    <3>1. hand' = <<j, t, before>> /\ Event
      BY Zenon, <1>1 DEF MoveJob
    <3>2. QED  BY <3>1 DEF Gesture
  <2>3. UNCHANGED <<chunks, call, inputVars, busy, dirs, orphans, torn, submits>>
    BY Zenon, <1>1 DEF MoveJob
  <2>4. QED  BY <2>1, <2>2, <2>3, CountTypes DEF TypeOK, inputVars
<1>2. ASSUME NEW j \in Ids, NEW p \in Priorities, SetJobPriority(j, p) PROVE TypeOK'
  <2>1. jobs' \in [Ids -> JobRow \cup {None}]
    BY <1>2, SetPriorityStep
  <2>2. hand' \in Gesture /\ Event
    BY <1>2 DEF SetJobPriority, Gesture
  <2>3. UNCHANGED <<chunks, call, inputVars, busy, dirs, orphans, torn, submits>>
    BY <1>2 DEF SetJobPriority
  <2>4. QED  BY <2>1, <2>2, <2>3, CountTypes DEF TypeOK, inputVars
<1>3. QED  BY <1>1, <1>2 DEF Order

LEMMA TypedSubmit == ASSUME TypeOK, Submit, hand' = None PROVE TypeOK'
<1>1. ASSUME NEW f \in File, NEW at \in Times, SubmitForm(f.name, f.prio, f.grid, at) PROVE TypeOK'
  <2>1. f.name \in Names /\ f.prio \in Priorities /\ f.grid \in Grids
    BY DEF File
  <2>2. PICK id \in Slugs(f.name) : Enqueue(Baked(id, f.prio, at, f.grid, "main"))
    BY <1>1 DEF SubmitForm
  <2>3. queue' \in Seq(Submission)
    BY <2>1, <2>2, SlugType, BakedType, QueueType
  <2>4. /\ submits' \in 0 .. MaxSubmits
        /\ UNCHANGED <<storeVars, call, folder, busy, dirs, orphans, torn, events>>
    BY <1>1, CountTypes DEF SubmitForm
  <2>5. QED  BY <2>3, <2>4 DEF TypeOK, storeVars
<1>2. ASSUME NEW f \in File, DropFile(f) PROVE TypeOK'
  BY <1>2, CountTypes DEF DropFile, TypeOK, storeVars
<1>3. ASSUME NEW f \in folder, Processed(f)
      PROVE  /\ folder' \subseteq File /\ events' \in 0 .. MaxEvents
             /\ f \in File /\ f.name \in Names /\ f.prio \in Priorities /\ f.grid \in Grids
  BY <1>3, CountTypes DEF Processed, TypeOK, File
<1>4. ASSUME NEW f \in folder, NEW at \in Times, WatchOnLeader(f, at) PROVE TypeOK'
  <2>1. /\ folder' \subseteq File /\ events' \in 0 .. MaxEvents
        /\ f \in File /\ f.name \in Names /\ f.prio \in Priorities /\ f.grid \in Grids
    BY <1>3, <1>4 DEF WatchOnLeader
  <2>2. call' \in [Threads -> Call \cup {None}]
    <3>1. CASE call' = call
      BY <3>1 DEF TypeOK
    <3>2. CASE call' # call
      <4>1. PICK id \in Slugs(f.name) : Begin(Main, "job", Baked(id, f.prio, at, f.grid, "main"), {})
        BY <1>4, <3>2 DEF WatchOnLeader
      <4>2. Baked(id, f.prio, at, f.grid, "main") \in Submission /\ Main \in Threads
        BY <2>1, SlugType, BakedType DEF Threads
      <4>3. QED  BY <4>1, <4>2, BeginType
    <3>3. QED  BY <3>1, <3>2
  <2>3. UNCHANGED <<storeVars, queue, busy, dirs, orphans, torn, submits>>
    BY <1>4 DEF WatchOnLeader
  <2>4. QED  BY <2>1, <2>2, <2>3 DEF TypeOK, storeVars
<1>5. ASSUME NEW f \in folder, NEW at \in Times, WatchElsewhere(f, at) PROVE TypeOK'
  <2>1. /\ folder' \subseteq File /\ events' \in 0 .. MaxEvents
        /\ f \in File /\ f.name \in Names /\ f.prio \in Priorities /\ f.grid \in Grids
    BY <1>3, <1>5 DEF WatchElsewhere
  <2>2. queue' \in Seq(Submission)
    <3>1. CASE queue' = queue
      BY <3>1 DEF TypeOK
    <3>2. CASE queue' # queue
      <4>1. PICK id \in Slugs(f.name) : Enqueue(Baked(id, f.prio, at, f.grid, "main"))
        BY <1>5, <3>2 DEF WatchElsewhere
      <4>2. QED  BY <2>1, <4>1, SlugType, BakedType, QueueType
    <3>3. QED  BY <3>1, <3>2
  <2>3. UNCHANGED <<storeVars, call, busy, dirs, orphans, torn, submits>>
    BY <1>5 DEF WatchElsewhere
  <2>4. QED  BY <2>1, <2>2, <2>3 DEF TypeOK, storeVars
<1>6. QED  BY <1>1, <1>2, <1>4, <1>5 DEF Submit

LEMMA DoneType == ASSUME TypeOK, NEW j \in Ids PROVE DoneChunks(j) \in SUBSET Nat
<1>1. \A i \in DOMAIN chunks[j] : chunks[j][i].at \in Nat
  <2>1. chunks[j] \in Seq(Chunk)
    BY DEF TypeOK
  <2>2. \A i \in DOMAIN chunks[j] : chunks[j][i] \in Chunk
    BY <2>1
  <2>3. QED  BY <2>2 DEF Chunk
<1>2. QED  BY <1>1 DEF DoneChunks

LEMMA TypedResubmit == ASSUME TypeOK, Resubmit, hand' = None PROVE TypeOK'
<1>1. ASSUME NEW t \in Threads, NEW j \in Ids, NEW some \in BOOLEAN, NEW g \in Grids,
             NEW at \in Times, BeginResubmit(t, j, some, g, at)
      PROVE  TypeOK'
  <2>1. /\ Exists(j) /\ UNCHANGED <<storeVars, inputVars, busy, dirs, orphans, torn, events>>
        /\ submits' \in 0 .. MaxSubmits
        /\ Begin(t, "choose", Baked(j, jobs[j].prio, at, g, Route(t)),
                 IF some THEN DoneChunks(j) ELSE {})
    BY <1>1, CountTypes DEF BeginResubmit
  <2>2. jobs[j].prio \in Priorities /\ Route(t) \in {"main", "http"}
    BY <2>1 DEF TypeOK, Exists, JobRow, Route
  <2>3. Baked(j, jobs[j].prio, at, g, Route(t)) \in Submission
    BY <2>2, BakedType
  <2>4. (IF some THEN DoneChunks(j) ELSE {}) \in SUBSET Nat
    BY DoneType
  <2>5. call' \in [Threads -> Call \cup {None}]
    BY <2>1, <2>3, <2>4, BeginType
  <2>6. QED  BY <2>1, <2>5 DEF TypeOK, storeVars, inputVars
<1>2. ASSUME NEW t \in Threads, ChooseVersion(t) PROVE TypeOK'
  <2> PICK c : c = call[t]
    OBVIOUS
  <2>1. /\ c # None /\ UNCHANGED <<storeVars, inputVars, busy, dirs, orphans, torn, countVars>>
        /\ call' = [call EXCEPT ![t].step = "job", ![t].sub.id = NextVersion(@)]
    BY <1>2 DEF ChooseVersion, InStep
  <2>2. c \in Call /\ c.sub \in Submission /\ c.sub.id \in Ids
    BY <2>1 DEF TypeOK, Call, Submission
  <2>3. PICK v \in Ids : v = NextVersion(c.sub.id)
    BY <2>2, VersionType
  <2>4. PICK sub \in Submission : sub = [c.sub EXCEPT !.id = v]
    BY <2>2 DEF Submission
  <2>5. [c EXCEPT !.step = "job", !.sub = sub] \in Call
    BY <2>2 DEF Call
  <2>6. call' = [call EXCEPT ![t] = [c EXCEPT !.step = "job", !.sub = sub]]
    BY <2>1, <2>2, <2>3, <2>4 DEF TypeOK, Call
  <2>7. call' \in [Threads -> Call \cup {None}]
    BY <2>5, <2>6 DEF TypeOK
  <2>8. QED  BY <2>1, <2>7 DEF TypeOK, storeVars, inputVars, countVars
<1>3. QED  BY <1>1, <1>2 DEF Resubmit

\* insertChunks appends the chunks of the submission, or fails.
ChunksEffect(t, j) ==
    /\ call[t] # None /\ call[t].step = "chunks" /\ j \in Ids /\ jobs' = jobs
    /\ chunks' \in [Ids -> Seq(Chunk)] /\ call' \in [Threads -> Call \cup {None}]
    /\ events' \in 0 .. MaxEvents
    /\ \A k \in Ids : k # j => chunks'[k] = chunks[k]
    /\ \A u \in Threads : u # t => call'[u] = call[u]
    /\ \/ /\ chunks'[j] = chunks[j] \o FreshChunks(call[t].sub.grid)
          /\ \/ call'[t] = None
             \/ /\ call'[t] # None /\ call'[t].sub = call[t].sub
                /\ call'[t].step = "mark"
       \/ /\ chunks' = chunks
          /\ call'[t] # None /\ call'[t].sub = call[t].sub /\ call'[t].step = "undo"

LEMMA InsertChunksStep ==
    ASSUME TypeOK, NEW t \in Threads, InsertChunks(t), NEW j, j = call[t].sub.id
    PROVE  ChunksEffect(t, j)
<1> DEFINE c == call[t]
           g == FreshChunks(c.sub.grid)
<1>1. c # None /\ c.step = "chunks" /\ jobs' = jobs
  BY Zenon DEF InsertChunks, InStep
<1>2. \/ /\ UNCHANGED events /\ chunks' = [chunks EXCEPT ![j] = @ \o g]
         /\ Return(t) \/ Proceed(t, "mark")
      \/ /\ UNCHANGED events \/ Strike("database")
         /\ Proceed(t, "undo") /\ UNCHANGED chunks
  BY Zenon DEF InsertChunks
<1>3. c \in Call /\ j \in Ids /\ c.sub.grid \in Nat
  BY <1>1, JobQueueAssumption DEF TypeOK, Call, Submission
<1>4. g \in Seq(Chunk)
  <2> DEFINE n == c.sub.grid
  <2>1. n \in Nat
    BY <1>3
  <2> HIDE DEF c
  <2>2. \A i \in 1 .. n : [at |-> i, state |-> "pending"] \in Chunk
    BY DEF Chunk
  <2> HIDE DEF n
  <2>3. FreshChunks(n) \in [1 .. n -> Chunk]
    BY <2>2 DEF FreshChunks
  <2>4. FreshChunks(n) \in Seq(Chunk)
    BY <2>1, <2>3, SeqDef
  <2>5. QED  BY <2>4 DEF n
<1>5. chunks[j] \in Seq(Chunk)
  BY <1>3 DEF TypeOK
<1> HIDE DEF g
<1>6. chunks[j] \o g \in Seq(Chunk)
  BY <1>4, <1>5, ConcatProperties
<1>7. events' \in 0 .. MaxEvents
  BY <1>2, CountTypes DEF TypeOK
<1>8. CASE chunks' = [chunks EXCEPT ![j] = @ \o g] /\ (Return(t) \/ Proceed(t, "mark"))
  <2>1. /\ chunks' \in [Ids -> Seq(Chunk)] /\ chunks'[j] = chunks[j] \o g
        /\ \A k \in Ids : k # j => chunks'[k] = chunks[k]
    BY <1>3, <1>6, <1>8 DEF TypeOK
  <2>2. /\ call' \in [Threads -> Call \cup {None}]
        /\ \A u \in Threads : u # t => call'[u] = call[u]
        /\ \/ call'[t] = None
           \/ call'[t] # None /\ call'[t].sub = c.sub /\ call'[t].step = "mark"
    <3>1. CASE Return(t)
      BY <3>1, ReturnType
    <3>2. CASE Proceed(t, "mark")
      BY <1>1, <3>2, ProceedType
    <3>3. QED  BY <1>8, <3>1, <3>2
  <2>3. QED  BY Zenon, <1>1, <1>3, <1>7, <2>1, <2>2 DEF c, g, ChunksEffect
<1>9. CASE Proceed(t, "undo") /\ UNCHANGED chunks
  <2>1. /\ call' \in [Threads -> Call \cup {None}]
        /\ \A u \in Threads : u # t => call'[u] = call[u]
        /\ call'[t] # None /\ call'[t].sub = c.sub /\ call'[t].step = "undo"
    BY <1>1, <1>9, ProceedType
  <2>2. chunks' \in [Ids -> Seq(Chunk)] /\ chunks' = chunks
    BY <1>9 DEF TypeOK
  <2>3. QED  BY Zenon, <1>1, <1>3, <1>7, <2>1, <2>2 DEF c, ChunksEffect
<1>10. QED  BY Zenon, <1>2, <1>8, <1>9

\* A chunk of a resubmission that is marked or left alone stays in place.
LEMMA MarkedChunk ==
    ASSUME NEW x \in Chunk, NEW D,
           NEW y, y = IF x.at \in D THEN [x EXCEPT !.state = "completed"] ELSE x
    PROVE  y \in Chunk /\ y.at = x.at /\ y.state \in {x.state, "completed"}
<1>1. CASE x.at \in D
  BY <1>1 DEF Chunk
<1>2. CASE x.at \notin D
  BY <1>2
<1>3. QED  BY <1>1, <1>2

\* markChunksCompleted completes some chunks of one job.
MarkEffect(t, j) ==
    /\ call[t] # None /\ call[t].step = "mark" /\ j \in Ids /\ call'[t] = None
    /\ \A u \in Threads : u # t => call'[u] = call[u]
    /\ call' \in [Threads -> Call \cup {None}] /\ chunks' \in [Ids -> Seq(Chunk)]
    /\ \A k \in Ids : k # j => chunks'[k] = chunks[k]
    /\ DOMAIN chunks'[j] = DOMAIN chunks[j]
    /\ \A i \in DOMAIN chunks[j] :
         /\ chunks'[j][i].at = chunks[j][i].at
         /\ chunks'[j][i].state \in {chunks[j][i].state, "completed"}

LEMMA MarkStep ==
    ASSUME TypeOK, NEW t \in Threads, MarkCompleted(t), NEW j, j = call[t].sub.id
    PROVE  MarkEffect(t, j)
<1> DEFINE c == call[t]
           q == chunks[j]
           r == [i \in DOMAIN q |-> IF q[i].at \in c.done
                                    THEN [q[i] EXCEPT !.state = "completed"] ELSE q[i]]
<1>1. c # None /\ c.step = "mark" /\ Return(t)
  BY Zenon DEF MarkCompleted, InStep
<1>2. chunks' = [chunks EXCEPT ![j] = [i \in DOMAIN @ |->
          IF @[i].at \in c.done THEN [@[i] EXCEPT !.state = "completed"] ELSE @[i]]]
  BY Zenon DEF MarkCompleted
<1>3. j \in Ids /\ q \in Seq(Chunk)
  BY <1>1 DEF TypeOK, Call, Submission
<1>4. chunks' = [chunks EXCEPT ![j] = r]
  BY Zenon, <1>2, <1>3 DEF TypeOK
<1>5. \A i \in DOMAIN q : r[i] = IF q[i].at \in c.done
                                 THEN [q[i] EXCEPT !.state = "completed"] ELSE q[i]
  BY Zenon
<1>6. DOMAIN r = DOMAIN q
  BY Zenon
<1> HIDE DEF r, c
<1>7. ASSUME NEW i \in DOMAIN q
      PROVE  r[i] \in Chunk /\ r[i].at = q[i].at /\ r[i].state \in {q[i].state, "completed"}
  <2>1. q[i] \in Chunk
    BY <1>3, ElementOfSeq
  <2>2. QED  BY <1>5, <2>1, MarkedChunk
<1>8. r \in Seq(Chunk)
  <2>1. DOMAIN q = 1 .. Len(q) /\ Len(q) \in Nat
    BY <1>3
  <2>2. r = [i \in DOMAIN q |-> r[i]]
    BY <1>6 DEF r
  <2>3. r \in [1 .. Len(q) -> Chunk]
    BY <1>7, <2>1, <2>2
  <2>4. QED  BY <2>1, <2>3, SeqDef
<1>9. /\ chunks' \in [Ids -> Seq(Chunk)] /\ chunks'[j] = r
      /\ \A k \in Ids : k # j => chunks'[k] = chunks[k]
  BY <1>3, <1>4, <1>8 DEF TypeOK
<1>10. /\ call'[t] = None /\ call' \in [Threads -> Call \cup {None}]
       /\ \A u \in Threads : u # t => call'[u] = call[u]
  BY <1>1, ReturnType
<1>11. /\ DOMAIN chunks'[j] = DOMAIN chunks[j]
       /\ \A i \in DOMAIN chunks[j] :
            /\ chunks'[j][i].at = chunks[j][i].at
            /\ chunks'[j][i].state \in {chunks[j][i].state, "completed"}
  BY Zenon, <1>6, <1>7, <1>9
<1>12. QED  BY Zenon, <1>1, <1>3, <1>9, <1>10, <1>11 DEF c, MarkEffect

LEMMA InsertJobStep ==
    ASSUME TypeOK, NEW t \in Threads, InsertJob(t), NEW j, j = call[t].sub.id
    PROVE  /\ call[t] # None /\ call[t].step = "job" /\ j \in Ids /\ chunks' = chunks
           /\ call[t].sub \in Submission
           /\ jobs' \in [Ids -> JobRow \cup {None}] /\ call' \in [Threads -> Call \cup {None}]
           /\ \A u \in Threads : u # t => call'[u] = call[u]
           /\ \A k \in Ids : k # j => jobs'[k] = jobs[k]
           /\ \/ jobs' = jobs /\ call'[t] = None
              \/ /\ jobs[j] = None /\ jobs'[j] = NewRow(call[t].sub) /\ jobs'[j] # None
                 /\ call'[t] # None /\ call'[t].sub = call[t].sub /\ call'[t].step = "chunks"
<1> PICK c : c = call[t]
  OBVIOUS
<1>1. /\ c # None /\ c.step = "job" /\ chunks' = chunks
      /\ IF Exists(j) THEN Return(t) /\ UNCHANGED jobs
         ELSE /\ jobs' = [jobs EXCEPT ![j] = NewRow(c.sub)] /\ Proceed(t, "chunks")
  BY DEF InsertJob, InStep, Occupied
<1>2. c \in Call /\ c.sub \in Submission /\ j \in Ids
  BY <1>1 DEF TypeOK, Call, Submission
<1>3. CASE Exists(j)
  BY <1>1, <1>2, <1>3, ReturnType DEF TypeOK
<1>4. CASE ~Exists(j)
  <2>1. NewRow(c.sub) \in JobRow /\ NewRow(c.sub) # None
    BY <1>2, NewRowType
  <2>2. /\ jobs' \in [Ids -> JobRow \cup {None}] /\ jobs'[j] = NewRow(c.sub)
        /\ \A k \in Ids : k # j => jobs'[k] = jobs[k]
    BY <1>1, <1>2, <1>4, <2>1 DEF TypeOK
  <2>3. /\ call' \in [Threads -> Call \cup {None}]
        /\ \A u \in Threads : u # t => call'[u] = call[u]
        /\ call'[t] # None /\ call'[t].sub = c.sub /\ call'[t].step = "chunks"
    BY <1>1, <1>4, ProceedType
  <2>4. jobs[j] = None
    BY <1>4 DEF Exists
  <2>5. QED  BY <1>1, <1>2, <2>1, <2>2, <2>3, <2>4
<1>5. QED  BY <1>3, <1>4

LEMMA UndoStep ==
    ASSUME TypeOK, NEW t \in Threads, UndoJob(t), NEW j, j = call[t].sub.id
    PROVE  /\ call[t] # None /\ call[t].step = "undo" /\ j \in Ids
           /\ jobs' \in [Ids -> JobRow \cup {None}] /\ chunks' \in [Ids -> Seq(Chunk)]
           /\ jobs'[j] = None /\ chunks'[j] = <<>>
           /\ \A k \in Ids : k # j => jobs'[k] = jobs[k] /\ chunks'[k] = chunks[k]
           /\ call' \in [Threads -> Call \cup {None}] /\ call'[t] = None
           /\ \A u \in Threads : u # t => call'[u] = call[u]
<1>1. call[t] # None /\ call[t].step = "undo" /\ DropRow(j) /\ Return(t)
  BY DEF UndoJob, InStep
<1>2. j \in Ids
  BY <1>1 DEF TypeOK, Call, Submission
<1>3. QED  BY <1>1, <1>2, DropRowType, ReturnType

LEMMA TypedInsert == ASSUME TypeOK, Insert, hand' = None PROVE TypeOK'
<1>1. ASSUME NEW t \in Threads, InsertJob(t) PROVE TypeOK'
  <2>1. /\ jobs' \in [Ids -> JobRow \cup {None}] /\ call' \in [Threads -> Call \cup {None}]
        /\ chunks' = chunks
    BY <1>1, InsertJobStep
  <2>2. UNCHANGED <<inputVars, busy, dirs, orphans, torn, countVars>>
    BY <1>1 DEF InsertJob
  <2>3. QED  BY <2>1, <2>2 DEF TypeOK, inputVars, countVars
<1>2. ASSUME NEW t \in Threads, InsertChunks(t) PROVE TypeOK'
  <2>1. /\ chunks' \in [Ids -> Seq(Chunk)] /\ call' \in [Threads -> Call \cup {None}]
        /\ jobs' = jobs /\ events' \in 0 .. MaxEvents
    BY Zenon, <1>2, InsertChunksStep DEF ChunksEffect
  <2>2. UNCHANGED <<inputVars, busy, dirs, orphans, torn, submits>>
    BY <1>2 DEF InsertChunks
  <2>3. QED  BY <2>1, <2>2 DEF TypeOK, inputVars
<1>3. ASSUME NEW t \in Threads, UndoJob(t) PROVE TypeOK'
  <2>1. /\ jobs' \in [Ids -> JobRow \cup {None}] /\ chunks' \in [Ids -> Seq(Chunk)]
        /\ call' \in [Threads -> Call \cup {None}]
    BY <1>3, UndoStep
  <2>2. UNCHANGED <<inputVars, busy, dirs, orphans, torn, countVars>>
    BY <1>3 DEF UndoJob
  <2>3. QED  BY <2>1, <2>2 DEF TypeOK, inputVars, countVars
<1>4. ASSUME NEW t \in Threads, MarkCompleted(t) PROVE TypeOK'
  <2>1. chunks' \in [Ids -> Seq(Chunk)] /\ call' \in [Threads -> Call \cup {None}]
    BY Zenon, <1>4, MarkStep DEF MarkEffect
  <2>2. UNCHANGED <<jobs, inputVars, busy, dirs, orphans, torn, countVars>>
    BY <1>4 DEF MarkCompleted
  <2>3. QED  BY <2>1, <2>2 DEF TypeOK, inputVars, countVars
<1>5. QED  BY <1>1, <1>2, <1>3, <1>4 DEF Insert

LEMMA QueueHead ==
    ASSUME TypeOK, queue # <<>>
    PROVE  /\ Head(queue) \in Submission /\ Tail(queue) \in Seq(Submission)
           /\ \A i \in DOMAIN Tail(queue) : i + 1 \in DOMAIN queue /\ Tail(queue)[i] = queue[i + 1]
           /\ 1 \in DOMAIN queue /\ Head(queue) = queue[1]
<1>1. queue \in Seq(Submission)
  BY DEF TypeOK
<1>2. /\ Head(queue) \in Submission /\ Tail(queue) \in Seq(Submission)
      /\ Len(Tail(queue)) = Len(queue) - 1
      /\ \A i \in 1 .. Len(Tail(queue)) : Tail(queue)[i] = queue[i + 1]
  BY <1>1, HeadTailProperties
<1>3. Len(queue) \in Nat /\ Len(queue) # 0 /\ DOMAIN queue = 1 .. Len(queue)
  BY <1>1, EmptySeq
<1>4. DOMAIN Tail(queue) = 1 .. Len(queue) - 1
  BY <1>2
<1>5. \A i \in 1 .. Len(queue) - 1 : i + 1 \in 1 .. Len(queue)
  BY <1>3
<1>6. Head(queue) = queue[1] /\ 1 \in 1 .. Len(queue)
  BY <1>1, <1>3
<1>7. QED  BY <1>2, <1>3, <1>4, <1>5, <1>6

\* FinishChunk completes the chunk the node renders, or finds it gone.
LEMMA FinishStep ==
    ASSUME TypeOK, FinishChunk
    PROVE  \/ chunks' = chunks
           \/ \E j \in Ids, i \in Nat : i \in DOMAIN chunks[j] /\ SetChunk(j, i, "completed")
<1>1. busy \in Ids \X Nat
  BY DEF TypeOK, FinishChunk
<1>2. busy[1] \in Ids /\ busy[2] \in Nat
  BY <1>1
<1>3. CASE busy[2] \in DOMAIN chunks[busy[1]] /\ chunks[busy[1]][busy[2]].state = "assigned"
  BY <1>2, <1>3 DEF FinishChunk
<1>4. CASE ~(busy[2] \in DOMAIN chunks[busy[1]] /\ chunks[busy[1]][busy[2]].state = "assigned")
  BY <1>4 DEF FinishChunk
<1>5. QED  BY <1>3, <1>4

LEMMA TypedDispatch == ASSUME TypeOK, Dispatch, hand' = None PROVE TypeOK'
<1>1. CASE TakeSubmission
  <2>1. /\ Head(queue) \in Submission /\ queue' \in Seq(Submission) /\ Main \in Threads
        /\ Begin(Main, "job", Head(queue), {})
    BY <1>1, QueueHead DEF TakeSubmission, Threads
  <2>2. call' \in [Threads -> Call \cup {None}]
    BY <2>1, BeginType
  <2>3. UNCHANGED <<storeVars, folder, busy, dirs, orphans, torn, countVars>>
    BY <1>1 DEF TakeSubmission
  <2>4. QED  BY <2>1, <2>2, <2>3 DEF TypeOK, storeVars, countVars
<1>2. ASSUME NEW j \in Ids, CloseJob(j) PROVE TypeOK'
  <2>1. jobs' \in [Ids -> JobRow \cup {None}]
    BY <1>2, SetStateStep DEF CloseJob
  <2>2. UNCHANGED <<chunks, call, inputVars, busy, dirs, orphans, torn, countVars>>
    BY <1>2 DEF CloseJob
  <2>3. QED  BY <2>1, <2>2 DEF TypeOK, inputVars, countVars
<1>3. ASSUME NEW j \in Ids, AssignWork(j) PROVE TypeOK'
  <2>1. PICK i \in Pending(j) : SetChunk(j, i, "assigned") /\ busy' = <<j, i>>
    BY Zenon, <1>3 DEF AssignWork
  <2>2. chunks[j] \in Seq(Chunk) /\ i \in DOMAIN chunks[j]
    BY <2>1 DEF TypeOK, Pending
  <2>3. i \in Nat
    BY <2>2
  <2>4. chunks' \in [Ids -> Seq(Chunk)]
    BY <2>1, <2>2, SetChunkType
  <2>5. UNCHANGED <<jobs, call, inputVars, dirs, orphans, torn, countVars>>
    BY Zenon, <1>3 DEF AssignWork
  <2>6. busy' \in Ids \X Nat
    BY <2>1, <2>3
  <2>7. QED  BY <2>4, <2>5, <2>6 DEF TypeOK, inputVars, countVars
<1>4. CASE WriteLog
  <2>1. busy[1] \in Ids
    BY <1>4 DEF TypeOK, WriteLog
  <2>2. QED  BY <1>4, <2>1 DEF TypeOK, WriteLog, storeVars, inputVars, countVars
<1>5. CASE FinishChunk
  <2>1. chunks' \in [Ids -> Seq(Chunk)]
    BY <1>5, FinishStep, SetChunkType DEF TypeOK
  <2>2. busy' = None /\ UNCHANGED <<jobs, call, inputVars, dirs, orphans, torn, countVars>>
    BY <1>5 DEF FinishChunk
  <2>3. QED  BY <2>1, <2>2 DEF TypeOK, inputVars, countVars
<1>6. QED  BY <1>1, <1>2, <1>3, <1>4, <1>5 DEF Dispatch

LEMMA TypedCleanUp == ASSUME TypeOK, CleanUp, hand' = None PROVE TypeOK'
<1>1. ASSUME NEW j \in Ids, DeleteJob(j) PROVE TypeOK'
  <2>1. jobs' \in [Ids -> JobRow \cup {None}] /\ chunks' \in [Ids -> Seq(Chunk)]
    BY <1>1, DropRowType DEF DeleteJob
  <2>2. /\ events' \in 0 .. MaxEvents /\ dirs' = dirs \ {j}
        /\ UNCHANGED <<call, inputVars, busy, orphans, submits>>
    BY <1>1, CountTypes DEF DeleteJob
  <2>3. torn' \in {torn, torn \cup {j}}
    BY <1>1 DEF DeleteJob
  <2>4. QED  BY <2>1, <2>2, <2>3 DEF TypeOK, inputVars
<1>2. ASSUME NEW j \in Ids, ArchiveJob(j) PROVE TypeOK'
  <2>1. jobs' \in [Ids -> JobRow \cup {None}]
    BY <1>2, SetStateStep DEF ArchiveJob
  <2>2. events' \in 0 .. MaxEvents /\ UNCHANGED <<chunks, call, inputVars, busy, dirs, orphans, torn, submits>>
    BY <1>2, CountTypes DEF ArchiveJob
  <2>3. QED  BY <2>1, <2>2 DEF TypeOK, inputVars
<1>3. ASSUME NEW onLeader \in BOOLEAN, ScanCleanup(onLeader) PROVE TypeOK'
  BY <1>3 DEF ScanCleanup, TypeOK, storeVars, inputVars, countVars
<1>4. CASE DeleteDirs
  BY <1>4 DEF DeleteDirs, TypeOK, storeVars, inputVars, countVars
<1>5. QED  BY <1>1, <1>2, <1>3, <1>4 DEF CleanUp

LEMMA TypedInit == Init => TypeOK
BY JobQueueAssumption DEF Init, TypeOK

LEMMA TypedNext == ASSUME TypeOK, [Next]_vars PROVE TypeOK'
<1>1. CASE Next
  BY <1>1, TypedOrder, TypedSubmit, TypedResubmit, TypedInsert, TypedDispatch, TypedCleanUp DEF Next
<1>2. CASE UNCHANGED vars
  BY <1>2 DEF TypeOK, vars, storeVars, inputVars, countVars
<1>3. QED  BY <1>1, <1>2

\* Every row, chunk, call, queue entry and counter keeps its type, whatever
\* the threads of the leader and its users do.
THEOREM TypeCorrect == Spec => []TypeOK
BY TypedInit, TypedNext, PTL DEF Spec

-----------------------------------------------------------------------------
(* A job and its chunks. *)

\* From insertJob to its return a call owns the job it has inserted, if no
\* one has torn it, and until the chunks are in, it is filling it.
Owns(t, j) == Inserting(t, j) /\ j \notin torn

Filling(t, j) == Owns(t, j) /\ call[t].step # "mark"

Complete(j) == /\ DOMAIN chunks[j] = 1 .. jobs[j].grid
               /\ \A i \in DOMAIN chunks[j] : chunks[j][i].at = i

NoStrays == \A j \in Ids : ~Exists(j) => chunks[j] = <<>>

OwnersAgree == \A t \in Threads, j \in Ids : Owns(t, j) =>
                 Exists(j) /\ jobs[j].grid = call[t].sub.grid /\ jobs[j].route = call[t].sub.route

FillersFindNone == \A t \in Threads, j \in Ids : Filling(t, j) => chunks[j] = <<>>

OneOwner == \A j \in Ids, t, u \in Threads : Owns(t, j) /\ Owns(u, j) => t = u

FilledOrComplete == \A j \in Ids \ torn : Exists(j) =>
                      Complete(j) \/ \E t \in Threads : Filling(t, j)

\* The main thread closes jobs itself, so none that it is inserting.
MainKeepsOpen == \A j \in Ids : Owns(Main, j) => jobs[j].state # "completed"

Routed == /\ \A t \in Threads : call[t] # None => call[t].sub.route = Route(t)
          /\ \A i \in DOMAIN queue : queue[i].route = "main"

Insertion == /\ NoStrays /\ OwnersAgree /\ FillersFindNone /\ OneOwner
             /\ FilledOrComplete /\ MainKeepsOpen /\ Routed

\* Only a deletion tears a job.
LEMMA TornKept == ASSUME Order \/ Submit \/ Resubmit \/ Insert \/ Dispatch PROVE torn' = torn
<1>1. ASSUME NEW j \in Ids, NEW t \in Ids, NEW before \in BOOLEAN,
             MoveJob(j, t, before) \/ (\E p \in Priorities : SetJobPriority(j, p))
      PROVE  torn' = torn
  BY Zenon, <1>1 DEF MoveJob, SetJobPriority
<1>2. ASSUME Submit PROVE torn' = torn
  BY Zenon, <1>2 DEF Submit, SubmitForm, DropFile, WatchOnLeader, WatchElsewhere
<1>3. ASSUME Resubmit PROVE torn' = torn
  BY Zenon, <1>3 DEF Resubmit, BeginResubmit, ChooseVersion
<1>4. ASSUME Insert PROVE torn' = torn
  BY Zenon, <1>4 DEF Insert, InsertJob, InsertChunks, UndoJob, MarkCompleted
<1>5. ASSUME Dispatch PROVE torn' = torn
  BY Zenon, <1>5 DEF Dispatch, TakeSubmission, CloseJob, AssignWork, WriteLog, FinishChunk
<1>6. ASSUME Order PROVE torn' = torn
  BY Zenon, <1>6 DEF Order, MoveJob, SetJobPriority
<1>7. QED  BY <1>2, <1>3, <1>4, <1>5, <1>6

LEMMA TornGrows == ASSUME [Next]_vars PROVE torn \subseteq torn'
<1>1. CASE Order \/ Submit \/ Resubmit \/ Insert \/ Dispatch
  BY <1>1, TornKept
<1>2. CASE CleanUp
  BY Zenon, <1>2 DEF CleanUp, DeleteJob, ArchiveJob, ScanCleanup, DeleteDirs
<1>3. CASE UNCHANGED vars
  BY <1>3 DEF vars
<1>4. QED  BY <1>1, <1>2, <1>3 DEF Next

\* A step that neither inserts nor removes jobs, and begins a call at most.
KeepsJobs ==
    /\ \A j \in Ids : /\ Exists(j)' = Exists(j)
                      /\ Exists(j) => jobs'[j].grid = jobs[j].grid /\ jobs'[j].route = jobs[j].route
    /\ \A j \in Ids : /\ DOMAIN chunks'[j] = DOMAIN chunks[j]
                      /\ \A i \in DOMAIN chunks[j] : chunks'[j][i].at = chunks[j][i].at
                      /\ chunks[j] = <<>> => chunks'[j] = <<>>
    /\ \A t \in Threads : \/ call'[t] = call[t]
                          \/ /\ \A j \in Ids : ~Owns(t, j) /\ ~Owns(t, j)'
                             /\ call'[t] # None => call'[t].sub.route = Route(t)
    /\ \A j \in Ids : Exists(j) /\ jobs'[j].state = "completed" =>
                        jobs[j].state = "completed" \/ Idle(Main)
    /\ \A i \in DOMAIN queue' : queue'[i].route = "main"
    /\ torn' = torn

LEMMA InsertionKept == ASSUME Insertion, KeepsJobs PROVE Insertion'
<1>0. torn' = torn
  BY DEF KeepsJobs
<1>1. \A t \in Threads, j \in Ids : Owns(t, j)' => Owns(t, j) /\ call'[t] = call[t]
  BY DEF KeepsJobs, Owns, Inserting
<1>2. \A t \in Threads, j \in Ids : Owns(t, j) => Owns(t, j)' /\ call'[t] = call[t]
  BY DEF KeepsJobs, Owns, Inserting
<1>3. \A t \in Threads, j \in Ids : Filling(t, j)' <=> Filling(t, j)
  BY <1>1, <1>2 DEF Filling
<1>4. \A j \in Ids : /\ Exists(j)' <=> Exists(j)
                     /\ Exists(j) => jobs'[j].grid = jobs[j].grid /\ jobs'[j].route = jobs[j].route
                     /\ DOMAIN chunks'[j] = DOMAIN chunks[j]
                     /\ \A i \in DOMAIN chunks[j] : chunks'[j][i].at = chunks[j][i].at
                     /\ chunks[j] = <<>> => chunks'[j] = <<>>
  BY DEF KeepsJobs
<1>5. NoStrays'
  BY <1>4 DEF Insertion, NoStrays
<1>6. OwnersAgree'
  BY <1>1, <1>4 DEF Insertion, OwnersAgree
<1>7. FillersFindNone'
  BY <1>3, <1>4 DEF Insertion, FillersFindNone
<1>8. OneOwner'
  BY <1>1 DEF Insertion, OneOwner
<1>9. FilledOrComplete'
  <2>1. \A j \in Ids : Exists(j) /\ Complete(j) => Complete(j)'
    BY <1>4 DEF Complete
  <2>2. QED  BY <1>0, <1>3, <1>4, <2>1 DEF Insertion, FilledOrComplete
<1>10. MainKeepsOpen'
  <2>1. \A j \in Ids : Owns(Main, j)' => Owns(Main, j) /\ ~Idle(Main)
    BY <1>1 DEF Threads, Idle, Owns, Inserting
  <2>2. \A j \in Ids : Exists(j) /\ jobs'[j].state = "completed" =>
                         jobs[j].state = "completed" \/ Idle(Main)
    BY DEF KeepsJobs
  <2>3. \A j \in Ids : Owns(Main, j) => Exists(j)
    BY DEF Insertion, OwnersAgree, Threads
  <2>4. QED  BY <2>1, <2>2, <2>3 DEF Insertion, MainKeepsOpen
<1>11. Routed'
  BY DEF Insertion, Routed, KeepsJobs, Route
<1>12. QED  BY <1>5, <1>6, <1>7, <1>8, <1>9, <1>10, <1>11 DEF Insertion

\* What InsertionKept asks of the rows, where the chunks are left alone.
LEMMA RowsKept ==
    ASSUME chunks' = chunks, KeepsRows
    PROVE  /\ \A j \in Ids : /\ Exists(j)' = Exists(j)
                             /\ Exists(j) => jobs'[j].grid = jobs[j].grid
                                             /\ jobs'[j].route = jobs[j].route
           /\ \A j \in Ids : /\ DOMAIN chunks'[j] = DOMAIN chunks[j]
                             /\ \A i \in DOMAIN chunks[j] : chunks'[j][i].at = chunks[j][i].at
                             /\ chunks[j] = <<>> => chunks'[j] = <<>>
BY DEF KeepsRows, Exists

LEMMA SameRows == jobs' = jobs => KeepsRows
BY DEF KeepsRows

LEMMA QueueRouted ==
    ASSUME TypeOK, Insertion, NEW sub \in Submission, sub.route = "main", Enqueue(sub)
    PROVE  \A i \in DOMAIN queue' : queue'[i].route = "main"
<1>1. queue \in Seq(Submission) /\ \A i \in DOMAIN queue : queue[i].route = "main"
  BY DEF TypeOK, Insertion, Routed
<1>2. CASE queue' = Append(queue, sub)
  <2>1. /\ Len(queue') = Len(queue) + 1 /\ queue' \in Seq(Submission)
        /\ \A i \in 1 .. Len(queue) : queue'[i] = queue[i]
        /\ queue'[Len(queue) + 1] = sub
    BY <1>1, <1>2, AppendProperties
  <2>2. /\ DOMAIN queue = 1 .. Len(queue) /\ Len(queue) \in Nat
        /\ DOMAIN queue' = 1 .. Len(queue) + 1
    BY <1>1, <2>1
  <2>3. \A i \in 1 .. Len(queue) + 1 : i \in 1 .. Len(queue) \/ i = Len(queue) + 1
    BY <2>2
  <2>4. QED  BY <1>1, <2>1, <2>2, <2>3
<1>3. CASE UNCHANGED queue
  BY <1>1, <1>3
<1>4. QED  BY <1>2, <1>3 DEF Enqueue

\* An idle thread begins a call, which owns nothing yet.
LEMMA BeginStep ==
    ASSUME TypeOK, NEW t \in Threads, Idle(t), NEW step \in {"choose", "job"},
           NEW sub \in Submission, sub.route = Route(t), NEW done, Begin(t, step, sub, done),
           torn' = torn
    PROVE  \A u \in Threads : \/ call'[u] = call[u]
                              \/ /\ \A j \in Ids : ~Owns(u, j) /\ ~Owns(u, j)'
                                 /\ call'[u] # None => call'[u].sub.route = Route(u)
<1>1. /\ call'[t] = [step |-> step, sub |-> sub, done |-> done]
      /\ \A u \in Threads : u # t => call'[u] = call[u]
  BY DEF Begin, TypeOK
<1>2. \A j \in Ids : ~Owns(t, j) /\ ~Owns(t, j)'
  BY <1>1 DEF Owns, Inserting, Idle
<1>3. call'[t].sub.route = Route(t)
  BY <1>1
<1>4. QED  BY <1>1, <1>2, <1>3

LEMMA OrderKeepsJobs == ASSUME TypeOK, Insertion, Order PROVE KeepsJobs
<1> torn' = torn
  BY TornKept
<1>1. /\ KeepsRows /\ \A k \in Existing : jobs'[k].state = jobs[k].state
      /\ chunks' = chunks /\ call' = call /\ queue' = queue
  <2>1. ASSUME NEW j \in Ids, NEW t \in Ids, NEW before \in BOOLEAN, MoveJob(j, t, before)
        PROVE  <1>1!:
    <3>1. UNCHANGED <<chunks, call, inputVars>>
      BY Zenon, <2>1 DEF MoveJob
    <3>2. QED  BY <2>1, <3>1, MoveStep DEF inputVars
  <2>2. ASSUME NEW j \in Ids, NEW p \in Priorities, SetJobPriority(j, p) PROVE <1>1!:
    <3>1. UNCHANGED <<chunks, call, inputVars>>
      BY <2>2 DEF SetJobPriority
    <3>2. QED  BY <2>2, <3>1, SetPriorityStep DEF inputVars
  <2>3. QED  BY <2>1, <2>2 DEF Order
<1>2. \A j \in Ids : Exists(j) => jobs'[j].state = jobs[j].state
  BY <1>1 DEF Existing
<1>3. QED  BY <1>1, <1>2, RowsKept DEF KeepsJobs, Insertion, Routed

\* A step that leaves the rows and the chunks alone.
LEMMA SubmitKeepsJobs == ASSUME TypeOK, Insertion, Submit PROVE KeepsJobs
<1> torn' = torn
  BY TornKept
<1> DEFINE Fine == /\ \A u \in Threads :
                        \/ call'[u] = call[u]
                        \/ /\ \A j \in Ids : ~Owns(u, j) /\ ~Owns(u, j)'
                           /\ call'[u] # None => call'[u].sub.route = Route(u)
                   /\ \A i \in DOMAIN queue' : queue'[i].route = "main"
                   /\ UNCHANGED storeVars
<1>1. ASSUME NEW f \in File, NEW at \in Times, NEW id \in Slugs(f.name)
      PROVE  /\ Baked(id, f.prio, at, f.grid, "main") \in Submission
             /\ Baked(id, f.prio, at, f.grid, "main").route = "main"
  <2>1. f.name \in Names /\ f.prio \in Priorities /\ f.grid \in Grids
    BY DEF File
  <2>2. QED  BY <2>1, SlugType, BakedType DEF Baked
<1>2. queue' = queue => \A i \in DOMAIN queue' : queue'[i].route = "main"
  BY DEF Insertion, Routed
<1>3. ASSUME NEW f \in File, NEW at \in Times, SubmitForm(f.name, f.prio, f.grid, at) PROVE Fine
  <2>1. PICK id \in Slugs(f.name) : Enqueue(Baked(id, f.prio, at, f.grid, "main"))
    BY <1>3 DEF SubmitForm
  <2>2. \A i \in DOMAIN queue' : queue'[i].route = "main"
    BY <1>1, <2>1, QueueRouted
  <2>3. UNCHANGED <<storeVars, call>>
    BY <1>3 DEF SubmitForm
  <2>4. QED  BY <2>2, <2>3
<1>4. ASSUME NEW f \in File, DropFile(f) PROVE Fine
  BY <1>2, <1>4 DEF DropFile
<1>5. ASSUME NEW f \in folder, NEW at \in Times, WatchOnLeader(f, at) PROVE Fine
  <2>1. Idle(Main) /\ UNCHANGED <<storeVars, queue>> /\ f \in File /\ Main \in Threads
    BY <1>5 DEF WatchOnLeader, TypeOK, Threads
  <2>2. CASE UNCHANGED call
    BY <1>2, <2>1, <2>2
  <2>3. CASE ~UNCHANGED call
    <3>1. PICK id \in Slugs(f.name) : Begin(Main, "job", Baked(id, f.prio, at, f.grid, "main"), {})
      BY <1>5, <2>3 DEF WatchOnLeader
    <3>2. Route(Main) = "main"
      BY DEF Route
    <3>3. QED  BY <1>1, <1>2, <2>1, <3>1, <3>2, BeginStep
  <2>4. QED  BY <2>2, <2>3
<1>6. ASSUME NEW f \in folder, NEW at \in Times, WatchElsewhere(f, at) PROVE Fine
  <2>1. UNCHANGED <<storeVars, call>> /\ f \in File
    BY <1>6 DEF WatchElsewhere, TypeOK
  <2>2. CASE UNCHANGED queue
    BY <1>2, <2>1, <2>2
  <2>3. CASE ~UNCHANGED queue
    <3>1. PICK id \in Slugs(f.name) : Enqueue(Baked(id, f.prio, at, f.grid, "main"))
      BY <1>6, <2>3 DEF WatchElsewhere
    <3>2. QED  BY <1>1, <2>1, <3>1, QueueRouted
  <2>4. QED  BY <2>2, <2>3
<1>7. Fine
  BY <1>3, <1>4, <1>5, <1>6 DEF Submit
<1>8. jobs' = jobs /\ chunks' = chunks
  BY <1>7 DEF storeVars
<1>9. QED  BY <1>7, <1>8, SameRows, RowsKept DEF KeepsJobs

LEMMA ResubmitKeepsJobs == ASSUME TypeOK, Insertion, Resubmit PROVE KeepsJobs
<1> torn' = torn
  BY TornKept
<1> DEFINE Fine == \A u \in Threads :
                     \/ call'[u] = call[u]
                     \/ /\ \A j \in Ids : ~Owns(u, j) /\ ~Owns(u, j)'
                        /\ call'[u] # None => call'[u].sub.route = Route(u)
<1>1. ASSUME NEW t \in Threads, NEW j \in Ids, NEW some \in BOOLEAN, NEW g \in Grids,
             NEW at \in Times, BeginResubmit(t, j, some, g, at)
      PROVE  Fine /\ UNCHANGED <<storeVars, queue>>
  <2>1. jobs[j] \in JobRow /\ jobs[j].prio \in Priorities
    BY <1>1 DEF BeginResubmit, Exists, TypeOK, JobRow
  <2>2. Route(t) \in {"main", "http"}
    BY DEF Route
  <2>3. PICK sub : sub = Baked(j, jobs[j].prio, at, g, Route(t))
    OBVIOUS
  <2>4. sub \in Submission /\ sub.route = Route(t)
    BY <2>1, <2>2, <2>3, BakedType DEF Baked
  <2>5. /\ Idle(t) /\ Begin(t, "choose", sub, IF some THEN DoneChunks(j) ELSE {})
        /\ UNCHANGED <<storeVars, queue>>
    BY <1>1, <2>3 DEF BeginResubmit, inputVars
  <2>6. QED  BY <2>4, <2>5, BeginStep
<1>2. ASSUME NEW t \in Threads, ChooseVersion(t)
      PROVE  Fine /\ UNCHANGED <<storeVars, queue>>
  <2>1. /\ call[t] # None /\ call[t].step = "choose"
        /\ call' = [call EXCEPT ![t].step = "job", ![t].sub.id = NextVersion(@)]
        /\ UNCHANGED <<storeVars, inputVars>>
    BY Zenon, <1>2 DEF ChooseVersion, InStep
  <2>2. PICK c : c = call[t]
    OBVIOUS
  <2>3. c \in Call /\ c.sub \in Submission
    BY <2>1, <2>2 DEF TypeOK, Call
  <2>4. PICK s : s = [c.sub EXCEPT !.id = NextVersion(c.sub.id)]
    OBVIOUS
  <2>5. s.route = c.sub.route
    BY <2>3, <2>4 DEF Submission
  <2>6. PICK d : d = [step |-> "job", sub |-> s, done |-> c.done]
    OBVIOUS
  <2>7. call'[t] = d /\ \A u \in Threads : u # t => call'[u] = call[u]
    BY <2>1, <2>2, <2>3, <2>4, <2>6 DEF TypeOK, Call
  <2>8. call'[t].step = "job" /\ call'[t].sub.route = c.sub.route
    BY <2>5, <2>6, <2>7
  <2>9. \A j \in Ids : ~Owns(t, j) /\ ~Owns(t, j)'
    BY <2>1, <2>8 DEF Owns, Inserting
  <2>10. c.sub.route = Route(t)
    BY <2>1, <2>2 DEF Insertion, Routed
  <2>11. QED  BY <2>1, <2>7, <2>8, <2>9, <2>10 DEF inputVars
<1>3. Fine /\ UNCHANGED <<storeVars, queue>>
  BY <1>1, <1>2 DEF Resubmit
<1>4. jobs' = jobs /\ chunks' = chunks
  BY <1>3 DEF storeVars
<1>5. QED  BY <1>3, <1>4, SameRows, RowsKept DEF KeepsJobs, Insertion, Routed

\* A chunk that changes its state stays in its place.
LEMMA ChunkKept ==
    ASSUME TypeOK, NEW j \in Ids, NEW i \in DOMAIN chunks[j],
           NEW s \in {"pending", "assigned", "completed"}, SetChunk(j, i, s)
    PROVE  \A k \in Ids : /\ DOMAIN chunks'[k] = DOMAIN chunks[k]
                          /\ \A x \in DOMAIN chunks[k] : chunks'[k][x].at = chunks[k][x].at
                          /\ chunks[k] = <<>> => chunks'[k] = <<>>
<1>1. /\ \A k \in Ids : k # j => chunks'[k] = chunks[k]
      /\ DOMAIN chunks'[j] = DOMAIN chunks[j]
      /\ \A x \in DOMAIN chunks[j] : chunks'[j][x].at = chunks[j][x].at
  <2>1. \A x \in DOMAIN chunks[j] : chunks'[j][x].at = chunks[j][x].at
    BY Zenon, SetChunkType
  <2>2. QED  BY Zenon, <2>1, SetChunkType
<1>2. chunks[j] # <<>>
  <2>1. DOMAIN <<>> = {}
    OBVIOUS
  <2>2. QED  BY <2>1
<1>3. QED  BY <1>1, <1>2

LEMMA DispatchKeepsJobs == ASSUME TypeOK, Insertion, Dispatch PROVE KeepsJobs
<1> torn' = torn
  BY TornKept
<1>0. Main \in Threads /\ \A i \in DOMAIN queue : queue[i].route = "main"
  BY DEF Threads, Insertion, Routed
<1>1. CASE TakeSubmission
  <2>1. /\ Idle(Main) /\ queue # <<>> /\ queue' = Tail(queue)
        /\ Begin(Main, "job", Head(queue), {}) /\ UNCHANGED storeVars
    BY <1>1 DEF TakeSubmission
  <2>2. Head(queue) \in Submission /\ Head(queue).route = Route(Main)
    BY <1>0, <2>1, QueueHead DEF Route
  <2>3. \A i \in DOMAIN queue' : queue'[i].route = "main"
    BY <1>0, <2>1, QueueHead
  <2>4. \A u \in Threads : \/ call'[u] = call[u]
                           \/ /\ \A j \in Ids : ~Owns(u, j) /\ ~Owns(u, j)'
                              /\ call'[u] # None => call'[u].sub.route = Route(u)
    BY <1>0, <2>1, <2>2, BeginStep
  <2>5. jobs' = jobs /\ chunks' = chunks
    BY <2>1 DEF storeVars
  <2>6. QED  BY <2>3, <2>4, <2>5, SameRows, RowsKept DEF KeepsJobs
<1>2. ASSUME NEW j \in Ids, CloseJob(j) PROVE KeepsJobs
  <2>1. /\ Idle(Main) /\ Exists(j) /\ jobs' = [jobs EXCEPT ![j].state = "completed"]
        /\ UNCHANGED <<chunks, call, queue>>
    BY <1>2 DEF CloseJob, Available, inputVars
  <2>2. KeepsRows
    BY <2>1, SetStateStep
  <2>3. QED  BY <1>0, <2>1, <2>2, RowsKept DEF KeepsJobs
<1>3. ASSUME NEW j \in Ids, AssignWork(j) PROVE KeepsJobs
  <2>1. PICK i \in Pending(j) : SetChunk(j, i, "assigned")
    BY Zenon, <1>3 DEF AssignWork
  <2>2. jobs' = jobs /\ UNCHANGED <<call, inputVars>>
    BY Zenon, <1>3 DEF AssignWork
  <2>3. i \in DOMAIN chunks[j]
    BY DEF Pending
  <2>4. \A k \in Ids : /\ DOMAIN chunks'[k] = DOMAIN chunks[k]
                       /\ \A x \in DOMAIN chunks[k] : chunks'[k][x].at = chunks[k][x].at
                       /\ chunks[k] = <<>> => chunks'[k] = <<>>
    BY Zenon, <2>1, <2>3, ChunkKept
  <2>5. QED  BY <1>0, <2>2, <2>4 DEF KeepsJobs, Exists, inputVars
<1>4. CASE WriteLog
  <2>1. jobs' = jobs /\ chunks' = chunks /\ call' = call /\ queue' = queue
    BY <1>4 DEF WriteLog, storeVars, inputVars
  <2>2. QED  BY <1>0, <2>1, SameRows, RowsKept DEF KeepsJobs
<1>5. CASE FinishChunk
  <2>1. jobs' = jobs /\ call' = call /\ queue' = queue
    BY <1>5 DEF FinishChunk, inputVars
  <2>2. CASE chunks' = chunks
    BY <1>0, <2>1, <2>2, SameRows, RowsKept DEF KeepsJobs
  <2>3. CASE chunks' # chunks
    <3>1. PICK j \in Ids, i \in Nat : i \in DOMAIN chunks[j] /\ SetChunk(j, i, "completed")
      BY <1>5, <2>3, FinishStep
    <3>2. \A k \in Ids : /\ DOMAIN chunks'[k] = DOMAIN chunks[k]
                         /\ \A x \in DOMAIN chunks[k] : chunks'[k][x].at = chunks[k][x].at
                         /\ chunks[k] = <<>> => chunks'[k] = <<>>
      BY Zenon, <3>1, ChunkKept
    <3>3. QED  BY <1>0, <2>1, <3>2 DEF KeepsJobs, Exists
  <2>4. QED  BY <2>2, <2>3
<1>6. QED  BY <1>1, <1>2, <1>3, <1>4, <1>5 DEF Dispatch

\* A job is deleted whoever inserts it: from then on it is torn.
LEMMA DeleteKeepsInsertion ==
    ASSUME TypeOK, Insertion, NEW j \in Ids, DeleteJob(j)
    PROVE  Insertion'
<1>1. /\ DropRow(j) /\ call' = call /\ queue' = queue
      /\ torn' = IF \E t \in Threads : Inserting(t, j) THEN torn \cup {j} ELSE torn
  BY DEF DeleteJob, inputVars
<1>2. /\ jobs'[j] = None /\ chunks'[j] = <<>>
      /\ \A k \in Ids : k # j => jobs'[k] = jobs[k] /\ chunks'[k] = chunks[k]
  BY <1>1, DropRowType
<1>3. \A t \in Threads : ~Owns(t, j)' /\ ~Filling(t, j)'
  BY <1>1 DEF Owns, Inserting, Filling
<1>4. \A t \in Threads, k \in Ids : k # j => /\ Owns(t, k)' = Owns(t, k)
                                             /\ Filling(t, k)' = Filling(t, k)
                                             /\ (k \in torn') = (k \in torn)
  BY <1>1 DEF Owns, Inserting, Filling
<1>5. \A k \in Ids : k # j => /\ Exists(k)' = Exists(k) /\ Complete(k)' = Complete(k)
                              /\ jobs'[k] = jobs[k] /\ chunks'[k] = chunks[k]
  BY <1>2 DEF Exists, Complete
<1>6. ~Exists(j)' /\ chunks'[j] = <<>>
  BY <1>2 DEF Exists
<1>7. NoStrays'
  BY <1>5, <1>6 DEF Insertion, NoStrays
<1>8. OwnersAgree'
  BY <1>1, <1>3, <1>4, <1>5 DEF Insertion, OwnersAgree
<1>9. FillersFindNone' /\ OneOwner'
  BY <1>3, <1>4, <1>5, <1>6 DEF Insertion, FillersFindNone, OneOwner
<1>10. FilledOrComplete'
  <2>1. \A k \in Ids \ torn' : Exists(k)' => k # j /\ k \notin torn
    BY <1>1, <1>6
  <2>2. QED  BY <1>4, <1>5, <2>1 DEF Insertion, FilledOrComplete
<1>11. MainKeepsOpen'
  BY <1>3, <1>4, <1>5 DEF Insertion, MainKeepsOpen, Threads
<1>12. Routed'
  BY <1>1 DEF Insertion, Routed, Route
<1>13. QED  BY <1>7, <1>8, <1>9, <1>10, <1>11, <1>12 DEF Insertion

LEMMA CleanUpKeepsInsertion == ASSUME TypeOK, Insertion, CleanUp PROVE Insertion'
<1>1. ASSUME NEW j \in Ids, ArchiveJob(j) PROVE Insertion'
  <2>1. /\ Exists(j) /\ jobs' = [jobs EXCEPT ![j].state = "archived"]
        /\ chunks' = chunks /\ call' = call /\ queue' = queue /\ torn' = torn
    BY <1>1 DEF ArchiveJob, inputVars
  <2>2. /\ KeepsRows /\ \A k \in Ids : k # j => jobs'[k] = jobs[k]
        /\ jobs'[j].state = "archived"
    BY <2>1, SetStateStep
  <2>3. \A k \in Ids : jobs'[k].state = "completed" => jobs[k].state = "completed"
    BY <2>2
  <2>4. QED  BY <2>1, <2>2, <2>3, RowsKept, InsertionKept DEF KeepsJobs, Insertion, Routed
<1>2. CASE DeleteDirs \/ \E onLeader \in BOOLEAN : ScanCleanup(onLeader)
  <2>1. jobs' = jobs /\ chunks' = chunks /\ call' = call /\ queue' = queue /\ torn' = torn
    BY <1>2 DEF DeleteDirs, ScanCleanup, storeVars, inputVars
  <2>2. QED  BY <2>1, SameRows, RowsKept, InsertionKept DEF KeepsJobs, Insertion, Routed
<1>3. QED  BY <1>1, <1>2, DeleteKeepsInsertion DEF CleanUp

\* A call owns at most the job it names.
LEMMA OwnsOne ==
    ASSUME NEW t \in Threads, NEW k \in Ids, Owns(t, k)
    PROVE  k = call[t].sub.id
BY DEF Owns, Inserting

\* The primary key: whoever finds no row becomes the only owner of it.
LEMMA InsertJobKeepsInsertion ==
    ASSUME TypeOK, Insertion, NEW t \in Threads, InsertJob(t)
    PROVE  Insertion'
<1> PICK j : j = call[t].sub.id
  OBVIOUS
<1> torn' = torn
  BY TornKept DEF Insert
<1>1. /\ call[t] # None /\ call[t].step = "job" /\ j \in Ids /\ chunks' = chunks
      /\ call[t].sub \in Submission
      /\ \A u \in Threads : u # t => call'[u] = call[u]
      /\ \A k \in Ids : k # j => jobs'[k] = jobs[k]
      /\ \/ jobs' = jobs /\ call'[t] = None
         \/ /\ jobs[j] = None /\ jobs'[j] = NewRow(call[t].sub) /\ jobs'[j] # None
            /\ call'[t] # None /\ call'[t].sub = call[t].sub /\ call'[t].step = "chunks"
  BY InsertJobStep
<1>2. queue' = queue
  BY DEF InsertJob, inputVars
<1>3. \A k \in Ids : ~Owns(t, k)
  BY <1>1 DEF Owns, Inserting
<1>4. CASE jobs' = jobs /\ call'[t] = None
  <2>1. \A k \in Ids : ~Owns(t, k)'
    BY <1>4 DEF Owns, Inserting
  <2>2. QED  BY <1>1, <1>2, <1>3, <1>4, <2>1, SameRows, RowsKept, InsertionKept
             DEF KeepsJobs, Insertion, Routed
<1>5. CASE /\ jobs[j] = None /\ jobs'[j] = NewRow(call[t].sub) /\ jobs'[j] # None
           /\ call'[t] # None /\ call'[t].sub = call[t].sub /\ call'[t].step = "chunks"
  <2>1. \A u \in Threads : ~Owns(u, j)
    BY <1>1, <1>5 DEF Insertion, OwnersAgree, Exists
  <2>2. /\ jobs'[j].grid = call'[t].sub.grid /\ jobs'[j].route = call'[t].sub.route
        /\ jobs'[j].state = "active"
    BY <1>5 DEF NewRow
  <2>3. /\ j \notin torn => Owns(t, j)' /\ Filling(t, j)'
        /\ \A k \in Ids : k # j => ~Owns(t, k)' /\ ~Filling(t, k)'
    BY <1>1, <1>5 DEF Owns, Inserting, Filling
  <2>4. \A u \in Threads, k \in Ids : u # t => /\ Owns(u, k)' = Owns(u, k)
                                               /\ Filling(u, k)' = Filling(u, k)
    BY <1>1 DEF Owns, Inserting, Filling
  <2>5. \A k \in Ids : k # j => /\ Exists(k)' = Exists(k) /\ Complete(k)' = Complete(k)
    BY <1>1 DEF Exists, Complete
  <2>6. Exists(j)' /\ ~Exists(j) /\ chunks[j] = <<>>
    BY <1>1, <1>5 DEF Exists, Insertion, NoStrays
  <2>7. NoStrays'
    BY <1>1, <2>5, <2>6 DEF Insertion, NoStrays
  <2>8. OwnersAgree'
    <3>1. ASSUME NEW u \in Threads, NEW k \in Ids, Owns(u, k)'
          PROVE  Exists(k)' /\ jobs'[k].grid = call'[u].sub.grid /\ jobs'[k].route = call'[u].sub.route
      <4>1. CASE u = t
        BY <2>2, <2>3, <2>6, <3>1, <4>1
      <4>2. CASE u # t
        <5>1. k # j /\ Owns(u, k)
          BY <2>1, <2>4, <3>1, <4>2
        <5>2. QED  BY <1>1, <2>5, <4>2, <5>1 DEF Insertion, OwnersAgree
      <4>3. QED  BY <4>1, <4>2
    <3>2. QED  BY <3>1 DEF OwnersAgree
  <2>9. FillersFindNone'
    BY <1>1, <2>3, <2>4, <2>6 DEF Insertion, FillersFindNone
  <2>10. OneOwner'
    BY <2>1, <2>3, <2>4 DEF Insertion, OneOwner
  <2>11. FilledOrComplete'
    <3>1. \A u \in Threads, k \in Ids : Filling(u, k) => Filling(u, k)'
      BY <1>3, <2>4 DEF Filling
    <3>2. QED  BY <2>3, <2>5, <3>1 DEF Insertion, FilledOrComplete
  <2>12. MainKeepsOpen'
    BY <1>1, <2>1, <2>2, <2>3, <2>4 DEF Insertion, MainKeepsOpen, Threads
  <2>13. Routed'
    BY <1>1, <1>2, <1>5 DEF Insertion, Routed, Route
  <2>14. QED  BY <2>7, <2>8, <2>9, <2>10, <2>11, <2>12, <2>13 DEF Insertion
<1>6. QED  BY <1>1, <1>4, <1>5

LEMMA UndoKeepsInsertion ==
    ASSUME TypeOK, Insertion, NEW t \in Threads, UndoJob(t)
    PROVE  Insertion'
<1> PICK j : j = call[t].sub.id
  OBVIOUS
<1> torn' = torn
  BY TornKept DEF Insert
<1>1. /\ call[t] # None /\ call[t].step = "undo" /\ j \in Ids
      /\ jobs'[j] = None /\ chunks'[j] = <<>>
      /\ \A k \in Ids : k # j => jobs'[k] = jobs[k] /\ chunks'[k] = chunks[k]
      /\ call'[t] = None /\ \A u \in Threads : u # t => call'[u] = call[u]
  BY UndoStep
<1>2. queue' = queue
  BY DEF UndoJob, inputVars
<1>3. \A u \in Threads : u # t => ~Owns(u, j)
  <2>1. \A u \in Threads : u # t /\ Owns(u, j) => ~Owns(t, j)
    BY <1>1 DEF Insertion, OneOwner
  <2>2. j \notin torn => Owns(t, j)
    BY <1>1 DEF Owns, Inserting
  <2>3. QED  BY <2>1, <2>2 DEF Owns
<1>4. \A k \in Ids : ~Owns(t, k)' /\ (k # j => ~Filling(t, k))
  BY <1>1 DEF Owns, Inserting, Filling
<1>5. \A u \in Threads, k \in Ids : u # t => /\ Owns(u, k)' = Owns(u, k)
                                             /\ Filling(u, k)' = Filling(u, k)
  BY <1>1 DEF Owns, Inserting, Filling
<1>6. \A k \in Ids : k # j => /\ Exists(k)' = Exists(k) /\ Complete(k)' = Complete(k)
                              /\ jobs'[k] = jobs[k] /\ chunks'[k] = chunks[k]
  BY <1>1 DEF Exists, Complete
<1>7. ~Exists(j)' /\ chunks'[j] = <<>>
  BY <1>1 DEF Exists
<1>8. \A u \in Threads, k \in Ids : Owns(u, k)' => u # t /\ k # j /\ Owns(u, k)
  BY <1>3, <1>4, <1>5
<1>9. NoStrays'
  BY <1>6, <1>7 DEF Insertion, NoStrays
<1>10. OwnersAgree'
  BY <1>1, <1>6, <1>8 DEF Insertion, OwnersAgree
<1>11. FillersFindNone' /\ OneOwner'
  <2>1. \A u \in Threads, k \in Ids : Filling(u, k)' => k # j /\ Filling(u, k)
    BY <1>5, <1>8 DEF Filling
  <2>2. QED  BY <1>6, <1>8, <2>1 DEF Insertion, FillersFindNone, OneOwner
<1>12. FilledOrComplete'
  <2>1. \A u \in Threads, k \in Ids : k # j /\ Filling(u, k) => Filling(u, k)'
    BY <1>4, <1>5
  <2>2. QED  BY <1>6, <1>7, <2>1 DEF Insertion, FilledOrComplete
<1>13. MainKeepsOpen'
  BY <1>6, <1>8 DEF Insertion, MainKeepsOpen, Threads
<1>14. Routed'
  BY <1>1, <1>2 DEF Insertion, Routed, Route
<1>15. QED  BY <1>9, <1>10, <1>11, <1>12, <1>13, <1>14 DEF Insertion

LEMMA NoDomainNoChunks ==
    ASSUME NEW s \in Seq(Chunk), DOMAIN s = {}
    PROVE  s = <<>>
<1>1. Len(s) \in Nat /\ DOMAIN s = 1 .. Len(s)
  OBVIOUS
<1>2. Len(s) = 0
  BY <1>1
<1>3. QED  BY <1>2, EmptySeq

\* markChunksCompleted ends the call that owned the job; the job is complete.
LEMMA MarkKeepsInsertion ==
    ASSUME TypeOK, Insertion, NEW t \in Threads, MarkCompleted(t)
    PROVE  Insertion'
<1> PICK j : j = call[t].sub.id
  OBVIOUS
<1> torn' = torn
  BY TornKept DEF Insert
<1>1. /\ call[t] # None /\ call[t].step = "mark" /\ j \in Ids /\ call'[t] = None
      /\ \A u \in Threads : u # t => call'[u] = call[u]
      /\ \A k \in Ids : k # j => chunks'[k] = chunks[k]
      /\ DOMAIN chunks'[j] = DOMAIN chunks[j]
      /\ \A i \in DOMAIN chunks[j] : chunks'[j][i].at = chunks[j][i].at
      /\ chunks' \in [Ids -> Seq(Chunk)]
  <2>1. MarkEffect(t, j)
    BY MarkStep
  <2>2. QED  BY Zenon, <2>1 DEF MarkEffect
<1>2. jobs' = jobs /\ queue' = queue
  BY DEF MarkCompleted, inputVars
<1>3. \A k \in Ids : ~Owns(t, k)' /\ ~Filling(t, k)
  BY <1>1 DEF Owns, Inserting, Filling
<1>4. \A u \in Threads, k \in Ids : u # t => /\ Owns(u, k)' = Owns(u, k)
                                             /\ Filling(u, k)' = Filling(u, k)
  BY <1>1 DEF Owns, Inserting, Filling
<1>5. \A k \in Ids : /\ Exists(k)' = Exists(k)
                     /\ DOMAIN chunks'[k] = DOMAIN chunks[k]
                     /\ \A i \in DOMAIN chunks[k] : chunks'[k][i].at = chunks[k][i].at
                     /\ chunks[k] = <<>> => chunks'[k] = <<>>
  <2>1. chunks[j] = <<>> => chunks'[j] = <<>>
    <3>1. chunks'[j] \in Seq(Chunk)
      BY <1>1
    <3>2. DOMAIN chunks'[j] = {} => chunks'[j] = <<>>
      BY <3>1, NoDomainNoChunks
    <3>3. DOMAIN <<>> = {}
      OBVIOUS
    <3>4. QED  BY Zenon, <1>1, <3>2, <3>3
  <2>2. QED  BY <1>1, <1>2, <2>1 DEF Exists
<1>6. \A u \in Threads, k \in Ids : Owns(u, k)' => u # t /\ Owns(u, k)
  BY <1>3, <1>4
<1>7. NoStrays' /\ OwnersAgree' /\ MainKeepsOpen' /\ OneOwner'
  <2>1. \A u \in Threads : u # t => call'[u] = call[u]
    BY <1>1
  <2>2. NoStrays'
    BY <1>5 DEF Insertion, NoStrays
  <2>3. OwnersAgree'
    BY <1>2, <1>5, <1>6, <2>1 DEF Insertion, OwnersAgree
  <2>4. MainKeepsOpen' /\ OneOwner'
    BY <1>2, <1>6 DEF Insertion, MainKeepsOpen, OneOwner, Threads
  <2>5. QED  BY <2>2, <2>3, <2>4
<1>8. FillersFindNone'
  BY <1>3, <1>4, <1>5, <1>6 DEF Insertion, FillersFindNone, Filling
<1>9. FilledOrComplete'
  <2>1. \A u \in Threads, k \in Ids : Filling(u, k) => Filling(u, k)'
    BY <1>3, <1>4
  <2>2. \A k \in Ids : Complete(k) => Complete(k)'
    BY <1>2, <1>5 DEF Complete
  <2>3. QED  BY <1>5, <2>1, <2>2 DEF Insertion, FilledOrComplete
<1>10. Routed'
  BY <1>1, <1>2 DEF Insertion, Routed, Route
<1>11. QED  BY <1>7, <1>8, <1>9, <1>10 DEF Insertion

LEMMA FreshIsNew == ASSUME NEW n \in Nat PROVE <<>> \o FreshChunks(n) = FreshChunks(n)
<1>1. FreshChunks(n) \in [1 .. n -> {[at |-> i, state |-> "pending"] : i \in 1 .. n}]
  BY DEF FreshChunks
<1>2. FreshChunks(n) \in Seq({[at |-> i, state |-> "pending"] : i \in 1 .. n})
  BY <1>1, SeqDef
<1>3. QED  BY <1>2, ConcatEmptySeq

\* insertChunks completes the job, or leaves it to be undone.
LEMMA InsertChunksKeepsInsertion ==
    ASSUME TypeOK, Insertion, NEW t \in Threads, InsertChunks(t)
    PROVE  Insertion'
<1> PICK j : j = call[t].sub.id
  OBVIOUS
<1> torn' = torn
  BY TornKept DEF Insert
<1>0. /\ call[t] # None /\ call[t].step = "chunks" /\ j \in Ids /\ jobs' = jobs
      /\ \A k \in Ids : k # j => chunks'[k] = chunks[k]
      /\ \A u \in Threads : u # t => call'[u] = call[u]
      /\ \/ /\ chunks'[j] = chunks[j] \o FreshChunks(call[t].sub.grid)
            /\ \/ call'[t] = None
               \/ /\ call'[t] # None /\ call'[t].sub = call[t].sub
                  /\ call'[t].step = "mark"
         \/ /\ chunks' = chunks
            /\ call'[t] # None /\ call'[t].sub = call[t].sub /\ call'[t].step = "undo"
  <2>1. ChunksEffect(t, j)
    BY InsertChunksStep
  <2>2. QED  BY Zenon, <2>1 DEF ChunksEffect
<1> PICK n : n = call[t].sub.grid
  OBVIOUS
<1> PICK d : d = FreshChunks(n)
  OBVIOUS
<1>1. /\ call[t] # None /\ call[t].step = "chunks" /\ j \in Ids /\ jobs' = jobs
      /\ \A k \in Ids : k # j => chunks'[k] = chunks[k]
      /\ \A u \in Threads : u # t => call'[u] = call[u]
      /\ call'[t] # None => call'[t].sub = call[t].sub
  BY Zenon, <1>0
<1>2. queue' = queue
  BY DEF InsertChunks, inputVars
<1>3. /\ j \notin torn => Owns(t, j) /\ Filling(t, j)
      /\ \A u \in Threads : u # t => ~Owns(u, j)
      /\ \A k \in Ids : k # j => ~Owns(t, k) /\ ~Owns(t, k)'
  BY <1>1 DEF Owns, Inserting, Filling, Insertion, OneOwner
<1>4. j \notin torn => Exists(j) /\ jobs[j].grid = n /\ chunks[j] = <<>> /\ n \in Nat
  <2>1. call[t] \in Call
    BY <1>1 DEF TypeOK
  <2>2. n \in Nat
    BY <2>1, JobQueueAssumption DEF Call, Submission
  <2>3. QED  BY <1>1, <1>3, <2>2 DEF Insertion, OwnersAgree, FillersFindNone
<1>5. \A u \in Threads, k \in Ids : u # t => /\ Owns(u, k)' = Owns(u, k)
                                             /\ Filling(u, k)' = Filling(u, k)
  BY <1>1 DEF Owns, Inserting, Filling
<1>6. \A k \in Ids : k # j => Complete(k)' = Complete(k) /\ chunks'[k] = chunks[k]
  BY <1>1 DEF Complete
<1>7. \A u \in Threads, k \in Ids : Owns(u, k)' =>
        Owns(u, k) /\ call'[u].sub = call[u].sub
  <2>1. ASSUME NEW u \in Threads, NEW k \in Ids, Owns(u, k)'
        PROVE  Owns(u, k) /\ call'[u].sub = call[u].sub
    <3>1. CASE u = t
      <4>1. k = j /\ j \notin torn
        BY <1>3, <2>1, <3>1 DEF Owns
      <4>2. QED  BY <1>1, <1>3, <2>1, <3>1, <4>1 DEF Owns, Inserting
    <3>2. CASE u # t
      BY <1>1, <1>5, <2>1, <3>2
    <3>3. QED  BY <3>1, <3>2
  <2>2. QED  BY <2>1
<1>8. \A k \in Ids : Exists(k)' = Exists(k)
  BY <1>1 DEF Exists
<1>9. NoStrays'
  <2>1. Exists(j) \/ chunks' = chunks
    BY Zenon DEF InsertChunks
  <2>2. QED  BY <1>6, <1>8, <2>1 DEF Insertion, NoStrays
<1>10. OwnersAgree' /\ OneOwner' /\ MainKeepsOpen'
  BY <1>1, <1>7, <1>8 DEF Insertion, OwnersAgree, OneOwner, MainKeepsOpen, Threads
<1>11. Routed'
  BY <1>1, <1>2 DEF Insertion, Routed, Route
<1>12. \A u \in Threads, k \in Ids : k # j /\ Filling(u, k) => Filling(u, k)'
  BY <1>3, <1>5 DEF Filling
<1>13. \A u \in Threads, k \in Ids : k # j /\ Filling(u, k)' => Filling(u, k)
  BY <1>3, <1>5 DEF Filling
<1>14. CASE chunks'[j] = chunks[j] \o d /\ (call'[t] # None => call'[t].step = "mark")
  <2>1. j \notin torn => chunks'[j] = FreshChunks(n)
    <3> SUFFICES ASSUME j \notin torn PROVE chunks'[j] = FreshChunks(n)
      OBVIOUS
    <3>1. n \in Nat /\ chunks[j] = <<>>
      BY <1>4
    <3>2. <<>> \o FreshChunks(n) = FreshChunks(n)
      BY <3>1, FreshIsNew
    <3>3. QED  BY Zenon, <1>14, <3>1, <3>2
  <2>2. j \notin torn => Complete(j)'
    BY <1>1, <1>4, <2>1 DEF Complete, FreshChunks
  <2>3. \A u \in Threads : ~Filling(u, j)'
    <3>1. \A u \in Threads : u # t => ~Filling(u, j)'
      <4>1. \A u \in Threads : u # t => ~Owns(u, j)'
        BY Zenon, <1>1, <1>3, <1>5
      <4>2. QED  BY Zenon, <4>1 DEF Filling
    <3>2. ~Filling(t, j)'
      BY Zenon, <1>14 DEF Filling, Owns, Inserting
    <3>3. QED  BY <3>1, <3>2
  <2>4. FillersFindNone' /\ FilledOrComplete'
    BY <1>6, <1>8, <1>12, <1>13, <2>2, <2>3 DEF Insertion, FillersFindNone, FilledOrComplete
  <2>5. QED  BY <1>9, <1>10, <1>11, <2>4 DEF Insertion
<1>15. CASE /\ chunks' = chunks
            /\ call'[t] # None /\ call'[t].sub = call[t].sub /\ call'[t].step = "undo"
  <2>1. j \notin torn => Filling(t, j)'
    BY <1>15 DEF Filling, Owns, Inserting
  <2>2. \A u \in Threads : Filling(u, j)' => chunks[j] = <<>>
    BY <1>4 DEF Filling, Owns
  <2>3. FillersFindNone' /\ FilledOrComplete'
    BY <1>6, <1>8, <1>12, <1>13, <1>15, <2>1, <2>2 DEF Insertion, FillersFindNone, FilledOrComplete
  <2>4. QED  BY <1>9, <1>10, <1>11, <2>3 DEF Insertion
<1>16. QED  BY Zenon, <1>0, <1>14, <1>15

LEMMA InsertionStarts == Init => Insertion
<1> SUFFICES ASSUME Init PROVE Insertion
  OBVIOUS
<1>1. \A j \in Ids : ~Exists(j) /\ chunks[j] = <<>>
  BY DEF Init, Exists
<1>2. \A t \in Threads : call[t] = None
  BY DEF Init
<1>3. \A t \in Threads, j \in Ids : ~Owns(t, j) /\ ~Filling(t, j)
  BY <1>2 DEF Owns, Inserting, Filling
<1>4. Routed
  BY <1>2 DEF Init, Routed
<1>5. QED  BY <1>1, <1>3, <1>4 DEF Insertion, NoStrays, OwnersAgree, FillersFindNone, OneOwner,
                                   FilledOrComplete, MainKeepsOpen, Threads

LEMMA InsertionNext == ASSUME TypeOK, Insertion, [Next]_vars PROVE Insertion'
<1>1. CASE Order \/ Submit \/ Resubmit \/ Dispatch
  BY <1>1, OrderKeepsJobs, SubmitKeepsJobs, ResubmitKeepsJobs, DispatchKeepsJobs, InsertionKept
<1>2. CASE Insert
  BY <1>2, InsertJobKeepsInsertion, InsertChunksKeepsInsertion, UndoKeepsInsertion,
     MarkKeepsInsertion DEF Insert
<1>3. CASE CleanUp
  BY <1>3, CleanUpKeepsInsertion
<1>4. CASE UNCHANGED vars
  <2>1. jobs' = jobs /\ chunks' = chunks /\ call' = call /\ queue' = queue /\ torn' = torn
    BY <1>4 DEF vars, storeVars, inputVars
  <2>2. QED  BY <2>1, SameRows, RowsKept, InsertionKept DEF KeepsJobs, Insertion, Routed
<1>5. QED  BY <1>1, <1>2, <1>3, <1>4 DEF Next

LEMMA InsertionAlways == Spec => [](TypeOK /\ Insertion)
<1>1. Init => TypeOK /\ Insertion
  BY TypedInit, InsertionStarts
<1>2. TypeOK /\ Insertion /\ [Next]_vars => (TypeOK /\ Insertion)'
  BY TypedNext, InsertionNext
<1>3. QED  BY <1>1, <1>2, PTL DEF Spec

\* However submissions and resubmissions of any number of threads compete for
\* ids, a job has exactly the chunks of the submission that made its row, or
\* none while the thread that made it is between its two inserts - unless it
\* was deleted in the middle of them.
THEOREM JobsHaveTheirChunks == Spec => []ChunksMatchTheRow
<1>1. ASSUME Insertion PROVE ChunksMatchTheRow
  <2>1. ASSUME NEW j \in Existing \ torn, Complete(j)
        PROVE  [i \in DOMAIN chunks[j] |-> chunks[j][i].at] = [i \in 1 .. jobs[j].grid |-> i]
    BY <2>1 DEF Complete
  <2>2. ASSUME NEW j \in Existing \ torn, NEW t \in Threads, Filling(t, j)
        PROVE  /\ chunks[j] = <<>> /\ call[t].sub.id = j
               /\ InStep(t, "chunks") \/ InStep(t, "undo")
    <3>1. chunks[j] = <<>>
      BY <1>1, <2>2 DEF Insertion, FillersFindNone, Existing
    <3>2. QED  BY <2>2, <3>1 DEF Filling, Owns, Inserting, InStep
  <2>3. \A j \in Existing \ torn : Complete(j) \/ \E t \in Threads : Filling(t, j)
    BY <1>1 DEF Insertion, FilledOrComplete, Existing
  <2>4. QED  BY Zenon, <2>1, <2>2, <2>3 DEF ChunksMatchTheRow
<1>2. QED  BY <1>1, InsertionAlways, PTL

-----------------------------------------------------------------------------
(* Closing a job. *)

\* A job of the main thread is completed with its chunks.
Closed == \A j \in Ids \ torn : Exists(j) /\ jobs[j].route = "main" /\ jobs[j].state = "completed" =>
            \A i \in DOMAIN chunks[j] : chunks[j][i].state = "completed"

\* Rows of the main thread that are completed were before, and their chunks
\* are as they were or completed since.
KeepsClosed ==
    \A j \in Ids \ torn : Exists(j)' /\ jobs'[j].route = "main" /\ jobs'[j].state = "completed" =>
      \/ /\ Exists(j) /\ jobs[j].route = "main" /\ jobs[j].state = "completed"
         /\ DOMAIN chunks'[j] = DOMAIN chunks[j]
         /\ \A i \in DOMAIN chunks[j] : chunks[j][i].state = "completed" =>
                                          chunks'[j][i].state = "completed"
      \/ \A i \in DOMAIN chunks'[j] : chunks'[j][i].state = "completed"

LEMMA ClosedKept == ASSUME Closed, KeepsClosed, torn \subseteq torn' PROVE Closed'
BY DEF Closed, KeepsClosed

\* Nobody inserts a completed job of the main thread.
LEMMA ClosedIsNotOwned ==
    ASSUME Insertion, NEW j \in Ids, Exists(j), jobs[j].route = "main",
           jobs[j].state = "completed" \/ Idle(Main)
    PROVE  \A t \in Threads : ~Owns(t, j)
<1>1. ASSUME NEW t \in Threads, Owns(t, j) PROVE FALSE
  <2>1. call[t].sub.route = Route(t) /\ jobs[j].route = call[t].sub.route
    BY <1>1 DEF Insertion, Routed, OwnersAgree, Owns, Inserting
  <2>2. t = Main
    BY <2>1 DEF Route
  <2>3. jobs[j].state # "completed" /\ ~Idle(Main)
    BY <1>1, <2>2 DEF Insertion, MainKeepsOpen, Owns, Inserting, Idle
  <2>4. QED  BY <2>3
<1>2. QED  BY <1>1

LEMMA UnchangedRowsKeepClosed ==
    ASSUME jobs' = jobs, chunks' = chunks
    PROVE  KeepsClosed
BY DEF KeepsClosed, Exists

LEMMA InsertKeepsClosed == ASSUME TypeOK, Insertion, Insert PROVE KeepsClosed
<1>1. ASSUME NEW t \in Threads, InsertJob(t) PROVE KeepsClosed
  <2> PICK j : j = call[t].sub.id
    OBVIOUS
  <2>1. /\ chunks' = chunks /\ \A k \in Ids : k # j => jobs'[k] = jobs[k]
        /\ jobs' = jobs \/ jobs'[j] = NewRow(call[t].sub)
    BY <1>1, InsertJobStep
  <2>2. NewRow(call[t].sub).state = "active"
    BY DEF NewRow
  <2>3. QED  BY <2>1, <2>2 DEF KeepsClosed, Exists
<1>2. ASSUME NEW t \in Threads, InsertChunks(t) PROVE KeepsClosed
  <2> PICK j : j = call[t].sub.id
    OBVIOUS
  <2>1. ChunksEffect(t, j)
    BY <1>2, InsertChunksStep
  <2>2. /\ jobs' = jobs /\ \A k \in Ids : k # j => chunks'[k] = chunks[k]
        /\ j \in Ids /\ Inserting(t, j)
    BY Zenon, <2>1 DEF ChunksEffect, Inserting
  <2>3. j \notin torn => ~(Exists(j) /\ jobs[j].route = "main" /\ jobs[j].state = "completed")
    BY <2>2, ClosedIsNotOwned DEF Owns
  <2>4. QED  BY <2>2, <2>3 DEF KeepsClosed, Exists
<1>3. ASSUME NEW t \in Threads, UndoJob(t) PROVE KeepsClosed
  <2> PICK j : j = call[t].sub.id
    OBVIOUS
  <2>1. jobs'[j] = None /\ \A k \in Ids : k # j => jobs'[k] = jobs[k] /\ chunks'[k] = chunks[k]
    BY <1>3, UndoStep
  <2>2. QED  BY <2>1 DEF KeepsClosed, Exists
<1>4. ASSUME NEW t \in Threads, MarkCompleted(t) PROVE KeepsClosed
  <2> PICK j : j = call[t].sub.id
    OBVIOUS
  <2>1. MarkEffect(t, j)
    BY <1>4, MarkStep
  <2>2. /\ \A k \in Ids : k # j => chunks'[k] = chunks[k]
        /\ DOMAIN chunks'[j] = DOMAIN chunks[j]
        /\ \A i \in DOMAIN chunks[j] : chunks'[j][i].state \in {chunks[j][i].state, "completed"}
    BY Zenon, <2>1 DEF MarkEffect
  <2>3. jobs' = jobs
    BY Zenon, <1>4 DEF MarkCompleted
  <2>4. \A i \in DOMAIN chunks[j] : chunks[j][i].state = "completed" =>
                                      chunks'[j][i].state = "completed"
    BY <2>2
  <2>5. QED  BY <2>2, <2>3, <2>4 DEF KeepsClosed, Exists
<1>5. QED  BY <1>1, <1>2, <1>3, <1>4 DEF Insert

LEMMA DispatchKeepsClosed == ASSUME TypeOK, Insertion, Dispatch PROVE KeepsClosed
<1>1. CASE TakeSubmission \/ WriteLog
  BY <1>1, UnchangedRowsKeepClosed DEF TakeSubmission, WriteLog, storeVars
<1>2. ASSUME NEW j \in Ids, CloseJob(j) PROVE KeepsClosed
  <2>1. /\ Exists(j) /\ jobs' = [jobs EXCEPT ![j].state = "completed"] /\ chunks' = chunks
        /\ \A i \in DOMAIN chunks[j] : chunks[j][i].state = "completed"
    BY <1>2 DEF CloseJob
  <2>2. \A k \in Ids : k # j => jobs'[k] = jobs[k]
    BY <2>1, SetStateStep
  <2>3. QED  BY <2>1, <2>2 DEF KeepsClosed, Exists
<1>3. ASSUME NEW j \in Ids, AssignWork(j) PROVE KeepsClosed
  <2>1. PICK i \in Pending(j) : SetChunk(j, i, "assigned")
    BY Zenon, <1>3 DEF AssignWork
  <2>2. jobs' = jobs /\ jobs[j].state = "active"
    BY Zenon, <1>3 DEF AssignWork, Dispatchable
  <2>3. i \in DOMAIN chunks[j]
    BY DEF Pending
  <2>4. \A k \in Ids : k # j => chunks'[k] = chunks[k]
    BY Zenon, <2>1, <2>3, SetChunkType
  <2>5. QED  BY <2>2, <2>4 DEF KeepsClosed, Exists
<1>4. CASE FinishChunk
  <2>1. jobs' = jobs
    BY <1>4 DEF FinishChunk
  <2>2. CASE chunks' = chunks
    BY <2>1, <2>2, UnchangedRowsKeepClosed
  <2>3. CASE chunks' # chunks
    <3>1. PICK j \in Ids, i \in Nat : i \in DOMAIN chunks[j] /\ SetChunk(j, i, "completed")
      BY <1>4, <2>3, FinishStep
    <3>2. /\ \A k \in Ids : k # j => chunks'[k] = chunks[k]
          /\ DOMAIN chunks'[j] = DOMAIN chunks[j]
          /\ chunks'[j][i].state = "completed"
      BY Zenon, <3>1, SetChunkType
    <3>3. \A x \in DOMAIN chunks[j] : x # i => chunks'[j][x] = chunks[j][x]
      BY Zenon, <3>1, SetChunkType
    <3>4. QED  BY <2>1, <3>2, <3>3 DEF KeepsClosed, Exists
  <2>4. QED  BY <2>2, <2>3
<1>5. QED  BY <1>1, <1>2, <1>3, <1>4 DEF Dispatch

LEMMA ClosedNext == ASSUME TypeOK, Insertion, Closed, [Next]_vars PROVE Closed'
<1> torn \subseteq torn'
  BY TornGrows
<1>1. CASE Order
  <2>1. /\ KeepsRows /\ \A k \in Existing : jobs'[k].state = jobs[k].state
        /\ chunks' = chunks
    <3>1. ASSUME NEW j \in Ids, NEW t \in Ids, NEW before \in BOOLEAN, MoveJob(j, t, before)
          PROVE  <2>1!:
      <4>1. chunks' = chunks
        BY Zenon, <3>1 DEF MoveJob
      <4>2. QED  BY <3>1, <4>1, MoveStep
    <3>2. ASSUME NEW j \in Ids, NEW p \in Priorities, SetJobPriority(j, p) PROVE <2>1!:
      <4>1. chunks' = chunks
        BY <3>2 DEF SetJobPriority
      <4>2. QED  BY <3>2, <4>1, SetPriorityStep
    <3>3. QED  BY <1>1, <3>1, <3>2 DEF Order
  <2>2. KeepsClosed
    BY <2>1 DEF KeepsClosed, KeepsRows, Existing, Exists
  <2>3. QED  BY <2>2, ClosedKept
<1>2. CASE Submit
  <2>1. jobs' = jobs /\ chunks' = chunks
    BY <1>2 DEF Submit, SubmitForm, DropFile, WatchOnLeader, WatchElsewhere, storeVars
  <2>2. QED  BY <2>1, UnchangedRowsKeepClosed, ClosedKept
<1>3. CASE Resubmit
  <2>1. jobs' = jobs /\ chunks' = chunks
    <3>1. ASSUME NEW t \in Threads, ChooseVersion(t) PROVE jobs' = jobs /\ chunks' = chunks
      BY Zenon, <3>1 DEF ChooseVersion, storeVars
    <3>2. QED  BY <1>3, <3>1 DEF Resubmit, BeginResubmit, storeVars
  <2>2. QED  BY <2>1, UnchangedRowsKeepClosed, ClosedKept
<1>4. CASE Insert
  BY <1>4, InsertKeepsClosed, ClosedKept
<1>5. CASE Dispatch
  BY <1>5, DispatchKeepsClosed, ClosedKept
<1>6. CASE CleanUp
  <2>1. ASSUME NEW j \in Ids, DeleteJob(j) PROVE KeepsClosed
    <3>1. jobs'[j] = None /\ \A k \in Ids : k # j => jobs'[k] = jobs[k] /\ chunks'[k] = chunks[k]
      BY <2>1, DropRowType DEF DeleteJob
    <3>2. QED  BY <3>1 DEF KeepsClosed, Exists
  <2>2. ASSUME NEW j \in Ids, ArchiveJob(j) PROVE KeepsClosed
    <3>1. /\ Exists(j) /\ jobs' = [jobs EXCEPT ![j].state = "archived"] /\ chunks' = chunks
      BY <2>2 DEF ArchiveJob
    <3>2. jobs'[j].state = "archived" /\ \A k \in Ids : k # j => jobs'[k] = jobs[k]
      BY <3>1, SetStateStep
    <3>3. QED  BY <3>1, <3>2 DEF KeepsClosed, Exists
  <2>3. CASE DeleteDirs \/ \E onLeader \in BOOLEAN : ScanCleanup(onLeader)
    <3>1. jobs' = jobs /\ chunks' = chunks
      BY <2>3 DEF DeleteDirs, ScanCleanup, storeVars
    <3>2. QED  BY <3>1, UnchangedRowsKeepClosed, ClosedKept
  <2>4. QED  BY <1>6, <2>1, <2>2, <2>3, ClosedKept DEF CleanUp
<1>7. CASE UNCHANGED vars
  BY <1>7, UnchangedRowsKeepClosed, ClosedKept DEF vars, storeVars
<1>8. QED  BY <1>1, <1>2, <1>3, <1>4, <1>5, <1>6, <1>7 DEF Next

\* A job of the main thread that checkJobCompletions has closed has every
\* frame of its range rendered, and no later step takes one back.
THEOREM JobsCloseWhenDone == Spec => []QueuedJobsCloseDone
<1>1. Init => Closed
  BY DEF Init, Closed, Exists
<1>2. TypeOK /\ Insertion /\ Closed /\ [Next]_vars => Closed'
  BY ClosedNext
<1>3. TypeOK /\ Insertion /\ Closed => QueuedJobsCloseDone
  <2> SUFFICES ASSUME TypeOK, Insertion, Closed, NEW j \in Existing \ torn,
                      jobs[j].route = "main", jobs[j].state = "completed"
               PROVE  DoneChunks(j) = 1 .. jobs[j].grid
    BY DEF QueuedJobsCloseDone
  <2>1. j \in Ids /\ Exists(j)
    BY DEF Existing
  <2>2. \A t \in Threads : ~Filling(t, j)
    BY <2>1, ClosedIsNotOwned DEF Filling
  <2>3. Complete(j)
    BY <2>1, <2>2 DEF Insertion, FilledOrComplete
  <2>4. \A i \in DOMAIN chunks[j] : chunks[j][i].state = "completed"
    BY <2>1 DEF Closed
  <2>5. QED  BY <2>3, <2>4 DEF Complete, DoneChunks
<1>4. QED  BY <1>1, <1>2, <1>3, InsertionAlways, PTL DEF Spec

-----------------------------------------------------------------------------
(* The order of the list. *)

LEMMA OrderTypes ==
    ASSUME TypeOK, NEW k \in Existing
    PROVE  k \in Ids /\ jobs[k].prio \in Nat /\ jobs[k].key \in Nat /\ jobs[k].at \in Nat
<1>1. jobs[k] \in JobRow
  BY DEF Existing, Exists, TypeOK
<1>2. QED  BY <1>1, JobQueueAssumption DEF Existing, JobRow

\* Two jobs of a group are listed in their order.
LEMMA ListedInOrder ==
    ASSUME TypeOK, NEW S \in SUBSET Existing, NEW s \in Listings(S), NEW j \in S, NEW k \in S,
           Index(s, j) \in 1 .. Len(s), s[Index(s, j)] = j,
           Index(s, k) \in 1 .. Len(s), s[Index(s, k)] = k, InGroupBefore(jobs, j, k)
    PROVE  Index(s, j) < Index(s, k)
<1>1. S \in SUBSET Ids
  BY DEF Existing
<1>2. /\ s \in Seq(S)
      /\ \A i, n \in DOMAIN s : i < n => ~InGroupBefore(jobs, s[n], s[i])
  BY <1>1, ListingIs
<1>3. DOMAIN s = 1 .. Len(s) /\ Len(s) \in Nat
  BY <1>2
<1>4. ~(Index(s, k) < Index(s, j))
  BY <1>2, <1>3
<1>5. Index(s, k) # Index(s, j)
  <2>1. ~InGroupBefore(jobs, j, j)
    BY OrderTypes DEF InGroupBefore
  <2>2. QED  BY <2>1
<1>6. QED  BY <1>3, <1>4, <1>5

\* Whoever is not moved keeps its place among the others.
LEMMA MoveKeepsOrder ==
    ASSUME TypeOK, NEW m \in Ids, NEW t \in Ids, NEW before \in BOOLEAN, MoveJob(m, t, before),
           NEW j \in Existing, NEW k \in Existing, j # m, k # m, Before(jobs, j, k)
    PROVE  Before(jobs', j, k)
<1>1. /\ KeepsRows
      /\ \A x \in Existing : jobs'[x].prio = IF x = m THEN jobs[t].prio ELSE jobs[x].prio
  BY MoveStep
<1>2. PICK s \in Listings(Group(m, t)) : Renumbered(m, t, before, s)
  BY MoveStep
<1>3. PICK p : p = Place(s, t, before)
  OBVIOUS
<1>4. /\ p \in 1 .. Len(s) + 1
      /\ \A x \in Group(m, t) :
           /\ Index(s, x) \in 1 .. Len(s) /\ s[Index(s, x)] = x
           /\ jobs'[x].key = IF Index(s, x) < p THEN Index(s, x) ELSE Index(s, x) + 1
      /\ \A x \in Existing : x \notin Group(m, t) /\ x # m => jobs'[x].key = jobs[x].key
  BY <1>2, <1>3 DEF Renumbered
<1>5. /\ jobs'[j].prio = jobs[j].prio /\ jobs'[k].prio = jobs[k].prio
      /\ jobs'[j].at = jobs[j].at /\ jobs'[k].at = jobs[k].at
  BY <1>1 DEF KeepsRows, Existing, Exists
<1>6. CASE jobs[j].prio < jobs[k].prio
  BY <1>5, <1>6 DEF Before
<1>7. CASE ~(jobs[j].prio < jobs[k].prio)
  <2>1. jobs[j].prio = jobs[k].prio /\ InGroupBefore(jobs, j, k)
    BY <1>7 DEF Before
  <2>2. CASE j \in Group(m, t)
    <3>1. k \in Group(m, t)
      BY <2>1, <2>2 DEF Group
    <3>2. Group(m, t) \in SUBSET Existing
      BY DEF Group
    <3>3. Index(s, j) < Index(s, k)
      BY <1>4, <2>1, <2>2, <3>1, <3>2, ListedInOrder
    <3>4. jobs'[j].key < jobs'[k].key
      <4>1. PICK a : a = Index(s, j)
        OBVIOUS
      <4>2. PICK b : b = Index(s, k)
        OBVIOUS
      <4>3. /\ jobs'[j].key = IF a < p THEN a ELSE a + 1
            /\ jobs'[k].key = IF b < p THEN b ELSE b + 1
        BY <1>4, <2>2, <3>1, <4>1, <4>2
      <4>4. a \in Int /\ b \in Int /\ p \in Int /\ a < b
        BY <1>4, <2>2, <3>1, <3>3, <4>1, <4>2
      <4>5. QED  BY ONLY <4>3, <4>4
    <3>5. QED  BY <1>5, <2>1, <3>4 DEF Before, InGroupBefore
  <2>3. CASE j \notin Group(m, t)
    <3>1. k \notin Group(m, t)
      BY <2>1, <2>3 DEF Group
    <3>2. jobs'[j].key = jobs[j].key /\ jobs'[k].key = jobs[k].key
      BY <1>4, <2>3, <3>1
    <3>3. QED  BY <1>5, <2>1, <3>2 DEF Before, InGroupBefore
  <2>4. QED  BY <2>2, <2>3
<1>8. QED  BY <1>6, <1>7

\* A step that is no move keeps all jobs in order but the one it names.
LEMMA OthersKeepOrder ==
    ASSUME TypeOK, NEW j \in Existing, NEW k \in Existing, Before(jobs, j, k),
           jobs'[j].prio = jobs[j].prio /\ jobs'[j].key = jobs[j].key /\ jobs'[j].at = jobs[j].at,
           jobs'[k].prio = jobs[k].prio /\ jobs'[k].key = jobs[k].key /\ jobs'[k].at = jobs[k].at
    PROVE  Before(jobs', j, k)
BY DEF Before, InGroupBefore

\* Rows that outlive a step keep what the list is ordered by.
KeepsPlaces ==
    \A j \in Existing : jobs'[j] # None =>
      jobs'[j].prio = jobs[j].prio /\ jobs'[j].key = jobs[j].key /\ jobs'[j].at = jobs[j].at

LEMMA SetStateKeepsPlaces ==
    ASSUME TypeOK, NEW j \in Ids, Exists(j), NEW x \in {"completed", "archived"},
           jobs' = [jobs EXCEPT ![j].state = x]
    PROVE  KeepsPlaces
<1>1. /\ KeepsRows /\ \A k \in Ids : k # j => jobs'[k] = jobs[k]
      /\ jobs'[j].prio = jobs[j].prio /\ jobs'[j].key = jobs[j].key
  BY SetStateStep
<1>2. jobs'[j].at = jobs[j].at
  BY <1>1 DEF KeepsRows, Exists
<1>3. QED  BY <1>1, <1>2 DEF KeepsPlaces, Existing

LEMMA DropKeepsPlaces ==
    ASSUME TypeOK, NEW j \in Ids, DropRow(j)
    PROVE  KeepsPlaces
<1>1. jobs'[j] = None /\ \A k \in Ids : k # j => jobs'[k] = jobs[k]
  BY DropRowType
<1>2. QED  BY <1>1 DEF KeepsPlaces, Existing

LEMMA PlacesKept ==
    ASSUME TypeOK, Submit \/ Resubmit \/ Insert \/ Dispatch \/ CleanUp
    PROVE  KeepsPlaces
<1>0. jobs' = jobs => KeepsPlaces
  BY DEF KeepsPlaces
<1>1. CASE Submit
  BY <1>0, <1>1 DEF Submit, SubmitForm, DropFile, WatchOnLeader, WatchElsewhere, storeVars
<1>2. CASE Resubmit
  <2>1. ASSUME NEW t \in Threads, ChooseVersion(t) PROVE jobs' = jobs
    BY Zenon, <2>1 DEF ChooseVersion, storeVars
  <2>2. QED  BY <1>0, <1>2, <2>1 DEF Resubmit, BeginResubmit, storeVars
<1>3. CASE Insert
  <2>1. ASSUME NEW t \in Threads, InsertJob(t) PROVE KeepsPlaces
    <3> PICK j : j = call[t].sub.id
      OBVIOUS
    <3>1. /\ \A k \in Ids : k # j => jobs'[k] = jobs[k]
          /\ jobs' = jobs \/ jobs[j] = None
      BY <2>1, InsertJobStep
    <3>2. QED  BY <1>0, <3>1 DEF KeepsPlaces, Existing, Exists
  <2>2. ASSUME NEW t \in Threads, UndoJob(t) PROVE KeepsPlaces
    <3>1. call[t].sub.id \in Ids /\ DropRow(call[t].sub.id)
      BY <2>2 DEF UndoJob, InStep, TypeOK, Call, Submission
    <3>2. QED  BY <3>1, DropKeepsPlaces
  <2>3. ASSUME NEW t \in Threads, InsertChunks(t) \/ MarkCompleted(t) PROVE KeepsPlaces
    <3>1. jobs' = jobs
      BY Zenon, <2>3 DEF InsertChunks, MarkCompleted
    <3>2. QED  BY <1>0, <3>1
  <2>4. QED  BY <1>3, <2>1, <2>2, <2>3 DEF Insert
<1>4. CASE Dispatch
  <2>1. ASSUME NEW j \in Ids, CloseJob(j) PROVE KeepsPlaces
    BY <2>1, SetStateKeepsPlaces DEF CloseJob
  <2>2. ASSUME NEW j \in Ids, AssignWork(j) PROVE jobs' = jobs
    BY Zenon, <2>2 DEF AssignWork
  <2>3. TakeSubmission \/ WriteLog \/ FinishChunk => jobs' = jobs
    BY DEF TakeSubmission, WriteLog, FinishChunk, storeVars
  <2>4. QED  BY <1>0, <1>4, <2>1, <2>2, <2>3 DEF Dispatch
<1>5. CASE CleanUp
  <2>1. ASSUME NEW j \in Ids, DeleteJob(j) PROVE KeepsPlaces
    BY <2>1, DropKeepsPlaces DEF DeleteJob
  <2>2. ASSUME NEW j \in Ids, ArchiveJob(j) PROVE KeepsPlaces
    BY <2>2, SetStateKeepsPlaces DEF ArchiveJob
  <2>3. (DeleteDirs \/ \E onLeader \in BOOLEAN : ScanCleanup(onLeader)) => jobs' = jobs
    BY DEF DeleteDirs, ScanCleanup, storeVars
  <2>4. QED  BY <1>0, <1>5, <2>1, <2>2, <2>3 DEF CleanUp
<1>6. QED  BY <1>1, <1>2, <1>3, <1>4, <1>5

\* Renumbering a group moves nobody but the job that was dragged, and no
\* other statement of the leader reorders the list.
THEOREM OnlyHandsReorder == Spec => OrderChangesOnlyByHand
<1> DEFINE Ordered == jobs' # jobs =>
             \A j, k \in Existing :
               jobs'[j] # None /\ jobs'[k] # None /\ Before(jobs, j, k) =>
                 Before(jobs', j, k) \/ (hand' # None /\ hand'[1] \in {j, k})
<1>1. ASSUME TypeOK, Next PROVE Ordered
  <2> SUFFICES ASSUME NEW j \in Existing, NEW k \in Existing,
                      jobs'[j] # None, jobs'[k] # None, Before(jobs, j, k)
               PROVE  Before(jobs', j, k) \/ (hand' # None /\ hand'[1] \in {j, k})
    OBVIOUS
  <2>1. ASSUME NEW m \in Ids, NEW t \in Ids, NEW before \in BOOLEAN, MoveJob(m, t, before)
        PROVE  Before(jobs', j, k) \/ (hand' # None /\ hand'[1] \in {j, k})
    <3>1. hand' = <<m, t, before>>
      BY Zenon, <2>1 DEF MoveJob
    <3>2. hand' \in Gesture /\ hand'[1] = m
      BY <3>1 DEF Gesture
    <3>3. hand' # None
      BY <3>2, AbsenceAssumption
    <3>4. CASE m \in {j, k}
      BY <3>2, <3>3, <3>4
    <3>5. CASE m \notin {j, k}
      <4>1. j # m /\ k # m
        BY <3>5
      <4>2. Before(jobs', j, k)
        BY Zenon, <1>1, <2>1, <4>1, MoveKeepsOrder
      <4>3. QED  BY <4>2
    <3>6. QED  BY <3>4, <3>5
  <2>2. ASSUME NEW m \in Ids, NEW p \in Priorities, SetJobPriority(m, p)
        PROVE  Before(jobs', j, k) \/ (hand' # None /\ hand'[1] \in {j, k})
    <3>1. hand' = <<m, None, FALSE>>
      BY <2>2 DEF SetJobPriority
    <3>2. hand' \in Gesture /\ hand'[1] = m
      BY <3>1 DEF Gesture
    <3>3. hand' # None
      BY <3>2, AbsenceAssumption
    <3>4. \A x \in Ids : x # m => jobs'[x] = jobs[x]
      BY <1>1, <2>2, SetPriorityStep
    <3>5. CASE m \in {j, k}
      BY <3>2, <3>3, <3>5
    <3>6. CASE m \notin {j, k}
      <4>1. jobs'[j] = jobs[j] /\ jobs'[k] = jobs[k]
        BY <3>4, <3>6 DEF Existing
      <4>2. Before(jobs', j, k)
        BY <1>1, <4>1, OthersKeepOrder
      <4>3. QED  BY <4>2
    <3>7. QED  BY <3>5, <3>6
  <2>3. CASE Submit \/ Resubmit \/ Insert \/ Dispatch \/ CleanUp
    <3>1. KeepsPlaces
      BY <1>1, <2>3, PlacesKept
    <3>2. /\ jobs'[j].prio = jobs[j].prio /\ jobs'[j].key = jobs[j].key /\ jobs'[j].at = jobs[j].at
          /\ jobs'[k].prio = jobs[k].prio /\ jobs'[k].key = jobs[k].key /\ jobs'[k].at = jobs[k].at
      BY <3>1 DEF KeepsPlaces
    <3>3. Before(jobs', j, k)
      BY <1>1, <3>2, OthersKeepOrder
    <3>4. QED  BY <3>3
  <2>4. QED  BY <1>1, <2>1, <2>2, <2>3 DEF Next, Order
<1>2. TypeOK /\ [Next]_vars => [Ordered]_vars
  BY <1>1
<1>3. QED  BY <1>2, TypeCorrect, PTL DEF Spec, OrderChangesOnlyByHand

\* The keys of the moved job, of its target and of any other job of the group.
LEMMA MovedKeys ==
    ASSUME TypeOK, NEW j \in Ids, NEW t \in Ids, NEW before \in BOOLEAN, MoveJob(j, t, before)
    PROVE  \E i \in Nat :
             /\ jobs'[j].key = IF before THEN i ELSE i + 1
             /\ jobs'[t].key = IF before THEN i + 1 ELSE i
             /\ \A k \in Existing \ {j, t} : jobs[k].prio = jobs[t].prio =>
                  \E x \in Nat : x # i /\ jobs'[k].key = IF x < i THEN x ELSE x + 1
<1>1. j # t /\ j \in Existing /\ t \in Existing
  BY Zenon DEF MoveJob, Existing
<1>2. PICK s \in Listings(Group(j, t)) : Renumbered(j, t, before, s)
  BY MoveStep
<1>3. PICK p : p = Place(s, t, before)
  OBVIOUS
<1>4. /\ p \in 1 .. Len(s) + 1 /\ jobs'[j].key = p
      /\ \A x \in Group(j, t) :
           /\ Index(s, x) \in 1 .. Len(s) /\ s[Index(s, x)] = x
           /\ jobs'[x].key = IF Index(s, x) < p THEN Index(s, x) ELSE Index(s, x) + 1
  BY <1>2, <1>3 DEF Renumbered
<1>5. t \in Group(j, t)
  BY <1>1 DEF Group
<1>6. PICK i : i = Index(s, t)
  OBVIOUS
<1>7. i \in Nat /\ i >= 1 /\ s[i] = t /\ p = IF before THEN i ELSE i + 1
  BY <1>3, <1>4, <1>5, <1>6 DEF Place
<1>8. jobs'[t].key = IF before THEN i + 1 ELSE i
  <2>1. jobs'[t].key = IF i < p THEN i ELSE i + 1
    BY <1>4, <1>5, <1>6
  <2>2. QED  BY <1>7, <2>1
<1>9. ASSUME NEW k \in Existing \ {j, t}, jobs[k].prio = jobs[t].prio
      PROVE  \E x \in Nat : x # i /\ jobs'[k].key = IF x < i THEN x ELSE x + 1
  <2>1. k \in Group(j, t)
    BY <1>9 DEF Group
  <2>2. PICK x : x = Index(s, k)
    OBVIOUS
  <2>3. x \in Nat /\ s[x] = k /\ jobs'[k].key = IF x < p THEN x ELSE x + 1
    BY <1>4, <2>1, <2>2
  <2>4. x # i
    BY <1>7, <2>3
  <2>5. (x < p) = (x < i)
    BY <1>7, <2>3, <2>4
  <2>6. QED  BY <2>3, <2>4, <2>5
<1>10. QED  BY <1>4, <1>7, <1>8, <1>9

\* Where the user lets a job of a group go, there it is listed.
THEOREM MovesAreExact == Spec => MoveIsExact
<1> DEFINE Exact == hand' # None /\ hand'[2] # None /\ jobs[hand'[1]].prio = jobs[hand'[2]].prio =>
             LET j == hand'[1]
                 t == hand'[2]
             IN  /\ IF hand'[3] THEN Before(jobs', j, t) ELSE Before(jobs', t, j)
                 /\ \A k \in Existing \ {j, t} : ~(Before(jobs', j, k) /\ Before(jobs', k, t))
                                              /\ ~(Before(jobs', t, k) /\ Before(jobs', k, j))
<1>1. ASSUME TypeOK, TypeOK', NEW j \in Ids, NEW t \in Ids, NEW before \in BOOLEAN,
             MoveJob(j, t, before)
      PROVE  /\ IF before THEN Before(jobs', j, t) ELSE Before(jobs', t, j)
             /\ \A k \in Existing \ {j, t} : ~(Before(jobs', j, k) /\ Before(jobs', k, t))
                                          /\ ~(Before(jobs', t, k) /\ Before(jobs', k, j))
  <2>1. j # t /\ j \in Existing /\ t \in Existing
    BY Zenon, <1>1 DEF MoveJob, Existing
  <2>2. /\ KeepsRows
        /\ \A k \in Existing : jobs'[k].prio = IF k = j THEN jobs[t].prio ELSE jobs[k].prio
    BY <1>1, MoveStep
  <2>3. PICK i \in Nat :
             /\ jobs'[j].key = IF before THEN i ELSE i + 1
             /\ jobs'[t].key = IF before THEN i + 1 ELSE i
             /\ \A k \in Existing \ {j, t} : jobs[k].prio = jobs[t].prio =>
                  \E x \in Nat : x # i /\ jobs'[k].key = IF x < i THEN x ELSE x + 1
    BY <1>1, MovedKeys
  <2>4. jobs'[j].prio = jobs'[t].prio
    BY <2>1, <2>2
  <2>5. IF before THEN Before(jobs', j, t) ELSE Before(jobs', t, j)
    BY <2>3, <2>4 DEF Before, InGroupBefore
  <2>6. \A k \in Existing : jobs'[k].prio \in Nat /\ jobs'[k].key \in Nat
    <3>1. \A k \in Existing : k \in Existing'
      BY <2>2 DEF KeepsRows, Existing, Exists
    <3>2. \A k \in Existing' : jobs'[k] \in JobRow
      BY <1>1 DEF TypeOK, Existing, Exists
    <3>3. QED  BY <3>1, <3>2, JobQueueAssumption DEF JobRow
  <2>7. ASSUME NEW k \in Existing \ {j, t}
        PROVE  /\ ~(Before(jobs', j, k) /\ Before(jobs', k, t))
               /\ ~(Before(jobs', t, k) /\ Before(jobs', k, j))
    <3>1. CASE jobs[k].prio = jobs[t].prio
      <4>1. PICK x \in Nat : x # i /\ jobs'[k].key = IF x < i THEN x ELSE x + 1
        BY <2>3, <3>1
      <4>2. jobs'[k].key < i \/ jobs'[k].key > i + 1
        BY <4>1
      <4>3. jobs'[k].prio = jobs'[t].prio /\ jobs'[k].prio \in Nat
        BY <2>1, <2>2, <2>6, <3>1
      <4>4. /\ Before(jobs', j, k) => ~(jobs'[k].key < jobs'[j].key)
            /\ Before(jobs', t, k) => ~(jobs'[k].key < jobs'[t].key)
            /\ Before(jobs', k, j) => ~(jobs'[j].key < jobs'[k].key)
            /\ Before(jobs', k, t) => ~(jobs'[t].key < jobs'[k].key)
        <5>1. /\ jobs'[j].prio = jobs'[k].prio /\ jobs'[t].prio = jobs'[k].prio
              /\ ~(jobs'[k].prio < jobs'[k].prio)
          BY <2>4, <4>3
        <5>2. \A a, b \in Nat : (a < b => ~(b < a)) /\ (a = b => ~(b < a))
          OBVIOUS
        <5>3. jobs'[j].key \in Nat /\ jobs'[k].key \in Nat /\ jobs'[t].key \in Nat
          BY <2>1, <2>6
        <5>4. QED  BY <5>1, <5>2, <5>3 DEF Before, InGroupBefore
      <4>5. QED  BY <2>3, <4>1, <4>2, <4>4
    <3>2. CASE jobs[k].prio # jobs[t].prio
      <4>1. /\ jobs'[k].prio # jobs'[t].prio /\ jobs'[k].prio \in Nat /\ jobs'[t].prio \in Nat
            /\ jobs'[j].prio = jobs'[t].prio
        BY <2>1, <2>2, <2>4, <2>6, <3>2
      <4>2. QED  BY <4>1 DEF Before
    <3>3. QED  BY <3>1, <3>2
  <2>8. QED  BY <2>5, <2>7
<1>2. ASSUME TypeOK, TypeOK', Next PROVE Exact
  <2>1. ASSUME NEW j \in Ids, NEW t \in Ids, NEW before \in BOOLEAN, MoveJob(j, t, before)
        PROVE  Exact
    <3>1. hand' = <<j, t, before>>
      BY Zenon, <2>1 DEF MoveJob
    <3>2. hand'[1] = j /\ hand'[2] = t /\ hand'[3] = before
      BY <3>1
    <3>3. /\ IF before THEN Before(jobs', j, t) ELSE Before(jobs', t, j)
          /\ \A k \in Existing \ {j, t} : ~(Before(jobs', j, k) /\ Before(jobs', k, t))
                                       /\ ~(Before(jobs', t, k) /\ Before(jobs', k, j))
      BY <1>1, <1>2, <2>1
    <3>4. QED  BY <3>2, <3>3
  <2>2. ASSUME NEW j \in Ids, NEW p \in Priorities, SetJobPriority(j, p) PROVE Exact
    <3>1. hand' = <<j, None, FALSE>>
      BY <2>2 DEF SetJobPriority
    <3>2. hand'[2] = None
      BY <3>1
    <3>3. QED  BY <3>2
  <2>3. CASE hand' = None
    BY <2>3
  <2>4. QED  BY <1>2, <2>1, <2>2, <2>3 DEF Next, Order
<1>3. TypeOK /\ TypeOK' /\ [Next]_vars => [Exact]_vars
  BY <1>2
<1>4. QED  BY <1>3, TypeCorrect, PTL DEF Spec, MoveIsExact
=============================================================================
