------------------------------ MODULE JobQueue ------------------------------
(***************************************************************************)
(* The jobs of the leader's database: how a submission becomes a row, in   *)
(* which order the rows are dispatched, how a job is resubmitted, and what *)
(* becomes of its directory on the share.                                  *)
(*                                                                         *)
(* Threads of the leader run the multi-statement calls one statement at a  *)
(* time: the main thread (submissions, job closing, assignment), and HTTP  *)
(* threads, which resubmit for other nodes.  Only the database mutex keeps *)
(* them apart, so another thread's statement may come between any two.     *)
(*                                                                         *)
(* A job id is a slug, <<name, d, v>>: d counts generateSlug's "-2", v the *)
(* "-v2" of a resubmission.  Chunks are known by their place in the range. *)
(* Edits, failed renders and epochs are Dispatch's.                        *)
(***************************************************************************)
EXTENDS Naturals, Sequences, FiniteSets, SequencesExt

CONSTANTS
    Names,        \* names of jobs, as slugs
    MaxDedup,     \* slugs generateSlug tries (99 in the code)
    MaxVersion,   \* versions a resubmission tries (999 in the code)
    Main,         \* the main thread
    Https,        \* the HTTP threads
    Priorities,
    Grids,        \* how many chunks a submitted range has; 0: it is empty
    Times,        \* the times a submitting node's clock shows
    Routes,       \* how jobs come in
    Faults,       \* what may go wrong
    MaxSubmits,   \* bound: submissions and resubmissions
    MaxEvents,    \* bound: moves and priority changes; a fault is the last event
    None

ASSUME JobQueueAssumption ==
    /\ IsFiniteSet(Names)
    /\ MaxDedup \in Nat \ {0} /\ MaxVersion \in Nat \ {0, 1}
    /\ Main \notin Https /\ None \notin Https \cup {Main}
    /\ Priorities \subseteq Nat /\ Grids \subseteq Nat /\ Times \subseteq Nat \ {0}
    /\ Routes \subseteq {"form", "file", "resubmit"}
    /\ Faults \subseteq {"database", "rename", "delete", "archive", "cleanup"}
    /\ MaxSubmits \in Nat /\ MaxEvents \in Nat

Ids     == Names \X (1 .. MaxDedup) \X (1 .. MaxVersion)
Threads == Https \cup {Main}

VARIABLES
    jobs,      \* the table jobs: a row or None for every id
    chunks,    \* the chunks of each job, in the order of their frames
    call,      \* what each thread is in the middle of
    queue,     \* m_submitQueue
    folder,    \* the submission files of the DCC plugins
    busy,      \* the chunk the farm's node renders
    dirs,      \* the directories jobs/<id> on the share
    orphans,   \* the directories a cleanup dialog lists as orphaned
    torn,      \* history: the ids deleted while a thread was inserting them
    hand,      \* history: the move or priority change just made
    submits, events

storeVars == <<jobs, chunks>>
inputVars == <<queue, folder>>
countVars == <<submits, events>>
vars      == <<storeVars, call, inputVars, busy, dirs, orphans, torn, hand, countVars>>

\* A job as it is submitted.  `route` says which thread inserts it.
Submission == [id : Ids, prio : Priorities, at : Times, grid : Grids, route : {"main", "http"}]

JobRow == [state : {"active", "completed", "archived"}, prio : Priorities,
           key : Nat, at : Times, grid : Grids, route : {"main", "http"}]

\* A call stands before its next statement.  `done` are the chunks that a
\* resubmission of the incomplete ones will mark.
Call == [step : {"choose", "job", "chunks", "undo", "mark"}, sub : Submission, done : SUBSET Nat]

File == [name : Names, prio : Priorities, grid : Grids]

Chunk == [at : Nat, state : {"pending", "assigned", "completed"}]

\* What a user has just done: the job, the one it was dropped next to, and
\* whether before it.
Gesture == Ids \X (Ids \cup {None}) \X BOOLEAN

ASSUME AbsenceAssumption == None \notin Ids \cup JobRow \cup Call \cup (Ids \X Nat) \cup Gesture

TypeOK ==
    /\ jobs \in [Ids -> JobRow \cup {None}]
    /\ chunks \in [Ids -> Seq(Chunk)]
    /\ call \in [Threads -> Call \cup {None}]
    /\ queue \in Seq(Submission)
    /\ folder \subseteq File
    /\ busy \in (Ids \X Nat) \cup {None}
    /\ dirs \subseteq Ids /\ orphans \subseteq Ids /\ torn \subseteq Ids
    /\ hand \in Gesture \cup {None}
    /\ submits \in 0 .. MaxSubmits /\ events \in 0 .. MaxEvents

Init ==
    /\ jobs = [j \in Ids |-> None] /\ chunks = [j \in Ids |-> <<>>]
    /\ call = [t \in Threads |-> None]
    /\ queue = <<>> /\ folder = {}
    /\ busy = None /\ dirs = {} /\ orphans = {}
    /\ torn = {} /\ hand = None /\ submits = 0 /\ events = 0

Idle(t)   == call[t] = None
Exists(j) == jobs[j] # None
Existing  == {j \in Ids : Exists(j)}
Event     == events < MaxEvents /\ events' = events + 1
Strike(f) == f \in Faults /\ events < MaxEvents /\ events' = MaxEvents
Submitting(route) == route \in Routes /\ submits < MaxSubmits /\ submits' = submits + 1

-----------------------------------------------------------------------------
(* The order of the jobs. *)

\* sort_key is a time in milliseconds until moveJob numbers a group 1024,
\* 2048, ...: any time is greater than any such number.
TimeKey(at) == Cardinality(Ids) + at

\* Mutant: the order before jobs could be moved.
ByTime(rows, j, k) == rows[j].at < rows[k].at

\* ORDER BY COALESCE(sort_key, submitted_at_ms), submitted_at_ms.
InGroupBefore(rows, j, k) ==
    \/ rows[j].key < rows[k].key
    \/ rows[j].key = rows[k].key /\ rows[j].at < rows[k].at

\* getAllJobs: the list the UI shows.
Before(rows, j, k) ==
    \/ rows[j].prio < rows[k].prio
    \/ rows[j].prio = rows[k].prio /\ InGroupBefore(rows, j, k)

\* The ORDER BY of findNextPendingChunkForNode.
DispatchedBefore(rows, j, k) ==
    \/ rows[j].prio < rows[k].prio
    \/ rows[j].prio = rows[k].prio /\ InGroupBefore(rows, j, k)

\* Mutant: the group is read in the order of submission.
ListingsByTime(S) ==
    {s \in [1 .. Cardinality(S) -> S] :
        /\ ToSet(s) = S
        /\ \A m, n \in DOMAIN s : m < n => ~ByTime(jobs, s[n], s[m])}

\* The results SQLite may give for a group; it breaks ties as it likes.
Listings(S) ==
    {s \in [1 .. Cardinality(S) -> S] :
        /\ ToSet(s) = S
        /\ \A m, n \in DOMAIN s : m < n => ~InGroupBefore(jobs, s[n], s[m])}

Index(s, x) == CHOOSE n \in DOMAIN s : s[n] = x

\* A job dropped next to another takes over its priority.
AdoptedPriority(j, t) == jobs[t].prio

\* Mutant: the place is that of the target in the list with the moved job.
PlaceAfterTarget(s, t, before) == IF before THEN Index(s, t) + 1 ELSE Len(s) + 1

Place(s, t, before) == IF before THEN Index(s, t) ELSE Index(s, t) + 1

Renumber(s, j, k) == IF k \in ToSet(s) THEN Index(s, k) ELSE jobs[k].key

\* moveJob: one transaction.
MoveJob(j, t, before) ==
    /\ Event /\ j # t /\ Exists(j) /\ Exists(t)
    /\ hand' = <<j, t, before>>
    /\ \E s \in Listings({k \in Existing \ {j} : jobs[k].prio = jobs[t].prio}) :
         LET ids == InsertAt(s, Place(s, t, before), j)
         IN  jobs' = [k \in Ids |->
                 IF ~Exists(k) THEN None
                 ELSE [jobs[k] EXCEPT !.key = Renumber(ids, j, k),
                                      !.prio = IF k = j THEN AdoptedPriority(j, t) ELSE @]]
    /\ UNCHANGED <<chunks, call, inputVars, busy, dirs, orphans, torn, submits>>

\* updateJobPriority, for the spinner and for every applied edit.
SetJobPriority(j, p) ==
    /\ Event /\ Exists(j)
    /\ hand' = <<j, None, FALSE>>
    /\ jobs' = [jobs EXCEPT ![j].prio = p, ![j].key = TimeKey(jobs[j].at)]
    /\ UNCHANGED <<chunks, call, inputVars, busy, dirs, orphans, torn, submits>>

-----------------------------------------------------------------------------
(* Submission: from the form or the watch folder, on the leader or on      *)
(* another node.                                                           *)

\* generateSlug: the first slug without a directory; none is left: none.
Slugs(name) ==
    LET free == {d \in 1 .. MaxDedup : <<name, d, 1>> \notin dirs}
    IN  {<<name, d, 1>> : d \in {x \in free : \A y \in free : x <= y}}

Baked(id, prio, at, grid, route) ==
    [id |-> id, prio |-> prio, at |-> at, grid |-> grid, route |-> route]

Begin(t, step, sub, done) ==
    call' = [call EXCEPT ![t] = [step |-> step, sub |-> sub, done |-> done]]

\* On the leader the job is queued; from another node it is posted, and the
\* post may be lost, find a node that does not lead, or no leader to go to.
Enqueue(sub) == queue' = Append(queue, sub) \/ UNCHANGED queue

\* validateSubmission refuses an empty range.
ValidRange(grid) == grid > 0

SubmitForm(name, prio, grid, at) ==
    /\ Submitting("form") /\ ValidRange(grid)
    /\ \E id \in Slugs(name) : Enqueue(Baked(id, prio, at, grid, "main"))
    /\ UNCHANGED <<storeVars, call, folder, busy, dirs, orphans, torn, events>>

DropFile(f) ==
    /\ Submitting("file")
    /\ folder' = folder \cup {f}
    /\ UNCHANGED <<storeVars, call, queue, busy, dirs, orphans, torn, events>>

\* The file is moved to processed/ whatever became of the submission, and
\* stays if the move fails.
Processed(f) ==
    \/ folder' = folder \ {f} /\ UNCHANGED events
    \/ UNCHANGED folder /\ Strike("rename")

\* processSubmission on the leader inserts the job at once; a file that
\* cannot be parsed, names no template or finds no slug is moved only.
WatchOnLeader(f, at) ==
    /\ Idle(Main) /\ f \in folder /\ Processed(f)
    /\ \/ \E id \in Slugs(f.name) : Begin(Main, "job", Baked(id, f.prio, at, f.grid, "main"), {})
       \/ UNCHANGED call
    /\ UNCHANGED <<storeVars, queue, busy, dirs, orphans, torn, submits>>

\* On another node the job is posted, like that of a form.
WatchElsewhere(f, at) ==
    /\ f \in folder /\ Processed(f)
    /\ \/ \E id \in Slugs(f.name) : Enqueue(Baked(id, f.prio, at, f.grid, "main"))
       \/ UNCHANGED queue
    /\ UNCHANGED <<storeVars, call, busy, dirs, orphans, torn, submits>>

\* processSubmissions, one job of the queue after the other.
TakeSubmission ==
    /\ Idle(Main) /\ queue # <<>>
    /\ queue' = Tail(queue)
    /\ Begin(Main, "job", Head(queue), {})
    /\ UNCHANGED <<storeVars, folder, busy, dirs, orphans, torn, countVars>>

-----------------------------------------------------------------------------
(* The statements of submitJob and submitJobWithChunks. *)

\* From insertJob to its return a call works on the row it has inserted.
Inserting(t, j) == /\ call[t] # None /\ call[t].sub.id = j
                   /\ call[t].step \in {"chunks", "undo", "mark"}

InStep(t, step) == call[t] # None /\ call[t].step = step
Proceed(t, step) == call' = [call EXCEPT ![t].step = step]
Return(t) == call' = [call EXCEPT ![t] = None]

NewRow(sub) == [state |-> "active", prio |-> sub.prio, key |-> TimeKey(sub.at),
                at |-> sub.at, grid |-> sub.grid, route |-> sub.route]

\* Mutant: an existing job is replaced.
OccupiedNever(id) == FALSE

\* job_id is the primary key.
Occupied(id) == Exists(id)

\* insertJob.  The caller of queueSubmission never hears that it failed.
InsertJob(t) ==
    /\ InStep(t, "job")
    /\ LET sub == call[t].sub
       IN  IF Occupied(sub.id)
           THEN Return(t) /\ UNCHANGED jobs
           ELSE /\ jobs' = [jobs EXCEPT ![sub.id] = NewRow(sub)]
                /\ Proceed(t, "chunks")
    /\ UNCHANGED <<chunks, inputVars, busy, dirs, orphans, torn, countVars>>

FreshChunks(n) == [i \in 1 .. n |-> [at |-> i, state |-> "pending"]]

\* insertChunks: one transaction, which fails without the job's row.
InsertChunks(t) ==
    /\ InStep(t, "chunks")
    /\ LET c == call[t]
       IN  \/ /\ Exists(c.sub.id) /\ UNCHANGED events
              /\ chunks' = [chunks EXCEPT ![c.sub.id] = @ \o FreshChunks(c.sub.grid)]
              /\ IF c.done = {} THEN Return(t) ELSE Proceed(t, "mark")
           \/ /\ (~Exists(c.sub.id) /\ UNCHANGED events) \/ Strike("database")
              /\ Proceed(t, "undo") /\ UNCHANGED chunks
    /\ UNCHANGED <<jobs, inputVars, busy, dirs, orphans, torn, submits>>

\* The rows of chunks go with the row of their job (ON DELETE CASCADE).
DropRow(j) == /\ jobs' = [jobs EXCEPT ![j] = None]
              /\ chunks' = [chunks EXCEPT ![j] = <<>>]

UndoJob(t) ==
    /\ InStep(t, "undo")
    /\ DropRow(call[t].sub.id) /\ Return(t)
    /\ UNCHANGED <<inputVars, busy, dirs, orphans, torn, countVars>>

\* markChunksCompleted: whatever the state of the chunk has become.
MarkCompleted(t) ==
    /\ InStep(t, "mark")
    /\ LET c == call[t]
       IN  chunks' = [chunks EXCEPT ![c.sub.id] = [i \in DOMAIN @ |->
               IF @[i].at \in c.done THEN [@[i] EXCEPT !.state = "completed"] ELSE @[i]]]
    /\ Return(t)
    /\ UNCHANGED <<jobs, inputVars, busy, dirs, orphans, torn, countVars>>

-----------------------------------------------------------------------------
(* Resubmission, by the leader's own user or for another node. *)

Route(t) == IF t = Main THEN "main" ELSE "http"
DoneChunks(j) == {chunks[j][i].at : i \in {x \in DOMAIN chunks[j] : chunks[j][x].state = "completed"}}

\* The source job is read, and for the incomplete ones its chunks as well.
BeginResubmit(t, j, incompleteOnly, grid, at) ==
    /\ Submitting("resubmit") /\ Idle(t) /\ Exists(j)
    /\ incompleteOnly => /\ grid = jobs[j].grid
                         /\ DoneChunks(j) # {chunks[j][i].at : i \in DOMAIN chunks[j]}
    /\ Begin(t, "choose", Baked(j, jobs[j].prio, at, grid, Route(t)),
             IF incompleteOnly THEN DoneChunks(j) ELSE {})
    /\ UNCHANGED <<storeVars, inputVars, busy, dirs, orphans, torn, events>>

\* Mutant: the search does not stop at the last version.
NextVersionUnbounded(j) ==
    LET free == {v \in 2 .. MaxVersion : ~Exists([j EXCEPT ![3] = v])} \cup {MaxVersion + 1}
    IN  [j EXCEPT ![3] = CHOOSE v \in free : \A w \in free : v <= w]

\* The first version of the slug that no job has; the last one if all do.
NextVersion(j) ==
    LET free == {v \in 2 .. MaxVersion : ~Exists([j EXCEPT ![3] = v])} \cup {MaxVersion}
    IN  [j EXCEPT ![3] = CHOOSE v \in free : \A w \in free : v <= w]

ChooseVersion(t) ==
    /\ InStep(t, "choose")
    /\ call' = [call EXCEPT ![t].step = "job", ![t].sub.id = NextVersion(@)]
    /\ UNCHANGED <<storeVars, inputVars, busy, dirs, orphans, torn, countVars>>

-----------------------------------------------------------------------------
(* The dispatch loop and the node it dispatches to. *)

Pending(j) == {i \in DOMAIN chunks[j] : chunks[j][i].state = "pending"}

\* Mutant: a pass of checkJobCompletions inside a submission.
AnyTime(t) == t \in Threads

\* The main thread runs one thing at a time.
Available(t) == Idle(t)

\* checkJobCompletions closes a job none of whose chunks is open, one that
\* has no chunks included.
CloseJob(j) ==
    /\ Available(Main) /\ Exists(j) /\ jobs[j].state = "active"
    /\ \A i \in DOMAIN chunks[j] : chunks[j][i].state = "completed"
    /\ jobs' = [jobs EXCEPT ![j].state = "completed"]
    /\ UNCHANGED <<chunks, call, inputVars, busy, dirs, orphans, torn, countVars>>

SetChunk(j, i, s) == chunks' = [chunks EXCEPT ![j][i].state = s]

Dispatchable(j) == Exists(j) /\ jobs[j].state = "active" /\ Pending(j) # {}

\* assignWork: the first chunk of the first active job that has one.
AssignWork(j) ==
    /\ Idle(Main) /\ busy = None
    /\ Dispatchable(j)
    /\ \A k \in Ids : Dispatchable(k) => ~DispatchedBefore(jobs, k, j)
    /\ \E i \in Pending(j) :
         /\ \A k \in Pending(j) : chunks[j][i].at <= chunks[j][k].at
         /\ SetChunk(j, i, "assigned") /\ busy' = <<j, i>>
    /\ UNCHANGED <<jobs, call, inputVars, dirs, orphans, torn, countVars>>

\* The node's first output of a chunk creates the job's directory, also
\* when the job has been deleted meanwhile.
WriteLog ==
    /\ busy # None /\ busy[1] \notin dirs
    /\ dirs' = dirs \cup {busy[1]}
    /\ UNCHANGED <<storeVars, call, inputVars, busy, orphans, torn, countVars>>

\* The report completes a chunk that is still assigned.
FinishChunk ==
    /\ busy # None /\ busy' = None
    /\ LET j == busy[1]
           i == busy[2]
       IN  IF i \in DOMAIN chunks[j] /\ chunks[j][i].state = "assigned"
           THEN SetChunk(j, i, "completed") ELSE UNCHANGED chunks
    /\ UNCHANGED <<jobs, call, inputVars, dirs, orphans, torn, countVars>>

-----------------------------------------------------------------------------
(* Removing jobs and directories. *)

\* The UI deletes a job of its list, DELETE any id it names: whatever is
\* being inserted under that id meanwhile.
DeleteJob(j) ==
    /\ Strike("delete")
    /\ DropRow(j)
    /\ dirs' = dirs \ {j}
    /\ torn' = IF \E t \in Threads : Inserting(t, j) THEN torn \cup {j} ELSE torn
    /\ UNCHANGED <<call, inputVars, busy, orphans, submits>>

ArchiveJob(j) ==
    /\ Exists(j) /\ Strike("archive")
    /\ jobs' = [jobs EXCEPT ![j].state = "archived"]
    /\ UNCHANGED <<chunks, call, inputVars, busy, dirs, orphans, torn, submits>>

\* refreshCachedJobs leaves archived jobs out of the list.
Listed == {j \in Existing : jobs[j].state # "archived"}

\* scanFarmCleanup compares with the database, or with the list where there
\* is no database or no job in it.
ScanCleanup(onLeader) ==
    /\ "cleanup" \in Faults /\ orphans = {}
    /\ orphans' = dirs \ (IF onLeader THEN Existing ELSE Listed)
    /\ UNCHANGED <<storeVars, call, inputVars, busy, dirs, torn, countVars>>

\* executeFarmCleanup "delete_dirs" removes what the dialog lists.
DeleteDirs ==
    /\ orphans # {}
    /\ dirs' = dirs \ orphans /\ orphans' = {}
    /\ UNCHANGED <<storeVars, call, inputVars, busy, torn, countVars>>

-----------------------------------------------------------------------------
Order ==
    \/ \E j, t \in Ids, before \in BOOLEAN : MoveJob(j, t, before)
    \/ \E j \in Ids, p \in Priorities : SetJobPriority(j, p)

Submit ==
    \/ \E f \in File, at \in Times : SubmitForm(f.name, f.prio, f.grid, at)
    \/ \E f \in File : DropFile(f)
    \/ \E f \in folder, at \in Times : WatchOnLeader(f, at) \/ WatchElsewhere(f, at)

Resubmit ==
    \E t \in Threads : \/ \E j \in Ids, some \in BOOLEAN, g \in Grids, at \in Times :
                            BeginResubmit(t, j, some, g, at)
                       \/ ChooseVersion(t)

Insert == \E t \in Threads : InsertJob(t) \/ InsertChunks(t) \/ UndoJob(t) \/ MarkCompleted(t)

Dispatch == TakeSubmission \/ (\E j \in Ids : CloseJob(j) \/ AssignWork(j)) \/ WriteLog \/ FinishChunk

CleanUp ==
    \/ \E j \in Ids : DeleteJob(j) \/ ArchiveJob(j)
    \/ \E onLeader \in BOOLEAN : ScanCleanup(onLeader)
    \/ DeleteDirs

Next == \/ Order
        \/ (Submit \/ Resubmit \/ Insert \/ Dispatch \/ CleanUp) /\ hand' = None

Spec == Init /\ [][Next]_vars

-----------------------------------------------------------------------------
(* Properties *)

\* A job has the chunks of its own submission, every frame once, whatever
\* submissions and resubmissions of other threads want the same id; it has
\* none only while its thread is still between the two inserts.  A torn id
\* is excepted: when a -vN is deleted between its inserts and inserted again
\* by another thread, the first thread goes on with the row of the second.
ChunksMatchTheRow ==
    \A j \in Existing \ torn :
        \/ chunks[j] = <<>> /\ \E t \in Threads : InStep(t, "chunks") /\ call[t].sub.id = j
        \/ chunks[j] = <<>> /\ \E t \in Threads : InStep(t, "undo") /\ call[t].sub.id = j
        \/ [i \in DOMAIN chunks[j] |-> chunks[j][i].at] = [i \in 1 .. jobs[j].grid |-> i]

\* A job that came through m_submitQueue or the watch folder is closed only
\* when every frame of it has been rendered: checkJobCompletions never sees
\* it without its chunks.  A torn id is excepted here as well.
QueuedJobsCloseDone ==
    \A j \in Existing \ torn :
        jobs[j].route = "main" /\ jobs[j].state = "completed" =>
            DoneChunks(j) = 1 .. jobs[j].grid

\* Two jobs change places in the list only by a move or a priority change
\* that names one of them: renumbering a group keeps all others in order.
OrderChangesOnlyByHand ==
    [][jobs' # jobs =>
         \A j, k \in Existing :
           jobs'[j] # None /\ jobs'[k] # None /\ Before(jobs, j, k) =>
             Before(jobs', j, k) \/ (hand' # None /\ hand'[1] \in {j, k})]_vars

\* A job dropped before or after another of its priority group is listed
\* right there.  Of a drop across groups the repository says two things: the
\* code moves the job and its priority, docs/monitor.md:16 has it refused.
MoveIsExact ==
    [][hand' # None /\ hand'[2] # None /\ jobs[hand'[1]].prio = jobs[hand'[2]].prio =>
         LET j == hand'[1]
             t == hand'[2]
         IN  /\ IF hand'[3] THEN Before(jobs', j, t) ELSE Before(jobs', t, j)
             /\ \A k \in Existing \ {j, t} : ~(Before(jobs', j, k) /\ Before(jobs', k, t))
                                          /\ ~(Before(jobs', t, k) /\ Before(jobs', k, j))]_vars
=============================================================================
