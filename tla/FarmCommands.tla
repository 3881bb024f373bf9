---------------------------- MODULE FarmCommands ----------------------------
(***************************************************************************)
(* How an edit of a job travels: from the editor of any node to the        *)
(* database of the leader, by a POST or, when the leader does not answer,  *)
(* as a command file on the share that whichever node leads consumes.      *)
(*                                                                         *)
(* An edit rewrites everything the editor's form holds, so a job's row is  *)
(* known by the edit that wrote it last.  What an edit does to the chunks  *)
(* and to the nodes that render them is in Dispatch; that two nodes may    *)
(* lead at once is in Failover: here one leads at a time.                  *)
(***************************************************************************)
EXTENDS Naturals, Sequences, FiniteSets, SequencesExt

CONSTANTS
    Nodes, Jobs,
    Modes,        \* what an edit does to renders under way
    Faults,       \* what may go wrong
    MaxEdits,     \* bound: edits sent
    MaxMishaps,   \* bound: faults
    None

ASSUME FarmCommandsAssumption ==
    /\ None \notin Nodes \cup Jobs
    /\ Modes \subseteq {"continue", "restart"}
    /\ Faults \subseteq {"crash", "handover", "lost", "late", "share", "ack", "expire", "delete"}
    /\ MaxEdits \in Nat /\ MaxMishaps \in Nat

Edits == 1 .. MaxEdits

VARIABLES
    leader,     \* the node that leads
    ready,      \* its m_leaderDbReady, with the database open
    jobs,       \* the rows of its database
    snapshot,   \* state/snapshot.db on the share
    opening,    \* m_editorOpening: the job whose manifest is being fetched
    dialog,     \* m_editJobId: the job in the edit dialog
    applying,   \* m_editBusy before editJob: the form whose job is fetched again
    posted,     \* m_editBusy after it: the edit in m_httpQueue, and how its POST fares
    late,       \* requests a server still works on after the client gave up
    edits,      \* the edits as they were sent
    commands,   \* commands/*.json
    processed,  \* commands/processed/*.json
    written,    \* the edits queued to the share, in the order of their time stamps
    expired,    \* the edits issued more than fifteen minutes ago
    listed,     \* the rest of the listing the leader's poll works through
    acking,     \* the command it has dealt with and not yet moved
    answer,     \* history: what the editor was told
    applied,    \* history: how often an edit was applied
    unmoved,    \* history: the commands whose acknowledgement failed
    overtaken,  \* history: the commands shown after a later one was listed
    excuses,    \* history: faults that left open whether an edit was applied
    mishaps

leaderVars  == <<leader, ready>>
storeVars   == <<jobs, snapshot>>
editorVars  == <<opening, dialog, applying, posted>>
shareVars   == <<commands, processed, written, expired>>
pollVars    == <<listed, acking>>
excuseVars  == <<unmoved, overtaken, excuses>>
historyVars == <<answer, applied, excuseVars>>
vars == <<leaderVars, storeVars, editorVars, late, edits, shareVars, pollVars, historyVars, mishaps>>

\* `form` is the job for which the form was filled in.
Edit == [job : Jobs, form : Jobs, mode : Modes, by : Nodes]
Row  == [edit : Edits \cup {0}, form : Jobs, epoch : Nat]

\* What the user applied, and what fetching the manifest again has given.
Form == [job : Jobs, mode : Modes, fetched : {"waiting", "found", "failed"}]

Post == [edit : Edits, to : Nodes, status : {"sent", "200", "404", "503", "none"}]

ASSUME AbsenceAssumption == None \notin Edit

Answers == {"unsent", "sent", "Applied", "QueuedToShare", "NoResponse", "JobNotFound", "LeaderError"}

TypeOK ==
    /\ leader \in Nodes \cup {None} /\ ready \in BOOLEAN
    /\ jobs \in [Jobs -> Row \cup {None}] /\ snapshot \in [Jobs -> Row \cup {None}]
    /\ opening \in [Nodes -> Jobs \cup {None}] /\ dialog \in [Nodes -> Jobs \cup {None}]
    /\ applying \in [Nodes -> Form \cup {None}]
    /\ posted \in [Nodes -> Post \cup {None}]
    /\ late \subseteq [edit : Edits, to : Nodes]
    /\ edits \in [Edits -> Edit \cup {None}]
    /\ commands \subseteq Edits /\ processed \subseteq Edits
    /\ written \in Seq(Edits) /\ expired \subseteq Edits
    /\ listed \in Seq(Edits) /\ acking \in Edits \cup {0}
    /\ answer \in [Edits -> Answers] /\ applied \in [Edits -> Nat]
    /\ unmoved \subseteq Edits /\ overtaken \subseteq Edits /\ excuses \in [Edits -> Nat]
    /\ mishaps \in 0 .. MaxMishaps

Init ==
    /\ leader \in Nodes /\ ready = TRUE
    /\ jobs = [j \in Jobs |-> [edit |-> 0, form |-> j, epoch |-> 0]] /\ snapshot = jobs
    /\ opening = [n \in Nodes |-> None] /\ dialog = [n \in Nodes |-> None]
    /\ applying = [n \in Nodes |-> None] /\ posted = [n \in Nodes |-> None]
    /\ late = {} /\ edits = [e \in Edits |-> None]
    /\ commands = {} /\ processed = {} /\ written = <<>> /\ expired = {}
    /\ listed = <<>> /\ acking = 0
    /\ answer = [e \in Edits |-> "unsent"] /\ applied = [e \in Edits |-> 0]
    /\ unmoved = {} /\ overtaken = {} /\ excuses = [e \in Edits |-> 0] /\ mishaps = 0

Strike(f) == f \in Faults /\ mishaps < MaxMishaps /\ mishaps' = mishaps + 1

\* The edits in S may now be applied once more.
Excuse(S) == excuses' = [e \in Edits |-> IF e \in S THEN excuses[e] + 1 ELSE excuses[e]]

Serving   == leader # None /\ ready
Exists(j) == j \in {k \in Jobs : jobs[k] # None}
Sent      == {e \in Edits : edits[e] # None}

\* m_editBusy.
Busy(n) == applying[n] # None \/ posted[n] # None

\* The bound on edits counts those on their way to being sent; a dialog that
\* could send none is not opened.
MayEdit == Cardinality(Sent) + Cardinality({n \in Nodes : applying[n] # None}) < MaxEdits

-----------------------------------------------------------------------------
(* applyEditLocally, on the leader's main thread or an HTTP thread. *)

EditedRow(e) ==
    [edit |-> e, form |-> edits'[e].form,
     epoch |-> jobs[edits'[e].job].epoch + (IF edits'[e].mode = "restart" THEN 1 ELSE 0)]

\* The row's manifest and priority are replaced; restarting an edited job
\* gives it a new epoch.  Without database or row the edit is refused.
Apply(e) ==
    /\ jobs' = [jobs EXCEPT ![edits'[e].job] = EditedRow(e)]
    /\ applied' = [applied EXCEPT ![e] = @ + 1]

Status(e) == IF ~ready THEN "503" ELSE IF Exists(edits'[e].job) THEN "200" ELSE "404"

ApplyOrRefuse(e) ==
    IF Status(e) = "200" THEN Apply(e) ELSE UNCHANGED <<jobs, applied>>

-----------------------------------------------------------------------------
(* The editor of a node: AppBridge. *)

\* openJobEditor fetches the manifest on a thread of its own.
OpenJobEditor(n, j) ==
    /\ dialog[n] = None /\ opening[n] = None /\ MayEdit
    /\ opening' = [opening EXCEPT ![n] = j]
    /\ UNCHANGED <<leaderVars, storeVars, dialog, applying, posted, late, edits, shareVars,
                   pollVars, historyVars, mishaps>>

\* finishOpenJobEditor, back on the UI thread; or jobActionFailed.
FinishOpenJobEditor(n) ==
    /\ opening[n] # None
    /\ opening' = [opening EXCEPT ![n] = None]
    /\ IF Serving /\ Exists(opening[n])
       THEN dialog' = [dialog EXCEPT ![n] = opening[n]]
       ELSE UNCHANGED dialog
    /\ UNCHANGED <<leaderVars, storeVars, applying, posted, late, edits, shareVars, pollVars,
                   historyVars, mishaps>>

\* The dialog's Cancel stays enabled while an edit is on its way.
CloseJobEditor(n) ==
    /\ dialog[n] # None
    /\ dialog' = [dialog EXCEPT ![n] = None]
    /\ UNCHANGED <<leaderVars, storeVars, opening, applying, posted, late, edits, shareVars,
                   pollVars, historyVars, mishaps>>

\* applyJobEdit fetches the manifest once more before it sends anything.
ApplyJobEdit(n, mode) ==
    /\ dialog[n] # None /\ ~Busy(n) /\ MayEdit
    /\ applying' = [applying EXCEPT ![n] = [job |-> dialog[n], mode |-> mode, fetched |-> "waiting"]]
    /\ UNCHANGED <<leaderVars, storeVars, opening, dialog, posted, late, edits, shareVars,
                   pollVars, historyVars, mishaps>>

\* What the status of a POST, or of a leader's own edit, means to the editor.
Verdict(status) ==
    CASE status = "200" -> "Applied" [] status = "404" -> "JobNotFound"
      [] status = "503" -> "LeaderError" [] status = "none" -> "QueuedToShare"

\* `done` of editJob: the dialog closes, whichever job it shows by now.
Done(n, e, what) ==
    /\ answer' = [answer EXCEPT ![e] = what]
    /\ posted' = [posted EXCEPT ![n] = None]
    /\ dialog' = IF what \in {"Applied", "QueuedToShare"}
                 THEN [dialog EXCEPT ![n] = None] ELSE dialog

\* getJobManifestJson: the row, or the answer of the leader's HTTP server.
FetchManifest(n) ==
    /\ applying[n] # None /\ applying[n].fetched = "waiting"
    /\ applying' = [applying EXCEPT ![n].fetched =
                      IF Serving /\ Exists(applying[n].job) THEN "found" ELSE "failed"]
    /\ UNCHANGED <<leaderVars, storeVars, opening, dialog, posted, late, edits, shareVars,
                   pollVars, historyVars, mishaps>>

Fetched(n) == applying[n] # None /\ applying[n].fetched # "waiting"

\* Mutant: a cancelled dialog leaves the editor busy.
FetchFailed(n) == applying[n].fetched = "failed"

\* The dialog has been cancelled, or the fetch failed.
Hopeless(n) == dialog[n] = None \/ applying[n].fetched = "failed"

GiveUpApply(n) ==
    /\ Fetched(n) /\ Hopeless(n)
    /\ applying' = [applying EXCEPT ![n] = None]
    /\ UNCHANGED <<leaderVars, storeVars, opening, dialog, posted, late, edits, shareVars,
                   pollVars, historyVars, mishaps>>

\* finishApplyJobEdit takes the form as it was applied and the job of the
\* dialog as it is now.
EditOf(n) == [job |-> dialog[n], form |-> applying[n].job, mode |-> applying[n].mode, by |-> n]

\* Mutant: a dialog that has been cancelled is not noticed.
FetchFound(n) == applying[n].fetched = "found"

Applicable(n) == dialog[n] # None /\ applying[n].fetched = "found"

\* finishApplyJobEdit and editJob: a leader applies the edit itself, any
\* other node queues a POST; with no leader to post to, the callback runs
\* at once.
FinishApplyJobEdit(n) ==
    \E e \in Edits :
      /\ Sent = 1 .. e - 1
      /\ Fetched(n) /\ Applicable(n)
      /\ applying' = [applying EXCEPT ![n] = None]
      /\ edits' = [edits EXCEPT ![e] = EditOf(n)]
      /\ IF n = leader
         THEN /\ ApplyOrRefuse(e)
              /\ Done(n, e, Verdict(Status(e)))
         ELSE /\ posted' = [posted EXCEPT ![n] =
                    IF leader = None THEN [edit |-> e, to |-> n, status |-> "none"]
                    ELSE [edit |-> e, to |-> leader, status |-> "sent"]]
              /\ answer' = [answer EXCEPT ![e] = "sent"]
              /\ UNCHANGED <<jobs, applied, dialog>>
      /\ UNCHANGED <<leaderVars, snapshot, opening, late, shareVars, pollVars, excuseVars,
                     mishaps>>

-----------------------------------------------------------------------------
(* The POST. *)

\* requireLeader and the database behind it.
Serves(n) == n = leader /\ ready

\* /api/jobs/:id/edit on the node the POST was addressed to.
ReceiveEdit(n) ==
    /\ posted[n] # None /\ posted[n].status = "sent"
    /\ UNCHANGED edits
    /\ LET e == posted[n].edit IN
       IF Serves(posted[n].to)
       THEN /\ ApplyOrRefuse(e)
            /\ posted' = [posted EXCEPT ![n].status = Status(e)]
       ELSE /\ posted' = [posted EXCEPT ![n].status = "503"]
            /\ UNCHANGED <<jobs, applied>>
    /\ UNCHANGED <<leaderVars, snapshot, opening, dialog, applying, late, shareVars, pollVars,
                   answer, excuseVars, mishaps>>

\* The connection fails, the answer is lost, or the node addressed is down.
LosePost(n) ==
    /\ posted[n] # None /\ posted[n].status # "none"
    /\ Strike("lost")
    /\ posted' = [posted EXCEPT ![n].status = "none"]
    /\ Excuse(IF posted[n].status = "200" THEN {posted[n].edit} ELSE {})
    /\ UNCHANGED <<leaderVars, storeVars, opening, dialog, applying, late, edits, shareVars,
                   pollVars, answer, applied, unmoved, overtaken>>

\* The ten seconds of the client are over; the server goes on.
TimeOut(n) ==
    /\ posted[n] # None /\ posted[n].status = "sent"
    /\ Strike("late")
    /\ posted' = [posted EXCEPT ![n].status = "none"]
    /\ late' = late \cup {[edit |-> posted[n].edit, to |-> posted[n].to]}
    /\ Excuse({posted[n].edit})
    /\ UNCHANGED <<leaderVars, storeVars, opening, dialog, applying, edits, shareVars, pollVars,
                   answer, applied, unmoved, overtaken>>

ReceiveLate ==
    \E r \in late :
      /\ late' = late \ {r}
      /\ UNCHANGED edits
      /\ IF Serves(r.to) THEN ApplyOrRefuse(r.edit) ELSE UNCHANGED <<jobs, applied>>
      /\ UNCHANGED <<leaderVars, snapshot, editorVars, shareVars, pollVars, answer,
                     excuseVars, mishaps>>

\* Mutant: whatever is not a success is tried again over the share.
AnyFailure(status) == status # "200"

\* Only without a response: an HTTP error is a real answer.
FallsBack(status) == status = "none"

Earlier(d, e) == \E i, k \in DOMAIN written : i < k /\ written[i] = d /\ written[k] = e

Stamped(e) == e \in ToSet(written)

\* writeEditCommand takes the time that will be the file's name and is still
\* to write the file and to rename it.
StampCommand(n) ==
    /\ posted[n] # None /\ FallsBack(posted[n].status) /\ ~Stamped(posted[n].edit)
    /\ written' = Append(written, posted[n].edit)
    /\ UNCHANGED <<leaderVars, storeVars, editorVars, late, edits, commands, processed, expired,
                   pollVars, historyVars, mishaps>>

\* The rename shows the file, to a leader that may have read on by then.
ShowCommand(e) ==
    /\ commands' = commands \cup {e}
    /\ overtaken' = IF \E d \in ToSet(listed) \cup {acking} \cup processed : Earlier(e, d)
                    THEN overtaken \cup {e} ELSE overtaken

\* The callback of editJob's POST, on the HTTP worker's thread; when there
\* was no response it comes after writeEditCommand.
Answered(n) ==
    /\ posted[n] # None /\ posted[n].status # "sent"
    /\ Done(n, posted[n].edit, Verdict(posted[n].status))
    /\ IF FallsBack(posted[n].status)
       THEN Stamped(posted[n].edit) /\ ShowCommand(posted[n].edit)
       ELSE UNCHANGED <<commands, overtaken>>
    /\ UNCHANGED <<leaderVars, storeVars, opening, applying, late, edits, processed, written,
                   expired, pollVars, applied, unmoved, excuses, mishaps>>

\* The file cannot be written, or not renamed.
ShareUnwritable(n) ==
    /\ posted[n] # None /\ posted[n].status = "none" /\ Stamped(posted[n].edit)
    /\ Strike("share")
    /\ Done(n, posted[n].edit, "NoResponse")
    /\ UNCHANGED <<leaderVars, storeVars, opening, applying, late, edits, shareVars, pollVars,
                   applied, excuseVars>>

-----------------------------------------------------------------------------
(* pollFarmCommands, on the leader's main thread. *)

\* The orders in which a directory may yield the files in S.
Listings(S) == {s \in [1 .. Cardinality(S) -> S] : ToSet(s) = S}

\* Sorted: file names begin with the time they were written, clocks being in
\* step.
InIssueOrder(S) ==
    {s \in Listings(S) : \A i, k \in DOMAIN s : i < k => Earlier(s[i], s[k])}

ListCommands ==
    /\ Serving /\ listed = <<>> /\ acking = 0 /\ commands # {}
    /\ listed' \in InIssueOrder(commands)
    /\ UNCHANGED <<leaderVars, storeVars, editorVars, late, edits, shareVars, acking,
                   historyVars, mishaps>>

\* Mutant: only the commands that were applied are acknowledged.
OnlyApplied(e) == IF e \in expired \/ ~Exists(edits[e].job) THEN 0 ELSE e

\* Every end of a command is acknowledged.
ToAck(e) == e

\* A command is applied, or dropped when it has expired or its job is gone.
TakeCommand ==
    /\ listed # <<>> /\ acking = 0
    /\ listed' = Tail(listed) /\ acking' = ToAck(Head(listed))
    /\ UNCHANGED edits
    /\ IF Head(listed) \in expired
       THEN UNCHANGED <<jobs, applied>> ELSE ApplyOrRefuse(Head(listed))
    /\ UNCHANGED <<leaderVars, snapshot, editorVars, late, shareVars, answer, excuseVars,
                   mishaps>>

\* Mutant: applied commands stay where they are.
Kept == commands

\* The file moves to processed/, or is removed when that fails.
Moved == commands \ {acking}

AckCommand ==
    /\ acking # 0 /\ acking' = 0
    /\ commands' = Moved
    /\ processed' = processed \cup {acking}
    /\ UNCHANGED <<leaderVars, storeVars, editorVars, late, edits, written, expired, listed, historyVars,
                   mishaps>>

\* Neither the rename nor the removal succeeds: the next poll finds it again.
FailAck ==
    /\ acking # 0 /\ acking' = 0
    /\ Strike("ack")
    /\ unmoved' = unmoved \cup {acking} /\ Excuse({acking})
    /\ UNCHANGED <<leaderVars, storeVars, editorVars, late, edits, shareVars, listed, answer,
                   applied, overtaken>>

\* kCommandTtlMs passes.
Expire ==
    /\ "expire" \in Faults /\ commands \ expired # {}
    /\ expired' = expired \cup commands
    /\ UNCHANGED <<leaderVars, storeVars, editorVars, late, edits, commands, processed, written, pollVars,
                   historyVars, mishaps>>

-----------------------------------------------------------------------------
(* The leader. *)

TakeSnapshot ==
    /\ Serving /\ snapshot # jobs
    /\ snapshot' = jobs
    /\ UNCHANGED <<leaderVars, jobs, editorVars, late, edits, shareVars, pollVars, historyVars, mishaps>>

DeleteJob(j) ==
    /\ Serving /\ Exists(j)
    /\ Strike("delete")
    /\ jobs' = [jobs EXCEPT ![j] = None]
    /\ UNCHANGED <<leaderVars, snapshot, editorVars, late, edits, shareVars, pollVars, historyVars>>

\* What the leader has done and told nobody yet.
Unheard(e) ==
    \/ acking = e
    \/ \E n \in Nodes : /\ posted[n] # None /\ posted[n].edit = e
                        /\ posted[n].to = leader /\ posted[n].status = "200"

\* The leader dies, and with it its editor and whatever was sent to it.
Crash ==
    /\ leader # None /\ Strike("crash")
    /\ leader' = None /\ ready' = FALSE
    /\ listed' = <<>> /\ acking' = 0
    /\ opening' = [opening EXCEPT ![leader] = None] /\ dialog' = [dialog EXCEPT ![leader] = None]
    /\ applying' = [applying EXCEPT ![leader] = None]
    /\ posted' = [n \in Nodes |->
                    IF n = leader \/ posted[n] = None THEN None
                    ELSE IF posted[n].to = leader THEN [posted[n] EXCEPT !.status = "none"]
                    ELSE posted[n]]
    /\ late' = {r \in late : r.to # leader}
    /\ Excuse({e \in Edits : Unheard(e)})
    /\ UNCHANGED <<storeVars, edits, shareVars, answer, applied, unmoved, overtaken>>

\* Between two passes of the main loop the leader finds it leads no more.
LoseLeadership ==
    /\ leader # None /\ listed = <<>> /\ acking = 0
    /\ Strike("handover")
    /\ leader' = None /\ ready' = FALSE
    /\ UNCHANGED <<storeVars, editorVars, late, edits, shareVars, pollVars, historyVars>>

BecomeLeader(n) ==
    /\ leader = None /\ leader' = n
    /\ UNCHANGED <<ready, storeVars, editorVars, late, edits, shareVars, pollVars, historyVars, mishaps>>

\* m_leaderThread has restored the snapshot.
DatabaseReady ==
    /\ leader # None /\ ~ready
    /\ ready' = TRUE /\ jobs' = snapshot
    /\ UNCHANGED <<leader, snapshot, editorVars, late, edits, shareVars, pollVars, historyVars, mishaps>>

-----------------------------------------------------------------------------
EditorNext(n) ==
    \/ \E j \in Jobs : OpenJobEditor(n, j)
    \/ FinishOpenJobEditor(n) \/ CloseJobEditor(n)
    \/ \E mode \in Modes : ApplyJobEdit(n, mode)
    \/ FetchManifest(n) \/ GiveUpApply(n) \/ FinishApplyJobEdit(n)

PostNext(n) ==
    \/ ReceiveEdit(n) \/ LosePost(n) \/ TimeOut(n)
    \/ StampCommand(n) \/ Answered(n) \/ ShareUnwritable(n)

PollNext == ListCommands \/ TakeCommand \/ AckCommand \/ FailAck \/ Expire

LeaderNext ==
    \/ TakeSnapshot \/ Crash \/ LoseLeadership \/ DatabaseReady
    \/ \E j \in Jobs : DeleteJob(j)
    \/ \E n \in Nodes : BecomeLeader(n)

Next ==
    \/ \E n \in Nodes : EditorNext(n) \/ PostNext(n)
    \/ ReceiveLate \/ PollNext \/ LeaderNext

\* The threads run and every socket call has a time limit; users, faults and
\* the arrival of late requests are left to chance.
Fairness ==
    /\ \A n \in Nodes : WF_vars(FetchManifest(n)) /\ WF_vars(GiveUpApply(n) \/ FinishApplyJobEdit(n))
    /\ \A n \in Nodes : WF_vars(ReceiveEdit(n)) /\ WF_vars(StampCommand(n)) /\ WF_vars(Answered(n))
    /\ WF_vars(ListCommands) /\ WF_vars(TakeCommand) /\ WF_vars(AckCommand)
    /\ WF_vars(\E n \in Nodes : BecomeLeader(n)) /\ WF_vars(DatabaseReady)

Spec == Init /\ [][Next]_vars /\ Fairness

-----------------------------------------------------------------------------
(* Correctness. *)

\* An edit takes effect again only for a fault of its own: the answer that it
\* was applied was lost, or its request went on after the client gave up; the
\* leader died before it answered or before it moved the command it had
\* applied; or the share would not let it move the file.  Each of these lets
\* it take effect once more, and whatever befalls other edits, other files or
\* the farm does not.  A second "restart" stops the job's renders again.
AppliedOnce == \A e \in Edits : applied[e] <= 1 + excuses[e]

\* What the editor is told stays true.  An edit reported as applied was
\* applied; one the leader refused is not in the queue on the share, or
\* applied behind the user's back, at any later time; one reported as queued
\* is on the share until the leader has dealt with it.
AnswersAreTrue ==
    \A e \in Edits :
      /\ answer[e] = "Applied" => applied[e] > 0
      /\ answer[e] \in {"JobNotFound", "LeaderError"} => applied[e] = 0 /\ e \notin commands
      /\ answer[e] = "QueuedToShare" => e \in commands \cup processed

\* Commands are consumed in the order in which they were issued, across polls
\* and across leaders: none is taken up after a later one has been moved to
\* processed/, unless moving it failed before.  A command of another editor
\* may also have been stamped earlier and renamed only after the leader had
\* listed the later one; two of one editor never change places.
CommandsInOrder ==
    [][\A d \in commands : acking = 0 /\ acking' = d =>
         \A e \in processed : Earlier(d, e) =>
           d \in unmoved \/ (d \in overtaken /\ edits[d].by # edits[e].by)]_vars

\* Whatever happens to the request, to the leader or to the dialog, the editor
\* is told the outcome and can apply again (`done` fires exactly once).
EditorsAreAnswered == \A n \in Nodes : Busy(n) ~> ~Busy(n)

\* No command stays on the share: a leader applies it, refuses it or finds it
\* expired.
CommandsSettle == \A e \in Edits : e \in commands ~> e \notin commands
=============================================================================
