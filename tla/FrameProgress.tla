---------------------------- MODULE FrameProgress ----------------------------
(***************************************************************************)
(* The frames a node reports while it renders: completed_frames in the     *)
(* leader's database, behind the epoch fence of an edited job.  An answer  *)
(* "stale" is also how a node learns of an edit whose abort push it missed.*)
(*                                                                         *)
(* One leader for the whole behaviour and one job, which is edited over    *)
(* HTTP: between any two statements of the main thread.  Which chunk a     *)
(* node gets is Dispatch's; here an idle node renders.                     *)
(***************************************************************************)
EXTENDS Naturals

CONSTANTS
    Nodes,
    Leader,      \* the node that leads; it renders too
    Frames,
    Faults,      \* what may go wrong
    MaxEdits,    \* bound: edits that restart the job
    MaxMishaps,  \* bound: faults
    None

ASSUME FrameProgressAssumption ==
    /\ Leader \in Nodes /\ None \notin Nodes /\ None \notin Nat
    /\ Faults \subseteq {"lost", "lostAnswer", "abortLost"}
    /\ MaxEdits \in Nat /\ MaxMishaps \in Nat

VARIABLES
    epoch,       \* the job's edit_epoch
    edit,        \* an edit that applyEditLocally has begun
    cleared,     \* history: the epoch of the last edit that started over
    shown,       \* completed_frames, each with the epoch it was rendered under
    checked,     \* frames the main thread found current and has not written,
                 \* with the epoch it found; None between such writes
    raced,       \* history: frames written after the epoch had moved on
    frameQueue,  \* m_frameQueue
    render,      \* the epoch under which each node renders; None when idle
    frames,      \* m_pendingFrameReports
    flush,       \* the batch flushFrameReports has taken out
    aborts,      \* POSTs of /api/render/abort on their way
    mishaps

jobVars     == <<epoch, edit, cleared>>
progress    == <<shown, checked, raced, frameQueue>>
nodeVars    == <<render, frames, flush>>
vars        == <<jobVars, progress, nodeVars, aborts, mishaps>>

Workers == Nodes \ {Leader}

Frame   == Frames \X (0 .. MaxEdits)
Flush   == [batch : SUBSET Frame, left : SUBSET Frame, failed : BOOLEAN, stale : BOOLEAN]
Edit    == [how : {"restart", "startover"}, at : {"bump", "reset", "finish"},
            nodes : SUBSET Nodes]

TypeOK ==
    /\ epoch \in 0 .. MaxEdits /\ cleared \in 0 .. MaxEdits
    /\ edit \in Edit \cup {None}
    /\ shown \subseteq Frame /\ raced \subseteq Frame /\ frameQueue \subseteq Frame
    /\ checked \in [frames : SUBSET Frame, epoch : 0 .. MaxEdits] \cup {None}
    /\ render \in [Nodes -> (0 .. MaxEdits) \cup {None}]
    /\ frames \in [Nodes -> SUBSET Frame]
    /\ flush \in [Nodes -> Flush \cup {None}]
    /\ aborts \subseteq Workers
    /\ mishaps \in 0 .. MaxMishaps

Init ==
    /\ epoch = 0 /\ edit = None /\ cleared = 0
    /\ shown = {} /\ checked = None /\ raced = {} /\ frameQueue = {}
    /\ render = [n \in Nodes |-> None]
    /\ frames = [n \in Nodes |-> {}] /\ flush = [n \in Nodes |-> None]
    /\ aborts = {} /\ mishaps = 0

Mishap(f) == f \in Faults /\ mishaps < MaxMishaps /\ mishaps' = mishaps + 1

\* The main thread has no statement half done.
MainThreadFree == checked = None

\* isJobEpochCurrent held for these frames.
Found(batch) == [frames |-> batch, epoch |-> epoch]

Of(batch, e) == {f \in batch : f[2] = e}

-----------------------------------------------------------------------------
(* The nodes.                                                              *)

\* assignWork and what follows: an idle node renders under the current epoch.
StartRender(n) ==
    /\ MainThreadFree
    /\ render[n] = None
    /\ render' = [render EXCEPT ![n] = epoch]
    /\ UNCHANGED <<jobVars, progress, frames, flush, aborts, mishaps>>

\* reportFrameCompletion: the leader's own node asks for the epoch and goes on
\* to write, any other buffers.
FinishFrame(n, f) ==
    /\ render[n] # None
    /\ IF n = Leader
       THEN /\ MainThreadFree
            /\ checked' = IF render[n] = epoch THEN Found({<<f, epoch>>}) ELSE None
            /\ UNCHANGED frames
       ELSE /\ frames' = [frames EXCEPT ![n] = @ \cup {<<f, render[n]>>}]
            /\ UNCHANGED checked
    /\ UNCHANGED <<jobVars, shown, raced, frameQueue, render, flush, aborts, mishaps>>

FinishRender(n) ==
    /\ render[n] # None
    /\ n = Leader => MainThreadFree
    /\ render' = [render EXCEPT ![n] = None]
    /\ UNCHANGED <<jobVars, progress, frames, flush, aborts, mishaps>>

\* flushFrameReports takes the buffer out.
BeginFlush(n) ==
    /\ flush[n] = None /\ frames[n] # {}
    /\ flush' = [flush EXCEPT ![n] =
                   [batch |-> frames[n], left |-> frames[n], failed |-> FALSE, stale |-> FALSE]]
    /\ frames' = [frames EXCEPT ![n] = {}]
    /\ UNCHANGED <<jobVars, progress, render, aborts, mishaps>>

\* Mutant: a stale batch is dropped as if it had landed.
FencedSilently(n, e) == FALSE

\* The answer "stale" is about the render in progress.
Fenced(n, e) == e # epoch /\ render[n] = e

\* One POST of /api/dispatch/frame-complete per epoch, answered.
PushFrames(n, e) ==
    /\ flush[n] # None /\ ~flush[n].stale /\ Of(flush[n].left, e) # {}
    /\ frameQueue' = IF e = epoch THEN frameQueue \cup Of(flush[n].left, e) ELSE frameQueue
    /\ flush' = [flush EXCEPT ![n].left = @ \ Of(@, e), ![n].stale = Fenced(n, e)]
    /\ UNCHANGED <<jobVars, shown, checked, raced, render, frames, aborts, mishaps>>

\* The POST or its answer is lost.
PushFails(n, e) ==
    /\ flush[n] # None /\ ~flush[n].stale /\ Of(flush[n].left, e) # {}
    /\ \/ Mishap("lost") /\ UNCHANGED frameQueue
       \/ /\ Mishap("lostAnswer") /\ e = epoch
          /\ frameQueue' = frameQueue \cup Of(flush[n].left, e)
    /\ flush' = [flush EXCEPT ![n].left = @ \ Of(@, e), ![n].failed = TRUE]
    /\ UNCHANGED <<jobVars, shown, checked, raced, render, frames, aborts>>

\* abandonJobRender compares the job once more, but not the epoch.
AbandonFenced(n) ==
    /\ flush[n] # None /\ flush[n].stale
    /\ render' = [render EXCEPT ![n] = None]
    /\ flush' = [flush EXCEPT ![n].stale = FALSE]
    /\ UNCHANGED <<jobVars, progress, frames, aborts, mishaps>>

\* Mutant: what could not be sent is forgotten.
NothingBack(n) == {}

\* After a failed POST the whole batch goes back.
PutBack(n) == IF flush[n].failed THEN flush[n].batch ELSE {}

EndFlush(n) ==
    /\ flush[n] # None /\ flush[n].left = {} /\ ~flush[n].stale
    /\ frames' = [frames EXCEPT ![n] = @ \cup PutBack(n)]
    /\ flush' = [flush EXCEPT ![n] = None]
    /\ UNCHANGED <<jobVars, progress, render, aborts, mishaps>>

-----------------------------------------------------------------------------
(* The leader's main thread: processReports.                               *)

\* Mutant: the queue is trusted, because the handler has looked at the epoch.
Trusted(e) == Found(Of(frameQueue, e))

Drained(e) == IF e = epoch THEN Found(Of(frameQueue, e)) ELSE None

\* The frames of one epoch; isJobEpochCurrent is a statement of its own.
DrainFrames(e) ==
    /\ MainThreadFree /\ Of(frameQueue, e) # {}
    /\ checked' = Drained(e)
    /\ frameQueue' = frameQueue \ Of(frameQueue, e)
    /\ UNCHANGED <<jobVars, shown, raced, nodeVars, aborts, mishaps>>

\* addCompletedFrames, addCompletedFramesBatch.
WriteFrames ==
    /\ checked # None
    /\ shown' = shown \cup checked.frames
    /\ raced' = IF epoch = checked.epoch THEN raced ELSE raced \cup checked.frames
    /\ checked' = None
    /\ UNCHANGED <<jobVars, frameQueue, nodeVars, aborts, mishaps>>

-----------------------------------------------------------------------------
(* Edits, requeues and abort pushes.                                       *)

\* applyEditLocally: who renders, the epoch, the rows, the pushes.
BeginEdit(how) ==
    /\ edit = None /\ epoch < MaxEdits
    /\ edit' = [how |-> how, at |-> "bump", nodes |-> {n \in Nodes : render[n] # None}]
    /\ UNCHANGED <<epoch, cleared, progress, nodeVars, aborts, mishaps>>

BumpEpoch ==
    /\ edit # None /\ edit.at = "bump"
    /\ epoch' = epoch + 1
    /\ edit' = [edit EXCEPT !.at = "reset"]
    /\ UNCHANGED <<cleared, progress, nodeVars, aborts, mishaps>>

\* resetAssignedChunks keeps completed_frames, rebuildChunks does not.
ResetRows ==
    /\ edit # None /\ edit.at = "reset"
    /\ IF edit.how = "startover"
       THEN shown' = {} /\ raced' = {} /\ cleared' = epoch
       ELSE UNCHANGED <<shown, raced, cleared>>
    /\ edit' = [edit EXCEPT !.at = "finish"]
    /\ UNCHANGED <<epoch, checked, frameQueue, nodeVars, aborts, mishaps>>

\* Mutant: the leader's own node is pushed to as well.
PushedToAll(nodes) == nodes

\* The leader aborts its own render itself.
PushedTo(nodes) == nodes \ {Leader}

FinishEdit ==
    /\ edit # None /\ edit.at = "finish"
    /\ aborts' = aborts \cup PushedTo(edit.nodes)
    /\ render' = [render EXCEPT ![Leader] = None]
    /\ edit' = None
    /\ UNCHANGED <<epoch, cleared, progress, frames, flush, mishaps>>

\* resetAllChunks: the same epoch goes on.
Requeue ==
    /\ shown # {} /\ edit = None
    /\ shown' = {} /\ raced' = {}
    /\ UNCHANGED <<jobVars, checked, frameQueue, nodeVars, aborts, mishaps>>

\* The push names the job only.
AbortArrives(n) ==
    /\ n \in aborts
    /\ aborts' = aborts \ {n}
    /\ render' = [render EXCEPT ![n] = None]
    /\ UNCHANGED <<jobVars, progress, frames, flush, mishaps>>

AbortLost(n) ==
    /\ n \in aborts /\ Mishap("abortLost")
    /\ aborts' = aborts \ {n}
    /\ UNCHANGED <<jobVars, progress, nodeVars>>

-----------------------------------------------------------------------------
Rendering ==
    \E n \in Nodes :
        \/ StartRender(n) \/ FinishRender(n)
        \/ \E f \in Frames : FinishFrame(n, f)
        \/ BeginFlush(n) \/ AbandonFenced(n) \/ EndFlush(n)
        \/ \E e \in 0 .. MaxEdits : PushFrames(n, e) \/ PushFails(n, e)

Processing ==
    \/ WriteFrames
    \/ \E e \in 0 .. MaxEdits : DrainFrames(e)

Editing ==
    \/ \E how \in {"restart", "startover"} : BeginEdit(how)
    \/ BumpEpoch \/ ResetRows \/ FinishEdit \/ Requeue
    \/ \E n \in Nodes : AbortArrives(n) \/ AbortLost(n)

Next == Rendering \/ Processing \/ Editing

Spec == Init /\ [][Next]_vars

(* Fairness: update() and the flush thread run for ever, the POSTs end by  *)
(* their timeouts.  A render need not end, nor a frame, nor an abort push  *)
(* arrive.                                                                 *)
Fairness ==
    /\ WF_vars(WriteFrames \/ \E e \in 0 .. MaxEdits : DrainFrames(e))
    /\ WF_vars(BumpEpoch \/ ResetRows \/ FinishEdit)
    /\ \A n \in Nodes :
         WF_vars(BeginFlush(n) \/ AbandonFenced(n) \/ EndFlush(n)
                 \/ \E e \in 0 .. MaxEdits : PushFrames(n, e))

FairSpec == Spec /\ Fairness

-----------------------------------------------------------------------------
(* Properties. *)

\* Once an edit has started the job over, no frame of an older render is shown,
\* however late it is reported: bumping the epoch before the rows are rebuilt
\* and asking for it again after the queue leaves one gap, an edit between
\* isJobEpochCurrent and addCompletedFrames.
ShownFramesAreCurrent ==
    edit = None => \A f \in shown : f[2] >= cleared \/ f \in raced

\* A frame that was rendered under the current epoch comes to be shown although
\* POSTs and answers are lost, unless an edit moves the epoch.
FramesArrive ==
    \A n \in Nodes, f \in Frame :
        f \in frames[n] ~> (f \in shown \/ f[2] # epoch)

\* A node whose abort push was lost learns from its next frame report that the
\* job was edited, and stops even if its render never ends.
OutdatedRendersStop ==
    \A n \in Workers, f \in Frame :
        (render[n] = f[2] /\ f[2] # epoch /\ f \in frames[n]) ~> render[n] # f[2]
=============================================================================
