-------------------------- MODULE FrameProgressProofs --------------------------
(***************************************************************************)
(* Type correctness of FrameProgress, and that no frame of a render from   *)
(* before a start-over is shown, for any nodes, frames and number of edits.*)
(***************************************************************************)
EXTENDS FrameProgress, TLAPS

\* An edit that has still to bump the epoch was begun below the bound.
Bounded == edit # None /\ edit.at = "bump" => epoch < MaxEdits

Types == TypeOK /\ Bounded

\* Frames the main thread holds are of the epoch it found, no edit that
\* started over is ahead of the epoch, and what is shown is of no older one,
\* also while an edit is under way.
Current ==
    /\ checked # None => \A f \in checked.frames : f[2] = checked.epoch
    /\ cleared <= epoch
    /\ \A f \in shown : f[2] >= cleared \/ f \in raced

Inv == Types /\ Current

-----------------------------------------------------------------------------
(* None is none of the values it stands beside. *)

LEMMA NoneIsNone ==
    /\ None \notin 0 .. MaxEdits
    /\ \A e \in 0 .. MaxEdits : e \in Nat
BY FrameProgressAssumption

LEMMA Arithmetic ==
    ASSUME NEW i \in 0 .. MaxEdits, i < MaxEdits
    PROVE  i + 1 \in 0 .. MaxEdits
BY FrameProgressAssumption

LEMMA MishapBounded ==
    ASSUME TypeOK, NEW f, Mishap(f)
    PROVE  mishaps' \in 0 .. MaxMishaps
BY FrameProgressAssumption DEF TypeOK, Mishap

\* A flush takes frames from its batch; the flags are flags.
LEMMA Flushed ==
    ASSUME NEW b \in Flush, NEW e, NEW s \in BOOLEAN
    PROVE  /\ [b EXCEPT !.left = b.left \ Of(b.left, e), !.stale = s] \in Flush
           /\ [b EXCEPT !.left = b.left \ Of(b.left, e), !.failed = TRUE] \in Flush
           /\ [b EXCEPT !.stale = FALSE] \in Flush
<1>1. b.left \ Of(b.left, e) \in SUBSET Frame
  BY DEF Flush
<1>2. QED  BY <1>1 DEF Flush

LEMMA InitInv == Init => Inv
BY FrameProgressAssumption
   DEF Init, Inv, Types, TypeOK, Bounded, Current

-----------------------------------------------------------------------------
LEMMA RenderingInv == Inv /\ Rendering => Inv'
<1> SUFFICES ASSUME Inv, NEW n \in Nodes,
                    \/ StartRender(n) \/ FinishRender(n)
                    \/ \E f \in Frames : FinishFrame(n, f)
                    \/ BeginFlush(n) \/ AbandonFenced(n) \/ EndFlush(n)
                    \/ \E e \in 0 .. MaxEdits : PushFrames(n, e) \/ PushFails(n, e)
             PROVE  Inv'
  BY DEF Rendering
<1> USE DEF Inv, Types, TypeOK, Bounded, Current
<1>1. CASE StartRender(n) \/ FinishRender(n)
  BY <1>1 DEF StartRender, FinishRender, jobVars, progress
<1>2. ASSUME NEW f \in Frames, FinishFrame(n, f) PROVE Inv'
  <2>1. UNCHANGED <<jobVars, shown, raced, frameQueue, render, flush, aborts, mishaps>>
    BY <1>2 DEF FinishFrame
  <2>2. CASE n = Leader
    <3>1. checked' \in {Found({<<f, epoch>>}), None} /\ frames' = frames
      BY <1>2, <2>2 DEF FinishFrame
    <3>2. <<f, epoch>> \in Frame
      BY DEF Frame
    <3>3. Found({<<f, epoch>>}) \in [frames : SUBSET Frame, epoch : 0 .. MaxEdits]
      BY <3>2 DEF Found
    <3>4. checked' # None => \A g \in checked'.frames : g[2] = checked'.epoch
      BY <3>1 DEF Found
    <3>5. QED  BY <2>1, <3>1, <3>3, <3>4 DEF jobVars
  <2>3. CASE n # Leader
    <3>1. /\ frames' = [frames EXCEPT ![n] = frames[n] \cup {<<f, render[n]>>}]
          /\ checked' = checked /\ render[n] \in 0 .. MaxEdits
      BY <1>2, <2>3 DEF FinishFrame
    <3>2. frames[n] \cup {<<f, render[n]>>} \in SUBSET Frame
      BY <3>1 DEF Frame
    <3>3. frames' \in [Nodes -> SUBSET Frame]
      BY <3>1, <3>2
    <3>4. QED  BY <2>1, <3>1, <3>3 DEF jobVars
  <2>4. QED  BY <2>2, <2>3
<1>3. CASE BeginFlush(n)
  <2>1. [batch |-> frames[n], left |-> frames[n], failed |-> FALSE, stale |-> FALSE] \in Flush
    BY DEF Flush
  <2>2. flush' \in [Nodes -> Flush \cup {None}] /\ frames' \in [Nodes -> SUBSET Frame]
    BY <1>3, <2>1 DEF BeginFlush
  <2>3. QED  BY <1>3, <2>2 DEF BeginFlush, jobVars, progress
<1>4. CASE AbandonFenced(n)
  <2>1. flush[n] \in Flush /\ flush' = [flush EXCEPT ![n] = [flush[n] EXCEPT !.stale = FALSE]]
    BY <1>4 DEF AbandonFenced
  <2>2. [flush[n] EXCEPT !.stale = FALSE] \in Flush
    BY <2>1, Flushed
  <2>3. flush' \in [Nodes -> Flush \cup {None}] /\ render' \in [Nodes -> (0 .. MaxEdits) \cup {None}]
    BY <1>4, <2>1, <2>2 DEF AbandonFenced
  <2>4. QED  BY <1>4, <2>3 DEF AbandonFenced, jobVars, progress
<1>5. CASE EndFlush(n)
  <2>1. flush[n] \in Flush
    BY <1>5 DEF EndFlush
  <2>2. frames[n] \cup PutBack(n) \in SUBSET Frame
    BY <2>1 DEF PutBack, Flush
  <2>3. frames' \in [Nodes -> SUBSET Frame] /\ flush' \in [Nodes -> Flush \cup {None}]
    BY <1>5, <2>2 DEF EndFlush
  <2>4. QED  BY <1>5, <2>3 DEF EndFlush, jobVars, progress
<1>6. ASSUME NEW e \in 0 .. MaxEdits, PushFrames(n, e) PROVE Inv'
  <2>1. flush[n] \in Flush
    BY <1>6 DEF PushFrames
  <2>2. Of(flush[n].left, e) \in SUBSET Frame /\ Fenced(n, e) \in BOOLEAN
    BY <2>1 DEF Of, Flush, Fenced
  <2>3. flush' = [flush EXCEPT ![n] = [flush[n] EXCEPT !.left = flush[n].left \ Of(flush[n].left, e),
                                                      !.stale = Fenced(n, e)]]
    BY <1>6 DEF PushFrames
  <2>4. flush' \in [Nodes -> Flush \cup {None}]
    <3>1. [flush[n] EXCEPT !.left = flush[n].left \ Of(flush[n].left, e),
                           !.stale = Fenced(n, e)] \in Flush
      BY <2>1, <2>2, Flushed
    <3>2. QED  BY <2>3, <3>1
  <2>5. frameQueue' \subseteq Frame
    BY <1>6, <2>2 DEF PushFrames
  <2>6. QED  BY <1>6, <2>4, <2>5 DEF PushFrames, jobVars
<1>7. ASSUME NEW e \in 0 .. MaxEdits, PushFails(n, e) PROVE Inv'
  <2>1. flush[n] \in Flush
    BY <1>7 DEF PushFails
  <2>2. Of(flush[n].left, e) \in SUBSET Frame
    BY <2>1 DEF Of, Flush
  <2>3. flush' = [flush EXCEPT ![n] = [flush[n] EXCEPT !.left = flush[n].left \ Of(flush[n].left, e),
                                                      !.failed = TRUE]]
    BY <1>7 DEF PushFails
  <2>4. flush' \in [Nodes -> Flush \cup {None}]
    <3>1. [flush[n] EXCEPT !.left = flush[n].left \ Of(flush[n].left, e), !.failed = TRUE] \in Flush
      BY <2>1, Flushed
    <3>2. QED  BY <2>3, <3>1
  <2>5. frameQueue' \subseteq Frame
    BY <1>7, <2>2 DEF PushFails
  <2>6. mishaps' \in 0 .. MaxMishaps
    <3>1. Mishap("lost") \/ Mishap("lostAnswer")
      BY <1>7 DEF PushFails
    <3>2. QED  BY <3>1, MishapBounded
  <2>7. QED  BY <1>7, <2>4, <2>5, <2>6 DEF PushFails, jobVars
<1>8. QED  BY <1>1, <1>2, <1>3, <1>4, <1>5, <1>6, <1>7

LEMMA ProcessingInv == Inv /\ Processing => Inv'
<1> SUFFICES ASSUME Inv, Processing PROVE Inv'
  OBVIOUS
<1> USE DEF Inv, Types, TypeOK, Bounded, Current
<1>1. CASE WriteFrames
  <2>1. /\ checked \in [frames : SUBSET Frame, epoch : 0 .. MaxEdits] /\ checked # None
        /\ shown' = shown \cup checked.frames
        /\ raced' = IF epoch = checked.epoch THEN raced ELSE raced \cup checked.frames
        /\ checked' = None
        /\ UNCHANGED <<epoch, edit, cleared, frameQueue, nodeVars, aborts, mishaps>>
    BY <1>1 DEF WriteFrames, jobVars
  <2>2. shown' \subseteq Frame /\ raced' \subseteq Frame
    BY <2>1
  <2>3. \A g \in shown' : g[2] >= cleared \/ g \in raced'
    <3> SUFFICES ASSUME NEW g \in shown', g \notin raced' PROVE g[2] >= cleared
      OBVIOUS
    <3>1. CASE g \in shown
      BY <2>1, <3>1
    <3>2. CASE g \in checked.frames
      BY <2>1, <3>2, NoneIsNone
    <3>3. QED  BY <2>1, <3>1, <3>2
  <2>4. QED  BY <2>1, <2>2, <2>3 DEF nodeVars
<1>2. ASSUME NEW e \in 0 .. MaxEdits, DrainFrames(e) PROVE Inv'
  <2>1. Of(frameQueue, e) \in SUBSET Frame
    BY DEF Of
  <2>2. checked' \in {Found(Of(frameQueue, e)), None} /\ (checked' # None => e = epoch)
    BY <1>2 DEF DrainFrames, Drained
  <2>3. Found(Of(frameQueue, e)) \in [frames : SUBSET Frame, epoch : 0 .. MaxEdits]
    BY <2>1 DEF Found
  <2>4. checked' # None => \A g \in checked'.frames : g[2] = checked'.epoch
    BY <2>2 DEF Found, Of
  <2>5. frameQueue' \subseteq Frame
    BY <1>2 DEF DrainFrames
  <2>6. QED  BY <1>2, <2>2, <2>3, <2>4, <2>5 DEF DrainFrames, jobVars, nodeVars
<1>3. QED  BY <1>1, <1>2 DEF Processing

LEMMA EditingInv == Inv /\ Editing => Inv'
<1> SUFFICES ASSUME Inv, Editing PROVE Inv'
  OBVIOUS
<1> USE DEF Inv, Types, TypeOK, Bounded, Current
<1>1. ASSUME NEW how \in {"restart", "startover"}, BeginEdit(how) PROVE Inv'
  <2>1. edit' \in Edit
    BY <1>1 DEF BeginEdit, Edit
  <2>2. QED  BY <1>1, <2>1 DEF BeginEdit, progress, nodeVars
<1>2. CASE BumpEpoch
  <2>1. edit \in Edit /\ edit' = [edit EXCEPT !.at = "reset"] /\ epoch' = epoch + 1
    BY <1>2 DEF BumpEpoch
  <2>2. edit' \in Edit /\ edit'.at = "reset"
    BY <2>1 DEF Edit
  <2>3. epoch' \in 0 .. MaxEdits /\ cleared <= epoch'
    BY <1>2, <2>1, Arithmetic, NoneIsNone DEF BumpEpoch
  <2>4. QED  BY <1>2, <2>2, <2>3 DEF BumpEpoch, progress, nodeVars
<1>3. CASE ResetRows
  <2>1. edit \in Edit /\ edit' = [edit EXCEPT !.at = "finish"]
    BY <1>3 DEF ResetRows
  <2>2. edit' \in Edit /\ edit'.at = "finish"
    BY <2>1 DEF Edit
  <2>3. \/ shown' = {} /\ raced' = {} /\ cleared' = epoch
        \/ UNCHANGED <<shown, raced, cleared>>
    BY <1>3 DEF ResetRows
  <2>4. cleared' <= epoch
    BY <2>3, NoneIsNone
  <2>5. QED  BY <1>3, <2>2, <2>3, <2>4 DEF ResetRows, nodeVars
<1>4. CASE FinishEdit
  <2>1. edit \in Edit
    BY <1>4 DEF FinishEdit
  <2>2. PushedTo(edit.nodes) \subseteq Workers
    BY <2>1 DEF PushedTo, Workers, Edit
  <2>3. render' \in [Nodes -> (0 .. MaxEdits) \cup {None}]
    BY <1>4 DEF FinishEdit
  <2>4. QED  BY <1>4, <2>2, <2>3 DEF FinishEdit, progress
<1>5. CASE Requeue
  BY <1>5 DEF Requeue, jobVars, nodeVars
<1>6. ASSUME NEW n \in Nodes, AbortArrives(n) PROVE Inv'
  <2>1. render' \in [Nodes -> (0 .. MaxEdits) \cup {None}]
    BY <1>6 DEF AbortArrives
  <2>2. QED  BY <1>6, <2>1 DEF AbortArrives, jobVars, progress
<1>7. ASSUME NEW n \in Nodes, AbortLost(n) PROVE Inv'
  <2>1. mishaps' \in 0 .. MaxMishaps
    BY <1>7, MishapBounded DEF AbortLost
  <2>2. QED  BY <1>7, <2>1 DEF AbortLost, jobVars, progress, nodeVars
<1>8. QED  BY <1>1, <1>2, <1>3, <1>4, <1>5, <1>6, <1>7 DEF Editing

LEMMA StepInv == Inv /\ [Next]_vars => Inv'
<1>1. Inv /\ UNCHANGED vars => Inv'
  BY DEF Inv, Types, TypeOK, Bounded, Current, vars, jobVars, progress, nodeVars
<1>2. QED  BY <1>1, RenderingInv, ProcessingInv, EditingInv DEF Next

\* Every variable of FrameProgress keeps its type.
THEOREM TypeCorrect == Spec => []TypeOK
<1>1. Inv => TypeOK
  BY DEF Inv, Types
<1>2. QED  BY <1>1, InitInv, StepInv, PTL DEF Spec

\* No frame rendered before the last start-over of the job is shown again,
\* late, lost or repeated as its report may be, unless the epoch moved between
\* isJobEpochCurrent and the write of addCompletedFrames: the one gap of the
\* fence.
THEOREM NoFrameOutlivesAStartOver == Spec => []ShownFramesAreCurrent
<1>1. Inv => ShownFramesAreCurrent
  BY DEF Inv, Current, ShownFramesAreCurrent
<1>2. QED  BY <1>1, InitInv, StepInv, PTL DEF Spec
=============================================================================
