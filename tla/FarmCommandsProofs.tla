------------------------- MODULE FarmCommandsProofs -------------------------
(***************************************************************************)
(* Proofs about FarmCommands.  An edit is in one place at a time: with a   *)
(* POST, in the file on the share, or dealt with; each fault of its own    *)
(* lets it be applied once more, and what the editor was told follows from *)
(* where the edit is.                                                      *)
(***************************************************************************)
EXTENDS FarmCommands, TLAPS, FiniteSetTheorems, SequenceTheorems

(* Types.  An edit that is on its way has been sent.                       *)

Known ==
    /\ \A n \in Nodes : posted[n] # None =>
         edits[posted[n].edit] # None /\ edits[posted[n].edit].by = n
    /\ \A r \in late : edits[r.edit] # None
    /\ \A e \in ToSet(written) : edits[e] # None
    /\ commands \subseteq ToSet(written) /\ ToSet(listed) \subseteq ToSet(written)

Typed == TypeOK /\ Known

LEMMA AppendIs ==
    ASSUME NEW S, NEW s \in Seq(S), NEW x \in S
    PROVE  /\ Append(s, x) \in Seq(S) /\ Len(Append(s, x)) = Len(s) + 1 /\ Len(s) \in Nat
           /\ \A i \in 1 .. Len(s) : Append(s, x)[i] = s[i]
           /\ Append(s, x)[Len(s) + 1] = x
OBVIOUS

LEMMA ToSetAppend ==
    ASSUME NEW S, NEW s \in Seq(S), NEW x \in S
    PROVE  ToSet(Append(s, x)) = ToSet(s) \cup {x}
<1>1. /\ Append(s, x) \in Seq(S) /\ Len(Append(s, x)) = Len(s) + 1 /\ Len(s) \in Nat
      /\ \A i \in 1 .. Len(s) : Append(s, x)[i] = s[i]
      /\ Append(s, x)[Len(s) + 1] = x
  BY AppendIs
<1>2. DOMAIN s = 1 .. Len(s) /\ DOMAIN Append(s, x) = 1 .. Len(s) + 1
  BY <1>1
<1>3. 1 .. Len(s) + 1 = (1 .. Len(s)) \cup {Len(s) + 1}
  BY <1>1
<1>4. QED  BY <1>1, <1>2, <1>3 DEF ToSet

LEMMA ToSetTail ==
    ASSUME NEW S, NEW s \in Seq(S), s # <<>>
    PROVE  /\ Head(s) \in ToSet(s) /\ ToSet(Tail(s)) \subseteq ToSet(s)
           /\ IsInjective(s) => IsInjective(Tail(s)) /\ ToSet(Tail(s)) = ToSet(s) \ {Head(s)}
           /\ \A i \in DOMAIN Tail(s) : i + 1 \in DOMAIN s /\ Tail(s)[i] = s[i + 1]
           /\ \A i \in DOMAIN s : i # 1 => i - 1 \in DOMAIN Tail(s) /\ Tail(s)[i - 1] = s[i]
<1>1. /\ Head(s) = s[1] /\ Tail(s) \in Seq(S) /\ Len(Tail(s)) = Len(s) - 1 /\ Len(s) \in Nat
      /\ \A i \in 1 .. Len(Tail(s)) : Tail(s)[i] = s[i + 1]
      /\ Len(s) # 0
  BY HeadTailProperties, EmptySeq
<1>2. DOMAIN s = 1 .. Len(s) /\ DOMAIN Tail(s) = 1 .. Len(s) - 1
  BY <1>1
<1>3. /\ \A i \in DOMAIN Tail(s) : i + 1 \in DOMAIN s /\ i + 1 # 1 /\ Tail(s)[i] = s[i + 1]
      /\ \A i \in DOMAIN s : i # 1 => i - 1 \in DOMAIN Tail(s) /\ Tail(s)[i - 1] = s[i]
      /\ 1 \in DOMAIN s
  BY <1>1, <1>2
<1>4. Head(s) \in ToSet(s) /\ ToSet(Tail(s)) \subseteq ToSet(s)
  BY <1>1, <1>3 DEF ToSet
<1>5. ASSUME IsInjective(s)
      PROVE  IsInjective(Tail(s)) /\ ToSet(Tail(s)) = ToSet(s) \ {Head(s)}
  <2>1. \A a, b \in DOMAIN s : s[a] = s[b] => a = b
    BY <1>5 DEF IsInjective
  <2>2. \A a, b \in DOMAIN Tail(s) : a \in Nat /\ b \in Nat
    BY <1>1, <1>2
  <2>3. ASSUME NEW a \in DOMAIN Tail(s), NEW b \in DOMAIN Tail(s), Tail(s)[a] = Tail(s)[b]
        PROVE  a = b
    <3>1. a + 1 = b + 1
      BY <1>3, <2>1, <2>3
    <3>2. QED  BY <2>2, <3>1
  <2>4. \A i \in DOMAIN Tail(s) : Tail(s)[i] # Head(s)
    BY <1>1, <1>3, <2>1
  <2>5. \A i \in DOMAIN s : s[i] # Head(s) => \E k \in DOMAIN Tail(s) : Tail(s)[k] = s[i]
    BY <1>1, <1>3
  <2>6. QED  BY <1>4, <2>3, <2>4, <2>5 DEF IsInjective, ToSet
<1>6. QED  BY <1>3, <1>4, <1>5

\* A listing of files names each of them once.
LEMMA ListingType ==
    ASSUME TypeOK, NEW S \in SUBSET Edits, NEW s \in Listings(S)
    PROVE  s \in Seq(Edits) /\ ToSet(s) = S
<1>1. IsFiniteSet(S) /\ MaxEdits \in Nat
  <2>1. IsFiniteSet(1 .. MaxEdits)
    BY FarmCommandsAssumption, FS_Interval
  <2>2. QED  BY <2>1, FarmCommandsAssumption, FS_Subset DEF Edits
<1>2. Cardinality(S) \in Nat
  BY <1>1, FS_CardinalityType
<1>3. s \in [1 .. Cardinality(S) -> S] /\ ToSet(s) = S
  BY DEF Listings
<1>4. s \in Seq(S)
  BY <1>2, <1>3, SeqDef
<1>5. QED  BY <1>3, <1>4, SeqMonotonic

\* applyEditLocally counts an application exactly when it answers 200.
LEMMA ApplyStep ==
    ASSUME TypeOK, edits' \in [Edits -> Edit \cup {None}], NEW e \in Edits, edits'[e] # None,
           ApplyOrRefuse(e)
    PROVE  /\ jobs' \in [Jobs -> Row \cup {None}] /\ applied' \in [Edits -> Nat]
           /\ \A d \in Edits : d # e => applied'[d] = applied[d]
           /\ Status(e) \in {"200", "404", "503"}
           /\ applied'[e] = applied[e] + (IF Status(e) = "200" THEN 1 ELSE 0)
<1>1. Status(e) \in {"200", "404", "503"}
  BY DEF Status
<1>2. CASE Status(e) # "200"
  <2>1. UNCHANGED <<jobs, applied>>
    BY <1>2 DEF ApplyOrRefuse
  <2>2. jobs \in [Jobs -> Row \cup {None}] /\ applied \in [Edits -> Nat]
    BY DEF TypeOK
  <2>3. applied[e] \in Nat /\ applied[e] = applied[e] + 0
    BY <2>2
  <2>4. QED  BY <1>1, <1>2, <2>1, <2>2, <2>3
<1>3. CASE Status(e) = "200"
  <2> DEFINE j == edits'[e].job
  <2>1. edits'[e] \in Edit /\ j \in Jobs /\ edits'[e].form \in Jobs
    BY DEF Edit
  <2>2. Exists(j) /\ jobs' = [jobs EXCEPT ![j] = EditedRow(e)]
        /\ applied' = [applied EXCEPT ![e] = @ + 1]
    BY <1>3 DEF Status, ApplyOrRefuse, Apply
  <2>3. jobs[j] \in Row
    BY <2>1, <2>2 DEF Exists, TypeOK
  <2>4. jobs[j].epoch + (IF edits'[e].mode = "restart" THEN 1 ELSE 0) \in Nat
    BY <2>3 DEF Row
  <2>5. EditedRow(e) \in Row
    BY <2>1, <2>4 DEF EditedRow, Row
  <2>6. jobs' \in [Jobs -> Row \cup {None}]
    BY <2>1, <2>2, <2>5 DEF TypeOK
  <2>7. applied \in [Edits -> Nat] /\ applied[e] + 1 \in Nat
    BY DEF TypeOK
  <2>8. /\ applied' \in [Edits -> Nat] /\ applied'[e] = applied[e] + 1
        /\ \A d \in Edits : d # e => applied'[d] = applied[d]
    BY <2>2, <2>7
  <2>9. QED  BY <1>1, <1>3, <2>6, <2>8
<1>4. QED  BY <1>2, <1>3

\* The callback of an edit.
LEMMA DoneStep ==
    ASSUME TypeOK, NEW n \in Nodes, NEW e \in Edits, NEW what \in Answers, Done(n, e, what)
    PROVE  /\ answer' \in [Edits -> Answers] /\ answer'[e] = what
           /\ \A d \in Edits : d # e => answer'[d] = answer[d]
           /\ posted' \in [Nodes -> Post \cup {None}] /\ posted'[n] = None
           /\ \A m \in Nodes : m # n => posted'[m] = posted[m]
           /\ dialog' \in [Nodes -> Jobs \cup {None}]
BY DEF Done, TypeOK

LEMMA ExcuseIs ==
    ASSUME TypeOK, NEW S, Excuse(S)
    PROVE  /\ excuses' \in [Edits -> Nat]
           /\ \A e \in Edits : excuses'[e] = excuses[e] + (IF e \in S THEN 1 ELSE 0)
           /\ \A e \in Edits : excuses[e] \in Nat /\ excuses'[e] \in Nat
<1>1. excuses \in [Edits -> Nat]
  BY DEF TypeOK
<1>2. \A e \in Edits : /\ (IF e \in S THEN excuses[e] + 1 ELSE excuses[e]) \in Nat
                      /\ (IF e \in S THEN excuses[e] + 1 ELSE excuses[e])
                           = excuses[e] + (IF e \in S THEN 1 ELSE 0)
  BY <1>1
<1>3. QED  BY <1>1, <1>2 DEF Excuse

LEMMA TypedEditor ==
    ASSUME Typed, NEW n \in Nodes, EditorNext(n)
    PROVE  Typed'
<1>0. TypeOK /\ Known
  BY DEF Typed
<1>1. ASSUME NEW j \in Jobs, OpenJobEditor(n, j) PROVE Typed'
  BY <1>0, <1>1 DEF OpenJobEditor, Typed, TypeOK, Known, leaderVars, storeVars, shareVars,
     pollVars, historyVars, excuseVars
<1>2. CASE FinishOpenJobEditor(n)
  <2>1. opening[n] \in Jobs
    BY <1>0, <1>2 DEF FinishOpenJobEditor, TypeOK
  <2>2. opening' \in [Nodes -> Jobs \cup {None}] /\ dialog' \in [Nodes -> Jobs \cup {None}]
    BY <1>0, <1>2, <2>1 DEF FinishOpenJobEditor, TypeOK
  <2>3. QED
    BY <1>0, <1>2, <2>2 DEF FinishOpenJobEditor, Typed, TypeOK, Known, leaderVars, storeVars,
       shareVars, pollVars, historyVars, excuseVars
<1>3. CASE CloseJobEditor(n)
  BY <1>0, <1>3 DEF CloseJobEditor, Typed, TypeOK, Known, leaderVars, storeVars, shareVars,
     pollVars, historyVars, excuseVars
<1>4. ASSUME NEW mode \in Modes, ApplyJobEdit(n, mode) PROVE Typed'
  <2>1. [job |-> dialog[n], mode |-> mode, fetched |-> "waiting"] \in Form
    BY <1>0, <1>4 DEF ApplyJobEdit, TypeOK, Form
  <2>2. applying' \in [Nodes -> Form \cup {None}]
    BY <1>0, <1>4, <2>1 DEF ApplyJobEdit, TypeOK
  <2>3. QED
    BY <1>0, <1>4, <2>2 DEF ApplyJobEdit, Typed, TypeOK, Known, leaderVars, storeVars,
       shareVars, pollVars, historyVars, excuseVars
<1>5. CASE FetchManifest(n)
  <2>1. applying[n] \in Form
    BY <1>0, <1>5 DEF FetchManifest, TypeOK
  <2>2. applying' \in [Nodes -> Form \cup {None}]
    BY <1>0, <1>5, <2>1 DEF FetchManifest, TypeOK, Form
  <2>3. QED
    BY <1>0, <1>5, <2>2 DEF FetchManifest, Typed, TypeOK, Known, leaderVars, storeVars,
       shareVars, pollVars, historyVars, excuseVars
<1>6. CASE GiveUpApply(n)
  BY <1>0, <1>6 DEF GiveUpApply, Typed, TypeOK, Known, leaderVars, storeVars, shareVars,
     pollVars, historyVars, excuseVars
<1>7. CASE FinishApplyJobEdit(n)
  <2>1. PICK e \in Edits :
          /\ Sent = 1 .. e - 1 /\ Fetched(n) /\ Applicable(n)
          /\ applying' = [applying EXCEPT ![n] = None]
          /\ edits' = [edits EXCEPT ![e] = EditOf(n)]
          /\ IF n = leader
             THEN /\ ApplyOrRefuse(e)
                  /\ Done(n, e, Verdict(Status(e)))
             ELSE /\ posted' = [posted EXCEPT ![n] =
                        IF leader = None THEN [edit |-> e, to |-> n, status |-> "none"]
                        ELSE [edit |-> e, to |-> leader, status |-> "sent"]]
                  /\ answer' = [answer EXCEPT ![e] = "sent"]
                  /\ UNCHANGED <<jobs, applied, dialog>>
    BY <1>7 DEF FinishApplyJobEdit
  <2>2. UNCHANGED <<leaderVars, snapshot, opening, late, shareVars, pollVars, excuseVars, mishaps>>
    BY <1>7 DEF FinishApplyJobEdit
  <2>3. EditOf(n) \in Edit /\ EditOf(n).by = n
    <3>1. applying[n] \in Form /\ dialog[n] \in Jobs
      BY <1>0, <2>1 DEF Fetched, Applicable, TypeOK
    <3>2. QED  BY <3>1 DEF EditOf, Edit, Form
  <2>4. /\ edits' \in [Edits -> Edit \cup {None}] /\ edits'[e] # None /\ edits'[e].by = n
        /\ \A d \in Edits : edits[d] # None => edits'[d] = edits[d]
    <3>1. edits[e] = None
      BY <2>1, FarmCommandsAssumption DEF Sent, Edits
    <3>2. QED  BY <1>0, <2>1, <2>3, <3>1, AbsenceAssumption DEF TypeOK
  <2>5. /\ jobs' \in [Jobs -> Row \cup {None}] /\ applied' \in [Edits -> Nat]
        /\ answer' \in [Edits -> Answers] /\ dialog' \in [Nodes -> Jobs \cup {None}]
        /\ posted' \in [Nodes -> Post \cup {None}]
        /\ \A m \in Nodes : posted'[m] # None =>
             (m = n /\ posted'[m].edit = e) \/ posted'[m] = posted[m]
    <3>1. CASE n = leader
      <4>1. ApplyOrRefuse(e) /\ Done(n, e, Verdict(Status(e)))
        BY <2>1, <3>1
      <4>2. /\ jobs' \in [Jobs -> Row \cup {None}] /\ applied' \in [Edits -> Nat]
            /\ Status(e) \in {"200", "404", "503"}
        BY <1>0, <2>4, <4>1, ApplyStep
      <4>3. Verdict(Status(e)) \in Answers
        BY <4>2 DEF Verdict, Answers
      <4>4. QED  BY <1>0, <4>1, <4>2, <4>3, DoneStep
    <3>2. CASE n # leader
      <4>1. PICK p : p = IF leader = None THEN [edit |-> e, to |-> n, status |-> "none"]
                         ELSE [edit |-> e, to |-> leader, status |-> "sent"]
        OBVIOUS
      <4>2. p \in Post /\ p.edit = e
        BY <1>0, <4>1 DEF Post, TypeOK
      <4>3. posted' = [posted EXCEPT ![n] = p] /\ answer' = [answer EXCEPT ![e] = "sent"]
            /\ UNCHANGED <<jobs, applied, dialog>>
        BY <2>1, <3>2, <4>1
      <4>4. QED  BY <1>0, <4>2, <4>3 DEF TypeOK, Answers
    <3>3. QED  BY <3>1, <3>2
  <2>6. TypeOK'
    BY <1>0, <2>1, <2>2, <2>4, <2>5 DEF TypeOK, leaderVars, shareVars, pollVars, excuseVars
  <2>7. Known'
    <3>1. \A m \in Nodes : posted'[m] # None =>
             edits'[posted'[m].edit] # None /\ edits'[posted'[m].edit].by = m
      <4>1. \A m \in Nodes : posted[m] # None => posted[m].edit \in Edits
        BY <1>0 DEF TypeOK, Post
      <4>2. QED  BY <1>0, <2>4, <2>5, <4>1 DEF Known
    <3>2. \A r \in late : r.edit \in Edits
      BY <1>0 DEF TypeOK
    <3>3. ToSet(written) \subseteq Edits
      BY <1>0 DEF TypeOK, ToSet
    <3>4. QED  BY <1>0, <2>2, <2>4, <3>1, <3>2, <3>3 DEF Known, shareVars, pollVars
  <2>8. QED  BY <2>6, <2>7 DEF Typed
<1>8. QED  BY <1>1, <1>2, <1>3, <1>4, <1>5, <1>6, <1>7 DEF EditorNext

LEMMA TypedPost ==
    ASSUME Typed, NEW n \in Nodes, PostNext(n)
    PROVE  Typed'
<1>0. TypeOK /\ Known /\ posted[n] # None
  BY DEF Typed, PostNext, ReceiveEdit, LosePost, TimeOut, StampCommand, Answered,
     ShareUnwritable
<1> PICK p : p = posted[n]
  OBVIOUS
<1>a. p \in Post /\ p.edit \in Edits /\ edits[p.edit] # None /\ p.to \in Nodes
  BY <1>0 DEF TypeOK, Known, Post
<1>b. ASSUME NEW s \in {"200", "404", "503", "none"}, posted' = [posted EXCEPT ![n].status = s]
      PROVE  /\ posted' \in [Nodes -> Post \cup {None}]
             /\ \A m \in Nodes : posted'[m] # None =>
                  posted[m] # None /\ posted'[m].edit = posted[m].edit
  <2>1. [p EXCEPT !.status = s] \in Post /\ [p EXCEPT !.status = s].edit = p.edit
    BY <1>a DEF Post
  <2>2. posted' = [posted EXCEPT ![n] = [p EXCEPT !.status = s]]
    BY <1>b
  <2>3. QED  BY <1>0, <1>a, <2>1, <2>2 DEF TypeOK
<1>1. CASE ReceiveEdit(n)
  <2>1. \E s \in {"200", "404", "503"} : posted' = [posted EXCEPT ![n].status = s]
    BY <1>1 DEF ReceiveEdit, Status
  <2>2. jobs' \in [Jobs -> Row \cup {None}] /\ applied' \in [Edits -> Nat]
    <3>1. CASE Serves(p.to)
      <4>1. ApplyOrRefuse(p.edit) /\ edits' = edits
        BY <1>1, <3>1 DEF ReceiveEdit
      <4>2. QED  BY <1>0, <1>a, <4>1, ApplyStep DEF TypeOK
    <3>2. CASE ~Serves(p.to)
      BY <1>0, <1>1, <3>2 DEF ReceiveEdit, TypeOK
    <3>3. QED  BY <3>1, <3>2
  <2>3. /\ posted' \in [Nodes -> Post \cup {None}]
        /\ \A m \in Nodes : posted'[m] # None =>
             posted[m] # None /\ posted'[m].edit = posted[m].edit
    BY <1>b, <2>1
  <2>4. UNCHANGED <<edits, leaderVars, snapshot, opening, dialog, applying, late, shareVars,
                    pollVars, answer, excuseVars, mishaps>>
    BY <1>1 DEF ReceiveEdit
  <2>5. QED
    BY <1>0, <2>2, <2>3, <2>4 DEF Typed, TypeOK, Known, leaderVars, shareVars, pollVars,
       excuseVars
<1>2. CASE LosePost(n)
  <2>1. mishaps' \in 0 .. MaxMishaps /\ excuses' \in [Edits -> Nat]
    BY <1>0, <1>2, FarmCommandsAssumption, ExcuseIs DEF LosePost, Strike, TypeOK
  <2>2. QED
    BY <1>0, <1>2, <1>b, <2>1 DEF LosePost, Typed, TypeOK, Known, leaderVars, storeVars,
       shareVars, pollVars, historyVars, excuseVars
<1>3. CASE TimeOut(n)
  <2>1. mishaps' \in 0 .. MaxMishaps /\ excuses' \in [Edits -> Nat]
    <3>1. mishaps' \in 0 .. MaxMishaps
      BY <1>0, <1>3, FarmCommandsAssumption DEF TimeOut, Strike, TypeOK
    <3>2. PICK S : Excuse(S)
      BY <1>3 DEF TimeOut
    <3>3. QED  BY <1>0, <3>1, <3>2, ExcuseIs
  <2>2. late' \subseteq [edit : Edits, to : Nodes] /\ \A r \in late' : edits[r.edit] # None
    BY <1>0, <1>3, <1>a DEF TimeOut, TypeOK, Known
  <2>3. QED
    BY <1>0, <1>3, <1>b, <2>1, <2>2 DEF TimeOut, Typed, TypeOK, Known, leaderVars, storeVars,
       shareVars, pollVars, historyVars, excuseVars
<1>4. CASE Answered(n)
  <2>1. Verdict(p.status) \in Answers /\ Done(n, p.edit, Verdict(p.status))
    BY <1>4, <1>a DEF Answered, Verdict, Answers, Post
  <2>2. /\ answer' \in [Edits -> Answers] /\ dialog' \in [Nodes -> Jobs \cup {None}]
        /\ posted' \in [Nodes -> Post \cup {None}]
        /\ \A m \in Nodes : posted'[m] # None => posted'[m] = posted[m]
    BY <1>0, <1>a, <2>1, DoneStep
  <2>3. /\ commands' \subseteq Edits /\ commands' \subseteq ToSet(written)
        /\ overtaken' \subseteq Edits
    BY <1>0, <1>4, <1>a DEF Answered, Stamped, ShowCommand, TypeOK, Known
  <2>4. UNCHANGED <<leaderVars, storeVars, opening, applying, late, edits, processed, written,
                    expired, pollVars, applied, unmoved, excuses, mishaps>>
    BY <1>4 DEF Answered
  <2>5. TypeOK'
    BY <1>0, <2>2, <2>3, <2>4 DEF TypeOK, leaderVars, storeVars, pollVars
  <2>6. Known'
    BY <1>0, <1>a, <2>2, <2>3, <2>4 DEF Known, pollVars
  <2>7. QED  BY <2>5, <2>6 DEF Typed
<1>5. CASE ShareUnwritable(n)
  <2>1. "NoResponse" \in Answers /\ Done(n, p.edit, "NoResponse")
    BY <1>5 DEF ShareUnwritable, Answers
  <2>2. /\ answer' \in [Edits -> Answers] /\ dialog' \in [Nodes -> Jobs \cup {None}]
        /\ posted' \in [Nodes -> Post \cup {None}]
        /\ \A m \in Nodes : posted'[m] # None => posted'[m] = posted[m]
    BY <1>0, <1>a, <2>1, DoneStep
  <2>3. mishaps' \in 0 .. MaxMishaps
    BY <1>0, <1>5, FarmCommandsAssumption DEF ShareUnwritable, Strike, TypeOK
  <2>4. UNCHANGED <<leaderVars, storeVars, opening, applying, late, edits, shareVars, pollVars,
                    applied, excuseVars>>
    BY <1>5 DEF ShareUnwritable
  <2>5. TypeOK'
    BY <1>0, <2>2, <2>3, <2>4 DEF TypeOK, leaderVars, storeVars, shareVars, pollVars, excuseVars
  <2>6. Known'
    BY <1>0, <2>2, <2>4 DEF Known, shareVars, pollVars
  <2>7. QED  BY <2>5, <2>6 DEF Typed
<1>6. CASE StampCommand(n)
  <2>1. written' = Append(written, p.edit) /\ written \in Seq(Edits)
    BY <1>0, <1>6 DEF StampCommand, TypeOK
  <2>2. written' \in Seq(Edits) /\ ToSet(written') = ToSet(written) \cup {p.edit}
    BY <1>a, <2>1, ToSetAppend
  <2>3. UNCHANGED <<leaderVars, storeVars, editorVars, late, edits, commands, processed,
                    expired, pollVars, historyVars, mishaps>>
    BY <1>6 DEF StampCommand
  <2>4. TypeOK'
    BY <1>0, <2>2, <2>3 DEF TypeOK, leaderVars, storeVars, editorVars, pollVars, historyVars,
       excuseVars
  <2>5. Known'
    BY <1>0, <1>a, <2>2, <2>3 DEF Known, editorVars, pollVars
  <2>6. QED  BY <2>4, <2>5 DEF Typed
<1>7. QED  BY <1>1, <1>2, <1>3, <1>4, <1>5, <1>6 DEF PostNext

LEMMA TypedLate == ASSUME Typed, ReceiveLate PROVE Typed'
<1>0. TypeOK /\ Known
  BY DEF Typed
<1>1. PICK r \in late :
        /\ late' = late \ {r} /\ UNCHANGED edits
        /\ IF Serves(r.to) THEN ApplyOrRefuse(r.edit) ELSE UNCHANGED <<jobs, applied>>
        /\ UNCHANGED <<leaderVars, snapshot, editorVars, shareVars, pollVars, answer, excuseVars, mishaps>>
  BY DEF ReceiveLate
<1>2. r.edit \in Edits /\ edits[r.edit] # None
  BY <1>0 DEF TypeOK, Known
<1>3. jobs' \in [Jobs -> Row \cup {None}] /\ applied' \in [Edits -> Nat]
  <2>1. CASE Serves(r.to)
    BY <1>0, <1>1, <1>2, <2>1, ApplyStep DEF TypeOK
  <2>2. CASE ~Serves(r.to)
    BY <1>0, <1>1, <2>2 DEF TypeOK
  <2>3. QED  BY <2>1, <2>2
<1>4. QED
  BY <1>0, <1>1, <1>3 DEF Typed, TypeOK, Known, leaderVars, editorVars, shareVars, pollVars,
     excuseVars

LEMMA TypedPoll == ASSUME Typed, PollNext PROVE Typed'
<1>0. TypeOK /\ Known
  BY DEF Typed
<1>1. CASE ListCommands
  <2>1. listed' \in Listings(commands) /\ commands \in SUBSET Edits
    BY <1>0, <1>1 DEF ListCommands, InIssueOrder, TypeOK
  <2>2. listed' \in Seq(Edits) /\ ToSet(listed') = commands
    BY <1>0, <2>1, ListingType
  <2>3. QED
    BY <1>0, <1>1, <2>2 DEF ListCommands, Typed, TypeOK, Known, leaderVars, storeVars,
       editorVars, shareVars, historyVars, excuseVars
<1>2. CASE TakeCommand
  <2> PICK e : e = Head(listed)
    OBVIOUS
  <2>1. /\ listed # <<>> /\ listed' = Tail(listed) /\ acking' = e /\ edits' = edits
        /\ IF e \in expired THEN UNCHANGED <<jobs, applied>> ELSE ApplyOrRefuse(e)
        /\ UNCHANGED <<leaderVars, snapshot, editorVars, late, shareVars, answer, excuseVars, mishaps>>
    BY <1>2 DEF TakeCommand, ToAck
  <2>2. listed \in Seq(Edits)
    BY <1>0 DEF TypeOK
  <2>3. e \in ToSet(listed) /\ ToSet(Tail(listed)) \subseteq ToSet(listed)
    BY <2>1, <2>2, ToSetTail
  <2>4. Tail(listed) \in Seq(Edits) /\ e \in Edits
    BY <2>1, <2>2
  <2>5. edits[e] # None
    BY <1>0, <2>3 DEF Known
  <2>6. jobs' \in [Jobs -> Row \cup {None}] /\ applied' \in [Edits -> Nat]
    <3>1. CASE e \in expired
      BY <1>0, <2>1, <3>1 DEF TypeOK
    <3>2. CASE e \notin expired
      BY <1>0, <2>1, <2>4, <2>5, <3>2, ApplyStep DEF TypeOK
    <3>3. QED  BY <3>1, <3>2
  <2>7. TypeOK'
    BY <1>0, <2>1, <2>4, <2>6 DEF TypeOK, leaderVars, editorVars, shareVars, excuseVars
  <2>8. Known'
    BY <1>0, <2>1, <2>3 DEF Known, editorVars, shareVars
  <2>9. QED  BY <2>7, <2>8 DEF Typed
<1>3. CASE Expire
  BY <1>0, <1>3 DEF Expire, Typed, TypeOK, Known, leaderVars, storeVars, editorVars, pollVars,
     historyVars, excuseVars
<1>4. CASE FailAck
  <2>1. mishaps' \in 0 .. MaxMishaps /\ excuses' \in [Edits -> Nat]
    BY <1>0, <1>4, FarmCommandsAssumption, ExcuseIs DEF FailAck, Strike, TypeOK
  <2>2. QED
    BY <1>0, <1>4, <2>1 DEF FailAck, Typed, TypeOK, Known, leaderVars, storeVars, editorVars,
       shareVars
<1>5. CASE AckCommand
  <2>1. acking \in Edits
    BY <1>0, <1>5 DEF AckCommand, TypeOK
  <2>2. QED
    BY <1>0, <1>5, <2>1 DEF AckCommand, Moved, Typed, TypeOK, Known, leaderVars, storeVars,
       editorVars, historyVars, excuseVars
<1>6. QED  BY <1>1, <1>2, <1>3, <1>4, <1>5 DEF PollNext

LEMMA TypedLeader == ASSUME Typed, LeaderNext PROVE Typed'
<1>0. TypeOK /\ Known
  BY DEF Typed
<1>a. ASSUME NEW f, Strike(f) PROVE mishaps' \in 0 .. MaxMishaps
  BY <1>0, <1>a, FarmCommandsAssumption DEF Strike, TypeOK
<1>1. CASE TakeSnapshot
  BY <1>0, <1>1 DEF TakeSnapshot, Typed, TypeOK, Known, leaderVars, editorVars, shareVars,
     pollVars, historyVars, excuseVars
<1>2. ASSUME NEW j \in Jobs, DeleteJob(j) PROVE Typed'
  <2>1. jobs' \in [Jobs -> Row \cup {None}] /\ mishaps' \in 0 .. MaxMishaps
    BY <1>0, <1>2, <1>a DEF DeleteJob, TypeOK
  <2>2. QED
    BY <1>0, <1>2, <2>1 DEF DeleteJob, Typed, TypeOK, Known, leaderVars, editorVars,
       shareVars, pollVars, historyVars, excuseVars
<1>3. CASE Crash
  <2>1. /\ leader \in Nodes /\ leader' = None /\ ready' = FALSE
        /\ listed' = <<>> /\ acking' = 0
        /\ opening' = [opening EXCEPT ![leader] = None]
        /\ dialog' = [dialog EXCEPT ![leader] = None]
        /\ applying' = [applying EXCEPT ![leader] = None]
        /\ late' \subseteq late /\ mishaps' \in 0 .. MaxMishaps
        /\ excuses' \in [Edits -> Nat]
        /\ UNCHANGED <<storeVars, edits, shareVars, answer, applied, unmoved, overtaken>>
    BY <1>0, <1>3, <1>a, ExcuseIs DEF Crash, TypeOK
  <2>2. \A m \in Nodes : posted'[m] \in {None, posted[m], [posted[m] EXCEPT !.status = "none"]}
    BY <1>3 DEF Crash
  <2>3. posted' = [m \in Nodes |-> posted'[m]]
    BY <1>3 DEF Crash
  <2>4. \A p \in Post : [p EXCEPT !.status = "none"] \in Post
                        /\ [p EXCEPT !.status = "none"].edit = p.edit
    BY DEF Post
  <2>5. ASSUME NEW m \in Nodes, posted'[m] # None
        PROVE  posted'[m] \in Post /\ posted[m] # None /\ posted'[m].edit = posted[m].edit
    <3>1. posted[m] # None
      BY <1>3, <2>5 DEF Crash
    <3>2. posted[m] \in Post
      BY <1>0, <3>1 DEF TypeOK
    <3>3. QED  BY <2>2, <2>4, <2>5, <3>1, <3>2
  <2>6. posted' \in [Nodes -> Post \cup {None}]
    BY <2>3, <2>5
  <2>7. TypeOK'
    <3>1. /\ opening' \in [Nodes -> Jobs \cup {None}] /\ dialog' \in [Nodes -> Jobs \cup {None}]
          /\ applying' \in [Nodes -> Form \cup {None}]
      BY <1>0, <2>1 DEF TypeOK
    <3>2. listed' \in Seq(Edits) /\ late' \subseteq [edit : Edits, to : Nodes]
      BY <1>0, <2>1 DEF TypeOK
    <3>3. QED
      BY <1>0, <2>1, <2>6, <3>1, <3>2 DEF TypeOK, storeVars, shareVars
  <2>8. ToSet(listed') = {}
    BY <2>1 DEF ToSet
  <2>9. Known'
    BY <1>0, <2>1, <2>5, <2>8 DEF Known, shareVars
  <2>10. QED  BY <2>7, <2>9 DEF Typed
<1>4. CASE LoseLeadership
  <2>1. mishaps' \in 0 .. MaxMishaps
    BY <1>4, <1>a DEF LoseLeadership
  <2>2. QED
    BY <1>0, <1>4, <2>1 DEF LoseLeadership, Typed, TypeOK, Known, storeVars, editorVars,
       shareVars, pollVars, historyVars, excuseVars
<1>5. ASSUME NEW n \in Nodes, BecomeLeader(n) PROVE Typed'
  BY <1>0, <1>5 DEF BecomeLeader, Typed, TypeOK, Known, storeVars, editorVars, shareVars,
     pollVars, historyVars, excuseVars
<1>6. CASE DatabaseReady
  BY <1>0, <1>6 DEF DatabaseReady, Typed, TypeOK, Known, editorVars, shareVars, pollVars,
     historyVars, excuseVars
<1>7. QED  BY <1>1, <1>2, <1>3, <1>4, <1>5, <1>6 DEF LeaderNext

LEMMA TypedInit == Init => Typed
<1> SUFFICES ASSUME Init PROVE Typed
  OBVIOUS
<1>1. \A j \in Jobs : [edit |-> 0, form |-> j, epoch |-> 0] \in Row
  BY DEF Row
<1>2. TypeOK
  BY <1>1, FarmCommandsAssumption DEF Init, TypeOK, Answers
<1>3. ToSet(written) = {} /\ ToSet(listed) = {}
  BY DEF Init, ToSet
<1>4. QED  BY <1>2, <1>3 DEF Init, Typed, Known

LEMMA TypedStep == Typed /\ [Next]_vars => Typed'
<1>1. Typed /\ UNCHANGED vars => Typed'
  BY DEF vars, leaderVars, storeVars, editorVars, shareVars, pollVars, historyVars, excuseVars, Typed,
     TypeOK, Known
<1>2. QED
  BY <1>1, TypedEditor, TypedPost, TypedLate, TypedPoll, TypedLeader DEF Next

\* Rows, forms, POSTs, files and answers are what they should be in every
\* state of the farm: an edit without a job, for one, is never sent.
THEOREM TypeCorrect == Spec => []TypeOK
<1>1. Typed => TypeOK
  BY DEF Typed
<1>2. QED  BY <1>1, TypedInit, TypedStep, PTL DEF Spec

-----------------------------------------------------------------------------
(* Where an edit is, and how often it may have been applied.                *)

IsLate(e) == \E r \in late : r.edit = e

\* The applications of an edit, a request that is still under way included.
Spent(e) == applied[e] + (IF IsLate(e) THEN 1 ELSE 0)

PostOf(n, e) == posted[n] # None /\ posted[n].edit = e

\* An edit that waits with a POST, or on the share to be taken up, has been
\* applied at most once per fault of its own; what has been refused was never
\* applied.
Account(e) ==
    /\ Spent(e) <= 1 + excuses[e]
    /\ \A q, r \in late : q.edit = e /\ r.edit = e => q = r
    /\ edits[e] = None => Spent(e) = 0
    /\ \A n \in Nodes : PostOf(n, e) =>
         /\ answer[e] = "sent"
         /\ posted[n].status \in {"sent", "404", "503"} => Spent(e) = 0
         /\ posted[n].status = "200" => applied[e] > 0
         /\ posted[n].status = "none" => Spent(e) <= excuses[e]
         /\ e \in ToSet(written) => posted[n].status = "none"
    /\ \A m, n \in Nodes : PostOf(m, e) /\ PostOf(n, e) => m = n
    /\ e \in commands /\ acking # e => Spent(e) <= excuses[e]
    /\ answer[e] = "Applied" => applied[e] > 0
    /\ answer[e] \in {"JobNotFound", "LeaderError"} => Spent(e) = 0
    /\ answer[e] = "QueuedToShare" <=> e \in commands \cup processed

\* The poll deals with each file of its listing once.
Polled ==
    /\ acking # 0 => acking \in commands
    /\ ToSet(listed) \subseteq commands \ {acking}
    /\ IsInjective(listed) /\ IsInjective(written)
    /\ commands \cap processed = {} /\ processed \subseteq ToSet(written)

LEMMA SpentIs ==
    ASSUME TypeOK, NEW e \in Edits
    PROVE  /\ applied[e] \in Nat /\ Spent(e) \in Nat
           /\ IsLate(e) => Spent(e) = applied[e] + 1
           /\ ~IsLate(e) => Spent(e) = applied[e]
           /\ Spent(e) = 0 => applied[e] = 0 /\ ~IsLate(e)
BY DEF TypeOK, Spent

\* Applied no more often than before, an edit has not spent more.
LEMMA SpendsNoMore ==
    ASSUME TypeOK, TypeOK', NEW e \in Edits, applied'[e] = applied[e],
           \A r \in late' : r.edit = e => r \in late
    PROVE  Spent(e)' <= Spent(e)
<1>1. IsLate(e)' => IsLate(e)
  BY DEF IsLate
<1>2. /\ Spent(e)' \in Nat /\ Spent(e) \in Nat /\ applied[e] \in Nat
      /\ IsLate(e) => Spent(e) = applied[e] + 1
      /\ ~IsLate(e) => Spent(e) = applied[e]
      /\ IsLate(e)' => Spent(e)' = applied'[e] + 1
      /\ ~IsLate(e)' => Spent(e)' = applied'[e]
  <2>1. applied[e] \in Nat /\ applied'[e] \in Nat
    BY DEF TypeOK
  <2>2. CASE IsLate(e)'
    BY <1>1, <2>1, <2>2 DEF Spent
  <2>3. CASE ~IsLate(e)'
    <3>1. Spent(e)' = applied'[e] /\ Spent(e)' \in Nat
      BY <2>1, <2>3 DEF Spent
    <3>2. QED  BY <2>1, <2>3, <3>1, SpentIs
  <2>4. QED  BY <2>2, <2>3
<1>3. CASE IsLate(e)'
  BY <1>1, <1>2, <1>3
<1>4. CASE ~IsLate(e)'
  BY <1>2, <1>4
<1>5. QED  BY <1>3, <1>4

\* A step that does not concern edit e: what was applied is excused as it was.
LEMMA Unconcerned ==
    ASSUME Typed, Typed', NEW e \in Edits, Account(e),
           applied'[e] = applied[e], answer'[e] = answer[e], edits'[e] = edits[e],
           \A r \in late' : r.edit = e => r \in late,
           \A n \in Nodes : PostOf(n, e)' => PostOf(n, e) /\ posted'[n].status = posted[n].status,
           excuses'[e] = excuses[e],
           e \in commands' /\ acking' # e => e \in commands /\ acking # e,
           e \in ToSet(written') <=> e \in ToSet(written),
           e \in commands \cup processed <=> e \in commands' \cup processed'
    PROVE  Account(e)'
<1>1. TypeOK /\ TypeOK'
  BY DEF Typed
<1>2. Spent(e)' <= Spent(e)
  BY <1>1, SpendsNoMore
<1>a. excuses[e] \in Nat
  BY <1>1 DEF TypeOK
<1>b. Spent(e) \in Nat /\ applied[e] \in Nat
  BY <1>1, SpentIs
<1>c. applied'[e] \in Nat /\ Spent(e)' = applied'[e] + (IF IsLate(e)' THEN 1 ELSE 0)
  BY <1>1 DEF TypeOK, Spent
<1>3. Spent(e) \in Nat /\ Spent(e)' \in Nat
  BY <1>b, <1>c
<1>4. /\ Spent(e) <= 1 + excuses[e] => Spent(e)' <= 1 + excuses'[e]
      /\ Spent(e) <= excuses[e] => Spent(e)' <= excuses'[e]
      /\ Spent(e) = 0 => Spent(e)' = 0
  BY <1>2, <1>3, <1>a
<1>5. QED  BY <1>4 DEF Account

\* A fault of the edit's own: one application more may follow.
LEMMA Excused ==
    ASSUME Typed, Typed', NEW e \in Edits, Account(e),
           applied'[e] = applied[e], answer'[e] = answer[e], edits'[e] = edits[e],
           \A r \in late' : r.edit = e => r \in late,
           \A n \in Nodes : PostOf(n, e)' =>
              PostOf(n, e) /\ posted'[n].status \in {posted[n].status, "none"},
           excuses'[e] = excuses[e] + 1, UNCHANGED shareVars
    PROVE  Account(e)'
<1>1. TypeOK /\ TypeOK'
  BY DEF Typed
<1>2. Spent(e)' <= Spent(e)
  BY <1>1, SpendsNoMore
<1>a. excuses[e] \in Nat
  BY <1>1 DEF TypeOK
<1>b. Spent(e) \in Nat /\ applied[e] \in Nat
  BY <1>1, SpentIs
<1>c. applied'[e] \in Nat /\ Spent(e)' = applied'[e] + (IF IsLate(e)' THEN 1 ELSE 0)
  BY <1>1 DEF TypeOK, Spent
<1>3. Spent(e) \in Nat /\ Spent(e)' \in Nat
  BY <1>b, <1>c
<1>4. /\ Spent(e)' <= excuses'[e] /\ Spent(e)' <= 1 + excuses'[e]
      /\ Spent(e) = 0 => Spent(e)' = 0
  <2>1. Spent(e) <= 1 + excuses[e]
    BY DEF Account
  <2>2. QED  BY <1>2, <1>3, <1>a, <2>1
<1>5. QED  BY <1>4 DEF Account, shareVars

\* A request that was not applied fails without a word.
LEMMA Unanswered ==
    ASSUME Typed, Typed', NEW e \in Edits, Account(e),
           applied'[e] = applied[e], answer'[e] = answer[e], edits'[e] = edits[e],
           \A r \in late' : r.edit = e => r \in late,
           \A n \in Nodes : PostOf(n, e)' =>
              /\ PostOf(n, e)
              /\ \/ posted'[n].status = posted[n].status
                 \/ posted'[n].status = "none" /\ posted[n].status # "200",
           excuses'[e] = excuses[e], UNCHANGED shareVars,
           e \in commands /\ acking' # e => acking # e
    PROVE  Account(e)'
<1>1. TypeOK /\ TypeOK'
  BY DEF Typed
<1>2. Spent(e)' <= Spent(e)
  BY <1>1, SpendsNoMore
<1>a. excuses[e] \in Nat
  BY <1>1 DEF TypeOK
<1>b. Spent(e) \in Nat /\ applied[e] \in Nat
  BY <1>1, SpentIs
<1>c. applied'[e] \in Nat /\ Spent(e)' = applied'[e] + (IF IsLate(e)' THEN 1 ELSE 0)
  BY <1>1 DEF TypeOK, Spent
<1>3. Spent(e) \in Nat /\ Spent(e)' \in Nat
  BY <1>b, <1>c
<1>4. /\ Spent(e) <= 1 + excuses[e] => Spent(e)' <= 1 + excuses'[e]
      /\ Spent(e) <= excuses[e] => Spent(e)' <= excuses'[e]
      /\ Spent(e) = 0 => Spent(e)' = 0 /\ Spent(e)' <= excuses'[e]
  BY <1>2, <1>3, <1>a
<1>5. \A n \in Nodes : PostOf(n, e) =>
         posted[n].status \in {"sent", "200", "404", "503", "none"}
  BY <1>1 DEF TypeOK, Post, PostOf
<1>6. QED  BY <1>4, <1>5 DEF Account, shareVars

LEMMA AppendsOnce ==
    ASSUME NEW S, NEW s \in Seq(S), NEW x \in S
    PROVE  IsInjective(s) /\ x \notin ToSet(s) => IsInjective(Append(s, x))
<1> DEFINE t == Append(s, x)
<1>1. /\ t \in Seq(S) /\ Len(t) = Len(s) + 1 /\ Len(s) \in Nat
      /\ \A i \in 1 .. Len(s) : t[i] = s[i]
      /\ t[Len(s) + 1] = x
  BY AppendIs
<1>2. DOMAIN s = 1 .. Len(s) /\ DOMAIN t = (1 .. Len(s)) \cup {Len(s) + 1}
  BY <1>1
<1> HIDE DEF t
<1>3. ASSUME IsInjective(s), x \notin ToSet(s)
      PROVE  IsInjective(t)
  <2>1. /\ \A i, k \in 1 .. Len(s) : s[i] = s[k] => i = k
        /\ \A i \in 1 .. Len(s) : s[i] # x
    BY <1>2, <1>3 DEF IsInjective, ToSet
  <2>2. QED  BY <1>1, <1>2, <2>1 DEF IsInjective
<1>4. QED  BY <1>3 DEF t

\* No command is earlier than itself, so a sorted listing repeats none.
LEMMA ListingOnce ==
    ASSUME TypeOK, IsInjective(written), NEW s \in InIssueOrder(commands)
    PROVE  s \in Seq(Edits) /\ ToSet(s) = commands /\ IsInjective(s)
<1>1. s \in Listings(commands) /\ commands \in SUBSET Edits
  BY DEF InIssueOrder, TypeOK
<1>2. s \in Seq(Edits) /\ ToSet(s) = commands
  BY <1>1, ListingType
<1>3. \A e : ~Earlier(e, e)
  <2>1. \A i, k \in DOMAIN written : written[i] = written[k] => i = k
    BY DEF IsInjective
  <2>2. DOMAIN written \subseteq Nat
    BY DEF TypeOK
  <2>3. QED  BY <2>1, <2>2 DEF Earlier
<1>4. \A i, k \in DOMAIN s : i < k => s[i] # s[k]
  BY <1>3 DEF InIssueOrder
<1>5. \A i, k \in DOMAIN s : i \in Nat /\ k \in Nat
  BY <1>2
<1>6. \A i, k \in DOMAIN s : i # k => i < k \/ k < i
  BY <1>5
<1>7. \A i, k \in DOMAIN s : i # k => s[i] # s[k]
  BY <1>4, <1>6
<1>8. QED  BY <1>2, <1>7 DEF IsInjective

LEMMA PolledInit == Init => Polled
<1>1. Init => ToSet(listed) = {} /\ IsInjective(listed) /\ IsInjective(written)
  BY DEF Init, ToSet, IsInjective
<1>2. QED  BY <1>1 DEF Init, Polled

LEMMA PolledStep ==
    ASSUME Typed, Polled, \A e \in Edits : Account(e), [Next]_vars
    PROVE  Polled'
<1>0. TypeOK /\ Known /\ 0 \notin Edits
  BY FarmCommandsAssumption DEF Typed, Edits
<1>1. ASSUME UNCHANGED <<commands, processed, written, listed, acking>> PROVE Polled'
  BY <1>1 DEF Polled
<1>2. CASE UNCHANGED vars
  BY <1>1, <1>2 DEF vars, shareVars, pollVars
<1>3. ASSUME NEW n \in Nodes, EditorNext(n) PROVE Polled'
  BY <1>1, <1>3 DEF EditorNext, OpenJobEditor, FinishOpenJobEditor, CloseJobEditor,
     ApplyJobEdit, FetchManifest, GiveUpApply, FinishApplyJobEdit, shareVars, pollVars
<1>4. ASSUME NEW n \in Nodes, PostNext(n) PROVE Polled'
  <2>1. CASE ReceiveEdit(n) \/ LosePost(n) \/ TimeOut(n) \/ ShareUnwritable(n)
    BY <1>1, <2>1 DEF ReceiveEdit, LosePost, TimeOut, ShareUnwritable, shareVars, pollVars
  <2>2. CASE Answered(n)
    <3> PICK d : d = posted[n].edit
      OBVIOUS
    <3>1. posted[n] # None /\ UNCHANGED <<listed, acking, processed, written>>
      BY <2>2 DEF Answered, pollVars
    <3>2. CASE ~FallsBack(posted[n].status)
      BY <1>1, <2>2, <3>1, <3>2 DEF Answered
    <3>3. CASE FallsBack(posted[n].status)
      <4>1. commands' = commands \cup {d}
        BY <2>2, <3>3 DEF Answered, ShowCommand
      <4>2. d \in Edits
        BY <1>0, <3>1 DEF TypeOK, Post
      <4>3. d \notin commands \cup processed
        BY <3>1, <4>2 DEF Account, PostOf
      <4>4. d # acking
        BY <1>0, <4>2, <4>3 DEF Polled
      <4>5. QED  BY <3>1, <4>1, <4>3, <4>4 DEF Polled
    <3>4. QED  BY <3>2, <3>3
  <2>3. CASE StampCommand(n)
    <3> PICK d : d = posted[n].edit
      OBVIOUS
    <3>1. /\ posted[n] # None /\ d \notin ToSet(written) /\ written' = Append(written, d)
          /\ UNCHANGED <<commands, processed, listed, acking>>
      BY <2>3 DEF StampCommand, Stamped, pollVars
    <3>2. d \in Edits /\ written \in Seq(Edits)
      BY <1>0, <3>1 DEF TypeOK, Post
    <3>3. IsInjective(written')
      BY <3>1, <3>2, AppendsOnce DEF Polled
    <3>4. ToSet(written') = ToSet(written) \cup {d}
      BY <3>1, <3>2, ToSetAppend
    <3>5. QED  BY <3>1, <3>3, <3>4 DEF Polled
  <2>4. QED  BY <1>4, <2>1, <2>2, <2>3 DEF PostNext
<1>5. CASE ReceiveLate
  BY <1>1, <1>5 DEF ReceiveLate, shareVars, pollVars
<1>6. CASE PollNext
  <2>1. CASE ListCommands
    <3>1. listed' \in InIssueOrder(commands) /\ acking = 0 /\ UNCHANGED <<acking, shareVars>>
      BY <2>1 DEF ListCommands
    <3>2. IsInjective(written)
      BY DEF Polled
    <3>3. ToSet(listed') = commands /\ IsInjective(listed')
      BY <1>0, <3>1, <3>2, ListingOnce
    <3>4. acking \notin commands
      BY <1>0, <3>1 DEF TypeOK
    <3>5. QED  BY <3>1, <3>3, <3>4 DEF Polled, shareVars
  <2>2. CASE TakeCommand
    <3>1. /\ listed # <<>> /\ listed' = Tail(listed) /\ acking' = Head(listed) /\ acking = 0
          /\ UNCHANGED shareVars
      BY <2>2 DEF TakeCommand, ToAck
    <3>2. listed \in Seq(Edits) /\ IsInjective(listed)
      BY <1>0 DEF TypeOK, Polled
    <3>3. /\ Head(listed) \in ToSet(listed) /\ IsInjective(listed')
          /\ ToSet(listed') = ToSet(listed) \ {Head(listed)}
      BY <3>1, <3>2, ToSetTail
    <3>4. QED  BY <3>1, <3>3 DEF Polled, shareVars
  <2>3. CASE AckCommand
    <3>1. /\ acking # 0 /\ acking' = 0 /\ commands' = commands \ {acking}
          /\ processed' = processed \cup {acking} /\ UNCHANGED <<written, listed>>
      BY <2>3 DEF AckCommand, Moved
    <3>2. commands \subseteq Edits /\ commands \subseteq ToSet(written)
      BY <1>0 DEF TypeOK, Known
    <3>3. QED  BY <1>0, <3>1, <3>2 DEF Polled
  <2>4. CASE FailAck
    <3>1. acking' = 0 /\ UNCHANGED <<shareVars, listed>>
      BY <2>4 DEF FailAck
    <3>2. commands \subseteq Edits
      BY <1>0 DEF TypeOK
    <3>3. QED  BY <1>0, <3>1, <3>2 DEF Polled, shareVars
  <2>5. CASE Expire
    BY <1>1, <2>5 DEF Expire, pollVars
  <2>6. QED  BY <1>6, <2>1, <2>2, <2>3, <2>4, <2>5 DEF PollNext
<1>7. CASE LeaderNext
  <2>1. CASE Crash
    <3>1. listed' = <<>> /\ acking' = 0 /\ UNCHANGED shareVars
      BY <2>1 DEF Crash
    <3>2. ToSet(listed') = {} /\ IsInjective(listed')
      BY <3>1 DEF ToSet, IsInjective
    <3>3. QED  BY <3>1, <3>2 DEF Polled, shareVars
  <2>2. CASE ~Crash
    BY <1>1, <1>7, <2>2 DEF LeaderNext, TakeSnapshot, DeleteJob, LoseLeadership, BecomeLeader,
       DatabaseReady, shareVars, pollVars
  <2>3. QED  BY <2>1, <2>2
<1>8. QED  BY <1>2, <1>3, <1>4, <1>5, <1>6, <1>7 DEF Next

LEMMA AccountInit == ASSUME Init, NEW e \in Edits PROVE Account(e)
<1>1. /\ ~IsLate(e) /\ applied[e] = 0 /\ excuses[e] = 0 /\ answer[e] = "unsent"
      /\ commands = {} /\ processed = {} /\ ToSet(written) = {} /\ late = {} /\ \A n \in Nodes : ~PostOf(n, e)
  BY DEF Init, IsLate, PostOf, ToSet
<1>2. Spent(e) = 0
  BY <1>1 DEF Spent
<1>3. QED  BY <1>1, <1>2 DEF Account

LEMMA AccountEditor ==
    ASSUME Typed, Typed', Polled, NEW e \in Edits, Account(e), NEW n \in Nodes, EditorNext(n)
    PROVE  Account(e)'
<1>0. TypeOK /\ Known /\ TypeOK'
  BY DEF Typed
<1>a. excuses[e] \in Nat
  BY <1>0 DEF TypeOK
<1>1. CASE ~FinishApplyJobEdit(n)
  <2>1. UNCHANGED <<applied, answer, edits, late, posted, excuses, commands, processed, written,
                    acking>>
    BY <1>1 DEF EditorNext, OpenJobEditor, FinishOpenJobEditor, CloseJobEditor, ApplyJobEdit,
       FetchManifest, GiveUpApply, shareVars, pollVars, historyVars, excuseVars
  <2>2. QED  BY <1>a, <2>1, Unconcerned DEF PostOf
<1>2. CASE FinishApplyJobEdit(n)
  <2>1. PICK d \in Edits :
          /\ Sent = 1 .. d - 1
          /\ edits' = [edits EXCEPT ![d] = EditOf(n)]
          /\ IF n = leader
             THEN /\ ApplyOrRefuse(d)
                  /\ Done(n, d, Verdict(Status(d)))
             ELSE /\ posted' = [posted EXCEPT ![n] =
                        IF leader = None THEN [edit |-> d, to |-> n, status |-> "none"]
                        ELSE [edit |-> d, to |-> leader, status |-> "sent"]]
                  /\ answer' = [answer EXCEPT ![d] = "sent"]
                  /\ UNCHANGED <<jobs, applied, dialog>>
    BY <1>2 DEF FinishApplyJobEdit
  <2>2. UNCHANGED <<late, commands, processed, written, acking, excuses>>
    BY <1>2 DEF FinishApplyJobEdit, shareVars, pollVars, excuseVars
  <2>3. edits[d] = None
    BY <2>1, FarmCommandsAssumption DEF Sent, Edits
  <2>4. /\ edits'[d] # None /\ \A c \in Edits : c # d => edits'[c] = edits[c]
    <3>1. EditOf(n) # None
      <4>1. applying[n] \in Form /\ dialog[n] \in Jobs
        BY <1>0, <1>2 DEF FinishApplyJobEdit, Fetched, Applicable, TypeOK
      <4>2. EditOf(n) \in Edit
        BY <4>1 DEF EditOf, Edit, Form
      <4>3. QED  BY <4>2, AbsenceAssumption
    <3>2. QED  BY <1>0, <2>1, <3>1 DEF TypeOK
  <2>5. /\ ~IsLate(d) /\ d \notin ToSet(written) /\ d \notin commands \cup processed
        /\ \A m \in Nodes : ~PostOf(m, d)
    BY <1>0, <2>3 DEF Known, Polled, IsLate, PostOf
  <2>6. ~IsLate(d)'
    BY <2>2, <2>5 DEF IsLate
  <2>7. CASE n = leader
    <3>1. ApplyOrRefuse(d) /\ Done(n, d, Verdict(Status(d)))
      BY <2>1, <2>7
    <3>2. /\ \A c \in Edits : c # d => applied'[c] = applied[c]
          /\ Status(d) \in {"200", "404", "503"}
          /\ applied'[d] = applied[d] + (IF Status(d) = "200" THEN 1 ELSE 0)
      BY <1>0, <2>4, <3>1, ApplyStep DEF TypeOK
    <3>3. Verdict(Status(d)) \in Answers
      BY <3>2 DEF Verdict, Answers
    <3>4. /\ answer'[d] = Verdict(Status(d)) /\ posted'[n] = None
          /\ \A c \in Edits : c # d => answer'[c] = answer[c]
          /\ \A m \in Nodes : m # n => posted'[m] = posted[m]
      BY <1>0, <3>1, <3>3, DoneStep
    <3>5. CASE e # d
      BY <1>a, <2>2, <2>4, <3>2, <3>4, <3>5, Unconcerned DEF PostOf
    <3>6. CASE e = d
      <4>1. Spent(e) = 0 /\ applied[e] = 0
        BY <1>0, <2>3, <3>6, SpentIs DEF Account
      <4>2. Spent(e)' = applied'[e] /\ \A m \in Nodes : ~PostOf(m, e)'
        <5>1. applied'[e] \in Nat /\ ~IsLate(e)'
          BY <1>0, <2>6, <3>6 DEF TypeOK
        <5>2. QED  BY <2>5, <3>4, <3>6, <5>1 DEF PostOf, Spent
      <4>3. CASE Status(d) = "200"
        <5>1. applied'[e] = 1 /\ answer'[e] = "Applied"
          BY <3>2, <3>4, <3>6, <4>1, <4>3 DEF Verdict
        <5>2. QED  BY <1>a, <2>2, <2>4, <2>5, <2>6, <3>6, <4>2, <5>1 DEF Account, IsLate
      <4>4. CASE Status(d) # "200"
        <5>1. applied'[e] = 0 /\ answer'[e] \in {"JobNotFound", "LeaderError"}
          BY <3>2, <3>4, <3>6, <4>1, <4>4 DEF Verdict
        <5>2. QED  BY <1>a, <2>2, <2>4, <2>5, <2>6, <3>6, <4>2, <5>1 DEF Account, IsLate
      <4>5. QED  BY <4>3, <4>4
    <3>7. QED  BY <3>5, <3>6
  <2>8. CASE n # leader
    <3>1. PICK p : p = IF leader = None THEN [edit |-> d, to |-> n, status |-> "none"]
                       ELSE [edit |-> d, to |-> leader, status |-> "sent"]
      OBVIOUS
    <3>2. posted' = [posted EXCEPT ![n] = p] /\ answer' = [answer EXCEPT ![d] = "sent"]
          /\ applied' = applied
      BY <2>1, <2>8, <3>1
    <3>3. /\ p.edit = d /\ p.status \in {"none", "sent"}
      BY <3>1
    <3>4. /\ posted'[n] = p /\ \A m \in Nodes : m # n => posted'[m] = posted[m]
          /\ answer'[d] = "sent" /\ \A c \in Edits : c # d => answer'[c] = answer[c]
      BY <1>0, <3>2 DEF TypeOK
    <3>5. CASE e # d
      BY <1>a, <2>2, <2>4, <3>2, <3>3, <3>4, <3>5, Unconcerned DEF PostOf
    <3>6. CASE e = d
      <4>1. Spent(e) = 0 /\ applied[e] = 0
        BY <1>0, <2>3, <3>6, SpentIs DEF Account
      <4>2. Spent(e)' = 0
        BY <1>0, <2>6, <3>2, <3>6, <4>1, SpentIs DEF Spent, TypeOK
      <4>3. \A m \in Nodes : PostOf(m, e)' => m = n
        BY <2>5, <3>4, <3>6 DEF PostOf
      <4>4. QED  BY <1>a, <2>2, <2>4, <2>5, <2>6, <3>3, <3>4, <3>6, <4>2, <4>3 DEF Account, IsLate
    <3>7. QED  BY <3>5, <3>6
  <2>9. QED  BY <2>7, <2>8
<1>3. QED  BY <1>1, <1>2

LEMMA AccountPost ==
    ASSUME Typed, Typed', Polled, NEW e \in Edits, Account(e), NEW n \in Nodes, PostNext(n)
    PROVE  Account(e)'
<1>0. TypeOK /\ Known /\ TypeOK' /\ posted[n] # None
  BY DEF Typed, PostNext, ReceiveEdit, LosePost, TimeOut, StampCommand, Answered,
     ShareUnwritable
<1> PICK p : p = posted[n]
  OBVIOUS
<1> DEFINE d == p.edit
<1>p. posted \in [Nodes -> Post \cup {None}] /\ excuses \in [Edits -> Nat]
  BY <1>0, Zenon DEF TypeOK
<1>q. p \in Post
  BY <1>0, <1>p
<1>a. p \in Post /\ d \in Edits /\ excuses[e] \in Nat
  BY <1>p, <1>q DEF Post
<1>b. ASSUME NEW s, posted' = [posted EXCEPT ![n].status = s]
      PROVE  /\ posted'[n] # None => posted'[n].edit = d /\ posted'[n].status = s
             /\ \A m \in Nodes : m # n => posted'[m] = posted[m]
  BY <1>0, <1>a, <1>b DEF TypeOK, Post
<1>c. e = d => answer[e] = "sent" /\ e \notin commands \cup processed
  BY <1>0, <1>a DEF Account, PostOf
<1>d. e = d => \A m \in Nodes : PostOf(m, e) => m = n
  BY <1>0 DEF Account, PostOf
<1>e. e = d /\ p.status # "none" => e \notin ToSet(written)
  BY <1>0 DEF Account, PostOf
<1>1. CASE ReceiveEdit(n)
  <2>1. /\ p.status = "sent" /\ edits' = edits
        /\ UNCHANGED <<late, shareVars, pollVars, answer, excuses>>
    BY <1>1 DEF ReceiveEdit, excuseVars
  <2>2. /\ \A c \in Edits : c # d => applied'[c] = applied[c]
        /\ \E s \in {"200", "404", "503"} :
             /\ posted' = [posted EXCEPT ![n].status = s]
             /\ applied'[d] = applied[d] + (IF s = "200" THEN 1 ELSE 0)
    <3>1. CASE Serves(p.to)
      <4>1. ApplyOrRefuse(d) /\ posted' = [posted EXCEPT ![n].status = Status(d)]
        BY <1>1, <3>1 DEF ReceiveEdit
      <4>2. edits' \in [Edits -> Edit \cup {None}] /\ edits'[d] # None
        BY <1>0, <2>1 DEF TypeOK, Known
      <4>3. /\ \A c \in Edits : c # d => applied'[c] = applied[c]
            /\ Status(d) \in {"200", "404", "503"}
            /\ applied'[d] = applied[d] + (IF Status(d) = "200" THEN 1 ELSE 0)
        BY <1>0, <1>a, <4>1, <4>2, ApplyStep
      <4>4. QED  BY <4>1, <4>3
    <3>2. CASE ~Serves(p.to)
      <4>1. posted' = [posted EXCEPT ![n].status = "503"] /\ applied' = applied
        BY <1>1, <3>2 DEF ReceiveEdit
      <4>2. applied[d] \in Nat
        BY <1>0, <1>a DEF TypeOK
      <4>3. applied'[d] = applied[d] + (IF "503" = "200" THEN 1 ELSE 0)
        BY <4>1, <4>2
      <4>4. QED  BY <4>1, <4>3
    <3>3. QED  BY <3>1, <3>2
  <2>3. PICK s \in {"200", "404", "503"} :
          /\ posted' = [posted EXCEPT ![n].status = s]
          /\ applied'[d] = applied[d] + (IF s = "200" THEN 1 ELSE 0)
    BY <2>2
  <2>4. /\ posted'[n] # None => posted'[n].edit = d /\ posted'[n].status = s
        /\ \A m \in Nodes : m # n => posted'[m] = posted[m]
    BY <1>b, <2>3
  <2>5. CASE e # d
    BY <1>a, <2>1, <2>2, <2>4, <2>5, Unconcerned DEF PostOf, shareVars, pollVars
  <2>6. CASE e = d
    <3>1. Spent(e) = 0 /\ edits[e] # None
      BY <1>0, <2>1, <2>6 DEF Account, PostOf, Known
    <3>2. applied[e] = 0 /\ ~IsLate(e) /\ ~IsLate(e)'
      BY <1>0, <2>1, <3>1, SpentIs DEF IsLate
    <3>3. applied'[e] \in Nat
      BY <1>0 DEF TypeOK
    <3>4. Spent(e)' = applied'[e]
      BY <3>2, <3>3 DEF Spent
    <3>5. applied'[e] = IF s = "200" THEN 1 ELSE 0
      BY <2>3, <2>6, <3>2
    <3>6. \A m \in Nodes : PostOf(m, e)' => m = n /\ posted'[m].status = s
      BY <1>d, <2>4, <2>6 DEF PostOf
    <3>7. Spent(e)' <= 1 + excuses[e]
      BY <1>a, <3>4, <3>5
    <3>8. \A q, r \in late' : q.edit = e /\ r.edit = e => q = r
      BY <2>1, <3>2 DEF IsLate
    <3>9. QED
      BY <1>c, <1>e, <2>1, <2>6, <3>1, <3>4, <3>5, <3>6, <3>7, <3>8 DEF Account, shareVars
  <2>7. QED  BY <2>5, <2>6
<1>2. CASE LosePost(n)
  <2>1. /\ posted' = [posted EXCEPT ![n].status = "none"]
        /\ Excuse(IF p.status = "200" THEN {d} ELSE {})
        /\ UNCHANGED <<late, edits, shareVars, pollVars, answer, applied>>
    BY <1>2 DEF LosePost
  <2>2. \A m \in Nodes : PostOf(m, e)' =>
           PostOf(m, e) /\ posted'[m].status \in {posted[m].status, "none"}
    BY <1>0, <1>b, <2>1 DEF PostOf
  <2>3. CASE e = d /\ p.status = "200"
    <3>1. excuses'[e] = excuses[e] + 1
      BY <1>0, <2>1, <2>3, ExcuseIs
    <3>2. QED  BY <2>1, <2>2, <3>1, Excused
  <2>4. CASE ~(e = d /\ p.status = "200")
    <3>1. excuses'[e] = excuses[e]
      BY <1>0, <1>a, <2>1, <2>4, ExcuseIs
    <3>2. \A m \in Nodes : PostOf(m, e)' =>
             /\ PostOf(m, e)
             /\ \/ posted'[m].status = posted[m].status
                \/ posted'[m].status = "none" /\ posted[m].status # "200"
      BY <1>0, <1>b, <2>1, <2>4 DEF PostOf
    <3>3. QED  BY <2>1, <3>1, <3>2, Unanswered DEF pollVars
  <2>5. QED  BY <2>3, <2>4
<1>3. CASE TimeOut(n)
  <2>1. /\ p.status = "sent" /\ Excuse({d})
        /\ posted' = [posted EXCEPT ![n].status = "none"]
        /\ late' = late \cup {[edit |-> d, to |-> p.to]}
        /\ UNCHANGED <<edits, shareVars, pollVars, answer, applied>>
    BY <1>3 DEF TimeOut
  <2>2. \A m \in Nodes : PostOf(m, e)' =>
           PostOf(m, e) /\ (m = n \/ posted'[m].status = posted[m].status)
    BY <1>0, <1>b, <2>1 DEF PostOf
  <2>a. excuses'[e] = excuses[e] + (IF e \in {d} THEN 1 ELSE 0)
    BY <1>0, <2>1, ExcuseIs
  <2>3. CASE e # d
    <3>1. \A r \in late' : r.edit = e => r \in late
      BY <2>1, <2>3
    <3>2. \A m \in Nodes : PostOf(m, e)' => PostOf(m, e) /\ posted'[m].status = posted[m].status
      BY <2>2, <2>3 DEF PostOf
    <3>3. excuses'[e] = excuses[e]
      BY <1>a, <2>a, <2>3
    <3>4. QED  BY <2>1, <3>1, <3>2, <3>3, Unconcerned DEF shareVars, pollVars
  <2>4. CASE e = d
    <3>1. Spent(e) = 0 /\ edits[e] # None
      BY <1>0, <2>1, <2>4 DEF Account, PostOf, Known
    <3>2. applied[e] = 0 /\ ~IsLate(e)
      BY <1>0, <3>1, SpentIs
    <3>3. IsLate(e)'
      <4>1. PICK r : r = [edit |-> d, to |-> p.to]
        OBVIOUS
      <4>2. r \in late' /\ r.edit = e
        BY <2>1, <2>4, <4>1
      <4>3. QED  BY <4>2 DEF IsLate
    <3>4. Spent(e)' = 1
      BY <2>1, <3>2, <3>3 DEF Spent
    <3>5. \A q, r \in late' : q.edit = e /\ r.edit = e => q = r
      BY <2>1, <3>2 DEF IsLate
    <3>6. \A m \in Nodes : PostOf(m, e)' => m = n /\ posted'[m].status = "none"
      <4>1. \A m \in Nodes : PostOf(m, e)' => m = n
        BY <1>d, <2>2, <2>4
      <4>2. posted'[n] # None => posted'[n].status = "none"
        BY <1>b, <2>1
      <4>3. QED  BY <4>1, <4>2 DEF PostOf
    <3>7. Spent(e)' <= excuses'[e] /\ Spent(e)' <= 1 + excuses'[e]
      <4>1. excuses'[e] = excuses[e] + 1
        BY <2>a, <2>4
      <4>2. QED  BY <1>a, <3>4, <4>1
    <3>8. QED
      BY <1>c, <1>e, <2>1, <2>2, <2>4, <3>1, <3>5, <3>6, <3>7 DEF Account, shareVars
  <2>5. QED  BY <2>3, <2>4
<1>4. CASE Answered(n)
  <2>1. Verdict(p.status) \in Answers /\ Done(n, d, Verdict(p.status)) /\ p.status # "sent"
    BY <1>4, <1>a DEF Answered, Verdict, Answers, Post
  <2>2. /\ answer'[d] = Verdict(p.status) /\ \A c \in Edits : c # d => answer'[c] = answer[c]
        /\ posted'[n] = None /\ \A m \in Nodes : m # n => posted'[m] = posted[m]
    BY <1>0, <1>a, <2>1, DoneStep
  <2>3. UNCHANGED <<late, edits, processed, written, acking, applied, excuses>>
    BY <1>4 DEF Answered, pollVars
  <2>4. commands' = IF p.status = "none" THEN commands \cup {d} ELSE commands
    BY <1>4 DEF Answered, FallsBack, ShowCommand
  <2>5. CASE e # d
    <3>1. e \in commands' <=> e \in commands
      BY <2>4, <2>5
    <3>2. \A m \in Nodes : PostOf(m, e)' => PostOf(m, e) /\ posted'[m].status = posted[m].status
      BY <2>2 DEF PostOf
    <3>3. answer'[e] = answer[e]
      BY <2>2, <2>5
    <3>4. QED  BY <1>a, <2>3, <3>1, <3>2, <3>3, Unconcerned
  <2>6. CASE e = d
    <3>1. \A m \in Nodes : ~PostOf(m, e)'
      BY <1>d, <2>2, <2>6 DEF PostOf
    <3>2. Spent(e)' = Spent(e)
      BY <2>3 DEF Spent, IsLate
    <3>3. edits[e] # None /\ Spent(e) <= 1 + excuses[e]
      BY <1>0, <2>6 DEF Account, Known
    <3>4. /\ p.status \in {"404", "503"} => Spent(e) = 0
          /\ p.status = "200" => applied[e] > 0
          /\ p.status = "none" => Spent(e) <= excuses[e]
      BY <1>0, <2>6 DEF Account, PostOf
    <3>5. /\ answer'[e] = "Applied" => p.status = "200"
          /\ answer'[e] \in {"JobNotFound", "LeaderError"} => p.status \in {"404", "503"}
          /\ answer'[e] = "QueuedToShare" <=> p.status = "none"
      BY <1>a, <2>1, <2>2, <2>6 DEF Verdict, Post
    <3>6. QED
      BY <1>c, <2>3, <2>4, <2>6, <3>1, <3>2, <3>3, <3>4, <3>5 DEF Account
  <2>7. QED  BY <2>5, <2>6
<1>5. CASE ShareUnwritable(n)
  <2>1. "NoResponse" \in Answers /\ Done(n, d, "NoResponse")
    BY <1>5 DEF ShareUnwritable, Answers
  <2>2. /\ answer'[d] = "NoResponse" /\ \A c \in Edits : c # d => answer'[c] = answer[c]
        /\ posted'[n] = None /\ \A m \in Nodes : m # n => posted'[m] = posted[m]
    BY <1>0, <1>a, <2>1, DoneStep
  <2>3. UNCHANGED <<late, edits, shareVars, pollVars, applied, excuses>>
    BY <1>5 DEF ShareUnwritable, excuseVars
  <2>4. CASE e # d
    <3>1. \A m \in Nodes : PostOf(m, e)' => PostOf(m, e) /\ posted'[m].status = posted[m].status
      BY <2>2 DEF PostOf
    <3>2. answer'[e] = answer[e]
      BY <2>2, <2>4
    <3>3. QED  BY <2>3, <3>1, <3>2, Unconcerned DEF shareVars, pollVars
  <2>5. CASE e = d
    <3>1. \A m \in Nodes : ~PostOf(m, e)'
      BY <1>d, <2>2, <2>5 DEF PostOf
    <3>2. Spent(e)' = Spent(e) /\ Spent(e) \in Nat
      BY <1>0, <2>3, SpentIs DEF Spent, IsLate
    <3>3. edits[e] # None /\ Spent(e)' <= 1 + excuses'[e]
      BY <1>0, <2>3, <2>5, <3>2 DEF Account, Known
    <3>4. answer'[e] = "NoResponse" /\ e \notin commands' \cup processed'
      BY <1>c, <2>2, <2>3, <2>5 DEF shareVars
    <3>5. \A q, r \in late' : q.edit = e /\ r.edit = e => q = r
      BY <2>3 DEF Account
    <3>6. QED
      BY <2>3, <3>1, <3>3, <3>4, <3>5 DEF Account
  <2>6. QED  BY <2>4, <2>5
<1>6. CASE StampCommand(n)
  <2>1. /\ p.status = "none" /\ written' = Append(written, d)
        /\ UNCHANGED <<posted, late, edits, commands, processed, acking, answer, applied, excuses>>
    BY <1>6 DEF StampCommand, FallsBack, editorVars, pollVars, historyVars, excuseVars
  <2>2. ToSet(written') = ToSet(written) \cup {d}
    BY <1>0, <1>a, <2>1, ToSetAppend DEF TypeOK
  <2>3. CASE e # d
    <3>1. e \in ToSet(written') <=> e \in ToSet(written)
      BY <2>2, <2>3
    <3>2. QED  BY <2>1, <3>1, Unconcerned DEF PostOf
  <2>4. CASE e = d
    <3>1. \A m \in Nodes : PostOf(m, e) => posted[m].status = "none"
      BY <1>d, <2>1, <2>4
    <3>2. QED  BY <2>1, <3>1 DEF Account, Spent, IsLate, PostOf
  <2>5. QED  BY <2>3, <2>4
<1>7. QED  BY <1>1, <1>2, <1>3, <1>4, <1>5, <1>6 DEF PostNext

LEMMA AccountLate ==
    ASSUME Typed, Typed', NEW e \in Edits, Account(e), ReceiveLate
    PROVE  Account(e)'
<1>0. TypeOK /\ Known /\ TypeOK'
  BY DEF Typed
<1>1. PICK r \in late :
        /\ late' = late \ {r} /\ UNCHANGED edits
        /\ IF Serves(r.to) THEN ApplyOrRefuse(r.edit) ELSE UNCHANGED <<jobs, applied>>
        /\ UNCHANGED <<leaderVars, snapshot, editorVars, shareVars, pollVars, answer, excuseVars, mishaps>>
  BY DEF ReceiveLate
<1> DEFINE d == r.edit
<1>2. d \in Edits /\ edits[d] # None /\ edits'[d] # None
  BY <1>0, <1>1 DEF TypeOK, Known
<1>3. /\ \A c \in Edits : c # d => applied'[c] = applied[c]
      /\ applied'[d] \in {applied[d], applied[d] + 1}
  <2>1. CASE Serves(r.to)
    <3>1. ApplyOrRefuse(d) /\ edits' \in [Edits -> Edit \cup {None}]
      BY <1>0, <1>1, <2>1 DEF TypeOK
    <3>2. /\ \A c \in Edits : c # d => applied'[c] = applied[c]
          /\ applied'[d] = applied[d] + (IF Status(d) = "200" THEN 1 ELSE 0)
      BY <1>0, <1>2, <3>1, ApplyStep
    <3>3. applied[d] \in Nat
      BY <1>0, <1>2 DEF TypeOK
    <3>4. CASE Status(d) = "200"
      BY <3>2, <3>4
    <3>5. CASE Status(d) # "200"
      BY <3>2, <3>3, <3>5
    <3>6. QED  BY <3>2, <3>4, <3>5
  <2>2. CASE ~Serves(r.to)
    BY <1>1, <2>2
  <2>3. QED  BY <2>1, <2>2
<1>a. excuses[e] \in Nat
  BY <1>0 DEF TypeOK
<1>4. CASE e # d
  <2>1. \A q \in late' : q.edit = e => q \in late
    BY <1>1
  <2>2. UNCHANGED <<posted, commands, processed, written, acking, answer, edits, excuses>>
    BY <1>1 DEF editorVars, shareVars, pollVars, excuseVars
  <2>3. QED  BY <1>3, <1>4, <1>a, <2>1, <2>2, Unconcerned DEF PostOf
<1>5. CASE e = d
  <2>1. IsLate(e) /\ ~IsLate(e)'
    BY <1>1, <1>5 DEF IsLate, Account
  <2>2. applied[e] \in Nat /\ applied'[e] \in Nat
    BY <1>0 DEF TypeOK
  <2>3. Spent(e) = applied[e] + 1 /\ Spent(e)' = applied'[e]
    BY <2>1, <2>2 DEF Spent
  <2>4. Spent(e) # 0 /\ Spent(e)' <= Spent(e) /\ Spent(e)' \in Nat /\ Spent(e) \in Nat
    BY <1>3, <1>5, <2>2, <2>3
  <2>5. applied[e] > 0 => applied'[e] > 0
    BY <1>3, <1>5, <2>2
  <2>6. /\ Spent(e) <= 1 + excuses[e] => Spent(e)' <= 1 + excuses[e]
        /\ Spent(e) <= excuses[e] => Spent(e)' <= excuses[e]
    BY <1>a, <2>4
  <2>7. UNCHANGED <<posted, commands, processed, written, acking, answer, edits, excuses>>
    BY <1>1 DEF editorVars, shareVars, pollVars, excuseVars
  <2>8. \A q \in late' : q.edit # e
    BY <2>1 DEF IsLate
  <2>9. QED  BY <1>2, <1>5, <2>4, <2>5, <2>6, <2>7, <2>8 DEF Account, PostOf
<1>6. QED  BY <1>4, <1>5

LEMMA AccountPoll ==
    ASSUME Typed, Typed', Polled, NEW e \in Edits, Account(e), PollNext
    PROVE  Account(e)'
<1>0. TypeOK /\ Known /\ TypeOK' /\ 0 \notin Edits
  BY DEF Typed, Edits
<1>a. excuses[e] \in Nat
  BY <1>0 DEF TypeOK
<1>1. CASE ListCommands \/ Expire
  BY <1>1, <1>a, Unconcerned DEF ListCommands, Expire, PostOf, editorVars, shareVars, pollVars,
     historyVars, excuseVars
<1>2. CASE TakeCommand
  <2> DEFINE d == Head(listed)
  <2>1. /\ listed # <<>> /\ acking = 0 /\ acking' = d /\ edits' = edits
        /\ IF d \in expired THEN UNCHANGED <<jobs, applied>> ELSE ApplyOrRefuse(d)
        /\ UNCHANGED <<editorVars, late, shareVars, answer, excuses>>
    BY <1>2 DEF TakeCommand, ToAck, excuseVars
  <2>2. listed \in Seq(Edits)
    BY <1>0 DEF TypeOK
  <2>3. d \in ToSet(listed)
    BY <2>1, <2>2, ToSetTail
  <2>4. d \in Edits /\ d \in commands /\ d \in ToSet(written) /\ edits[d] # None
    BY <1>0, <2>3 DEF Polled, Known, TypeOK
  <2>5. /\ \A c \in Edits : c # d => applied'[c] = applied[c]
        /\ applied'[d] \in {applied[d], applied[d] + 1}
    <3>1. CASE d \in expired
      BY <2>1, <3>1
    <3>2. CASE d \notin expired
      <4>1. ApplyOrRefuse(d) /\ edits' \in [Edits -> Edit \cup {None}] /\ edits'[d] # None
        BY <1>0, <2>1, <2>4, <3>2 DEF TypeOK
      <4>2. /\ \A c \in Edits : c # d => applied'[c] = applied[c]
            /\ applied'[d] = applied[d] + (IF Status(d) = "200" THEN 1 ELSE 0)
        BY <1>0, <2>4, <4>1, ApplyStep
      <4>3. applied[d] \in Nat
        BY <1>0, <2>4 DEF TypeOK
      <4>4. CASE Status(d) = "200"
        BY <4>2, <4>4
      <4>5. CASE Status(d) # "200"
        BY <4>2, <4>3, <4>5
      <4>6. QED  BY <4>2, <4>4, <4>5
    <3>3. QED  BY <3>1, <3>2
  <2>6. CASE e # d
    <3>1. e \in commands' /\ acking' # e => e \in commands /\ acking # e
      BY <1>0, <2>1 DEF shareVars
    <3>2. UNCHANGED <<posted, commands, processed, written, answer, edits, excuses, late>>
      BY <2>1 DEF editorVars, shareVars
    <3>3. QED  BY <1>a, <2>5, <2>6, <3>1, <3>2, Unconcerned DEF PostOf
  <2>7. CASE e = d
    <3>1. Spent(e) <= excuses[e] /\ answer[e] = "QueuedToShare"
      BY <1>0, <2>1, <2>4, <2>7 DEF Account
    <3>2. UNCHANGED <<posted, commands, processed, written, answer, edits, excuses, late>>
      BY <2>1 DEF editorVars, shareVars
    <3>3. Spent(e)' \in {Spent(e), Spent(e) + 1}
      <4>1. IsLate(e)' <=> IsLate(e)
        BY <3>2 DEF IsLate
      <4>2. applied[e] \in Nat /\ applied'[e] \in {applied[e], applied[e] + 1}
        BY <1>0, <2>5, <2>7 DEF TypeOK
      <4>3. CASE IsLate(e)
        <5>1. Spent(e) = applied[e] + 1 /\ Spent(e)' = applied'[e] + 1
          BY <4>1, <4>3 DEF Spent
        <5>2. QED  BY <4>2, <5>1
      <4>4. CASE ~IsLate(e)
        <5>1. Spent(e) = applied[e] + 0 /\ Spent(e)' = applied'[e] + 0
          BY <4>1, <4>4 DEF Spent
        <5>2. QED  BY <4>2, <5>1
      <4>5. QED  BY <4>3, <4>4
    <3>4. Spent(e) \in Nat
      BY <1>0, SpentIs
    <3>5. Spent(e)' <= 1 + excuses'[e]
      BY <1>a, <3>1, <3>2, <3>3, <3>4
    <3>6. \A m \in Nodes : ~PostOf(m, e)'
      BY <3>1, <3>2 DEF Account, PostOf
    <3>7. \A q, r \in late' : q.edit = e /\ r.edit = e => q = r
      BY <3>2 DEF Account
    <3>8. QED
      BY <2>1, <2>4, <2>7, <3>1, <3>2, <3>5, <3>6, <3>7 DEF Account
  <2>8. QED  BY <2>6, <2>7
<1>3. CASE AckCommand
  <2>1. /\ acking # 0 /\ acking' = 0 /\ commands' = commands \ {acking}
        /\ processed' = processed \cup {acking}
        /\ UNCHANGED <<posted, written, answer, edits, applied, excuses, late>>
    BY <1>3 DEF AckCommand, Moved, editorVars, historyVars, excuseVars
  <2>2. e \in commands \cup processed <=> e \in commands' \cup processed'
    BY <2>1 DEF Polled
  <2>3. QED  BY <1>a, <2>1, <2>2, Unconcerned DEF PostOf
<1>4. CASE FailAck
  <2>1. /\ acking # 0 /\ acking' = 0 /\ Excuse({acking})
        /\ UNCHANGED <<posted, answer, edits, applied, late, shareVars>>
    BY <1>4 DEF FailAck, editorVars
  <2>2. excuses'[e] = excuses[e] + (IF e \in {acking} THEN 1 ELSE 0)
    BY <1>0, <2>1, ExcuseIs
  <2>3. CASE e = acking
    <3>1. excuses'[e] = excuses[e] + 1
      BY <2>2, <2>3
    <3>2. QED  BY <2>1, <3>1, Excused DEF PostOf
  <2>4. CASE e # acking
    <3>1. excuses'[e] = excuses[e]
      BY <1>a, <2>2, <2>4
    <3>2. QED  BY <2>1, <2>4, <3>1, Unconcerned DEF PostOf, shareVars
  <2>5. QED  BY <2>3, <2>4
<1>5. QED  BY <1>1, <1>2, <1>3, <1>4 DEF PollNext

LEMMA AccountLeader ==
    ASSUME Typed, Typed', NEW e \in Edits, Account(e), LeaderNext
    PROVE  Account(e)'
<1>0. TypeOK
  BY DEF Typed
<1>1. CASE ~Crash
  <2>1. UNCHANGED <<posted, answer, edits, applied, late, excuses, commands, processed, written,
                    acking>>
    BY <1>1 DEF LeaderNext, TakeSnapshot, DeleteJob, LoseLeadership, BecomeLeader,
       DatabaseReady, editorVars, shareVars, pollVars, historyVars, excuseVars
  <2>2. QED  BY <2>1, Unconcerned DEF PostOf
<1>2. CASE Crash
  <2> DEFINE S == {c \in Edits : Unheard(c)}
  <2>1. /\ acking' = 0 /\ late' \subseteq late /\ Excuse(S)
        /\ UNCHANGED <<answer, edits, applied, shareVars>>
    BY <1>2 DEF Crash
  <2>2. excuses'[e] = excuses[e] + (IF e \in S THEN 1 ELSE 0)
    BY <1>0, <2>1, ExcuseIs
  <2>3. ASSUME NEW n \in Nodes, PostOf(n, e)'
        PROVE  /\ PostOf(n, e)
               /\ \/ posted'[n].status = posted[n].status
                  \/ posted'[n].status = "none" /\ posted[n].to = leader
    <3>1. posted[n] # None /\ posted'[n] # None
      BY <1>2, <2>3 DEF Crash, PostOf
    <3>2. posted[n] \in Post
      BY <1>0, <3>1 DEF TypeOK
    <3>3. \/ posted'[n] = posted[n]
          \/ posted[n].to = leader /\ posted'[n] = [posted[n] EXCEPT !.status = "none"]
      BY <1>2, <3>1 DEF Crash
    <3>4. /\ posted'[n].edit = posted[n].edit
          /\ \/ posted'[n].status = posted[n].status
             \/ posted'[n].status = "none" /\ posted[n].to = leader
      BY <3>2, <3>3 DEF Post
    <3>5. QED  BY <2>3, <3>1, <3>4 DEF PostOf
  <2>4. CASE Unheard(e)
    <3>1. excuses'[e] = excuses[e] + 1
      BY <2>2, <2>4
    <3>2. QED  BY <2>1, <2>3, <3>1, Excused
  <2>5. CASE ~Unheard(e)
    <3>1. excuses[e] \in Nat
      BY <1>0 DEF TypeOK
    <3>2. excuses'[e] = excuses[e]
      BY <2>2, <2>5, <3>1
    <3>3. \A n \in Nodes : PostOf(n, e)' =>
             /\ PostOf(n, e)
             /\ \/ posted'[n].status = posted[n].status
                \/ posted'[n].status = "none" /\ posted[n].status # "200"
      BY <2>3, <2>5 DEF Unheard, PostOf
    <3>4. acking # e
      BY <2>5 DEF Unheard
    <3>5. QED  BY <2>1, <3>2, <3>3, <3>4, Unanswered
  <2>6. QED  BY <2>4, <2>5
<1>3. QED  BY <1>1, <1>2

Accounted == Typed /\ Polled /\ \A e \in Edits : Account(e)

LEMMA AccountedInit == Init => Accounted
BY TypedInit, PolledInit, AccountInit DEF Accounted

LEMMA AccountedStep == Accounted /\ [Next]_vars => Accounted'
<1> SUFFICES ASSUME Accounted, [Next]_vars PROVE Accounted'
  OBVIOUS
<1>1. Typed /\ Polled /\ Typed' /\ Polled'
  BY TypedStep, PolledStep DEF Accounted
<1>2. ASSUME NEW e \in Edits PROVE Account(e)'
  <2>1. Account(e)
    BY DEF Accounted
  <2>2. CASE UNCHANGED vars
    BY <2>1, <2>2 DEF Account, Spent, IsLate, PostOf, vars, editorVars, shareVars, pollVars,
       historyVars, excuseVars
  <2>3. CASE Next
    BY <1>1, <2>1, <2>3, AccountEditor, AccountPost, AccountLate, AccountPoll, AccountLeader
       DEF Next
  <2>4. QED  BY <2>2, <2>3
<1>3. QED  BY <1>1, <1>2 DEF Accounted

\* An edit takes effect once, and once more for each lost answer, each request
\* the client gave up on, each command a dead leader or the share left in
\* place, when these were the edit's own: it is sent again over the share only
\* when there was no response, and no fault of another edit excuses it.
THEOREM EditsApplyOnce == Spec => []AppliedOnce
<1>1. Accounted => AppliedOnce
  <2> SUFFICES ASSUME Accounted, NEW e \in Edits PROVE applied[e] <= 1 + excuses[e]
    BY DEF AppliedOnce
  <2>1. TypeOK /\ Spent(e) <= 1 + excuses[e]
    BY DEF Accounted, Typed, Account
  <2>2. /\ applied[e] \in Nat /\ excuses[e] \in Nat
        /\ Spent(e) = applied[e] \/ Spent(e) = applied[e] + 1
    BY <2>1, SpentIs DEF TypeOK
  <2>3. QED  BY <2>1, <2>2
<1>2. QED  BY <1>1, AccountedInit, AccountedStep, PTL DEF Spec

\* Whatever comes after the editor's answer (a late request, a poll, a new
\* leader), an edit it was told was refused is applied by none of them, one
\* it was told was applied was, and one it was told was queued is on the share.
THEOREM AnswersStayTrue == Spec => []AnswersAreTrue
<1>1. Accounted => AnswersAreTrue
  <2> SUFFICES ASSUME Accounted, NEW e \in Edits
               PROVE  /\ answer[e] = "Applied" => applied[e] > 0
                      /\ answer[e] \in {"JobNotFound", "LeaderError"} =>
                           applied[e] = 0 /\ e \notin commands
                      /\ answer[e] = "QueuedToShare" => e \in commands \cup processed
    BY DEF AnswersAreTrue
  <2>1. TypeOK /\ Known /\ Account(e)
    BY DEF Accounted, Typed
  <2>2. ASSUME answer[e] \in {"JobNotFound", "LeaderError"}
        PROVE  applied[e] = 0 /\ e \notin commands
    <3>1. Spent(e) = 0 /\ e \notin commands
      BY <2>1, <2>2 DEF Account
    <3>2. QED  BY <2>1, <3>1, SpentIs
  <2>3. QED  BY <2>1, <2>2 DEF Account
<1>2. QED  BY <1>1, AccountedInit, AccountedStep, PTL DEF Spec

-----------------------------------------------------------------------------
(* The order of the commands.                                               *)

\* What may let a later command e go before d: d could not be moved, or was
\* renamed too late by an editor other than that of e.
Passed(d, e) == d \in unmoved \/ (d \in overtaken /\ edits[d].by # edits[e].by)

\* A command that is still on the share while a later one has been taken up
\* was passed by it; while a later one is listed, it is listed before it.
InOrder ==
    \A d \in commands, e \in Edits : Earlier(d, e) =>
      /\ e \in processed \cup {acking} => Passed(d, e)
      /\ \A k \in DOMAIN listed : listed[k] = e =>
           d = acking \/ Passed(d, e) \/ \E i \in DOMAIN listed : i < k /\ listed[i] = d

\* An editor has one edit under way: none of its own is later than that.
Latest ==
    \A n \in Nodes : posted[n] # None =>
      \A e \in Edits : Earlier(posted[n].edit, e) => edits[e].by # n

Ordered == Accounted /\ InOrder /\ Latest

LEMMA EarlierIsStrict ==
    ASSUME TypeOK, Polled
    PROVE  \A d, e : Earlier(d, e) => d # e /\ ~Earlier(e, d)
<1>1. \A i, k \in DOMAIN written : written[i] = written[k] => i = k
  BY DEF Polled, IsInjective
<1>2. \A i \in DOMAIN written : i \in Nat
  BY DEF TypeOK
<1>3. ASSUME NEW d, NEW e, Earlier(d, e) PROVE d # e /\ ~Earlier(e, d)
  <2>1. PICK i, k \in DOMAIN written : i < k /\ written[i] = d /\ written[k] = e
    BY <1>3 DEF Earlier
  <2>2. d # e
    BY <1>1, <1>2, <2>1
  <2>3. ASSUME Earlier(e, d) PROVE FALSE
    <3>1. PICK a, b \in DOMAIN written : a < b /\ written[a] = e /\ written[b] = d
      BY <2>3 DEF Earlier
    <3>2. a = k /\ b = i
      BY <1>1, <2>1, <3>1
    <3>3. QED  BY <1>2, <2>1, <3>1, <3>2
  <2>4. QED  BY <2>2, <2>3
<1>4. QED  BY <1>3

\* A command that is written now is later than all the others.
LEMMA EarlierAppend ==
    ASSUME TypeOK, NEW x \in Edits, x \notin ToSet(written), written' = Append(written, x)
    PROVE  \A d, e : Earlier(d, e)' => d # x /\ (e = x \/ Earlier(d, e))
<1>1. /\ Append(written, x) \in Seq(Edits) /\ Len(written') = Len(written) + 1
      /\ \A i \in 1 .. Len(written) : written'[i] = written[i]
      /\ written'[Len(written) + 1] = x
      /\ Len(written) \in Nat
  <2>1. written \in Seq(Edits)
    BY DEF TypeOK
  <2>2. QED  BY <2>1, AppendIs
<1>2. /\ DOMAIN written = 1 .. Len(written)
      /\ DOMAIN written' = (1 .. Len(written)) \cup {Len(written) + 1}
  BY <1>1 DEF TypeOK
<1>3. ASSUME NEW d, NEW e, Earlier(d, e)' PROVE d # x /\ (e = x \/ Earlier(d, e))
  <2>1. PICK i, k \in DOMAIN written' : i < k /\ written'[i] = d /\ written'[k] = e
    BY <1>3 DEF Earlier
  <2>2. i \in 1 .. Len(written)
    BY <1>1, <1>2, <2>1
  <2>3. d = written[i] /\ d # x
    BY <1>1, <1>2, <2>1, <2>2 DEF ToSet
  <2>4. CASE k \in 1 .. Len(written)
    BY <1>1, <1>2, <2>1, <2>2, <2>3, <2>4 DEF Earlier
  <2>5. CASE k \notin 1 .. Len(written)
    BY <1>1, <1>2, <2>1, <2>3, <2>5
  <2>6. QED  BY <2>4, <2>5
<1>4. QED  BY <1>3

\* What is written to the share has been sent.
LEMMA EarlierAreSent ==
    ASSUME Known
    PROVE  \A d, e : Earlier(d, e) =>
             d \in ToSet(written) /\ e \in ToSet(written) /\ edits[d] # None /\ edits[e] # None
BY DEF Known, Earlier, ToSet

\* What has been sent stays as it is.
LEMMA SentStays ==
    ASSUME Typed, [Next]_vars
    PROVE  \A e \in Edits : edits[e] # None => edits'[e] = edits[e]
<1>1. ASSUME NEW n \in Nodes, FinishApplyJobEdit(n)
      PROVE  \A e \in Edits : edits[e] # None => edits'[e] = edits[e]
  <2>1. PICK d \in Edits : Sent = 1 .. d - 1 /\ edits' = [edits EXCEPT ![d] = EditOf(n)]
    BY <1>1 DEF FinishApplyJobEdit
  <2>2. edits[d] = None
    BY <2>1, FarmCommandsAssumption DEF Sent, Edits
  <2>3. QED  BY <2>1, <2>2 DEF Typed, TypeOK
<1>2. ASSUME NEW n \in Nodes, EditorNext(n), ~FinishApplyJobEdit(n) PROVE edits' = edits
  BY <1>2 DEF EditorNext, OpenJobEditor, FinishOpenJobEditor, CloseJobEditor, ApplyJobEdit,
     FetchManifest, GiveUpApply
<1>3. ASSUME NEW n \in Nodes, PostNext(n) PROVE edits' = edits
  BY <1>3 DEF PostNext, ReceiveEdit, LosePost, TimeOut, StampCommand, Answered, ShareUnwritable
<1>4. ReceiveLate \/ PollNext => edits' = edits
  BY DEF ReceiveLate, PollNext, ListCommands, TakeCommand, AckCommand, FailAck, Expire
<1>5. LeaderNext => edits' = edits
  BY DEF LeaderNext, TakeSnapshot, Crash, LoseLeadership, DatabaseReady, DeleteJob, BecomeLeader
<1>6. UNCHANGED vars => edits' = edits
  BY DEF vars
<1>7. QED  BY <1>1, <1>2, <1>3, <1>4, <1>5, <1>6 DEF Next

LEMMA LatestStep ==
    ASSUME Accounted, Latest, [Next]_vars
    PROVE  Latest'
<1>0. TypeOK /\ Known /\ Typed
  BY DEF Accounted, Typed
<1>a. \A m \in Nodes : posted[m] # None => posted[m] \in Post /\ posted[m].edit \in Edits
  BY <1>0 DEF TypeOK, Post
<1>1. ASSUME UNCHANGED written,
             \A m \in Nodes : posted'[m] # None =>
                /\ posted[m] # None
                /\ posted'[m].edit = posted[m].edit
      PROVE  Latest'
  <2> SUFFICES ASSUME NEW m \in Nodes, posted'[m] # None, NEW e \in Edits,
                      Earlier(posted[m].edit, e)'
               PROVE  edits'[e].by # m
    BY DEF Latest
  <2>1. posted[m] # None /\ Earlier(posted[m].edit, e)
    BY <1>1 DEF Earlier
  <2>2. edits[e].by # m /\ edits[e] # None
    BY <1>0, <2>1, EarlierAreSent DEF Latest
  <2>3. QED  BY <1>0, <2>2, SentStays
<1>2. CASE UNCHANGED vars
  BY <1>1, <1>2 DEF vars, editorVars, shareVars
<1>3. ASSUME NEW n \in Nodes, EditorNext(n) PROVE Latest'
  <2>1. CASE ~FinishApplyJobEdit(n)
    BY <1>1, <1>3, <2>1 DEF EditorNext, OpenJobEditor, FinishOpenJobEditor, CloseJobEditor,
       ApplyJobEdit, FetchManifest, GiveUpApply, shareVars
  <2>2. CASE FinishApplyJobEdit(n)
    <3>1. PICK d \in Edits :
            /\ Sent = 1 .. d - 1
            /\ \/ Done(n, d, Verdict(Status(d)))
               \/ posted' = [posted EXCEPT ![n] =
                      IF leader = None THEN [edit |-> d, to |-> n, status |-> "none"]
                      ELSE [edit |-> d, to |-> leader, status |-> "sent"]]
      BY <2>2 DEF FinishApplyJobEdit
    <3>2. edits[d] = None /\ UNCHANGED written
      BY <2>2, <3>1, FarmCommandsAssumption DEF FinishApplyJobEdit, shareVars, Sent, Edits
    <3>3. CASE Done(n, d, Verdict(Status(d)))
      BY <1>0, <1>1, <3>2, <3>3 DEF Done, TypeOK
    <3>4. CASE posted' = [posted EXCEPT ![n] =
                  IF leader = None THEN [edit |-> d, to |-> n, status |-> "none"]
                  ELSE [edit |-> d, to |-> leader, status |-> "sent"]]
      <4>1. posted'[n].edit = d /\ \A m \in Nodes : m # n => posted'[m] = posted[m]
        BY <1>0, <3>4 DEF TypeOK
      <4>2. \A e : ~Earlier(d, e)
        BY <1>0, <3>2, EarlierAreSent
      <4>3. ASSUME NEW m \in Nodes, posted'[m] # None, NEW e \in Edits,
                   Earlier(posted[m].edit, e)'
            PROVE  edits'[e].by # m
        <5>1. Earlier(posted'[m].edit, e)
          BY <3>2, <4>3 DEF Earlier
        <5>2. m # n /\ posted'[m] = posted[m]
          BY <4>1, <4>2, <5>1
        <5>3. edits[e].by # m /\ edits[e] # None
          BY <1>0, <4>3, <5>1, <5>2, EarlierAreSent DEF Latest
        <5>4. QED  BY <1>0, <5>3, SentStays
      <4>4. QED  BY <4>3 DEF Latest
    <3>5. QED  BY <3>1, <3>3, <3>4
  <2>3. QED  BY <2>1, <2>2
<1>4. ASSUME NEW n \in Nodes, PostNext(n) PROVE Latest'
  <2>1. CASE ReceiveEdit(n) \/ LosePost(n) \/ TimeOut(n)
    <3>1. \E t : posted' = [posted EXCEPT ![n].status = t]
      BY <2>1 DEF ReceiveEdit, LosePost, TimeOut
    <3>2. UNCHANGED written /\ posted[n] # None
      BY <2>1 DEF ReceiveEdit, LosePost, TimeOut, shareVars
    <3>3. \A m \in Nodes : posted'[m] # None =>
            posted[m] # None /\ posted'[m].edit = posted[m].edit
      BY <1>0, <1>a, <3>1, <3>2 DEF TypeOK, Post
    <3>4. QED  BY <1>1, <3>2, <3>3
  <2>2. CASE Answered(n) \/ ShareUnwritable(n)
    <3>1. posted' = [posted EXCEPT ![n] = None] /\ UNCHANGED written
      BY <2>2 DEF Answered, ShareUnwritable, Done, shareVars
    <3>2. QED  BY <1>0, <1>1, <3>1 DEF TypeOK
  <2>3. CASE StampCommand(n)
    <3> PICK x : x = posted[n].edit
      OBVIOUS
    <3>1. /\ posted[n] # None /\ x \in Edits /\ x \notin ToSet(written)
          /\ written' = Append(written, x) /\ UNCHANGED <<posted, edits>>
      BY <1>a, <2>3 DEF StampCommand, Stamped, editorVars
    <3>2. ASSUME NEW m \in Nodes, posted[m] # None, NEW e \in Edits,
                 Earlier(posted[m].edit, e)'
          PROVE  edits[e].by # m
      <4>1. posted[m].edit # x /\ (e = x \/ Earlier(posted[m].edit, e))
        BY <1>0, <3>1, <3>2, EarlierAppend
      <4>2. CASE e = x
        <5>1. m # n
          BY <4>1
        <5>2. edits[x].by = n
          BY <1>0, <3>1 DEF Known
        <5>3. QED  BY <4>2, <5>1, <5>2
      <4>3. CASE Earlier(posted[m].edit, e)
        BY <3>2, <4>3 DEF Latest
      <4>4. QED  BY <4>1, <4>2, <4>3
    <3>3. QED  BY <3>1, <3>2 DEF Latest
  <2>4. QED  BY <1>4, <2>1, <2>2, <2>3 DEF PostNext
<1>5. CASE ReceiveLate \/ PollNext
  BY <1>1, <1>5 DEF ReceiveLate, PollNext, ListCommands, TakeCommand, AckCommand, FailAck,
     Expire, editorVars, shareVars
<1>6. CASE LeaderNext
  <2>1. CASE Crash
    <3>1. UNCHANGED written
      BY <2>1 DEF Crash, shareVars
    <3>2. \A m \in Nodes : posted'[m] # None =>
             /\ posted[m] # None
             /\ posted'[m] \in {posted[m], [posted[m] EXCEPT !.status = "none"]}
      BY <2>1 DEF Crash
    <3>3. \A p \in Post : [p EXCEPT !.status = "none"].edit = p.edit
      BY DEF Post
    <3>4. QED  BY <1>1, <1>a, <3>1, <3>2, <3>3
  <2>2. CASE ~Crash
    BY <1>1, <1>6, <2>2 DEF LeaderNext, TakeSnapshot, DeleteJob, LoseLeadership, BecomeLeader,
       DatabaseReady, editorVars, shareVars
  <2>3. QED  BY <2>1, <2>2
<1>7. QED  BY <1>2, <1>3, <1>4, <1>5, <1>6 DEF Next

LEMMA InOrderStep ==
    ASSUME Accounted, InOrder, Latest, [Next]_vars
    PROVE  InOrder'
<1>0. TypeOK /\ Known /\ Polled /\ (\A e \in Edits : Account(e)) /\ 0 \notin Edits
  BY DEF Accounted, Typed, Edits
<1>a. commands \subseteq Edits
  BY <1>0 DEF TypeOK
<1>b. \A d, e \in Edits : /\ Earlier(d, e) /\ Passed(d, e)
                          /\ unmoved \subseteq unmoved' /\ overtaken \subseteq overtaken'
                          => Passed(d, e)'
  <2>1. \A d, e \in Edits : Earlier(d, e) => edits'[d] = edits[d] /\ edits'[e] = edits[e]
    BY <1>0, EarlierAreSent, SentStays DEF Accounted
  <2>2. QED  BY <2>1 DEF Passed
<1>1. ASSUME UNCHANGED <<commands, processed, written, listed, acking, unmoved, overtaken>>
      PROVE  InOrder'
  <2>1. \A d, e : Earlier(d, e)' => Earlier(d, e)
    BY <1>1 DEF Earlier
  <2>2. QED  BY <1>1, <1>a, <1>b, <2>1 DEF InOrder
<1>2. CASE UNCHANGED vars
  BY <1>1, <1>2 DEF vars, shareVars, pollVars, historyVars, excuseVars
<1>3. ASSUME NEW n \in Nodes, EditorNext(n) PROVE InOrder'
  BY <1>1, <1>3 DEF EditorNext, OpenJobEditor, FinishOpenJobEditor, CloseJobEditor,
     ApplyJobEdit, FetchManifest, GiveUpApply, FinishApplyJobEdit, shareVars, pollVars,
     historyVars, excuseVars
<1>4. ASSUME NEW n \in Nodes, PostNext(n) PROVE InOrder'
  <2>1. CASE ReceiveEdit(n) \/ LosePost(n) \/ TimeOut(n) \/ ShareUnwritable(n)
    BY <1>1, <2>1 DEF ReceiveEdit, LosePost, TimeOut, ShareUnwritable, shareVars, pollVars,
       historyVars, excuseVars
  <2>2. CASE Answered(n)
    <3> PICK x : x = posted[n].edit
      OBVIOUS
    <3>1. posted[n] # None /\ UNCHANGED <<listed, acking, processed, written, unmoved, edits>>
      BY <2>2 DEF Answered, pollVars
    <3>2. CASE ~FallsBack(posted[n].status)
      BY <1>1, <2>2, <3>1, <3>2 DEF Answered
    <3>3. CASE FallsBack(posted[n].status)
      <4>1. commands' = commands \cup {x} /\ x \in Edits /\ overtaken \subseteq overtaken'
        BY <1>0, <2>2, <3>1, <3>3 DEF Answered, ShowCommand, TypeOK, Post
      <4>2. \A e \in Edits : Earlier(x, e) => edits[e].by # n
        BY <3>1 DEF Latest
      <4>3. edits[x].by = n
        BY <1>0, <3>1 DEF Known
      <4>4. ASSUME NEW e \in Edits, Earlier(x, e), e \in ToSet(listed) \cup {acking} \cup processed
            PROVE  Passed(x, e)'
        <5>1. x \in overtaken'
          BY <2>2, <3>3, <4>4 DEF Answered, ShowCommand
        <5>2. QED  BY <3>1, <4>2, <4>3, <4>4, <5>1 DEF Passed
      <4>5. \A k \in DOMAIN listed : listed[k] \in ToSet(listed)
        BY DEF ToSet
      <4>6. \A d, e : Earlier(d, e)' => Earlier(d, e)
        BY <3>1 DEF Earlier
      <4>7. ASSUME NEW d \in commands', NEW e \in Edits, Earlier(d, e)
            PROVE  /\ e \in processed \cup {acking} => Passed(d, e)'
                   /\ \A k \in DOMAIN listed : listed[k] = e =>
                        d = acking \/ Passed(d, e)' \/ \E i \in DOMAIN listed : i < k /\ listed[i] = d
        <5>1. CASE d = x
          BY <4>4, <4>5, <4>7, <5>1
        <5>2. CASE d \in commands
          BY <1>a, <1>b, <3>1, <4>1, <4>7, <5>2 DEF InOrder
        <5>3. QED  BY <4>1, <4>7, <5>1, <5>2
      <4>8. QED  BY <3>1, <4>6, <4>7 DEF InOrder
    <3>4. QED  BY <3>2, <3>3
  <2>3. CASE StampCommand(n)
    <3> PICK x : x = posted[n].edit
      OBVIOUS
    <3>1. /\ posted[n] # None /\ x \in Edits /\ x \notin ToSet(written)
          /\ written' = Append(written, x)
          /\ UNCHANGED <<commands, processed, listed, acking, unmoved, overtaken>>
      BY <1>0, <2>3 DEF StampCommand, Stamped, TypeOK, Post, pollVars, historyVars, excuseVars
    <3>2. \A d, e : Earlier(d, e)' => e = x \/ Earlier(d, e)
      BY <1>0, <3>1, EarlierAppend
    <3>3. x \notin processed \cup {acking} /\ \A k \in DOMAIN listed : listed[k] # x
      <4>1. acking \in ToSet(written) \cup {0} /\ processed \subseteq ToSet(written)
        BY <1>0 DEF Polled, Known
      <4>2. x \notin ToSet(listed)
        BY <1>0, <3>1 DEF Known
      <4>3. QED  BY <1>0, <3>1, <4>1, <4>2 DEF ToSet
    <3>4. QED  BY <1>a, <1>b, <3>1, <3>2, <3>3 DEF InOrder
  <2>4. QED  BY <1>4, <2>1, <2>2, <2>3 DEF PostNext
<1>5. CASE ReceiveLate
  BY <1>1, <1>5 DEF ReceiveLate, shareVars, pollVars, excuseVars
<1>6. CASE PollNext
  <2>1. CASE ListCommands
    <3>1. listed' \in InIssueOrder(commands) /\ acking = 0 /\ UNCHANGED <<acking, shareVars, unmoved, overtaken>>
      BY <2>1 DEF ListCommands, historyVars, excuseVars
    <3>2. IsInjective(written)
      BY <1>0 DEF Polled
    <3>3. listed' \in Seq(Edits) /\ ToSet(listed') = commands
      BY <1>0, <3>1, <3>2, ListingOnce
    <3>4. \A i, k \in DOMAIN listed' : i < k => Earlier(listed'[i], listed'[k])
      BY <3>1 DEF InIssueOrder
    <3>5. ASSUME NEW d \in commands, NEW e \in Edits, Earlier(d, e),
                 NEW k \in DOMAIN listed', listed'[k] = e
          PROVE  \E i \in DOMAIN listed' : i < k /\ listed'[i] = d
      <4>1. PICK i \in DOMAIN listed' : listed'[i] = d
        BY <3>3 DEF ToSet
      <4>2. i \in Nat /\ k \in Nat
        BY <3>3
      <4>3. d # e /\ ~Earlier(e, d)
        BY <1>0, <3>5, EarlierIsStrict
      <4>4. i # k /\ ~(k < i)
        BY <3>4, <3>5, <4>1, <4>3
      <4>5. QED  BY <4>1, <4>2, <4>4
    <3>6. \A d, e : Earlier(d, e)' => Earlier(d, e)
      BY <3>1 DEF Earlier, shareVars
    <3>7. QED  BY <1>a, <1>b, <1>0, <3>1, <3>5, <3>6 DEF InOrder, shareVars
  <2>2. CASE TakeCommand
    <3>1. /\ listed # <<>> /\ listed' = Tail(listed) /\ acking' = Head(listed) /\ acking = 0
          /\ UNCHANGED <<shareVars, unmoved, overtaken>>
      BY <2>2 DEF TakeCommand, ToAck, excuseVars
    <3>2. listed \in Seq(Edits) /\ Head(listed) = listed[1]
      BY <1>0, <3>1 DEF TypeOK
    <3>3. /\ \A i \in DOMAIN listed' : i + 1 \in DOMAIN listed /\ listed'[i] = listed[i + 1]
          /\ \A i \in DOMAIN listed : i # 1 => i - 1 \in DOMAIN listed' /\ listed'[i - 1] = listed[i]
      BY <3>1, <3>2, ToSetTail
    <3>4. 1 \in DOMAIN listed
      <4>1. Len(listed) # 0 /\ Len(listed) \in Nat
        BY <3>1, <3>2, EmptySeq
      <4>2. QED  BY <3>2, <4>1
    <3>5. \A i \in DOMAIN listed : i \in Nat /\ i >= 1
      BY <3>2
    <3>6. \A i \in DOMAIN listed' : i \in Nat
      BY <3>1, <3>2
    <3>7. ASSUME NEW d \in commands, NEW e \in Edits, Earlier(d, e), e \in processed \cup {acking'}
          PROVE  Passed(d, e)
      <4>1. CASE e \in processed
        BY <3>7, <4>1 DEF InOrder
      <4>2. CASE e = listed[1]
        <5>1. d = acking \/ Passed(d, e) \/ \E i \in DOMAIN listed : i < 1 /\ listed[i] = d
          BY <3>4, <3>7, <4>2 DEF InOrder
        <5>2. d # acking
          BY <1>0, <1>a, <3>1
        <5>3. QED  BY <3>5, <5>1, <5>2
      <4>3. QED  BY <3>1, <3>2, <3>7, <4>1, <4>2
    <3>8. ASSUME NEW d \in commands, NEW e \in Edits, Earlier(d, e),
                 NEW k \in DOMAIN listed', listed'[k] = e, d # acking', ~Passed(d, e)
          PROVE  \E i \in DOMAIN listed' : i < k /\ listed'[i] = d
      <4>1. k + 1 \in DOMAIN listed /\ listed[k + 1] = e
        BY <3>3, <3>8
      <4>2. d = acking \/ Passed(d, e) \/ \E i \in DOMAIN listed : i < k + 1 /\ listed[i] = d
        BY <3>8, <4>1 DEF InOrder
      <4>3. d # acking
        BY <1>0, <1>a, <3>1
      <4>4. PICK i \in DOMAIN listed : i < k + 1 /\ listed[i] = d
        BY <3>8, <4>2, <4>3
      <4>5. i # 1
        BY <3>1, <3>2, <3>8, <4>4
      <4>6. i - 1 \in DOMAIN listed' /\ listed'[i - 1] = d
        BY <3>3, <4>4, <4>5
      <4>7. i - 1 < k
        BY <3>5, <3>6, <4>4
      <4>8. QED  BY <4>6, <4>7
    <3>9. \A d, e : Earlier(d, e)' => Earlier(d, e)
      BY <3>1 DEF Earlier, shareVars
    <3>10. QED  BY <1>a, <1>b, <3>1, <3>7, <3>8, <3>9 DEF InOrder, shareVars
  <2>3. CASE AckCommand
    <3>1. /\ acking # 0 /\ acking' = 0 /\ commands' = commands \ {acking}
          /\ processed' = processed \cup {acking} /\ UNCHANGED <<written, listed, unmoved, overtaken>>
      BY <2>3 DEF AckCommand, Moved, historyVars, excuseVars
    <3>2. \A d, e : Earlier(d, e)' => Earlier(d, e)
      BY <3>1 DEF Earlier
    <3>3. QED  BY <1>0, <1>a, <1>b, <3>1, <3>2 DEF InOrder
  <2>4. CASE FailAck
    <3>1. acking' = 0 /\ unmoved' = unmoved \cup {acking} /\ UNCHANGED <<shareVars, listed, overtaken>>
      BY <2>4 DEF FailAck
    <3>2. \A d, e : Earlier(d, e)' => Earlier(d, e)
      BY <3>1 DEF Earlier, shareVars
    <3> PICK x : x = acking
      OBVIOUS
    <3>3. \A e : Passed(x, e)'
      BY <3>1 DEF Passed
    <3>4. QED  BY <1>0, <1>a, <1>b, <3>1, <3>2, <3>3 DEF InOrder, shareVars
  <2>5. CASE Expire
    BY <1>1, <2>5 DEF Expire, pollVars, historyVars, excuseVars
  <2>6. QED  BY <1>6, <2>1, <2>2, <2>3, <2>4, <2>5 DEF PollNext
<1>7. CASE LeaderNext
  <2>1. CASE Crash
    <3>1. listed' = <<>> /\ acking' = 0 /\ UNCHANGED <<shareVars, unmoved, overtaken>>
      BY <2>1 DEF Crash
    <3>2. DOMAIN listed' = {}
      BY <3>1
    <3>3. \A d, e : Earlier(d, e)' => Earlier(d, e)
      BY <3>1 DEF Earlier, shareVars
    <3>4. QED  BY <1>0, <1>a, <1>b, <3>1, <3>2, <3>3 DEF InOrder, shareVars
  <2>2. CASE ~Crash
    BY <1>1, <1>7, <2>2 DEF LeaderNext, TakeSnapshot, DeleteJob, LoseLeadership, BecomeLeader,
       DatabaseReady, shareVars, pollVars, historyVars, excuseVars
  <2>3. QED  BY <2>1, <2>2
<1>8. QED  BY <1>2, <1>3, <1>4, <1>5, <1>6, <1>7 DEF Next

\* The farm takes up commands in the order in which they were queued,
\* whichever leader reads the share: an editor's older edit never overwrites
\* its newer one, but for a command that could not be moved out of the way.
THEOREM CommandsAreInOrder == Spec => CommandsInOrder
<1>1. Init => Ordered
  BY AccountedInit DEF Ordered, InOrder, Latest, Init
<1>2. Ordered /\ [Next]_vars => Ordered'
  BY AccountedStep, InOrderStep, LatestStep DEF Ordered
<1>3. Ordered => \A d \in commands : acking = 0 /\ acking' = d =>
                    \A e \in processed : Earlier(d, e) =>
                      d \in unmoved \/ (d \in overtaken /\ edits[d].by # edits[e].by)
  BY DEF Ordered, Accounted, Typed, TypeOK, InOrder, Passed
<1>4. QED  BY <1>1, <1>2, <1>3, PTL DEF Spec, CommandsInOrder
=============================================================================
