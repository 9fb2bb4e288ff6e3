------------------------- MODULE SaveCoordinatorProofs -------------------------
(***************************************************************************)
(* Theorems about SaveCoordinator for every number of calls, files,        *)
(* revisions and rewritings, with and without another program that writes, *)
(* and whichever stages may fail.                                          *)
(***************************************************************************)
EXTENDS SaveCoordinator, TLAPS

-----------------------------------------------------------------------------
(* The inductive invariant                                                 *)

\* The files a session or a call has opened or installed are there.
FilesExist ==
  /\ file[Document] # Missing /\ file[session.path] # Missing
  /\ \A s \in Saver :
       /\ file[saving[s].path] # Missing
       /\ saving[s].installed => file[saving[s].target] # Missing

\* A call has its working file from materializing to installing it, or to the
\* stop of the process, and from the validation on it is one that can be read.
WorkingIsValidated ==
  \A s \in Saver :
    /\ working[s] # Missing <=> saving[s].stage \in {"validate", "flush", "replace", "install", "stopped"}
    /\ saving[s].stage \in {"flush", "replace", "install"} => Unbroken(working[s])

\* What a call has done by the stage it is in.
StagesAreTrue ==
  \A s \in Saver :
    /\ saving[s].installed <=>
         saving[s].stage \in {"check", "record", "archive", "partial", "saved"}
    /\ saving[s].stage \in {"archive", "saved"} =>
         \E r \in records : r.project = saving[s].source /\ r.revision = saving[s].revision

\* The displaced bytes are in the rolling backup, or they have been moved from
\* there and nothing has taken their place.
DisplacedIsFound ==
  \A p \in Path :
    displaced[p] # Missing =>
      \/ backup[p] = displaced[p]
      \/ backup[p] = Missing /\ archive[p] = displaced[p]

IInv ==
  /\ TypeOK
  /\ FilesExist
  /\ WorkingIsValidated
  /\ StagesAreTrue
  /\ DisplacedIsFound
  /\ OnlyValidatedIsInstalled
-----------------------------------------------------------------------------
(* Contents                                                                *)

\* No content is what stands for a missing file.
LEMMA MissingIsNoContent == Missing \notin Content
  BY SaveAssumption DEF Missing, Content, Marks, Foreign

\* A file that is rewritten has a content, which is broken only when the mark is.
LEMMA Rewritten ==
  ASSUME NEW c \in Content, NEW mark \in Marks
  PROVE  /\ Append(c, mark) \in Content
         /\ Unbroken(c) /\ mark # Broken => Unbroken(Append(c, mark))
  BY SaveAssumption DEF Content, Unbroken

\* Revisions and the two marks are marks.
LEMMA MarksType ==
  /\ Revisions \subseteq Marks
  /\ Broken \in Marks /\ Foreign \in Marks
  /\ Foreign # Broken /\ Broken \notin Revisions
  BY SaveAssumption DEF Revisions, Marks, Broken, Foreign
\* What a call captures on its way keeps its type.
LEMMA MovedType ==
  ASSUME NEW call \in Calls, NEW stage \in Stages, NEW output \in Content
  PROVE  /\ [call EXCEPT !.stage = stage, !.output = output] \in Calls
         /\ [call EXCEPT !.stage = stage, !.installed = TRUE] \in Calls
  <1>1. [call EXCEPT !.stage = stage] \in Calls
    BY DEF Calls
  <1>2. [call EXCEPT !.stage = stage, !.output = output]
          = [[call EXCEPT !.stage = stage] EXCEPT !.output = output]
    BY DEF Calls
  <1>3. [call EXCEPT !.stage = stage, !.installed = TRUE]
          = [[call EXCEPT !.stage = stage] EXCEPT !.installed = TRUE]
    BY DEF Calls
  <1>4. \A c \in Calls : [c EXCEPT !.output = output] \in Calls
    BY DEF Calls
  <1>5. \A c \in Calls : [c EXCEPT !.installed = TRUE] \in Calls
    BY DEF Calls
  <1> QED
    BY <1>1, <1>2, <1>3, <1>4, <1>5

-----------------------------------------------------------------------------
(* The steps of a call                                                     *)

OnDisk == {"validate", "flush", "replace", "install", "stopped"}
Readable == {"flush", "replace", "install"}
Installed == {"check", "record", "archive", "partial", "saved"}
Linked == {"archive", "saved"}

\* A call moves to another stage and does nothing else.
LEMMA StageMoves ==
  ASSUME IInv,
         NEW s \in Saver, NEW stage \in Stages \cup Outcomes, Goto(s, stage),
         UNCHANGED <<Files, Editor, records, working>>,
         saving[s].installed <=> stage \in Installed,
         saving[s].stage \in OnDisk <=> stage \in OnDisk,
         stage \in Readable => Unbroken(working[s]),
         stage \in Linked => saving[s].stage \in Linked
  PROVE  IInv'
  <1> USE DEF IInv, Goto, Files, Editor, OnDisk, Readable, Installed, Linked
  <1>1. /\ \A u \in Saver : saving'[u] = [saving[u] EXCEPT !.stage = IF u = s THEN stage ELSE @]
        /\ saving' \in [Saver -> Calls]
    BY DEF TypeOK, Calls
  <1>2. \A u \in Saver : /\ saving'[u].path = saving[u].path
                         /\ saving'[u].target = saving[u].target
                         /\ saving'[u].source = saving[u].source
                         /\ saving'[u].revision = saving[u].revision
                         /\ saving'[u].installed = saving[u].installed
                         /\ saving'[u].stage = IF u = s THEN stage ELSE saving[u].stage
    BY <1>1 DEF TypeOK, Calls
  <1>3. TypeOK'
    BY <1>1 DEF TypeOK, Calls
  <1>4. FilesExist'
    BY <1>2 DEF FilesExist
  <1>5. WorkingIsValidated'
    BY <1>2 DEF WorkingIsValidated
  <1>6. StagesAreTrue'
    BY <1>2 DEF StagesAreTrue
  <1>7. DisplacedIsFound' /\ OnlyValidatedIsInstalled'
    BY DEF DisplacedIsFound, OnlyValidatedIsInstalled
  <1> QED
    BY <1>3, <1>4, <1>5, <1>6, <1>7

\* A call that is refused before it installs anything removes its working file.
LEMMA RefuseStep ==
  ASSUME IInv,
         NEW s \in Saver, NEW outcome \in Refused, Refuse(s, outcome),
         ~saving[s].installed
  PROVE  IInv'
  <1> USE DEF IInv, Refuse, Goto, RemoveWorking, Files, Editor
  <1>1. saving' \in [Saver -> Calls]
    BY DEF TypeOK, Calls, Outcomes
  <1>2. \A u \in Saver : /\ saving'[u].path = saving[u].path
                         /\ saving'[u].target = saving[u].target
                         /\ saving'[u].source = saving[u].source
                         /\ saving'[u].revision = saving[u].revision
                         /\ saving'[u].installed = saving[u].installed
                         /\ saving'[u].stage = IF u = s THEN outcome ELSE saving[u].stage
                         /\ working'[u] = IF u = s THEN Missing ELSE working[u]
    BY DEF TypeOK, Calls
  <1>3. TypeOK'
    BY <1>1 DEF TypeOK, Calls
  <1>4. FilesExist'
    BY <1>2 DEF FilesExist
  <1>5. WorkingIsValidated'
    BY <1>2 DEF WorkingIsValidated, Refused
  <1>6. StagesAreTrue'
    BY <1>2 DEF StagesAreTrue, Refused
  <1>7. DisplacedIsFound' /\ OnlyValidatedIsInstalled'
    BY DEF DisplacedIsFound, OnlyValidatedIsInstalled
  <1> QED
    BY <1>3, <1>4, <1>5, <1>6, <1>7

\* A save that has replaced its target and then fails.
LEMMA PartialStep ==
  ASSUME IInv,
         NEW s \in Saver, PartialFinalization(s), saving[s].stage \in {"check", "record", "archive"}
  PROVE  IInv'
  <1>1. "partial" \in Stages \cup Outcomes
    BY DEF Outcomes
  <1>2. /\ saving[s].installed <=> "partial" \in Installed
        /\ saving[s].stage \in OnDisk <=> "partial" \in OnDisk
        /\ "partial" \in Readable => Unbroken(working[s])
        /\ "partial" \in Linked => saving[s].stage \in Linked
    BY DEF IInv, StagesAreTrue, OnDisk, Readable, Installed, Linked
  <1> QED
    BY <1>1, <1>2, StageMoves DEF PartialFinalization

LEMMA RequestStep ==
  ASSUME IInv, NEW s \in Saver, Request(s)
  PROVE  IInv'
  <1> USE DEF IInv, Files, Editor
  <1>1. PICK mode \in {"Save", "SaveAs"}, follow \in BOOLEAN, target \in Path :
          saving' = [saving EXCEPT ![s] =
            [stage |-> "verify", mode |-> mode, follow |-> follow, path |-> session.path,
             target |-> target, source |-> session.source, revision |-> session.revision,
             whole |-> session.whole, output |-> << >>, installed |-> FALSE]]
    BY DEF Request
  <1>2. UNCHANGED <<Files, Editor, records, working>> /\ At(s, "idle")
    BY DEF Request
  <1>3. TypeOK'
    BY <1>1, <1>2 DEF TypeOK, Calls, Stages, Content
  <1>4. \A u \in Saver : IF u = s THEN /\ saving'[u].path = session.path
                                       /\ saving'[u].stage = "verify"
                                       /\ saving'[u].installed = FALSE
                        ELSE saving'[u] = saving[u]
    BY <1>1 DEF TypeOK, Calls
  <1>5. FilesExist'
    BY <1>2, <1>4 DEF FilesExist
  <1>6. WorkingIsValidated'
    BY <1>2, <1>4 DEF WorkingIsValidated, At
  <1>7. StagesAreTrue'
    BY <1>2, <1>4 DEF StagesAreTrue
  <1>8. DisplacedIsFound' /\ OnlyValidatedIsInstalled'
    BY <1>2 DEF DisplacedIsFound, OnlyValidatedIsInstalled
  <1> QED
    BY <1>3, <1>5, <1>6, <1>7, <1>8

LEMMA VerifySourceStep ==
  ASSUME IInv, NEW s \in Saver, VerifySource(s)
  PROVE  IInv'
  <1>1. PICK stage \in {"materialize", "source_changed"} : Goto(s, stage)
    BY DEF VerifySource
  <1>2. /\ stage \in Stages \cup Outcomes
        /\ saving[s].installed <=> stage \in Installed
        /\ saving[s].stage \in OnDisk <=> stage \in OnDisk
        /\ stage \in Readable => Unbroken(working[s])
        /\ stage \in Linked => saving[s].stage \in Linked
    BY DEF VerifySource, At, IInv, StagesAreTrue, OnDisk, Readable, Installed, Linked,
           Stages, Outcomes, Refused
  <1>3. UNCHANGED <<Files, Editor, records, working>>
    BY DEF VerifySource
  <1> QED
    BY <1>1, <1>2, <1>3, StageMoves

LEMMA MaterializeStep ==
  ASSUME IInv, NEW s \in Saver, Materialize(s)
  PROVE  IInv'
  <1>1. ~saving[s].installed /\ At(s, "materialize")
    BY DEF Materialize, At, IInv, StagesAreTrue
  <1>2. CASE Refuse(s, "materialize_failed")
    BY <1>1, <1>2, RefuseStep DEF Refused
  <1>3. ASSUME NEW mark \in {saving[s].revision, Broken},
               working' = [working EXCEPT ![s] = Append(file[saving[s].path], mark)],
               saving' = [saving EXCEPT ![s] = [@ EXCEPT !.stage = "validate",
                                                         !.output = Append(file[saving[s].path], mark)]],
               UNCHANGED <<Files, Editor, records>>
        PROVE  IInv'
    <2> DEFINE output == Append(file[saving[s].path], mark)
    <2> USE DEF IInv, Files, Editor
    <2>1. output \in Content /\ output # Missing
      <3>1. mark \in Marks
        BY MarksType DEF TypeOK, Calls
      <3>2. file[saving[s].path] \in Content
        BY DEF TypeOK, Calls, FilesExist
      <3> QED
        BY <3>1, <3>2, Rewritten, MissingIsNoContent
    <2> HIDE DEF output
    <2>2. /\ working' = [working EXCEPT ![s] = output]
          /\ saving' = [saving EXCEPT ![s] = [@ EXCEPT !.stage = "validate", !.output = output]]
      BY <1>3 DEF output
    <2>3. \A u \in Saver : /\ saving'[u].path = saving[u].path
                           /\ saving'[u].target = saving[u].target
                           /\ saving'[u].source = saving[u].source
                           /\ saving'[u].revision = saving[u].revision
                           /\ saving'[u].installed = saving[u].installed
                           /\ saving'[u].stage = IF u = s THEN "validate" ELSE saving[u].stage
                           /\ working'[u] = IF u = s THEN output ELSE working[u]
      BY <2>2 DEF TypeOK, Calls
    <2>4. TypeOK'
      <3> DEFINE call == [saving[s] EXCEPT !.stage = "validate", !.output = output]
      <3>0. call \in Calls
        BY <2>1, MovedType DEF TypeOK, Stages
      <3>1. saving' \in [Saver -> Calls]
        <4>1. saving' = [saving EXCEPT ![s] = call]
          BY <2>2
        <4> HIDE DEF call
        <4> QED
          BY <3>0, <4>1 DEF TypeOK
      <3>2. working' \in [Saver -> Content \cup {Missing}]
        BY <2>1, <2>2 DEF TypeOK, Calls
      <3> QED
        BY <1>3, <3>1, <3>2 DEF TypeOK, Calls
    <2>5. FilesExist'
      BY <1>3, <2>3 DEF FilesExist
    <2>6. WorkingIsValidated'
      BY <2>1, <2>3 DEF WorkingIsValidated
    <2>7. StagesAreTrue'
      BY <1>1, <1>3, <2>3 DEF StagesAreTrue
    <2>8. DisplacedIsFound' /\ OnlyValidatedIsInstalled'
      BY <1>3 DEF DisplacedIsFound, OnlyValidatedIsInstalled
    <2> QED
      BY <2>4, <2>5, <2>6, <2>7, <2>8
  <1> QED
    BY <1>2, <1>3 DEF Materialize

LEMMA ValidateTempStep ==
  ASSUME IInv, NEW s \in Saver, ValidateTemp(s)
  PROVE  IInv'
  <1>1. ~saving[s].installed /\ At(s, "validate")
    BY DEF ValidateTemp, At, IInv, StagesAreTrue
  <1>2. CASE Refuse(s, "validation_failed")
    BY <1>1, <1>2, RefuseStep DEF Refused
  <1>3. CASE Valid(s) /\ Goto(s, "flush") /\ UNCHANGED <<Files, Editor, records, working>>
    <2>1. /\ "flush" \in Stages \cup Outcomes
          /\ saving[s].installed <=> "flush" \in Installed
          /\ saving[s].stage \in OnDisk <=> "flush" \in OnDisk
          /\ "flush" \in Readable => Unbroken(working[s])
          /\ "flush" \in Linked => saving[s].stage \in Linked
      BY <1>1, <1>3 DEF At, Valid, OnDisk, Readable, Installed, Linked, Stages
    <2> QED
      BY <1>3, <2>1, StageMoves
  <1> QED
    BY <1>2, <1>3 DEF ValidateTemp

LEMMA FlushTempStep ==
  ASSUME IInv, NEW s \in Saver, FlushTemp(s)
  PROVE  IInv'
  <1>1. ~saving[s].installed /\ At(s, "flush")
    BY DEF FlushTemp, At, IInv, StagesAreTrue
  <1>2. CASE Refuse(s, "flush_failed")
    BY <1>1, <1>2, RefuseStep DEF Refused
  <1>3. CASE Goto(s, "replace") /\ UNCHANGED <<Files, Editor, records, working>>
    <2>1. /\ "replace" \in Stages \cup Outcomes
          /\ saving[s].installed <=> "replace" \in Installed
          /\ saving[s].stage \in OnDisk <=> "replace" \in OnDisk
          /\ "replace" \in Readable => Unbroken(working[s])
          /\ "replace" \in Linked => saving[s].stage \in Linked
      BY <1>1 DEF IInv, WorkingIsValidated, At, OnDisk, Readable, Installed, Linked, Stages
    <2> QED
      BY <1>3, <2>1, StageMoves
  <1> QED
    BY <1>2, <1>3 DEF FlushTemp

LEMMA ReplaceOrMoveStep ==
  ASSUME IInv, NEW s \in Saver, ReplaceOrMove(s)
  PROVE  IInv'
  <1>1. ~saving[s].installed /\ At(s, "replace")
    BY DEF ReplaceOrMove, At, IInv, StagesAreTrue
  <1>2. CASE Refuse(s, "replace_failed")
    BY <1>1, <1>2, RefuseStep DEF Refused
  <1>3. CASE Goto(s, "install") /\ UNCHANGED <<Files, Editor, records, working>>
    <2>1. /\ "install" \in Stages \cup Outcomes
          /\ saving[s].installed <=> "install" \in Installed
          /\ saving[s].stage \in OnDisk <=> "install" \in OnDisk
          /\ "install" \in Readable => Unbroken(working[s])
          /\ "install" \in Linked => saving[s].stage \in Linked
      BY <1>1 DEF IInv, WorkingIsValidated, At, OnDisk, Readable, Installed, Linked, Stages
    <2> QED
      BY <1>3, <2>1, StageMoves
  <1> QED
    BY <1>2, <1>3 DEF ReplaceOrMove

LEMMA InstallStep ==
  ASSUME IInv, NEW s \in Saver, Install(s)
  PROVE  IInv'
  <1> DEFINE target == saving[s].target
  <1> USE DEF IInv
  <1>1. /\ At(s, "install") /\ target \in Path
        /\ working[s] \in Content /\ Unbroken(working[s])
        /\ file' = [file EXCEPT ![target] = working[s]]
        /\ working' = [working EXCEPT ![s] = Missing]
        /\ saving' = [saving EXCEPT ![s] = [@ EXCEPT !.stage = "check", !.installed = TRUE]]
        /\ UNCHANGED <<archive, session, project, records>>
    <2>1. At(s, "install") /\ saving[s].stage = "install"
      BY DEF Install, At
    <2>2. target \in Path
      BY DEF TypeOK, Calls
    <2>3. working[s] \in Content /\ Unbroken(working[s])
      BY <2>1 DEF TypeOK, WorkingIsValidated
    <2> QED
      BY <2>1, <2>2, <2>3 DEF Install, RemoveWorking, Editor
  <1>2. \/ /\ backup' = [backup EXCEPT ![target] = file[target]]
           /\ displaced' = [displaced EXCEPT ![target] = file[target]]
        \/ UNCHANGED <<backup, displaced>>
    BY DEF Install
  <1> HIDE DEF target
  <1>3. \A u \in Saver : /\ saving'[u].path = saving[u].path
                         /\ saving'[u].target = saving[u].target
                         /\ saving'[u].source = saving[u].source
                         /\ saving'[u].revision = saving[u].revision
                         /\ saving'[u].installed <=> (u = s \/ saving[u].installed)
                         /\ saving'[u].stage = IF u = s THEN "check" ELSE saving[u].stage
                         /\ working'[u] = IF u = s THEN Missing ELSE working[u]
    BY <1>1 DEF TypeOK, Calls
  <1>4. \A p \in Path : file'[p] = IF p = target THEN working[s] ELSE file[p]
    BY <1>1 DEF TypeOK, Calls
  <1>5. TypeOK'
    <2> DEFINE call == [saving[s] EXCEPT !.stage = "check", !.installed = TRUE]
    <2>0. call \in Calls
      BY MovedType DEF TypeOK, Stages
    <2>1. saving' \in [Saver -> Calls]
      <3>1. saving' = [saving EXCEPT ![s] = call]
        BY <1>1
      <3> HIDE DEF call
      <3> QED
        BY <2>0, <3>1 DEF TypeOK
    <2>2. /\ file' \in [Path -> Content \cup {Missing}]
          /\ backup' \in [Path -> Content \cup {Missing}]
          /\ displaced' \in [Path -> Content \cup {Missing}]
          /\ working' \in [Saver -> Content \cup {Missing}]
      BY <1>1, <1>2 DEF TypeOK, Calls
    <2> QED
      BY <1>1, <2>1, <2>2 DEF TypeOK, Calls
  <1>6. FilesExist'
    <2>1. \A p \in Path : file'[p] # Missing <=> (p = target \/ file[p] # Missing)
      BY <1>1, <1>4, MissingIsNoContent
    <2>2. session.path \in Path /\ \A u \in Saver : saving[u].path \in Path /\ saving[u].target \in Path
      BY DEF TypeOK, Calls
    <2>3. session' = session /\ Document \in Path
      BY <1>1, SaveAssumption
    <2> QED
      BY <1>3, <2>1, <2>2, <2>3 DEF FilesExist, target
  <1>7. WorkingIsValidated'
    BY <1>3 DEF WorkingIsValidated
  <1>8. StagesAreTrue'
    <2>1. records' = records /\ saving[s].stage = "install"
      BY <1>1 DEF At
    <2> QED
      BY <1>3, <2>1 DEF StagesAreTrue
  <1>9. DisplacedIsFound'
    BY <1>1, <1>2 DEF DisplacedIsFound, TypeOK
  <1>10. OnlyValidatedIsInstalled'
    BY <1>1, <1>4 DEF OnlyValidatedIsInstalled
  <1> QED
    BY <1>5, <1>6, <1>7, <1>8, <1>9, <1>10

LEMMA CheckInstalledStep ==
  ASSUME IInv, NEW s \in Saver, CheckInstalled(s)
  PROVE  IInv'
  <1>1. saving[s].installed /\ At(s, "check")
    BY DEF CheckInstalled, At, IInv, StagesAreTrue
  <1>2. CASE PartialFinalization(s)
    BY <1>1, <1>2, PartialStep DEF At
  <1>3. CASE Goto(s, "record") /\ UNCHANGED <<Files, Editor, records, working>>
    <2>1. /\ "record" \in Stages \cup Outcomes
          /\ saving[s].installed <=> "record" \in Installed
          /\ saving[s].stage \in OnDisk <=> "record" \in OnDisk
          /\ "record" \in Readable => Unbroken(working[s])
          /\ "record" \in Linked => saving[s].stage \in Linked
      BY <1>1 DEF At, OnDisk, Readable, Installed, Linked, Stages
    <2> QED
      BY <1>3, <2>1, StageMoves
  <1> QED
    BY <1>2, <1>3 DEF CheckInstalled

\* A recorded materialization takes the place of the one of the same revision.
LEMMA RecordMaterializedRevisionStep ==
  ASSUME IInv, NEW s \in Saver, RecordMaterializedRevision(s)
  PROVE  IInv'
  <1>1. saving[s].installed /\ At(s, "record")
    BY DEF RecordMaterializedRevision, At, IInv, StagesAreTrue
  <1>2. CASE PartialFinalization(s)
    BY <1>1, <1>2, PartialStep DEF At
  <1>3. ASSUME records' = Recorded(s), Goto(s, "archive"), UNCHANGED <<Files, Editor, working>>
        PROVE  IInv'
    <2> USE DEF IInv, Files, Editor
    <2>1. \A u \in Saver : /\ saving'[u].path = saving[u].path
                           /\ saving'[u].target = saving[u].target
                           /\ saving'[u].source = saving[u].source
                           /\ saving'[u].revision = saving[u].revision
                           /\ saving'[u].installed = saving[u].installed
                           /\ saving'[u].stage = IF u = s THEN "archive" ELSE saving[u].stage
      BY <1>3 DEF Goto, TypeOK, Calls
    <2>2. TypeOK'
      <3>1. saving' \in [Saver -> Calls]
        BY <1>3 DEF Goto, TypeOK, Calls, Stages
      <3>2. records' \subseteq [project : Content, revision : Revisions, output : Content]
        <4>1. saving[s].source \in Content /\ saving[s].revision \in Revisions /\ saving[s].output \in Content
          BY DEF TypeOK, Calls
        <4>2. records \subseteq [project : Content, revision : Revisions, output : Content]
          BY DEF TypeOK
        <4> QED
          BY <1>3, <4>1, <4>2 DEF Recorded
      <3> QED
        BY <1>3, <3>1, <3>2 DEF TypeOK, Calls
    <2>3. FilesExist'
      BY <1>3, <2>1 DEF FilesExist
    <2>4. WorkingIsValidated'
      BY <1>1, <1>3, <2>1 DEF WorkingIsValidated, At
    <2>5. StagesAreTrue'
      <3> DEFINE row == [project |-> saving[s].source, revision |-> saving[s].revision,
                         output |-> saving[s].output]
      <3>1. row \in records'
        BY <1>3 DEF Recorded
      <3>2. ASSUME NEW r \in records
            PROVE  \E q \in records' : q.project = r.project /\ q.revision = r.revision
        <4>1. CASE r.project = saving[s].source /\ r.revision = saving[s].revision
          BY <3>1, <4>1
        <4>2. CASE ~(r.project = saving[s].source /\ r.revision = saving[s].revision)
          BY <1>3, <4>2 DEF Recorded
        <4> QED
          BY <4>1, <4>2
      <3>3. ASSUME NEW u \in Saver, saving'[u].stage \in {"archive", "saved"}
            PROVE  \E q \in records' : q.project = saving'[u].source /\ q.revision = saving'[u].revision
        <4>1. CASE u = s
          BY <2>1, <3>1, <4>1
        <4>2. CASE u # s
          <5>1. PICK r \in records : r.project = saving[u].source /\ r.revision = saving[u].revision
            BY <2>1, <3>3, <4>2 DEF StagesAreTrue
          <5> QED
            BY <2>1, <3>2, <5>1
        <4> QED
          BY <4>1, <4>2
      <3>4. \A u \in Saver : saving'[u].installed <=>
              saving'[u].stage \in {"check", "record", "archive", "partial", "saved"}
        BY <1>1, <2>1 DEF StagesAreTrue
      <3> QED
        BY <3>3, <3>4 DEF StagesAreTrue
    <2>6. DisplacedIsFound' /\ OnlyValidatedIsInstalled'
      BY <1>3 DEF DisplacedIsFound, OnlyValidatedIsInstalled
    <2> QED
      BY <2>2, <2>3, <2>4, <2>5, <2>6
  <1> QED
    BY <1>2, <1>3 DEF RecordMaterializedRevision

LEMMA ArchiveBackupStep ==
  ASSUME IInv, NEW s \in Saver, ArchiveBackup(s)
  PROVE  IInv'
  <1> DEFINE target == saving[s].target
  <1>1. saving[s].installed /\ At(s, "archive")
    BY DEF ArchiveBackup, At, IInv, StagesAreTrue
  <1>2. CASE PartialFinalization(s)
    BY <1>1, <1>2, PartialStep DEF At
  <1>3. CASE Goto(s, "saved") /\ UNCHANGED <<Files, Editor, records, working>>
    <2>1. /\ "saved" \in Stages \cup Outcomes
          /\ saving[s].installed <=> "saved" \in Installed
          /\ saving[s].stage \in OnDisk <=> "saved" \in OnDisk
          /\ "saved" \in Readable => Unbroken(working[s])
          /\ "saved" \in Linked => saving[s].stage \in Linked
      BY <1>1 DEF At, OnDisk, Readable, Installed, Linked, Outcomes
    <2> QED
      BY <1>3, <2>1, StageMoves
  <1>4. ASSUME backup[target] # Missing,
               archive' = [archive EXCEPT ![target] = backup[target]],
               backup' = [backup EXCEPT ![target] = Missing],
               Goto(s, "saved"),
               UNCHANGED <<file, displaced, Editor, records, working>>
        PROVE  IInv'
    <2> USE DEF IInv, Editor
    <2>1. \A u \in Saver : /\ saving'[u].path = saving[u].path
                           /\ saving'[u].target = saving[u].target
                           /\ saving'[u].source = saving[u].source
                           /\ saving'[u].revision = saving[u].revision
                           /\ saving'[u].installed = saving[u].installed
                           /\ saving'[u].stage = IF u = s THEN "saved" ELSE saving[u].stage
      BY <1>4 DEF Goto, TypeOK, Calls
    <2>2. TypeOK'
      <3>1. saving' \in [Saver -> Calls]
        BY <1>4 DEF Goto, TypeOK, Calls, Outcomes
      <3>2. /\ backup' \in [Path -> Content \cup {Missing}]
            /\ archive' \in [Path -> Content \cup {Missing}]
        BY <1>4 DEF TypeOK, Calls
      <3> QED
        BY <1>4, <3>1, <3>2 DEF TypeOK, Calls
    <2>3. FilesExist'
      BY <1>4, <2>1 DEF FilesExist
    <2>4. WorkingIsValidated'
      BY <1>1, <1>4, <2>1 DEF WorkingIsValidated, At
    <2>5. StagesAreTrue'
      BY <1>1, <1>4, <2>1 DEF StagesAreTrue, At
    <2>6. DisplacedIsFound'
      BY <1>4 DEF DisplacedIsFound, TypeOK
    <2>7. OnlyValidatedIsInstalled'
      BY <1>4 DEF OnlyValidatedIsInstalled
    <2> QED
      BY <2>2, <2>3, <2>4, <2>5, <2>6, <2>7
  <1> QED
    BY <1>2, <1>3, <1>4 DEF ArchiveBackup

-----------------------------------------------------------------------------
(* The steps of the session and of the process                             *)

\* A session opened on a file that is there finds or begins its sidecar.
LEMMA OpenType ==
  ASSUME TypeOK, NEW p \in Path, file[p] # Missing, Open(p)
  PROVE  /\ session' \in [path : Path, source : Content, revision : Revisions, whole : BOOLEAN]
         /\ session'.path = p
         /\ project' \in [DOMAIN project' -> Revisions]
         /\ DOMAIN project' \subseteq Content /\ session'.source \in DOMAIN project'
         /\ project'[session'.source] = session'.revision
  <1>1. file[p] \in Content /\ 0 \in Revisions
    BY SaveAssumption DEF TypeOK, Calls, Revisions
  <1>2. Opened(p).revision \in Revisions /\ Opened(p).source = file[p] /\ Opened(p).path = p
    BY <1>1 DEF Opened, TypeOK
  <1> QED
    BY <1>1, <1>2 DEF Open, Opened, TypeOK

\* A call that has returned follows nothing and holds nothing.
LEMMA IdleType ==
  /\ Idle \in Calls
  /\ Idle.path = Document /\ Idle.stage = "idle" /\ Idle.installed = FALSE
  BY SaveAssumption DEF Idle, Calls, Revisions, Content

LEMMA ReplyStep ==
  ASSUME IInv, NEW s \in Saver, Reply(s)
  PROVE  IInv'
  <1> USE DEF IInv, Files
  <1>1. /\ saving' = [saving EXCEPT ![s] = Idle] /\ saving[s].stage \in Outcomes
        /\ UNCHANGED <<Files, records, working>>
    BY DEF Reply
  <1>2. \A u \in Saver : IF u = s THEN saving'[u] = Idle ELSE saving'[u] = saving[u]
    BY <1>1 DEF TypeOK, Calls
  <1>3. /\ session' \in [path : Path, source : Content, revision : Revisions, whole : BOOLEAN]
        /\ file[session'.path] # Missing
        /\ project' \in [DOMAIN project' -> Revisions]
        /\ DOMAIN project' \subseteq Content /\ session'.source \in DOMAIN project'
        /\ project'[session'.source] = session'.revision
    <2>1. CASE UNCHANGED Editor
      <3>1. session' = session /\ project' = project
        BY <2>1 DEF Editor
      <3> QED
        BY <3>1 DEF TypeOK, FilesExist
    <2>2. CASE At(s, "saved") /\ Open(saving[s].target)
      <3>1. saving[s].target \in Path
        BY DEF TypeOK, Calls
      <3>2. file[saving[s].target] # Missing
        BY <2>2 DEF At, FilesExist, StagesAreTrue
      <3>3. session'.path = saving[s].target
        BY <2>2, <3>1, <3>2, OpenType
      <3> QED
        BY <2>2, <3>1, <3>2, <3>3, OpenType
    <2> QED
      BY <2>1, <2>2 DEF Reply
  <1>4. TypeOK'
    <2>1. saving' \in [Saver -> Calls]
      BY <1>1, IdleType DEF TypeOK, Calls
    <2> QED
      BY <1>1, <1>3, <2>1 DEF TypeOK, Calls
  <1>5. FilesExist'
    BY <1>1, <1>2, <1>3, IdleType DEF FilesExist
  <1>6. WorkingIsValidated'
    BY <1>1, <1>2, IdleType DEF WorkingIsValidated, Outcomes, Refused
  <1>7. StagesAreTrue'
    BY <1>1, <1>2, IdleType DEF StagesAreTrue
  <1>8. DisplacedIsFound' /\ OnlyValidatedIsInstalled'
    BY <1>1 DEF DisplacedIsFound, OnlyValidatedIsInstalled
  <1> QED
    BY <1>4, <1>5, <1>6, <1>7, <1>8

LEMMA EditStep ==
  ASSUME IInv, Edit
  PROVE  IInv'
  <1> USE DEF IInv, Files
  <1>1. session.revision + 1 \in Revisions
    BY SaveAssumption DEF Edit, TypeOK, Revisions
  <1>2. TypeOK'
    BY <1>1 DEF Edit, TypeOK
  <1>3. session'.path = session.path
    BY DEF Edit, TypeOK
  <1>4. FilesExist'
    BY <1>3 DEF Edit, FilesExist
  <1>5. WorkingIsValidated' /\ StagesAreTrue'
    BY DEF Edit, WorkingIsValidated, StagesAreTrue
  <1>6. DisplacedIsFound' /\ OnlyValidatedIsInstalled'
    BY DEF Edit, DisplacedIsFound, OnlyValidatedIsInstalled
  <1> QED
    BY <1>2, <1>4, <1>5, <1>6

LEMMA LoadPagesStep ==
  ASSUME IInv, LoadPages
  PROVE  IInv'
  <1> USE DEF IInv, Files
  <1>1. TypeOK'
    BY DEF LoadPages, TypeOK
  <1>2. session'.path = session.path
    BY DEF LoadPages, TypeOK
  <1>3. FilesExist'
    BY <1>2 DEF LoadPages, FilesExist
  <1>4. WorkingIsValidated' /\ StagesAreTrue'
    BY DEF LoadPages, WorkingIsValidated, StagesAreTrue
  <1>5. DisplacedIsFound' /\ OnlyValidatedIsInstalled'
    BY DEF LoadPages, DisplacedIsFound, OnlyValidatedIsInstalled
  <1> QED
    BY <1>1, <1>3, <1>4, <1>5

LEMMA OtherProgramWritesStep ==
  ASSUME IInv, NEW p \in Path, OtherProgramWrites(p)
  PROVE  IInv'
  <1> USE DEF IInv, Editor
  <1> DEFINE written == Append(file[p], Foreign)
  <1>1. written \in Content /\ written # Missing /\ Unbroken(written)
    <2>1. file[p] \in Content /\ Unbroken(file[p])
      BY DEF OtherProgramWrites, TypeOK, OnlyValidatedIsInstalled
    <2> QED
      BY <2>1, MarksType, Rewritten, MissingIsNoContent
  <1>2. /\ file' = [file EXCEPT ![p] = written]
        /\ UNCHANGED <<backup, archive, displaced, session, project, records, working, saving>>
    BY DEF OtherProgramWrites
  <1> HIDE DEF written
  <1>3. \A q \in Path : file'[q] = IF q = p THEN written ELSE file[q]
    BY <1>2 DEF TypeOK, Calls
  <1>4. TypeOK'
    BY <1>1, <1>2 DEF TypeOK, Calls
  <1>5. FilesExist'
    BY <1>1, <1>2, <1>3, SaveAssumption DEF FilesExist, TypeOK
  <1>6. WorkingIsValidated' /\ StagesAreTrue' /\ DisplacedIsFound'
    BY <1>2 DEF WorkingIsValidated, StagesAreTrue, DisplacedIsFound
  <1>7. OnlyValidatedIsInstalled'
    BY <1>1, <1>3 DEF OnlyValidatedIsInstalled
  <1> QED
    BY <1>4, <1>5, <1>6, <1>7

\* A stop of the process: files and records are what is left.
LEMMA RestartStep ==
  ASSUME IInv, Restart
  PROVE  IInv'
  <1> USE DEF IInv, Files
  <1> DEFINE stage(s) == IF working[s] = Missing THEN "idle" ELSE "stopped"
  <1>1. /\ saving' = [s \in Saver |-> [Idle EXCEPT !.stage = stage(s)]]
        /\ UNCHANGED <<Files, records, working>> /\ Open(session.path)
    BY DEF Restart
  <1> HIDE DEF stage
  <1>0. \A s \in Saver : /\ saving'[s] \in Calls /\ saving'[s].path = Document
                         /\ saving'[s].stage = stage(s) /\ ~saving'[s].installed
    <2>1. \A s \in Saver : stage(s) \in {"idle", "stopped"}
      BY DEF stage
    <2> QED
      BY <1>1, <2>1, IdleType DEF Calls
  <1>2. /\ session' \in [path : Path, source : Content, revision : Revisions, whole : BOOLEAN]
        /\ file[session'.path] # Missing
        /\ project' \in [DOMAIN project' -> Revisions]
        /\ DOMAIN project' \subseteq Content /\ session'.source \in DOMAIN project'
        /\ project'[session'.source] = session'.revision
    <2>1. session.path \in Path /\ file[session.path] # Missing
      BY DEF TypeOK, Calls, FilesExist
    <2> QED
      BY <1>1, <2>1, OpenType
  <1>3. TypeOK'
    BY <1>0, <1>1, <1>2 DEF TypeOK
  <1>4. FilesExist'
    BY <1>0, <1>1, <1>2 DEF FilesExist
  <1>5. WorkingIsValidated' /\ StagesAreTrue'
    BY <1>0, <1>1 DEF WorkingIsValidated, StagesAreTrue, stage
  <1>6. DisplacedIsFound' /\ OnlyValidatedIsInstalled'
    BY <1>1 DEF DisplacedIsFound, OnlyValidatedIsInstalled
  <1> QED
    BY <1>3, <1>4, <1>5, <1>6

LEMMA StutterStep ==
  ASSUME IInv, UNCHANGED vars
  PROVE  IInv'
  BY DEF vars, IInv, TypeOK, FilesExist, WorkingIsValidated, StagesAreTrue, DisplacedIsFound,
         OnlyValidatedIsInstalled

-----------------------------------------------------------------------------
(* The theorems                                                            *)

LEMMA InitIInv == Init => IInv
  <1> SUFFICES ASSUME Init PROVE IInv
    OBVIOUS
  <1>1. << >> \in Content /\ 0 \in Revisions /\ << >> # Missing /\ Unbroken(<< >>)
    BY SaveAssumption DEF Content, Revisions, Missing, Unbroken
  <1>2. TypeOK
    BY <1>1, IdleType, SaveAssumption DEF Init, TypeOK
  <1>3. FilesExist
    BY <1>1, IdleType, SaveAssumption DEF Init, FilesExist
  <1>4. WorkingIsValidated /\ StagesAreTrue
    BY IdleType DEF Init, WorkingIsValidated, StagesAreTrue
  <1>5. DisplacedIsFound /\ OnlyValidatedIsInstalled
    BY <1>1 DEF Init, DisplacedIsFound, OnlyValidatedIsInstalled
  <1> QED
    BY <1>2, <1>3, <1>4, <1>5 DEF IInv

LEMMA NextIInv == IInv /\ [Next]_vars => IInv'
  <1> SUFFICES ASSUME IInv, [Next]_vars PROVE IInv'
    OBVIOUS
  <1>1. ASSUME NEW s \in Saver, SaverStep(s) PROVE IInv'
    BY <1>1, VerifySourceStep, MaterializeStep, ValidateTempStep, FlushTempStep,
       ReplaceOrMoveStep, InstallStep, CheckInstalledStep, RecordMaterializedRevisionStep,
       ArchiveBackupStep, ReplyStep DEF SaverStep
  <1> QED
    BY <1>1, RequestStep, OtherProgramWritesStep, EditStep, LoadPagesStep, RestartStep,
       StutterStep DEF Next

LEMMA Inductive == Spec => []IInv
  BY InitIInv, NextIInv, PTL DEF Spec

\* Whatever fails and whenever the process stops, what is at a path is a
\* document that was validated or that another program wrote; a call that
\* returns has no working file, and one that a stop of the process ended
\* between materializing and installing leaves it on disk (save.rs, save).
THEOREM FilesStaySound == Spec => []FilesAreSound
  <1>1. IInv => FilesAreSound
    BY DEF IInv, FilesAreSound, WorkingIsRemoved, WorkingIsValidated, Holding
  <1> QED
    BY <1>1, Inductive, PTL

\* What a call reports is what happened to its target and to the sidecar.
THEOREM ReportsAreTrue == Spec => []ReportsTellTheTruth
  <1>1. IInv => ReportsTellTheTruth
    BY DEF IInv, ReportsTellTheTruth, StagesAreTrue, Refused, At
  <1> QED
    BY <1>1, Inductive, PTL

\* The bytes that the last Save of a file displaced can be found.
THEOREM DisplacedIsKept == Spec => []PreviousIsKept
  <1>1. IInv => PreviousIsKept
    BY DEF IInv, PreviousIsKept, DisplacedIsFound
  <1> QED
    BY <1>1, Inductive, PTL
=============================================================================
