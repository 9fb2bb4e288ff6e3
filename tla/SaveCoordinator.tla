---------------------------- MODULE SaveCoordinator ----------------------------
(***************************************************************************)
(* Saving an edited PDF (save.rs with the ports the native session gives   *)
(* it): calls of save on a native session, the files they work on, the     *)
(* records in the sidecar, another program that writes the same file, and  *)
(* a stop of the process between any two steps.                            *)
(*                                                                         *)
(* Data abstraction: the bytes of a file are named by how they came about. *)
(* << >> is the document as it was; Append(c, r) is what a session opened  *)
(* on c materializes at revision r; Append(c, Broken) is an output the     *)
(* validator cannot read, Append(c, Foreign) what another program makes of *)
(* c.  Equal names are equal fingerprints.  The optional stage gate is     *)
(* left out: the native session installs none.                             *)
(***************************************************************************)
EXTENDS Integers, Sequences, FiniteSets, TLC

CONSTANTS
  Saver,        \* calls of save that may be in flight
  Path,         \* the files a session may be opened on or saved to
  Document,     \* the file the user opened
  MaxRevision,  \* bound on revisions
  MaxDepth,     \* bound on how often a file is rewritten
  Writers,      \* whether another program may write the files
  Faults        \* stages whose file or sidecar operations may fail

ASSUME SaveAssumption ==
  /\ Document \in Path
  /\ MaxRevision \in Nat /\ MaxDepth \in Nat
  /\ Writers \in BOOLEAN

Revisions == 0 .. MaxRevision
Broken == MaxRevision + 1
Foreign == MaxRevision + 2
Marks == 0 .. Foreign
Content == Seq(Marks)
Missing == <<Foreign + 1>>  \* no file at all

Deeper(c) == Len(c) < MaxDepth
Unbroken(c) == \A i \in DOMAIN c : c[i] # Broken

VARIABLES
  file,       \* what is at each path
  backup,     \* the rolling backup beside each path
  archive,    \* the backup moved to the recovery directory
  working,    \* the working file of each call, whose name is unique
  session,    \* the open session: path, source, revision, pages loaded
  project,    \* sidecars by the fingerprint they belong to: their revision
  records,    \* materializations recorded in the sidecars
  saving,     \* where each call is, and what it has captured
  displaced   \* history: what the last replacement of each path displaced

vars == <<file, backup, archive, working, session, project, records, saving, displaced>>

Stages == {"verify", "materialize", "validate", "flush", "replace", "install", "check", "record", "archive"}
Refused == {"source_changed", "materialize_failed", "validation_failed", "flush_failed", "replace_failed"}
Outcomes == Refused \cup {"partial", "saved"}

\* Stages in which a call has its working file on disk.
Holding == {"validate", "flush", "replace", "install"}

Idle == [stage |-> "idle", mode |-> "Save", follow |-> FALSE, path |-> Document,
         target |-> Document, source |-> << >>, revision |-> 0, whole |-> FALSE,
         output |-> << >>, installed |-> FALSE]

Calls ==
  [stage : {"idle", "stopped"} \cup Stages \cup Outcomes, mode : {"Save", "SaveAs"}, follow : BOOLEAN,
   path : Path, target : Path, source : Content, revision : Revisions, whole : BOOLEAN,
   output : Content, installed : BOOLEAN]

TypeOK ==
  /\ file \in [Path -> Content \cup {Missing}]
  /\ backup \in [Path -> Content \cup {Missing}]
  /\ archive \in [Path -> Content \cup {Missing}]
  /\ displaced \in [Path -> Content \cup {Missing}]
  /\ working \in [Saver -> Content \cup {Missing}]
  /\ session \in [path : Path, source : Content, revision : Revisions, whole : BOOLEAN]
  /\ project \in [DOMAIN project -> Revisions]
  /\ DOMAIN project \subseteq Content /\ session.source \in DOMAIN project
  /\ project[session.source] = session.revision
  /\ records \subseteq [project : Content, revision : Revisions, output : Content]
  /\ saving \in [Saver -> Calls]
--------------------------------------------------------------------------------
(* NativeEditorSession::open: the sidecar is found by the fingerprint of the file. *)
Opened(p) ==
  [path |-> p, source |-> file[p], whole |-> FALSE,
   revision |-> IF file[p] \in DOMAIN project THEN project[file[p]] ELSE 0]

Open(p) ==
  /\ session' = Opened(p)
  /\ project' = [c \in DOMAIN project \cup {file[p]} |->
                   IF c = file[p] THEN Opened(p).revision ELSE project[c]]

Init ==
  /\ file = [p \in Path |-> IF p = Document THEN << >> ELSE Missing]
  /\ backup = [p \in Path |-> Missing]
  /\ archive = [p \in Path |-> Missing]
  /\ displaced = [p \in Path |-> Missing]
  /\ working = [s \in Saver |-> Missing]
  /\ session = [path |-> Document, source |-> << >>, revision |-> 0, whole |-> FALSE]
  /\ project = [c \in {<< >>} |-> 0]
  /\ records = {}
  /\ saving = [s \in Saver |-> Idle]

At(s, stage) == saving[s].stage = stage
Goto(s, stage) == saving' = [saving EXCEPT ![s].stage = stage]
RemoveWorking(s) == working' = [working EXCEPT ![s] = Missing]
May(fail) == fail \in Faults

Files == <<file, backup, archive, displaced>>
Editor == <<session, project>>

\* A stage fails before the target is touched: the working file goes.
Refuse(s, outcome) ==
  /\ RemoveWorking(s)
  /\ Goto(s, outcome)
  /\ UNCHANGED <<Files, Editor, records>>

\* A stage fails after the target was replaced.
PartialFinalization(s) ==
  /\ Goto(s, "partial")
  /\ UNCHANGED <<Files, Editor, records, working>>
--------------------------------------------------------------------------------
(* save_with_materializer: the call takes a snapshot of the actor.  Save   *)
(* writes over the file of the session and always follows it.              *)
Request(s) ==
  /\ At(s, "idle") /\ Deeper(session.source)
  /\ \E mode \in {"Save", "SaveAs"}, follow \in BOOLEAN, target \in Path :
       /\ mode = "Save" => target = session.path /\ follow
       /\ saving' = [saving EXCEPT ![s] =
            [stage |-> "verify", mode |-> mode, follow |-> follow, path |-> session.path,
             target |-> target, source |-> session.source, revision |-> session.revision,
             whole |-> session.whole, output |-> << >>, installed |-> FALSE]]
  /\ UNCHANGED <<Files, Editor, records, working>>

VerifySource(s) ==
  /\ At(s, "verify")
  /\ \/ file[saving[s].path] = saving[s].source /\ Goto(s, "materialize")
     \/ file[saving[s].path] # saving[s].source /\ Goto(s, "source_changed")
     \/ May("verify") /\ Goto(s, "source_changed")
  /\ UNCHANGED <<Files, Editor, records, working>>

\* The materializer reads the source file again.
Materialize(s) ==
  /\ At(s, "materialize")
  /\ \/ \E mark \in {saving[s].revision, Broken} :
          LET output == Append(file[saving[s].path], mark) IN
          /\ mark = Broken => May("materialize")
          /\ working' = [working EXCEPT ![s] = output]
          /\ saving' = [saving EXCEPT ![s] = [@ EXCEPT !.stage = "validate", !.output = output]]
          /\ UNCHANGED <<Files, Editor, records>>
     \/ May("materialize") /\ Refuse(s, "materialize_failed")

\* Mutant of Valid.
ValidOnceRead(s) == saving[s].whole

\* The expected page count is the number of pages of the snapshot, which
\* holds the pages loaded so far.
Valid(s) == Unbroken(working[s]) /\ saving[s].whole

ValidateTemp(s) ==
  /\ At(s, "validate")
  /\ \/ Valid(s) /\ Goto(s, "flush") /\ UNCHANGED <<Files, Editor, records, working>>
     \/ ~Valid(s) /\ Refuse(s, "validation_failed")
     \/ May("validate") /\ Refuse(s, "validation_failed")

FlushTemp(s) ==
  /\ At(s, "flush")
  /\ \/ Goto(s, "replace") /\ UNCHANGED <<Files, Editor, records, working>>
     \/ May("flush") /\ Refuse(s, "flush_failed")

\* WindowsAtomicReplacer: a Save wants the target to be there, Save As wants it
\* not to be; the file operation follows the look at the target.
ReplaceOrMove(s) ==
  LET exists == file[saving[s].target] # Missing
      replaceable == (saving[s].mode = "Save") = exists
  IN
  /\ At(s, "replace")
  /\ \/ replaceable /\ Goto(s, "install") /\ UNCHANGED <<Files, Editor, records, working>>
     \/ ~replaceable /\ Refuse(s, "replace_failed")
     \/ May("replace") /\ Refuse(s, "replace_failed")

\* ReplaceFileW moves what it displaces to the backup, a rename drops it.
Install(s) ==
  LET target == saving[s].target IN
  /\ At(s, "install")
  /\ file' = [file EXCEPT ![target] = working[s]]
  /\ IF saving[s].mode = "Save"
       THEN /\ backup' = [backup EXCEPT ![target] = file[target]]
            /\ displaced' = [displaced EXCEPT ![target] = file[target]]
       ELSE UNCHANGED <<backup, displaced>>
  /\ RemoveWorking(s)
  /\ saving' = [saving EXCEPT ![s] = [@ EXCEPT !.stage = "check", !.installed = TRUE]]
  /\ UNCHANGED <<archive, Editor, records>>

\* Mutant of CheckInstalled.
CheckInstalledPlainly(s) ==
  /\ At(s, "check")
  /\ \/ /\ file[saving[s].target] = saving[s].output
        /\ Goto(s, "record")
     \/ /\ file[saving[s].target] # saving[s].output
        /\ Goto(s, "replace_failed")
  /\ UNCHANGED <<Files, Editor, records, working>>

\* The installed file is fingerprinted, and the association decided.
CheckInstalled(s) ==
  /\ At(s, "check")
  /\ \/ /\ file[saving[s].target] = saving[s].output
        /\ Goto(s, "record")
        /\ UNCHANGED <<Files, Editor, records, working>>
     \/ file[saving[s].target] # saving[s].output /\ PartialFinalization(s)
     \/ May("check") /\ PartialFinalization(s)

\* SqliteProjectRepository::record_materialization: one row for a revision.
Recorded(s) ==
  {r \in records : ~(r.project = saving[s].source /\ r.revision = saving[s].revision)}
    \cup {[project |-> saving[s].source, revision |-> saving[s].revision,
           output |-> saving[s].output]}

RecordMaterializedRevision(s) ==
  /\ At(s, "record")
  /\ \/ /\ records' = Recorded(s)
        /\ Goto(s, "archive")
        /\ UNCHANGED <<Files, Editor, working>>
     \/ May("record") /\ PartialFinalization(s)

\* Mutant of ArchiveBackup.
ArchiveBackupFirst(s) ==
  LET target == saving[s].target IN
  /\ At(s, "archive")
  /\ Goto(s, "saved")
  /\ backup' = [backup EXCEPT ![target] = Missing]
  /\ UNCHANGED <<file, archive, displaced, Editor, records, working>>

\* Without a recovery directory the backup stays beside the file.
ArchiveBackup(s) ==
  LET target == saving[s].target IN
  /\ At(s, "archive")
  /\ \/ /\ saving[s].mode = "Save" /\ backup[target] # Missing
        /\ archive' = [archive EXCEPT ![target] = backup[target]]
        /\ backup' = [backup EXCEPT ![target] = Missing]
        /\ Goto(s, "saved")
        /\ UNCHANGED <<file, displaced, Editor, records, working>>
     \/ Goto(s, "saved") /\ UNCHANGED <<Files, Editor, records, working>>
     \/ May("archive") /\ saving[s].mode = "Save" /\ backup[target] # Missing /\ PartialFinalization(s)

\* The caller reopens the session on a file it follows (workspace_notifier).
Reply(s) ==
  /\ saving[s].stage \in Outcomes
  /\ saving' = [saving EXCEPT ![s] = Idle]
  /\ IF At(s, "saved") /\ saving[s].follow
       THEN Open(saving[s].target)
       ELSE UNCHANGED Editor
  /\ UNCHANGED <<Files, records, working>>

SaverStep(s) ==
  \/ VerifySource(s) \/ Materialize(s) \/ ValidateTemp(s) \/ FlushTemp(s)
  \/ ReplaceOrMove(s) \/ Install(s) \/ CheckInstalled(s)
  \/ RecordMaterializedRevision(s) \/ ArchiveBackup(s) \/ Reply(s)
--------------------------------------------------------------------------------
\* A committed edit is in the sidecar before it is acknowledged.
Edit ==
  /\ session.revision < MaxRevision
  /\ session' = [session EXCEPT !.revision = @ + 1]
  /\ project' = [project EXCEPT ![session.source] = session.revision + 1]
  /\ UNCHANGED <<Files, records, working, saving>>

\* page_scene of the last page that was not loaded yet.
LoadPages ==
  /\ ~session.whole
  /\ session' = [session EXCEPT !.whole = TRUE]
  /\ UNCHANGED <<Files, project, records, working, saving>>

OtherProgramWrites(p) ==
  /\ Writers /\ file[p] # Missing /\ Deeper(file[p])
  /\ file' = [file EXCEPT ![p] = Append(@, Foreign)]
  /\ UNCHANGED <<backup, archive, displaced, Editor, records, working, saving>>

\* The process stops.  A working file on disk stays there, under a name of its
\* own that nothing reads or sweeps: that place in Saver is not used again.
Restart ==
  /\ \E s \in Saver : saving[s].stage \notin {"idle", "stopped"}
  /\ Open(session.path)
  /\ saving' = [s \in Saver |->
       [Idle EXCEPT !.stage = IF working[s] = Missing THEN "idle" ELSE "stopped"]]
  /\ UNCHANGED <<Files, records, working>>

Next ==
  \/ \E s \in Saver : Request(s) \/ SaverStep(s)
  \/ \E p \in Path : OtherProgramWrites(p)
  \/ Edit \/ LoadPages \/ Restart

\* Calls of save are interchangeable.
Symmetry == Permutations(Saver)

Spec == Init /\ [][Next]_vars
--------------------------------------------------------------------------------
(* Nothing the validator did not read back is ever at a path a user opens: *)
(* neither a stop nor a failure leaves a broken document (save.rs: the     *)
(* working file is validated and flushed before it is moved).              *)
OnlyValidatedIsInstalled ==
  \A p \in Path : file[p] # Missing => Unbroken(file[p])

(* A call that returns leaves no working file, whatever it reports: one is *)
(* on disk only for a call between materializing and installing it, or for *)
(* a call the process was stopped in there, which the code leaves behind.  *)
WorkingIsRemoved ==
  \A s \in Saver : working[s] # Missing => saving[s].stage \in Holding \cup {"stopped"}

(* What a save puts where the user looks is a document that was read back, *)
(* whichever stage failed and whenever the process stopped; and calls that *)
(* return leave nothing else.  A stop may leave a working file.            *)
FilesAreSound == TypeOK /\ OnlyValidatedIsInstalled /\ WorkingIsRemoved

(* What a call reports is what happened to the file: a refused save has    *)
(* not touched the target, a partial one has replaced it, and a save that  *)
(* reports success is also recorded in the sidecar of its source.          *)
ReportsTellTheTruth ==
  \A s \in Saver :
    /\ saving[s].stage \in Refused => ~saving[s].installed
    /\ saving[s].stage \in {"partial", "saved"} => saving[s].installed
    /\ At(s, "saved") =>
         \E r \in records : r.project = saving[s].source /\ r.revision = saving[s].revision

(* The bytes the last Save of a file displaced are in its rolling backup   *)
(* or in the recovery directory, whatever failed, stopped or was saved     *)
(* at the same time.                                                       *)
PreviousIsKept ==
  \A p \in Path : displaced[p] # Missing => displaced[p] \in {backup[p], archive[p]}
================================================================================
