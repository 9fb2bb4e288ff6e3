---------------------------- MODULE DurableSession ----------------------------
(***************************************************************************)
(* The editing session with its sidecar: the actor appends every command   *)
(* to the project database before it publishes it (actor.rs, tools.rs,     *)
(* persistence.rs), the process may stop between any two steps, and the    *)
(* next one recovers the session from the journal (repository.rs,          *)
(* EditorSessionState::from_recovered).  Damage to the stored models is    *)
(* found by their checksums; the journal itself is taken to be intact,     *)
(* a damaged entry makes recovery refuse the project.                      *)
(*                                                                         *)
(* Data abstraction: a SQLite transaction is one step, or none when it     *)
(* fails; materializations, checkpoint labels and warnings are left out.   *)
(* Previews are not taken here: their approval appends and publishes an    *)
(* ApplyTransaction as Submit does (commit_prepared of tools.rs).          *)
(***************************************************************************)
EXTENDS EditorSession

Seqs == INSTANCE SequencesExt

CONSTANT NoCommit  \* the actor is between two requests

VARIABLES
  sidecar,   \* the rows of the project database
  appended,  \* the prepared command whose append returned, not yet published
  acked      \* commands whose caller got Ok

durable == <<sidecar, appended, acked>>
allVars == <<vars, durable>>

ASSUME DurableAssumption == NoCommit \notin PreparedCommands

\* A project is created before any page is imported (the model that
\* open_with_background_indexing hands to spawn_durable holds none).
ASSUME ProjectAssumption == FirstPages = {}

\* DurableCommit, as the columns of table commands.
JournalEntries ==
  [id : CommandIds, op : ChangeCommands \cup {"Undo", "Redo"},
   previous : Revisions, committed : Revisions,
   before : Documents, after : Documents, typing : TypingGroups \cup {NoTyping}]

Snapshots ==
  [revision : Revisions, pages : SUBSET Pages, doc : Documents, intact : BOOLEAN]

Sidecars ==
  [revision : Revisions, pages : SUBSET Pages, doc : Documents, intact : BOOLEAN,
   cursor : Nat, journal : Seq(JournalEntries), snapshots : SUBSET Snapshots]

-----------------------------------------------------------------------------
(* Writing                                                                 *)

NewSidecar(s) ==
  [revision |-> s.revision, pages |-> s.pages, doc |-> s.doc, intact |-> TRUE,
   cursor |-> 0, journal |-> <<>>,
   snapshots |-> {[revision |-> s.revision, pages |-> s.pages, doc |-> s.doc, intact |-> TRUE]}]

JournalEntry(p) ==
  [id |-> p.command.id, op |-> p.command.op, previous |-> p.previous,
   committed |-> p.next.revision, before |-> p.before, after |-> p.after,
   typing |-> p.command.typing]

\* The transaction compares the revision; the command id is a primary key.
AcceptsAppend(sc, p) ==
  /\ sc.revision = p.previous
  /\ \A i \in DOMAIN sc.journal : sc.journal[i].id # p.command.id

\* A checkpoint command also stores the resulting model as a snapshot.
SnapshotsAfter(sc, p) ==
  IF p.command.op = "CreateCheckpoint"
  THEN {snap \in sc.snapshots : snap.revision # p.next.revision} \cup
         {[revision |-> p.next.revision, pages |-> p.next.pages,
           doc |-> p.next.doc, intact |-> TRUE]}
  ELSE sc.snapshots

\* Mutants: the transaction is dropped without a commit; a checkpoint makes
\* the journal before it superfluous.
AppendToUncommitted(sc, p) == sc

AppendToCompacted(sc, p) ==
  [revision |-> p.next.revision, pages |-> p.next.pages, doc |-> p.next.doc,
   intact |-> TRUE, cursor |-> Len(p.next.undo),
   journal |-> IF p.command.op = "CreateCheckpoint" THEN <<JournalEntry(p)>>
               ELSE Append(sc.journal, JournalEntry(p)),
   snapshots |-> SnapshotsAfter(sc, p)]

AppendTo(sc, p) ==
  [revision |-> p.next.revision, pages |-> p.next.pages, doc |-> p.next.doc,
   intact |-> TRUE, cursor |-> Len(p.next.undo),
   journal |-> Append(sc.journal, JournalEntry(p)), snapshots |-> SnapshotsAfter(sc, p)]

-----------------------------------------------------------------------------
(* Recovery                                                                *)

Changed(e) == {o \in Objects : e.before[o] # NoObject \/ e.after[o] # NoObject}

Recorded(e) ==
  [ids |-> Changed(e), before |-> e.before, after |-> e.after, typing |-> e.typing]

\* A recovered keystroke joins the newest entry when the live one did.
RecoveredUndo(undo, e) ==
  IF e.op = "ReplaceTextRange" /\ CanCoalesce(undo, Recorded(e))
  THEN [undo EXCEPT ![Len(undo)] =
          [LastOf(undo) EXCEPT !.after = e.after, !.typing = e.typing]]
  ELSE Append(undo, Recorded(e))

\* The states each payload must have recorded.
RecordedStates(e) ==
  LET befores == {o \in Objects : e.before[o] # NoObject}
      afters  == {o \in Objects : e.after[o] # NoObject}
  IN CASE e.op \in {"CreateCheckpoint", "Undo", "Redo"} -> TRUE
       [] e.op = "ApplyTransaction" ->
            befores # {} /\ Cardinality(befores) = Cardinality(afters)
       [] e.op = "CreateAnnotation" -> befores = {} /\ Cardinality(afters) = 1
       [] e.op = "DeleteAnnotation" -> Cardinality(befores) = 1 /\ afters = {}
       [] OTHER -> Cardinality(befores) = 1 /\ Cardinality(afters) = 1

\* from_recovered takes one journal entry; ok is FALSE once it has refused.
RecoverEntry(h, e) ==
  IF \/ ~h.ok
     \/ e.previous # h.revision
     \/ e.committed # h.revision + 1
     \/ e.id \in h.committed
     \/ e.op = "Undo" /\ h.undo = <<>>
     \/ e.op = "Redo" /\ h.redo = <<>>
     \/ ~RecordedStates(e)
  THEN [h EXCEPT !.ok = FALSE]
  ELSE [ok |-> TRUE, revision |-> e.committed, committed |-> h.committed \cup {e.id},
        undo |-> CASE e.op = "Undo" -> FrontOf(h.undo)
                   [] e.op = "Redo" -> Append(h.undo, LastOf(h.redo))
                   [] OTHER         -> RecoveredUndo(h.undo, e),
        redo |-> CASE e.op = "Undo" -> Append(h.redo, LastOf(h.undo))
                   [] e.op = "Redo" -> FrontOf(h.redo)
                   [] OTHER         -> <<>>]

NothingRecovered ==
  [ok |-> TRUE, revision |-> 0, committed |-> {}, undo |-> <<>>, redo |-> <<>>]

\* The entries are recovered one after the other, in the order of the journal.
RecoveredHistory(journal) ==
  LET after[n \in 0 .. Len(journal)] ==
        IF n = 0 THEN NothingRecovered ELSE RecoverEntry(after[n - 1], journal[n])
  IN after[Len(journal)]

\* Mutant: an entry is replayed by inserting and replacing only.
ReplayWithoutRemoval(m, e) ==
  LET ids == {o \in Objects : e.after[o] # NoObject}
      doc == Overlay(m.doc, ids, e.after)
  IN [m EXCEPT !.ok = m.ok /\ (\A o \in ids : PageOf[o] \in m.pages) /\ Valid(Version(doc)),
               !.doc = doc]

\* replay_delta: an entry with before states only removes them; any other one
\* replaces or inserts its after states, whose page must be in the model.
Replay(m, e) ==
  LET afters  == {o \in Objects : e.after[o] # NoObject}
      ids     == IF afters = {} THEN Changed(e) ELSE afters
      doc     == Overlay(m.doc, ids, e.after)
      applies == IF afters = {} THEN \A o \in ids : m.doc[o] # NoObject
                                ELSE \A o \in ids : PageOf[o] \in m.pages
  IN [m EXCEPT !.ok = m.ok /\ applies /\ Valid(Version(doc)), !.doc = doc]

\* The model that a row holds.
StoredModel(row) == [ok |-> TRUE, pages |-> row.pages, doc |-> row.doc]

\* The model of a snapshot and the journal entries between two revisions.
ReplayedFrom(snap, journal, revision) ==
  LET after[n \in 0 .. Len(journal)] ==
        IF n = 0 THEN StoredModel(snap)
        ELSE IF snap.revision < journal[n].committed /\ journal[n].committed <= revision
             THEN Replay(after[n - 1], journal[n])
             ELSE after[n - 1]
  IN after[Len(journal)]

\* recover_snapshot_and_journal: the newest intact snapshot and what follows.
FallbackModel(sc) ==
  LET usable == {snap \in sc.snapshots : snap.intact /\ snap.revision <= sc.revision}
      newest == CHOOSE snap \in usable : \A candidate \in usable : candidate.revision <= snap.revision
  IN IF usable = {}
     THEN [ok |-> FALSE, pages |-> {}, doc |-> EmptyDocument]
     ELSE ReplayedFrom(newest, sc.journal, sc.revision)

RecoveredModel(sc) ==
  IF sc.intact THEN StoredModel(sc) ELSE FallbackModel(sc)

\* spawn_recovered also compares the undo cursor with the recovered stack.
CanRecover(sc) ==
  LET history == RecoveredHistory(sc.journal)
  IN /\ RecoveredModel(sc).ok
     /\ history.ok
     /\ history.revision = sc.revision
     /\ Len(history.undo) = sc.cursor

Recovered(sc) ==
  LET model   == RecoveredModel(sc)
      history == RecoveredHistory(sc.journal)
  IN [NewSession(model.pages, model.doc) EXCEPT
        !.revision = sc.revision, !.committed = history.committed,
        !.undo = history.undo, !.redo = history.redo]

-----------------------------------------------------------------------------
(* Actions                                                                 *)

DurableInit ==
  /\ Init
  /\ sidecar = NewSidecar(session)
  /\ appended = NoCommit
  /\ acked = {}

Idle == appended = NoCommit

\* The append of a submitted command; when it fails nothing has happened.
AppendSubmitted ==
  /\ Idle
  /\ ~closed
  /\ \E c \in Requests :
       /\ AcceptsAppend(sidecar, PreparedFor(c))
       /\ sidecar' = AppendTo(sidecar, PreparedFor(c))
       /\ appended' = PreparedFor(c)
  /\ UNCHANGED <<vars, acked>>

\* The Publish request compares the revision before it appends; whether the
\* id is new is found by the journal, and again by publish.
AppendPrepared(p) ==
  /\ Idle
  /\ ~closed
  /\ p.previous = session.revision
  /\ AcceptsAppend(sidecar, p)
  /\ sidecar' = AppendTo(sidecar, p)
  /\ appended' = p
  /\ prepared' = prepared \ {p}
  /\ UNCHANGED <<session, closed, timeline, acked>>

\* The revision, the journal or the database refuses: the token is spent.
RefusePrepared(p) ==
  /\ Idle
  /\ prepared' = prepared \ {p}
  /\ UNCHANGED <<session, closed, timeline, durable>>

\* publish, the event and the reply follow the append at once.
PublishAppended ==
  /\ ~Idle
  /\ CanPublish(appended)
  /\ session' = appended.next
  /\ timeline' = appended.timeline
  /\ acked' = acked \cup {appended.command.id}
  /\ appended' = NoCommit
  /\ UNCHANGED <<prepared, closed, sidecar>>

\* Mutant: the actor goes on with other requests during an append.
SessionRequestAnytime ==
  /\ \/ Prepare
     \/ \E page \in Pages : \E content \in Imports[page] :
          HydratePage(page, content) \/ HydrateLivePage(page, content)
     \/ Close
  /\ UNCHANGED durable

\* The session's own requests are served between two commits.
SessionRequest ==
  /\ Idle
  /\ \/ Prepare
     \/ \E page \in Pages : \E content \in Imports[page] :
          HydratePage(page, content) \/ HydrateLivePage(page, content)
     \/ Close
  /\ UNCHANGED durable

OnPagesOf(tl, ps) ==
  LET Rest(versions) == [i \in DOMAIN versions |-> Part(versions[i], OnPages(ps))]
  IN [past |-> Rest(tl.past), future |-> Rest(tl.future)]

\* The process stops, in the middle of a command or after a close, and the
\* document is opened again: all that was in memory is gone.
Restart ==
  /\ CanRecover(sidecar)
  /\ session' = Recovered(sidecar)
  /\ timeline' = OnPagesOf(IF Idle THEN timeline ELSE appended.timeline, session'.pages)
  /\ prepared' = {}
  /\ closed' = FALSE
  /\ appended' = NoCommit
  /\ UNCHANGED <<sidecar, acked>>

\* The stored model, or a snapshot, no longer has the checksum stored with it.
DamageModel ==
  /\ sidecar.intact
  /\ sidecar' = [sidecar EXCEPT !.intact = FALSE]
  /\ UNCHANGED <<vars, appended, acked>>

DamageSnapshot ==
  /\ \E snap \in sidecar.snapshots :
       /\ snap.intact
       /\ sidecar' = [sidecar EXCEPT !.snapshots =
                        (@ \ {snap}) \cup {[snap EXCEPT !.intact = FALSE]}]
  /\ UNCHANGED <<vars, appended, acked>>

DurableNext ==
  \/ AppendSubmitted
  \/ \E p \in prepared : AppendPrepared(p) \/ RefusePrepared(p)
  \/ PublishAppended
  \/ SessionRequest
  \/ Restart
  \/ DamageModel
  \/ DamageSnapshot

DurableSpec == DurableInit /\ [][DurableNext]_allVars

-----------------------------------------------------------------------------
(* Properties                                                              *)

\* Every variable has its type.
DurableTypeOK ==
  /\ TypeOK
  /\ sidecar \in Sidecars
  /\ appended \in PreparedCommands \cup {NoCommit}
  /\ acked \subseteq CommandIds

\* What the journal promises: the session once the append is published.
Promised == IF Idle THEN session ELSE appended.next

\* Whenever the process stops, what recovery builds is the session that
\* was promised: its revision, idempotency set, undo and redo stacks
\* (coalesced typing included) and, on the pages recovered, its document,
\* whether the model is read or rebuilt from a snapshot and the journal.
RecoveryIsExact ==
  CanRecover(sidecar) =>
    LET recovered == Recovered(sidecar) IN
    /\ recovered.revision = Promised.revision
    /\ recovered.committed = Promised.committed
    /\ recovered.undo = Promised.undo
    /\ recovered.redo = Promised.redo
    /\ recovered.pages \subseteq Promised.pages
    /\ recovered.doc = Part(Promised.doc, OnPages(recovered.pages))

\* A project whose stored model is intact always opens: the journal is
\* contiguous, its ids distinct and the undo cursor agrees with it.
IntactAlwaysRecovers == sidecar.intact => CanRecover(sidecar)

\* Recovery is possible and exact: a stop at any point costs the caller
\* nothing that the journal promises.
RecoveryIsFaithful == DurableTypeOK /\ RecoveryIsExact /\ IntactAlwaysRecovers

\* A command its caller knows to be committed is in the journal (the result
\* says durable = true), through any number of restarts.
AcknowledgedIsDurable ==
  acked \subseteq {sidecar.journal[i].id : i \in DOMAIN sidecar.journal}

\* publish cannot refuse what was appended: otherwise the session would stay
\* behind its journal, and every later append would be a revision conflict.
AppendedCanPublish == ~Idle => CanPublish(appended)

\* The journal is only ever extended; restarting never takes back a revision.
JournalOnlyGrows ==
  [][/\ Seqs!IsPrefix(sidecar.journal, sidecar'.journal)
     /\ sidecar.revision <= sidecar'.revision]_allVars
=============================================================================
