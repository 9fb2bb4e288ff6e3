# Verification of the Clarix editing core

Clarix is a Windows-first Flutter workspace for PDF documents with a Rust
editing core. This directory holds TLA+ models of the core, TLC
configurations that check them on small instances, and theorems that the TLA+
proof system checks for every value of the constants. `PROJECT.json` lists the
runs, the source lines every definition stands for, the hazards of the code,
the disagreements found, and the theorems.

## 1. The system

| Part | Source | State | Operations | Talks to |
|---|---|---|---|---|
| Editing session | `clarix_editing_core/src/session.rs`, `history.rs`, `model.rs`, `command.rs` | document model, revision, ids of committed commands, undo and redo stacks, previews, closed flag | submit, prepare, publish, previews and their approval, page hydration, close, recovery of its history | called by the actor only |
| Session actor | `actor.rs` | request queue (64), event channel per subscriber (32), closed flag, worker thread | one arm per request, broadcast, subscribe, close | session, sidecar, all callers |
| Agent tools | `tools.rs`, `selection_context.rs` | none of their own | read tools, previews, commits | session, sidecar |
| Project sidecar | `persistence.rs`, `clarix_editing_store` | SQLite rows: project (model, revision, undo cursor), commands, snapshots, checkpoints, materializations | open, append, recover, checkpoint, record materialization | actor, save |
| Native editor API | `clarix_pdf_oxide/src/editing_api.rs` | handles of the parts above, prepared commands by token, font fallback proposals | open, submit, prepare and publish live commands, page scenes, imports, save, close | actor, page service, Dart |
| Page scene service | `page_service.rs` | page states, waiters by priority, imports in flight, resident scenes, revision | request, set revision, mark cold, background indexing | importer, sidecar index |
| Save coordinator | `save.rs`, `clarix_pdf_adapter` | files: target, working copy, backup | eleven stages from flush to record | materializer, validator, replacer, sidecar |
| Agent run engine | `clarix_agent_core` | status, messages, pending approval, budgets, events; proposals | start, drive, approve, reject, rebase, cancel | provider, tool gateway, run repository |
| Agent run repository | `agent_repository.rs`, `schema.rs` | runs, events, audit links, conversations and their messages | create, append, import, recover interrupted runs | run engine |
| Agent provider | `openai_stream.rs`, `agent_provider.rs` | pieces of the answer so far | decode a frame, finish | run engine, network |
| Text algorithms | `text.rs`, `search.rs`, `selection.rs` | none | ranges, matching, pages of results, normalization of selections | session, tools |
| PDF files | `pdf_annotations.rs`, `pdf_compose.rs`, `materializer.rs` | the objects of a file | read, merge, compose, edit content streams | Dart, save |
| Clean patches | `clean_patch.rs` | rendered patches under a budget | render, set visible, clear, cancel | native API |
| Retrieval | `rag.rs`, `lib.rs` | index file and manifest | chunk, build, search | native API |
| Live PDFium port, gateway, controller, chat (Dart) | `lib/src` | what the UI shows, the live PDFium document | | native API, PDFium |

What is hard in it, and what correctness means:

* **Session.** Commands are optimistic (base revision, idempotency key) and may
  be prepared long before they are published, while the document changes
  underneath. Undo restores whole object states and must never fail; typing
  coalesces into the newest history entry in place. Correct: the history
  describes the document, no revision is made twice, nothing is lost when a
  prepared command is published.
* **Actor.** Callers block on a bounded queue, subscribers may be slow, close
  races with requests. Correct: every call returns, events come in order and
  no gap is silent.
* **Sidecar.** A crash may fall between append and publication. Correct:
  recovery builds exactly the session that was promised, redo stack and
  coalesced typing included.
* **Page service.** Requests sleep on one condition variable, hold each other
  back by priority and share imports that run without the lock, while the
  revision changes. Correct: one import per page, no wakeup lost, no scene of
  another revision, every request returns.
* **Native API.** It joins the parts without a lock over its calls. Correct:
  no part is told of what has not happened, a font proposal is written into the
  text it was made for, close waits for the index threads and for every run that
  was answered before it.
* **Save.** Faults and stops between any two stages, another program, two saves
  at once. Correct: what is installed was validated, what it displaced is kept,
  reports tell the truth.
* **Agent runs.** Approval, rejection, rebase, cancellation, close and failures
  of the repository race. Correct: one thread drives a run, what is committed
  is what was shown and is linked in the audit.
* **Data.** UTF-16 units, graphemes and bytes; boxes, runs and fonts of an
  edited block; object ids of several files in one. Correct: each algorithm
  against what it promises.

## 2. Modules

    SessionState              pure functions on sessions
      EditorSession           the session and its callers    --implements--> DocumentTimeline
        EditorSessionProofs     types, history, undo and redo, revisions,
                                prepared commands, previews, the refinement
        DurableSession        the session, its sidecar and restarts
          DurableProofs
    SessionActor              the thread, its queues and its callers
      SessionActorProofs
    Recency                   what a cache keeps by last use
      PageService             the page service, its callers and index workers
        NativeSession         the native API: page service, actor, agent, proposals
          NativeProofs          of the page service alone, then of both
      PatchCache              rendered patches under a budget
    SaveCoordinator           saves, files, sidecar, other programs
      SaveCoordinatorProofs
    AgentRun                  a run, its approvals, its audit
      AgentRunProofs
    TextSearch                texts, ranges, matching, replace-all
      TextSelection           selections and their context
        ToolPolicy            tool calls and who is asked
      TextObject              a block of text under commands
    PdfAnnotations  PdfCompose
    Conversations  Proposals  ProviderStream  ContentEdit  Retrieval
                            small parts with steps, as PatchCache
      PartProofs              of these six and of TextObject
    Induction                 induction over numbers, sequences kept by last use
    MCAlgorithms, MCDocuments   inputs and properties of the smaller parts

`MCEditorSession`, `MCDurableSession` and `MCNativeSession` hold the definitions
that the configurations need beside model values, and bounds on what is combined. A definition whose comment says
"Mutant" is a plausible bug in the code: each property is known to fail when
one of them replaces what it mutates.

**SessionState** translates `EditorSessionState` operations as functions from
a session to the session that replaces it (`prepare` runs `apply_envelope` on a
clone, so this is what the code does). `CanChange`, `CanUndo` and `CanRedo` are
the conditions under which `apply_envelope` returns `Ok`; `ApplyEnvelope` is
its effect. An object is a value and its modification revision; a text value
stands for text, runs, geometry and style. The five kinds of `HistoryEntry`
are one record with states before and after. `Valid` is the model-wide
validation of annotations (`validate_annotations`), which every replacement of
an object repeats and which makes undo able to fail in principle.

**EditorSession** has the session, the `PreparedCommand`s that callers keep
(the token table of `editing_api.rs`), the closed flag, and a history variable
`timeline`: the versions of the document behind each entry of the two stacks.
The actor serves one request at a time, so an action is a request; what
interleaves are the pairs prepare/publish and preview/approve of several
callers. Requests that are refused change nothing and are left out, except the
refusal of a prepared command, whose token is consumed.

**DocumentTimeline** is what the session promises, without its means: a
sequence of versions, with undo and redo walking it. `EditorSession` implements
it (`KeepsTimeline`). Its comments say where the promise is weaker than one
would expect: a published command may drop pages hydrated since it was
prepared.

**DurableSession** adds the sidecar. A command is appended (`AppendSubmitted`,
`AppendPrepared`), then published (`PublishAppended`), and the process may
restart between the two; `Restart` rebuilds the session with `Recovered`, a
translation of `recover` and `from_recovered` that folds over the journal.
`DamageModel` and `DamageSnapshot` make a stored model fail its checksum, so
that recovery takes the path through a snapshot and the journal. A SQLite
transaction is atomic: it is one step, or none when it fails.

**SessionActor** abstracts the session to its revision and keeps everything
around it: the closed flag read before the send, the blocking bounded queue,
replies, the join of the worker, and `broadcast` with its `lagged` flags.
`sent` and `taken` of a stream are the two ends of a channel; the channel holds
the difference. A subscriber may read between the two `try_send`s of a
broadcast; that is the same as reading before it.

**PageService** has the state behind the mutex (`service`) and the request each
thread is in (`thread`). A request is a loop: `Check` is one turn of it, under
the lock, and ends it (`RefuseStale`, `AnswerResident`, `AnswerIndexed`), puts
the thread to sleep (`Wait`) or starts an import; `FinishImport` takes the lock
again after the import. Notifications turn sleepers into threads that check, and
a sleeper may wake for no reason, as condition variables allow. Callers and
`SetRevision` may use any revision, because the API calls `set_revision` after
the commit and without a lock around both. The order of `recency` stands for
the access counters. `stored` is the page index of the sidecar: a page in it is
loaded and not imported again, which makes no difference to the service.

**NativeSession** extends `PageService`: its callers are `page_scene` calls and
its revisions are those that commands report after they are committed. A native
call is a program of steps (`call[c].op`), and other calls come in between any
two. The actor is reduced to its revision, the pages of its model and whether it
is open; commits by checkpoints and by the agent are those the page service is
not told of. A run of the agent is begun in three steps, as in the code: the call
looks at the closed flag, spawns the worker, and only then puts it into the map
of runs. `close` is the chain of the code: agent runtime, tokens, index worker,
actor, and it ends at the first error. In the runtime the first caller raises the
flag, reads the map once (`agent.found`) and joins the workers of what it found;
a later caller waits for no run. `agent.owed` is history: what the map held when
the flag was raised. A worker that is not in the map is not cancelled and ends by
itself, within its budgets. Commits of an approved call, which run in the thread
of the caller, are commits of the agent here, at any time after a worker was
spawned. Panics of a worker are left out.

**SaveCoordinator** has one action per stage of a save, with the outcomes the
stage can have. The bytes of a file are named by how they came about: a
sequence of the revisions that were materialized on the file, with marks for an
output nobody can read and for the work of another program. Sidecars are found
by those names, as the code finds them by fingerprint. `displaced` is history:
what the last replacement of a path displaced. `Restart` stops the process
between any two steps. The working file of a save that was stopped stays on the
disk: it has a name of its own and nothing sweeps it, so the slot of the save is
`stopped` and keeps it. A removal inside the process is assumed to succeed; the
code ignores its error.

**AgentRun** has the worker thread and two callers. A thread in `Driving`
states owns the run; `pending` is the map entry that `approve`, `reject` and
`cancel` take out and `rebase` changes in place. A tool call is one of five
kinds, which validation and policy tell apart. Rows are written by the owner of
the run only, so the writes between two looks at shared state are one step that
a repository failure or a crash may cut after any of them. `commits` is history.

**TextSearch, TextSelection, ToolPolicy, PdfAnnotations, PdfCompose** are pure:
operators that translate the functions of the code, over characters with a
UTF-16 width, a class and a case folding, objects of a file by id. **TextObject**
is such operators for the object commands, and a block that takes one after the
other (`EditObject`), beside the block as it came in (`imported`), against which
the patch and the physical plan are compared. **Conversations, PatchCache** and **Proposals** have variables and actions,
and so have the next three. In **ProviderStream** the decoder takes a stream
frame by frame (`PushData`), and the provider may end it anywhere
(`FinishStream` is what the run would get). **ContentEdit** is one page that is
written: its edited texts are replaced one after the other in any order, each in
the stream that the last one left, and one refusal ends the save. **Retrieval**
has a page that is cut into chunks word by word, and the two files of a vector
index, which a build replaces one after the other: builds stop in between, files
are lost, documents that share the file names are built at once. Builds of one
document do not overlap, because the retriever of the app keeps one future per
document (`local_rag_native_retriever.dart:140`); a query reads both files in one
step. `MCAlgorithms` and `MCDocuments` choose one input of an algorithm in a
first step, or one of the parts whose steps follow, and state the properties of
the algorithms, which compare each with a definition that is written
differently: matches with all substrings, a call with what people were asked, a
composed page with what the source page shows, a saved and read list with
the list.

## 3. Runs

| Run | Module | What it shows |
|---|---|---|
| `history` | MCEditorSession | one page, a text block and an annotation that quotes it, typing runs, four revisions: `HistoryAgreesWithDocument`, `UndoRedoAlwaysApply`, `OneCommandPerRevision`, the refinement `KeepsTimeline` |
| `twophase` | MCEditorSession | two pages, a prepared command, a replace-all and an agent preview, live imports that replace a page: `TypeOK`, `PreparedLosesOnlyHydration`, `PreviewMatchesDocument` |
| `recovery` | MCDurableSession | three revisions, every command, prepared commands beside submissions, restarts and damage at any point: `RecoveryIsFaithful`, `AcknowledgedIsDurable`, `AppendedCanPublish`, `JournalOnlyGrows` |
| `actor` | SessionActor | two callers, a queue of one place, a subscriber with a channel of two: `NoGapIsForgotten`, `EveryCallReturns`, `EveryCommitIsTold` |
| `page_requests` | PageService | two callers and a worker, two pages, two imports at a time, one resident place, two revisions, an import that fails: `WaitersWillBeServed`, `KeptScenesAreCurrent`, `EveryRequestReturns` |
| `native` | MCNativeSession | two callers, the index worker, font proposals or a run of the agent, a commit nobody reports: `PartsAgree`, `ProposalsFitTheirText`, `ClosedMeansJoined`, `EveryNativeCallReturns` |
| `save` | SaveCoordinator | two saves, two paths, every fault, another program, stops: `FilesAreSound`, `ReportsTellTheTruth`, `PreviousIsKept` |
| `agent` | AgentRun | two rounds, two tool calls, two approvals, two callers, one repository failure: `RunsHaveOneOwner`, `CommitsAreShown`, `CommitsAreLinked`, `RunsEndForGood`, `EveryCallReturns` |
| `algorithms` | MCAlgorithms | every input of the bounds for each pure algorithm, and every run of the parts with steps: `SearchIsExact`, `SelectionsKeepTheirText`, `CallsAreWrittenAsShown`, `StreamedCallsKeepTheirPieces`, `OnlyEditedTextChanges`, `RetrievalKeepsTheText`, `EditsAreWhole`, `WrittenFilesReadBack`, `ConversationsAreKept`, `PatchMemoryIsBounded`, `ApprovedChangesAreMade` |
| `native_late` | NativeSession | violation of `CloseJoinsWorkers` |
| `agent_cancel` | AgentRun | violation of `CancelStopsTools` |
| `annotations` | MCAlgorithms | violation of `UnrelatedAnnotationsSurvive` |

Several of these are conjunctions of parts with names of their own, because
the parts are about one hazard and hold together: `WaitersWillBeServed` is
`ImportsAreShared`, `WaitersAreCounted` and `SleepersWillBeWoken`;
`KeptScenesAreCurrent` is the types, `ScenesAreCurrent` and
`ResidencyIsBounded`. The definitions say what their parts are.

**Bounds.** `MaxRevision` is the width of the revision: the code refuses a
command after `u64::MAX`, the model after `MaxRevision`, so the bound is also a
case of the code. Four revisions allow a command, a coalesced keystroke, undo
and redo in every order; three suffice for a journal with an undo and a redo;
two for a prepared command that becomes stale and one that does not
(`LastPrepared` keeps prepared commands to those in `recovery`, whose journal goes
on without them). There is
one more command id than there are revisions, so that a repeated id can be
sent. Two text values and one annotation value tell apart "quotes the text" and
"does not". `MaxPrepared` and `MaxPreviews` bound what callers keep, of each
kind; one prepared command is enough because a command that is submitted, or a
preview that is approved, overtakes it exactly as another prepared one would.
In the actor a queue of one place makes callers wait, and a channel of two
makes a subscriber lag after two commits; broadcast treats subscribers one by
one, so one of them shows what happens to each. `MaxCalls` bounds the calls of
a client, and a subscription is begun only while an unused stream is left. In
the page service two callers and a worker are one thread that imports, one that
waits and one that waits behind it; two pages tell "the page is being imported"
from "all places are taken", and with one resident place every second scene
evicts the first or exceeds the limit. In `native` the pages are one, because
what is new there are the calls around the service: two revisions give two
commits that report in the wrong order, one token a proposal that outlives its
text, and one run one that was answered before `close` or is being begun beside
it. `OneCommitBesideRuns` keeps runs and proposals apart, because a commit
of an agent is to a proposal what a checkpoint is, and allows one commit beside a
run, enough for the actor to leave behind the request that `close` waits for;
`OneRequestBesideProposals` lets one caller ask for pages while the other has
proposals. Both restrain what starts a call and never how a call goes on, so that
fair steps stay possible. In `save` the slot of a stopped save is not used again,
so two saves may be stopped; a file may be rewritten once, twice with the last
save in flight, which is a save whose source is the output of another; `MaxDepth`
bounds it. In `agent` two rounds and two calls allow a message with an
automatic and an asking call, a second round after an approval, and both
budgets to run out; one repository failure may fall on any write but those of a
`rebase`, left out of `FaultyIn` because of what section 4 says of it. In
`algorithms` texts of four characters over an alphabet of nine hold a
ligature, a combining accent, its composed form and a character of two code
units, in every neighbourhood a query of two can meet; three ranges per
selection are two that touch and one apart; four frames carry two mixed
tool calls; two commands on a block are an edit of an edited block. A content
of five operators has two texts, a selection and a `q`/`Q` pair in every order,
and two edits give two fallback fonts on one page. Four words of
up to four letters and chunks of one to four are words that fit, that do not, and
that are longer than a chunk, with and without a rest. The documents of the index
have two fingerprints that share the file names and lists that differ in an id,
in a text, in both, or in length. Only the run of the chunks varies their size, and
only the run of the content its page. The stores have two runs and two imports,
two callers and two patches beside a budget of four, which any two of them
exceed at the larger size, three proposals. Command ids, callers of `save`, and the like are
interchangeable in the safety runs that use symmetry; the runs with liveness
do not.

**Fairness** is assumed in `SessionActor`, `PageService`, `NativeSession` and
`AgentRun`. In the first, the actor's thread serves a
request that waits and ends after Close; a caller inside a call proceeds (a
blocked send proceeds when there is room); a reader of a stream reads. Nobody
has to start a call, close, or drop a stream. Weak fairness of `Send` is enough
because the number of calls is bounded; with unbounded calls the channel's own
fairness between blocked senders would be needed. In `PageService` every
thread that is not asleep proceeds and an import ends, well or not; nobody has
to call, cancel or set a revision, and a sleeper is never assumed to wake by
itself. `NativeSession` adds that a thread inside a native call proceeds and that
a worker of the agent ends, by its budgets (`run.rs:107`, elapsed time and
rounds) or because it was cancelled. In
`AgentRun` the worker and a caller inside a call proceed, which includes that
the provider and the tool gateway answer; nobody has to approve. The session,
the save and the small parts have safety properties only.
`CHECK_DEADLOCK` is off everywhere because every instance stops when its bounds
are reached.

## 4. Disagreements with the documents

Checked by a run that finds the violation:

* **A cancelled run goes on with its tool calls** (`CancelStopsTools`).
  `run.rs:170` looks at the cancellation before a round of the provider, not
  between the calls of one message; the plan of phase 3 says that cancellation
  stops future tool work.
* **Annotations behind a reference are lost** (`UnrelatedAnnotationsSurvive`).
  `pdf_annotations.rs:424` keeps the annotations of a page only where `/Annots`
  is an array in the page; where it refers to one, a save that adds a highlight
  replaces it.

* **A run that is begun beside `close` outlives it** (`CloseJoinsWorkers`).
  `start_agent_run` looks at the closed flag (`agent_api.rs:343`) long before it
  spawns the worker (427) and puts it into the map (433); `close` reads the map
  once (237). The plan of phase 3 (line 743) says that closing joins the workers.
  `ClosedMeansJoined` says what does hold: every run that had been answered
  when `close` was called is joined.

Seen while the models were written, and part of them:

* **A rebase can fail half way.** `rebase` gives the held call the new revision
  (`run.rs:415`) before the repository has taken the events. When the first is
  refused, the approval keeps its identity and the diff people saw, and an
  `approve` of it commits the call at the other revision; the plan of phase 3
  (line 39) says that a rebase means another preview and another approval. With
  `"rebase"` in `FaultyIn` TLC finds the 15 steps that break `CommitsAreShown`;
  without a failure in a rebase the property holds.
* **Hydration is lost.** `publish` (`session.rs:260`) puts the clone made by
  `prepare` in place of the session and compares revisions only; hydration does
  not make one. A page imported between the two disappears from the canonical
  document, and the gateway believes it is still there.
  `PreparedLosesOnlyHydration` says that nothing else is lost.
* **The seed snapshot cannot be used.** Projects are created without pages
  (`editing_api.rs:643`), and hydration is not journalled, so the fallback of the
  architecture document fails for every project without a checkpoint.
* **Close returns early.** Only the first caller of `close` waits for the
  worker (`actor.rs:356`).
* **Lagged is announced late** (`actor.rs:550`): with the next event, although
  capacity has returned before.
* **Pages are skipped.** A commit during background indexing makes the worker's
  request stale (`page_service.rs:445`); the page is not taken again and
  indexing is started only when the session is opened.
* **The source is looked at once.** Between `VerifySource` (`save.rs:114`) and
  the replacement (`save.rs:161`) another program may write the file. Its work
  is in the backup (`PreviousIsKept`), but the saved file does not contain it;
  the design of 2026-08-13 (line 204) speaks of an external change that stops the save.
* **Save As may replace a file.** `windows_replace.rs:22` looks whether the target
  exists and then renames the working file to it, which replaces a file that is
  there by then (another Save As that looked before this one renamed): it is gone
  without a backup, and both report success. The message in line 26 says that Save
  As refuses to overwrite.
* **Working files stay.** A process that stops in a save leaves
  `.name.<uuid>.clarix-working.pdf` beside the target (`save.rs:249`); no open or
  save removes it.
* **Partly loaded documents cannot be saved.** The expected page count is the
  number of pages loaded (`save.rs:136`), and the validator wants exactly it.
* **A widened replace-all loses text.** In the folding modes a match inside a
  grapheme is widened to whole graphemes (`search.rs:213`), so two neighbouring
  matches may name the same one; `session.rs:331` replaces them from the back.
  The architecture document (lines 641-644) promises one deterministic
  transaction over what was previewed. `ReplaceAllIsSimultaneous` holds for
  matches that do not overlap.
* **The restored font is the last in the stream.** After a text in a fallback
  font the `Tf` that comes last before it is repeated (`materializer.rs:263`), also
  when that one stands in a `q`/`Q` pair that is closed by then; the texts that
  follow then change their font. `OnlyEditedTextChanges` says so: it speaks of
  pages where the two are the same (`RestoresItsFont`).
* **Names of fallback fonts are counted anew.** `ClarixFallback1` is the first in
  every save (`materializer.rs:381`), so a second save of a saved file gives the
  name to another font, for the texts of the first save too. The property asks
  that the source has no such name (`OwnNames`).
* **An index is known by its ids.** Chunks with the same ids and other texts are
  answered from the vectors of the old ones (`api.rs:126`, `rag.rs:306` compare
  ids), and after a build that stopped between its two files a document
  whose ids stand in the manifest finds vectors of another one valid where their
  number is the same. `AnswersAreTheirChunks` claims the texts where the vectors
  are of the document.

## 5. Proofs

Every theorem holds for every value of the constants that satisfies the
assumptions of its module: any number of pages, objects, callers, threads,
revisions and requests, and any values. Each is proved from an inductive
invariant, with one lemma per action.

| Module | Theorem | States |
|---|---|---|
| `EditorSessionProofs` | `TypeCorrect` | `TypeOK` |
| | `HistoryAgrees` | `HistoryAgreesWithDocument` |
| | `UndoRedoApply` | `UndoRedoAlwaysApply` |
| | `OneCommandEach` | `OneCommandPerRevision` |
| | `TimelineKept` | `Spec => KeepsTimeline`: the session implements `DocumentTimeline` |
| | `OnlyHydrationIsLost` | `PreparedLosesOnlyHydration` |
| | `PreviewsShowTheText` | `PreviewMatchesDocument` |
| `DurableProofs` | `RecoveryFaithful` | `RecoveryIsFaithful` |
| | `AcknowledgedStays` | `AcknowledgedIsDurable` |
| | `AppendedIsPublished` | `AppendedCanPublish` |
| | `JournalGrows` | `JournalOnlyGrows` (an action property) |
| `SessionActorProofs` | `GapsAreTold` | `NoGapIsForgotten` |
| `NativeProofs` | `NoLostWakeup` | `WaitersWillBeServed` |
| | `ScenesOfTheRevision` | `ScenesAreCurrent`, a part of `KeptScenesAreCurrent` |
| | `OnlyCurrentScenesAreKept` | `KeptScenesAreCurrent` |
| | `ThePartsAgree` | `PartsAgree` |
| | `FontsFitTheirText` | `ProposalsFitTheirText` |
| | `CloseJoinsEveryRun` | `ClosedMeansJoined` |
| | `ServiceStaysBehind` | `ServiceIsNeverAhead`, and `WaitersWillBeServed` under the native session |
| `SaveCoordinatorProofs` | `FilesStaySound` | `FilesAreSound` |
| | `ReportsAreTrue` | `ReportsTellTheTruth` |
| | `DisplacedIsKept` | `PreviousIsKept` |
| `AgentRunProofs` | `OneOwner` | `RunsHaveOneOwner` |
| | `ApprovalsBind` | `CommitsAreShown`, where the repository takes what a rebase writes (`RebasesAreWhole`) |
| | `CommandsAreLinked` | `CommitsAreLinked` |
| | `RunsEnd` | `RunsEndForGood` (two action properties) |
| `PartProofs` | `ProposalsAreExecutedOnce` | `ApprovedChangesAreMade` |
| | `TheAccountCoversThePatches` | `PatchMemoryIsBounded` |
| | `NothingSaidIsLost` | `ConversationsAreKept` |
| | `EachCallGetsItsPieces` | `StreamedCallsKeepTheirPieces` |
| | `NoLetterIsLost` | `ChunksKeepTheText`, a part of `RetrievalKeepsTheText` |
| | `AnswersAreOfTheIndex` | `AnswersAreTheirChunks`, the other part |
| | `RetrievalIsSound` | `RetrievalKeepsTheText` |
| | `TextsKeepTheirFonts` | `OnlyEditedTextChanges` |
| | `EditedBlocksAreWhole` | `EditsAreWhole` |

**EditorSessionProofs.** `HistoryAgreesWithDocument` says that each entry of
the undo stack links a version of `timeline.past` with the next one (or with
the document) in both directions, the same for redo, that all those versions
are valid, and that history touches loaded pages only. It is inductive
together with `TypeOK`, because it also speaks of the session and timeline
inside every prepared command: without that part nothing is known of the
session that `Publish` installs. The lemmas say what one command does to a pair
of session and timeline (`ApplyEnvelope` with `Advance`), separately for
changes, coalesced changes, undo and redo, and what loading a page does to
every version of the timeline at once. `UndoRedoAlwaysApply` follows without
another induction: the newest entry links the document with a version that is
valid. For `OneCommandPerRevision` the invariant is extended to the prepared
sessions (`Cardinality(committed) = revision`), and `FS_AddElement` gives the step.

What a prepared command was made from is forgotten by the
session, so the invariant `Standing` says that it existed: each prepared
command that can be published has an origin, a session and timeline of the
same revision from which `ApplyEnvelope` and `Advance` make it and which
became today's session by hydration only. With an origin, a publication is a
step of `DocumentTimeline` (a command after pages were dropped) and loses
hydration only. `PreviewsStand` relates what a preview has seen to the document
as long as the revision stands.

**Induction.** The theorems of the library that induct over data take a
predicate as a parameter, which the provers cannot instantiate. A set takes its
place here: a set that holds 0 and with every number the next one holds them all
(`SetInduction`, from the least element of what it does not hold). Each proof
about a recursive function defines the set of the numbers for which its claim
holds. The module also says what `Only` leaves of a sequence.

**DurableProofs.** `RecoveryIsFaithful` compares what the folds of `Recovered`
build from the rows with the session that was promised. The invariant
`DurableInv` holds the types, what is known of prepared and appended commands
(`Standing`, `AppendedStands`), that the sidecar is faithful to the promised
session (the session, or the next one of the command that is appended and waits),
and `PreparedJournaled`: the journal entry that a prepared command would write
tells its whole change (`Journaled`: replayed on the history it gives the next
history, and the states it holds are those of the next document). With it an
append extends the replay by exactly one step, and the lemmas about `ReplayedFrom`
show by induction that the replay of a journal is the replay of its beginning and
then of the last entry, whichever snapshot it starts from. One assumption on the
constants is used: no page is in the model when a project is created
(`ProjectAssumption`), which is what `editing_api.rs:643` does.
`AppendedCanPublish` and `AcknowledgedIsDurable` need less: prepared and
appended commands have a next session one revision later, an id that is not
committed while they can be published, and nothing is published while one waits.

**SessionActorProofs.** The invariant says of each stream that the events in
its channel are in order (`Unbroken`), that a missing one is marked, in the
stream or by `lagged` for the next event, and that a stream without the mark is
up to date (`UpToDate`), and that the actor is not closed while it serves.

**NativeProofs, the page service.** The counters of waiters and imports are
cardinalities of sets of threads, so the steps need the theorems about finite
sets and the assumption that threads are finitely many. `SleepersWillBeWoken` is
inductive with the counters and with the fact that only a request in its loop is
registered (`IInv`). For the scenes that are kept the invariant (`PInv`) adds
that the order of recency lists each resident page once and nothing else, that
the state of a resident page is that of its scene, and that a page that is being
imported is neither indexed nor resident; an eviction, which is a recursion over
that order, then leaves the newest page and those that are visible.
The proof corrected the model: `Promoted` was a CASE whose guards overlap, and of
two guards that hold TLA+ does not say which is taken.

**NativeProofs, the native session.** The invariant of the page service is a part of the invariant
of the native session, whose calls are steps of the service or leave it alone,
but for taking an answer. The rest: what the service was or will be told has
been committed; a token in the table or in a call stands for the revision it
was issued at; and the stages of `close` come in order, with somebody in the
stage that the others skip. Runs have an order too (`RunsInOrder`): one that is
on its way into the map has a number of its own that the map does not hold, the
map holds no number that was not begun, and as long as the worker of a run
that `close` owes goes on, some caller is about to read the map or joins what
it read, with that run in it. `PartsAgree` needs all of it (`PartsInv`): the types
of the joined variables hold because the answers that calls take are answers of
the service and the pages they ask for are pages.

**SaveCoordinatorProofs.** The invariant follows a save through its stages:
when its working copy exists (a stopped save included) and what the validation of
it stands for, what it has displaced and where
that is kept, whatever another save or program does to the same path.

**AgentRunProofs.** The invariant is the type, `SingleOwner`, `RunsAreOwned`,
that a thread that took the pending approval has it in its hands
(`HandsAreFull`), and that runs at rest have nobody (`RestIsFinal`). Two more
invariants stand on it. `Books` follows an approval and its command through the
rows of the repository. `Bound`: an approval that counts, with the engine or in
the hands of a thread, is pending at the repository, was shown at its base, and
is unspent until the thread that executes it has its command in hand. `LinksKept`:
only the last command can be unlinked, and then a thread is about to link it or
the run is lost. `Bound` is claimed for a repository that does not fail inside
a rebase (`RebasesAreWhole`), which is the case the code gets wrong (section 4);
`LinksKept` needs no such assumption. `Steady` says which status the repository
holds for each place of the thread that drives the run, so each step of the
status can be looked up in `can_transition_to`, and a thread that drives the run
never meets a status that is final.

**PartProofs, the stores.** *Proposals*: of one tool call at most one proposal is open or
executed (`OneLives`), which a rebase has to see to by closing the old one before
it files the new one. *PatchCache*: that a sum over a set does not depend on the
order in which it is taken is proved first, by induction over the size of the
set, for the recursion that `MapThenSumSet` stands for. The account is then at
least what is resident, also where two callers render one patch and it is
counted twice, and every round of an eviction takes from both what one patch
holds (`Covered`, by induction over the rounds). *Conversations*: what is said in
a set of rows is a sequence by the number of rows before each, and a row
behind all others is one turn more at its end (`SaidMore`). An exchange takes the
two sequences behind the largest, so what a run was given stays a beginning, and
the uncompacted messages always have as many answers as requests; that an import
is read back in its order is an induction over its messages. `ImportAssumption`
says of what is imported that its id in the app is no id of a conversation,
which holds because those are name-based UUIDs of them (`agent_api.rs:278`), and that
its texts can be told from what runs say, which is a matter of the model.

**PartProofs, the other parts.** *ProviderStream*: as long as no frame has been
refused, the text and the arguments of each call hold the pieces sent for them
(`DecodedIsReceived`), by the number of pieces before each; a frame adds one at
the end of one of them (`PieceAdded`) and leaves the others (`CallFrame`). That
ids differ is what `FinishStream` looks at. *Chunks*: the invariant is said of
the chunks there would be if the page ended here (`TextSoFar`), so that a word
that is added to the open chunk, opens one, or is cut into pieces are three ways
to extend the same text; the pieces need the arithmetic of `\div`. *Index*: each of
the files that is there is of the document that is said to have written it; an
answer needs both, and the rest is a comparison of manifests. The theorem
holds for every order of builds, also where two that share the file names
overlap. *ContentEdit*: the two operators around an edited text move
everything behind it by two. Counts of operators, the depth of the graphics
states and the selections in effect move with it (`CountMoves`,
`SelectionsMove`), the pair has no effect outside itself where it restores what
was in effect, and so `WrittenSoFar`, which compares every text with the
one of its number in the source, is kept by each edit. The fonts behind the names
are another part of the invariant (`InstalledSoFar`). What the theorem needs of
a page, `OwnNames` and `RestoresItsFont`, stands in the property itself.
*TextObject*: `SoundBlock` is what import makes and every command leaves, one
lemma for each. Validation asks for three things that need an argument. Boxes
tile the text because the graphemes do: the n-th of a set of positions is defined
by how many are below it, so that each position is the n-th for one n and the
ends meet (`NthOfSet`, `NthOfEach`, `GraphemesAre`, `BoxesTile`). Runs are a
`Chain` from the start of the text to its end: the parts of a run before, inside
and after a range are a chain over the run, and chains that meet join, by
induction over the runs (`PartsCover`, `SplitRunsCover`). And the capacity
stays zero, or enough for the boxes, through overflow and resizing, where it is
a quotient. `SoundBlock` is stronger than validity: it also says that boxes
are those a reflow would make, or were never there, that the bounds a quotient
is taken of are numbers, and that an imported block keeps a font.
`ObjectAssumption` says what import and callers give: a font that covers a
qualified span, sizes above zero.

**Only model-checked.** Liveness (`EveryCallReturns`, `EveryCommitIsTold`,
`EveryRequestReturns`, `EveryNativeCallReturns`), because fairness and `ENABLED`
have no rules here. And the properties of the pure algorithms (`SearchIsExact`,
`SelectionsKeepTheirText`, `CallsAreWrittenAsShown`, `WrittenFilesReadBack`): they are stated in `MCAlgorithms` and `MCDocuments`,
which reach RECURSIVE operators (the outline chain of `PdfAnnotations`, the
inherited attributes of `PdfCompose`), and compare folds of the community modules
with reference definitions, each of which would have to be taken apart by an
induction of its own.

## 6. Not modelled, and why

* The Dart side (live PDFium port, gateway, controller, chat, workspace,
  reader, settings): state of the UI that follows the native session. Each call
  it can make is an action of a module, in any order, so the core is checked
  against more callers than the Dart side is. What PDFium keeps of a physical
  plan that is not published is outside the repository.
* The generated bridge, JSON encodings, wording, logging, digests and schemas
  of tools.
* PDF parsing, rendering, font embedding, OCR and the vendored `pdf_oxide`
  crate: data transformation without protocol state. What a font can encode is
  a constant (`CanEmbed`).
* Affine arithmetic of `geometry.rs`; `TextObject` keeps the extents and the
  order of transforms.
* `Drop` of the last actor handle, damage to journal entries (recovery refuses
  such a project), schema migration, regular expression search (the engine is
  external and gives disjoint matches).
* Pages and scenes as contents: which page, at which revision, loaded or not.

## 7. Plan

1. `LivePdfium`: composition of `EditorSession` with the physical document of
   the Dart port; when the two agree, and what a refused publication leaves
   behind.
2. An abstract specification of a document on disk that `SaveCoordinator`
   composed with `DurableSession` implements: what the user opens next is what
   was saved, or what was there.
3. The recursion of `PdfAnnotations` and `PdfCompose` as recursive functions, so
   that the pure algorithms can be proved about; first `SearchIsExact` and
   `SelectionsKeepTheirText`, whose properties would move into `TextSearch` and
   `TextSelection`.
