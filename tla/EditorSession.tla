---------------------------- MODULE EditorSession ----------------------------
(***************************************************************************)
(* One open document: EditorSessionState (session.rs) with the two-phase   *)
(* use that callers make of it.  A command is submitted at once, or        *)
(* prepared, kept by the caller while it edits the live PDFium document    *)
(* (prepared_live_commands of editing_api.rs), and published later.  In    *)
(* between, other commands commit, pages are hydrated and previews taken:  *)
(* the actor (actor.rs) serializes the requests, not the pairs of them.    *)
(*                                                                         *)
(* A refused request changes nothing and is left out, except the refusal   *)
(* of a prepared command, which consumes it.  Requests carry the current   *)
(* revision; one that carries another is refused (DurableSession has       *)
(* clients with stale revisions).                                          *)
(***************************************************************************)
EXTENDS SessionState

CONSTANTS
  Imports,      \* page |-> the contents its import can find
  FirstPages,   \* the pages of the document the session opens with
  MaxPrepared,  \* bound on prepared commands kept by callers
  MaxPreviews   \* bound on the previews of each kind

VARIABLES
  session,   \* EditorSessionState
  prepared,  \* PreparedCommands handed out and not yet published
  closed,    \* EditorSessionState::closed
  timeline   \* history variable: the versions behind undo[i] and redo[i]

vars == <<session, prepared, closed, timeline>>

ASSUME EditorSessionAssumption ==
  /\ FirstPages \subseteq Pages
  /\ Imports \in [Pages -> SUBSET Versions]
  /\ \A p \in Pages : \A content \in Imports[p] :
       /\ \A o \in Objects : content[o] # NoObject => PageOf[o] = p
       /\ Valid(content)
  /\ MaxPrepared \in Nat
  /\ MaxPreviews \in Nat

Timelines == [past : Seq(Versions), future : Seq(Versions)]

\* PreparedCommand: the whole session to publish, and for the journal the
\* states of the objects that change (before_objects, after_objects).
PreparedCommands ==
  [command : Commands, previous : Revisions, next : Sessions,
   before : Documents, after : Documents, timeline : Timelines]

-----------------------------------------------------------------------------
(* The commands callers send.                                              *)

Command(op, id, ids, values, typing) ==
  [id |-> id, base |-> session.revision, op |-> op, ids |-> ids,
   values |-> Part(values, ids), typing |-> typing]

All(v) == [o \in Objects |-> v]

OneObject == {{o} : o \in Objects}

TextReplacements ==
  {Command("ReplaceTextRange", id, ids, All(v), typing) :
     id \in CommandIds, ids \in OneObject, v \in TextValues, typing \in TypingGroups \cup {NoTyping}}

ObjectEdits ==
  {Command(op, id, ids, All(v), typing) :
     op \in {"EditObject", "UpdateAnnotation"},
     id \in CommandIds, ids \in OneObject, v \in Values, typing \in TypingGroups \cup {NoTyping}}

Transactions ==
  {Command("ApplyTransaction", id, ids, All(v), NoTyping) :
     id \in CommandIds, ids \in SUBSET Objects, v \in TextValues}

AnnotationCommands ==
  {Command("CreateAnnotation", id, ids, All(v), NoTyping) :
     id \in CommandIds, ids \in OneObject, v \in AnnotationValues}
  \cup {Command("DeleteAnnotation", id, ids, All(NoObject), NoTyping) :
          id \in CommandIds, ids \in OneObject}

HistoryCommands ==
  {Command(op, id, {}, All(NoObject), NoTyping) :
     op \in {"Undo", "Redo", "CreateCheckpoint"}, id \in CommandIds}

Requests ==
  {c \in TextReplacements \cup ObjectEdits \cup Transactions
           \cup AnnotationCommands \cup HistoryCommands : Accepts(session, c)}

-----------------------------------------------------------------------------
(* The history variable follows what a user would call undo and redo.      *)

Advance(s, tl, c) ==
  CASE c.op = "Undo" ->
         [past |-> FrontOf(tl.past), future |-> Append(tl.future, Version(s.doc))]
    [] c.op = "Redo" ->
         [past |-> Append(tl.past, Version(s.doc)), future |-> FrontOf(tl.future)]
    [] OTHER ->
         [past |-> IF Coalesces(s, c) THEN tl.past ELSE Append(tl.past, Version(s.doc)),
          future |-> <<>>]

OnTimeline(tl, p, content) ==
  LET Joined(versions) ==
        [i \in DOMAIN versions |-> Overlay(versions[i], OnPages({p}), content)]
  IN [past |-> Joined(tl.past), future |-> Joined(tl.future)]

-----------------------------------------------------------------------------
(* Actions                                                                 *)

InitialDocument(contents) ==
  [o \in Objects |-> IF PageOf[o] \in FirstPages THEN contents[PageOf[o]][o] ELSE NoObject]

Init ==
  /\ \E contents \in [FirstPages -> Versions] :
       /\ \A p \in FirstPages : contents[p] \in Imports[p]
       /\ session = NewSession(FirstPages, Stamp(InitialDocument(contents), 0))
  /\ prepared = {}
  /\ closed = FALSE
  /\ timeline = [past |-> <<>>, future |-> <<>>]

Commit(c) ==
  /\ session' = ApplyEnvelope(session, c)
  /\ timeline' = Advance(session, timeline, c)

Submit ==
  /\ ~closed
  /\ \E c \in Requests : Commit(c)
  /\ UNCHANGED <<prepared, closed>>

ChangedObjects(from, to) == {o \in Objects : from[o] # to[o]}

PreparedFor(c) ==
  LET next == ApplyEnvelope(session, c)
      changed == ChangedObjects(session.doc, next.doc)
  IN [command |-> c, previous |-> session.revision, next |-> next,
      before |-> Part(session.doc, changed), after |-> Part(next.doc, changed),
      timeline |-> Advance(session, timeline, c)]

Prepare ==
  /\ ~closed
  /\ Cardinality(prepared) < MaxPrepared
  /\ \E c \in Requests : prepared' = prepared \cup {PreparedFor(c)}
  /\ UNCHANGED <<session, closed, timeline>>

\* Mutant: publish trusts the token.
CanPublishAnyRevision(p) ==
  /\ ~closed
  /\ p.command.id \notin session.committed

CanPublish(p) ==
  /\ ~closed
  /\ p.previous = session.revision
  /\ p.command.id \notin session.committed

\* The whole session becomes the one that was prepared.
Publish(p) ==
  /\ CanPublish(p)
  /\ session' = p.next
  /\ timeline' = p.timeline
  /\ prepared' = prepared \ {p}
  /\ UNCHANGED closed

RefusePublish(p) ==
  /\ ~CanPublish(p)
  /\ prepared' = prepared \ {p}
  /\ UNCHANGED <<session, closed, timeline>>

\* A query matches the text blocks that hold u; each match becomes v.
PreviewReplaceAll(u, v) ==
  LET matches == {o \in Objects : session.doc[o] # NoObject /\ session.doc[o].value = u}
  IN /\ ~closed
     /\ Cardinality(session.replacePreviews) < MaxPreviews
     /\ matches # {}
     /\ session' = [session EXCEPT !.replacePreviews = @ \cup
          {[revision |-> session.revision, ids |-> matches,
            values |-> Part(All(v), matches),
            seen |-> Part(Version(session.doc), matches)]}]
     /\ UNCHANGED <<prepared, closed, timeline>>

\* An agent's transaction is tried on a copy before it is shown.
PreviewTransaction(id, ids, v) ==
  LET c == Command("ApplyTransaction", id, ids, All(v), NoTyping)
  IN /\ ~closed
     /\ Cardinality(session.toolPreviews) < MaxPreviews
     /\ Accepts(session, c)
     /\ session' = [session EXCEPT !.toolPreviews = @ \cup
          {[revision |-> session.revision, ids |-> ids, values |-> c.values,
            seen |-> Part(Version(session.doc), ids)]}]
     /\ UNCHANGED <<prepared, closed, timeline>>

\* Mutant: the revision of the preview is not compared.
CanCommitAnyPreview(preview) == preview.revision <= session.revision

CanCommitPreview(preview) == preview.revision = session.revision

CommitPreview(id, preview) ==
  LET c == PreviewCommand(id, session.revision, preview)
  IN /\ ~closed
     /\ CanCommitPreview(preview)
     /\ Accepts(session, c)
     /\ Commit(c)
     /\ UNCHANGED <<prepared, closed>>

ApproveReplaceAll ==
  \E id \in CommandIds, preview \in session.replacePreviews : CommitPreview(id, preview)

CommitToolTransaction ==
  \E id \in CommandIds, preview \in session.toolPreviews : CommitPreview(id, preview)

Load(p, content) ==
  /\ session' = LoadPage(session, p, content)
  /\ timeline' = OnTimeline(timeline, p, content)
  /\ UNCHANGED <<prepared, closed>>

HydratePage(p, content) ==
  /\ ~closed
  /\ CanHydrate(session, p, content)
  /\ Load(p, content)

HydrateLivePage(p, content) ==
  /\ ~closed
  /\ CanHydrateLive(session, p, content)
  /\ Load(p, content)

Close ==
  /\ ~closed
  /\ closed' = TRUE
  /\ UNCHANGED <<session, prepared, timeline>>

Next ==
  \/ Submit
  \/ Prepare
  \/ \E p \in prepared : Publish(p) \/ RefusePublish(p)
  \/ \E u, v \in TextValues : PreviewReplaceAll(u, v)
  \/ \E id \in CommandIds, ids \in SUBSET Objects, v \in TextValues :
       PreviewTransaction(id, ids, v)
  \/ ApproveReplaceAll
  \/ CommitToolTransaction
  \/ \E p \in Pages : \E content \in Imports[p] :
       HydratePage(p, content) \/ HydrateLivePage(p, content)
  \/ Close

Spec == Init /\ [][Next]_vars

-----------------------------------------------------------------------------
(* Properties                                                              *)

\* Every variable has its type; the revision stays within its width.
TypeOK ==
  /\ session \in Sessions
  /\ prepared \subseteq PreparedCommands
  /\ closed \in BOOLEAN
  /\ timeline \in Timelines

\* An entry leads from one version to the other, and back.
Links(older, entry, newer) ==
  /\ newer = Overlay(older, entry.ids, Version(entry.after))
  /\ older = Overlay(newer, entry.ids, Version(entry.before))

UndoLeadsBack(s, tl) ==
  /\ Len(tl.past) = Len(s.undo)
  /\ \A i \in 1 .. Len(s.undo) :
       Links(tl.past[i], s.undo[i],
             IF i < Len(s.undo) THEN tl.past[i + 1] ELSE Version(s.doc))

RedoLeadsForward(s, tl) ==
  /\ Len(tl.future) = Len(s.redo)
  /\ \A i \in 1 .. Len(s.redo) :
       Links(IF i < Len(s.redo) THEN tl.future[i + 1] ELSE Version(s.doc),
             s.redo[i], tl.future[i])

EveryVersionValid(s, tl) ==
  /\ Valid(Version(s.doc))
  /\ \A i \in DOMAIN tl.past : Valid(tl.past[i])
  /\ \A i \in DOMAIN tl.future : Valid(tl.future[i])

OnLoadedPages(s) ==
  /\ \A o \in Objects : s.doc[o] # NoObject => PageOf[o] \in s.pages
  /\ \A i \in DOMAIN s.undo : s.undo[i].ids \subseteq OnPages(s.pages)
  /\ \A i \in DOMAIN s.redo : s.redo[i].ids \subseteq OnPages(s.pages)
  /\ s.revision = 0 => s.undo = <<>> /\ s.redo = <<>>

Agrees(s, tl) ==
  /\ UndoLeadsBack(s, tl)
  /\ RedoLeadsForward(s, tl)
  /\ EveryVersionValid(s, tl)
  /\ OnLoadedPages(s)

\* The undo and redo stacks describe the document they belong to: walking
\* them visits the versions the user made, each of which is a valid document,
\* through coalesced typing, hydration and sessions prepared and published
\* later (the stacks of session.rs are only ever patched at their top).
HistoryAgreesWithDocument ==
  /\ Agrees(session, timeline)
  /\ \A p \in prepared : Agrees(p.next, p.timeline)

\* Undo and redo cannot fail while there is something to undo or redo: what
\* apply_undo and apply_redo restore passes the validation that the model
\* repeats on every change (annotations must quote the text restored).
UndoRedoAlwaysApply ==
  session.revision < MaxRevision =>
    /\ session.undo # <<>> => CanUndo(session)
    /\ session.redo # <<>> => CanRedo(session)

\* Every revision was made by a command of its own: no command is applied
\* twice and none is missing from the idempotency set after a publish.
OneCommandPerRevision == Cardinality(session.committed) = session.revision

\* A prepared command that can still be published gives what submitting it
\* now would give, but for pages hydrated since (publish replaces the whole
\* session).  At revision 0 a live import may also have replaced a page.
PreparedLosesOnlyHydration ==
  session.revision > 0 =>
    \A p \in prepared :
      CanPublish(p) =>
        LET now == ApplyEnvelope(session, p.command) IN
        /\ p.next.pages \subseteq session.pages
        /\ p.next.doc = Part(now.doc, OnPages(p.next.pages))
        /\ p.next.undo = now.undo
        /\ p.next.redo = now.redo
        /\ p.next.committed = now.committed

\* A preview that can be approved shows the text its transaction replaces.
\* Only a live import at revision 0 can change text without a new revision.
PreviewMatchesDocument ==
  session.revision > 0 =>
    \A preview \in session.replacePreviews \cup session.toolPreviews :
      CanCommitPreview(preview) =>
        preview.seen = Part(Version(session.doc), preview.ids)

\* The document is a timeline of versions that undo and redo walk.
Abstract == INSTANCE DocumentTimeline
              WITH pages <- session.pages, past <- timeline.past,
                   present <- Version(session.doc), future <- timeline.future
KeepsTimeline == Abstract!Spec
=============================================================================
