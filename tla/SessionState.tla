---------------------------- MODULE SessionState ----------------------------
(***************************************************************************)
(* The state an editing session keeps and the pure functions that change   *)
(* it: EditorSessionState of clarix_editing_core (session.rs, history.rs)  *)
(* over the DocumentModel operations it uses (model.rs).  A command is     *)
(* applied to a copy of the session, so every operator here takes a        *)
(* session and gives the session that would replace it.                    *)
(*                                                                         *)
(* Data abstraction.  An object is a value and the revision that last      *)
(* modified it; a text value stands for text, runs, geometry and style     *)
(* together, an annotation value for its anchor, quotes and appearance.    *)
(* The kind of an object is the kind of its value.  Its capability is a    *)
(* constant, and the order of the objects inside a page is not modelled.   *)
(***************************************************************************)
EXTENDS Integers, Sequences, FiniteSets

CONSTANTS
  Pages,             \* page identities of the document
  Objects,           \* identities of text blocks and annotations
  PageOf,            \* the page of every object
  Editable,          \* the objects whose capability is Editable
  TextValues,        \* contents a text block can take
  AnnotationValues,  \* contents an annotation can take
  Targets,           \* text blocks an annotation value is anchored to
  Quoted,            \* <<text value, annotation value>>: the quotes match
  CommandIds,        \* idempotency keys of commands
  TypingGroups,      \* [group, from, to, boundary] of keyboard commands
  NoTyping,          \* the command belongs to no typing group
  NoObject,          \* the object is not in the document
  MaxRevision        \* u64::MAX: there is no revision after it

Values  == TextValues \cup AnnotationValues
Revisions == 0 .. MaxRevision

ASSUME SessionAssumption ==
  /\ MaxRevision \in Nat
  /\ PageOf \in [Objects -> Pages]
  /\ Editable \subseteq Objects
  /\ TextValues \cap AnnotationValues = {}
  /\ Targets \in [AnnotationValues -> SUBSET Objects]
  /\ NoObject \notin Values
  /\ NoObject \notin [value : Values, modified : Revisions]
  /\ NoTyping \notin TypingGroups
  /\ TypingGroups \subseteq [group : STRING, from : Nat, to : Nat, boundary : BOOLEAN]

ObjectRecords == [value : Values, modified : Revisions]
Documents == [Objects -> ObjectRecords \cup {NoObject}]

\* A version of the document: what its objects contain, whoever wrote it when.
Versions == [Objects -> Values \cup {NoObject}]

\* The five HistoryEntry variants are one record.  ids are the objects the
\* entry restores; before and after give their states, NoObject where the
\* object did not exist (before an Inserted, after a Deleted entry) and for
\* every object outside ids; ids is empty for a Checkpoint.  Only Object
\* entries carry a typing group.
HistoryEntries ==
  [ids : SUBSET Objects, before : Documents, after : Documents,
   typing : TypingGroups \cup {NoTyping}]

\* A replace-all or agent transaction preview: the edits shown to the user.
\* seen is what the preview was computed from (matched text, quoted text).
Previews ==
  [revision : Revisions, ids : SUBSET Objects, values : Versions, seen : Versions]

Sessions ==
  [revision : Revisions, pages : SUBSET Pages, doc : Documents,
   committed : SUBSET CommandIds,
   undo : Seq(HistoryEntries), redo : Seq(HistoryEntries),
   replacePreviews : SUBSET Previews, toolPreviews : SUBSET Previews]

ObjectCommands == {"ReplaceTextRange", "EditObject", "UpdateAnnotation"}
ChangeCommands ==
  ObjectCommands \cup
    {"ApplyTransaction", "CreateAnnotation", "DeleteAnnotation", "CreateCheckpoint"}

\* CommandEnvelope.  A change command writes values to ids (NoObject deletes).
\* EditObject stands for every object command other than ReplaceTextRange and
\* UpdateAnnotation: styles, moves, resizing, rotation, font fallback.
Commands ==
  [id : CommandIds, base : Revisions, op : ChangeCommands \cup {"Undo", "Redo"},
   ids : SUBSET Objects, values : Versions, typing : TypingGroups \cup {NoTyping}]

-----------------------------------------------------------------------------
(* Document operations                                                     *)

EmptyDocument == [o \in Objects |-> NoObject]

Version(doc) ==
  [o \in Objects |-> IF doc[o] = NoObject THEN NoObject ELSE doc[o].value]

Part(f, ids) == [o \in Objects |-> IF o \in ids THEN f[o] ELSE NoObject]

Overlay(f, ids, g) == [o \in Objects |-> IF o \in ids THEN g[o] ELSE f[o]]

\* Contents written at revision r.
Stamp(version, r) ==
  [o \in Objects |-> IF version[o] = NoObject THEN NoObject
                     ELSE [value |-> version[o], modified |-> r]]

\* Every object of the pages in ps.
OnPages(ps) == {o \in Objects : PageOf[o] \in ps}

\* DocumentModel::from_parts re-validates the whole model after every change:
\* an annotation anchored to text must quote text that is on its page now.
Valid(version) ==
  \A a \in Objects :
    version[a] \in AnnotationValues =>
      \A t \in Targets[version[a]] :
        /\ PageOf[t] = PageOf[a]
        /\ version[t] \in TextValues
        /\ <<version[t], version[a]>> \in Quoted

-----------------------------------------------------------------------------
(* Sessions                                                                *)

NewSession(pages, doc) ==
  [revision |-> 0, pages |-> pages, doc |-> doc, committed |-> {},
   undo |-> <<>>, redo |-> <<>>, replacePreviews |-> {}, toolPreviews |-> {}]

LastOf(seq) == seq[Len(seq)]
FrontOf(seq) == SubSeq(seq, 1, Len(seq) - 1)

\* Mutant: any keystroke joins the run, whichever block it edits.
CanCoalesceAnyBlock(undo, entry) ==
  /\ undo # <<>>
  /\ entry.typing # NoTyping
  /\ LastOf(undo).typing # NoTyping
  /\ LastOf(undo).typing.group = entry.typing.group
  /\ LastOf(undo).typing.to = entry.typing.from

\* The newest undo entry absorbs the next keystroke of the same typing run.
CanCoalesce(undo, entry) ==
  /\ undo # <<>>
  /\ entry.typing # NoTyping
  /\ LastOf(undo).typing # NoTyping
  /\ LastOf(undo).typing.group = entry.typing.group
  /\ ~LastOf(undo).typing.boundary
  /\ ~entry.typing.boundary
  /\ LastOf(undo).typing.to = entry.typing.from
  /\ LastOf(undo).ids = entry.ids

Entry(s, c) ==
  [ids |-> c.ids, before |-> Part(s.doc, c.ids),
   after |-> Part(Stamp(c.values, s.revision + 1), c.ids),
   typing |-> c.typing]

Coalesces(s, c) ==
  /\ c.op = "ReplaceTextRange"
  /\ CanCoalesce(s.undo, Entry(s, c))

\* apply_object_command and the history-bearing arms of apply_envelope.
ApplyChange(s, c) ==
  [s EXCEPT
     !.doc = Overlay(s.doc, c.ids, Entry(s, c).after),
     !.undo = IF Coalesces(s, c)
              THEN [s.undo EXCEPT ![Len(s.undo)] =
                      [LastOf(s.undo) EXCEPT !.after = Entry(s, c).after,
                                             !.typing = c.typing]]
              ELSE Append(s.undo, Entry(s, c)),
     !.redo = <<>>]

\* Mutants: undo restores the side it leaves; it keeps old stamps.
ApplyUndoWrongSide(s) ==
  LET entry == LastOf(s.undo) IN
  [s EXCEPT
     !.doc = Overlay(s.doc, entry.ids, Stamp(Version(entry.after), s.revision + 1)),
     !.undo = FrontOf(s.undo),
     !.redo = Append(s.redo, entry)]

\* An entry's states are restored with the new revision as their stamp.
ApplyUndo(s) ==
  LET entry == LastOf(s.undo) IN
  [s EXCEPT
     !.doc = Overlay(s.doc, entry.ids, Stamp(Version(entry.before), s.revision + 1)),
     !.undo = FrontOf(s.undo),
     !.redo = Append(s.redo, entry)]

ApplyRedo(s) ==
  LET entry == LastOf(s.redo) IN
  [s EXCEPT
     !.doc = Overlay(s.doc, entry.ids, Stamp(Version(entry.after), s.revision + 1)),
     !.redo = FrontOf(s.redo),
     !.undo = Append(s.undo, entry)]

\* Restoring replaces objects that must exist, inserts one that must not, or
\* removes one that must: the document has to look like the side it leaves.
CanRestore(s, entry, from, to) ==
  /\ \A o \in entry.ids :
       /\ (s.doc[o] = NoObject) <=> (from[o] = NoObject)
       /\ PageOf[o] \in s.pages
  /\ Valid(Overlay(Version(s.doc), entry.ids, Version(to)))

CanUndo(s) ==
  /\ s.undo # <<>>
  /\ CanRestore(s, LastOf(s.undo), LastOf(s.undo).after, LastOf(s.undo).before)

CanRedo(s) ==
  /\ s.redo # <<>>
  /\ CanRestore(s, LastOf(s.redo), LastOf(s.redo).before, LastOf(s.redo).after)

SameKind(v, w) == (v \in TextValues) <=> (w \in TextValues)

\* Mutant: a change of an existing object is not validated again.
CanChangeUnvalidated(s, c) ==
  /\ c.ids \subseteq Editable
  /\ \A o \in c.ids : s.doc[o] # NoObject <=> c.op # "CreateAnnotation"
  /\ c.op = "CreateAnnotation" => Valid(Overlay(Version(s.doc), c.ids, c.values))

\* The checks of each payload.  UpdateAnnotation checks the identity and the
\* page of its target and not its kind.  Every edit of a transaction is
\* validated after the one before it.  A transaction here has one edit per text
\* block and moves no annotation, so each mixture of old and new text is
\* valid when the old and the new document are.
CanChange(s, c) ==
  /\ CASE c.op = "ReplaceTextRange" ->
            \E o \in Editable : /\ c.ids = {o}
                               /\ s.doc[o] # NoObject
                               /\ {s.doc[o].value, c.values[o]} \subseteq TextValues
       [] c.op = "EditObject" ->
            \E o \in Editable : /\ c.ids = {o}
                               /\ s.doc[o] # NoObject
                               /\ c.values[o] # NoObject
                               /\ SameKind(s.doc[o].value, c.values[o])
       [] c.op = "UpdateAnnotation" ->
            \E o \in Editable : /\ c.ids = {o}
                               /\ s.doc[o] # NoObject
                               /\ c.values[o] \in AnnotationValues
       [] c.op = "ApplyTransaction" ->
            /\ c.ids # {}
            /\ c.ids \subseteq Editable
            /\ \A o \in c.ids : /\ s.doc[o] # NoObject
                               /\ {s.doc[o].value, c.values[o]} \subseteq TextValues
       [] c.op = "CreateAnnotation" ->
            \E a \in Objects : /\ c.ids = {a}
                              /\ s.doc[a] = NoObject
                              /\ PageOf[a] \in s.pages
                              /\ c.values[a] \in AnnotationValues
       [] c.op = "DeleteAnnotation" ->
            \E a \in Objects : /\ c.ids = {a}
                              /\ s.doc[a] # NoObject
                              /\ s.doc[a].value \in AnnotationValues
                              /\ c.values[a] = NoObject
       [] c.op = "CreateCheckpoint" -> c.ids = {}
  /\ Valid(Overlay(Version(s.doc), c.ids, c.values))

\* Mutants: a command is accepted twice; the revision wraps.
AcceptsTwice(s, c) ==
  /\ c.base = s.revision
  /\ s.revision < MaxRevision
  /\ CASE c.op = "Undo" -> CanUndo(s)
       [] c.op = "Redo" -> CanRedo(s)
       [] OTHER         -> CanChange(s, c)

AcceptsPastTheEnd(s, c) ==
  /\ c.base = s.revision
  /\ c.id \notin s.committed
  /\ CASE c.op = "Undo" -> CanUndo(s)
       [] c.op = "Redo" -> CanRedo(s)
       [] OTHER         -> CanChange(s, c)

\* apply_envelope refuses before it changes anything.
Accepts(s, c) ==
  /\ c.base = s.revision
  /\ c.id \notin s.committed
  /\ s.revision < MaxRevision
  /\ CASE c.op = "Undo" -> CanUndo(s)
       [] c.op = "Redo" -> CanRedo(s)
       [] OTHER         -> CanChange(s, c)

ApplyEnvelope(s, c) ==
  LET applied == CASE c.op = "Undo" -> ApplyUndo(s)
                   [] c.op = "Redo" -> ApplyRedo(s)
                   [] OTHER         -> ApplyChange(s, c)
  IN [applied EXCEPT !.revision = s.revision + 1,
                     !.committed = s.committed \cup {c.id},
                     !.replacePreviews = {}]

\* The transaction that commits a preview.
PreviewCommand(id, base, preview) ==
  [id |-> id, base |-> base, op |-> "ApplyTransaction",
   ids |-> preview.ids, values |-> preview.values, typing |-> NoTyping]

-----------------------------------------------------------------------------
(* Page hydration: content is a version that is NoObject off the page.     *)

LoadPage(s, p, content) ==
  [s EXCEPT !.pages = @ \cup {p},
            !.doc = Overlay(s.doc, OnPages({p}), Stamp(content, 0))]

CanHydrate(s, p, content) ==
  /\ p \notin s.pages
  /\ Valid(Version(LoadPage(s, p, content).doc))

\* The live PDFium projection may also replace a page nobody has edited yet.
CanHydrateLive(s, p, content) ==
  /\ p \notin s.pages \/ s.revision = 0
  /\ Valid(Version(LoadPage(s, p, content).doc))
=============================================================================
