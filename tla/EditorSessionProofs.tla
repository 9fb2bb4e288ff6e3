------------------------- MODULE EditorSessionProofs -------------------------
(***************************************************************************)
(* Theorems about EditorSession for every number of pages, objects,        *)
(* commands, prepared commands and previews: the history describes the     *)
(* document, undo and redo apply, the session implements DocumentTimeline, *)
(* and prepared commands and previews stand for what they were made from.  *)
(***************************************************************************)
EXTENDS EditorSession, FiniteSetTheorems, TLAPS

-----------------------------------------------------------------------------
(* Documents and versions                                                  *)

\* The contents of a document are a version.
LEMMA VersionType ==
  ASSUME NEW doc \in Documents
  PROVE  Version(doc) \in Versions
  BY DEF Version, Versions, Documents, ObjectRecords

\* A version written at a revision is a document.
LEMMA StampType ==
  ASSUME NEW version \in Versions, NEW r \in Revisions
  PROVE  Stamp(version, r) \in Documents
  BY DEF Stamp, Versions, Documents, ObjectRecords

\* Stamping does not change contents.
LEMMA VersionOfStamp ==
  ASSUME NEW version \in Versions, NEW r \in Revisions
  PROVE  Version(Stamp(version, r)) = version
  <1>1. ASSUME NEW o \in Objects
        PROVE  Version(Stamp(version, r))[o] = version[o]
    <2>1. CASE version[o] = NoObject
      BY <2>1 DEF Version, Stamp
    <2>2. CASE version[o] # NoObject
      <3>1. version[o] \in Values
        BY <2>2 DEF Versions
      <3>2. Stamp(version, r)[o] = [value |-> version[o], modified |-> r]
        BY <2>2 DEF Stamp
      <3>3. Stamp(version, r)[o] \in [value : Values, modified : Revisions]
        BY <3>1, <3>2
      <3>4. Stamp(version, r)[o] # NoObject
        BY <3>3, SessionAssumption
      <3> QED
        BY <3>2, <3>4 DEF Version
    <2> QED
      BY <2>1, <2>2
  <1> QED
    BY <1>1 DEF Version, Versions

LEMMA OverlayVersionType ==
  ASSUME NEW f \in Versions, NEW g \in Versions, NEW ids
  PROVE  Overlay(f, ids, g) \in Versions
  BY DEF Overlay, Versions

LEMMA OverlayDocumentType ==
  ASSUME NEW f \in Documents, NEW g \in Documents, NEW ids
  PROVE  Overlay(f, ids, g) \in Documents
  BY DEF Overlay, Documents

LEMMA PartType ==
  ASSUME NEW ids
  PROVE  /\ \A f \in Versions : Part(f, ids) \in Versions
         /\ \A f \in Documents : Part(f, ids) \in Documents
  BY DEF Part, Versions, Documents

\* Contents of an overlay are the overlay of the contents.
LEMMA VersionOfOverlay ==
  ASSUME NEW f \in Documents, NEW g \in Documents, NEW ids
  PROVE  Version(Overlay(f, ids, g)) = Overlay(Version(f), ids, Version(g))
  BY DEF Version, Overlay, Documents

LEMMA VersionOfPart ==
  ASSUME NEW f \in Documents, NEW ids
  PROVE  Version(Part(f, ids)) = Part(Version(f), ids)
  BY DEF Version, Part, Documents

-----------------------------------------------------------------------------
(* Type correctness                                                        *)

\* The entry of a command has the type of the entries.
LEMMA EntryType ==
  ASSUME NEW s \in Sessions, NEW c \in Commands, s.revision < MaxRevision
  PROVE  Entry(s, c) \in HistoryEntries
  <1>1. s.doc \in Documents /\ c.ids \in SUBSET Objects /\ c.values \in Versions
    BY DEF Sessions, Commands
  <1>2. s.revision + 1 \in Revisions
    BY SessionAssumption DEF Sessions, Revisions
  <1>3. Part(s.doc, c.ids) \in Documents
    BY <1>1, PartType
  <1>4. Part(Stamp(c.values, s.revision + 1), c.ids) \in Documents
    BY <1>1, <1>2, StampType, PartType
  <1>5. c.typing \in TypingGroups \cup {NoTyping}
    BY DEF Commands
  <1> QED
    BY <1>1, <1>3, <1>4, <1>5 DEF Entry, HistoryEntries

\* A change keeps the session's type.
LEMMA ApplyChangeType ==
  ASSUME NEW s \in Sessions, NEW c \in Commands, s.revision < MaxRevision
  PROVE  ApplyChange(s, c) \in Sessions
  <1> DEFINE e == Entry(s, c)
  <1>1. e \in HistoryEntries
    BY EntryType
  <1>2. e.after \in Documents /\ c.typing \in TypingGroups \cup {NoTyping}
    BY <1>1 DEF HistoryEntries, Commands
  <1>3. Overlay(s.doc, c.ids, e.after) \in Documents
    BY <1>2, OverlayDocumentType DEF Sessions
  <1>4. ASSUME Coalesces(s, c)
        PROVE  [s.undo EXCEPT ![Len(s.undo)] =
                  [LastOf(s.undo) EXCEPT !.after = e.after, !.typing = c.typing]]
                 \in Seq(HistoryEntries)
    <2>1. s.undo \in Seq(HistoryEntries) /\ s.undo # <<>>
      BY <1>4 DEF Sessions, Coalesces, CanCoalesce
    <2>2. LastOf(s.undo) \in HistoryEntries
      BY <2>1 DEF LastOf
    <2>3. [LastOf(s.undo) EXCEPT !.after = e.after, !.typing = c.typing] \in HistoryEntries
      BY <2>2, <1>2 DEF HistoryEntries
    <2> QED
      BY <2>1, <2>3
  <1>5. Append(s.undo, e) \in Seq(HistoryEntries)
    BY <1>1 DEF Sessions
  <1>6. <<>> \in Seq(HistoryEntries)
    OBVIOUS
  <1> HIDE DEF e
  <1>7. ApplyChange(s, c) =
          [s EXCEPT !.doc = Overlay(s.doc, c.ids, e.after),
                    !.undo = IF Coalesces(s, c)
                             THEN [s.undo EXCEPT ![Len(s.undo)] =
                                     [LastOf(s.undo) EXCEPT !.after = e.after,
                                                            !.typing = c.typing]]
                             ELSE Append(s.undo, e),
                    !.redo = <<>>]
    BY DEF ApplyChange, e
  <1> QED
    BY <1>3, <1>4, <1>5, <1>6, <1>7 DEF Sessions

\* The last element of a stack, and the stack without it.
LEMMA StackTypes ==
  ASSUME NEW S, NEW seq \in Seq(S), seq # <<>>
  PROVE  /\ LastOf(seq) \in S
         /\ FrontOf(seq) \in Seq(S)
         /\ Len(FrontOf(seq)) = Len(seq) - 1
         /\ \A i \in 1 .. Len(seq) - 1 : FrontOf(seq)[i] = seq[i]
  <1>1. Len(seq) \in Nat /\ Len(seq) > 0 /\ seq \in [1 .. Len(seq) -> S]
    OBVIOUS
  <1>2. FrontOf(seq) = [i \in 1 .. Len(seq) - 1 |-> seq[i]]
    BY <1>1 DEF FrontOf
  <1>3. FrontOf(seq) \in Seq(S) /\ Len(FrontOf(seq)) = Len(seq) - 1
    BY <1>1, <1>2
  <1> QED
    BY <1>1, <1>2, <1>3 DEF LastOf

\* Undo and redo keep the session's type.
LEMMA ApplyUndoType ==
  ASSUME NEW s \in Sessions, s.undo # <<>>, s.revision < MaxRevision
  PROVE  ApplyUndo(s) \in Sessions
  <1>1. s.undo \in Seq(HistoryEntries) /\ s.redo \in Seq(HistoryEntries)
    BY DEF Sessions
  <1>2. LastOf(s.undo) \in HistoryEntries /\ FrontOf(s.undo) \in Seq(HistoryEntries)
    BY <1>1, StackTypes
  <1>3. Append(s.redo, LastOf(s.undo)) \in Seq(HistoryEntries)
    BY <1>1, <1>2
  <1>4. s.revision + 1 \in Revisions
    BY SessionAssumption DEF Sessions, Revisions
  <1>5. Stamp(Version(LastOf(s.undo).before), s.revision + 1) \in Documents
    BY <1>2, <1>4, VersionType, StampType DEF HistoryEntries
  <1>6. Overlay(s.doc, LastOf(s.undo).ids,
                Stamp(Version(LastOf(s.undo).before), s.revision + 1)) \in Documents
    BY <1>5, OverlayDocumentType DEF Sessions
  <1> QED
    BY <1>2, <1>3, <1>6 DEF ApplyUndo, Sessions

LEMMA ApplyRedoType ==
  ASSUME NEW s \in Sessions, s.redo # <<>>, s.revision < MaxRevision
  PROVE  ApplyRedo(s) \in Sessions
  <1>1. s.undo \in Seq(HistoryEntries) /\ s.redo \in Seq(HistoryEntries)
    BY DEF Sessions
  <1>2. LastOf(s.redo) \in HistoryEntries /\ FrontOf(s.redo) \in Seq(HistoryEntries)
    BY <1>1, StackTypes
  <1>3. Append(s.undo, LastOf(s.redo)) \in Seq(HistoryEntries)
    BY <1>1, <1>2
  <1>4. s.revision + 1 \in Revisions
    BY SessionAssumption DEF Sessions, Revisions
  <1>5. Stamp(Version(LastOf(s.redo).after), s.revision + 1) \in Documents
    BY <1>2, <1>4, VersionType, StampType DEF HistoryEntries
  <1>6. Overlay(s.doc, LastOf(s.redo).ids,
                Stamp(Version(LastOf(s.redo).after), s.revision + 1)) \in Documents
    BY <1>5, OverlayDocumentType DEF Sessions
  <1> QED
    BY <1>2, <1>3, <1>6 DEF ApplyRedo, Sessions

\* An accepted command gives a session.
LEMMA ApplyEnvelopeType ==
  ASSUME NEW s \in Sessions, NEW c \in Commands, Accepts(s, c)
  PROVE  ApplyEnvelope(s, c) \in Sessions
  <1> DEFINE applied == CASE c.op = "Undo" -> ApplyUndo(s)
                          [] c.op = "Redo" -> ApplyRedo(s)
                          [] OTHER         -> ApplyChange(s, c)
  <1>1. s.revision < MaxRevision
    BY DEF Accepts
  <1>2. applied \in Sessions
    <2>1. CASE c.op = "Undo"
      <3>1. s.undo # <<>>
        BY <2>1 DEF Accepts, CanUndo
      <3> QED
        BY <1>1, <2>1, <3>1, ApplyUndoType
    <2>2. CASE c.op = "Redo"
      <3>1. s.redo # <<>>
        BY <2>2 DEF Accepts, CanRedo
      <3> QED
        BY <1>1, <2>2, <3>1, ApplyRedoType
    <2>3. CASE c.op # "Undo" /\ c.op # "Redo"
      BY <1>1, <2>3, ApplyChangeType
    <2> QED
      BY <2>1, <2>2, <2>3
  <1>3. s.revision + 1 \in Revisions
    BY <1>1, SessionAssumption DEF Sessions, Revisions
  <1>4. s.committed \cup {c.id} \in SUBSET CommandIds
    BY DEF Sessions, Commands
  <1> HIDE DEF applied
  <1>5. ApplyEnvelope(s, c) = [applied EXCEPT !.revision = s.revision + 1,
                                              !.committed = s.committed \cup {c.id},
                                              !.replacePreviews = {}]
    BY DEF ApplyEnvelope, applied
  <1> QED
    BY <1>2, <1>3, <1>4, <1>5 DEF Sessions

LEMMA AllType ==
  ASSUME NEW v \in Values \cup {NoObject}
  PROVE  All(v) \in Versions
  BY DEF All, Versions

\* What callers send are commands.
LEMMA CommandType ==
  ASSUME TypeOK,
         NEW op \in ChangeCommands \cup {"Undo", "Redo"},
         NEW id \in CommandIds, NEW ids \in SUBSET Objects, NEW values \in Versions,
         NEW typing \in TypingGroups \cup {NoTyping}
  PROVE  Command(op, id, ids, values, typing) \in Commands
  <1>1. session.revision \in Revisions
    BY DEF TypeOK, Sessions
  <1>2. Part(values, ids) \in Versions
    BY PartType
  <1> QED
    BY <1>1, <1>2 DEF Command, Commands

LEMMA RequestType ==
  ASSUME TypeOK, NEW c \in Requests
  PROVE  c \in Commands /\ Accepts(session, c)
  <1>1. /\ \A v \in Values : All(v) \in Versions
        /\ All(NoObject) \in Versions
        /\ TextValues \subseteq Values
        /\ AnnotationValues \subseteq Values
    BY AllType DEF Values
  <1>2. {"ReplaceTextRange", "EditObject", "UpdateAnnotation", "ApplyTransaction",
         "CreateAnnotation", "DeleteAnnotation", "Undo", "Redo", "CreateCheckpoint"}
           \subseteq ChangeCommands \cup {"Undo", "Redo"}
    BY DEF ChangeCommands, ObjectCommands
  <1> OneObject \subseteq SUBSET Objects
    BY DEF OneObject
  <1>3. ASSUME c \in TextReplacements PROVE c \in Commands
    BY <1>1, <1>2, <1>3, CommandType DEF TextReplacements
  <1>4. ASSUME c \in ObjectEdits PROVE c \in Commands
    BY <1>1, <1>2, <1>4, CommandType DEF ObjectEdits
  <1>5. ASSUME c \in Transactions PROVE c \in Commands
    BY <1>1, <1>2, <1>5, CommandType DEF Transactions
  <1>6. ASSUME c \in AnnotationCommands PROVE c \in Commands
    BY <1>1, <1>2, <1>6, CommandType DEF AnnotationCommands
  <1>7. ASSUME c \in HistoryCommands PROVE c \in Commands
    BY <1>1, <1>2, <1>7, CommandType DEF HistoryCommands
  <1> QED
    BY <1>3, <1>4, <1>5, <1>6, <1>7 DEF Requests

LEMMA AdvanceType ==
  ASSUME NEW s \in Sessions, NEW tl \in Timelines, NEW c \in Commands
  PROVE  Advance(s, tl, c) \in Timelines
  <1>1. /\ tl.past \in Seq(Versions) /\ tl.future \in Seq(Versions)
        /\ Version(s.doc) \in Versions
    BY VersionType DEF Timelines, Sessions
  <1>2. FrontOf(tl.past) \in Seq(Versions) /\ FrontOf(tl.future) \in Seq(Versions)
    BY <1>1 DEF FrontOf
  <1>3. /\ Append(tl.past, Version(s.doc)) \in Seq(Versions)
        /\ Append(tl.future, Version(s.doc)) \in Seq(Versions)
        /\ <<>> \in Seq(Versions)
    BY <1>1
  <1>4. CASE c.op = "Undo"
    BY <1>2, <1>3, <1>4 DEF Advance, Timelines
  <1>5. CASE c.op = "Redo"
    BY <1>2, <1>3, <1>5 DEF Advance, Timelines
  <1>6. CASE c.op # "Undo" /\ c.op # "Redo"
    <2>1. (IF Coalesces(s, c) THEN tl.past ELSE Append(tl.past, Version(s.doc)))
             \in Seq(Versions)
      BY <1>1, <1>3
    <2> QED
      BY <1>3, <1>6, <2>1 DEF Advance, Timelines
  <1> QED
    BY <1>4, <1>5, <1>6

LEMMA ImportType ==
  ASSUME NEW page \in Pages, NEW content \in Imports[page]
  PROVE  content \in Versions /\ Valid(content)
  BY EditorSessionAssumption

LEMMA LoadPageType ==
  ASSUME NEW s \in Sessions, NEW page \in Pages, NEW content \in Versions
  PROVE  LoadPage(s, page, content) \in Sessions
  <1>1. Stamp(content, 0) \in Documents
    BY StampType, SessionAssumption DEF Revisions
  <1>2. Overlay(s.doc, OnPages({page}), Stamp(content, 0)) \in Documents
    BY <1>1, OverlayDocumentType DEF Sessions
  <1> QED
    BY <1>2 DEF LoadPage, Sessions

LEMMA OnTimelineType ==
  ASSUME NEW tl \in Timelines, NEW page \in Pages, NEW content \in Versions
  PROVE  OnTimeline(tl, page, content) \in Timelines
  <1>1. ASSUME NEW versions \in Seq(Versions)
        PROVE  [i \in DOMAIN versions |-> Overlay(versions[i], OnPages({page}), content)]
                 \in Seq(Versions)
    BY OverlayVersionType
  <1> QED
    BY <1>1 DEF OnTimeline, Timelines

LEMMA InitialDocumentType ==
  ASSUME NEW contents \in [FirstPages -> Versions]
  PROVE  InitialDocument(contents) \in Versions
  BY DEF InitialDocument, Versions

LEMMA CommitType ==
  ASSUME TypeOK, NEW c \in Commands, Accepts(session, c), Commit(c)
  PROVE  session' \in Sessions /\ timeline' \in Timelines
  BY ApplyEnvelopeType, AdvanceType DEF Commit, TypeOK

LEMMA PreparedForType ==
  ASSUME TypeOK, NEW c \in Commands, Accepts(session, c)
  PROVE  PreparedFor(c) \in PreparedCommands
  <1> DEFINE next    == ApplyEnvelope(session, c)
             changed == ChangedObjects(session.doc, next.doc)
  <1>1. /\ next \in Sessions
        /\ session.revision \in Revisions
        /\ Advance(session, timeline, c) \in Timelines
    BY ApplyEnvelopeType, AdvanceType DEF TypeOK, Sessions
  <1>2. /\ Part(session.doc, changed) \in Documents
        /\ Part(next.doc, changed) \in Documents
    BY <1>1, PartType DEF TypeOK, Sessions
  <1> QED
    BY <1>1, <1>2 DEF PreparedFor, PreparedCommands

LEMMA LoadType ==
  ASSUME TypeOK, NEW page \in Pages, NEW content \in Imports[page], Load(page, content)
  PROVE  TypeOK'
  BY ImportType, LoadPageType, OnTimelineType DEF Load, TypeOK

\* A preview's transaction is a command.
LEMMA PreviewCommandType ==
  ASSUME TypeOK, NEW id \in CommandIds, NEW preview \in Previews
  PROVE  PreviewCommand(id, session.revision, preview) \in Commands
  BY DEF PreviewCommand, Previews, Commands, TypeOK, Sessions, ChangeCommands

LEMMA CommitPreviewType ==
  ASSUME TypeOK, NEW id \in CommandIds, NEW preview \in Previews, CommitPreview(id, preview)
  PROVE  TypeOK'
  <1> DEFINE c == PreviewCommand(id, session.revision, preview)
  <1>1. c \in Commands
    BY PreviewCommandType
  <1>2. Accepts(session, c) /\ Commit(c) /\ UNCHANGED <<prepared, closed>>
    BY DEF CommitPreview
  <1> HIDE DEF c
  <1> QED
    BY <1>1, <1>2, CommitType DEF TypeOK

LEMMA TypeInit == Init => TypeOK
  <1> SUFFICES ASSUME Init PROVE TypeOK
    OBVIOUS
  <1>1. PICK contents \in [FirstPages -> Versions] :
          session = NewSession(FirstPages, Stamp(InitialDocument(contents), 0))
    BY DEF Init
  <1>2. 0 \in Revisions
    BY SessionAssumption DEF Revisions
  <1>3. Stamp(InitialDocument(contents), 0) \in Documents
    BY <1>2, InitialDocumentType, StampType
  <1>4. session \in Sessions
    BY <1>1, <1>2, <1>3, EditorSessionAssumption DEF NewSession, Sessions
  <1>5. timeline \in Timelines
    BY DEF Init, Timelines
  <1> QED
    BY <1>4, <1>5 DEF Init, TypeOK

LEMMA TypeKept == TypeOK /\ [Next]_vars => TypeOK'
  <1> SUFFICES ASSUME TypeOK, [Next]_vars PROVE TypeOK'
    OBVIOUS
  <1>1. CASE Submit
    <2>1. PICK c \in Requests : Commit(c)
      BY <1>1 DEF Submit
    <2> QED
      BY <1>1, <2>1, RequestType, CommitType DEF Submit, TypeOK
  <1>2. CASE Prepare
    <2>1. PICK c \in Requests : prepared' = prepared \cup {PreparedFor(c)}
      BY <1>2 DEF Prepare
    <2>2. PreparedFor(c) \in PreparedCommands
      BY RequestType, PreparedForType DEF TypeOK
    <2>3. prepared' \subseteq PreparedCommands
      BY <2>1, <2>2 DEF TypeOK
    <2> QED
      BY <1>2, <2>3 DEF Prepare, TypeOK
  <1>3. ASSUME NEW p \in prepared, Publish(p) PROVE TypeOK'
    BY <1>3 DEF Publish, TypeOK, PreparedCommands
  <1>4. ASSUME NEW p \in prepared, RefusePublish(p) PROVE TypeOK'
    BY <1>4 DEF RefusePublish, TypeOK
  <1>5. ASSUME NEW u \in TextValues, NEW v \in TextValues, PreviewReplaceAll(u, v)
        PROVE  TypeOK'
    <2> DEFINE matches == {o \in Objects : session.doc[o] # NoObject /\ session.doc[o].value = u}
               preview == [revision |-> session.revision, ids |-> matches,
                           values |-> Part(All(v), matches),
                           seen |-> Part(Version(session.doc), matches)]
    <2>1. /\ Part(All(v), matches) \in Versions
          /\ Part(Version(session.doc), matches) \in Versions
      BY AllType, VersionType, PartType DEF TypeOK, Sessions, Values
    <2>2. preview \in Previews
      BY <2>1 DEF Previews, TypeOK, Sessions
    <2>3. /\ session' = [session EXCEPT !.replacePreviews = @ \cup {preview}]
          /\ UNCHANGED <<prepared, closed, timeline>>
      BY <1>5 DEF PreviewReplaceAll
    <2> HIDE DEF preview
    <2> QED
      BY <2>2, <2>3 DEF TypeOK, Sessions
  <1>6. ASSUME NEW id \in CommandIds, NEW ids \in SUBSET Objects, NEW v \in TextValues,
               PreviewTransaction(id, ids, v)
        PROVE  TypeOK'
    <2> DEFINE c == Command("ApplyTransaction", id, ids, All(v), NoTyping)
               preview == [revision |-> session.revision, ids |-> ids,
                           values |-> c.values,
                           seen |-> Part(Version(session.doc), ids)]
    <2>1. /\ c.values \in Versions
          /\ Part(Version(session.doc), ids) \in Versions
      BY AllType, VersionType, PartType DEF TypeOK, Sessions, Values, Command
    <2> HIDE DEF c
    <2>2. preview \in Previews
      BY <2>1 DEF Previews, TypeOK, Sessions
    <2>3. /\ session' = [session EXCEPT !.toolPreviews = @ \cup {preview}]
          /\ UNCHANGED <<prepared, closed, timeline>>
      BY <1>6 DEF PreviewTransaction, c
    <2> HIDE DEF preview
    <2> QED
      BY <2>2, <2>3 DEF TypeOK, Sessions
  <1>7. CASE ApproveReplaceAll
    BY <1>7, CommitPreviewType DEF ApproveReplaceAll, TypeOK, Sessions
  <1>8. CASE CommitToolTransaction
    BY <1>8, CommitPreviewType DEF CommitToolTransaction, TypeOK, Sessions
  <1>9. ASSUME NEW page \in Pages, NEW content \in Imports[page],
               HydratePage(page, content) \/ HydrateLivePage(page, content)
        PROVE  TypeOK'
    BY <1>9, LoadType DEF HydratePage, HydrateLivePage
  <1>10. CASE Close
    BY <1>10 DEF Close, TypeOK
  <1>11. CASE UNCHANGED vars
    BY <1>11 DEF vars, TypeOK
  <1> QED
    BY <1>1, <1>2, <1>3, <1>4, <1>5, <1>6, <1>7, <1>8, <1>9, <1>10, <1>11 DEF Next

\* Every variable has its type, and so the revision never wraps.
THEOREM TypeCorrect == Spec => []TypeOK
  BY TypeInit, TypeKept, PTL DEF Spec

-----------------------------------------------------------------------------
(* The history describes the document                                      *)

\* What a command writes, seen as versions.
LEMMA EntryVersions ==
  ASSUME NEW s \in Sessions, NEW c \in Commands, s.revision < MaxRevision
  PROVE  /\ Entry(s, c).ids = c.ids
         /\ Version(Entry(s, c).before) = Part(Version(s.doc), c.ids)
         /\ Version(Entry(s, c).after) = Part(c.values, c.ids)
  <1>1. s.doc \in Documents /\ c.values \in Versions /\ s.revision + 1 \in Revisions
    BY SessionAssumption DEF Sessions, Commands, Revisions
  <1>2. Stamp(c.values, s.revision + 1) \in Documents
    BY <1>1, StampType
  <1> QED
    BY <1>1, <1>2, VersionOfPart, VersionOfStamp DEF Entry

\* A new entry links the version before the command to the one after it.
LEMMA NewEntryLinks ==
  ASSUME NEW s \in Sessions, NEW c \in Commands, s.revision < MaxRevision
  PROVE  LET e == Entry(s, c)
             newer == Overlay(Version(s.doc), c.ids, Version(e.after))
         IN  /\ Links(Version(s.doc), e, newer)
             /\ newer = Overlay(Version(s.doc), c.ids, c.values)
             /\ Version(Overlay(s.doc, c.ids, e.after)) = newer
  <1>1. Version(s.doc) \in Versions /\ c.values \in Versions
    BY VersionType DEF Sessions, Commands
  <1>2. Entry(s, c) \in HistoryEntries
    BY EntryType
  <1>3. Version(Overlay(s.doc, c.ids, Entry(s, c).after)) =
          Overlay(Version(s.doc), c.ids, Version(Entry(s, c).after))
    BY <1>2, VersionOfOverlay DEF HistoryEntries, Sessions
  <1>4. \A f, g \in Versions :
          /\ Overlay(f, c.ids, Part(g, c.ids)) = Overlay(f, c.ids, g)
          /\ Overlay(Overlay(f, c.ids, g), c.ids, Part(f, c.ids)) = f
    BY DEF Overlay, Part, Versions
  <1>5. Overlay(Version(s.doc), c.ids, Version(Entry(s, c).after)) =
          Overlay(Version(s.doc), c.ids, c.values)
    BY <1>1, <1>4, EntryVersions
  <1>6. Overlay(Overlay(Version(s.doc), c.ids, c.values), c.ids,
                Version(Entry(s, c).before)) = Version(s.doc)
    BY <1>1, <1>4, EntryVersions
  <1> QED
    BY <1>3, <1>5, <1>6, EntryVersions DEF Links

\* A coalesced entry still links the version before the typing run to the one
\* after the new keystroke.
LEMMA CoalescedEntryLinks ==
  ASSUME NEW older \in Versions, NEW middle \in Versions,
         NEW e \in HistoryEntries, NEW f \in HistoryEntries, NEW typing,
         Links(older, e, middle), f.ids = e.ids
  PROVE  Links(older, [e EXCEPT !.after = f.after, !.typing = typing],
               Overlay(middle, f.ids, Version(f.after)))
  <1> DEFINE g == [e EXCEPT !.after = f.after, !.typing = typing]
  <1>1. g.ids = e.ids /\ g.before = e.before /\ g.after = f.after
    BY DEF HistoryEntries
  <1> HIDE DEF g
  <1>2. Links(older, g, Overlay(middle, f.ids, Version(f.after)))
    BY <1>1 DEF Links, Overlay, Versions
  <1> QED
    BY <1>2 DEF g

\* Undoing an entry gives the older version, redoing it the newer one.
LEMMA RestoreGives ==
  ASSUME NEW doc \in Documents, NEW e \in HistoryEntries, NEW version \in Versions,
         NEW r \in Revisions
  PROVE  /\ Links(version, e, Version(doc)) =>
              Version(Overlay(doc, e.ids, Stamp(Version(e.before), r))) = version
         /\ Links(Version(doc), e, version) =>
              Version(Overlay(doc, e.ids, Stamp(Version(e.after), r))) = version
  <1>1. /\ Version(e.before) \in Versions /\ Version(e.after) \in Versions
    BY VersionType DEF HistoryEntries
  <1>2. /\ Stamp(Version(e.before), r) \in Documents
        /\ Stamp(Version(e.after), r) \in Documents
    BY <1>1, StampType
  <1>3. /\ Version(Overlay(doc, e.ids, Stamp(Version(e.before), r))) =
              Overlay(Version(doc), e.ids, Version(e.before))
        /\ Version(Overlay(doc, e.ids, Stamp(Version(e.after), r))) =
              Overlay(Version(doc), e.ids, Version(e.after))
    BY <1>1, <1>2, VersionOfOverlay, VersionOfStamp
  <1> QED
    BY <1>3 DEF Links

\* Loading content off the ids of an entry does not disturb its link.
LEMMA LinksAfterLoad ==
  ASSUME NEW older \in Versions, NEW newer \in Versions, NEW content \in Versions,
         NEW e \in HistoryEntries, NEW ids \in SUBSET Objects,
         Links(older, e, newer), e.ids \cap ids = {}
  PROVE  Links(Overlay(older, ids, content), e, Overlay(newer, ids, content))
  BY DEF Links, Overlay, Versions

\* Annotations quote text of their own page, so validity is decided page by
\* page: content that is valid in one document is valid in every valid one.
LEMMA ValidAfterLoad ==
  ASSUME NEW version \in Versions, NEW now \in Versions, NEW content \in Versions,
         NEW page \in Pages,
         Valid(version), Valid(Overlay(now, OnPages({page}), content))
  PROVE  Valid(Overlay(version, OnPages({page}), content))
  <1> DEFINE loaded == Overlay(version, OnPages({page}), content)
  <1> SUFFICES ASSUME NEW a \in Objects, loaded[a] \in AnnotationValues,
                      NEW t \in Targets[loaded[a]]
               PROVE  /\ PageOf[t] = PageOf[a]
                      /\ loaded[t] \in TextValues
                      /\ <<loaded[t], loaded[a]>> \in Quoted
    BY DEF Valid
  <1>1. t \in Objects
    BY SessionAssumption
  <1>2. CASE PageOf[a] = page
    <2>1. Overlay(now, OnPages({page}), content)[a] = loaded[a]
      BY <1>2 DEF Overlay, OnPages
    <2>2. /\ PageOf[t] = PageOf[a]
          /\ Overlay(now, OnPages({page}), content)[t] \in TextValues
          /\ <<Overlay(now, OnPages({page}), content)[t], loaded[a]>> \in Quoted
      BY <2>1 DEF Valid
    <2> QED
      BY <1>1, <1>2, <2>2 DEF Overlay, OnPages
  <1>3. CASE PageOf[a] # page
    <2>1. version[a] = loaded[a]
      BY <1>3 DEF Overlay, OnPages
    <2>2. /\ PageOf[t] = PageOf[a]
          /\ version[t] \in TextValues
          /\ <<version[t], loaded[a]>> \in Quoted
      BY <2>1 DEF Valid
    <2> QED
      BY <1>1, <1>3, <2>2 DEF Overlay, OnPages
  <1> QED
    BY <1>2, <1>3

\* An accepted change writes objects of loaded pages and leaves a valid version.
LEMMA ChangeChecks ==
  ASSUME NEW s \in Sessions, NEW c \in Commands, CanChange(s, c),
         c.op # "Undo", c.op # "Redo", OnLoadedPages(s)
  PROVE  /\ c.ids \subseteq OnPages(s.pages)
         /\ Valid(Overlay(Version(s.doc), c.ids, c.values))
  <1>1. Editable \subseteq Objects
    BY SessionAssumption
  <1>2. Valid(Overlay(Version(s.doc), c.ids, c.values))
    BY DEF CanChange
  <1>3. \A o \in Objects : s.doc[o] # NoObject => o \in OnPages(s.pages)
    BY DEF OnLoadedPages, OnPages
  <1>4. CASE c.op = "ReplaceTextRange"
    BY <1>1, <1>2, <1>3, <1>4 DEF CanChange
  <1>5. CASE c.op = "EditObject"
    BY <1>1, <1>2, <1>3, <1>5 DEF CanChange
  <1>6. CASE c.op = "UpdateAnnotation"
    BY <1>1, <1>2, <1>3, <1>6 DEF CanChange
  <1>7. CASE c.op = "ApplyTransaction"
    BY <1>1, <1>2, <1>3, <1>7 DEF CanChange
  <1>8. CASE c.op = "CreateAnnotation"
    BY <1>2, <1>8 DEF CanChange, OnPages
  <1>9. CASE c.op = "DeleteAnnotation"
    BY <1>2, <1>3, <1>9 DEF CanChange
  <1>10. CASE c.op = "CreateCheckpoint"
    BY <1>2, <1>10 DEF CanChange
  <1> QED
    BY <1>4, <1>5, <1>6, <1>7, <1>8, <1>9, <1>10 DEF Commands, ChangeCommands, ObjectCommands

\* The history still describes the document after a change.
LEMMA ChangeAgrees ==
  ASSUME NEW s \in Sessions, NEW tl \in Timelines, NEW c \in Commands,
         Agrees(s, tl), Accepts(s, c), c.op # "Undo", c.op # "Redo"
  PROVE  Agrees(ApplyEnvelope(s, c), Advance(s, tl, c))
  <1> DEFINE e == Entry(s, c)
             now == Version(s.doc)
             newer == Overlay(now, c.ids, c.values)
             merged == [LastOf(s.undo) EXCEPT !.after = e.after, !.typing = c.typing]
             t == ApplyEnvelope(s, c)
             tl2 == Advance(s, tl, c)
  <1>1. /\ s.revision < MaxRevision /\ CanChange(s, c)
        /\ s.revision \in Nat
    BY DEF Accepts, Sessions, Revisions
  <1>2. /\ t.doc = Overlay(s.doc, c.ids, e.after)
        /\ t.undo = IF Coalesces(s, c) THEN [s.undo EXCEPT ![Len(s.undo)] = merged]
                                      ELSE Append(s.undo, e)
        /\ t.redo = <<>>
        /\ t.pages = s.pages
        /\ t.revision = s.revision + 1
    BY DEF ApplyEnvelope, ApplyChange, Sessions
  <1>3. /\ tl2.past = IF Coalesces(s, c) THEN tl.past ELSE Append(tl.past, now)
        /\ tl2.future = <<>>
    BY DEF Advance
  <1>4. /\ e \in HistoryEntries /\ e.ids = c.ids
        /\ now \in Versions /\ newer \in Versions
        /\ s.undo \in Seq(HistoryEntries) /\ tl.past \in Seq(Versions)
        /\ s.doc \in Documents /\ e.after \in Documents
    <2>1. e \in HistoryEntries /\ e.ids = c.ids
      BY <1>1, EntryType, EntryVersions
    <2>2. now \in Versions /\ c.values \in Versions
      BY VersionType DEF Sessions, Commands
    <2> QED
      BY <2>1, <2>2, OverlayVersionType DEF Sessions, Timelines, HistoryEntries
  <1>5. /\ Links(now, e, newer)
        /\ newer = Overlay(now, c.ids, Version(e.after))
        /\ Version(t.doc) = newer
    BY <1>1, <1>2, NewEntryLinks
  <1>6. c.ids \subseteq OnPages(s.pages) /\ Valid(newer)
    BY <1>1, ChangeChecks DEF Agrees
  <1> HIDE DEF e, now, newer, t, tl2, merged
  <1>7. UndoLeadsBack(t, tl2)
    <2>1. CASE ~Coalesces(s, c)
      <3>1. t.undo = Append(s.undo, e) /\ tl2.past = Append(tl.past, now)
        BY <1>2, <1>3, <2>1
      <3>2. Len(tl.past) = Len(s.undo) /\ Len(s.undo) \in Nat
        BY <1>4 DEF Agrees, UndoLeadsBack
      <3>3. Len(t.undo) = Len(s.undo) + 1 /\ Len(tl2.past) = Len(s.undo) + 1
        BY <1>4, <3>1, <3>2
      <3>4. ASSUME NEW i \in 1 .. Len(t.undo)
            PROVE  Links(tl2.past[i], t.undo[i],
                         IF i < Len(t.undo) THEN tl2.past[i + 1] ELSE Version(t.doc))
        <4>1. CASE i < Len(s.undo)
          <5>1. Links(tl.past[i], s.undo[i], tl.past[i + 1])
            BY <3>2, <4>1 DEF Agrees, UndoLeadsBack
          <5>2. /\ tl2.past[i] = tl.past[i] /\ t.undo[i] = s.undo[i]
                /\ tl2.past[i + 1] = tl.past[i + 1]
            BY <1>4, <3>1, <3>2, <4>1
          <5> QED
            BY <3>3, <4>1, <5>1, <5>2
        <4>2. CASE i = Len(s.undo)
          <5>1. Links(tl.past[i], s.undo[i], now)
            BY <3>2, <3>3, <4>2 DEF Agrees, UndoLeadsBack, now
          <5>2. /\ tl2.past[i] = tl.past[i] /\ t.undo[i] = s.undo[i]
                /\ tl2.past[i + 1] = now
            BY <1>4, <3>1, <3>2, <4>2
          <5> QED
            BY <3>2, <3>3, <4>2, <5>1, <5>2
        <4>3. CASE i = Len(s.undo) + 1
          <5>1. tl2.past[i] = now /\ t.undo[i] = e
            BY <1>4, <3>1, <3>2, <4>3
          <5> QED
            BY <1>5, <3>2, <3>3, <4>3, <5>1
        <4> QED
          BY <3>2, <3>3, <4>1, <4>2, <4>3
      <3> QED
        BY <3>3, <3>4 DEF UndoLeadsBack
    <2>2. CASE Coalesces(s, c)
      <3>1. t.undo = [s.undo EXCEPT ![Len(s.undo)] = merged] /\ tl2.past = tl.past
        BY <1>2, <1>3, <2>2
      <3>2. /\ Len(tl.past) = Len(s.undo) /\ Len(s.undo) \in Nat /\ Len(s.undo) > 0
            /\ LastOf(s.undo).ids = c.ids
        BY <1>4, <2>2 DEF Agrees, UndoLeadsBack, Coalesces, CanCoalesce, e
      <3>3. Len(t.undo) = Len(s.undo) /\ t.undo[Len(s.undo)] = merged
        BY <1>4, <3>1, <3>2
      <3>4. ASSUME NEW i \in 1 .. Len(t.undo)
            PROVE  Links(tl2.past[i], t.undo[i],
                         IF i < Len(t.undo) THEN tl2.past[i + 1] ELSE Version(t.doc))
        <4>1. CASE i < Len(s.undo)
          <5>1. Links(tl.past[i], s.undo[i], tl.past[i + 1])
            BY <3>2, <4>1 DEF Agrees, UndoLeadsBack
          <5>2. t.undo[i] = s.undo[i]
            BY <1>4, <3>1, <3>2, <4>1
          <5> QED
            BY <3>1, <3>3, <4>1, <5>1, <5>2
        <4>2. CASE i = Len(s.undo)
          <5>1. Links(tl.past[i], LastOf(s.undo), now)
            BY <3>2, <3>3, <4>2 DEF Agrees, UndoLeadsBack, LastOf, now
          <5>2. tl.past[i] \in Versions /\ LastOf(s.undo) \in HistoryEntries
            BY <1>4, <3>2, <4>2 DEF LastOf
          <5>3. Links(tl.past[i], merged, Overlay(now, e.ids, Version(e.after)))
            BY <1>4, <3>2, <5>1, <5>2, CoalescedEntryLinks DEF merged
          <5> QED
            BY <1>4, <1>5, <3>1, <3>3, <4>2, <5>3
        <4> QED
          BY <3>2, <3>3, <4>1, <4>2
      <3> QED
        BY <3>1, <3>2, <3>3, <3>4 DEF UndoLeadsBack
    <2> QED
      BY <2>1, <2>2
  <1>8. RedoLeadsForward(t, tl2)
    BY <1>2, <1>3 DEF RedoLeadsForward
  <1>9. EveryVersionValid(t, tl2)
    <2>1. Valid(now) /\ \A i \in DOMAIN tl.past : Valid(tl.past[i])
      BY DEF Agrees, EveryVersionValid, now
    <2>2. \A i \in DOMAIN tl2.past : Valid(tl2.past[i])
      BY <1>3, <1>4, <2>1
    <2> QED
      BY <1>3, <1>5, <1>6, <2>2 DEF EveryVersionValid
  <1>10. OnLoadedPages(t)
    <2>1. ASSUME NEW o \in Objects, t.doc[o] # NoObject PROVE PageOf[o] \in t.pages
      <3>1. CASE o \in c.ids
        BY <1>2, <1>6, <3>1 DEF OnPages
      <3>2. CASE o \notin c.ids
        <4>1. s.doc[o] # NoObject
          BY <1>2, <2>1, <3>2 DEF Overlay
        <4> QED
          BY <1>2, <4>1 DEF Agrees, OnLoadedPages
      <3> QED
        BY <3>1, <3>2
    <2>2. ASSUME NEW i \in DOMAIN t.undo PROVE t.undo[i].ids \subseteq OnPages(t.pages)
      <3>1. \A j \in DOMAIN s.undo : s.undo[j].ids \subseteq OnPages(s.pages)
        BY DEF Agrees, OnLoadedPages
      <3>2. CASE ~Coalesces(s, c)
        BY <1>2, <1>4, <1>6, <2>2, <3>1, <3>2
      <3>3. CASE Coalesces(s, c)
        <4>1. s.undo # <<>> /\ LastOf(s.undo) \in HistoryEntries
          BY <1>4, <3>3, StackTypes DEF Coalesces, CanCoalesce
        <4>2. merged.ids = LastOf(s.undo).ids
          BY <4>1 DEF merged, HistoryEntries
        <4> QED
          BY <1>2, <1>4, <2>2, <3>1, <3>3, <4>1, <4>2 DEF LastOf
      <3> QED
        BY <3>2, <3>3
    <2> QED
      BY <1>1, <1>2, <2>1, <2>2 DEF OnLoadedPages
  <1> QED
    BY <1>7, <1>8, <1>9, <1>10 DEF Agrees, t, tl2

\* The history still describes the document after undo.
LEMMA UndoAgrees ==
  ASSUME NEW s \in Sessions, NEW tl \in Timelines, NEW c \in Commands,
         Agrees(s, tl), Accepts(s, c), c.op = "Undo"
  PROVE  Agrees(ApplyEnvelope(s, c), Advance(s, tl, c))
  <1> DEFINE e == LastOf(s.undo)
             now == Version(s.doc)
             t == ApplyEnvelope(s, c)
             tl2 == Advance(s, tl, c)
             restored == Stamp(Version(e.before), s.revision + 1)
  <1>1. /\ s.revision < MaxRevision /\ s.revision \in Nat /\ s.revision + 1 \in Revisions
        /\ s.undo # <<>>
    BY SessionAssumption DEF Accepts, CanUndo, Sessions, Revisions
  <1>2. /\ t.doc = Overlay(s.doc, e.ids, restored)
        /\ t.undo = FrontOf(s.undo)
        /\ t.redo = Append(s.redo, e)
        /\ t.pages = s.pages
        /\ t.revision = s.revision + 1
    BY DEF ApplyEnvelope, ApplyUndo, Sessions
  <1>3. tl2.past = FrontOf(tl.past) /\ tl2.future = Append(tl.future, now)
    BY DEF Advance
  <1>4. /\ s.undo \in Seq(HistoryEntries) /\ s.redo \in Seq(HistoryEntries)
        /\ tl.past \in Seq(Versions) /\ tl.future \in Seq(Versions)
        /\ s.doc \in Documents /\ now \in Versions
    BY VersionType DEF Sessions, Timelines
  <1>5. /\ Len(tl.past) = Len(s.undo) /\ Len(tl.future) = Len(s.redo)
        /\ Len(s.undo) \in Nat \ {0} /\ Len(s.redo) \in Nat
        /\ tl.past # <<>>
    BY <1>1, <1>4 DEF Agrees, UndoLeadsBack, RedoLeadsForward
  <1>6. /\ e \in HistoryEntries
        /\ FrontOf(s.undo) \in Seq(HistoryEntries)
        /\ Len(FrontOf(s.undo)) = Len(s.undo) - 1
        /\ \A i \in 1 .. Len(s.undo) - 1 : FrontOf(s.undo)[i] = s.undo[i]
        /\ FrontOf(tl.past) \in Seq(Versions)
        /\ Len(FrontOf(tl.past)) = Len(s.undo) - 1
        /\ \A i \in 1 .. Len(s.undo) - 1 : FrontOf(tl.past)[i] = tl.past[i]
        /\ LastOf(tl.past) \in Versions
    BY <1>1, <1>4, <1>5, StackTypes
  <1>7. Links(LastOf(tl.past), e, now)
    BY <1>5 DEF Agrees, UndoLeadsBack, LastOf
  <1>8. Version(t.doc) = LastOf(tl.past)
    BY <1>1, <1>2, <1>4, <1>6, <1>7, RestoreGives
  <1>9. restored \in Documents
    BY <1>1, <1>6, VersionType, StampType DEF HistoryEntries
  <1> HIDE DEF e, now, t, tl2, restored
  <1>10. UndoLeadsBack(t, tl2)
    <2>1. ASSUME NEW i \in 1 .. Len(t.undo)
          PROVE  Links(tl2.past[i], t.undo[i],
                       IF i < Len(t.undo) THEN tl2.past[i + 1] ELSE Version(t.doc))
      <3>1. i < Len(s.undo)
        BY <1>2, <1>5, <1>6
      <3>2. Links(tl.past[i], s.undo[i], tl.past[i + 1])
        BY <1>5, <3>1 DEF Agrees, UndoLeadsBack
      <3>3. /\ tl2.past[i] = tl.past[i] /\ t.undo[i] = s.undo[i]
        BY <1>2, <1>3, <1>5, <1>6, <3>1
      <3>4. CASE i < Len(s.undo) - 1
        <4>1. i + 1 \in 1 .. Len(s.undo) - 1 /\ i < Len(t.undo)
          BY <1>2, <1>5, <1>6, <3>4
        <4>2. tl2.past[i + 1] = tl.past[i + 1]
          BY <1>3, <1>6, <4>1
        <4> QED
          BY <3>2, <3>3, <4>1, <4>2
      <3>5. CASE i = Len(s.undo) - 1
        BY <1>2, <1>5, <1>6, <1>8, <3>2, <3>3, <3>5 DEF LastOf
      <3> QED
        BY <1>5, <3>1, <3>4, <3>5
    <2> QED
      BY <1>2, <1>3, <1>6, <2>1 DEF UndoLeadsBack
  <1>11. RedoLeadsForward(t, tl2)
    <2>1. Len(t.redo) = Len(s.redo) + 1 /\ Len(tl2.future) = Len(s.redo) + 1
      BY <1>2, <1>3, <1>4, <1>5
    <2>2. ASSUME NEW i \in 1 .. Len(t.redo)
          PROVE  Links(IF i < Len(t.redo) THEN tl2.future[i + 1] ELSE Version(t.doc),
                       t.redo[i], tl2.future[i])
      <3>1. CASE i < Len(s.redo)
        <4>1. Links(tl.future[i + 1], s.redo[i], tl.future[i])
          BY <1>5, <3>1 DEF Agrees, RedoLeadsForward
        <4>2. /\ tl2.future[i] = tl.future[i] /\ t.redo[i] = s.redo[i]
              /\ tl2.future[i + 1] = tl.future[i + 1]
          BY <1>2, <1>3, <1>4, <1>5, <3>1
        <4> QED
          BY <1>5, <2>1, <3>1, <4>1, <4>2
      <3>2. CASE i = Len(s.redo)
        <4>1. Links(now, s.redo[i], tl.future[i])
          BY <1>5, <2>1, <3>2 DEF Agrees, RedoLeadsForward, now
        <4>2. /\ tl2.future[i] = tl.future[i] /\ t.redo[i] = s.redo[i]
              /\ tl2.future[i + 1] = now
          BY <1>2, <1>3, <1>4, <1>5, <3>2
        <4> QED
          BY <1>5, <2>1, <3>2, <4>1, <4>2
      <3>3. CASE i = Len(s.redo) + 1
        <4>1. tl2.future[i] = now /\ t.redo[i] = e
          BY <1>2, <1>3, <1>4, <1>5, <3>3
        <4> QED
          BY <1>5, <1>7, <1>8, <2>1, <3>3, <4>1 DEF now
      <3> QED
        BY <1>5, <2>1, <3>1, <3>2, <3>3
    <2> QED
      BY <1>5, <2>1, <2>2 DEF RedoLeadsForward
  <1>12. EveryVersionValid(t, tl2)
    <2>1. /\ Valid(now)
          /\ \A i \in DOMAIN tl.past : Valid(tl.past[i])
          /\ \A i \in DOMAIN tl.future : Valid(tl.future[i])
      BY DEF Agrees, EveryVersionValid, now
    <2>2. \A i \in DOMAIN tl2.past : Valid(tl2.past[i])
      BY <1>3, <1>4, <1>5, <1>6, <2>1
    <2>3. \A i \in DOMAIN tl2.future : Valid(tl2.future[i])
      BY <1>3, <1>4, <2>1
    <2>4. Valid(Version(t.doc))
      BY <1>4, <1>5, <1>8, <2>1 DEF LastOf
    <2> QED
      BY <2>2, <2>3, <2>4 DEF EveryVersionValid
  <1>13. OnLoadedPages(t)
    <2>1. /\ \A i \in DOMAIN s.undo : s.undo[i].ids \subseteq OnPages(s.pages)
          /\ \A i \in DOMAIN s.redo : s.redo[i].ids \subseteq OnPages(s.pages)
      BY DEF Agrees, OnLoadedPages
    <2>2. e.ids \subseteq OnPages(s.pages)
      BY <1>4, <1>5, <2>1 DEF e, LastOf
    <2>3. ASSUME NEW o \in Objects, t.doc[o] # NoObject PROVE PageOf[o] \in t.pages
      <3>1. CASE o \in e.ids
        BY <1>2, <2>2, <3>1 DEF OnPages
      <3>2. CASE o \notin e.ids
        <4>1. s.doc[o] # NoObject
          BY <1>2, <2>3, <3>2 DEF Overlay
        <4> QED
          BY <1>2, <4>1 DEF Agrees, OnLoadedPages
      <3> QED
        BY <3>1, <3>2
    <2>4. \A i \in DOMAIN t.undo : t.undo[i].ids \subseteq OnPages(t.pages)
      BY <1>2, <1>4, <1>5, <1>6, <2>1
    <2>5. \A i \in DOMAIN t.redo : t.redo[i].ids \subseteq OnPages(t.pages)
      BY <1>2, <1>4, <1>6, <2>1, <2>2
    <2> QED
      BY <1>1, <1>2, <2>3, <2>4, <2>5 DEF OnLoadedPages
  <1> QED
    BY <1>10, <1>11, <1>12, <1>13 DEF Agrees, t, tl2


\* The history still describes the document after redo.
LEMMA RedoAgrees ==
  ASSUME NEW s \in Sessions, NEW tl \in Timelines, NEW c \in Commands,
         Agrees(s, tl), Accepts(s, c), c.op = "Redo"
  PROVE  Agrees(ApplyEnvelope(s, c), Advance(s, tl, c))
  <1> DEFINE e == LastOf(s.redo)
             now == Version(s.doc)
             t == ApplyEnvelope(s, c)
             tl2 == Advance(s, tl, c)
             restored == Stamp(Version(e.after), s.revision + 1)
  <1>1. /\ s.revision < MaxRevision /\ s.revision \in Nat /\ s.revision + 1 \in Revisions
        /\ s.redo # <<>>
    BY SessionAssumption DEF Accepts, CanRedo, Sessions, Revisions
  <1>2. /\ t.doc = Overlay(s.doc, e.ids, restored)
        /\ t.redo = FrontOf(s.redo)
        /\ t.undo = Append(s.undo, e)
        /\ t.pages = s.pages
        /\ t.revision = s.revision + 1
    BY DEF ApplyEnvelope, ApplyRedo, Sessions
  <1>3. tl2.future = FrontOf(tl.future) /\ tl2.past = Append(tl.past, now)
    BY DEF Advance
  <1>4. /\ s.redo \in Seq(HistoryEntries) /\ s.undo \in Seq(HistoryEntries)
        /\ tl.future \in Seq(Versions) /\ tl.past \in Seq(Versions)
        /\ s.doc \in Documents /\ now \in Versions
    BY VersionType DEF Sessions, Timelines
  <1>5. /\ Len(tl.future) = Len(s.redo) /\ Len(tl.past) = Len(s.undo)
        /\ Len(s.redo) \in Nat \ {0} /\ Len(s.undo) \in Nat
        /\ tl.future # <<>>
    BY <1>1, <1>4 DEF Agrees, UndoLeadsBack, RedoLeadsForward
  <1>6. /\ e \in HistoryEntries
        /\ FrontOf(s.redo) \in Seq(HistoryEntries)
        /\ Len(FrontOf(s.redo)) = Len(s.redo) - 1
        /\ \A i \in 1 .. Len(s.redo) - 1 : FrontOf(s.redo)[i] = s.redo[i]
        /\ FrontOf(tl.future) \in Seq(Versions)
        /\ Len(FrontOf(tl.future)) = Len(s.redo) - 1
        /\ \A i \in 1 .. Len(s.redo) - 1 : FrontOf(tl.future)[i] = tl.future[i]
        /\ LastOf(tl.future) \in Versions
    BY <1>1, <1>4, <1>5, StackTypes
  <1>7. Links(now, e, LastOf(tl.future))
    BY <1>5 DEF Agrees, RedoLeadsForward, LastOf
  <1>8. Version(t.doc) = LastOf(tl.future)
    BY <1>1, <1>2, <1>4, <1>6, <1>7, RestoreGives
  <1>9. restored \in Documents
    BY <1>1, <1>6, VersionType, StampType DEF HistoryEntries
  <1> HIDE DEF e, now, t, tl2, restored
  <1>10. RedoLeadsForward(t, tl2)
    <2>1. ASSUME NEW i \in 1 .. Len(t.redo)
          PROVE  Links(IF i < Len(t.redo) THEN tl2.future[i + 1] ELSE Version(t.doc),
                       t.redo[i], tl2.future[i])
      <3>1. i < Len(s.redo)
        BY <1>2, <1>5, <1>6
      <3>2. Links(tl.future[i + 1], s.redo[i], tl.future[i])
        BY <1>5, <3>1 DEF Agrees, RedoLeadsForward
      <3>3. /\ tl2.future[i] = tl.future[i] /\ t.redo[i] = s.redo[i]
        BY <1>2, <1>3, <1>5, <1>6, <3>1
      <3>4. CASE i < Len(s.redo) - 1
        <4>1. i + 1 \in 1 .. Len(s.redo) - 1 /\ i < Len(t.redo)
          BY <1>2, <1>5, <1>6, <3>4
        <4>2. tl2.future[i + 1] = tl.future[i + 1]
          BY <1>3, <1>6, <4>1
        <4> QED
          BY <3>2, <3>3, <4>1, <4>2
      <3>5. CASE i = Len(s.redo) - 1
        BY <1>2, <1>5, <1>6, <1>8, <3>2, <3>3, <3>5 DEF LastOf
      <3> QED
        BY <1>5, <3>1, <3>4, <3>5
    <2> QED
      BY <1>2, <1>3, <1>6, <2>1 DEF RedoLeadsForward
  <1>11. UndoLeadsBack(t, tl2)
    <2>1. Len(t.undo) = Len(s.undo) + 1 /\ Len(tl2.past) = Len(s.undo) + 1
      BY <1>2, <1>3, <1>4, <1>5
    <2>2. ASSUME NEW i \in 1 .. Len(t.undo)
          PROVE  Links(tl2.past[i], t.undo[i],
                       IF i < Len(t.undo) THEN tl2.past[i + 1] ELSE Version(t.doc))
      <3>1. CASE i < Len(s.undo)
        <4>1. Links(tl.past[i], s.undo[i], tl.past[i + 1])
          BY <1>5, <3>1 DEF Agrees, UndoLeadsBack
        <4>2. /\ tl2.past[i] = tl.past[i] /\ t.undo[i] = s.undo[i]
              /\ tl2.past[i + 1] = tl.past[i + 1]
          BY <1>2, <1>3, <1>4, <1>5, <3>1
        <4> QED
          BY <1>5, <2>1, <3>1, <4>1, <4>2
      <3>2. CASE i = Len(s.undo)
        <4>1. Links(tl.past[i], s.undo[i], now)
          BY <1>5, <2>1, <3>2 DEF Agrees, UndoLeadsBack, now
        <4>2. /\ tl2.past[i] = tl.past[i] /\ t.undo[i] = s.undo[i]
              /\ tl2.past[i + 1] = now
          BY <1>2, <1>3, <1>4, <1>5, <3>2
        <4> QED
          BY <1>5, <2>1, <3>2, <4>1, <4>2
      <3>3. CASE i = Len(s.undo) + 1
        <4>1. tl2.past[i] = now /\ t.undo[i] = e
          BY <1>2, <1>3, <1>4, <1>5, <3>3
        <4> QED
          BY <1>5, <1>7, <1>8, <2>1, <3>3, <4>1 DEF now
      <3> QED
        BY <1>5, <2>1, <3>1, <3>2, <3>3
    <2> QED
      BY <1>5, <2>1, <2>2 DEF UndoLeadsBack
  <1>12. EveryVersionValid(t, tl2)
    <2>1. /\ Valid(now)
          /\ \A i \in DOMAIN tl.past : Valid(tl.past[i])
          /\ \A i \in DOMAIN tl.future : Valid(tl.future[i])
      BY DEF Agrees, EveryVersionValid, now
    <2>2. \A i \in DOMAIN tl2.future : Valid(tl2.future[i])
      BY <1>3, <1>4, <1>5, <1>6, <2>1
    <2>3. \A i \in DOMAIN tl2.past : Valid(tl2.past[i])
      BY <1>3, <1>4, <2>1
    <2>4. Valid(Version(t.doc))
      BY <1>4, <1>5, <1>8, <2>1 DEF LastOf
    <2> QED
      BY <2>2, <2>3, <2>4 DEF EveryVersionValid
  <1>13. OnLoadedPages(t)
    <2>1. /\ \A i \in DOMAIN s.redo : s.redo[i].ids \subseteq OnPages(s.pages)
          /\ \A i \in DOMAIN s.undo : s.undo[i].ids \subseteq OnPages(s.pages)
      BY DEF Agrees, OnLoadedPages
    <2>2. e.ids \subseteq OnPages(s.pages)
      BY <1>4, <1>5, <2>1 DEF e, LastOf
    <2>3. ASSUME NEW o \in Objects, t.doc[o] # NoObject PROVE PageOf[o] \in t.pages
      <3>1. CASE o \in e.ids
        BY <1>2, <2>2, <3>1 DEF OnPages
      <3>2. CASE o \notin e.ids
        <4>1. s.doc[o] # NoObject
          BY <1>2, <2>3, <3>2 DEF Overlay
        <4> QED
          BY <1>2, <4>1 DEF Agrees, OnLoadedPages
      <3> QED
        BY <3>1, <3>2
    <2>4. \A i \in DOMAIN t.redo : t.redo[i].ids \subseteq OnPages(t.pages)
      BY <1>2, <1>4, <1>5, <1>6, <2>1
    <2>5. \A i \in DOMAIN t.undo : t.undo[i].ids \subseteq OnPages(t.pages)
      BY <1>2, <1>4, <1>6, <2>1, <2>2
    <2> QED
      BY <1>1, <1>2, <2>3, <2>4, <2>5 DEF OnLoadedPages
  <1> QED
    BY <1>10, <1>11, <1>12, <1>13 DEF Agrees, t, tl2

LEMMA EnvelopeAgrees ==
  ASSUME NEW s \in Sessions, NEW tl \in Timelines, NEW c \in Commands,
         Agrees(s, tl), Accepts(s, c)
  PROVE  Agrees(ApplyEnvelope(s, c), Advance(s, tl, c))
  BY ChangeAgrees, UndoAgrees, RedoAgrees

\* Loading a page joins every version and disturbs no entry: either nothing on
\* the page was edited yet, or nothing at all was.
LEMMA LoadAgrees ==
  ASSUME NEW s \in Sessions, NEW tl \in Timelines, NEW page \in Pages,
         NEW content \in Versions, Agrees(s, tl), CanHydrateLive(s, page, content),
         \A o \in Objects : content[o] # NoObject => PageOf[o] = page
  PROVE  Agrees(LoadPage(s, page, content), OnTimeline(tl, page, content))
  <1> DEFINE ids == OnPages({page})
             t == LoadPage(s, page, content)
             tl2 == OnTimeline(tl, page, content)
             now == Version(s.doc)
  <1>1. /\ t.doc = Overlay(s.doc, ids, Stamp(content, 0))
        /\ t.undo = s.undo /\ t.redo = s.redo /\ t.revision = s.revision
        /\ t.pages = s.pages \cup {page}
    BY DEF LoadPage, Sessions
  <1>2. /\ tl2.past = [i \in DOMAIN tl.past |-> Overlay(tl.past[i], ids, content)]
        /\ tl2.future = [i \in DOMAIN tl.future |-> Overlay(tl.future[i], ids, content)]
    BY DEF OnTimeline
  <1>3. /\ s.undo \in Seq(HistoryEntries) /\ s.redo \in Seq(HistoryEntries)
        /\ tl.past \in Seq(Versions) /\ tl.future \in Seq(Versions)
        /\ now \in Versions /\ s.doc \in Documents
        /\ ids \in SUBSET Objects
    BY VersionType DEF Sessions, Timelines, OnPages
  <1>4. /\ Version(t.doc) = Overlay(now, ids, content)
        /\ Valid(Overlay(now, ids, content))
    <2>1. 0 \in Revisions
      BY SessionAssumption DEF Revisions
    <2>2. Stamp(content, 0) \in Documents /\ Version(Stamp(content, 0)) = content
      BY <2>1, StampType, VersionOfStamp
    <2>3. Version(t.doc) = Overlay(now, ids, content)
      BY <1>1, <1>3, <2>2, VersionOfOverlay
    <2> QED
      BY <2>3 DEF CanHydrateLive
  <1>5. /\ Len(tl.past) = Len(s.undo) /\ Len(tl.future) = Len(s.redo)
        /\ Len(s.undo) \in Nat /\ Len(s.redo) \in Nat
        /\ Len(tl2.past) = Len(s.undo) /\ Len(tl2.future) = Len(s.redo)
    BY <1>2, <1>3 DEF Agrees, UndoLeadsBack, RedoLeadsForward
  <1>6. /\ \A i \in 1 .. Len(s.undo) : s.undo[i].ids \cap ids = {}
        /\ \A i \in 1 .. Len(s.redo) : s.redo[i].ids \cap ids = {}
    <2>1. CASE page \notin s.pages
      BY <1>3, <2>1 DEF Agrees, OnLoadedPages, OnPages
    <2>2. CASE s.revision = 0
      BY <1>3, <2>2 DEF Agrees, OnLoadedPages
    <2> QED
      BY <2>1, <2>2 DEF CanHydrateLive
  <1> HIDE DEF ids, t, tl2
  <1>7. UndoLeadsBack(t, tl2)
    <2>1. ASSUME NEW i \in 1 .. Len(s.undo)
          PROVE  Links(tl2.past[i], s.undo[i],
                       IF i < Len(s.undo) THEN tl2.past[i + 1] ELSE Version(t.doc))
      <3> DEFINE newer == IF i < Len(s.undo) THEN tl.past[i + 1] ELSE now
      <3>1. Links(tl.past[i], s.undo[i], newer)
        BY DEF Agrees, UndoLeadsBack
      <3>2. tl.past[i] \in Versions /\ newer \in Versions /\ s.undo[i] \in HistoryEntries
        BY <1>3, <1>5
      <3>3. Links(Overlay(tl.past[i], ids, content), s.undo[i], Overlay(newer, ids, content))
        BY <1>3, <1>6, <3>1, <3>2, LinksAfterLoad
      <3>4. /\ tl2.past[i] = Overlay(tl.past[i], ids, content)
            /\ i < Len(s.undo) => tl2.past[i + 1] = Overlay(tl.past[i + 1], ids, content)
        BY <1>2, <1>3, <1>5
      <3> QED
        BY <1>4, <3>3, <3>4
    <2> QED
      BY <1>1, <1>5, <2>1 DEF UndoLeadsBack
  <1>8. RedoLeadsForward(t, tl2)
    <2>1. ASSUME NEW i \in 1 .. Len(s.redo)
          PROVE  Links(IF i < Len(s.redo) THEN tl2.future[i + 1] ELSE Version(t.doc),
                       s.redo[i], tl2.future[i])
      <3> DEFINE older == IF i < Len(s.redo) THEN tl.future[i + 1] ELSE now
      <3>1. Links(older, s.redo[i], tl.future[i])
        BY DEF Agrees, RedoLeadsForward
      <3>2. tl.future[i] \in Versions /\ older \in Versions /\ s.redo[i] \in HistoryEntries
        BY <1>3, <1>5
      <3>3. Links(Overlay(older, ids, content), s.redo[i], Overlay(tl.future[i], ids, content))
        BY <1>3, <1>6, <3>1, <3>2, LinksAfterLoad
      <3>4. /\ tl2.future[i] = Overlay(tl.future[i], ids, content)
            /\ i < Len(s.redo) => tl2.future[i + 1] = Overlay(tl.future[i + 1], ids, content)
        BY <1>2, <1>3, <1>5
      <3> QED
        BY <1>4, <3>3, <3>4
    <2> QED
      BY <1>1, <1>5, <2>1 DEF RedoLeadsForward
  <1>9. EveryVersionValid(t, tl2)
    <2>1. \A i \in DOMAIN tl.past : Valid(Overlay(tl.past[i], ids, content))
      BY <1>3, <1>4, ValidAfterLoad DEF Agrees, EveryVersionValid, ids
    <2>2. \A i \in DOMAIN tl.future : Valid(Overlay(tl.future[i], ids, content))
      BY <1>3, <1>4, ValidAfterLoad DEF Agrees, EveryVersionValid, ids
    <2> QED
      BY <1>2, <1>4, <2>1, <2>2 DEF EveryVersionValid
  <1>10. OnLoadedPages(t)
    <2>1. ASSUME NEW o \in Objects, t.doc[o] # NoObject PROVE PageOf[o] \in t.pages
      <3>1. CASE o \in ids
        BY <1>1, <3>1 DEF ids, OnPages
      <3>2. CASE o \notin ids
        BY <1>1, <2>1, <3>2 DEF Overlay, Agrees, OnLoadedPages
      <3> QED
        BY <3>1, <3>2
    <2>2. OnPages(s.pages) \subseteq OnPages(t.pages)
      BY <1>1 DEF OnPages
    <2> QED
      BY <1>1, <2>1, <2>2 DEF Agrees, OnLoadedPages
  <1> QED
    BY <1>7, <1>8, <1>9, <1>10 DEF Agrees, t, tl2

\* Changing previews changes nothing the history is about.
LEMMA PreviewsAgree ==
  ASSUME NEW s \in Sessions, NEW tl \in Timelines, Agrees(s, tl), NEW previews
  PROVE  /\ Agrees([s EXCEPT !.replacePreviews = previews], tl)
         /\ Agrees([s EXCEPT !.toolPreviews = previews], tl)
  BY DEF Sessions, Agrees, UndoLeadsBack, RedoLeadsForward, EveryVersionValid, OnLoadedPages

LEMMA CommitAgrees ==
  ASSUME TypeOK, HistoryAgreesWithDocument, NEW c \in Commands, Accepts(session, c),
         Commit(c), UNCHANGED prepared
  PROVE  HistoryAgreesWithDocument'
  BY EnvelopeAgrees DEF TypeOK, HistoryAgreesWithDocument, Commit

LEMMA HistoryInit == Init => HistoryAgreesWithDocument
  <1> SUFFICES ASSUME Init PROVE HistoryAgreesWithDocument
    OBVIOUS
  <1>1. PICK contents \in [FirstPages -> Versions] :
          /\ \A p \in FirstPages : contents[p] \in Imports[p]
          /\ session = NewSession(FirstPages, Stamp(InitialDocument(contents), 0))
    BY DEF Init
  <1> DEFINE first == InitialDocument(contents)
  <1>2. first \in Versions /\ Version(Stamp(first, 0)) = first /\ 0 \in Revisions
    BY InitialDocumentType, VersionOfStamp, SessionAssumption DEF Revisions
  <1>3. /\ session.doc = Stamp(first, 0) /\ session.undo = <<>> /\ session.redo = <<>>
        /\ session.pages = FirstPages
        /\ timeline.past = <<>> /\ timeline.future = <<>>
    BY <1>1 DEF NewSession, Init
  <1>4. Valid(first)
    <2> SUFFICES ASSUME NEW a \in Objects, first[a] \in AnnotationValues,
                        NEW t \in Targets[first[a]]
                 PROVE  /\ PageOf[t] = PageOf[a]
                        /\ first[t] \in TextValues
                        /\ <<first[t], first[a]>> \in Quoted
      BY DEF Valid
    <2>1. PageOf[a] \in FirstPages /\ first[a] = contents[PageOf[a]][a]
      <3>1. AnnotationValues \subseteq Values /\ NoObject \notin Values
        BY SessionAssumption DEF Values
      <3> QED
        BY <3>1 DEF InitialDocument
    <2>2. Valid(contents[PageOf[a]])
      BY <1>1, <2>1, EditorSessionAssumption
    <2>3. t \in Objects
      BY SessionAssumption
    <2>4. /\ PageOf[t] = PageOf[a]
          /\ contents[PageOf[a]][t] \in TextValues
          /\ <<contents[PageOf[a]][t], first[a]>> \in Quoted
      BY <2>1, <2>2 DEF Valid
    <2>5. first[t] = contents[PageOf[a]][t]
      BY <2>1, <2>3, <2>4 DEF InitialDocument
    <2> QED
      BY <2>4, <2>5
  <1>5. \A o \in Objects : session.doc[o] # NoObject => PageOf[o] \in session.pages
    BY <1>3 DEF Stamp, InitialDocument
  <1> HIDE DEF first
  <1>6. Agrees(session, timeline)
    BY <1>2, <1>3, <1>4, <1>5
       DEF Agrees, UndoLeadsBack, RedoLeadsForward, EveryVersionValid, OnLoadedPages
  <1> QED
    BY <1>6 DEF Init, HistoryAgreesWithDocument

LEMMA HistoryKept ==
  TypeOK /\ HistoryAgreesWithDocument /\ [Next]_vars => HistoryAgreesWithDocument'
  <1> SUFFICES ASSUME TypeOK, HistoryAgreesWithDocument, [Next]_vars
               PROVE  HistoryAgreesWithDocument'
    OBVIOUS
  <1>1. CASE Submit
    <2>1. PICK c \in Requests : Commit(c)
      BY <1>1 DEF Submit
    <2> QED
      BY <1>1, <2>1, RequestType, CommitAgrees DEF Submit
  <1>2. CASE Prepare
    <2>1. PICK c \in Requests : prepared' = prepared \cup {PreparedFor(c)}
      BY <1>2 DEF Prepare
    <2>2. Agrees(ApplyEnvelope(session, c), Advance(session, timeline, c))
      BY RequestType, EnvelopeAgrees DEF TypeOK, HistoryAgreesWithDocument
    <2> QED
      BY <1>2, <2>1, <2>2 DEF Prepare, PreparedFor, HistoryAgreesWithDocument
  <1>3. ASSUME NEW p \in prepared, Publish(p) PROVE HistoryAgreesWithDocument'
    BY <1>3 DEF Publish, HistoryAgreesWithDocument
  <1>4. ASSUME NEW p \in prepared, RefusePublish(p) PROVE HistoryAgreesWithDocument'
    BY <1>4 DEF RefusePublish, HistoryAgreesWithDocument
  <1>5. ASSUME NEW u \in TextValues, NEW v \in TextValues, PreviewReplaceAll(u, v)
        PROVE  HistoryAgreesWithDocument'
    <2>1. /\ \E previews : session' = [session EXCEPT !.replacePreviews = previews]
          /\ UNCHANGED <<prepared, timeline>>
      BY <1>5 DEF PreviewReplaceAll
    <2> QED
      BY <2>1, PreviewsAgree DEF TypeOK, HistoryAgreesWithDocument
  <1>6. ASSUME NEW id \in CommandIds, NEW ids \in SUBSET Objects, NEW v \in TextValues,
               PreviewTransaction(id, ids, v)
        PROVE  HistoryAgreesWithDocument'
    <2>1. /\ \E previews : session' = [session EXCEPT !.toolPreviews = previews]
          /\ UNCHANGED <<prepared, timeline>>
      BY <1>6 DEF PreviewTransaction
    <2> QED
      BY <2>1, PreviewsAgree DEF TypeOK, HistoryAgreesWithDocument
  <1>7. ASSUME NEW id \in CommandIds, NEW preview \in Previews, CommitPreview(id, preview)
        PROVE  HistoryAgreesWithDocument'
    <2> DEFINE c == PreviewCommand(id, session.revision, preview)
    <2>1. c \in Commands
      BY PreviewCommandType
    <2>2. Accepts(session, c) /\ Commit(c) /\ UNCHANGED prepared
      BY <1>7 DEF CommitPreview
    <2> HIDE DEF c
    <2> QED
      BY <2>1, <2>2, CommitAgrees
  <1>8. CASE ApproveReplaceAll
    BY <1>7, <1>8 DEF ApproveReplaceAll, TypeOK, Sessions
  <1>9. CASE CommitToolTransaction
    BY <1>7, <1>9 DEF CommitToolTransaction, TypeOK, Sessions
  <1>10. ASSUME NEW page \in Pages, NEW content \in Imports[page],
                HydratePage(page, content) \/ HydrateLivePage(page, content)
         PROVE  HistoryAgreesWithDocument'
    <2>1. CanHydrateLive(session, page, content) /\ Load(page, content)
      BY <1>10 DEF HydratePage, HydrateLivePage, CanHydrate, CanHydrateLive
    <2>2. content \in Versions /\ \A o \in Objects : content[o] # NoObject => PageOf[o] = page
      BY EditorSessionAssumption
    <2> QED
      BY <2>1, <2>2, LoadAgrees DEF Load, TypeOK, HistoryAgreesWithDocument
  <1>11. CASE Close
    BY <1>11 DEF Close, HistoryAgreesWithDocument
  <1>12. CASE UNCHANGED vars
    BY <1>12 DEF vars, HistoryAgreesWithDocument
  <1> QED
    BY <1>1, <1>2, <1>3, <1>4, <1>5, <1>6, <1>8, <1>9, <1>10, <1>11, <1>12 DEF Next

\* The stacks of undo and redo describe the document in every reachable state.
THEOREM HistoryAgrees == Spec => []HistoryAgreesWithDocument
  BY HistoryInit, HistoryKept, TypeCorrect, PTL DEF Spec

-----------------------------------------------------------------------------
(* What follows from it                                                    *)

LEMMA AbsentInVersion ==
  ASSUME NEW doc \in Documents, NEW o \in Objects
  PROVE  (Version(doc)[o] = NoObject) <=> (doc[o] = NoObject)
  <1>1. doc[o] # NoObject => doc[o].value \in Values
    BY DEF Documents, ObjectRecords
  <1> QED
    BY <1>1, SessionAssumption DEF Version

\* An entry that links two valid versions can be restored from either of them.
LEMMA LinkedCanRestore ==
  ASSUME NEW s \in Sessions, NEW entry \in HistoryEntries, NEW version \in Versions,
         Valid(version), entry.ids \subseteq OnPages(s.pages)
  PROVE  /\ Links(version, entry, Version(s.doc)) =>
              CanRestore(s, entry, entry.after, entry.before)
         /\ Links(Version(s.doc), entry, version) =>
              CanRestore(s, entry, entry.before, entry.after)
  <1>1. s.doc \in Documents /\ entry.before \in Documents /\ entry.after \in Documents
        /\ entry.ids \subseteq Objects
    BY DEF Sessions, HistoryEntries
  <1>2. \A o \in entry.ids : o \in Objects /\ PageOf[o] \in s.pages
    BY <1>1 DEF OnPages
  <1>3. ASSUME Links(version, entry, Version(s.doc))
        PROVE  CanRestore(s, entry, entry.after, entry.before)
    <2>1. \A o \in entry.ids : Version(s.doc)[o] = Version(entry.after)[o]
      BY <1>1, <1>3 DEF Links, Overlay
    <2>2. Overlay(Version(s.doc), entry.ids, Version(entry.before)) = version
      BY <1>3 DEF Links
    <2> QED
      BY <1>1, <1>2, <2>1, <2>2, AbsentInVersion DEF CanRestore
  <1>4. ASSUME Links(Version(s.doc), entry, version)
        PROVE  CanRestore(s, entry, entry.before, entry.after)
    <2>1. \A o \in entry.ids : Version(s.doc)[o] = Version(entry.before)[o]
      BY <1>1, <1>4 DEF Links, Overlay
    <2>2. Overlay(Version(s.doc), entry.ids, Version(entry.after)) = version
      BY <1>4 DEF Links
    <2> QED
      BY <1>1, <1>2, <2>1, <2>2, AbsentInVersion DEF CanRestore
  <1> QED
    BY <1>3, <1>4

\* Undo and redo never fail while there is something to undo or redo.
THEOREM UndoRedoApply == Spec => []UndoRedoAlwaysApply
  <1>1. TypeOK /\ HistoryAgreesWithDocument => UndoRedoAlwaysApply
    <2> SUFFICES ASSUME TypeOK, HistoryAgreesWithDocument
                 PROVE  UndoRedoAlwaysApply
      OBVIOUS
    <2>1. /\ session \in Sessions /\ timeline \in Timelines /\ Agrees(session, timeline)
          /\ session.undo \in Seq(HistoryEntries) /\ session.redo \in Seq(HistoryEntries)
          /\ timeline.past \in Seq(Versions) /\ timeline.future \in Seq(Versions)
      BY DEF TypeOK, HistoryAgreesWithDocument, Sessions, Timelines
    <2>2. ASSUME session.undo # <<>> PROVE CanUndo(session)
      <3> DEFINE n == Len(session.undo)
      <3>1. n \in DOMAIN session.undo /\ n \in DOMAIN timeline.past /\ n \in 1 .. n
        BY <2>1, <2>2 DEF Agrees, UndoLeadsBack
      <3>2. /\ Links(timeline.past[n], session.undo[n], Version(session.doc))
            /\ Valid(timeline.past[n])
            /\ session.undo[n].ids \subseteq OnPages(session.pages)
        BY <2>1, <3>1 DEF Agrees, UndoLeadsBack, EveryVersionValid, OnLoadedPages
      <3>3. timeline.past[n] \in Versions /\ session.undo[n] \in HistoryEntries
        BY <2>1, <3>1
      <3> QED
        BY <2>1, <2>2, <3>2, <3>3, LinkedCanRestore DEF CanUndo, LastOf
    <2>3. ASSUME session.redo # <<>> PROVE CanRedo(session)
      <3> DEFINE n == Len(session.redo)
      <3>1. n \in DOMAIN session.redo /\ n \in DOMAIN timeline.future /\ n \in 1 .. n
        BY <2>1, <2>3 DEF Agrees, RedoLeadsForward
      <3>2. /\ Links(Version(session.doc), session.redo[n], timeline.future[n])
            /\ Valid(timeline.future[n])
            /\ session.redo[n].ids \subseteq OnPages(session.pages)
        BY <2>1, <3>1 DEF Agrees, RedoLeadsForward, EveryVersionValid, OnLoadedPages
      <3>3. timeline.future[n] \in Versions /\ session.redo[n] \in HistoryEntries
        BY <2>1, <3>1
      <3> QED
        BY <2>1, <2>3, <3>2, <3>3, LinkedCanRestore DEF CanRedo, LastOf
    <2> QED
      BY <2>2, <2>3 DEF UndoRedoAlwaysApply
  <1> QED
    BY <1>1, TypeCorrect, HistoryAgrees, PTL

-----------------------------------------------------------------------------
(* One command per revision                                                *)

Counted(s) == IsFiniteSet(s.committed) /\ Cardinality(s.committed) = s.revision

\* The inductive form: sessions still to be published count as well.
AllCounted == Counted(session) /\ \A p \in prepared : Counted(p.next)

LEMMA EnvelopeCounted ==
  ASSUME NEW s \in Sessions, NEW c \in Commands, Counted(s), Accepts(s, c)
  PROVE  Counted(ApplyEnvelope(s, c))
  <1> DEFINE t == ApplyEnvelope(s, c)
  <1>1. t \in Sessions
    BY ApplyEnvelopeType
  <1>2. t.committed = s.committed \cup {c.id} /\ t.revision = s.revision + 1
    <2> DEFINE applied == CASE c.op = "Undo" -> ApplyUndo(s)
                            [] c.op = "Redo" -> ApplyRedo(s)
                            [] OTHER         -> ApplyChange(s, c)
    <2>1. applied \in Sessions
      <3>1. c.op = "Undo" => s.undo # <<>>
        BY DEF Accepts, CanUndo
      <3>2. c.op = "Redo" => s.redo # <<>>
        BY DEF Accepts, CanRedo
      <3> QED
        BY <3>1, <3>2, ApplyUndoType, ApplyRedoType, ApplyChangeType DEF Accepts
    <2> HIDE DEF applied
    <2>2. t = [applied EXCEPT !.revision = s.revision + 1,
                              !.committed = s.committed \cup {c.id},
                              !.replacePreviews = {}]
      BY DEF ApplyEnvelope, applied
    <2> QED
      BY <2>1, <2>2 DEF Sessions
  <1>3. c.id \notin s.committed
    BY DEF Accepts
  <1> HIDE DEF t
  <1>4. /\ IsFiniteSet(s.committed \cup {c.id})
        /\ Cardinality(s.committed \cup {c.id}) = Cardinality(s.committed) + 1
    BY <1>3, FS_AddElement DEF Counted
  <1> QED
    BY <1>2, <1>4 DEF Counted, t

\* No command is applied twice, whoever publishes it.
THEOREM OneCommandEach == Spec => []OneCommandPerRevision
  <1>1. Init => AllCounted
    <2> SUFFICES ASSUME Init PROVE AllCounted
      OBVIOUS
    <2>1. session.committed = {} /\ session.revision = 0 /\ prepared = {}
      BY DEF Init, NewSession
    <2> QED
      BY <2>1, FS_EmptySet DEF AllCounted, Counted
  <1>2. TypeOK /\ AllCounted /\ [Next]_vars => AllCounted'
    <2> SUFFICES ASSUME TypeOK, AllCounted, [Next]_vars PROVE AllCounted'
      OBVIOUS
    <2>0. ASSUME NEW c \in Commands, Accepts(session, c), Commit(c), UNCHANGED prepared
          PROVE  AllCounted'
      <3>1. Counted(ApplyEnvelope(session, c))
        BY <2>0, EnvelopeCounted DEF TypeOK, AllCounted
      <3> QED
        BY <2>0, <3>1 DEF Commit, AllCounted, Counted
    <2>1. CASE Submit
      <3>1. PICK c \in Requests : Commit(c)
        BY <2>1 DEF Submit
      <3> QED
        BY <2>0, <2>1, <3>1, RequestType DEF Submit
    <2>2. CASE Prepare
      <3>1. PICK c \in Requests : prepared' = prepared \cup {PreparedFor(c)}
        BY <2>2 DEF Prepare
      <3>2. Counted(ApplyEnvelope(session, c))
        BY RequestType, EnvelopeCounted DEF TypeOK, AllCounted
      <3> QED
        BY <2>2, <3>1, <3>2 DEF Prepare, PreparedFor, AllCounted, Counted
    <2>3. ASSUME NEW p \in prepared, Publish(p) PROVE AllCounted'
      BY <2>3 DEF Publish, AllCounted, Counted
    <2>4. ASSUME NEW p \in prepared, RefusePublish(p) PROVE AllCounted'
      BY <2>4 DEF RefusePublish, AllCounted, Counted
    <2>5. ASSUME UNCHANGED <<session.committed, session.revision, prepared>>
          PROVE  AllCounted'
      BY <2>5 DEF AllCounted, Counted
    <2>6. ASSUME NEW u \in TextValues, NEW v \in TextValues, PreviewReplaceAll(u, v)
          PROVE  AllCounted'
      BY <2>5, <2>6 DEF PreviewReplaceAll, TypeOK, Sessions
    <2>7. ASSUME NEW id \in CommandIds, NEW ids \in SUBSET Objects, NEW v \in TextValues,
                 PreviewTransaction(id, ids, v)
          PROVE  AllCounted'
      BY <2>5, <2>7 DEF PreviewTransaction, TypeOK, Sessions
    <2>8. ASSUME NEW id \in CommandIds, NEW preview \in Previews, CommitPreview(id, preview)
          PROVE  AllCounted'
      <3> DEFINE c == PreviewCommand(id, session.revision, preview)
      <3>1. c \in Commands
        BY PreviewCommandType
      <3>2. Accepts(session, c) /\ Commit(c) /\ UNCHANGED prepared
        BY <2>8 DEF CommitPreview
      <3> HIDE DEF c
      <3> QED
        BY <2>0, <3>1, <3>2
    <2>9. CASE ApproveReplaceAll
      BY <2>8, <2>9 DEF ApproveReplaceAll, TypeOK, Sessions
    <2>10. CASE CommitToolTransaction
      BY <2>8, <2>10 DEF CommitToolTransaction, TypeOK, Sessions
    <2>11. ASSUME NEW page \in Pages, NEW content \in Imports[page],
                  HydratePage(page, content) \/ HydrateLivePage(page, content)
           PROVE  AllCounted'
      BY <2>5, <2>11 DEF HydratePage, HydrateLivePage, Load, LoadPage, TypeOK, Sessions
    <2>12. CASE Close
      BY <2>5, <2>12 DEF Close
    <2>13. CASE UNCHANGED vars
      BY <2>5, <2>13 DEF vars
    <2> QED
      BY <2>1, <2>2, <2>3, <2>4, <2>6, <2>7, <2>9, <2>10, <2>11, <2>12, <2>13 DEF Next
  <1>3. AllCounted => OneCommandPerRevision
    BY DEF AllCounted, Counted, OneCommandPerRevision
  <1> QED
    BY <1>1, <1>2, <1>3, TypeCorrect, PTL DEF Spec

-----------------------------------------------------------------------------
(* What one command does to a session and its timeline                     *)

\* There is a revision left, and an entry to undo or redo.
Applicable(s, c) ==
  /\ s.revision < MaxRevision
  /\ c.op = "Undo" => s.undo # <<>>
  /\ c.op = "Redo" => s.redo # <<>>

LEMMA AcceptedIsApplicable ==
  ASSUME NEW s, NEW c, Accepts(s, c)
  PROVE  Applicable(s, c)
  BY DEF Accepts, CanUndo, CanRedo, Applicable

\* The fields of a session that no command of its own touches, or all do.
LEMMA EnvelopeFields ==
  ASSUME NEW s \in Sessions, NEW c \in Commands, Applicable(s, c)
  PROVE  LET applied == CASE c.op = "Undo" -> ApplyUndo(s)
                          [] c.op = "Redo" -> ApplyRedo(s)
                          [] OTHER         -> ApplyChange(s, c)
             t == ApplyEnvelope(s, c)
         IN  /\ t.revision = s.revision + 1
             /\ t.pages = s.pages
             /\ t.committed = s.committed \cup {c.id}
             /\ t.replacePreviews = {}
             /\ t.toolPreviews = s.toolPreviews
             /\ t.doc = applied.doc /\ t.undo = applied.undo /\ t.redo = applied.redo
  <1> DEFINE applied == CASE c.op = "Undo" -> ApplyUndo(s)
                          [] c.op = "Redo" -> ApplyRedo(s)
                          [] OTHER         -> ApplyChange(s, c)
             t == ApplyEnvelope(s, c)
  <1>1. /\ applied \in Sessions
        /\ applied.pages = s.pages /\ applied.toolPreviews = s.toolPreviews
    <2>1. CASE c.op = "Undo"
      <3>1. ApplyUndo(s) \in Sessions
        BY <2>1, ApplyUndoType DEF Applicable
      <3>2. ApplyUndo(s).pages = s.pages /\ ApplyUndo(s).toolPreviews = s.toolPreviews
        BY DEF ApplyUndo, Sessions
      <3> QED
        BY <2>1, <3>1, <3>2
    <2>2. CASE c.op = "Redo"
      <3>1. ApplyRedo(s) \in Sessions
        BY <2>2, ApplyRedoType DEF Applicable
      <3>2. ApplyRedo(s).pages = s.pages /\ ApplyRedo(s).toolPreviews = s.toolPreviews
        BY DEF ApplyRedo, Sessions
      <3> QED
        BY <2>2, <3>1, <3>2
    <2>3. CASE c.op # "Undo" /\ c.op # "Redo"
      <3>1. ApplyChange(s, c) \in Sessions
        BY ApplyChangeType DEF Applicable
      <3>2. ApplyChange(s, c).pages = s.pages /\ ApplyChange(s, c).toolPreviews = s.toolPreviews
        BY DEF ApplyChange, Sessions
      <3> QED
        BY <2>3, <3>1, <3>2
    <2> QED
      BY <2>1, <2>2, <2>3
  <1> HIDE DEF applied
  <1>2. t = [applied EXCEPT !.revision = s.revision + 1,
                            !.committed = s.committed \cup {c.id},
                            !.replacePreviews = {}]
    BY DEF ApplyEnvelope, applied
  <1> HIDE DEF t
  <1>3. /\ t.revision = s.revision + 1 /\ t.pages = s.pages
        /\ t.committed = s.committed \cup {c.id}
        /\ t.replacePreviews = {} /\ t.toolPreviews = s.toolPreviews
        /\ t.doc = applied.doc /\ t.undo = applied.undo /\ t.redo = applied.redo
    BY <1>1, <1>2 DEF Sessions
  <1> QED
    BY <1>3 DEF applied, t

\* The documents and stacks the three kinds of commands make.
LEMMA ChangeFields ==
  ASSUME NEW s \in Sessions, NEW c \in Commands, Applicable(s, c), c.op # "Undo", c.op # "Redo"
  PROVE  LET t == ApplyEnvelope(s, c) IN
         /\ t.doc = Overlay(s.doc, c.ids, Entry(s, c).after)
         /\ t.undo = IF Coalesces(s, c)
                     THEN [s.undo EXCEPT ![Len(s.undo)] =
                             [LastOf(s.undo) EXCEPT !.after = Entry(s, c).after,
                                                    !.typing = c.typing]]
                     ELSE Append(s.undo, Entry(s, c))
         /\ t.redo = <<>>
  <1>1. /\ ApplyEnvelope(s, c).doc = ApplyChange(s, c).doc
        /\ ApplyEnvelope(s, c).undo = ApplyChange(s, c).undo
        /\ ApplyEnvelope(s, c).redo = ApplyChange(s, c).redo
    BY EnvelopeFields
  <1> QED
    BY <1>1 DEF ApplyChange, Sessions

LEMMA UndoFields ==
  ASSUME NEW s \in Sessions, NEW c \in Commands, Applicable(s, c), c.op = "Undo"
  PROVE  LET t == ApplyEnvelope(s, c)
             entry == LastOf(s.undo)
         IN  /\ t.doc = Overlay(s.doc, entry.ids, Stamp(Version(entry.before), s.revision + 1))
             /\ t.undo = FrontOf(s.undo)
             /\ t.redo = Append(s.redo, entry)
  <1>1. /\ ApplyEnvelope(s, c).doc = ApplyUndo(s).doc
        /\ ApplyEnvelope(s, c).undo = ApplyUndo(s).undo
        /\ ApplyEnvelope(s, c).redo = ApplyUndo(s).redo
    BY EnvelopeFields
  <1> QED
    BY <1>1 DEF ApplyUndo, Sessions

LEMMA RedoFields ==
  ASSUME NEW s \in Sessions, NEW c \in Commands, Applicable(s, c), c.op = "Redo"
  PROVE  LET t == ApplyEnvelope(s, c)
             entry == LastOf(s.redo)
         IN  /\ t.doc = Overlay(s.doc, entry.ids, Stamp(Version(entry.after), s.revision + 1))
             /\ t.redo = FrontOf(s.redo)
             /\ t.undo = Append(s.undo, entry)
  <1>1. /\ ApplyEnvelope(s, c).doc = ApplyRedo(s).doc
        /\ ApplyEnvelope(s, c).undo = ApplyRedo(s).undo
        /\ ApplyEnvelope(s, c).redo = ApplyRedo(s).redo
    BY EnvelopeFields
  <1> QED
    BY <1>1 DEF ApplyRedo, Sessions

\* A step of the timeline, page imports aside: a command is recorded, joins the
\* newest version, or walks to a version next to the present one.
Steps(s, tl, t, tm) ==
  /\ t.pages = s.pages
  /\ \/ /\ tm.past = Append(tl.past, Version(s.doc))
        /\ tm.future = <<>>
     \/ /\ tl.past # <<>>
        /\ tm.past = tl.past
        /\ tm.future = <<>>
     \/ /\ tl.past # <<>>
        /\ Version(t.doc) = LastOf(tl.past)
        /\ tm.past = FrontOf(tl.past)
        /\ tm.future = Append(tl.future, Version(s.doc))
     \/ /\ tl.future # <<>>
        /\ Version(t.doc) = LastOf(tl.future)
        /\ tm.future = FrontOf(tl.future)
        /\ tm.past = Append(tl.past, Version(s.doc))

LEMMA CommandSteps ==
  ASSUME NEW s \in Sessions, NEW tl \in Timelines, NEW c \in Commands,
         Agrees(s, tl), Accepts(s, c)
  PROVE  Steps(s, tl, ApplyEnvelope(s, c), Advance(s, tl, c))
  <1> DEFINE t == ApplyEnvelope(s, c)
             tm == Advance(s, tl, c)
  <1>1. /\ s.undo \in Seq(HistoryEntries) /\ s.redo \in Seq(HistoryEntries)
        /\ tl.past \in Seq(Versions) /\ tl.future \in Seq(Versions)
        /\ s.doc \in Documents /\ s.revision + 1 \in Revisions
    BY SessionAssumption DEF Sessions, Timelines, Accepts, Revisions
  <1>2. Len(tl.past) = Len(s.undo) /\ Len(tl.future) = Len(s.redo) /\ t.pages = s.pages
    BY EnvelopeFields, AcceptedIsApplicable DEF Agrees, UndoLeadsBack, RedoLeadsForward
  <1>3. CASE c.op # "Undo" /\ c.op # "Redo"
    <2>1. /\ tm.past = (IF Coalesces(s, c) THEN tl.past ELSE Append(tl.past, Version(s.doc)))
          /\ tm.future = <<>>
      BY <1>3 DEF Advance
    <2>2. Coalesces(s, c) => tl.past # <<>>
      BY <1>1, <1>2 DEF Coalesces, CanCoalesce
    <2> HIDE DEF t, tm
    <2> QED
      BY <1>2, <2>1, <2>2 DEF Steps, t, tm
  <1>4. CASE c.op = "Undo"
    <2> DEFINE n == Len(s.undo)
    <2>1. s.undo # <<>> /\ n \in 1 .. n /\ tl.past # <<>>
      BY <1>1, <1>2, <1>4 DEF Accepts, CanUndo
    <2>2. Links(tl.past[n], s.undo[n], Version(s.doc))
      BY <2>1 DEF Agrees, UndoLeadsBack
    <2>3. s.undo[n] \in HistoryEntries /\ tl.past[n] \in Versions
      BY <1>1, <1>2, <2>1
    <2>4. t.doc = Overlay(s.doc, s.undo[n].ids, Stamp(Version(s.undo[n].before), s.revision + 1))
      BY <1>4, UndoFields, AcceptedIsApplicable DEF LastOf
    <2>5. Version(t.doc) = LastOf(tl.past)
      BY <1>1, <1>2, <2>2, <2>3, <2>4, RestoreGives DEF LastOf
    <2>6. tm.past = FrontOf(tl.past) /\ tm.future = Append(tl.future, Version(s.doc))
      BY <1>4 DEF Advance
    <2> HIDE DEF t, tm
    <2> QED
      BY <1>2, <2>1, <2>5, <2>6 DEF Steps, t, tm
  <1>5. CASE c.op = "Redo"
    <2> DEFINE n == Len(s.redo)
    <2>1. s.redo # <<>> /\ n \in 1 .. n /\ tl.future # <<>>
      BY <1>1, <1>2, <1>5 DEF Accepts, CanRedo
    <2>2. Links(Version(s.doc), s.redo[n], tl.future[n])
      BY <2>1 DEF Agrees, RedoLeadsForward
    <2>3. s.redo[n] \in HistoryEntries /\ tl.future[n] \in Versions
      BY <1>1, <1>2, <2>1
    <2>4. t.doc = Overlay(s.doc, s.redo[n].ids, Stamp(Version(s.redo[n].after), s.revision + 1))
      BY <1>5, RedoFields, AcceptedIsApplicable DEF LastOf
    <2>5. Version(t.doc) = LastOf(tl.future)
      BY <1>1, <1>2, <2>2, <2>3, <2>4, RestoreGives DEF LastOf
    <2>6. tm.future = FrontOf(tl.future) /\ tm.past = Append(tl.past, Version(s.doc))
      BY <1>5 DEF Advance
    <2> HIDE DEF t, tm
    <2> QED
      BY <1>2, <2>1, <2>5, <2>6 DEF Steps, t, tm
  <1> QED
    BY <1>3, <1>4, <1>5

-----------------------------------------------------------------------------
(* Versions show loaded pages only                                         *)

Within(version, ps) == \A o \in Objects : PageOf[o] \notin ps => version[o] = NoObject

TimelineWithin(s, tl) ==
  /\ \A i \in DOMAIN tl.past : Within(tl.past[i], s.pages)
  /\ \A i \in DOMAIN tl.future : Within(tl.future[i], s.pages)

\* What a prepared command can have seen of the versions.
Cut(versions, ps) == [i \in DOMAIN versions |-> Part(versions[i], OnPages(ps))]

LEMMA CutFacts ==
  ASSUME NEW versions \in Seq(Versions), NEW ps
  PROVE  /\ Cut(versions, ps) \in Seq(Versions)
         /\ Len(Cut(versions, ps)) = Len(versions)
         /\ \A i \in 1 .. Len(versions) :
              Cut(versions, ps)[i] = Part(versions[i], OnPages(ps))
         /\ versions = <<>> <=> Cut(versions, ps) = <<>>
         /\ versions # <<>> =>
              /\ LastOf(Cut(versions, ps)) = Part(LastOf(versions), OnPages(ps))
              /\ FrontOf(Cut(versions, ps)) = Cut(FrontOf(versions), ps)
  <1>1. Cut(versions, ps) \in Seq(Versions) /\ Len(Cut(versions, ps)) = Len(versions)
    <2>1. \A i \in 1 .. Len(versions) : Part(versions[i], OnPages(ps)) \in Versions
      BY PartType
    <2> QED
      BY <2>1 DEF Cut
  <1>2. \A i \in 1 .. Len(versions) : Cut(versions, ps)[i] = Part(versions[i], OnPages(ps))
    BY DEF Cut
  <1>3. versions = <<>> <=> Cut(versions, ps) = <<>>
    BY <1>1
  <1>4. ASSUME versions # <<>>
        PROVE  /\ LastOf(Cut(versions, ps)) = Part(LastOf(versions), OnPages(ps))
               /\ FrontOf(Cut(versions, ps)) = Cut(FrontOf(versions), ps)
    <2>1. Len(versions) \in 1 .. Len(versions)
      BY <1>4
    <2>2. LastOf(Cut(versions, ps)) = Part(LastOf(versions), OnPages(ps))
      BY <1>1, <1>2, <2>1 DEF LastOf
    <2>3. FrontOf(versions) = [i \in 1 .. Len(versions) - 1 |-> versions[i]]
      BY <2>1 DEF FrontOf
    <2>4. FrontOf(Cut(versions, ps)) = [i \in 1 .. Len(versions) - 1 |-> Cut(versions, ps)[i]]
      BY <1>1, <2>1 DEF FrontOf
    <2>5. Cut(FrontOf(versions), ps)
            = [i \in 1 .. Len(versions) - 1 |-> Part(versions[i], OnPages(ps))]
      BY <2>1, <2>3 DEF Cut
    <2>6. \A i \in 1 .. Len(versions) - 1 :
            Cut(versions, ps)[i] = Part(versions[i], OnPages(ps))
      BY <1>2
    <2> QED
      BY <2>2, <2>4, <2>5, <2>6
  <1> QED
    BY <1>1, <1>2, <1>3, <1>4

\* A version within the pages is not cut.
LEMMA CutWithin ==
  ASSUME NEW version \in Versions, NEW ps, Within(version, ps)
  PROVE  Part(version, OnPages(ps)) = version
  BY DEF Part, OnPages, Within, Versions

LEMMA CutTimelineWithin ==
  ASSUME NEW versions \in Seq(Versions), NEW ps,
         \A i \in DOMAIN versions : Within(versions[i], ps)
  PROVE  Cut(versions, ps) = versions
  <1>1. \A i \in 1 .. Len(versions) : Part(versions[i], OnPages(ps)) = versions[i]
    BY CutWithin
  <1> QED
    BY <1>1 DEF Cut

\* The document of a session is within its pages.
LEMMA DocumentWithin ==
  ASSUME NEW s \in Sessions, OnLoadedPages(s)
  PROVE  /\ Within(Version(s.doc), s.pages)
         /\ Part(s.doc, OnPages(s.pages)) = s.doc
  BY DEF OnLoadedPages, Within, Version, Part, OnPages, Sessions, Documents

\* A step keeps the versions within the pages.
LEMMA StepsWithin ==
  ASSUME NEW s \in Sessions, NEW tl \in Timelines, NEW t \in Sessions, NEW tm \in Timelines,
         OnLoadedPages(s), TimelineWithin(s, tl), Steps(s, tl, t, tm)
  PROVE  TimelineWithin(t, tm)
  <1>1. /\ tl.past \in Seq(Versions) /\ tl.future \in Seq(Versions)
        /\ Within(Version(s.doc), s.pages) /\ Version(s.doc) \in Versions
        /\ t.pages = s.pages
    BY DocumentWithin, VersionType DEF Timelines, Sessions, Steps
  <1>2. ASSUME NEW versions \in Seq(Versions),
               \A i \in DOMAIN versions : Within(versions[i], s.pages)
        PROVE  /\ \A i \in DOMAIN Append(versions, Version(s.doc)) :
                    Within(Append(versions, Version(s.doc))[i], s.pages)
               /\ versions # <<>> =>
                    \A i \in DOMAIN FrontOf(versions) : Within(FrontOf(versions)[i], s.pages)
    <2> DEFINE more == Append(versions, Version(s.doc))
               now == Version(s.doc)
    <2>1. \A i \in DOMAIN more : Within(more[i], s.pages)
      <3> HIDE DEF now
      <3>1. Len(more) = Len(versions) + 1 /\ DOMAIN more = 1 .. Len(versions) + 1
            /\ DOMAIN versions = 1 .. Len(versions)
        BY DEF now
      <3>2. more[Len(versions) + 1] = now
        BY DEF now
      <3>3. \A i \in 1 .. Len(versions) : more[i] = versions[i]
        BY DEF now
      <3>4. Within(now, s.pages)
        BY <1>1 DEF now
      <3> HIDE DEF more
      <3> QED
        BY <1>2, <3>1, <3>2, <3>3, <3>4
    <2>2. ASSUME versions # <<>>
          PROVE  \A i \in DOMAIN FrontOf(versions) : Within(FrontOf(versions)[i], s.pages)
      <3>1. /\ FrontOf(versions) \in Seq(Versions)
            /\ Len(FrontOf(versions)) = Len(versions) - 1
            /\ \A i \in 1 .. Len(versions) - 1 : FrontOf(versions)[i] = versions[i]
        BY <2>2, StackTypes
      <3> QED
        BY <1>2, <3>1
    <2> QED
      BY <2>1, <2>2
  <1>3. \A i \in DOMAIN <<>> : Within(<<>>[i], s.pages)
    OBVIOUS
  <1>4. /\ \A i \in DOMAIN tl.past : Within(tl.past[i], s.pages)
        /\ \A i \in DOMAIN tl.future : Within(tl.future[i], s.pages)
    BY DEF TimelineWithin
  <1>5. CASE tm.past = Append(tl.past, Version(s.doc)) /\ tm.future = <<>>
    BY <1>1, <1>2, <1>3, <1>4, <1>5 DEF TimelineWithin
  <1>6. CASE tm.past = tl.past /\ tm.future = <<>>
    BY <1>1, <1>3, <1>4, <1>6 DEF TimelineWithin
  <1>7. CASE /\ tl.past # <<>>
             /\ tm.past = FrontOf(tl.past)
             /\ tm.future = Append(tl.future, Version(s.doc))
    BY <1>1, <1>2, <1>4, <1>7 DEF TimelineWithin
  <1>8. CASE /\ tl.future # <<>>
             /\ tm.future = FrontOf(tl.future)
             /\ tm.past = Append(tl.past, Version(s.doc))
    BY <1>1, <1>2, <1>4, <1>8 DEF TimelineWithin
  <1> QED
    BY <1>5, <1>6, <1>7, <1>8 DEF Steps

\* So does a page that is loaded.
LEMMA LoadWithin ==
  ASSUME NEW s \in Sessions, NEW tl \in Timelines, NEW page \in Pages, NEW content \in Versions,
         TimelineWithin(s, tl)
  PROVE  TimelineWithin(LoadPage(s, page, content), OnTimeline(tl, page, content))
  <1>1. LoadPage(s, page, content).pages = s.pages \cup {page}
    BY DEF LoadPage, Sessions
  <1>2. ASSUME NEW version \in Versions, Within(version, s.pages)
        PROVE  Within(Overlay(version, OnPages({page}), content), s.pages \cup {page})
    BY <1>2 DEF Within, Overlay, OnPages
  <1>3. /\ \A i \in DOMAIN tl.past : tl.past[i] \in Versions
        /\ \A i \in DOMAIN tl.future : tl.future[i] \in Versions
    BY DEF Timelines
  <1> QED
    BY <1>1, <1>2, <1>3 DEF TimelineWithin, OnTimeline

-----------------------------------------------------------------------------
(* Prepared commands                                                       *)

\* s0 and tl0 are a session and its timeline from before some pages were
\* loaded.  At revision 0 a live import may have replaced a page since, so
\* nothing is said of the documents then; there is no history yet.
Origin(s, tl, s0, tl0) ==
  /\ s0 \in Sessions /\ tl0 \in Timelines
  /\ Agrees(s0, tl0) /\ TimelineWithin(s0, tl0)
  /\ s0.revision = s.revision
  /\ s0.committed = s.committed
  /\ s0.pages \subseteq s.pages
  /\ s.revision > 0 =>
       /\ s0.doc = Part(s.doc, OnPages(s0.pages))
       /\ s0.undo = s.undo /\ s0.redo = s.redo
       /\ tl0.past = Cut(tl.past, s0.pages)
       /\ tl0.future = Cut(tl.future, s0.pages)

PreparedIn(p, s0, tl0) ==
  /\ Accepts(s0, p.command)
  /\ p.next = ApplyEnvelope(s0, p.command)
  /\ p.timeline = Advance(s0, tl0, p.command)

\* The inductive form: a prepared command that can still be published was
\* made from the session as it is now, but for pages loaded since.
PreparedStand ==
  /\ TimelineWithin(session, timeline)
  /\ \A p \in prepared :
       /\ TimelineWithin(p.next, p.timeline)
       /\ p.previous <= session.revision
       /\ p.next.revision = p.previous + 1
       /\ p.previous = session.revision =>
            \E s0 \in Sessions, tl0 \in Timelines :
              Origin(session, timeline, s0, tl0) /\ PreparedIn(p, s0, tl0)

LEMMA SelfOrigin ==
  ASSUME NEW s \in Sessions, NEW tl \in Timelines, Agrees(s, tl), TimelineWithin(s, tl)
  PROVE  Origin(s, tl, s, tl)
  <1>1. tl.past \in Seq(Versions) /\ tl.future \in Seq(Versions)
    BY DEF Timelines
  <1>2. Cut(tl.past, s.pages) = tl.past /\ Cut(tl.future, s.pages) = tl.future
    BY <1>1, CutTimelineWithin DEF TimelineWithin
  <1>3. Part(s.doc, OnPages(s.pages)) = s.doc
    BY DocumentWithin DEF Agrees
  <1> QED
    BY <1>2, <1>3 DEF Origin

\* An origin is one for every session that differs in its previews only.
LEMMA OriginOfAlike ==
  ASSUME NEW s, NEW tl, NEW s0, NEW tl0, NEW t, Origin(s, tl, s0, tl0),
         t.revision = s.revision, t.committed = s.committed, t.pages = s.pages,
         t.doc = s.doc, t.undo = s.undo, t.redo = s.redo
  PROVE  Origin(t, tl, s0, tl0)
  BY DEF Origin

\* Nothing on the pages of the origin is touched by a page loaded later.
LEMMA OriginAfterLoad ==
  ASSUME NEW s \in Sessions, NEW tl \in Timelines, NEW s0 \in Sessions, NEW tl0 \in Timelines,
         NEW page \in Pages, NEW content \in Versions,
         Origin(s, tl, s0, tl0), CanHydrateLive(s, page, content)
  PROVE  Origin(LoadPage(s, page, content), OnTimeline(tl, page, content), s0, tl0)
  <1> DEFINE t == LoadPage(s, page, content)
             tm == OnTimeline(tl, page, content)
             ids == OnPages({page})
  <1>1. /\ t.revision = s.revision /\ t.committed = s.committed
        /\ t.pages = s.pages \cup {page}
        /\ t.undo = s.undo /\ t.redo = s.redo
        /\ t.doc = Overlay(s.doc, ids, Stamp(content, 0))
    BY DEF LoadPage, Sessions
  <1>2. /\ tm.past = [i \in DOMAIN tl.past |-> Overlay(tl.past[i], ids, content)]
        /\ tm.future = [i \in DOMAIN tl.future |-> Overlay(tl.future[i], ids, content)]
    BY DEF OnTimeline
  <1>3. s0.pages \subseteq t.pages
    BY <1>1 DEF Origin
  <1> HIDE DEF t, tm
  <1>4. ASSUME s.revision > 0
        PROVE  /\ s0.doc = Part(t.doc, OnPages(s0.pages))
               /\ s0.undo = t.undo /\ s0.redo = t.redo
               /\ tl0.past = Cut(tm.past, s0.pages)
               /\ tl0.future = Cut(tm.future, s0.pages)
    <2>1. page \notin s0.pages
      BY <1>4, SessionAssumption DEF CanHydrateLive, Origin, Sessions, Revisions
    <2>2. \A f, g : Part(Overlay(f, ids, g), OnPages(s0.pages)) = Part(f, OnPages(s0.pages))
      BY <2>1 DEF Part, Overlay, OnPages
    <2> HIDE DEF ids
    <2>3. Part(t.doc, OnPages(s0.pages)) = Part(s.doc, OnPages(s0.pages))
      BY <1>1, <2>2
    <2>4. /\ Cut(tm.past, s0.pages) = Cut(tl.past, s0.pages)
          /\ Cut(tm.future, s0.pages) = Cut(tl.future, s0.pages)
      BY <1>2, <2>2 DEF Cut
    <2> QED
      BY <1>1, <1>4, <2>3, <2>4 DEF Origin
  <1>5. Origin(t, tm, s0, tl0)
    BY <1>1, <1>3, <1>4 DEF Origin
  <1> QED
    BY <1>5 DEF t, tm

\* The invariant the three theorems below rest on.
Standing == TypeOK /\ HistoryAgreesWithDocument /\ PreparedStand

LEMMA CommandStands ==
  ASSUME Standing, NEW c \in Commands, Accepts(session, c)
  PROVE  /\ Steps(session, timeline, ApplyEnvelope(session, c), Advance(session, timeline, c))
         /\ TimelineWithin(ApplyEnvelope(session, c), Advance(session, timeline, c))
         /\ ApplyEnvelope(session, c).revision = session.revision + 1
  <1>1. /\ session \in Sessions /\ timeline \in Timelines /\ Agrees(session, timeline)
        /\ TimelineWithin(session, timeline) /\ OnLoadedPages(session)
    BY DEF Standing, TypeOK, HistoryAgreesWithDocument, PreparedStand, Agrees
  <1>2. /\ ApplyEnvelope(session, c) \in Sessions
        /\ Advance(session, timeline, c) \in Timelines
        /\ ApplyEnvelope(session, c).revision = session.revision + 1
    BY <1>1, ApplyEnvelopeType, EnvelopeFields, AcceptedIsApplicable, AdvanceType
  <1>3. Steps(session, timeline, ApplyEnvelope(session, c), Advance(session, timeline, c))
    BY <1>1, CommandSteps
  <1> QED
    BY <1>1, <1>2, <1>3, StepsWithin

\* What a commit leaves of the prepared commands is out of date.
LEMMA CommitStands ==
  ASSUME Standing, NEW c \in Commands, Accepts(session, c), Commit(c), UNCHANGED prepared
  PROVE  PreparedStand'
  <1>1. /\ session'.revision = session.revision + 1
        /\ TimelineWithin(session', timeline')
    BY CommandStands DEF Commit
  <1>2. session.revision \in Nat /\ \A p \in prepared : p.previous \in Nat
    BY SessionAssumption DEF Standing, TypeOK, Sessions, PreparedCommands, Revisions
  <1>3. \A p \in prepared : p.previous <= session'.revision /\ p.previous # session'.revision
    BY <1>1, <1>2 DEF Standing, PreparedStand
  <1> QED
    BY <1>1, <1>3 DEF Standing, PreparedStand

LEMMA PrepareStands ==
  ASSUME Standing, NEW c \in Commands, Accepts(session, c),
         prepared' = prepared \cup {PreparedFor(c)}, UNCHANGED <<session, timeline>>
  PROVE  PreparedStand'
  <1> DEFINE q == PreparedFor(c)
  <1>1. /\ q.command = c /\ q.previous = session.revision
        /\ q.next = ApplyEnvelope(session, c)
        /\ q.timeline = Advance(session, timeline, c)
    BY DEF PreparedFor
  <1>2. /\ session \in Sessions /\ timeline \in Timelines /\ session.revision \in Nat
        /\ Origin(session, timeline, session, timeline)
    BY SelfOrigin, SessionAssumption
       DEF Standing, TypeOK, HistoryAgreesWithDocument, PreparedStand, Sessions, Revisions
  <1>3. PreparedIn(q, session, timeline)
    BY <1>1 DEF PreparedIn
  <1>4. TimelineWithin(q.next, q.timeline) /\ q.next.revision = q.previous + 1
    BY <1>1, CommandStands
  <1> HIDE DEF q
  <1>5. /\ TimelineWithin(q.next, q.timeline)
        /\ q.previous <= session.revision
        /\ q.next.revision = q.previous + 1
        /\ \E s0 \in Sessions, tl0 \in Timelines :
             Origin(session, timeline, s0, tl0) /\ PreparedIn(q, s0, tl0)
    BY <1>1, <1>2, <1>3, <1>4
  <1>6. prepared' = prepared \cup {q}
    BY DEF q
  <1> QED
    BY <1>5, <1>6 DEF Standing, PreparedStand

LEMMA PublishStands ==
  ASSUME Standing, NEW p \in prepared, Publish(p)
  PROVE  PreparedStand'
  <1>1. /\ session' = p.next /\ timeline' = p.timeline /\ prepared' = prepared \ {p}
        /\ p.previous = session.revision
    BY DEF Publish, CanPublish
  <1>2. session.revision \in Nat /\ \A q \in prepared : q.previous \in Nat
    BY SessionAssumption DEF Standing, TypeOK, Sessions, PreparedCommands, Revisions
  <1>3. session'.revision = session.revision + 1 /\ TimelineWithin(session', timeline')
    BY <1>1 DEF Standing, PreparedStand
  <1>4. \A q \in prepared : q.previous <= session'.revision /\ q.previous # session'.revision
    BY <1>2, <1>3 DEF Standing, PreparedStand
  <1> QED
    BY <1>1, <1>3, <1>4 DEF Standing, PreparedStand

\* Previews change nothing a prepared command is made from.
LEMMA PreviewStands ==
  ASSUME Standing, UNCHANGED <<prepared, timeline>>,
         session'.revision = session.revision, session'.committed = session.committed,
         session'.pages = session.pages, session'.doc = session.doc,
         session'.undo = session.undo, session'.redo = session.redo
  PROVE  PreparedStand'
  <1>1. TimelineWithin(session', timeline')
    BY DEF Standing, PreparedStand, TimelineWithin
  <1>2. ASSUME NEW p \in prepared, p.previous = session'.revision
        PROVE  \E s0 \in Sessions, tl0 \in Timelines :
                 Origin(session', timeline', s0, tl0) /\ PreparedIn(p, s0, tl0)
    <2>1. PICK s0 \in Sessions, tl0 \in Timelines :
            Origin(session, timeline, s0, tl0) /\ PreparedIn(p, s0, tl0)
      BY <1>2 DEF Standing, PreparedStand
    <2>2. Origin(session', timeline, s0, tl0)
      BY <2>1, OriginOfAlike
    <2> QED
      BY <2>1, <2>2
  <1> QED
    BY <1>1, <1>2 DEF Standing, PreparedStand

LEMMA LoadStands ==
  ASSUME Standing, NEW page \in Pages, NEW content \in Imports[page],
         CanHydrateLive(session, page, content), Load(page, content)
  PROVE  PreparedStand'
  <1>1. /\ session \in Sessions /\ timeline \in Timelines /\ content \in Versions
        /\ session' = LoadPage(session, page, content)
        /\ timeline' = OnTimeline(timeline, page, content)
        /\ prepared' = prepared
    BY ImportType DEF Standing, TypeOK, Load
  <1>2. session'.revision = session.revision
    BY <1>1 DEF LoadPage, Sessions
  <1>3. TimelineWithin(session', timeline')
    BY <1>1, LoadWithin DEF Standing, PreparedStand
  <1>4. ASSUME NEW p \in prepared, p.previous = session'.revision
        PROVE  \E s0 \in Sessions, tl0 \in Timelines :
                 Origin(session', timeline', s0, tl0) /\ PreparedIn(p, s0, tl0)
    <2>1. PICK s0 \in Sessions, tl0 \in Timelines :
            Origin(session, timeline, s0, tl0) /\ PreparedIn(p, s0, tl0)
      BY <1>2, <1>4 DEF Standing, PreparedStand
    <2>2. Origin(session', timeline', s0, tl0)
      BY <1>1, <2>1, OriginAfterLoad
    <2> QED
      BY <2>1, <2>2
  <1> QED
    BY <1>1, <1>2, <1>3, <1>4 DEF Standing, PreparedStand

LEMMA StandingKept == Standing /\ [Next]_vars => PreparedStand'
  <1> SUFFICES ASSUME Standing, [Next]_vars PROVE PreparedStand'
    OBVIOUS
  <1>0. TypeOK /\ session \in Sessions
    BY DEF Standing, TypeOK
  <1>1. CASE Submit
    <2>1. PICK c \in Requests : Commit(c)
      BY <1>1 DEF Submit
    <2> QED
      BY <1>0, <1>1, <2>1, RequestType, CommitStands DEF Submit
  <1>2. CASE Prepare
    <2>1. PICK c \in Requests : prepared' = prepared \cup {PreparedFor(c)}
      BY <1>2 DEF Prepare
    <2> QED
      BY <1>0, <1>2, <2>1, RequestType, PrepareStands DEF Prepare
  <1>3. ASSUME NEW p \in prepared, Publish(p) PROVE PreparedStand'
    BY <1>3, PublishStands
  <1>4. ASSUME NEW p \in prepared, RefusePublish(p) PROVE PreparedStand'
    BY <1>4 DEF RefusePublish, Standing, PreparedStand
  <1>5. ASSUME NEW u \in TextValues, NEW v \in TextValues, PreviewReplaceAll(u, v)
        PROVE  PreparedStand'
    <2>1. /\ \E previews : session' = [session EXCEPT !.replacePreviews = previews]
          /\ UNCHANGED <<prepared, timeline>>
      BY <1>5 DEF PreviewReplaceAll
    <2> QED
      BY <1>0, <2>1, PreviewStands DEF Sessions
  <1>6. ASSUME NEW id \in CommandIds, NEW ids \in SUBSET Objects, NEW v \in TextValues,
               PreviewTransaction(id, ids, v)
        PROVE  PreparedStand'
    <2>1. /\ \E previews : session' = [session EXCEPT !.toolPreviews = previews]
          /\ UNCHANGED <<prepared, timeline>>
      BY <1>6 DEF PreviewTransaction
    <2> QED
      BY <1>0, <2>1, PreviewStands DEF Sessions
  <1>7. ASSUME NEW id \in CommandIds, NEW preview \in Previews, CommitPreview(id, preview)
        PROVE  PreparedStand'
    <2> DEFINE c == PreviewCommand(id, session.revision, preview)
    <2>1. c \in Commands
      BY <1>0, PreviewCommandType
    <2>2. Accepts(session, c) /\ Commit(c) /\ UNCHANGED prepared
      BY <1>7 DEF CommitPreview
    <2> HIDE DEF c
    <2> QED
      BY <2>1, <2>2, CommitStands
  <1>8. CASE ApproveReplaceAll
    BY <1>0, <1>7, <1>8 DEF ApproveReplaceAll, Sessions
  <1>9. CASE CommitToolTransaction
    BY <1>0, <1>7, <1>9 DEF CommitToolTransaction, Sessions
  <1>10. ASSUME NEW page \in Pages, NEW content \in Imports[page],
                HydratePage(page, content) \/ HydrateLivePage(page, content)
         PROVE  PreparedStand'
    <2>1. CanHydrateLive(session, page, content) /\ Load(page, content)
      BY <1>10 DEF HydratePage, HydrateLivePage, CanHydrate, CanHydrateLive
    <2> QED
      BY <2>1, LoadStands
  <1>11. CASE Close
    BY <1>11 DEF Close, Standing, PreparedStand
  <1>12. CASE UNCHANGED vars
    BY <1>12 DEF vars, Standing, PreparedStand
  <1> QED
    BY <1>1, <1>2, <1>3, <1>4, <1>5, <1>6, <1>8, <1>9, <1>10, <1>11, <1>12 DEF Next

LEMMA StandingInit == Init => PreparedStand
  <1> SUFFICES ASSUME Init PROVE PreparedStand
    OBVIOUS
  <1>1. prepared = {} /\ timeline.past = <<>> /\ timeline.future = <<>>
    BY DEF Init
  <1> QED
    BY <1>1 DEF PreparedStand, TimelineWithin

LEMMA StandingAlways == Spec => []Standing
  <1>1. TypeOK /\ HistoryAgreesWithDocument /\ PreparedStand /\ [Next]_vars => PreparedStand'
    BY StandingKept DEF Standing
  <1> QED
    BY <1>1, StandingInit, TypeCorrect, HistoryAgrees, PTL DEF Spec, Standing

-----------------------------------------------------------------------------
(* EditorSession implements DocumentTimeline                               *)

LEMMA SameWords ==
  /\ Abstract!Versions = Versions
  /\ \A version, ps : Abstract!Kept(version, ps) = Part(version, OnPages(ps))
  /\ \A versions, ps : Abstract!KeptAll(versions, ps) = Cut(versions, ps)
  /\ \A seq : Abstract!Front(seq) = FrontOf(seq) /\ Abstract!Last(seq) = LastOf(seq)
  <1>1. Abstract!Versions = Versions
    BY DEF Abstract!Versions, Versions
  <1>2. \A version, ps : Abstract!Kept(version, ps) = Part(version, OnPages(ps))
    BY DEF Abstract!Kept, Part, OnPages
  <1>3. \A versions, ps : Abstract!KeptAll(versions, ps) = Cut(versions, ps)
    BY <1>2 DEF Abstract!KeptAll, Cut
  <1>4. \A seq : Abstract!Front(seq) = FrontOf(seq) /\ Abstract!Last(seq) = LastOf(seq)
    BY DEF Abstract!Front, FrontOf, Abstract!Last, LastOf
  <1> QED
    BY <1>1, <1>2, <1>3, <1>4

\* A command, published now or prepared before some pages were loaded, is a
\* step of the timeline.
LEMMA StepsMap ==
  ASSUME Standing, TypeOK', NEW s0 \in Sessions, NEW tl0 \in Timelines,
         Origin(session, timeline, s0, tl0), Steps(s0, tl0, session', timeline')
  PROVE  Abstract!Next
  <1> DEFINE keep == s0.pages
             present == Version(session.doc)
             now == Version(s0.doc)
             next == Version(session.doc)'
  <1>1. /\ timeline.past \in Seq(Versions) /\ timeline.future \in Seq(Versions)
        /\ tl0.past \in Seq(Versions) /\ tl0.future \in Seq(Versions)
        /\ session.doc \in Documents /\ present \in Versions /\ now \in Versions
        /\ next = Version(session'.doc) /\ next \in Versions
        /\ session.revision \in Nat
    BY VersionType, SessionAssumption DEF Standing, TypeOK, Timelines, Sessions, Revisions
  <1>2. keep \in SUBSET session.pages /\ session'.pages = keep
    BY DEF Origin, Steps
  <1>3. CASE session.revision > 0
    <2>1. /\ tl0.past = Cut(timeline.past, keep)
          /\ tl0.future = Cut(timeline.future, keep)
          /\ now = Part(present, OnPages(keep))
      BY <1>1, <1>3, VersionOfPart DEF Origin
    <2>2. /\ timeline.past = <<>> <=> tl0.past = <<>>
          /\ timeline.future = <<>> <=> tl0.future = <<>>
          /\ timeline.past # <<>> =>
               /\ LastOf(tl0.past) = Part(LastOf(timeline.past), OnPages(keep))
               /\ FrontOf(tl0.past) = Cut(FrontOf(timeline.past), keep)
          /\ timeline.future # <<>> =>
               /\ LastOf(tl0.future) = Part(LastOf(timeline.future), OnPages(keep))
               /\ FrontOf(tl0.future) = Cut(FrontOf(timeline.future), keep)
      BY <1>1, <2>1, CutFacts
    <2> HIDE DEF keep, present, now, next
    <2>3. CASE timeline'.past = Append(tl0.past, now) /\ timeline'.future = <<>>
      <3>1. Abstract!Record(keep)
        BY <1>1, <1>2, <2>1, <2>3, SameWords DEF Abstract!Record, present, next
      <3> QED
        BY <1>2, <3>1 DEF Abstract!Next
    <2>4. CASE tl0.past # <<>> /\ timeline'.past = tl0.past /\ timeline'.future = <<>>
      <3>1. Abstract!Extend(keep)
        BY <1>1, <1>2, <2>1, <2>2, <2>4, SameWords DEF Abstract!Extend, next
      <3> QED
        BY <1>2, <3>1 DEF Abstract!Next
    <2>5. CASE /\ tl0.past # <<>>
               /\ next = LastOf(tl0.past)
               /\ timeline'.past = FrontOf(tl0.past)
               /\ timeline'.future = Append(tl0.future, now)
      <3>1. Abstract!StepBack(keep)
        BY <1>1, <1>2, <2>1, <2>2, <2>5, SameWords DEF Abstract!StepBack, present, next
      <3> QED
        BY <1>2, <3>1 DEF Abstract!Next
    <2>6. CASE /\ tl0.future # <<>>
               /\ next = LastOf(tl0.future)
               /\ timeline'.future = FrontOf(tl0.future)
               /\ timeline'.past = Append(tl0.past, now)
      <3>1. Abstract!StepForward(keep)
        BY <1>1, <1>2, <2>1, <2>2, <2>6, SameWords DEF Abstract!StepForward, present, next
      <3> QED
        BY <1>2, <3>1 DEF Abstract!Next
    <2>7. Steps(s0, tl0, session', timeline')
      OBVIOUS
    <2> QED
      BY <1>1, <2>3, <2>4, <2>5, <2>6, <2>7 DEF Steps, now
  <1>4. CASE session.revision = 0
    <2>1. /\ session.undo = <<>> /\ session.redo = <<>> /\ s0.undo = <<>> /\ s0.redo = <<>>
          /\ Len(timeline.past) = Len(session.undo) /\ Len(timeline.future) = Len(session.redo)
          /\ Len(tl0.past) = Len(s0.undo) /\ Len(tl0.future) = Len(s0.redo)
      BY <1>4 DEF Standing, HistoryAgreesWithDocument, Agrees, OnLoadedPages, Origin,
                  UndoLeadsBack, RedoLeadsForward
    <2>2. timeline.past = <<>> /\ timeline.future = <<>> /\ tl0.past = <<>> /\ tl0.future = <<>>
      BY <1>1, <2>1
    <2>3. timeline'.past = Append(tl0.past, now) /\ timeline'.future = <<>>
      BY <2>2 DEF Steps
    <2> HIDE DEF now
    <2>4. timeline'.past = <<now>>
      BY <2>2, <2>3
    <2>5. Abstract!RecordFirst
      BY <1>1, <1>2, <2>2, <2>3, <2>4, SameWords DEF Abstract!RecordFirst
    <2> QED
      BY <2>5 DEF Abstract!Next
  <1> QED
    BY <1>1, <1>3, <1>4

LEMMA LoadMaps ==
  ASSUME Standing, NEW page \in Pages, NEW content \in Imports[page],
         CanHydrateLive(session, page, content), Load(page, content)
  PROVE  Abstract!Next
  <1> DEFINE ids == OnPages({page})
             present == Version(session.doc)
  <1>1. /\ session \in Sessions /\ timeline \in Timelines /\ content \in Versions
        /\ session.doc \in Documents /\ 0 \in Revisions
        /\ timeline.past \in Seq(Versions) /\ timeline.future \in Seq(Versions)
    BY ImportType, SessionAssumption DEF Standing, TypeOK, Sessions, Timelines, Revisions
  <1>2. /\ session'.pages = session.pages \cup {page}
        /\ session'.doc = Overlay(session.doc, ids, Stamp(content, 0))
        /\ timeline'.past = [i \in DOMAIN timeline.past |-> Overlay(timeline.past[i], ids, content)]
        /\ timeline'.future
             = [i \in DOMAIN timeline.future |-> Overlay(timeline.future[i], ids, content)]
    BY <1>1 DEF Load, LoadPage, OnTimeline, Sessions
  <1>3. Version(session.doc)' = Overlay(present, ids, content)
    <2>1. Stamp(content, 0) \in Documents /\ Version(Stamp(content, 0)) = content
      BY <1>1, StampType, VersionOfStamp
    <2>2. Version(session'.doc) = Overlay(present, ids, content)
      BY <1>1, <1>2, <2>1, VersionOfOverlay
    <2> QED
      BY <2>2
  <1>4. page \notin session.pages \/ (timeline.past = <<>> /\ timeline.future = <<>>)
    <2>1. CASE page \notin session.pages
      BY <2>1
    <2>2. CASE session.revision = 0
      <3>1. /\ session.undo = <<>> /\ session.redo = <<>>
            /\ Len(timeline.past) = Len(session.undo)
            /\ Len(timeline.future) = Len(session.redo)
        BY <2>2 DEF Standing, HistoryAgreesWithDocument, Agrees, OnLoadedPages,
                    UndoLeadsBack, RedoLeadsForward
      <3> QED
        BY <1>1, <3>1
    <2> QED
      BY <2>1, <2>2 DEF CanHydrateLive
  <1>5. \A version :
          Overlay(version, ids, content)
            = [o \in Objects |-> IF PageOf[o] = page THEN content[o] ELSE version[o]]
    BY DEF Overlay, OnPages
  <1> HIDE DEF ids, present
  <1>6. Abstract!Load(page, content)
    BY <1>2, <1>3, <1>4, <1>5 DEF Abstract!Load, present
  <1> QED
    BY <1>1, <1>6, SameWords DEF Abstract!Next

LEMMA CommitMaps ==
  ASSUME Standing, TypeOK', NEW c \in Commands, Accepts(session, c), Commit(c)
  PROVE  Abstract!Next
  <1>1. Origin(session, timeline, session, timeline) /\ session \in Sessions /\ timeline \in Timelines
    BY SelfOrigin DEF Standing, TypeOK, HistoryAgreesWithDocument, PreparedStand
  <1>2. Steps(session, timeline, session', timeline')
    BY CommandStands DEF Commit
  <1> QED
    BY <1>1, <1>2, StepsMap

LEMMA PublishMaps ==
  ASSUME Standing, TypeOK', NEW p \in prepared, Publish(p)
  PROVE  Abstract!Next
  <1>1. p.previous = session.revision /\ session' = p.next /\ timeline' = p.timeline
    BY DEF Publish, CanPublish
  <1>2. PICK s0 \in Sessions, tl0 \in Timelines :
          Origin(session, timeline, s0, tl0) /\ PreparedIn(p, s0, tl0)
    BY <1>1 DEF Standing, PreparedStand
  <1>3. p.command \in Commands
    BY DEF Standing, TypeOK, PreparedCommands
  <1>4. Steps(s0, tl0, session', timeline')
    BY <1>1, <1>2, <1>3, CommandSteps DEF PreparedIn, Origin
  <1> QED
    BY <1>2, <1>4, StepsMap

\* The document is a timeline of versions that undo and redo walk: every step
\* of the session is a step of DocumentTimeline or leaves its variables alone.
THEOREM TimelineKept == Spec => KeepsTimeline
  <1>1. Init => Abstract!Init
    <2> SUFFICES ASSUME Init PROVE Abstract!Init
      OBVIOUS
    <2>1. PICK contents \in [FirstPages -> Versions] :
            session = NewSession(FirstPages, Stamp(InitialDocument(contents), 0))
      BY DEF Init
    <2>2. InitialDocument(contents) \in Versions /\ 0 \in Revisions
      BY InitialDocumentType, SessionAssumption DEF Revisions
    <2>3. session.pages = FirstPages /\ session.doc = Stamp(InitialDocument(contents), 0)
      BY <2>1 DEF NewSession
    <2>4. Version(session.doc) \in Versions
      BY <2>2, <2>3, VersionOfStamp
    <2>5. timeline.past = <<>> /\ timeline.future = <<>>
      BY DEF Init
    <2> QED
      BY <2>3, <2>4, <2>5, EditorSessionAssumption, SameWords DEF Abstract!Init
  <1>2. Standing /\ TypeOK' /\ [Next]_vars => [Abstract!Next]_(Abstract!vars)
    <2> SUFFICES ASSUME Standing, TypeOK', [Next]_vars
                 PROVE  [Abstract!Next]_(Abstract!vars)
      OBVIOUS
    <2>0. TypeOK /\ session \in Sessions
      BY DEF Standing, TypeOK
    <2>1. ASSUME session'.pages = session.pages, session'.doc = session.doc, timeline' = timeline
          PROVE  UNCHANGED Abstract!vars
      BY <2>1 DEF Abstract!vars, Version
    <2>2. CASE Submit
      BY <2>0, <2>2, RequestType, CommitMaps DEF Submit
    <2>3. CASE Prepare
      BY <2>1, <2>3 DEF Prepare
    <2>4. ASSUME NEW p \in prepared, Publish(p) PROVE Abstract!Next
      BY <2>4, PublishMaps
    <2>5. ASSUME NEW p \in prepared, RefusePublish(p) PROVE UNCHANGED Abstract!vars
      BY <2>1, <2>5 DEF RefusePublish
    <2>6. ASSUME NEW u \in TextValues, NEW v \in TextValues, PreviewReplaceAll(u, v)
          PROVE  UNCHANGED Abstract!vars
      <3>1. /\ \E previews : session' = [session EXCEPT !.replacePreviews = previews]
            /\ timeline' = timeline
        BY <2>6 DEF PreviewReplaceAll
      <3> QED
        BY <2>0, <2>1, <3>1 DEF Sessions
    <2>7. ASSUME NEW id \in CommandIds, NEW ids \in SUBSET Objects, NEW v \in TextValues,
                 PreviewTransaction(id, ids, v)
          PROVE  UNCHANGED Abstract!vars
      <3>1. /\ \E previews : session' = [session EXCEPT !.toolPreviews = previews]
            /\ timeline' = timeline
        BY <2>7 DEF PreviewTransaction
      <3> QED
        BY <2>0, <2>1, <3>1 DEF Sessions
    <2>8. ASSUME NEW id \in CommandIds, NEW preview \in Previews, CommitPreview(id, preview)
          PROVE  Abstract!Next
      <3> DEFINE c == PreviewCommand(id, session.revision, preview)
      <3>1. c \in Commands
        BY <2>0, PreviewCommandType
      <3>2. Accepts(session, c) /\ Commit(c)
        BY <2>8 DEF CommitPreview
      <3> HIDE DEF c
      <3> QED
        BY <3>1, <3>2, CommitMaps
    <2>9. CASE ApproveReplaceAll
      BY <2>0, <2>8, <2>9 DEF ApproveReplaceAll, Sessions
    <2>10. CASE CommitToolTransaction
      BY <2>0, <2>8, <2>10 DEF CommitToolTransaction, Sessions
    <2>11. ASSUME NEW page \in Pages, NEW content \in Imports[page],
                  HydratePage(page, content) \/ HydrateLivePage(page, content)
           PROVE  Abstract!Next
      <3>1. CanHydrateLive(session, page, content) /\ Load(page, content)
        BY <2>11 DEF HydratePage, HydrateLivePage, CanHydrate, CanHydrateLive
      <3> QED
        BY <3>1, LoadMaps
    <2>12. CASE Close
      BY <2>1, <2>12 DEF Close
    <2>13. CASE UNCHANGED vars
      BY <2>1, <2>13 DEF vars
    <2> QED
      BY <2>2, <2>3, <2>4, <2>5, <2>6, <2>7, <2>9, <2>10, <2>11, <2>12, <2>13 DEF Next
  <1> QED
    BY <1>1, <1>2, StandingAlways, TypeCorrect, PTL DEF Spec, KeepsTimeline, Abstract!Spec

-----------------------------------------------------------------------------
(* What a prepared command loses                                           *)

\* A command does to a session what it does to its origin, on the pages of
\* the origin, and makes the same history.
LEMMA SameCommand ==
  ASSUME NEW s \in Sessions, NEW tl \in Timelines, NEW s0 \in Sessions, NEW tl0 \in Timelines,
         NEW c \in Commands, Origin(s, tl, s0, tl0), s.revision > 0, Accepts(s0, c)
  PROVE  LET then == ApplyEnvelope(s0, c)
             now  == ApplyEnvelope(s, c)
         IN  /\ then.pages = s0.pages
             /\ then.doc = Part(now.doc, OnPages(s0.pages))
             /\ then.undo = now.undo /\ then.redo = now.redo
             /\ then.committed = now.committed
  <1> DEFINE then == ApplyEnvelope(s0, c)
             now  == ApplyEnvelope(s, c)
             ids  == OnPages(s0.pages)
  <1>1. /\ s0.doc = Part(s.doc, ids) /\ s0.undo = s.undo /\ s0.redo = s.redo
        /\ s0.revision = s.revision /\ s0.committed = s.committed
        /\ OnLoadedPages(s0)
    BY DEF Origin, Agrees
  <1>2. Applicable(s0, c) /\ Applicable(s, c)
    BY <1>1, AcceptedIsApplicable DEF Applicable
  <1>3. then.pages = s0.pages /\ then.committed = now.committed
    <2>1. then.pages = s0.pages /\ then.committed = s0.committed \cup {c.id}
      BY <1>2, EnvelopeFields
    <2>2. now.committed = s.committed \cup {c.id}
      BY <1>2, EnvelopeFields
    <2> QED
      BY <1>1, <2>1, <2>2
  <1>4. ASSUME NEW touched \in SUBSET ids, NEW f \in Documents, NEW g
        PROVE  /\ Overlay(Part(f, ids), touched, g) = Part(Overlay(f, touched, g), ids)
               /\ Part(Part(f, ids), touched) = Part(f, touched)
    BY DEF Overlay, Part
  <1>5. s.doc \in Documents /\ s0.undo \in Seq(HistoryEntries) /\ s0.redo \in Seq(HistoryEntries)
    BY DEF Sessions
  <1>6. CASE c.op # "Undo" /\ c.op # "Redo"
    <2>1. c.ids \in SUBSET ids
      BY <1>1, <1>6, ChangeChecks DEF Accepts
    <2> HIDE DEF ids
    <2>2. Entry(s0, c) = Entry(s, c)
      BY <1>1, <1>4, <1>5, <2>1 DEF Entry
    <2>3. Coalesces(s0, c) <=> Coalesces(s, c)
      BY <1>1, <2>2 DEF Coalesces
    <2>4. /\ then.doc = Overlay(s0.doc, c.ids, Entry(s, c).after)
          /\ now.doc = Overlay(s.doc, c.ids, Entry(s, c).after)
      BY <1>2, <1>6, <2>2, ChangeFields
    <2>5. then.doc = Part(now.doc, ids)
      <3> DEFINE after == Entry(s, c).after
      <3> HIDE DEF after
      <3>1. Overlay(Part(s.doc, ids), c.ids, after) = Part(Overlay(s.doc, c.ids, after), ids)
        BY <1>4, <1>5, <2>1
      <3>2. then.doc = Overlay(s0.doc, c.ids, after) /\ now.doc = Overlay(s.doc, c.ids, after)
        BY <2>4 DEF after
      <3> HIDE DEF then, now
      <3> QED
        BY <1>1, <3>1, <3>2
    <2>6. then.undo = now.undo /\ then.redo = now.redo
      <3> DEFINE joined == [s.undo EXCEPT ![Len(s.undo)] =
                              [LastOf(s.undo) EXCEPT !.after = Entry(s, c).after,
                                                     !.typing = c.typing]]
                 longer == Append(s.undo, Entry(s, c))
      <3>1. now.undo = (IF Coalesces(s, c) THEN joined ELSE longer) /\ now.redo = <<>>
        BY <1>2, <1>6, ChangeFields
      <3>2. then.undo = (IF Coalesces(s0, c) THEN joined ELSE longer) /\ then.redo = <<>>
        <4>1. then.redo = <<>>
          BY <1>2, <1>6, ChangeFields
        <4>2. then.undo = IF Coalesces(s0, c)
                          THEN [s0.undo EXCEPT ![Len(s0.undo)] =
                                  [LastOf(s0.undo) EXCEPT !.after = Entry(s0, c).after,
                                                          !.typing = c.typing]]
                          ELSE Append(s0.undo, Entry(s0, c))
          BY <1>2, <1>6, ChangeFields
        <4> HIDE DEF then, now
        <4> QED
          BY <1>1, <2>2, <4>1, <4>2
      <3> HIDE DEF joined, longer, then, now
      <3> QED
        BY <2>3, <3>1, <3>2
    <2> QED
      BY <1>3, <2>5, <2>6 DEF ids
  <1>7. CASE c.op = "Undo"
    <2> DEFINE entry == LastOf(s0.undo)
    <2>1. entry.ids \in SUBSET ids
      <3>1. s0.undo # <<>> /\ Len(s0.undo) \in DOMAIN s0.undo
        BY <1>2, <1>5, <1>7 DEF Applicable
      <3> QED
        BY <1>1, <3>1 DEF OnLoadedPages, LastOf
    <2>2. /\ then.doc = Overlay(s0.doc, entry.ids, Stamp(Version(entry.before), s.revision + 1))
          /\ now.doc = Overlay(s.doc, entry.ids, Stamp(Version(entry.before), s.revision + 1))
          /\ then.undo = now.undo /\ then.redo = now.redo
      BY <1>1, <1>2, <1>7, UndoFields
    <2> HIDE DEF ids, entry
    <2>3. then.doc = Part(now.doc, ids)
      BY <1>1, <1>4, <1>5, <2>1, <2>2
    <2> QED
      BY <1>3, <2>2, <2>3 DEF ids
  <1>8. CASE c.op = "Redo"
    <2> DEFINE entry == LastOf(s0.redo)
    <2>1. entry.ids \in SUBSET ids
      <3>1. s0.redo # <<>> /\ Len(s0.redo) \in DOMAIN s0.redo
        BY <1>2, <1>5, <1>8 DEF Applicable
      <3> QED
        BY <1>1, <3>1 DEF OnLoadedPages, LastOf
    <2>2. /\ then.doc = Overlay(s0.doc, entry.ids, Stamp(Version(entry.after), s.revision + 1))
          /\ now.doc = Overlay(s.doc, entry.ids, Stamp(Version(entry.after), s.revision + 1))
          /\ then.undo = now.undo /\ then.redo = now.redo
      BY <1>1, <1>2, <1>8, RedoFields
    <2> HIDE DEF ids, entry
    <2>3. then.doc = Part(now.doc, ids)
      BY <1>1, <1>4, <1>5, <2>1, <2>2
    <2> QED
      BY <1>3, <2>2, <2>3 DEF ids
  <1> QED
    BY <1>6, <1>7, <1>8

\* Publishing what was prepared gives what submitting it now would give, but
\* for the pages loaded since.
THEOREM OnlyHydrationIsLost == Spec => []PreparedLosesOnlyHydration
  <1>1. Standing => PreparedLosesOnlyHydration
    <2> SUFFICES ASSUME Standing, session.revision > 0, NEW p \in prepared, CanPublish(p)
                 PROVE  LET now == ApplyEnvelope(session, p.command) IN
                        /\ p.next.pages \subseteq session.pages
                        /\ p.next.doc = Part(now.doc, OnPages(p.next.pages))
                        /\ p.next.undo = now.undo
                        /\ p.next.redo = now.redo
                        /\ p.next.committed = now.committed
      BY DEF PreparedLosesOnlyHydration
    <2>1. PICK s0 \in Sessions, tl0 \in Timelines :
            Origin(session, timeline, s0, tl0) /\ PreparedIn(p, s0, tl0)
      BY DEF Standing, PreparedStand, CanPublish
    <2>2. session \in Sessions /\ timeline \in Timelines /\ p.command \in Commands
      BY DEF Standing, TypeOK, PreparedCommands
    <2>3. Accepts(s0, p.command) /\ p.next = ApplyEnvelope(s0, p.command)
          /\ s0.pages \subseteq session.pages
      BY <2>1 DEF PreparedIn, Origin
    <2> QED
      BY <2>1, <2>2, <2>3, SameCommand
  <1> QED
    BY <1>1, StandingAlways, PTL

-----------------------------------------------------------------------------
(* Previews                                                                *)

\* The inductive form: a preview at the present revision was computed from
\* pages that stay, and the previews of a prepared session are all older.
PreviewsStand ==
  /\ \A preview \in session.replacePreviews \cup session.toolPreviews :
       /\ preview.revision <= session.revision
       /\ preview.revision = session.revision /\ session.revision > 0 =>
            /\ preview.ids \subseteq OnPages(session.pages)
            /\ preview.seen = Part(Version(session.doc), preview.ids)
  /\ \A p \in prepared :
       \A preview \in p.next.replacePreviews \cup p.next.toolPreviews :
         preview.revision < p.next.revision

LEMMA CommitOutdates ==
  ASSUME Standing, PreviewsStand, NEW c \in Commands, Accepts(session, c)
  PROVE  LET next == ApplyEnvelope(session, c) IN
         \A preview \in next.replacePreviews \cup next.toolPreviews :
           preview.revision < next.revision
  <1>1. /\ ApplyEnvelope(session, c).revision = session.revision + 1
        /\ ApplyEnvelope(session, c).replacePreviews = {}
        /\ ApplyEnvelope(session, c).toolPreviews = session.toolPreviews
    BY EnvelopeFields, AcceptedIsApplicable DEF Standing, TypeOK
  <1>2. session.revision \in Nat /\ \A preview \in session.toolPreviews : preview.revision \in Nat
    BY SessionAssumption DEF Standing, TypeOK, Sessions, Previews, Revisions
  <1> QED
    BY <1>1, <1>2 DEF PreviewsStand

\* Older previews promise nothing.
LEMMA OutdatedStand ==
  ASSUME \A preview \in session'.replacePreviews \cup session'.toolPreviews :
           preview.revision < session'.revision,
         session' \in Sessions, prepared' \subseteq prepared, PreviewsStand
  PROVE  PreviewsStand'
  <1>1. session'.revision \in Nat
        /\ \A preview \in session'.replacePreviews \cup session'.toolPreviews :
             preview.revision \in Nat
    BY SessionAssumption DEF Sessions, Previews, Revisions
  <1>2. \A preview \in session'.replacePreviews \cup session'.toolPreviews :
          preview.revision <= session'.revision /\ preview.revision # session'.revision
    BY <1>1
  <1> QED
    BY <1>2 DEF PreviewsStand

\* A new preview shows what it was computed from, on loaded pages.
LEMMA NewPreviewStands ==
  ASSUME Standing, PreviewsStand, NEW preview,
         preview.revision = session.revision,
         preview.ids \subseteq OnPages(session.pages),
         preview.seen = Part(Version(session.doc), preview.ids),
         \/ session' = [session EXCEPT !.replacePreviews = @ \cup {preview}]
         \/ session' = [session EXCEPT !.toolPreviews = @ \cup {preview}],
         prepared' = prepared
  PROVE  PreviewsStand'
  <1>1. session \in Sessions /\ session.revision \in Nat
    BY SessionAssumption DEF Standing, TypeOK, Sessions, Revisions
  <1>2. /\ session'.revision = session.revision /\ session'.pages = session.pages
        /\ session'.doc = session.doc
        /\ session'.replacePreviews \cup session'.toolPreviews
             \subseteq session.replacePreviews \cup session.toolPreviews \cup {preview}
    BY <1>1 DEF Sessions
  <1>3. preview.revision <= session.revision
    BY <1>1
  <1>4. Version(session.doc)' = Version(session.doc)
    BY <1>2 DEF Version
  <1> QED
    BY <1>2, <1>3, <1>4 DEF PreviewsStand

\* A page that is loaded after the first command holds nothing a preview of
\* this revision was computed from.
LEMMA PreviewAfterLoad ==
  ASSUME Standing, PreviewsStand, NEW page \in Pages, NEW content \in Imports[page],
         CanHydrateLive(session, page, content), Load(page, content)
  PROVE  PreviewsStand'
  <1> DEFINE ids == OnPages({page})
  <1>1. /\ session \in Sessions /\ session.revision \in Nat /\ session.doc \in Documents
        /\ content \in Versions /\ 0 \in Revisions
    BY ImportType, SessionAssumption DEF Standing, TypeOK, Sessions, Revisions
  <1>2. /\ session'.revision = session.revision
        /\ session'.pages = session.pages \cup {page}
        /\ session'.doc = Overlay(session.doc, ids, Stamp(content, 0))
        /\ session'.replacePreviews = session.replacePreviews
        /\ session'.toolPreviews = session.toolPreviews
        /\ prepared' = prepared
    BY <1>1 DEF Load, LoadPage, Sessions
  <1>3. Version(session'.doc) = Overlay(Version(session.doc), ids, content)
    <2>1. Stamp(content, 0) \in Documents /\ Version(Stamp(content, 0)) = content
      BY <1>1, StampType, VersionOfStamp
    <2> QED
      BY <1>1, <1>2, <2>1, VersionOfOverlay
  <1>4. ASSUME NEW preview \in session.replacePreviews \cup session.toolPreviews,
               preview.revision = session.revision, session.revision > 0
        PROVE  /\ preview.ids \subseteq OnPages(session'.pages)
               /\ preview.seen = Part(Version(session'.doc), preview.ids)
    <2>1. /\ preview.ids \subseteq OnPages(session.pages)
          /\ preview.seen = Part(Version(session.doc), preview.ids)
      BY <1>4 DEF PreviewsStand
    <2>2. page \notin session.pages
      BY <1>1, <1>4 DEF CanHydrateLive
    <2>3. Part(Overlay(Version(session.doc), ids, content), preview.ids)
            = Part(Version(session.doc), preview.ids)
      BY <2>1, <2>2 DEF Part, Overlay, OnPages
    <2>4. OnPages(session.pages) \subseteq OnPages(session'.pages)
      BY <1>2 DEF OnPages
    <2> QED
      BY <1>3, <2>1, <2>3, <2>4
  <1> HIDE DEF ids
  <1>5. Version(session.doc)' = Version(session'.doc)
    OBVIOUS
  <1> QED
    BY <1>2, <1>4, <1>5 DEF PreviewsStand

LEMMA PreviewsStandKept == Standing /\ TypeOK' /\ PreviewsStand /\ [Next]_vars => PreviewsStand'
  <1> SUFFICES ASSUME Standing, TypeOK', PreviewsStand, [Next]_vars PROVE PreviewsStand'
    OBVIOUS
  <1>0. TypeOK /\ session \in Sessions /\ session' \in Sessions /\ OnLoadedPages(session)
    BY DEF Standing, TypeOK, HistoryAgreesWithDocument, Agrees
  <1>1. ASSUME NEW c \in Commands, Accepts(session, c), Commit(c), UNCHANGED prepared
        PROVE  PreviewsStand'
    BY <1>0, <1>1, CommitOutdates, OutdatedStand DEF Commit
  <1>2. CASE Submit
    <2>1. PICK c \in Requests : Commit(c)
      BY <1>2 DEF Submit
    <2> QED
      BY <1>0, <1>1, <1>2, <2>1, RequestType DEF Submit
  <1>3. CASE Prepare
    <2>1. PICK c \in Requests : prepared' = prepared \cup {PreparedFor(c)}
      BY <1>3 DEF Prepare
    <2>2. PreparedFor(c).next = ApplyEnvelope(session, c)
      BY DEF PreparedFor
    <2>3. \A preview \in PreparedFor(c).next.replacePreviews
                           \cup PreparedFor(c).next.toolPreviews :
            preview.revision < PreparedFor(c).next.revision
      BY <1>0, <2>1, <2>2, RequestType, CommitOutdates
    <2> QED
      BY <1>3, <2>1, <2>3 DEF Prepare, PreviewsStand
  <1>4. ASSUME NEW p \in prepared, Publish(p) PROVE PreviewsStand'
    BY <1>0, <1>4, OutdatedStand DEF Publish, PreviewsStand
  <1>5. ASSUME NEW p \in prepared, RefusePublish(p) PROVE PreviewsStand'
    BY <1>5 DEF RefusePublish, PreviewsStand
  <1>6. ASSUME NEW u \in TextValues, NEW v \in TextValues, PreviewReplaceAll(u, v)
        PROVE  PreviewsStand'
    <2> DEFINE matches == {o \in Objects : session.doc[o] # NoObject /\ session.doc[o].value = u}
               preview == [revision |-> session.revision, ids |-> matches,
                           values |-> Part(All(v), matches),
                           seen |-> Part(Version(session.doc), matches)]
    <2>1. session' = [session EXCEPT !.replacePreviews = @ \cup {preview}] /\ prepared' = prepared
      BY <1>6 DEF PreviewReplaceAll
    <2>2. preview.revision = session.revision
      OBVIOUS
    <2>3. preview.ids \subseteq OnPages(session.pages)
      BY <1>0 DEF OnLoadedPages, OnPages
    <2>4. preview.seen = Part(Version(session.doc), preview.ids)
      OBVIOUS
    <2> HIDE DEF preview
    <2> QED
      BY <2>1, <2>2, <2>3, <2>4, NewPreviewStands
  <1>7. ASSUME NEW id \in CommandIds, NEW ids \in SUBSET Objects, NEW v \in TextValues,
               PreviewTransaction(id, ids, v)
        PROVE  PreviewsStand'
    <2> DEFINE c == Command("ApplyTransaction", id, ids, All(v), NoTyping)
               preview == [revision |-> session.revision, ids |-> ids, values |-> c.values,
                           seen |-> Part(Version(session.doc), ids)]
    <2>1. /\ session' = [session EXCEPT !.toolPreviews = @ \cup {preview}]
          /\ prepared' = prepared /\ Accepts(session, c)
      BY <1>7 DEF PreviewTransaction
    <2>2. preview.revision = session.revision
      OBVIOUS
    <2>3. preview.ids \subseteq OnPages(session.pages)
      <3>1. c.op = "ApplyTransaction" /\ c.ids = ids
        BY DEF Command
      <3>2. c \in Commands
        <4>1. "ApplyTransaction" \in ChangeCommands \cup {"Undo", "Redo"}
          BY DEF ChangeCommands
        <4>2. v \in Values
          BY DEF Values
        <4>3. All(v) \in Versions
          BY <4>2, AllType
        <4> QED
          BY <1>0, <4>1, <4>3, CommandType
      <3> HIDE DEF c
      <3>3. CanChange(session, c)
        BY <2>1, <3>1 DEF Accepts
      <3>4. ids \subseteq OnPages(session.pages)
        BY <1>0, <3>1, <3>2, <3>3, ChangeChecks
      <3> QED
        BY <3>4
    <2>4. preview.seen = Part(Version(session.doc), preview.ids)
      OBVIOUS
    <2> HIDE DEF preview
    <2> QED
      BY <2>1, <2>2, <2>3, <2>4, NewPreviewStands
  <1>8. ASSUME NEW id \in CommandIds, NEW preview \in Previews, CommitPreview(id, preview)
        PROVE  PreviewsStand'
    <2> DEFINE c == PreviewCommand(id, session.revision, preview)
    <2>1. c \in Commands
      BY <1>0, PreviewCommandType
    <2>2. Accepts(session, c) /\ Commit(c) /\ UNCHANGED prepared
      BY <1>8 DEF CommitPreview
    <2> HIDE DEF c
    <2> QED
      BY <1>1, <2>1, <2>2
  <1>9. CASE ApproveReplaceAll
    BY <1>0, <1>8, <1>9 DEF ApproveReplaceAll, Sessions
  <1>10. CASE CommitToolTransaction
    BY <1>0, <1>8, <1>10 DEF CommitToolTransaction, Sessions
  <1>11. ASSUME NEW page \in Pages, NEW content \in Imports[page],
                HydratePage(page, content) \/ HydrateLivePage(page, content)
         PROVE  PreviewsStand'
    <2>1. CanHydrateLive(session, page, content) /\ Load(page, content)
      BY <1>11 DEF HydratePage, HydrateLivePage, CanHydrate, CanHydrateLive
    <2> QED
      BY <2>1, PreviewAfterLoad
  <1>12. CASE Close
    BY <1>12 DEF Close, PreviewsStand
  <1>13. CASE UNCHANGED vars
    BY <1>13 DEF vars, PreviewsStand
  <1> QED
    BY <1>2, <1>3, <1>4, <1>5, <1>6, <1>7, <1>9, <1>10, <1>11, <1>12, <1>13 DEF Next

\* A preview that can be approved shows the text its transaction replaces.
THEOREM PreviewsShowTheText == Spec => []PreviewMatchesDocument
  <1>1. Init => PreviewsStand
    <2> SUFFICES ASSUME Init PROVE PreviewsStand
      OBVIOUS
    <2>1. session.replacePreviews = {} /\ session.toolPreviews = {} /\ prepared = {}
      BY DEF Init, NewSession
    <2> QED
      BY <2>1 DEF PreviewsStand
  <1>2. PreviewsStand => PreviewMatchesDocument
    BY DEF PreviewsStand, PreviewMatchesDocument, CanCommitPreview
  <1> QED
    BY <1>1, <1>2, PreviewsStandKept, StandingAlways, TypeCorrect, PTL DEF Spec
=============================================================================
