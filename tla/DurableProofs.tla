---------------------------- MODULE DurableProofs ----------------------------
(***************************************************************************)
(* Theorems about DurableSession: what recovery builds is the session that *)
(* the journal promises, what is acknowledged is in the journal, what was  *)
(* appended can be published, and the journal only grows, for every value  *)
(* of the constants, every damage to the stored models and any number of   *)
(* restarts.                                                               *)
(*                                                                         *)
(* The argument: every entry of the journal tells what its command changed *)
(* (Journaled), so replaying it on a model of the session before gives a   *)
(* model of the session after (ReplayShows), and recovering it after the   *)
(* history before gives the history after (RecoveredHistoryOf).  A page    *)
(* that is loaded later is on no stored model and on no entry.             *)
(***************************************************************************)
EXTENDS DurableSession, EditorSessionProofs, Induction

-----------------------------------------------------------------------------
(* The recovered history and the replayed model                            *)

\* g recovers the first n entries of a journal.
Recovers(g, n, journal) ==
  g = [i \in 0 .. n |-> IF i = 0 THEN NothingRecovered ELSE RecoverEntry(g[i - 1], journal[i])]

LEMMA RecoversExists ==
  ASSUME NEW journal, NEW n \in Nat
  PROVE  \E g : Recovers(g, n, journal)
  <1> DEFINE S == {k \in Nat : \E g : Recovers(g, k, journal)}
  <1>1. 0 \in S
    <2> DEFINE g == [i \in 0 .. 0 |-> NothingRecovered]
    <2>1. Recovers(g, 0, journal)
      BY DEF Recovers
    <2> QED
      BY <2>1
  <1>2. ASSUME NEW k \in Nat, k \in S PROVE k + 1 \in S
    <2>1. PICK g : Recovers(g, k, journal)
      BY <1>2
    <2> DEFINE h == [i \in 0 .. k + 1 |->
                       IF i <= k THEN g[i] ELSE RecoverEntry(g[k], journal[k + 1])]
    <2>2. \A i \in 0 .. k : g[i] = IF i = 0 THEN NothingRecovered
                                   ELSE RecoverEntry(g[i - 1], journal[i])
      BY <2>1, Zenon DEF Recovers
    <2>3. \A i \in 0 .. k + 1 : h[i] = IF i = 0 THEN NothingRecovered
                                       ELSE RecoverEntry(h[i - 1], journal[i])
      BY <2>2
    <2>4. h = [i \in 0 .. k + 1 |-> h[i]]
      OBVIOUS
    <2> HIDE DEF h
    <2>5. Recovers(h, k + 1, journal)
      BY <2>3, <2>4 DEF Recovers
    <2> QED
      BY <2>5
  <1> HIDE DEF S
  <1>3. Nat \subseteq S
    BY <1>1, <1>2, SetInduction
  <1> QED
    BY <1>3 DEF S

LEMMA RecoversSame ==
  ASSUME NEW j1, NEW n1 \in Nat, NEW g1, Recovers(g1, n1, j1),
         NEW j2, NEW n2 \in Nat, NEW g2, Recovers(g2, n2, j2),
         NEW n \in Nat, n <= n1, n <= n2, \A i \in 1 .. n : j1[i] = j2[i]
  PROVE  g1[n] = g2[n]
  <1> DEFINE S == {k \in Nat : k <= n => g1[k] = g2[k]}
  <1>1. /\ \A i \in 0 .. n1 : g1[i] = IF i = 0 THEN NothingRecovered
                                      ELSE RecoverEntry(g1[i - 1], j1[i])
        /\ \A i \in 0 .. n2 : g2[i] = IF i = 0 THEN NothingRecovered
                                      ELSE RecoverEntry(g2[i - 1], j2[i])
    BY Zenon DEF Recovers
  <1>2. 0 \in S
    BY <1>1
  <1>3. ASSUME NEW k \in Nat, k \in S PROVE k + 1 \in S
    BY <1>1, <1>3
  <1> HIDE DEF S
  <1>4. Nat \subseteq S
    BY <1>2, <1>3, SetInduction
  <1> QED
    BY <1>4 DEF S

LEMMA RecoveredIs ==
  ASSUME NEW journal, Len(journal) \in Nat
  PROVE  \E g : Recovers(g, Len(journal), journal) /\ RecoveredHistory(journal) = g[Len(journal)]
  <1> DEFINE g == CHOOSE g : Recovers(g, Len(journal), journal)
  <1>1. Recovers(g, Len(journal), journal)
    BY RecoversExists
  <1>2. RecoveredHistory(journal) = g[Len(journal)]
    BY Zenon DEF RecoveredHistory, Recovers
  <1> QED
    BY <1>1, <1>2

\* What recovery makes of the empty journal, and of one more entry.
LEMMA RecoveredNone == RecoveredHistory(<<>>) = NothingRecovered
  <1>1. PICK g : Recovers(g, 0, <<>>) /\ RecoveredHistory(<<>>) = g[0]
    BY RecoveredIs
  <1>2. \A i \in 0 .. 0 : g[i] = IF i = 0 THEN NothingRecovered
                                 ELSE RecoverEntry(g[i - 1], <<>>[i])
    BY <1>1, Zenon DEF Recovers
  <1> QED
    BY <1>1, <1>2

LEMMA RecoveredStep ==
  ASSUME NEW S, NEW journal \in Seq(S), NEW e \in S
  PROVE  RecoveredHistory(Append(journal, e)) = RecoverEntry(RecoveredHistory(journal), e)
  <1> DEFINE more == Append(journal, e)
             n == Len(journal)
  <1>1. /\ n \in Nat /\ Len(more) = n + 1 /\ more[n + 1] = e
        /\ \A i \in 1 .. n : more[i] = journal[i]
    OBVIOUS
  <1> HIDE DEF n, more
  <1>2. PICK g : Recovers(g, n, journal) /\ RecoveredHistory(journal) = g[n]
    BY <1>1, RecoveredIs DEF n
  <1>3. PICK h : Recovers(h, n + 1, more) /\ RecoveredHistory(more) = h[n + 1]
    BY <1>1, RecoveredIs
  <1>4. h[n] = g[n]
    BY <1>1, <1>2, <1>3, RecoversSame
  <1>5. h[n + 1] = RecoverEntry(h[n], more[n + 1])
    <2>1. \A i \in 0 .. n + 1 : h[i] = IF i = 0 THEN NothingRecovered
                                       ELSE RecoverEntry(h[i - 1], more[i])
      BY <1>3, Zenon DEF Recovers
    <2> QED
      BY <1>1, <2>1
  <1> QED
    BY <1>1, <1>2, <1>3, <1>4, <1>5 DEF more

\* g replays the first n entries of a journal on a snapshot.
Replays(g, n, snap, journal, revision) ==
  g = [i \in 0 .. n |->
         IF i = 0 THEN StoredModel(snap)
         ELSE IF snap.revision < journal[i].committed /\ journal[i].committed <= revision
              THEN Replay(g[i - 1], journal[i])
              ELSE g[i - 1]]

\* What entry i makes of the model m.
Replayed(m, i, snap, journal, revision) ==
  IF snap.revision < journal[i].committed /\ journal[i].committed <= revision
  THEN Replay(m, journal[i])
  ELSE m

EachReplayed(g, n, snap, journal, revision) ==
  \A i \in 0 .. n : g[i] = IF i = 0 THEN StoredModel(snap)
                           ELSE Replayed(g[i - 1], i, snap, journal, revision)

LEMMA ReplaysEach ==
  ASSUME NEW g, NEW n, NEW snap, NEW journal, NEW revision,
         Replays(g, n, snap, journal, revision)
  PROVE  EachReplayed(g, n, snap, journal, revision)
  BY Zenon DEF Replays, Replayed, EachReplayed

LEMMA ReplaysExists ==
  ASSUME NEW snap, NEW journal, NEW revision, NEW n \in Nat
  PROVE  \E g : Replays(g, n, snap, journal, revision)
  <1> DEFINE S == {k \in Nat : \E g : Replays(g, k, snap, journal, revision)}
  <1>1. 0 \in S
    <2> DEFINE g == [i \in 0 .. 0 |-> StoredModel(snap)]
    <2>1. g = [i \in 0 .. 0 |-> g[i]]
      OBVIOUS
    <2>2. \A i \in 0 .. 0 : g[i] = IF i = 0 THEN StoredModel(snap)
                                   ELSE Replayed(g[i - 1], i, snap, journal, revision)
      OBVIOUS
    <2> HIDE DEF g
    <2>3. Replays(g, 0, snap, journal, revision)
      BY <2>1, <2>2 DEF Replays, Replayed
    <2> QED
      BY <2>3
  <1>2. ASSUME NEW k \in Nat, k \in S PROVE k + 1 \in S
    <2>1. PICK g : Replays(g, k, snap, journal, revision)
      BY <1>2
    <2> DEFINE last == Replayed(g[k], k + 1, snap, journal, revision)
    <2> HIDE DEF last
    <2> DEFINE h == [i \in 0 .. k + 1 |-> IF i <= k THEN g[i] ELSE last]
    <2>2. \A i \in 0 .. k : g[i] = IF i = 0 THEN StoredModel(snap)
                                   ELSE Replayed(g[i - 1], i, snap, journal, revision)
      <3>1. EachReplayed(g, k, snap, journal, revision)
        BY <2>1, ReplaysEach, Zenon
      <3> QED
        BY <3>1, Zenon DEF EachReplayed
    <2>3. \A i \in 0 .. k + 1 : h[i] = IF i = 0 THEN StoredModel(snap)
                                       ELSE Replayed(h[i - 1], i, snap, journal, revision)
      BY <2>2 DEF last
    <2>4. h = [i \in 0 .. k + 1 |-> h[i]]
      OBVIOUS
    <2> HIDE DEF h
    <2>5. Replays(h, k + 1, snap, journal, revision)
      BY <2>3, <2>4 DEF Replays, Replayed
    <2> QED
      BY <2>5
  <1> HIDE DEF S
  <1>3. Nat \subseteq S
    BY <1>1, <1>2, SetInduction
  <1> QED
    BY <1>3 DEF S

LEMMA ReplayedIs ==
  ASSUME NEW snap, NEW journal, NEW revision, Len(journal) \in Nat
  PROVE  \E g : /\ Replays(g, Len(journal), snap, journal, revision)
                /\ ReplayedFrom(snap, journal, revision) = g[Len(journal)]
  <1> DEFINE g == CHOOSE g : Replays(g, Len(journal), snap, journal, revision)
  <1>1. Replays(g, Len(journal), snap, journal, revision)
    BY ReplaysExists
  <1>2. ReplayedFrom(snap, journal, revision) = g[Len(journal)]
    BY Zenon DEF ReplayedFrom, Replays
  <1> QED
    BY <1>1, <1>2

\* A snapshot that no entry follows is the model.
LEMMA ReplayedNothing ==
  ASSUME NEW snap, NEW S, NEW journal \in Seq(S), NEW revision,
         \A i \in 1 .. Len(journal) : ~(snap.revision < journal[i].committed)
  PROVE  ReplayedFrom(snap, journal, revision) = StoredModel(snap)
  <1> DEFINE n == Len(journal)
  <1>1. PICK g : /\ Replays(g, n, snap, journal, revision)
                 /\ ReplayedFrom(snap, journal, revision) = g[n]
    BY ReplayedIs
  <1>2. n \in Nat
    OBVIOUS
  <1>3. \A i \in 0 .. n : g[i] = IF i = 0 THEN StoredModel(snap)
                                 ELSE Replayed(g[i - 1], i, snap, journal, revision)
    <2>1. EachReplayed(g, n, snap, journal, revision)
      BY <1>1, ReplaysEach, Zenon
    <2> QED
      BY <2>1, Zenon DEF EachReplayed
  <1> DEFINE T == {k \in Nat : k <= n => g[k] = StoredModel(snap)}
  <1> HIDE DEF n
  <1>4. 0 \in T
    BY <1>2, <1>3
  <1>5. ASSUME NEW k \in Nat, k \in T PROVE k + 1 \in T
    BY <1>2, <1>3, <1>5 DEF Replayed, n
  <1> HIDE DEF T
  <1>6. Nat \subseteq T
    BY <1>4, <1>5, SetInduction
  <1> QED
    BY <1>1, <1>2, <1>6 DEF T

\* The entry of a new revision is replayed after those before it.
LEMMA ReplayedStep ==
  ASSUME NEW snap, NEW S, NEW journal \in Seq(S), NEW e \in S, NEW r \in Int, NEW revision \in Int,
         \A i \in 1 .. Len(journal) : journal[i].committed \in Int /\ journal[i].committed <= r,
         r <= revision, e.committed = revision, snap.revision < revision
  PROVE  ReplayedFrom(snap, Append(journal, e), revision)
           = Replay(ReplayedFrom(snap, journal, r), e)
  <1> DEFINE n == Len(journal)
             more == Append(journal, e)
  <1>1. /\ n \in Nat /\ n + 1 \in Nat /\ Len(more) = n + 1 /\ more[n + 1] = e
        /\ \A i \in 1 .. n : /\ more[i] = journal[i]
                             /\ journal[i].committed \in Int /\ journal[i].committed <= r
    <2>1. Len(journal) \in Nat
      OBVIOUS
    <2>2. Len(more) = n + 1 /\ more[n + 1] = e
      OBVIOUS
    <2>3. \A i \in 1 .. n : more[i] = journal[i]
      OBVIOUS
    <2> QED
      BY <2>1, <2>2, <2>3
  <1> HIDE DEF n, more
  <1>2. PICK g : /\ Replays(g, n, snap, journal, r)
                 /\ ReplayedFrom(snap, journal, r) = g[n]
    BY ReplayedIs DEF n
  <1>3. PICK h : /\ Replays(h, n + 1, snap, more, revision)
                 /\ ReplayedFrom(snap, more, revision) = h[n + 1]
    BY <1>1, ReplayedIs
  <1>4. EachReplayed(g, n, snap, journal, r)
    BY <1>2, ReplaysEach, Zenon
  <1>5. EachReplayed(h, n + 1, snap, more, revision)
    BY <1>3, ReplaysEach, Zenon
  <1>6. \A i \in 1 .. n : \A m :
          Replayed(m, i, snap, more, revision) = Replayed(m, i, snap, journal, r)
    <2> SUFFICES ASSUME NEW i \in 1 .. n, NEW m
                 PROVE  Replayed(m, i, snap, more, revision) = Replayed(m, i, snap, journal, r)
      OBVIOUS
    <2>1. more[i] = journal[i] /\ journal[i].committed <= r /\ journal[i].committed <= revision
      BY <1>1
    <2> QED
      BY <2>1 DEF Replayed
  <1> DEFINE T == {k \in Nat : k <= n => h[k] = g[k]}
  <1>7. 0 \in T
    BY <1>1, <1>4, <1>5 DEF EachReplayed
  <1>8. ASSUME NEW k \in Nat, k \in T PROVE k + 1 \in T
    <2> SUFFICES ASSUME k + 1 <= n PROVE h[k + 1] = g[k + 1]
      OBVIOUS
    <2>1. k <= n /\ k + 1 \in 1 .. n /\ k + 1 \in 0 .. n + 1 /\ k + 1 \in 0 .. n /\ k + 1 - 1 = k
      BY <1>1
    <2>2. h[k] = g[k]
      BY <1>8, <2>1
    <2>3. h[k + 1] = Replayed(h[k], k + 1, snap, more, revision)
      BY <1>5, <2>1 DEF EachReplayed
    <2>4. g[k + 1] = Replayed(g[k], k + 1, snap, journal, r)
      BY <1>4, <2>1 DEF EachReplayed
    <2> QED
      BY <1>6, <2>1, <2>2, <2>3, <2>4
  <1> HIDE DEF T
  <1>9. Nat \subseteq T
    BY <1>7, <1>8, SetInduction
  <1>10. h[n] = g[n]
    BY <1>1, <1>9 DEF T
  <1>11. h[n + 1] = Replayed(h[n], n + 1, snap, more, revision)
    BY <1>1, <1>5 DEF EachReplayed
  <1> QED
    BY <1>1, <1>2, <1>3, <1>10, <1>11 DEF Replayed, more

-----------------------------------------------------------------------------
(* What the journal tells of a command                                     *)

\* The part of a session that the journal brings back.
HistoryOf(s) ==
  [ok |-> TRUE, revision |-> s.revision, committed |-> s.committed,
   undo |-> s.undo, redo |-> s.redo]

IdsIn(stack) == UNION {stack[i].ids : i \in DOMAIN stack}
StackIds(s) == IdsIn(s.undo) \cup IdsIn(s.redo)

\* An entry creates its objects, deletes them, or changes them all.
Whole(e) ==
  /\ \A o \in Objects \ e.ids : e.before[o] = NoObject /\ e.after[o] = NoObject
  /\ \A o \in e.ids : e.before[o] # NoObject \/ e.after[o] # NoObject
  /\ (\A o \in e.ids : e.before[o] = NoObject) \/ (\A o \in e.ids : e.before[o] # NoObject)
  /\ (\A o \in e.ids : e.after[o] = NoObject) \/ (\A o \in e.ids : e.after[o] # NoObject)

WholeStacks(s) ==
  /\ \A i \in DOMAIN s.undo : Whole(s.undo[i])
  /\ \A i \in DOMAIN s.redo : Whole(s.redo[i])

\* No object was modified by a revision to come, and every entry is whole:
\* the objects a command changes are those that its entry names.
Tracked(s) ==
  /\ \A o \in Objects : s.doc[o] # NoObject => s.doc[o].modified <= s.revision
  /\ WholeStacks(s)

LEMMA StampAbsent ==
  ASSUME NEW version \in Versions, NEW r \in Revisions, NEW o \in Objects
  PROVE  /\ Stamp(version, r)[o] = NoObject <=> version[o] = NoObject
         /\ version[o] # NoObject => Stamp(version, r)[o].modified = r
  <1>1. CASE version[o] = NoObject
    BY <1>1 DEF Stamp
  <1>2. CASE version[o] # NoObject
    <2> DEFINE stamped == [value |-> version[o], modified |-> r]
    <2>1. Stamp(version, r)[o] = stamped
      BY <1>2 DEF Stamp
    <2>2. stamped \in [value : Values, modified : Revisions]
      BY <1>2 DEF Versions
    <2>3. stamped # NoObject
      BY <2>2, SessionAssumption
    <2>4. stamped.modified = r
      OBVIOUS
    <2> HIDE DEF stamped
    <2> QED
      BY <1>2, <2>1, <2>3, <2>4
  <1> QED
    BY <1>1, <1>2

\* What the accepted changes write.
LEMMA ChangeKinds ==
  ASSUME NEW s \in Sessions, NEW c \in Commands, CanChange(s, c), c.op # "Undo", c.op # "Redo"
  PROVE  \/ /\ c.op \in ObjectCommands
            /\ \E o \in Objects : c.ids = {o} /\ s.doc[o] # NoObject /\ c.values[o] # NoObject
         \/ /\ c.op = "ApplyTransaction" /\ c.ids # {}
            /\ \A o \in c.ids : s.doc[o] # NoObject /\ c.values[o] # NoObject
         \/ /\ c.op = "CreateAnnotation"
            /\ \E o \in Objects : c.ids = {o} /\ s.doc[o] = NoObject /\ c.values[o] # NoObject
         \/ /\ c.op = "DeleteAnnotation"
            /\ \E o \in Objects : c.ids = {o} /\ s.doc[o] # NoObject /\ c.values[o] = NoObject
         \/ c.op = "CreateCheckpoint" /\ c.ids = {}
  <1>1. Editable \subseteq Objects /\ NoObject \notin TextValues /\ NoObject \notin AnnotationValues
    BY SessionAssumption DEF Values
  <1>2. CASE c.op = "ReplaceTextRange"
    BY <1>1, <1>2 DEF CanChange, ObjectCommands
  <1>3. CASE c.op = "EditObject"
    BY <1>1, <1>3 DEF CanChange, ObjectCommands
  <1>4. CASE c.op = "UpdateAnnotation"
    BY <1>1, <1>4 DEF CanChange, ObjectCommands
  <1>5. CASE c.op = "ApplyTransaction"
    BY <1>1, <1>5 DEF CanChange
  <1>6. CASE c.op = "CreateAnnotation"
    BY <1>1, <1>6 DEF CanChange
  <1>7. CASE c.op = "DeleteAnnotation"
    BY <1>1, <1>7 DEF CanChange
  <1>8. CASE c.op = "CreateCheckpoint"
    BY <1>8 DEF CanChange
  <1> QED
    BY <1>2, <1>3, <1>4, <1>5, <1>6, <1>7, <1>8 DEF Commands, ChangeCommands, ObjectCommands

\* Both sides of a command's entry.
LEMMA EntrySides ==
  ASSUME NEW s \in Sessions, NEW c \in Commands, s.revision < MaxRevision, NEW o \in Objects
  PROVE  /\ Entry(s, c).ids = c.ids
         /\ Entry(s, c).typing = c.typing
         /\ Entry(s, c).before[o] = IF o \in c.ids THEN s.doc[o] ELSE NoObject
         /\ Entry(s, c).after[o]
              = IF o \in c.ids THEN Stamp(c.values, s.revision + 1)[o] ELSE NoObject
         /\ o \in c.ids => (Entry(s, c).after[o] = NoObject <=> c.values[o] = NoObject)
         /\ o \in c.ids /\ c.values[o] # NoObject =>
              Entry(s, c).after[o].modified = s.revision + 1
  <1>1. c.values \in Versions /\ s.revision + 1 \in Revisions
    BY SessionAssumption DEF Commands, Sessions, Revisions
  <1>2. /\ Entry(s, c).ids = c.ids /\ Entry(s, c).typing = c.typing
        /\ Entry(s, c).before[o] = IF o \in c.ids THEN s.doc[o] ELSE NoObject
        /\ Entry(s, c).after[o]
             = IF o \in c.ids THEN Stamp(c.values, s.revision + 1)[o] ELSE NoObject
    BY DEF Entry, Part
  <1> QED
    BY <1>1, <1>2, StampAbsent

LEMMA EntryWhole ==
  ASSUME NEW s \in Sessions, NEW c \in Commands, CanChange(s, c), c.op # "Undo", c.op # "Redo",
         s.revision < MaxRevision
  PROVE  Whole(Entry(s, c))
  <1> DEFINE e == Entry(s, c)
  <1>1. /\ e.ids = c.ids
        /\ \A o \in Objects :
             /\ e.before[o] = IF o \in c.ids THEN s.doc[o] ELSE NoObject
             /\ o \notin c.ids => e.after[o] = NoObject
             /\ o \in c.ids => (e.after[o] = NoObject <=> c.values[o] = NoObject)
    BY EntrySides DEF Entry
  <1>2. c.ids \subseteq Objects
    BY DEF Commands
  <1> HIDE DEF e
  <1>3. Whole(e)
    BY <1>1, <1>2, ChangeKinds DEF Whole
  <1> QED
    BY <1>3 DEF e

\* A keystroke that joins an entry leaves it whole.
LEMMA JoinedWhole ==
  ASSUME NEW e \in HistoryEntries, NEW f \in HistoryEntries, NEW typing,
         Whole(e), Whole(f), e.ids = f.ids, \A o \in f.ids : f.after[o] # NoObject
  PROVE  Whole([e EXCEPT !.after = f.after, !.typing = typing])
  <1> DEFINE g == [e EXCEPT !.after = f.after, !.typing = typing]
  <1>1. g.ids = e.ids /\ g.before = e.before /\ g.after = f.after
    BY DEF HistoryEntries
  <1> HIDE DEF g
  <1>2. Whole(g)
    BY <1>1 DEF Whole
  <1> QED
    BY <1>2 DEF g

\* What the entries of a longer or a shorter stack have in common.
LEMMA StackEach ==
  ASSUME NEW S, NEW stack \in Seq(S), NEW e \in S
  PROVE  /\ \A i \in DOMAIN Append(stack, e) :
              Append(stack, e)[i] = e \/ \E j \in DOMAIN stack : Append(stack, e)[i] = stack[j]
         /\ stack # <<>> =>
              /\ Len(stack) \in DOMAIN stack /\ LastOf(stack) = stack[Len(stack)]
              /\ \A i \in DOMAIN FrontOf(stack) :
                   i \in DOMAIN stack /\ FrontOf(stack)[i] = stack[i]
              /\ \A i \in DOMAIN [stack EXCEPT ![Len(stack)] = e] :
                   /\ i \in DOMAIN stack
                   /\ [stack EXCEPT ![Len(stack)] = e][i] = IF i = Len(stack) THEN e ELSE stack[i]
  <1>1. \A i \in DOMAIN Append(stack, e) :
          Append(stack, e)[i] = e \/ \E j \in DOMAIN stack : Append(stack, e)[i] = stack[j]
    <2> SUFFICES ASSUME NEW i \in DOMAIN Append(stack, e), Append(stack, e)[i] # e
                 PROVE  \E j \in DOMAIN stack : Append(stack, e)[i] = stack[j]
      OBVIOUS
    <2>1. i \in DOMAIN stack /\ Append(stack, e)[i] = stack[i]
      OBVIOUS
    <2> QED
      BY <2>1
  <1>2. ASSUME stack # <<>>
        PROVE  /\ Len(stack) \in DOMAIN stack /\ LastOf(stack) = stack[Len(stack)]
               /\ \A i \in DOMAIN FrontOf(stack) :
                    i \in DOMAIN stack /\ FrontOf(stack)[i] = stack[i]
               /\ \A i \in DOMAIN [stack EXCEPT ![Len(stack)] = e] :
                    /\ i \in DOMAIN stack
                    /\ [stack EXCEPT ![Len(stack)] = e][i] = IF i = Len(stack) THEN e ELSE stack[i]
    <2>1. /\ FrontOf(stack) \in Seq(S)
          /\ Len(FrontOf(stack)) = Len(stack) - 1
          /\ \A i \in 1 .. Len(stack) - 1 : FrontOf(stack)[i] = stack[i]
      BY <1>2, StackTypes
    <2>2. Len(stack) \in DOMAIN stack
      BY <1>2
    <2>3. \A i \in DOMAIN FrontOf(stack) : i \in DOMAIN stack /\ FrontOf(stack)[i] = stack[i]
      BY <2>1
    <2> QED
      BY <2>2, <2>3 DEF LastOf
  <1> QED
    BY <1>1, <1>2

\* Stacks of whole entries stay so: pushing, popping and rewriting the newest.
LEMMA WholeStack ==
  ASSUME NEW stack \in Seq(HistoryEntries), NEW e \in HistoryEntries, Whole(e),
         \A i \in DOMAIN stack : Whole(stack[i])
  PROVE  /\ \A i \in DOMAIN Append(stack, e) : Whole(Append(stack, e)[i])
         /\ stack # <<>> =>
              /\ LastOf(stack) \in HistoryEntries /\ Whole(LastOf(stack))
              /\ \A i \in DOMAIN FrontOf(stack) : Whole(FrontOf(stack)[i])
              /\ \A i \in DOMAIN [stack EXCEPT ![Len(stack)] = e] :
                   Whole([stack EXCEPT ![Len(stack)] = e][i])
  <1>1. \A i \in DOMAIN Append(stack, e) : Whole(Append(stack, e)[i])
    <2> SUFFICES ASSUME NEW i \in DOMAIN Append(stack, e)
                 PROVE  Whole(Append(stack, e)[i])
      OBVIOUS
    <2>1. CASE Append(stack, e)[i] = e
      BY <2>1
    <2>2. ASSUME NEW j \in DOMAIN stack, Append(stack, e)[i] = stack[j]
          PROVE  Whole(Append(stack, e)[i])
      BY <2>2
    <2> QED
      BY <2>1, <2>2, StackEach
  <1>2. ASSUME stack # <<>>
        PROVE  /\ LastOf(stack) \in HistoryEntries /\ Whole(LastOf(stack))
               /\ \A i \in DOMAIN FrontOf(stack) : Whole(FrontOf(stack)[i])
    <2>1. Len(stack) \in DOMAIN stack /\ LastOf(stack) = stack[Len(stack)]
      BY <1>2, StackEach
    <2>2. \A i \in DOMAIN FrontOf(stack) : i \in DOMAIN stack /\ FrontOf(stack)[i] = stack[i]
      BY <1>2, StackEach
    <2>3. LastOf(stack) \in HistoryEntries
      BY <2>1
    <2> QED
      BY <2>1, <2>2, <2>3, Zenon
  <1>3. ASSUME stack # <<>>
        PROVE  \A i \in DOMAIN [stack EXCEPT ![Len(stack)] = e] :
                 Whole([stack EXCEPT ![Len(stack)] = e][i])
    <2> DEFINE rewritten == [stack EXCEPT ![Len(stack)] = e]
    <2>1. \A i \in DOMAIN rewritten : /\ i \in DOMAIN stack
                                     /\ rewritten[i] = IF i = Len(stack) THEN e ELSE stack[i]
      BY <1>3, StackEach
    <2> HIDE DEF rewritten
    <2>2. \A i \in DOMAIN rewritten : Whole(rewritten[i])
      <3> SUFFICES ASSUME NEW i \in DOMAIN rewritten PROVE Whole(rewritten[i])
        OBVIOUS
      <3>1. CASE i = Len(stack)
        <4>1. rewritten[i] = e
          BY <2>1, <3>1
        <4> QED
          BY <4>1
      <3>2. CASE i # Len(stack)
        <4>1. rewritten[i] = stack[i] /\ i \in DOMAIN stack
          BY <2>1, <3>2
        <4> QED
          BY <4>1
      <3> QED
        BY <3>1, <3>2
    <2> QED
      BY <2>2 DEF rewritten
  <1> QED
    BY <1>1, <1>2, <1>3, Zenon

\* The document a command leaves: what it wrote has the new revision.
LEMMA WrittenNow ==
  ASSUME NEW s \in Sessions, NEW ids, NEW written \in Documents,
         \A o \in Objects : s.doc[o] # NoObject => s.doc[o].modified <= s.revision,
         \A o \in Objects : o \in ids /\ written[o] # NoObject =>
                              written[o].modified = s.revision + 1,
         NEW o \in Objects, Overlay(s.doc, ids, written)[o] # NoObject
  PROVE  Overlay(s.doc, ids, written)[o].modified <= s.revision + 1
  <1>1. s.revision \in Int /\ s.doc \in Documents
    BY SessionAssumption DEF Sessions, Revisions
  <1>2. Overlay(s.doc, ids, written)[o] = IF o \in ids THEN written[o] ELSE s.doc[o]
    BY DEF Overlay
  <1>3. CASE o \in ids
    BY <1>1, <1>2, <1>3
  <1>4. CASE o \notin ids
    <2>1. s.doc[o] # NoObject /\ s.doc[o] \in ObjectRecords
      BY <1>1, <1>2, <1>4 DEF Documents
    <2>2. s.doc[o].modified \in Int /\ s.doc[o].modified <= s.revision
      BY <2>1 DEF ObjectRecords, Revisions
    <2> QED
      BY <1>1, <1>2, <1>4, <2>2
  <1> QED
    BY <1>3, <1>4

\* Every command keeps the session tracked.
LEMMA EnvelopeTracked ==
  ASSUME NEW s \in Sessions, NEW c \in Commands, Accepts(s, c), Tracked(s)
  PROVE  Tracked(ApplyEnvelope(s, c))
  <1> DEFINE t == ApplyEnvelope(s, c)
             r == s.revision + 1
  <1>0. /\ Applicable(s, c) /\ s.revision < MaxRevision /\ r \in Revisions
        /\ s.undo \in Seq(HistoryEntries) /\ s.redo \in Seq(HistoryEntries)
        /\ t.revision = r /\ s.doc \in Documents
        /\ \A o \in Objects : s.doc[o] # NoObject => s.doc[o].modified <= s.revision
        /\ \A i \in DOMAIN s.undo : Whole(s.undo[i])
        /\ \A i \in DOMAIN s.redo : Whole(s.redo[i])
    BY AcceptedIsApplicable, EnvelopeFields, SessionAssumption
    DEF Accepts, Sessions, Revisions, Tracked, WholeStacks
  <1>1. CASE c.op # "Undo" /\ c.op # "Redo"
    <2> DEFINE e == Entry(s, c)
    <2>1. CanChange(s, c)
      BY <1>1 DEF Accepts
    <2>2. e \in HistoryEntries /\ Whole(e) /\ e.after \in Documents
      BY <1>0, <1>1, <2>1, EntryType, EntryWhole DEF HistoryEntries
    <2>3. \A o \in Objects : o \in c.ids /\ e.after[o] # NoObject =>
                               e.after[o].modified = s.revision + 1
      BY <1>0, EntrySides
    <2>4. t.doc = Overlay(s.doc, c.ids, e.after)
      BY <1>0, <1>1, ChangeFields
    <2> HIDE DEF e
    <2>5. \A o \in Objects : t.doc[o] # NoObject => t.doc[o].modified <= t.revision
      <3>1. \A o \in Objects : Overlay(s.doc, c.ids, e.after)[o] # NoObject =>
              Overlay(s.doc, c.ids, e.after)[o].modified <= s.revision + 1
        BY <1>0, <2>2, <2>3, WrittenNow
      <3> HIDE DEF t
      <3> QED
        BY <1>0, <2>4, <3>1
    <2>6. t.redo = <<>>
      BY <1>0, <1>1, ChangeFields
    <2>7. \A i \in DOMAIN t.undo : Whole(t.undo[i])
      <3>1. CASE Coalesces(s, c)
        <4> DEFINE joined == [LastOf(s.undo) EXCEPT !.after = e.after, !.typing = c.typing]
        <4>1. /\ s.undo # <<>> /\ c.op = "ReplaceTextRange" /\ LastOf(s.undo).ids = e.ids
          BY <3>1 DEF Coalesces, CanCoalesce, e
        <4>2. LastOf(s.undo) \in HistoryEntries /\ Whole(LastOf(s.undo))
          BY <1>0, <2>2, <4>1, WholeStack
        <4>3. \A o \in e.ids : e.after[o] # NoObject
          <5>1. PICK o \in Objects : c.ids = {o} /\ c.values[o] # NoObject
            BY <1>1, <2>1, <4>1, ChangeKinds
          <5> QED
            BY <1>0, <5>1, EntrySides DEF e
        <4>4. Whole(joined)
          BY <2>2, <4>1, <4>2, <4>3, JoinedWhole
        <4>5. t.undo = [s.undo EXCEPT ![Len(s.undo)] = joined]
          BY <1>0, <1>1, <3>1, ChangeFields DEF e
        <4>6. joined \in HistoryEntries
          BY <2>2, <4>2 DEF HistoryEntries, Commands
        <4> HIDE DEF joined, t
        <4> QED
          BY <1>0, <4>1, <4>4, <4>5, <4>6, WholeStack
      <3>2. CASE ~Coalesces(s, c)
        <4>1. t.undo = Append(s.undo, e)
          BY <1>0, <1>1, <3>2, ChangeFields DEF e
        <4> HIDE DEF t
        <4> QED
          BY <1>0, <2>2, <4>1, WholeStack
      <3> QED
        BY <3>1, <3>2
    <2> HIDE DEF t
    <2>8. Tracked(t)
      BY <2>5, <2>6, <2>7 DEF Tracked, WholeStacks
    <2> QED
      BY <2>8 DEF t
  <1>2. ASSUME NEW side \in Documents, NEW ids
        PROVE  LET written == Stamp(Version(side), r) IN
               /\ written \in Documents
               /\ \A o \in Objects : Overlay(s.doc, ids, written)[o] # NoObject =>
                    Overlay(s.doc, ids, written)[o].modified <= r
    <2>1. Version(side) \in Versions /\ Stamp(Version(side), r) \in Documents
      BY <1>0, VersionType, StampType
    <2>2. \A o \in Objects : Stamp(Version(side), r)[o] # NoObject =>
                               Stamp(Version(side), r)[o].modified = s.revision + 1
      BY <1>0, <2>1, StampAbsent
    <2> DEFINE written == Stamp(Version(side), r)
    <2>3. \A o \in Objects : o \in ids /\ written[o] # NoObject =>
                               written[o].modified = s.revision + 1
      BY <2>2
    <2>4. written \in Documents
      BY <2>1
    <2> HIDE DEF written
    <2>5. \A o \in Objects : Overlay(s.doc, ids, written)[o] # NoObject =>
                               Overlay(s.doc, ids, written)[o].modified <= r
      BY <1>0, <2>3, <2>4, WrittenNow
    <2> QED
      BY <2>4, <2>5 DEF written
  <1>3. CASE c.op = "Undo"
    <2> DEFINE e == LastOf(s.undo)
    <2>1. s.undo # <<>> /\ e \in HistoryEntries /\ Whole(e) /\ e.before \in Documents
      <3>1. s.undo # <<>>
        BY <1>0, <1>3 DEF Applicable
      <3>2. e \in HistoryEntries /\ Whole(e)
        <4>1. s.undo[Len(s.undo)] \in HistoryEntries /\ Whole(s.undo[Len(s.undo)])
          BY <1>0, <3>1
        <4> QED
          BY <4>1 DEF LastOf
      <3> QED
        BY <3>1, <3>2 DEF HistoryEntries
    <2>2. /\ t.doc = Overlay(s.doc, e.ids, Stamp(Version(e.before), r))
          /\ t.undo = FrontOf(s.undo) /\ t.redo = Append(s.redo, e)
      BY <1>0, <1>3, UndoFields
    <2> HIDE DEF e, t
    <2>3. \A o \in Objects : t.doc[o] # NoObject => t.doc[o].modified <= t.revision
      BY <1>0, <1>2, <2>1, <2>2
    <2>4. WholeStacks(t)
      BY <1>0, <2>1, <2>2, WholeStack DEF WholeStacks
    <2>5. Tracked(t)
      BY <2>3, <2>4 DEF Tracked
    <2> QED
      BY <2>5 DEF t
  <1>4. CASE c.op = "Redo"
    <2> DEFINE e == LastOf(s.redo)
    <2>1. s.redo # <<>> /\ e \in HistoryEntries /\ Whole(e) /\ e.after \in Documents
      <3>1. s.redo # <<>>
        BY <1>0, <1>4 DEF Applicable
      <3>2. e \in HistoryEntries /\ Whole(e)
        <4>1. s.redo[Len(s.redo)] \in HistoryEntries /\ Whole(s.redo[Len(s.redo)])
          BY <1>0, <3>1
        <4> QED
          BY <4>1 DEF LastOf
      <3> QED
        BY <3>1, <3>2 DEF HistoryEntries
    <2>2. /\ t.doc = Overlay(s.doc, e.ids, Stamp(Version(e.after), r))
          /\ t.redo = FrontOf(s.redo) /\ t.undo = Append(s.undo, e)
      BY <1>0, <1>4, RedoFields
    <2> HIDE DEF e, t
    <2>3. \A o \in Objects : t.doc[o] # NoObject => t.doc[o].modified <= t.revision
      BY <1>0, <1>2, <2>1, <2>2
    <2>4. WholeStacks(t)
      BY <1>0, <2>1, <2>2, WholeStack DEF WholeStacks
    <2>5. Tracked(t)
      BY <2>3, <2>4 DEF Tracked
    <2> QED
      BY <2>5 DEF t
  <1> QED
    BY <1>1, <1>3, <1>4

-----------------------------------------------------------------------------
(* What a command changes, and what its entry in the journal tells         *)

\* The objects that a command names, or that the entry it walks over names.
Touched(s, c) ==
  CASE c.op = "Undo" -> LastOf(s.undo).ids
    [] c.op = "Redo" -> LastOf(s.redo).ids
    [] OTHER         -> c.ids

\* An object restored or written has a stamp that it did not have before.
LEMMA RestoredChanges ==
  ASSUME NEW s \in Sessions, Tracked(s), s.revision < MaxRevision,
         NEW e \in HistoryEntries, Whole(e), NEW from \in Documents, NEW to \in Documents,
         <<from, to>> \in {<<e.after, e.before>>, <<e.before, e.after>>},
         CanRestore(s, e, from, to), NEW o \in e.ids
  PROVE  LET written == Stamp(Version(to), s.revision + 1) IN
         /\ written[o] # s.doc[o]
         /\ s.doc[o] # NoObject \/ written[o] # NoObject
         /\ written[o] = NoObject <=> to[o] = NoObject
  <1> DEFINE written == Stamp(Version(to), s.revision + 1)
  <1>1. /\ o \in Objects /\ s.revision + 1 \in Revisions /\ s.revision \in Int
        /\ Version(to) \in Versions
    BY VersionType, SessionAssumption DEF HistoryEntries, Sessions, Revisions
  <1>2. /\ written[o] = NoObject <=> to[o] = NoObject
        /\ written[o] # NoObject => written[o].modified = s.revision + 1
    BY <1>1, StampAbsent, AbsentInVersion
  <1>3. s.doc[o] = NoObject <=> from[o] = NoObject
    BY DEF CanRestore
  <1>4. from[o] # NoObject \/ to[o] # NoObject
    BY DEF Whole
  <1>5. s.doc[o] # NoObject => s.doc[o].modified <= s.revision
    BY <1>1 DEF Tracked
  <1> HIDE DEF written
  <1>6. written[o] # s.doc[o]
    <2> SUFFICES ASSUME written[o] = s.doc[o] PROVE FALSE
      OBVIOUS
    <2>1. s.doc[o] # NoObject
      BY <1>2, <1>3, <1>4
    <2>2. s.doc[o].modified = s.revision + 1
      BY <1>2, <2>1
    <2> QED
      BY <1>1, <1>5, <2>1, <2>2
  <1>7. s.doc[o] # NoObject \/ written[o] # NoObject
    BY <1>2, <1>3, <1>4
  <1> QED
    BY <1>2, <1>6, <1>7 DEF written

LEMMA WrittenChanges ==
  ASSUME NEW s \in Sessions, Tracked(s), s.revision < MaxRevision,
         NEW c \in Commands, CanChange(s, c), c.op # "Undo", c.op # "Redo", NEW o \in c.ids
  PROVE  LET written == Entry(s, c).after IN
         /\ written[o] # s.doc[o]
         /\ s.doc[o] # NoObject \/ written[o] # NoObject
         /\ written[o] = NoObject <=> c.values[o] = NoObject
  <1> DEFINE written == Entry(s, c).after
  <1>1. o \in Objects /\ s.revision \in Int
    BY SessionAssumption DEF Commands, Sessions, Revisions
  <1>2. /\ written[o] = NoObject <=> c.values[o] = NoObject
        /\ c.values[o] # NoObject => written[o].modified = s.revision + 1
    BY <1>1, EntrySides
  <1>3. s.doc[o] # NoObject \/ c.values[o] # NoObject
    BY ChangeKinds
  <1>4. s.doc[o] # NoObject => s.doc[o].modified <= s.revision
    BY <1>1 DEF Tracked
  <1> HIDE DEF written
  <1>5. written[o] # s.doc[o]
    <2> SUFFICES ASSUME written[o] = s.doc[o] PROVE FALSE
      OBVIOUS
    <2>1. s.doc[o] # NoObject /\ c.values[o] # NoObject
      BY <1>2, <1>3
    <2>2. s.doc[o].modified = s.revision + 1
      BY <1>2, <2>1
    <2> QED
      BY <1>1, <1>4, <2>1, <2>2
  <1> QED
    BY <1>2, <1>3, <1>5 DEF written

\* t differs from s in exactly the objects ids, which all exist before or
\* after, and after either all or none.
Changes(s, t, ids) ==
  /\ ids \subseteq OnPages(s.pages) /\ ids \subseteq Objects
  /\ ChangedObjects(s.doc, t.doc) = ids
  /\ \A o \in Objects \ ids : t.doc[o] = s.doc[o]
  /\ \A o \in ids : s.doc[o] # NoObject \/ t.doc[o] # NoObject
  /\ (\A o \in ids : t.doc[o] = NoObject) \/ (\A o \in ids : t.doc[o] # NoObject)

LEMMA OverlayChanges ==
  ASSUME NEW s, NEW t, NEW ids, NEW written, ids \subseteq OnPages(s.pages),
         t.doc = Overlay(s.doc, ids, written),
         \A o \in ids : written[o] # s.doc[o],
         \A o \in ids : s.doc[o] # NoObject \/ written[o] # NoObject,
         (\A o \in ids : written[o] = NoObject) \/ (\A o \in ids : written[o] # NoObject)
  PROVE  Changes(s, t, ids)
  <1>1. ids \in SUBSET Objects
    BY DEF OnPages
  <1>2. /\ ChangedObjects(s.doc, t.doc) = ids
        /\ \A o \in ids : t.doc[o] = written[o]
        /\ \A o \in Objects \ ids : t.doc[o] = s.doc[o]
    BY <1>1 DEF ChangedObjects, Overlay
  <1> QED
    BY <1>1, <1>2 DEF Changes

LEMMA CommandChanges ==
  ASSUME NEW s \in Sessions, NEW c \in Commands, Accepts(s, c), Tracked(s), OnLoadedPages(s)
  PROVE  Changes(s, ApplyEnvelope(s, c), Touched(s, c))
  <1> DEFINE t == ApplyEnvelope(s, c)
             ids == Touched(s, c)
  <1>1. /\ Applicable(s, c) /\ s.revision < MaxRevision
        /\ s.undo \in Seq(HistoryEntries) /\ s.redo \in Seq(HistoryEntries)
        /\ \A i \in DOMAIN s.undo : Whole(s.undo[i]) /\ s.undo[i].ids \subseteq OnPages(s.pages)
        /\ \A i \in DOMAIN s.redo : Whole(s.redo[i]) /\ s.redo[i].ids \subseteq OnPages(s.pages)
    BY AcceptedIsApplicable DEF Accepts, Sessions, Tracked, WholeStacks, OnLoadedPages
  <1>3. CASE c.op # "Undo" /\ c.op # "Redo"
    <2> DEFINE written == Entry(s, c).after
    <2>1. ids = c.ids /\ CanChange(s, c)
      BY <1>3 DEF Touched, Accepts
    <2>2. ids \subseteq OnPages(s.pages)
      BY <1>3, <2>1, ChangeChecks
    <2>3. t.doc = Overlay(s.doc, ids, written)
      BY <1>1, <1>3, <2>1, ChangeFields
    <2>4. /\ \A o \in ids : written[o] # s.doc[o]
          /\ \A o \in ids : s.doc[o] # NoObject \/ written[o] # NoObject
          /\ \A o \in ids : written[o] = NoObject <=> c.values[o] = NoObject
      BY <1>1, <1>3, <2>1, WrittenChanges
    <2>5. (\A o \in ids : written[o] = NoObject) \/ (\A o \in ids : written[o] # NoObject)
      BY <1>3, <2>1, <2>4, ChangeKinds
    <2> HIDE DEF written
    <2> QED
      BY <2>2, <2>3, <2>4, <2>5, OverlayChanges
  <1>4. CASE c.op = "Undo"
    <2> DEFINE e == LastOf(s.undo)
               written == Stamp(Version(e.before), s.revision + 1)
    <2>1. ids = e.ids /\ s.undo # <<>> /\ CanRestore(s, e, e.after, e.before)
      BY <1>4 DEF Touched, Accepts, CanUndo
    <2>2. Len(s.undo) \in DOMAIN s.undo
      BY <1>1, <2>1
    <2>3. e \in HistoryEntries /\ Whole(e) /\ e.ids \subseteq OnPages(s.pages)
      BY <1>1, <2>2 DEF LastOf
    <2>4. t.doc = Overlay(s.doc, ids, written)
      BY <1>1, <1>4, <2>1, UndoFields
    <2> HIDE DEF e
    <2>5. /\ \A o \in ids : written[o] # s.doc[o]
          /\ \A o \in ids : s.doc[o] # NoObject \/ written[o] # NoObject
          /\ \A o \in ids : written[o] = NoObject <=> e.before[o] = NoObject
      <3>1. e.before \in Documents /\ e.after \in Documents
        BY <2>3 DEF HistoryEntries
      <3> QED
        BY <1>1, <2>1, <2>3, <3>1, RestoredChanges
    <2>6. (\A o \in ids : written[o] = NoObject) \/ (\A o \in ids : written[o] # NoObject)
      BY <2>1, <2>3, <2>5 DEF Whole
    <2> HIDE DEF written
    <2> QED
      BY <2>1, <2>3, <2>4, <2>5, <2>6, OverlayChanges
  <1>5. CASE c.op = "Redo"
    <2> DEFINE e == LastOf(s.redo)
               written == Stamp(Version(e.after), s.revision + 1)
    <2>1. ids = e.ids /\ s.redo # <<>> /\ CanRestore(s, e, e.before, e.after)
      BY <1>5 DEF Touched, Accepts, CanRedo
    <2>2. Len(s.redo) \in DOMAIN s.redo
      BY <1>1, <2>1
    <2>3. e \in HistoryEntries /\ Whole(e) /\ e.ids \subseteq OnPages(s.pages)
      BY <1>1, <2>2 DEF LastOf
    <2>4. t.doc = Overlay(s.doc, ids, written)
      BY <1>1, <1>5, <2>1, RedoFields
    <2> HIDE DEF e
    <2>5. /\ \A o \in ids : written[o] # s.doc[o]
          /\ \A o \in ids : s.doc[o] # NoObject \/ written[o] # NoObject
          /\ \A o \in ids : written[o] = NoObject <=> e.after[o] = NoObject
      <3>1. e.before \in Documents /\ e.after \in Documents
        BY <2>3 DEF HistoryEntries
      <3> QED
        BY <1>1, <2>1, <2>3, <3>1, RestoredChanges
    <2>6. (\A o \in ids : written[o] = NoObject) \/ (\A o \in ids : written[o] # NoObject)
      BY <2>1, <2>3, <2>5 DEF Whole
    <2> HIDE DEF written
    <2> QED
      BY <2>1, <2>3, <2>4, <2>5, <2>6, OverlayChanges
  <1> QED
    BY <1>3, <1>4, <1>5

\* What the journal's entry for p tells of the session s that p was made from:
\* recovery makes the new history of it, and replay the new document.
Journaled(s, p) ==
  LET ids == Changed(JournalEntry(p)) IN
  /\ RecoverEntry(HistoryOf(s), JournalEntry(p)) = HistoryOf(p.next)
  /\ ids \subseteq OnPages(p.next.pages)
  /\ {o \in Objects : p.after[o] # NoObject} \in {{}, ids}
  /\ \A o \in ids : p.next.doc[o] = p.after[o]
  /\ s.revision > 0 => \A o \in OnPages(p.next.pages) \ ids : p.next.doc[o] = s.doc[o]
  /\ StackIds(p.next) \subseteq StackIds(s) \cup ids

LEMMA JournalEntryFields ==
  ASSUME NEW p
  PROVE  /\ JournalEntry(p).id = p.command.id /\ JournalEntry(p).op = p.command.op
         /\ JournalEntry(p).previous = p.previous
         /\ JournalEntry(p).committed = p.next.revision
         /\ JournalEntry(p).before = p.before /\ JournalEntry(p).after = p.after
         /\ JournalEntry(p).typing = p.command.typing
  BY DEF JournalEntry

\* Both sides of an entry in the journal.
LEMMA JournaledSides ==
  ASSUME NEW s, NEW t, NEW ids, Changes(s, t, ids), NEW e,
         e.before = Part(s.doc, ids), e.after = Part(t.doc, ids)
  PROVE  /\ Changed(e) = ids
         /\ {o \in Objects : e.before[o] # NoObject} = {o \in ids : s.doc[o] # NoObject}
         /\ {o \in Objects : e.after[o] # NoObject} = {o \in ids : t.doc[o] # NoObject}
         /\ {o \in Objects : e.after[o] # NoObject} \in {{}, ids}
         /\ \A o \in ids : t.doc[o] = e.after[o]
  <1>1. /\ \A o \in Objects : e.before[o] = (IF o \in ids THEN s.doc[o] ELSE NoObject)
        /\ \A o \in Objects : e.after[o] = (IF o \in ids THEN t.doc[o] ELSE NoObject)
    BY DEF Part
  <1>2. ids \subseteq Objects
    BY DEF Changes
  <1>3. Changed(e) = ids
    BY <1>1, <1>2 DEF Changes, Changed
  <1>4. {o \in Objects : e.after[o] # NoObject} \in {{}, ids}
    BY <1>1, <1>2 DEF Changes
  <1> QED
    BY <1>1, <1>2, <1>3, <1>4

\* A change has recorded the states that its payload must have recorded.
LEMMA ChangeRecords ==
  ASSUME NEW s \in Sessions, NEW c \in Commands, Accepts(s, c), Tracked(s), OnLoadedPages(s),
         c.op # "Undo", c.op # "Redo",
         NEW e, e.op = c.op, e.before = Part(s.doc, c.ids),
         e.after = Part(ApplyEnvelope(s, c).doc, c.ids)
  PROVE  RecordedStates(e)
  <1> DEFINE t == ApplyEnvelope(s, c)
             befores == {o \in Objects : e.before[o] # NoObject}
             afters  == {o \in Objects : e.after[o] # NoObject}
  <1>1. Changes(s, t, c.ids)
    BY CommandChanges DEF Touched
  <1>2. CanChange(s, c) /\ s.revision < MaxRevision /\ Applicable(s, c)
    BY AcceptedIsApplicable DEF Accepts
  <1>3. \A o \in c.ids : t.doc[o] = NoObject <=> c.values[o] = NoObject
    <2>1. c.ids \subseteq Objects /\ t.doc = Overlay(s.doc, c.ids, Entry(s, c).after)
      BY <1>2, ChangeFields DEF Commands
    <2>2. \A o \in c.ids : t.doc[o] = Entry(s, c).after[o]
      BY <2>1 DEF Overlay
    <2> QED
      BY <1>2, <2>2, WrittenChanges
  <1> HIDE DEF t
  <1>4. /\ befores = {o \in c.ids : s.doc[o] # NoObject}
        /\ afters = {o \in c.ids : c.values[o] # NoObject}
    <2>1. e.after = Part(t.doc, c.ids)
      BY DEF t
    <2> QED
      BY <1>1, <1>3, <2>1, JournaledSides
  <1>5. \A o \in Objects : Cardinality({o}) = 1
    BY FS_Singleton
  <1> HIDE DEF befores, afters
  <1>6. CASE c.op \in ObjectCommands
    <2>1. PICK o \in Objects : c.ids = {o} /\ s.doc[o] # NoObject /\ c.values[o] # NoObject
      BY <1>2, <1>6, ChangeKinds DEF ObjectCommands
    <2>2. befores = {o} /\ afters = {o}
      BY <1>4, <2>1
    <2> QED
      BY <1>5, <1>6, <2>2 DEF RecordedStates, ObjectCommands, befores, afters
  <1>7. CASE c.op = "ApplyTransaction"
    <2>1. c.ids # {} /\ \A o \in c.ids : s.doc[o] # NoObject /\ c.values[o] # NoObject
      BY <1>2, <1>7, ChangeKinds DEF ObjectCommands
    <2>2. befores = c.ids /\ afters = c.ids
      BY <1>4, <2>1
    <2> QED
      BY <1>7, <2>1, <2>2 DEF RecordedStates, befores, afters
  <1>8. CASE c.op = "CreateAnnotation"
    <2>1. PICK o \in Objects : c.ids = {o} /\ s.doc[o] = NoObject /\ c.values[o] # NoObject
      BY <1>2, <1>8, ChangeKinds DEF ObjectCommands
    <2>2. befores = {} /\ afters = {o}
      BY <1>4, <2>1
    <2> QED
      BY <1>5, <1>8, <2>2 DEF RecordedStates, befores, afters
  <1>9. CASE c.op = "DeleteAnnotation"
    <2>1. PICK o \in Objects : c.ids = {o} /\ s.doc[o] # NoObject /\ c.values[o] = NoObject
      BY <1>2, <1>9, ChangeKinds DEF ObjectCommands
    <2>2. befores = {o} /\ afters = {}
      BY <1>4, <2>1
    <2> QED
      BY <1>5, <1>9, <2>2 DEF RecordedStates, befores, afters
  <1>10. CASE c.op = "CreateCheckpoint"
    BY <1>10 DEF RecordedStates
  <1> QED
    BY <1>6, <1>7, <1>8, <1>9, <1>10 DEF Commands, ChangeCommands

\* A keystroke joins the recovered undo stack exactly if it joined the live one.
LEMMA RecoveredChange ==
  ASSUME NEW s \in Sessions, NEW c \in Commands, Accepts(s, c), Tracked(s), OnLoadedPages(s),
         c.op # "Undo", c.op # "Redo",
         NEW e, e.op = c.op, e.typing = c.typing, e.before = Part(s.doc, c.ids),
         e.after = Part(ApplyEnvelope(s, c).doc, c.ids)
  PROVE  RecoveredUndo(s.undo, e) = ApplyEnvelope(s, c).undo
  <1> DEFINE t == ApplyEnvelope(s, c)
             entry == Entry(s, c)
  <1>1. Changes(s, t, c.ids) /\ Applicable(s, c)
    BY CommandChanges, AcceptedIsApplicable DEF Touched
  <1>2. /\ t.doc = Overlay(s.doc, c.ids, entry.after)
        /\ t.undo = IF Coalesces(s, c)
                    THEN [s.undo EXCEPT ![Len(s.undo)] =
                            [LastOf(s.undo) EXCEPT !.after = entry.after, !.typing = c.typing]]
                    ELSE Append(s.undo, entry)
    BY <1>1, ChangeFields
  <1>3. entry = [ids |-> c.ids, before |-> Part(s.doc, c.ids), after |-> entry.after,
                 typing |-> c.typing]
    BY DEF Entry
  <1>4. entry.after = Part(entry.after, c.ids)
    BY DEF Entry, Part
  <1> HIDE DEF entry, t
  <1>5. e.after = entry.after
    <2>1. e.after = Part(t.doc, c.ids)
      BY DEF t
    <2>2. Part(Overlay(s.doc, c.ids, entry.after), c.ids) = Part(entry.after, c.ids)
      BY DEF Part, Overlay
    <2> QED
      BY <1>2, <1>4, <2>1, <2>2
  <1>6. Changed(e) = c.ids
    <2>1. e.after = Part(t.doc, c.ids)
      BY DEF t
    <2> QED
      BY <1>1, <2>1, JournaledSides
  <1>7. Recorded(e) = entry
    BY <1>3, <1>5, <1>6 DEF Recorded
  <1>8. Coalesces(s, c) <=> (e.op = "ReplaceTextRange" /\ CanCoalesce(s.undo, entry))
    BY DEF Coalesces, entry
  <1>9. RecoveredUndo(s.undo, e)
          = IF Coalesces(s, c)
            THEN [s.undo EXCEPT ![Len(s.undo)] =
                    [LastOf(s.undo) EXCEPT !.after = e.after, !.typing = e.typing]]
            ELSE Append(s.undo, entry)
    BY <1>7, <1>8 DEF RecoveredUndo
  <1>10. RecoveredUndo(s.undo, e) = t.undo
    BY <1>2, <1>5, <1>9
  <1> QED
    BY <1>10 DEF t

\* The objects of a stack that grows, shrinks or has its newest entry rewritten.
LEMMA IdsOfStack ==
  ASSUME NEW stack \in Seq(HistoryEntries), NEW e \in HistoryEntries
  PROVE  /\ IdsIn(Append(stack, e)) \subseteq IdsIn(stack) \cup e.ids
         /\ stack # <<>> =>
              /\ LastOf(stack).ids \subseteq IdsIn(stack)
              /\ IdsIn(FrontOf(stack)) \subseteq IdsIn(stack)
              /\ e.ids = LastOf(stack).ids =>
                   IdsIn([stack EXCEPT ![Len(stack)] = e]) \subseteq IdsIn(stack)
  <1>1. IdsIn(Append(stack, e)) \subseteq IdsIn(stack) \cup e.ids
    <2> SUFFICES ASSUME NEW i \in DOMAIN Append(stack, e)
                 PROVE  Append(stack, e)[i].ids \subseteq IdsIn(stack) \cup e.ids
      BY Zenon DEF IdsIn
    <2>1. CASE Append(stack, e)[i] = e
      BY <2>1
    <2>2. ASSUME NEW j \in DOMAIN stack, Append(stack, e)[i] = stack[j]
          PROVE  Append(stack, e)[i].ids \subseteq IdsIn(stack) \cup e.ids
      BY <2>2 DEF IdsIn
    <2> QED
      BY <2>1, <2>2, StackEach
  <1>2. ASSUME stack # <<>>
        PROVE  /\ LastOf(stack).ids \subseteq IdsIn(stack)
               /\ IdsIn(FrontOf(stack)) \subseteq IdsIn(stack)
    <2>1. Len(stack) \in DOMAIN stack /\ LastOf(stack) = stack[Len(stack)]
      BY <1>2, StackEach
    <2>2. \A i \in DOMAIN FrontOf(stack) : i \in DOMAIN stack /\ FrontOf(stack)[i] = stack[i]
      BY <1>2, StackEach
    <2> QED
      BY <2>1, <2>2, Zenon DEF IdsIn
  <1>3. ASSUME stack # <<>>, e.ids = LastOf(stack).ids
        PROVE  IdsIn([stack EXCEPT ![Len(stack)] = e]) \subseteq IdsIn(stack)
    <2> DEFINE rewritten == [stack EXCEPT ![Len(stack)] = e]
    <2>1. \A i \in DOMAIN rewritten : /\ i \in DOMAIN stack
                                     /\ rewritten[i] = IF i = Len(stack) THEN e ELSE stack[i]
      BY <1>3, StackEach
    <2>2. Len(stack) \in DOMAIN stack /\ LastOf(stack) = stack[Len(stack)]
      BY <1>3, StackEach
    <2> HIDE DEF rewritten
    <2>3. \A i \in DOMAIN rewritten : i \in DOMAIN stack /\ rewritten[i].ids = stack[i].ids
      <3> SUFFICES ASSUME NEW i \in DOMAIN rewritten
                   PROVE  i \in DOMAIN stack /\ rewritten[i].ids = stack[i].ids
        OBVIOUS
      <3>1. CASE i = Len(stack)
        BY <1>3, <2>1, <2>2, <3>1
      <3>2. CASE i # Len(stack)
        <4>1. i \in DOMAIN stack /\ rewritten[i] = stack[i]
          BY <2>1, <3>2
        <4> QED
          BY <4>1
      <3> QED
        BY <3>1, <3>2
    <2>4. IdsIn(rewritten) \subseteq IdsIn(stack)
      BY <2>3, Zenon DEF IdsIn
    <2> QED
      BY <2>4 DEF rewritten
  <1> QED
    BY <1>1, <1>2, <1>3

\* A command puts no other objects on the stacks than those it touches.
LEMMA CommandStackIds ==
  ASSUME NEW s \in Sessions, NEW c \in Commands, Accepts(s, c)
  PROVE  StackIds(ApplyEnvelope(s, c)) \subseteq StackIds(s) \cup Touched(s, c)
  <1> DEFINE t == ApplyEnvelope(s, c)
  <1>1. /\ Applicable(s, c) /\ s.revision + 1 \in Revisions
        /\ s.undo \in Seq(HistoryEntries) /\ s.redo \in Seq(HistoryEntries)
    BY AcceptedIsApplicable, SessionAssumption DEF Accepts, Sessions, Revisions
  <1>2. CASE c.op # "Undo" /\ c.op # "Redo"
    <2> DEFINE e == Entry(s, c)
               joined == [LastOf(s.undo) EXCEPT !.after = e.after, !.typing = c.typing]
    <2>1. Touched(s, c) = e.ids /\ e \in HistoryEntries /\ t.redo = <<>>
      BY <1>1, <1>2, EntryType, ChangeFields DEF Touched, Entry, Accepts
    <2>2. IdsIn(t.undo) \subseteq IdsIn(s.undo) \cup e.ids
      <3>1. CASE Coalesces(s, c)
        <4>1. s.undo # <<>>
          BY <3>1 DEF Coalesces, CanCoalesce
        <4>2. LastOf(s.undo) \in HistoryEntries
          BY <1>1, <4>1, StackTypes
        <4>3. joined \in HistoryEntries /\ joined.ids = LastOf(s.undo).ids
          BY <2>1, <4>2 DEF HistoryEntries, Commands
        <4>4. t.undo = [s.undo EXCEPT ![Len(s.undo)] = joined]
          BY <1>1, <1>2, <3>1, ChangeFields
        <4> HIDE DEF joined, t, e
        <4> QED
          BY <1>1, <4>1, <4>3, <4>4, IdsOfStack
      <3>2. CASE ~Coalesces(s, c)
        <4>1. t.undo = Append(s.undo, e)
          BY <1>1, <1>2, <3>2, ChangeFields
        <4> HIDE DEF t, e
        <4> QED
          BY <1>1, <2>1, <4>1, IdsOfStack
      <3> QED
        BY <3>1, <3>2
    <2>3. IdsIn(t.redo) = {}
      <3>1. \A i \in DOMAIN <<>> : FALSE
        OBVIOUS
      <3> HIDE DEF t
      <3> QED
        BY <2>1, <3>1 DEF IdsIn
    <2> QED
      BY <2>1, <2>2, <2>3 DEF StackIds
  <1>3. CASE c.op = "Undo"
    <2> DEFINE e == LastOf(s.undo)
    <2>1. s.undo # <<>> /\ t.undo = FrontOf(s.undo) /\ t.redo = Append(s.redo, e)
      BY <1>1, <1>3, UndoFields DEF Applicable
    <2>2. e \in HistoryEntries
      BY <1>1, <2>1, StackTypes
    <2>3. Touched(s, c) = e.ids
      BY <1>3 DEF Touched
    <2> HIDE DEF e
    <2>4. IdsIn(t.undo) \subseteq IdsIn(s.undo) /\ IdsIn(t.redo) \subseteq IdsIn(s.redo) \cup e.ids
      <3> HIDE DEF t
      <3> QED
        BY <1>1, <2>1, <2>2, IdsOfStack
    <2> QED
      BY <2>3, <2>4 DEF StackIds
  <1>4. CASE c.op = "Redo"
    <2> DEFINE e == LastOf(s.redo)
    <2>1. s.redo # <<>> /\ t.redo = FrontOf(s.redo) /\ t.undo = Append(s.undo, e)
      BY <1>1, <1>4, RedoFields DEF Applicable
    <2>2. e \in HistoryEntries
      BY <1>1, <2>1, StackTypes
    <2>3. Touched(s, c) = e.ids
      BY <1>4 DEF Touched
    <2> HIDE DEF e
    <2>4. IdsIn(t.redo) \subseteq IdsIn(s.redo) /\ IdsIn(t.undo) \subseteq IdsIn(s.undo) \cup e.ids
      <3> HIDE DEF t
      <3> QED
        BY <1>1, <2>1, <2>2, IdsOfStack
    <2> QED
      BY <2>3, <2>4 DEF StackIds
  <1> QED
    BY <1>2, <1>3, <1>4

\* An entry that recovery does not refuse.
LEMMA RecoverGives ==
  ASSUME NEW h, NEW e, h.ok, e.previous = h.revision, e.committed = h.revision + 1,
         e.id \notin h.committed, e.op = "Undo" => h.undo # <<>>, e.op = "Redo" => h.redo # <<>>,
         RecordedStates(e)
  PROVE  RecoverEntry(h, e)
           = [ok |-> TRUE, revision |-> e.committed, committed |-> h.committed \cup {e.id},
              undo |-> CASE e.op = "Undo" -> FrontOf(h.undo)
                         [] e.op = "Redo" -> Append(h.undo, LastOf(h.redo))
                         [] OTHER         -> RecoveredUndo(h.undo, e),
              redo |-> CASE e.op = "Undo" -> Append(h.redo, LastOf(h.undo))
                         [] e.op = "Redo" -> FrontOf(h.redo)
                         [] OTHER         -> <<>>]
  BY DEF RecoverEntry

\* The history that recovery makes of the entry is the one the command made.
LEMMA RecoveredHistoryOf ==
  ASSUME NEW s \in Sessions, NEW c \in Commands, Accepts(s, c), Tracked(s), OnLoadedPages(s),
         NEW e, e.id = c.id, e.op = c.op, e.typing = c.typing,
         e.previous = s.revision, e.committed = s.revision + 1,
         e.before = Part(s.doc, Touched(s, c)),
         e.after = Part(ApplyEnvelope(s, c).doc, Touched(s, c))
  PROVE  RecoverEntry(HistoryOf(s), e) = HistoryOf(ApplyEnvelope(s, c))
  <1> DEFINE t == ApplyEnvelope(s, c)
             h == HistoryOf(s)
  <1>1. /\ Applicable(s, c) /\ c.id \notin s.committed
        /\ t.revision = s.revision + 1 /\ t.committed = s.committed \cup {c.id}
    BY AcceptedIsApplicable, EnvelopeFields DEF Accepts
  <1>2. /\ h.ok = TRUE /\ h.revision = s.revision /\ h.committed = s.committed
        /\ h.undo = s.undo /\ h.redo = s.redo
    BY DEF HistoryOf
  <1>3. RecordedStates(e)
    <2>1. CASE c.op = "Undo" \/ c.op = "Redo"
      BY <2>1 DEF RecordedStates
    <2>2. CASE c.op # "Undo" /\ c.op # "Redo"
      <3>1. Touched(s, c) = c.ids
        BY <2>2 DEF Touched
      <3> QED
        BY <2>2, <3>1, ChangeRecords
    <2> QED
      BY <2>1, <2>2
  <1> DEFINE undone == CASE e.op = "Undo" -> FrontOf(h.undo)
                         [] e.op = "Redo" -> Append(h.undo, LastOf(h.redo))
                         [] OTHER         -> RecoveredUndo(h.undo, e)
             redone == CASE e.op = "Undo" -> Append(h.redo, LastOf(h.undo))
                         [] e.op = "Redo" -> FrontOf(h.redo)
                         [] OTHER         -> <<>>
  <1>4. RecoverEntry(h, e)
          = [ok |-> TRUE, revision |-> e.committed, committed |-> h.committed \cup {e.id},
             undo |-> undone, redo |-> redone]
    <2> HIDE DEF h
    <2> QED
      BY <1>1, <1>2, <1>3, RecoverGives DEF Applicable
  <1>5. undone = t.undo /\ redone = t.redo
    <2>1. CASE c.op # "Undo" /\ c.op # "Redo"
      <3>1. Touched(s, c) = c.ids
        BY <2>1 DEF Touched
      <3>2. undone = RecoveredUndo(s.undo, e) /\ redone = <<>>
        BY <1>2, <2>1
      <3>3. RecoveredUndo(s.undo, e) = t.undo
        BY <2>1, <3>1, RecoveredChange
      <3>4. t.redo = <<>>
        BY <1>1, <2>1, ChangeFields
      <3> HIDE DEF undone, redone, t
      <3> QED
        BY <3>2, <3>3, <3>4
    <2>2. CASE c.op = "Undo"
      <3>1. undone = FrontOf(s.undo) /\ redone = Append(s.redo, LastOf(s.undo))
        BY <1>2, <2>2
      <3>2. t.undo = FrontOf(s.undo) /\ t.redo = Append(s.redo, LastOf(s.undo))
        BY <1>1, <2>2, UndoFields
      <3> HIDE DEF undone, redone, t
      <3> QED
        BY <3>1, <3>2
    <2>3. CASE c.op = "Redo"
      <3>1. undone = Append(s.undo, LastOf(s.redo)) /\ redone = FrontOf(s.redo)
        BY <1>2, <2>3
      <3>2. t.undo = Append(s.undo, LastOf(s.redo)) /\ t.redo = FrontOf(s.redo)
        BY <1>1, <2>3, RedoFields
      <3> HIDE DEF undone, redone, t
      <3> QED
        BY <3>1, <3>2
    <2> QED
      BY <2>1, <2>2, <2>3
  <1> HIDE DEF undone, redone, t
  <1>6. [ok |-> TRUE, revision |-> e.committed, committed |-> h.committed \cup {e.id},
         undo |-> undone, redo |-> redone] = HistoryOf(t)
    BY <1>1, <1>2, <1>5 DEF HistoryOf
  <1> QED
    BY <1>4, <1>6 DEF t

\* The entry of an accepted command tells what the command did.
LEMMA EntryTells ==
  ASSUME NEW s \in Sessions, NEW c \in Commands, Accepts(s, c), Tracked(s), OnLoadedPages(s),
         NEW p, p.command = c, p.previous = s.revision, p.next = ApplyEnvelope(s, c),
         p.before = Part(s.doc, Touched(s, c)), p.after = Part(p.next.doc, Touched(s, c))
  PROVE  Journaled(s, p)
  <1> DEFINE e == JournalEntry(p)
             ids == Touched(s, c)
             t == ApplyEnvelope(s, c)
  <1>1. /\ e.id = c.id /\ e.op = c.op /\ e.typing = c.typing /\ e.previous = s.revision
        /\ e.committed = t.revision /\ e.before = p.before /\ e.after = p.after
    BY JournalEntryFields
  <1>2. t.revision = s.revision + 1 /\ t.pages = s.pages
    BY EnvelopeFields, AcceptedIsApplicable
  <1>3. Changes(s, t, ids)
    BY CommandChanges
  <1>4. StackIds(t) \subseteq StackIds(s) \cup ids
    BY CommandStackIds
  <1> HIDE DEF e
  <1>5. RecoverEntry(HistoryOf(s), e) = HistoryOf(t)
    BY <1>1, <1>2, RecoveredHistoryOf
  <1> HIDE DEF ids, t
  <1>6. e.before = Part(s.doc, ids) /\ e.after = Part(t.doc, ids) /\ p.next = t
    BY <1>1 DEF ids, t
  <1>7. /\ Changed(e) = ids
        /\ {o \in Objects : e.after[o] # NoObject} \in {{}, ids}
        /\ \A o \in ids : t.doc[o] = e.after[o]
    BY <1>3, <1>6, JournaledSides
  <1>8. \A o \in OnPages(t.pages) \ ids : t.doc[o] = s.doc[o]
    BY <1>3 DEF Changes, OnPages
  <1> QED
    BY <1>1, <1>2, <1>3, <1>4, <1>5, <1>6, <1>7, <1>8 DEF Journaled, Changes, e

-----------------------------------------------------------------------------
(* What the sidecar keeps of a session                                     *)

\* doc is the document of s on some of its pages, which hold all that the
\* stacks of s are about.
Shows(pages, doc, s) ==
  /\ doc = Part(s.doc, OnPages(pages))
  /\ StackIds(s) \subseteq OnPages(pages)

\* The model m, where it could be built, shows s.
Models(m, pages, s) ==
  /\ m = [ok |-> m.ok, pages |-> pages, doc |-> m.doc]
  /\ m.ok => Shows(pages, m.doc, s)

\* What can still be read was stored from some of the pages of s; nothing was
\* stored before the first command but the project without pages.
PagesKept(sc, s) ==
  /\ sc.intact => sc.pages \subseteq s.pages /\ (s.revision = 0 => sc.pages = {})
  /\ \A snap \in sc.snapshots :
       snap.intact => snap.pages \subseteq s.pages /\ (s.revision = 0 => snap.pages = {})

\* A newer snapshot has the pages of every older one, and the model of all.
PagesGrow(sc) ==
  \A snap \in sc.snapshots :
    snap.intact =>
      /\ sc.intact => snap.pages \subseteq sc.pages
      /\ \A older \in sc.snapshots :
           older.intact /\ older.revision <= snap.revision => older.pages \subseteq snap.pages

\* The history in the journal is that of s, and so is every model.
Faithful(sc, s) ==
  /\ RecoveredHistory(sc.journal) = HistoryOf(s)
  /\ sc.revision = s.revision
  /\ sc.cursor = Len(s.undo)
  /\ \A i \in DOMAIN sc.journal : sc.journal[i].committed <= sc.revision
  /\ PagesKept(sc, s)
  /\ PagesGrow(sc)
  /\ sc.intact => Shows(sc.pages, sc.doc, s)
  /\ \A snap \in sc.snapshots :
       /\ snap.revision <= sc.revision
       /\ snap.intact => Models(ReplayedFrom(snap, sc.journal, sc.revision), snap.pages, s)

\* The model m with another outcome and another document.
Remade(m, x, y) == [m EXCEPT !.ok = x, !.doc = y]

LEMMA RemadeIs ==
  ASSUME NEW m, NEW a, NEW b, NEW c, m = [ok |-> a, pages |-> b, doc |-> c], NEW x, NEW y
  PROVE  Remade(m, x, y) = [ok |-> x, pages |-> b, doc |-> y]
  <1>1. [m EXCEPT !.ok = x] = [ok |-> x, pages |-> b, doc |-> c]
    OBVIOUS
  <1>2. [[ok |-> x, pages |-> b, doc |-> c] EXCEPT !.doc = y] = [ok |-> x, pages |-> b, doc |-> y]
    OBVIOUS
  <1> QED
    BY <1>1, <1>2, Zenon DEF Remade

\* Replaying the entry of p on a model of s gives a model of what p made.
LEMMA ReplayShows ==
  ASSUME NEW s, NEW p, NEW m, NEW pages, Journaled(s, p), Models(m, pages, s),
         pages \subseteq p.next.pages, s.revision \in Nat, s.revision = 0 => pages = {}
  PROVE  Models(Replay(m, JournalEntry(p)), pages, p.next)
  <1> DEFINE e == JournalEntry(p)
             ids == Changed(e)
             afters == {o \in Objects : e.after[o] # NoObject}
             written == IF afters = {} THEN ids ELSE afters
             applies == IF afters = {} THEN \A o \in written : m.doc[o] # NoObject
                                       ELSE \A o \in written : PageOf[o] \in m.pages
             doc == Overlay(m.doc, written, e.after)
             ok == m.ok /\ applies /\ Valid(Version(doc))
             t == p.next
  <1>1. Replay(m, e) = Remade(m, ok, doc)
    BY DEF Replay, Remade
  <1>2. /\ e.after = p.after
        /\ ids \subseteq OnPages(t.pages) /\ ids \subseteq Objects
        /\ afters \in {{}, ids}
        /\ \A o \in ids : t.doc[o] = e.after[o]
        /\ s.revision > 0 => \A o \in OnPages(t.pages) \ ids : t.doc[o] = s.doc[o]
        /\ StackIds(t) \subseteq StackIds(s) \cup ids
    BY JournalEntryFields DEF Journaled, Changed
  <1>3. m.pages = pages
    BY DEF Models
  <1> HIDE DEF doc, ok, applies, e, t, ids
  <1>4. Remade(m, ok, doc) = [ok |-> ok, pages |-> pages, doc |-> doc]
    <2>1. m = [ok |-> m.ok, pages |-> pages, doc |-> m.doc]
      BY DEF Models
    <2> DEFINE a == m.ok
               c == m.doc
    <2>2. m = [ok |-> a, pages |-> pages, doc |-> c]
      BY <2>1
    <2> HIDE DEF a, c
    <2> QED
      BY <2>2, RemadeIs
  <1>5. ASSUME ok PROVE Shows(pages, doc, t)
    <2>1. m.ok /\ applies
      BY <1>5 DEF ok
    <2>2. m.doc = Part(s.doc, OnPages(pages)) /\ StackIds(s) \subseteq OnPages(pages)
      BY <2>1 DEF Models, Shows
    <2>3. written = ids
      BY <1>2
    <2>4. ids \subseteq OnPages(pages)
      <3>1. CASE afters = {}
        <4>1. \A o \in ids : m.doc[o] # NoObject
          BY <2>1, <2>3, <3>1 DEF applies
        <4> QED
          BY <1>2, <2>2, <4>1 DEF Part
      <3>2. CASE afters # {}
        <4>1. \A o \in ids : PageOf[o] \in pages
          BY <1>3, <2>1, <2>3, <3>2 DEF applies
        <4> QED
          BY <1>2, <4>1 DEF OnPages
      <3> QED
        BY <3>1, <3>2
    <2>5. \A o \in OnPages(pages) \ ids : t.doc[o] = s.doc[o]
      <3>1. CASE s.revision = 0
        BY <3>1 DEF OnPages
      <3>2. CASE s.revision > 0
        BY <1>2, <3>2 DEF OnPages, t
      <3> QED
        BY <3>1, <3>2
    <2>6. doc = Overlay(m.doc, ids, e.after)
      BY <2>3 DEF doc
    <2>7. \A o \in Objects : Overlay(m.doc, ids, e.after)[o] = Part(t.doc, OnPages(pages))[o]
      <3> SUFFICES ASSUME NEW o \in Objects
                   PROVE  Overlay(m.doc, ids, e.after)[o] = Part(t.doc, OnPages(pages))[o]
        OBVIOUS
      <3>1. CASE o \in ids
        BY <1>2, <2>4, <3>1 DEF Overlay, Part
      <3>2. CASE o \notin ids
        BY <2>2, <2>5, <3>2 DEF Overlay, Part
      <3> QED
        BY <3>1, <3>2
    <2>8. doc = Part(t.doc, OnPages(pages))
      BY <2>6, <2>7 DEF Overlay, Part
    <2>9. StackIds(t) \subseteq OnPages(pages)
      BY <1>2, <2>2, <2>4
    <2> QED
      BY <2>8, <2>9 DEF Shows
  <1> DEFINE n == Replay(m, e)
  <1>6. n = [ok |-> ok, pages |-> pages, doc |-> doc]
    BY <1>1, <1>4
  <1> HIDE DEF n
  <1>7. n.ok = ok /\ n.doc = doc
    BY <1>6
  <1>8. Models(n, pages, t)
    BY <1>5, <1>6, <1>7 DEF Models
  <1> QED
    BY <1>8 DEF n, e, t

\* A session shows itself.
LEMMA ShowsSelf ==
  ASSUME NEW s \in Sessions, OnLoadedPages(s)
  PROVE  Shows(s.pages, s.doc, s)
  <1>1. Part(s.doc, OnPages(s.pages)) = s.doc
    BY DocumentWithin
  <1>2. StackIds(s) \subseteq OnPages(s.pages)
    BY DEF OnLoadedPages, StackIds, IdsIn
  <1> QED
    BY <1>1, <1>2 DEF Shows

\* A new project is faithful to its session.
LEMMA FaithfulNew ==
  ASSUME NEW s \in Sessions, OnLoadedPages(s), s.revision = 0, s.pages = {},
         s.committed = {}, s.undo = <<>>, s.redo = <<>>
  PROVE  Faithful(NewSidecar(s), s)
  <1> DEFINE sc == NewSidecar(s)
             first == [revision |-> s.revision, pages |-> s.pages, doc |-> s.doc, intact |-> TRUE]
  <1>1. /\ sc.revision = 0 /\ sc.pages = {} /\ sc.doc = s.doc /\ sc.intact = TRUE
        /\ sc.cursor = 0 /\ sc.journal = <<>> /\ sc.snapshots = {first}
    BY DEF NewSidecar
  <1>2. /\ first.revision = 0 /\ first.pages = {} /\ first.doc = s.doc /\ first.intact = TRUE
    OBVIOUS
  <1>3. RecoveredHistory(<<>>) = HistoryOf(s)
    BY RecoveredNone DEF NothingRecovered, HistoryOf
  <1> HIDE DEF first
  <1>4. ReplayedFrom(first, <<>>, 0) = StoredModel(first)
    <2>1. <<>> \in Seq({}) /\ Len(<<>>) = 0
      OBVIOUS
    <2>2. \A i \in 1 .. Len(<<>>) : ~(first.revision < <<>>[i].committed)
      BY <2>1
    <2> QED
      BY <2>1, <2>2, ReplayedNothing
  <1>5. Shows({}, s.doc, s)
    BY ShowsSelf
  <1>6. Models(StoredModel(first), {}, s)
    BY <1>2, <1>5 DEF Models, StoredModel
  <1>7. Len(s.undo) = 0 /\ DOMAIN <<>> = {}
    OBVIOUS
  <1> HIDE DEF sc
  <1>8. PagesKept(sc, s)
    BY <1>1, <1>2 DEF PagesKept
  <1>9. PagesGrow(sc)
    BY <1>1, <1>2 DEF PagesGrow
  <1>10. \A i \in DOMAIN sc.journal : sc.journal[i].committed <= sc.revision
    BY <1>1, <1>7
  <1>11. sc.intact => Shows(sc.pages, sc.doc, s)
    BY <1>1, <1>5
  <1>12. \A snap \in sc.snapshots :
           /\ snap.revision <= sc.revision
           /\ snap.intact => Models(ReplayedFrom(snap, sc.journal, sc.revision), snap.pages, s)
    <2> SUFFICES /\ first.revision <= sc.revision
                 /\ Models(ReplayedFrom(first, sc.journal, sc.revision), first.pages, s)
      BY <1>1
    <2>1. first.revision <= sc.revision
      BY <1>1, <1>2
    <2>2. Models(ReplayedFrom(first, sc.journal, sc.revision), first.pages, s)
      BY <1>1, <1>2, <1>4, <1>6, Zenon
    <2> QED
      BY <2>1, <2>2
  <1>13. Faithful(sc, s)
    BY <1>1, <1>3, <1>7, <1>8, <1>9, <1>10, <1>11, <1>12 DEF Faithful
  <1> QED
    BY <1>13 DEF sc

LEMMA SidecarTypes ==
  ASSUME NEW sc \in Sidecars
  PROVE  /\ sc.revision \in Int /\ sc.journal \in Seq(JournalEntries) /\ sc.pages \subseteq Pages
         /\ sc.doc \in Documents /\ sc.intact \in BOOLEAN /\ sc.cursor \in Nat
         /\ \A snap \in sc.snapshots : snap \in Snapshots /\ snap.revision \in Int
         /\ \A i \in DOMAIN sc.journal :
              sc.journal[i] \in JournalEntries /\ sc.journal[i].committed \in Int
  <1>1. Revisions \subseteq Int
    BY SessionAssumption DEF Revisions
  <1>2. /\ sc.revision \in Revisions /\ sc.journal \in Seq(JournalEntries)
        /\ sc.pages \subseteq Pages /\ sc.doc \in Documents
        /\ sc.intact \in BOOLEAN /\ sc.cursor \in Nat /\ sc.snapshots \subseteq Snapshots
    BY DEF Sidecars
  <1>3. \A snap \in Snapshots : snap.revision \in Revisions
    BY DEF Snapshots
  <1>4. \A e \in JournalEntries : e.committed \in Revisions
    BY DEF JournalEntries
  <1>5. \A i \in DOMAIN sc.journal : sc.journal[i] \in JournalEntries
    BY <1>2
  <1> QED
    BY <1>1, <1>2, <1>3, <1>4, <1>5

LEMMA JournalEntryType ==
  ASSUME NEW p \in PreparedCommands
  PROVE  JournalEntry(p) \in JournalEntries
  BY DEF PreparedCommands, JournalEntry, JournalEntries, Commands, Sessions

\* The snapshots after an append: those that were there, and the new one.
LEMMA SnapshotsKept ==
  ASSUME NEW sc, NEW p, NEW snap \in SnapshotsAfter(sc, p)
  PROVE  \/ snap \in sc.snapshots
         \/ /\ snap.revision = p.next.revision /\ snap.pages = p.next.pages
            /\ snap.doc = p.next.doc /\ snap.intact = TRUE
  BY DEF SnapshotsAfter

LEMMA AppendToFields ==
  ASSUME NEW sc, NEW p
  PROVE  LET new == AppendTo(sc, p) IN
         /\ new.revision = p.next.revision /\ new.pages = p.next.pages /\ new.doc = p.next.doc
         /\ new.intact = TRUE /\ new.cursor = Len(p.next.undo)
         /\ new.journal = Append(sc.journal, JournalEntry(p))
         /\ new.snapshots = SnapshotsAfter(sc, p)
  BY DEF AppendTo

LEMMA AppendToType ==
  ASSUME NEW sc \in Sidecars, NEW p \in PreparedCommands
  PROVE  AppendTo(sc, p) \in Sidecars
  <1>1. p.next \in Sessions
    BY DEF PreparedCommands
  <1>2. /\ p.next.revision \in Revisions /\ p.next.pages \subseteq Pages
        /\ p.next.doc \in Documents /\ Len(p.next.undo) \in Nat
    BY <1>1 DEF Sessions
  <1>3. Append(sc.journal, JournalEntry(p)) \in Seq(JournalEntries)
    BY SidecarTypes, JournalEntryType
  <1>4. SnapshotsAfter(sc, p) \subseteq Snapshots
    <2> DEFINE fresh == [revision |-> p.next.revision, pages |-> p.next.pages,
                         doc |-> p.next.doc, intact |-> TRUE]
    <2>1. fresh \in Snapshots
      BY <1>2 DEF Snapshots
    <2>2. sc.snapshots \subseteq Snapshots
      BY DEF Sidecars
    <2>3. SnapshotsAfter(sc, p) \subseteq sc.snapshots \cup {fresh}
      BY DEF SnapshotsAfter
    <2> HIDE DEF fresh
    <2> QED
      BY <2>1, <2>2, <2>3
  <1> DEFINE journal == Append(sc.journal, JournalEntry(p))
             snapshots == SnapshotsAfter(sc, p)
             cursor == Len(p.next.undo)
  <1>5. AppendTo(sc, p)
          = [revision |-> p.next.revision, pages |-> p.next.pages, doc |-> p.next.doc,
             intact |-> TRUE, cursor |-> cursor, journal |-> journal, snapshots |-> snapshots]
    BY DEF AppendTo
  <1>6. journal \in Seq(JournalEntries) /\ snapshots \in SUBSET Snapshots /\ cursor \in Nat
    BY <1>2, <1>3, <1>4
  <1> HIDE DEF journal, snapshots, cursor
  <1> QED
    BY <1>2, <1>5, <1>6 DEF Sidecars

\* The pages that the sidecar has kept are pages of p.
KeptBy(sc, pages) ==
  /\ sc.intact => sc.pages \subseteq pages
  /\ \A snap \in sc.snapshots : snap.intact => snap.pages \subseteq pages

\* An append leaves the sidecar faithful to the session it was made for.
LEMMA FaithfulAppend ==
  ASSUME NEW sc \in Sidecars, NEW s \in Sessions, NEW p \in PreparedCommands,
         Faithful(sc, s), Journaled(s, p), p.next.revision = s.revision + 1,
         OnLoadedPages(p.next), KeptBy(sc, p.next.pages)
  PROVE  Faithful(AppendTo(sc, p), p.next)
  <1> DEFINE new == AppendTo(sc, p)
             t == p.next
             r == sc.revision
             e == JournalEntry(p)
  <1>1. /\ new.revision = t.revision /\ new.pages = t.pages /\ new.doc = t.doc
        /\ new.intact = TRUE /\ new.cursor = Len(t.undo)
        /\ new.journal = Append(sc.journal, e) /\ new.snapshots = SnapshotsAfter(sc, p)
    BY AppendToFields
  <1>2. /\ r \in Int /\ s.revision \in Nat /\ r = s.revision /\ t.revision = r + 1
        /\ t.revision \in Int
        /\ e \in JournalEntries /\ sc.journal \in Seq(JournalEntries)
        /\ e.committed = t.revision /\ t \in Sessions
    <2>1. r \in Int /\ sc.journal \in Seq(JournalEntries)
      BY SidecarTypes
    <2>2. s.revision \in Nat /\ t \in Sessions
      BY SessionAssumption DEF Sessions, Revisions, PreparedCommands
    <2>3. r = s.revision
      BY DEF Faithful
    <2>4. e \in JournalEntries
      BY JournalEntryType
    <2>5. e.committed = t.revision
      BY JournalEntryFields
    <2> HIDE DEF e, t, r
    <2>6. t.revision = s.revision + 1
      BY DEF t
    <2> QED
      BY <2>1, <2>2, <2>3, <2>4, <2>5, <2>6
  <1>3. /\ \A i \in 1 .. Len(sc.journal) : /\ sc.journal[i].committed \in Int
                                           /\ sc.journal[i].committed <= r
        /\ \A snap \in sc.snapshots : snap.revision \in Int /\ snap.revision <= r
    BY <1>2, SidecarTypes DEF Faithful
  <1> HIDE DEF e, new, t, r
  <1>4. RecoveredHistory(new.journal) = HistoryOf(t)
    <2>1. RecoveredHistory(new.journal) = RecoverEntry(RecoveredHistory(sc.journal), e)
      BY <1>1, <1>2, RecoveredStep
    <2>2. RecoverEntry(HistoryOf(s), e) = HistoryOf(t)
      BY DEF Journaled, e, t
    <2> QED
      BY <2>1, <2>2 DEF Faithful
  <1>5. /\ new.journal \in Seq(JournalEntries)
        /\ DOMAIN new.journal = 1 .. Len(new.journal)
        /\ \A i \in 1 .. Len(new.journal) : /\ new.journal[i].committed \in Int
                                            /\ new.journal[i].committed <= t.revision
    <2>1. \A i \in 1 .. Len(new.journal) :
            new.journal[i] = e \/ (i \in 1 .. Len(sc.journal) /\ new.journal[i] = sc.journal[i])
      BY <1>1, <1>2
    <2> QED
      BY <1>1, <1>2, <1>3, <2>1
  <1>6. Shows(t.pages, t.doc, t)
    BY <1>2, ShowsSelf DEF t
  <1>7. ASSUME NEW snap \in new.snapshots, snap \in sc.snapshots
        PROVE  /\ snap.revision <= t.revision
               /\ snap.intact =>
                    /\ snap.pages \subseteq t.pages
                    /\ Models(ReplayedFrom(snap, new.journal, t.revision), snap.pages, t)
    <2>1. snap.revision < t.revision
      BY <1>2, <1>3, <1>7
    <2>2. ASSUME snap.intact
          PROVE  Models(ReplayedFrom(snap, new.journal, t.revision), snap.pages, t)
      <3>1. /\ Models(ReplayedFrom(snap, sc.journal, r), snap.pages, s)
            /\ s.revision = 0 => snap.pages = {}
            /\ snap.pages \subseteq p.next.pages
        BY <1>7, <2>2 DEF Faithful, PagesKept, KeptBy, r
      <3>2. ReplayedFrom(snap, new.journal, t.revision)
              = Replay(ReplayedFrom(snap, sc.journal, r), e)
        <4>1. ReplayedFrom(snap, Append(sc.journal, e), t.revision)
                = Replay(ReplayedFrom(snap, sc.journal, r), e)
          BY <1>2, <1>3, <2>1, ReplayedStep
        <4> QED
          BY <1>1, <4>1
      <3>3. Models(Replay(ReplayedFrom(snap, sc.journal, r), e), snap.pages, p.next)
        BY <1>2, <3>1, ReplayShows DEF e
      <3> QED
        BY <3>2, <3>3 DEF t
    <2> QED
      BY <1>2, <1>3, <1>7, <2>2 DEF KeptBy, t
  <1>8. ASSUME NEW snap, snap.revision = t.revision, snap.pages = t.pages, snap.doc = t.doc
        PROVE  Models(ReplayedFrom(snap, new.journal, t.revision), snap.pages, t)
    <2>1. \A i \in 1 .. Len(new.journal) : ~(snap.revision < new.journal[i].committed)
      BY <1>2, <1>5, <1>8
    <2>2. ReplayedFrom(snap, new.journal, t.revision) = StoredModel(snap)
      BY <1>5, <2>1, ReplayedNothing
    <2>3. Models(StoredModel(snap), snap.pages, t)
      BY <1>6, <1>8 DEF Models, StoredModel
    <2> QED
      BY <2>2, <2>3
  <1>9. \A snap \in new.snapshots :
          \/ snap \in sc.snapshots
          \/ /\ snap.revision = t.revision /\ snap.pages = t.pages /\ snap.doc = t.doc
             /\ snap.intact = TRUE
    BY <1>1, SnapshotsKept DEF t
  <1>10. \A snap \in new.snapshots :
           /\ snap.revision <= new.revision
           /\ snap.intact => Models(ReplayedFrom(snap, new.journal, new.revision), snap.pages, t)
    <2> SUFFICES ASSUME NEW snap \in new.snapshots
                 PROVE  /\ snap.revision <= t.revision
                        /\ snap.intact =>
                             Models(ReplayedFrom(snap, new.journal, t.revision), snap.pages, t)
      BY <1>1
    <2>1. CASE snap \in sc.snapshots
      BY <1>7, <2>1
    <2>2. CASE snap \notin sc.snapshots
      <3>1. snap.revision = t.revision /\ snap.pages = t.pages /\ snap.doc = t.doc
        BY <1>9, <2>2
      <3> QED
        BY <1>2, <1>8, <3>1
    <2> QED
      BY <2>1, <2>2
  <1>11. PagesKept(new, t)
    <2>1. \A snap \in new.snapshots : snap.intact => snap.pages \subseteq t.pages
      BY <1>7, <1>9
    <2> QED
      BY <1>1, <1>2, <2>1 DEF PagesKept
  <1>12. PagesGrow(new)
    <2> SUFFICES ASSUME NEW snap \in new.snapshots, snap.intact
                 PROVE  /\ snap.pages \subseteq t.pages
                        /\ \A older \in new.snapshots :
                             older.intact /\ older.revision <= snap.revision =>
                               older.pages \subseteq snap.pages
      BY <1>1 DEF PagesGrow
    <2>1. \A older \in new.snapshots : older.intact => older.pages \subseteq t.pages
      BY <1>7, <1>9
    <2>2. CASE snap \in sc.snapshots
      <3>1. \A older \in new.snapshots :
              older.revision <= snap.revision => older \in sc.snapshots
        BY <1>2, <1>3, <1>9, <2>2
      <3> QED
        BY <2>1, <2>2, <3>1 DEF Faithful, PagesGrow
    <2>3. CASE snap \notin sc.snapshots
      <3>1. snap.pages = t.pages
        BY <1>9, <2>3
      <3> QED
        BY <2>1, <3>1
    <2> QED
      BY <2>2, <2>3
  <1>13. Faithful(new, t)
    BY <1>1, <1>4, <1>5, <1>6, <1>10, <1>11, <1>12 DEF Faithful
  <1> QED
    BY <1>13 DEF new, t

\* So does a page that is loaded: the pages that are stored do not change.
LEMMA ModelsAlike ==
  ASSUME NEW m, NEW pages, NEW s, NEW t, Models(m, pages, s),
         Part(s.doc, OnPages(pages)) = Part(t.doc, OnPages(pages)),
         s.undo = t.undo, s.redo = t.redo
  PROVE  Models(m, pages, t)
  <1>1. StackIds(t) = StackIds(s)
    BY DEF StackIds
  <1> QED
    BY <1>1, Zenon DEF Models, Shows

LEMMA FaithfulAlike ==
  ASSUME NEW sc, NEW s, NEW t, Faithful(sc, s),
         t.revision = s.revision, t.committed = s.committed, t.undo = s.undo, t.redo = s.redo,
         KeptBy(sc, t.pages),
         sc.intact => Part(s.doc, OnPages(sc.pages)) = Part(t.doc, OnPages(sc.pages)),
         \A snap \in sc.snapshots :
           snap.intact => Part(s.doc, OnPages(snap.pages)) = Part(t.doc, OnPages(snap.pages))
  PROVE  Faithful(sc, t)
  <1>1. HistoryOf(t) = HistoryOf(s) /\ StackIds(t) = StackIds(s)
    BY DEF HistoryOf, StackIds
  <1>2. PagesKept(sc, t)
    BY DEF Faithful, PagesKept, KeptBy
  <1>3. sc.intact => Shows(sc.pages, sc.doc, t)
    BY <1>1, Zenon DEF Faithful, Shows
  <1>4. ASSUME NEW snap \in sc.snapshots, snap.intact
        PROVE  Models(ReplayedFrom(snap, sc.journal, sc.revision), snap.pages, t)
    <2>1. Models(ReplayedFrom(snap, sc.journal, sc.revision), snap.pages, s)
      BY <1>4 DEF Faithful
    <2> QED
      BY <1>4, <2>1, ModelsAlike
  <1> QED
    BY <1>1, <1>2, <1>3, <1>4, Zenon DEF Faithful

LEMMA FaithfulLoad ==
  ASSUME NEW sc, NEW s \in Sessions, NEW page \in Pages, NEW content \in Versions,
         Faithful(sc, s), CanHydrateLive(s, page, content)
  PROVE  Faithful(sc, LoadPage(s, page, content))
  <1> DEFINE t == LoadPage(s, page, content)
  <1>1. /\ t.revision = s.revision /\ t.committed = s.committed
        /\ t.undo = s.undo /\ t.redo = s.redo /\ t.pages = s.pages \cup {page}
        /\ t.doc = Overlay(s.doc, OnPages({page}), Stamp(content, 0))
    BY DEF LoadPage, Sessions
  <1>2. ASSUME NEW pages, pages \subseteq s.pages, s.revision = 0 => pages = {}
        PROVE  Part(s.doc, OnPages(pages)) = Part(t.doc, OnPages(pages))
    <2>1. page \notin pages
      BY <1>2 DEF CanHydrateLive
    <2> QED
      BY <1>1, <2>1 DEF Part, Overlay, OnPages
  <1> HIDE DEF t
  <1>3. KeptBy(sc, t.pages)
    BY <1>1 DEF Faithful, PagesKept, KeptBy
  <1>4. PagesKept(sc, s)
    BY DEF Faithful
  <1>5. sc.intact => Part(s.doc, OnPages(sc.pages)) = Part(t.doc, OnPages(sc.pages))
    BY <1>2, <1>4 DEF PagesKept
  <1>6. \A snap \in sc.snapshots :
          snap.intact => Part(s.doc, OnPages(snap.pages)) = Part(t.doc, OnPages(snap.pages))
    BY <1>2, <1>4 DEF PagesKept
  <1>7. Faithful(sc, t)
    BY <1>1, <1>3, <1>5, <1>6, FaithfulAlike
  <1> QED
    BY <1>7 DEF t

LEMMA FaithfulDamagedModel ==
  ASSUME NEW sc \in Sidecars, NEW s, Faithful(sc, s)
  PROVE  /\ Faithful([sc EXCEPT !.intact = FALSE], s)
         /\ [sc EXCEPT !.intact = FALSE] \in Sidecars
         /\ \A pages : KeptBy(sc, pages) => KeptBy([sc EXCEPT !.intact = FALSE], pages)
  <1> DEFINE new == [sc EXCEPT !.intact = FALSE]
  <1>1. /\ new \in Sidecars /\ new.intact = FALSE /\ new.revision = sc.revision
        /\ new.pages = sc.pages /\ new.doc = sc.doc /\ new.cursor = sc.cursor
        /\ new.journal = sc.journal /\ new.snapshots = sc.snapshots
    BY DEF Sidecars
  <1> HIDE DEF new
  <1>2. PagesKept(new, s) /\ PagesGrow(new)
    BY <1>1 DEF Faithful, PagesKept, PagesGrow
  <1>3. Faithful(new, s)
    BY <1>1, <1>2 DEF Faithful
  <1>4. \A pages : KeptBy(sc, pages) => KeptBy(new, pages)
    BY <1>1 DEF KeptBy
  <1> QED
    BY <1>1, <1>3, <1>4 DEF new

LEMMA FaithfulDamagedSnapshot ==
  ASSUME NEW sc \in Sidecars, NEW s, Faithful(sc, s), NEW damaged \in sc.snapshots
  PROVE  LET new == [sc EXCEPT !.snapshots =
                       (@ \ {damaged}) \cup {[damaged EXCEPT !.intact = FALSE]}]
         IN  /\ Faithful(new, s)
             /\ new \in Sidecars
             /\ \A pages : KeptBy(sc, pages) => KeptBy(new, pages)
  <1> DEFINE rest == [damaged EXCEPT !.intact = FALSE]
             left == (sc.snapshots \ {damaged}) \cup {rest}
             new == [sc EXCEPT !.snapshots = left]
  <1>1. /\ rest \in Snapshots /\ rest.intact = FALSE /\ rest.revision = damaged.revision
    BY DEF Sidecars, Snapshots
  <1>2. /\ left \subseteq Snapshots
        /\ \A snap \in left : \/ snap \in sc.snapshots
                              \/ snap.intact = FALSE /\ snap.revision = damaged.revision
    BY <1>1 DEF Sidecars
  <1> HIDE DEF left
  <1>3. /\ new \in Sidecars /\ new.intact = sc.intact /\ new.revision = sc.revision
        /\ new.pages = sc.pages /\ new.doc = sc.doc /\ new.cursor = sc.cursor
        /\ new.journal = sc.journal /\ new.snapshots = left
    BY <1>2 DEF Sidecars
  <1> HIDE DEF new, rest
  <1>4. \A snap \in left : snap.intact => snap \in sc.snapshots
    BY <1>2
  <1>5. \A snap \in left : snap.revision <= sc.revision
    BY <1>2 DEF Faithful
  <1>6. PagesKept(new, s) /\ PagesGrow(new)
    BY <1>3, <1>4 DEF Faithful, PagesKept, PagesGrow
  <1>7. Faithful(new, s)
    BY <1>3, <1>4, <1>5, <1>6 DEF Faithful
  <1>8. \A pages : KeptBy(sc, pages) => KeptBy(new, pages)
    BY <1>3, <1>4 DEF KeptBy
  <1> QED
    BY <1>3, <1>7, <1>8 DEF new, left, rest

-----------------------------------------------------------------------------
(* What recovery reads                                                     *)

\* There is a newest snapshot.
LEMMA NewestExists ==
  ASSUME NEW sc \in Sidecars, NEW usable, usable \subseteq sc.snapshots, usable # {},
         \A snap \in usable : snap.revision <= sc.revision
  PROVE  \E newest \in usable : \A snap \in usable : snap.revision <= newest.revision
  <1> DEFINE T == {sc.revision - snap.revision : snap \in usable}
  <1>1. sc.revision \in Int /\ \A snap \in usable : snap.revision \in Int
    BY SidecarTypes
  <1>2. T \subseteq Nat /\ T # {}
    BY <1>1
  <1>3. PICK least \in T : \A other \in T : least <= other
    <2> HIDE DEF T
    <2> QED
      BY <1>2, LeastElement
  <1>4. PICK newest \in usable : least = sc.revision - newest.revision
    OBVIOUS
  <1>5. \A snap \in usable : sc.revision - newest.revision <= sc.revision - snap.revision
    BY <1>3, <1>4
  <1> QED
    BY <1>1, <1>4, <1>5

\* The model that is read or rebuilt shows the session, on pages that hold
\* all those from which it could be built another time.
LEMMA ModelRecovered ==
  ASSUME NEW sc \in Sidecars, NEW s, Faithful(sc, s), RecoveredModel(sc).ok
  PROVE  LET m == RecoveredModel(sc) IN
         /\ m.pages \subseteq s.pages
         /\ Shows(m.pages, m.doc, s)
         /\ KeptBy(sc, m.pages)
  <1>1. CASE sc.intact
    <2>1. /\ RecoveredModel(sc).pages = sc.pages /\ RecoveredModel(sc).doc = sc.doc
      BY <1>1 DEF RecoveredModel, StoredModel
    <2>2. KeptBy(sc, sc.pages)
      BY <1>1 DEF Faithful, PagesGrow, KeptBy
    <2> QED
      BY <1>1, <2>1, <2>2 DEF Faithful, PagesKept
  <1>2. CASE ~sc.intact
    <2> DEFINE usable == {snap \in sc.snapshots : snap.intact /\ snap.revision <= sc.revision}
               newest == CHOOSE snap \in usable :
                           \A candidate \in usable : candidate.revision <= snap.revision
               m == ReplayedFrom(newest, sc.journal, sc.revision)
    <2>1. RecoveredModel(sc) = IF usable = {}
                               THEN [ok |-> FALSE, pages |-> {}, doc |-> EmptyDocument]
                               ELSE m
      BY <1>2 DEF RecoveredModel, FallbackModel
    <2>2. usable # {}
      BY <2>1
    <2>3. usable \subseteq sc.snapshots /\ \A snap \in usable : snap.revision <= sc.revision
      OBVIOUS
    <2>4. \A snap \in sc.snapshots : snap.intact => snap \in usable
      BY DEF Faithful
    <2>5. newest \in usable /\ \A candidate \in usable : candidate.revision <= newest.revision
      <3> HIDE DEF usable
      <3> QED
        BY <2>2, <2>3, NewestExists
    <2>6. newest.intact
      BY <2>5
    <2> HIDE DEF usable, newest
    <2>7. Models(m, newest.pages, s)
      BY <2>3, <2>5, <2>6 DEF Faithful
    <2>8. RecoveredModel(sc) = m
      BY <2>1, <2>2
    <2> HIDE DEF m
    <2>9. m.pages = newest.pages /\ Shows(newest.pages, m.doc, s)
      BY <2>7, <2>8 DEF Models
    <2>10. newest.pages \subseteq s.pages
      BY <2>3, <2>5, <2>6 DEF Faithful, PagesKept
    <2>11. KeptBy(sc, newest.pages)
      BY <1>2, <2>3, <2>4, <2>5, <2>6 DEF Faithful, PagesGrow, KeptBy
    <2> QED
      BY <2>8, <2>9, <2>10, <2>11
  <1> QED
    BY <1>1, <1>2

\* t is s with the documents of some of its pages and without previews.
CutTo(t, s) ==
  /\ t \in Sessions
  /\ t.revision = s.revision /\ t.committed = s.committed
  /\ t.undo = s.undo /\ t.redo = s.redo
  /\ t.pages \subseteq s.pages
  /\ t.doc = Part(s.doc, OnPages(t.pages))
  /\ StackIds(s) \subseteq OnPages(t.pages)

LEMMA RecoveredCut ==
  ASSUME NEW sc \in Sidecars, NEW s \in Sessions, Faithful(sc, s), CanRecover(sc)
  PROVE  CutTo(Recovered(sc), s) /\ KeptBy(sc, Recovered(sc).pages)
  <1> DEFINE m == RecoveredModel(sc)
             h == RecoveredHistory(sc.journal)
             first == NewSession(m.pages, m.doc)
             t == Recovered(sc)
  <1>1. /\ m.pages \subseteq s.pages /\ Shows(m.pages, m.doc, s) /\ KeptBy(sc, m.pages)
    BY ModelRecovered DEF CanRecover
  <1>2. /\ h.committed = s.committed /\ h.undo = s.undo /\ h.redo = s.redo
        /\ sc.revision = s.revision
    BY DEF Faithful, HistoryOf
  <1>3. /\ s.revision \in Revisions /\ s.pages \subseteq Pages /\ s.doc \in Documents
        /\ s.committed \subseteq CommandIds
        /\ s.undo \in Seq(HistoryEntries) /\ s.redo \in Seq(HistoryEntries)
    BY DEF Sessions
  <1>4. t = [first EXCEPT !.revision = sc.revision, !.committed = h.committed,
                          !.undo = h.undo, !.redo = h.redo]
    BY DEF Recovered
  <1>5. first = [revision |-> 0, pages |-> m.pages, doc |-> m.doc, committed |-> {},
                 undo |-> <<>>, redo |-> <<>>, replacePreviews |-> {}, toolPreviews |-> {}]
    BY DEF NewSession
  <1> HIDE DEF m, h, first, t
  <1>6. t = [revision |-> s.revision, pages |-> m.pages, doc |-> m.doc,
             committed |-> s.committed, undo |-> s.undo, redo |-> s.redo,
             replacePreviews |-> {}, toolPreviews |-> {}]
    BY <1>2, <1>4, <1>5
  <1>7. m.doc = Part(s.doc, OnPages(m.pages)) /\ m.doc \in Documents
    BY <1>1, <1>3, PartType DEF Shows
  <1>8. t \in Sessions
    BY <1>1, <1>3, <1>6, <1>7 DEF Sessions
  <1>9. CutTo(t, s)
    BY <1>1, <1>6, <1>7, <1>8 DEF CutTo, Shows
  <1> QED
    BY <1>1, <1>6, <1>9 DEF t

LEMMA FaithfulCut ==
  ASSUME NEW sc, NEW s, NEW t, Faithful(sc, s), CutTo(t, s), KeptBy(sc, t.pages)
  PROVE  Faithful(sc, t)
  <1>1. ASSUME NEW pages, pages \subseteq t.pages
        PROVE  Part(s.doc, OnPages(pages)) = Part(t.doc, OnPages(pages))
    BY <1>1 DEF CutTo, Part, OnPages
  <1>2. /\ sc.intact => Part(s.doc, OnPages(sc.pages)) = Part(t.doc, OnPages(sc.pages))
        /\ \A snap \in sc.snapshots :
             snap.intact => Part(s.doc, OnPages(snap.pages)) = Part(t.doc, OnPages(snap.pages))
    BY <1>1 DEF KeptBy
  <1> QED
    BY <1>2, FaithfulAlike DEF CutTo

-----------------------------------------------------------------------------
(* The history of a session that lost some of its pages                    *)

LEMMA PartOfOverlay ==
  ASSUME NEW ids, NEW touched, touched \subseteq ids, NEW f, NEW g
  PROVE  Part(Overlay(f, touched, g), ids) = Overlay(Part(f, ids), touched, g)
  BY DEF Part, Overlay

LEMMA LinksOfParts ==
  ASSUME NEW older, NEW newer, NEW e, NEW ids, e.ids \subseteq ids, Links(older, e, newer)
  PROVE  Links(Part(older, ids), e, Part(newer, ids))
  BY PartOfOverlay DEF Links

\* An annotation stays or goes together with the text it is anchored to.
LEMMA ValidPart ==
  ASSUME NEW version \in Versions, NEW ps, Valid(version)
  PROVE  Valid(Part(version, OnPages(ps)))
  <1> DEFINE cut == Part(version, OnPages(ps))
  <1>1. \A o \in Objects : cut[o] = IF PageOf[o] \in ps THEN version[o] ELSE NoObject
    BY DEF Part, OnPages
  <1>2. NoObject \notin AnnotationValues
    BY SessionAssumption DEF Values
  <1> HIDE DEF cut
  <1>3. Valid(cut)
    <2> SUFFICES ASSUME NEW a \in Objects, cut[a] \in AnnotationValues, NEW t \in Targets[cut[a]]
                 PROVE  /\ PageOf[t] = PageOf[a]
                        /\ cut[t] \in TextValues
                        /\ <<cut[t], cut[a]>> \in Quoted
      BY DEF Valid
    <2>1. PageOf[a] \in ps /\ cut[a] = version[a]
      BY <1>1, <1>2
    <2>2. /\ PageOf[t] = PageOf[a]
          /\ version[t] \in TextValues /\ <<version[t], version[a]>> \in Quoted
      BY <2>1 DEF Valid
    <2>3. t \in Objects
      BY SessionAssumption
    <2>4. cut[t] = version[t]
      BY <1>1, <2>1, <2>2, <2>3
    <2> QED
      BY <2>1, <2>2, <2>4
  <1> QED
    BY <1>3 DEF cut

LEMMA CutAgrees ==
  ASSUME NEW s \in Sessions, NEW tl \in Timelines, Agrees(s, tl), NEW t, CutTo(t, s)
  PROVE  /\ OnPagesOf(tl, t.pages) \in Timelines
         /\ Agrees(t, OnPagesOf(tl, t.pages))
         /\ TimelineWithin(t, OnPagesOf(tl, t.pages))
  <1> DEFINE ids == OnPages(t.pages)
             tm == OnPagesOf(tl, t.pages)
  <1>1. /\ tl.past \in Seq(Versions) /\ tl.future \in Seq(Versions)
        /\ s.undo \in Seq(HistoryEntries) /\ s.redo \in Seq(HistoryEntries)
        /\ s.doc \in Documents
    BY DEF Timelines, Sessions
  <1>2. tm.past = Cut(tl.past, t.pages) /\ tm.future = Cut(tl.future, t.pages)
        /\ tm = [past |-> tm.past, future |-> tm.future]
    BY DEF OnPagesOf, Cut
  <1>3. /\ tm.past \in Seq(Versions) /\ tm.future \in Seq(Versions)
        /\ Len(tm.past) = Len(tl.past) /\ Len(tm.future) = Len(tl.future)
        /\ \A i \in 1 .. Len(tl.past) : tm.past[i] = Part(tl.past[i], ids)
        /\ \A i \in 1 .. Len(tl.future) : tm.future[i] = Part(tl.future[i], ids)
    BY <1>1, <1>2, CutFacts
  <1>4. Version(t.doc) = Part(Version(s.doc), ids) /\ Version(s.doc) \in Versions
    BY <1>1, VersionOfPart, VersionType DEF CutTo
  <1>5. /\ Len(tl.past) = Len(s.undo) /\ Len(tl.future) = Len(s.redo)
        /\ t.undo = s.undo /\ t.redo = s.redo /\ t.revision = s.revision
    BY DEF Agrees, UndoLeadsBack, RedoLeadsForward, CutTo
  <1>6. /\ \A i \in DOMAIN s.undo : s.undo[i].ids \subseteq ids
        /\ \A i \in DOMAIN s.redo : s.redo[i].ids \subseteq ids
    BY DEF CutTo, StackIds, IdsIn
  <1> HIDE DEF tm
  <1>7. tm \in Timelines
    BY <1>2, <1>3 DEF Timelines
  <1>8. UndoLeadsBack(t, tm)
    <2> SUFFICES ASSUME NEW i \in 1 .. Len(s.undo)
                 PROVE  Links(tm.past[i], s.undo[i],
                              IF i < Len(s.undo) THEN tm.past[i + 1] ELSE Version(t.doc))
      BY <1>3, <1>5 DEF UndoLeadsBack
    <2> DEFINE newer == IF i < Len(s.undo) THEN tl.past[i + 1] ELSE Version(s.doc)
               cutNewer == IF i < Len(s.undo) THEN tm.past[i + 1] ELSE Version(t.doc)
    <2>1. Links(tl.past[i], s.undo[i], newer)
      BY DEF Agrees, UndoLeadsBack
    <2>2. tm.past[i] = Part(tl.past[i], ids) /\ s.undo[i].ids \subseteq ids
      BY <1>1, <1>3, <1>5, <1>6
    <2>3. cutNewer = Part(newer, ids)
      BY <1>1, <1>3, <1>4, <1>5
    <2> HIDE DEF newer, cutNewer, ids
    <2>4. Links(Part(tl.past[i], ids), s.undo[i], Part(newer, ids))
      BY <2>1, <2>2, LinksOfParts
    <2>5. Links(tm.past[i], s.undo[i], cutNewer)
      BY <2>2, <2>3, <2>4
    <2> QED
      BY <2>5 DEF cutNewer
  <1>9. RedoLeadsForward(t, tm)
    <2> SUFFICES ASSUME NEW i \in 1 .. Len(s.redo)
                 PROVE  Links(IF i < Len(s.redo) THEN tm.future[i + 1] ELSE Version(t.doc),
                              s.redo[i], tm.future[i])
      BY <1>3, <1>5 DEF RedoLeadsForward
    <2> DEFINE older == IF i < Len(s.redo) THEN tl.future[i + 1] ELSE Version(s.doc)
               cutOlder == IF i < Len(s.redo) THEN tm.future[i + 1] ELSE Version(t.doc)
    <2>1. Links(older, s.redo[i], tl.future[i])
      BY DEF Agrees, RedoLeadsForward
    <2>2. tm.future[i] = Part(tl.future[i], ids) /\ s.redo[i].ids \subseteq ids
      BY <1>1, <1>3, <1>5, <1>6
    <2>3. cutOlder = Part(older, ids)
      BY <1>1, <1>3, <1>4, <1>5
    <2> HIDE DEF older, cutOlder, ids
    <2>4. Links(Part(older, ids), s.redo[i], Part(tl.future[i], ids))
      BY <2>1, <2>2, LinksOfParts
    <2>5. Links(cutOlder, s.redo[i], tm.future[i])
      BY <2>2, <2>3, <2>4
    <2> QED
      BY <2>5 DEF cutOlder
  <1>10. /\ \A i \in DOMAIN tm.past :
              /\ i \in DOMAIN tl.past /\ tl.past[i] \in Versions
              /\ tm.past[i] = Part(tl.past[i], ids)
         /\ \A i \in DOMAIN tm.future :
              /\ i \in DOMAIN tl.future /\ tl.future[i] \in Versions
              /\ tm.future[i] = Part(tl.future[i], ids)
    <2> HIDE DEF ids
    <2>1. /\ DOMAIN tm.past = 1 .. Len(tl.past) /\ DOMAIN tl.past = 1 .. Len(tl.past)
          /\ DOMAIN tm.future = 1 .. Len(tl.future) /\ DOMAIN tl.future = 1 .. Len(tl.future)
      BY <1>1, <1>3
    <2>2. ASSUME NEW i \in 1 .. Len(tl.past)
          PROVE  tl.past[i] \in Versions /\ tm.past[i] = Part(tl.past[i], ids)
      BY <1>1, <1>3, <2>1
    <2>3. ASSUME NEW i \in 1 .. Len(tl.future)
          PROVE  tl.future[i] \in Versions /\ tm.future[i] = Part(tl.future[i], ids)
      BY <1>1, <1>3, <2>1
    <2> HIDE DEF tm
    <2> QED
      BY <2>1, <2>2, <2>3
  <1>11. EveryVersionValid(t, tm)
    <2>1. /\ Valid(Version(s.doc))
          /\ \A i \in DOMAIN tl.past : Valid(tl.past[i])
          /\ \A i \in DOMAIN tl.future : Valid(tl.future[i])
      BY DEF Agrees, EveryVersionValid
    <2>2. \A i \in DOMAIN tm.past : Valid(tm.past[i])
      BY <1>10, <2>1, ValidPart
    <2>3. \A i \in DOMAIN tm.future : Valid(tm.future[i])
      BY <1>10, <2>1, ValidPart
    <2>4. Valid(Version(t.doc))
      BY <1>4, <2>1, ValidPart
    <2> QED
      BY <2>2, <2>3, <2>4 DEF EveryVersionValid
  <1>12. OnLoadedPages(t)
    <2>1. \A o \in Objects : t.doc[o] # NoObject => PageOf[o] \in t.pages
      BY DEF CutTo, Part, OnPages
    <2>2. t.revision = 0 => t.undo = <<>> /\ t.redo = <<>>
      BY <1>5 DEF Agrees, OnLoadedPages
    <2> QED
      BY <1>5, <1>6, <2>1, <2>2 DEF OnLoadedPages
  <1>13. TimelineWithin(t, tm)
    <2>1. \A version : Within(Part(version, ids), t.pages)
      BY DEF Within, Part, OnPages
    <2>2. \A i \in DOMAIN tm.past : Within(tm.past[i], t.pages)
      BY <1>10, <2>1
    <2>3. \A i \in DOMAIN tm.future : Within(tm.future[i], t.pages)
      BY <1>10, <2>1
    <2> QED
      BY <2>2, <2>3 DEF TimelineWithin
  <1>14. Agrees(t, tm)
    BY <1>8, <1>9, <1>11, <1>12 DEF Agrees
  <1> QED
    BY <1>7, <1>13, <1>14 DEF tm

LEMMA CutTracked ==
  ASSUME NEW s, NEW t, CutTo(t, s), Tracked(s)
  PROVE  Tracked(t)
  <1>1. \A o \in Objects : t.doc[o] # NoObject => t.doc[o] = s.doc[o]
    BY DEF CutTo, Part
  <1>2. t.revision = s.revision /\ WholeStacks(t)
    BY DEF CutTo, Tracked, WholeStacks
  <1> QED
    BY <1>1, <1>2 DEF Tracked

LEMMA LoadTracked ==
  ASSUME NEW s \in Sessions, NEW page \in Pages, NEW content \in Versions, Tracked(s)
  PROVE  Tracked(LoadPage(s, page, content))
  <1> DEFINE t == LoadPage(s, page, content)
  <1>1. /\ t.revision = s.revision /\ t.undo = s.undo /\ t.redo = s.redo
        /\ t.doc = Overlay(s.doc, OnPages({page}), Stamp(content, 0))
    BY DEF LoadPage, Sessions
  <1>2. s.revision \in Nat /\ 0 \in Revisions
    BY SessionAssumption DEF Sessions, Revisions
  <1> HIDE DEF t
  <1>3. ASSUME NEW o \in Objects, t.doc[o] # NoObject
        PROVE  t.doc[o].modified <= t.revision
    <2>1. CASE o \in OnPages({page})
      <3>1. t.doc[o] = Stamp(content, 0)[o]
        BY <1>1, <2>1 DEF Overlay
      <3>2. t.doc[o].modified = 0
        BY <1>2, <1>3, <3>1, StampAbsent
      <3> QED
        BY <1>1, <1>2, <3>2
    <2>2. CASE o \notin OnPages({page})
      <3>1. t.doc[o] = s.doc[o]
        BY <1>1, <2>2 DEF Overlay
      <3> QED
        BY <1>1, <1>3, <3>1 DEF Tracked
    <2> QED
      BY <2>1, <2>2
  <1>4. WholeStacks(t)
    BY <1>1 DEF Tracked, WholeStacks
  <1>5. Tracked(t)
    BY <1>3, <1>4 DEF Tracked
  <1> QED
    BY <1>5 DEF t

-----------------------------------------------------------------------------
(* The invariant                                                           *)

IdsOf(journal) == {journal[i].id : i \in DOMAIN journal}

\* p can be published in the session s, and its history describes its document.
Stands(s, p) ==
  /\ p.previous = s.revision
  /\ p.next.revision = s.revision + 1
  /\ p.command.id \notin s.committed
  /\ Agrees(p.next, p.timeline)
  /\ TimelineWithin(p.next, p.timeline)

AppendedStands ==
  ~Idle => /\ ~closed
           /\ Stands(session, appended)
           /\ appended.command.id \in IdsOf(sidecar.journal)

EverTracked == Tracked(Promised) /\ \A p \in prepared : Tracked(p.next)

\* What could be appended next tells its change, and keeps the stored pages.
PreparedJournaled ==
  \A p \in prepared :
    p.previous = Promised.revision =>
      Journaled(Promised, p) /\ KeptBy(sidecar, p.next.pages)

\* The inductive form of RecoveryIsFaithful.
DurableInv ==
  /\ DurableTypeOK /\ Standing /\ AppendedStands /\ EverTracked
  /\ Faithful(sidecar, Promised)
  /\ PreparedJournaled
  /\ AcknowledgedIsDurable

\* Appending writes the entry behind those that are there.
LEMMA JournalAppended ==
  ASSUME NEW sc \in Sidecars, NEW p \in PreparedCommands
  PROVE  LET new == AppendTo(sc, p) IN
         /\ Seqs!IsPrefix(sc.journal, new.journal)
         /\ IdsOf(sc.journal) \subseteq IdsOf(new.journal)
         /\ p.command.id \in IdsOf(new.journal)
  <1> DEFINE entry == JournalEntry(p)
             old == sc.journal
             new == AppendTo(sc, p).journal
  <1>1. old \in Seq(JournalEntries) /\ entry \in JournalEntries
    BY JournalEntryType, SidecarTypes
  <1>2. new = Append(old, entry) /\ entry.id = p.command.id
    BY AppendToFields, JournalEntryFields
  <1> HIDE DEF entry, old, new
  <1>3. /\ new \in Seq(JournalEntries) /\ Len(new) = Len(old) + 1 /\ new[Len(old) + 1] = entry
        /\ \A i \in 1 .. Len(old) : new[i] = old[i]
        /\ Len(old) \in Nat /\ DOMAIN old = 1 .. Len(old) /\ DOMAIN new = 1 .. Len(old) + 1
    BY <1>1, <1>2
  <1>4. Seqs!IsPrefix(old, new)
    <2>1. SubSeq(old, 1, Len(old)) = SubSeq(new, 1, Len(old))
      BY <1>1, <1>3
    <2> QED
      BY <1>3, <2>1 DEF Seqs!IsPrefix
  <1>5. IdsOf(old) = {old[i].id : i \in 1 .. Len(old)}
        /\ IdsOf(new) = {new[i].id : i \in 1 .. Len(old) + 1}
    BY <1>3 DEF IdsOf
  <1>6. IdsOf(old) \subseteq IdsOf(new)
    BY <1>3, <1>5
  <1>7. p.command.id \in IdsOf(new)
    BY <1>2, <1>3, <1>5
  <1> QED
    BY <1>4, <1>6, <1>7 DEF old, new

-----------------------------------------------------------------------------
(* Actions                                                                 *)

\* What is prepared now can be published now, and its entry tells its change.
LEMMA PreparedForTells ==
  ASSUME DurableInv, Idle, NEW c \in Requests
  PROVE  LET p == PreparedFor(c) IN
         /\ p \in PreparedCommands
         /\ Stands(session, p)
         /\ Tracked(p.next)
         /\ Journaled(session, p)
         /\ KeptBy(sidecar, p.next.pages)
  <1> DEFINE p == PreparedFor(c)
             next == ApplyEnvelope(session, c)
             changed == ChangedObjects(session.doc, next.doc)
  <1>1. /\ Standing /\ TypeOK /\ session \in Sessions /\ timeline \in Timelines
        /\ Agrees(session, timeline) /\ OnLoadedPages(session)
        /\ Tracked(session) /\ Faithful(sidecar, session)
    BY DEF DurableInv, Standing, TypeOK, EverTracked, Promised, HistoryAgreesWithDocument, Agrees
  <1>2. c \in Commands /\ Accepts(session, c) /\ c.id \notin session.committed
    BY <1>1, RequestType DEF Accepts
  <1>3. /\ p.command = c /\ p.previous = session.revision /\ p.next = next
        /\ p.before = Part(session.doc, changed) /\ p.after = Part(next.doc, changed)
        /\ p.timeline = Advance(session, timeline, c)
    BY DEF PreparedFor
  <1>4. p \in PreparedCommands
    BY <1>1, <1>2, PreparedForType
  <1>5. next.revision = session.revision + 1 /\ next.pages = session.pages
    BY <1>1, <1>2, EnvelopeFields, AcceptedIsApplicable
  <1>6. Agrees(next, p.timeline) /\ TimelineWithin(next, p.timeline)
    BY <1>1, <1>2, <1>3, EnvelopeAgrees, CommandStands
  <1>7. Tracked(next)
    BY <1>1, <1>2, EnvelopeTracked
  <1>8. changed = Touched(session, c)
    BY <1>1, <1>2, CommandChanges DEF Changes
  <1> HIDE DEF p, changed
  <1>9. Journaled(session, p)
    BY <1>1, <1>2, <1>3, <1>8, EntryTells DEF next
  <1>10. KeptBy(sidecar, session.pages)
    BY <1>1 DEF Faithful, PagesKept, KeptBy
  <1> HIDE DEF next
  <1>11. Stands(session, p)
    BY <1>2, <1>3, <1>5, <1>6 DEF Stands
  <1> QED
    BY <1>3, <1>4, <1>5, <1>7, <1>9, <1>10, <1>11 DEF p

LEMMA StandingSubset ==
  ASSUME Standing, prepared' \subseteq prepared, UNCHANGED <<session, closed, timeline>>
  PROVE  Standing'
  BY DEF Standing, TypeOK, HistoryAgreesWithDocument, PreparedStand

\* The append of p, whoever prepared it.
LEMMA AppendKept ==
  ASSUME DurableInv, Idle, ~closed, NEW p \in PreparedCommands, Stands(session, p),
         Tracked(p.next), Journaled(session, p), KeptBy(sidecar, p.next.pages),
         sidecar' = AppendTo(sidecar, p), appended' = p, prepared' \subseteq prepared,
         UNCHANGED <<session, closed, timeline, acked>>
  PROVE  DurableInv'
  <1>1. /\ sidecar \in Sidecars /\ session \in Sessions /\ session.revision \in Int
        /\ Faithful(sidecar, session) /\ acked \subseteq CommandIds
        /\ Standing
    BY DEF DurableInv, DurableTypeOK, TypeOK, Promised, Sessions, Revisions
  <1>2. Standing'
    BY <1>1, StandingSubset
  <1>3. sidecar' \in Sidecars
    BY <1>1, AppendToType
  <1>4. DurableTypeOK'
    BY <1>1, <1>2, <1>3 DEF DurableTypeOK, Standing
  <1>5. ~Idle' /\ Promised' = p.next
    BY DurableAssumption DEF Idle, Promised
  <1>6. IdsOf(sidecar.journal) \subseteq IdsOf(sidecar'.journal)
        /\ p.command.id \in IdsOf(sidecar'.journal)
    BY <1>1, JournalAppended
  <1>7. AppendedStands'
    BY <1>6 DEF AppendedStands, Idle, Stands
  <1>8. EverTracked'
    BY <1>5 DEF DurableInv, EverTracked
  <1>9. Faithful(sidecar', p.next)
    <2>1. OnLoadedPages(p.next) /\ p.next.revision = session.revision + 1
      BY DEF Stands, Agrees
    <2> QED
      BY <1>1, <2>1, FaithfulAppend
  <1>10. PreparedJournaled'
    <2> SUFFICES ASSUME NEW q \in prepared PROVE q.previous # p.next.revision
      BY <1>5 DEF PreparedJournaled
    <2>1. q.previous <= session.revision /\ q \in PreparedCommands
      BY <1>1 DEF Standing, PreparedStand, TypeOK
    <2> QED
      BY <1>1, <2>1 DEF Stands, PreparedCommands, Revisions
  <1>11. AcknowledgedIsDurable'
    BY <1>6 DEF DurableInv, AcknowledgedIsDurable, IdsOf
  <1> QED
    BY <1>2, <1>4, <1>5, <1>7, <1>8, <1>9, <1>10, <1>11 DEF DurableInv

LEMMA SubmittedAppends ==
  ASSUME DurableInv, AppendSubmitted
  PROVE  \E p \in PreparedCommands :
           /\ Stands(session, p) /\ Tracked(p.next) /\ Journaled(session, p)
           /\ KeptBy(sidecar, p.next.pages)
           /\ AcceptsAppend(sidecar, p) /\ sidecar' = AppendTo(sidecar, p) /\ appended' = p
           /\ Idle /\ ~closed /\ UNCHANGED <<session, prepared, closed, timeline, acked>>
  <1>1. PICK c \in Requests : /\ AcceptsAppend(sidecar, PreparedFor(c))
                              /\ sidecar' = AppendTo(sidecar, PreparedFor(c))
                              /\ appended' = PreparedFor(c)
    BY DEF AppendSubmitted
  <1>2. Idle /\ ~closed /\ UNCHANGED <<session, prepared, closed, timeline, acked>>
    BY DEF AppendSubmitted, vars
  <1>3. /\ PreparedFor(c) \in PreparedCommands /\ Stands(session, PreparedFor(c))
        /\ Tracked(PreparedFor(c).next) /\ Journaled(session, PreparedFor(c))
        /\ KeptBy(sidecar, PreparedFor(c).next.pages)
    BY <1>2, PreparedForTells
  <1> QED
    BY <1>1, <1>2, <1>3

\* A prepared command was accepted by the session as it was prepared, and no
\* command was committed since.
LEMMA PreparedAppends ==
  ASSUME DurableInv, NEW p \in prepared, AppendPrepared(p)
  PROVE  /\ p \in PreparedCommands
         /\ Stands(session, p) /\ Tracked(p.next) /\ Journaled(session, p)
         /\ KeptBy(sidecar, p.next.pages)
         /\ AcceptsAppend(sidecar, p) /\ sidecar' = AppendTo(sidecar, p) /\ appended' = p
         /\ Idle /\ ~closed /\ prepared' \subseteq prepared
         /\ UNCHANGED <<session, closed, timeline, acked>>
  <1>1. /\ Idle /\ ~closed /\ p.previous = session.revision
        /\ AcceptsAppend(sidecar, p) /\ sidecar' = AppendTo(sidecar, p) /\ appended' = p
        /\ prepared' \subseteq prepared /\ UNCHANGED <<session, closed, timeline, acked>>
    BY DEF AppendPrepared
  <1>2. /\ p \in PreparedCommands /\ Tracked(p.next) /\ Promised = session
        /\ Journaled(session, p) /\ KeptBy(sidecar, p.next.pages)
    BY <1>1 DEF DurableInv, DurableTypeOK, TypeOK, EverTracked, PreparedJournaled, Promised
  <1>3. /\ p.next.revision = session.revision + 1
        /\ Agrees(p.next, p.timeline) /\ TimelineWithin(p.next, p.timeline)
    BY <1>1 DEF DurableInv, Standing, PreparedStand, HistoryAgreesWithDocument
  <1>4. p.command.id \notin session.committed
    <2>1. PICK s0 \in Sessions, tl0 \in Timelines :
            Origin(session, timeline, s0, tl0) /\ PreparedIn(p, s0, tl0)
      BY <1>1 DEF DurableInv, Standing, PreparedStand
    <2> QED
      BY <2>1 DEF Origin, PreparedIn, Accepts
  <1>5. Stands(session, p)
    BY <1>1, <1>3, <1>4 DEF Stands
  <1> QED
    BY <1>1, <1>2, <1>5

LEMMA PublishKept == DurableInv /\ PublishAppended => DurableInv'
  <1> SUFFICES ASSUME DurableInv, PublishAppended PROVE DurableInv'
    OBVIOUS
  <1>1. /\ ~Idle /\ session' = appended.next /\ timeline' = appended.timeline
        /\ acked' = acked \cup {appended.command.id} /\ appended' = NoCommit
        /\ UNCHANGED <<prepared, closed, sidecar>>
    BY DEF PublishAppended
  <1>2. /\ appended \in PreparedCommands /\ Stands(session, appended)
        /\ appended.command.id \in IdsOf(sidecar.journal)
    BY <1>1 DEF DurableInv, AppendedStands, DurableTypeOK, Idle
  <1>3. /\ session' \in Sessions /\ timeline' \in Timelines
        /\ appended.command.id \in CommandIds
        /\ session'.revision = session.revision + 1 /\ session.revision \in Int
    BY <1>1, <1>2 DEF PreparedCommands, Commands, Stands, DurableInv, DurableTypeOK, TypeOK,
                      Sessions, Revisions
  <1>4. DurableTypeOK'
    BY <1>1, <1>2, <1>3 DEF DurableInv, DurableTypeOK, TypeOK
  <1>5. Standing'
    <2>1. HistoryAgreesWithDocument'
      BY <1>1, <1>2 DEF DurableInv, Standing, HistoryAgreesWithDocument, Stands
    <2>2. PreparedStand'
      <3>1. TimelineWithin(session', timeline')
        BY <1>1, <1>2 DEF Stands
      <3>2. ASSUME NEW p \in prepared
            PROVE  /\ TimelineWithin(p.next, p.timeline)
                   /\ p.previous <= session'.revision
                   /\ p.next.revision = p.previous + 1
                   /\ p.previous # session'.revision
        <4>1. p.previous \in Int
          BY DEF DurableInv, DurableTypeOK, TypeOK, PreparedCommands, Revisions
        <4> QED
          BY <1>3, <4>1 DEF DurableInv, Standing, PreparedStand
      <3> QED
        BY <1>1, <3>1, <3>2 DEF PreparedStand
    <2> QED
      BY <1>4, <2>1, <2>2 DEF Standing, DurableTypeOK
  <1>6. Promised' = Promised /\ Idle'
    BY <1>1 DEF Promised, Idle
  <1>7. AppendedStands'
    BY <1>6 DEF AppendedStands
  <1>8. EverTracked' /\ PreparedJournaled' /\ Faithful(sidecar', Promised')
    BY <1>1, <1>6 DEF DurableInv, EverTracked, PreparedJournaled
  <1>9. AcknowledgedIsDurable'
    BY <1>1, <1>2 DEF DurableInv, AcknowledgedIsDurable, IdsOf
  <1> QED
    BY <1>4, <1>5, <1>7, <1>8, <1>9 DEF DurableInv

\* A page that is loaded leaves what a prepared command tells.
LEMMA JournaledAfterLoad ==
  ASSUME NEW s \in Sessions, NEW p, NEW page \in Pages, NEW content \in Versions,
         CanHydrateLive(s, page, content), Journaled(s, p), p.next.pages \subseteq s.pages
  PROVE  Journaled(LoadPage(s, page, content), p)
  <1> DEFINE t == LoadPage(s, page, content)
             ids == Changed(JournalEntry(p))
  <1>1. /\ t.revision = s.revision /\ t.committed = s.committed
        /\ t.undo = s.undo /\ t.redo = s.redo
        /\ t.doc = Overlay(s.doc, OnPages({page}), Stamp(content, 0))
    BY DEF LoadPage, Sessions
  <1>2. HistoryOf(t) = HistoryOf(s) /\ StackIds(t) = StackIds(s)
    BY <1>1 DEF HistoryOf, StackIds
  <1>3. ASSUME t.revision > 0, NEW o \in OnPages(p.next.pages)
        PROVE  t.doc[o] = s.doc[o]
    <2>1. page \notin p.next.pages
      BY <1>1, <1>3 DEF CanHydrateLive
    <2> QED
      BY <1>1, <2>1 DEF Overlay, OnPages
  <1> HIDE DEF t
  <1>4. Journaled(t, p)
    BY <1>1, <1>2, <1>3 DEF Journaled
  <1> QED
    BY <1>4 DEF t

LEMMA RequestKept == DurableInv /\ SessionRequest => DurableInv'
  <1> SUFFICES ASSUME DurableInv, SessionRequest PROVE DurableInv'
    OBVIOUS
  <1>1. Idle /\ UNCHANGED <<sidecar, appended, acked>>
    BY DEF SessionRequest, durable
  <1>2. Promised = session /\ Promised' = session' /\ Idle'
    BY <1>1 DEF Promised, Idle
  <1>3. AppendedStands' /\ AcknowledgedIsDurable'
    BY <1>1, <1>2 DEF AppendedStands, DurableInv, AcknowledgedIsDurable
  <1>4. Next
    BY DEF SessionRequest, Next
  <1>5. Standing'
    <2>1. TypeOK' /\ HistoryAgreesWithDocument' /\ PreparedStand'
      BY <1>4, TypeKept, HistoryKept, StandingKept DEF DurableInv, Standing
    <2> QED
      BY <2>1 DEF Standing
  <1>6. DurableTypeOK'
    BY <1>1, <1>5 DEF DurableInv, DurableTypeOK, Standing
  <1>7. ASSUME EverTracked', Faithful(sidecar, session'), PreparedJournaled'
        PROVE  DurableInv'
    BY <1>1, <1>2, <1>3, <1>5, <1>6, <1>7 DEF DurableInv
  <1>8. /\ session \in Sessions /\ Tracked(session) /\ Faithful(sidecar, session)
        /\ \A p \in prepared : /\ Tracked(p.next)
                               /\ p.previous = session.revision =>
                                    Journaled(session, p) /\ KeptBy(sidecar, p.next.pages)
    BY <1>2 DEF DurableInv, DurableTypeOK, TypeOK, EverTracked, PreparedJournaled
  <1>9. CASE Prepare
    <2>1. PICK c \in Requests : prepared' = prepared \cup {PreparedFor(c)}
      BY <1>9 DEF Prepare
    <2>2. /\ Tracked(PreparedFor(c).next) /\ Journaled(session, PreparedFor(c))
          /\ KeptBy(sidecar, PreparedFor(c).next.pages)
      BY <1>1, PreparedForTells
    <2>3. session' = session
      BY <1>9 DEF Prepare
    <2>4. EverTracked'
      BY <1>2, <1>8, <2>1, <2>2, <2>3 DEF EverTracked
    <2>5. PreparedJournaled'
      BY <1>1, <1>2, <1>8, <2>1, <2>2, <2>3 DEF PreparedJournaled
    <2> QED
      BY <1>7, <1>8, <2>3, <2>4, <2>5
  <1>10. CASE Close
    <2>1. session' = session /\ prepared' = prepared
      BY <1>10 DEF Close
    <2> QED
      BY <1>1, <1>2, <1>7, <1>8, <2>1 DEF EverTracked, PreparedJournaled
  <1>11. ASSUME NEW page \in Pages, NEW content \in Imports[page],
                HydratePage(page, content) \/ HydrateLivePage(page, content)
         PROVE  DurableInv'
    <2>1. /\ session' = LoadPage(session, page, content) /\ prepared' = prepared
          /\ CanHydrateLive(session, page, content)
      BY <1>11 DEF HydratePage, HydrateLivePage, CanHydrate, CanHydrateLive, Load
    <2>2. content \in Versions
      BY ImportType
    <2>3. Faithful(sidecar, session') /\ Tracked(session')
      BY <1>8, <2>1, <2>2, FaithfulLoad, LoadTracked
    <2>4. session'.revision = session.revision
      BY <1>8, <2>1 DEF LoadPage, Sessions
    <2>5. ASSUME NEW p \in prepared, p.previous = session.revision
          PROVE  Journaled(session', p)
      <3>1. PICK s0 \in Sessions, tl0 \in Timelines :
              Origin(session, timeline, s0, tl0) /\ PreparedIn(p, s0, tl0)
        BY <2>5 DEF DurableInv, Standing, PreparedStand
      <3>2. p.command \in Commands
        BY DEF DurableInv, DurableTypeOK, TypeOK, PreparedCommands
      <3>3. p.next.pages = s0.pages
        BY <3>1, <3>2, EnvelopeFields, AcceptedIsApplicable DEF PreparedIn
      <3>4. p.next.pages \subseteq session.pages
        BY <3>1, <3>3 DEF Origin
      <3> QED
        BY <1>8, <2>1, <2>2, <2>5, <3>4, JournaledAfterLoad
    <2>6. EverTracked'
      BY <1>2, <1>8, <2>1, <2>3 DEF EverTracked
    <2>7. PreparedJournaled'
      BY <1>1, <1>2, <1>8, <2>1, <2>4, <2>5 DEF PreparedJournaled
    <2> QED
      BY <1>7, <2>3, <2>6, <2>7
  <1> QED
    BY <1>9, <1>10, <1>11 DEF SessionRequest

LEMMA RestartKept == DurableInv /\ Restart => DurableInv'
  <1> SUFFICES ASSUME DurableInv, Restart PROVE DurableInv'
    OBVIOUS
  <1> DEFINE tl == IF Idle THEN timeline ELSE appended.timeline
  <1>1. /\ CanRecover(sidecar) /\ session' = Recovered(sidecar)
        /\ timeline' = OnPagesOf(tl, session'.pages)
        /\ prepared' = {} /\ closed' = FALSE /\ appended' = NoCommit
        /\ UNCHANGED <<sidecar, acked>>
    BY DEF Restart
  <1>2. /\ Promised \in Sessions /\ tl \in Timelines /\ Agrees(Promised, tl)
        /\ sidecar \in Sidecars /\ Tracked(Promised) /\ Faithful(sidecar, Promised)
    BY DEF DurableInv, DurableTypeOK, TypeOK, Standing, HistoryAgreesWithDocument, AppendedStands,
           Stands, EverTracked, Promised, Idle, PreparedCommands
  <1> HIDE DEF tl
  <1>3. CutTo(session', Promised) /\ KeptBy(sidecar, session'.pages)
    BY <1>1, <1>2, RecoveredCut
  <1>4. /\ timeline' \in Timelines /\ Agrees(session', timeline')
        /\ TimelineWithin(session', timeline')
    BY <1>1, <1>2, <1>3, CutAgrees
  <1>5. DurableTypeOK'
    BY <1>1, <1>3, <1>4 DEF DurableInv, DurableTypeOK, TypeOK, CutTo
  <1>6. Standing'
    BY <1>1, <1>4, <1>5 DEF Standing, DurableTypeOK, HistoryAgreesWithDocument, PreparedStand
  <1>7. Promised' = session' /\ Idle'
    BY <1>1 DEF Promised, Idle
  <1>8. EverTracked'
    BY <1>1, <1>2, <1>3, <1>7, CutTracked DEF EverTracked
  <1>9. Faithful(sidecar', Promised')
    BY <1>1, <1>2, <1>3, <1>7, FaithfulCut
  <1>10. AppendedStands' /\ PreparedJournaled' /\ AcknowledgedIsDurable'
    BY <1>1, <1>7 DEF DurableInv, AppendedStands, PreparedJournaled, AcknowledgedIsDurable
  <1> QED
    BY <1>5, <1>6, <1>8, <1>9, <1>10 DEF DurableInv

\* Damage changes no entry of the journal.
LEMMA DamageKept ==
  ASSUME DurableInv, DamageModel \/ DamageSnapshot
  PROVE  DurableInv' /\ sidecar'.journal = sidecar.journal /\ sidecar'.revision = sidecar.revision
  <1>1. /\ UNCHANGED <<session, prepared, closed, timeline, appended, acked>>
    BY DEF DamageModel, DamageSnapshot, vars
  <1>2. sidecar \in Sidecars /\ Faithful(sidecar, Promised)
    BY DEF DurableInv, DurableTypeOK
  <1>3. /\ sidecar' \in Sidecars /\ Faithful(sidecar', Promised)
        /\ \A pages : KeptBy(sidecar, pages) => KeptBy(sidecar', pages)
        /\ sidecar'.journal = sidecar.journal /\ sidecar'.revision = sidecar.revision
    <2>1. CASE DamageModel
      <3>1. sidecar' = [sidecar EXCEPT !.intact = FALSE]
        BY <2>1 DEF DamageModel
      <3>2. sidecar'.journal = sidecar.journal /\ sidecar'.revision = sidecar.revision
        BY <1>2, <3>1 DEF Sidecars
      <3> QED
        BY <1>2, <3>1, <3>2, FaithfulDamagedModel
    <2>2. CASE DamageSnapshot
      <3>1. PICK snap \in sidecar.snapshots :
              sidecar' = [sidecar EXCEPT !.snapshots =
                            (@ \ {snap}) \cup {[snap EXCEPT !.intact = FALSE]}]
        BY <2>2 DEF DamageSnapshot
      <3>2. sidecar'.journal = sidecar.journal /\ sidecar'.revision = sidecar.revision
        BY <1>2, <3>1 DEF Sidecars
      <3> QED
        BY <1>2, <3>1, <3>2, FaithfulDamagedSnapshot
    <2> QED
      BY <2>1, <2>2
  <1>4. Promised' = Promised /\ (Idle' <=> Idle)
    BY <1>1 DEF Promised, Idle
  <1>5. Standing'
    BY <1>1, StandingSubset DEF DurableInv
  <1>6. DurableTypeOK' /\ AppendedStands' /\ AcknowledgedIsDurable'
    BY <1>1, <1>3, <1>4, <1>5
       DEF DurableInv, DurableTypeOK, Standing, AppendedStands, IdsOf, AcknowledgedIsDurable
  <1>7. EverTracked' /\ PreparedJournaled' /\ Faithful(sidecar', Promised')
    BY <1>1, <1>3, <1>4 DEF DurableInv, EverTracked, PreparedJournaled
  <1> QED
    BY <1>3, <1>5, <1>6, <1>7 DEF DurableInv

LEMMA DurableKept == DurableInv /\ [DurableNext]_allVars => DurableInv'
  <1> SUFFICES ASSUME DurableInv, [DurableNext]_allVars PROVE DurableInv'
    OBVIOUS
  <1>1. CASE AppendSubmitted
    <2>1. PICK p \in PreparedCommands :
            /\ Stands(session, p) /\ Tracked(p.next) /\ Journaled(session, p)
            /\ KeptBy(sidecar, p.next.pages)
            /\ AcceptsAppend(sidecar, p) /\ sidecar' = AppendTo(sidecar, p) /\ appended' = p
            /\ Idle /\ ~closed /\ UNCHANGED <<session, prepared, closed, timeline, acked>>
      BY <1>1, SubmittedAppends
    <2>2. prepared' \subseteq prepared
      BY <2>1
    <2> QED
      BY <2>1, <2>2, AppendKept
  <1>2. ASSUME NEW p \in prepared, AppendPrepared(p) PROVE DurableInv'
    BY <1>2, PreparedAppends, AppendKept
  <1>3. ASSUME prepared' \subseteq prepared, UNCHANGED <<session, closed, timeline, durable>>
        PROVE  DurableInv'
    <2>1. UNCHANGED <<sidecar, appended, acked>>
      BY <1>3 DEF durable
    <2>2. Standing'
      BY <1>3, StandingSubset DEF DurableInv
    <2>3. Promised' = Promised /\ (Idle' <=> Idle)
      BY <1>3, <2>1 DEF Promised, Idle
    <2>4. DurableTypeOK' /\ AppendedStands' /\ AcknowledgedIsDurable'
      BY <1>3, <2>1, <2>2, <2>3
         DEF DurableInv, DurableTypeOK, Standing, AppendedStands, AcknowledgedIsDurable
    <2>5. EverTracked' /\ PreparedJournaled' /\ Faithful(sidecar', Promised')
      BY <1>3, <2>1, <2>3 DEF DurableInv, EverTracked, PreparedJournaled
    <2> QED
      BY <2>2, <2>4, <2>5 DEF DurableInv
  <1>4. ASSUME NEW p \in prepared, RefusePrepared(p) PROVE DurableInv'
    BY <1>3, <1>4 DEF RefusePrepared
  <1>5. CASE PublishAppended
    BY <1>5, PublishKept
  <1>6. CASE SessionRequest
    BY <1>6, RequestKept
  <1>7. CASE Restart
    BY <1>7, RestartKept
  <1>8. CASE DamageModel \/ DamageSnapshot
    BY <1>8, DamageKept
  <1>9. CASE UNCHANGED allVars
    BY <1>3, <1>9 DEF allVars, vars
  <1> QED
    BY <1>1, <1>2, <1>4, <1>5, <1>6, <1>7, <1>8, <1>9 DEF DurableNext

LEMMA DurableStart == DurableInit => DurableInv
  <1> SUFFICES ASSUME DurableInit PROVE DurableInv
    OBVIOUS
  <1>1. Init /\ sidecar = NewSidecar(session) /\ appended = NoCommit /\ acked = {}
    BY DEF DurableInit
  <1>2. Standing
    BY <1>1, TypeInit, HistoryInit, StandingInit DEF Standing
  <1>3. /\ session \in Sessions /\ OnLoadedPages(session) /\ prepared = {}
        /\ session.revision = 0 /\ session.pages = {} /\ session.committed = {}
        /\ session.undo = <<>> /\ session.redo = <<>>
        /\ \A o \in Objects : session.doc[o] = NoObject
    <2>1. PICK contents \in [FirstPages -> Versions] :
            session = NewSession(FirstPages, Stamp(InitialDocument(contents), 0))
      BY <1>1 DEF Init
    <2>2. /\ session.revision = 0 /\ session.pages = {} /\ session.committed = {}
          /\ session.undo = <<>> /\ session.redo = <<>>
      BY <2>1, ProjectAssumption DEF NewSession
    <2>3. session \in Sessions /\ OnLoadedPages(session) /\ prepared = {}
      BY <1>1, <1>2 DEF Standing, TypeOK, HistoryAgreesWithDocument, Agrees, Init
    <2> QED
      BY <2>2, <2>3 DEF OnLoadedPages
  <1>4. Idle /\ Promised = session
    BY <1>1 DEF Idle, Promised
  <1>5. Faithful(sidecar, session)
    BY <1>1, <1>3, FaithfulNew
  <1>6. Tracked(session)
    BY <1>3 DEF Tracked, WholeStacks
  <1>7. sidecar \in Sidecars
    <2>1. session.revision \in Revisions /\ session.pages \in SUBSET Pages
          /\ session.doc \in Documents
      BY <1>3 DEF Sessions
    <2> QED
      BY <1>1, <2>1 DEF NewSidecar, Sidecars, Snapshots
  <1>8. DurableTypeOK
    BY <1>1, <1>2, <1>7 DEF DurableTypeOK, Standing
  <1> QED
    BY <1>1, <1>2, <1>3, <1>4, <1>5, <1>6, <1>8
       DEF DurableInv, AppendedStands, EverTracked, PreparedJournaled, AcknowledgedIsDurable

LEMMA DurableAlways == DurableSpec => []DurableInv
  BY DurableStart, DurableKept, PTL DEF DurableSpec

-----------------------------------------------------------------------------
(* Theorems                                                                *)

LEMMA IntactRecovers ==
  ASSUME NEW sc, NEW s, Faithful(sc, s), sc.intact
  PROVE  CanRecover(sc)
  <1>1. RecoveredModel(sc).ok
    BY DEF RecoveredModel, StoredModel
  <1>2. /\ RecoveredHistory(sc.journal).ok = TRUE
        /\ RecoveredHistory(sc.journal).revision = sc.revision
        /\ Len(RecoveredHistory(sc.journal).undo) = sc.cursor
    BY DEF Faithful, HistoryOf
  <1> QED
    BY <1>1, <1>2 DEF CanRecover

\* Whenever the process stops, what recovery builds is the session that the
\* journal promises, on the pages of the model that is read or rebuilt; and a
\* project whose stored model is intact always opens.
THEOREM RecoveryFaithful == DurableSpec => []RecoveryIsFaithful
  <1>1. DurableInv => RecoveryIsFaithful
    <2> SUFFICES ASSUME DurableInv PROVE RecoveryIsFaithful
      OBVIOUS
    <2>1. sidecar \in Sidecars /\ Faithful(sidecar, Promised) /\ DurableTypeOK
      BY DEF DurableInv, DurableTypeOK
    <2>2. Promised \in Sessions
      BY <2>1 DEF DurableTypeOK, TypeOK, Promised, Idle, PreparedCommands
    <2>3. RecoveryIsExact
      <3> SUFFICES ASSUME CanRecover(sidecar)
                   PROVE  CutTo(Recovered(sidecar), Promised)
        BY DEF RecoveryIsExact, CutTo
      <3> QED
        BY <2>1, <2>2, RecoveredCut
    <2>4. IntactAlwaysRecovers
      BY <2>1, IntactRecovers DEF IntactAlwaysRecovers
    <2> QED
      BY <2>1, <2>3, <2>4 DEF RecoveryIsFaithful
  <1> QED
    BY <1>1, DurableAlways, PTL

\* A command its caller knows to be committed is in the journal.
THEOREM AcknowledgedStays == DurableSpec => []AcknowledgedIsDurable
  <1>1. DurableInv => AcknowledgedIsDurable
    BY DEF DurableInv
  <1> QED
    BY <1>1, DurableAlways, PTL

\* publish cannot refuse what was appended.
THEOREM AppendedIsPublished == DurableSpec => []AppendedCanPublish
  <1>1. DurableInv => AppendedCanPublish
    BY DEF DurableInv, AppendedStands, Stands, AppendedCanPublish, CanPublish
  <1> QED
    BY <1>1, DurableAlways, PTL

\* The journal is only ever extended, and no revision is taken back.
THEOREM JournalGrows == DurableSpec => JournalOnlyGrows
  <1> DEFINE Grows == /\ Seqs!IsPrefix(sidecar.journal, sidecar'.journal)
                      /\ sidecar.revision <= sidecar'.revision
  <1>1. DurableInv /\ [DurableNext]_allVars => [Grows]_allVars
    <2> SUFFICES ASSUME DurableInv, DurableNext PROVE Grows
      OBVIOUS
    <2>1. /\ sidecar \in Sidecars /\ sidecar.revision \in Int
          /\ sidecar.journal \in Seq(JournalEntries)
      BY SidecarTypes DEF DurableInv, DurableTypeOK
    <2>2. ASSUME sidecar'.journal = sidecar.journal, sidecar'.revision = sidecar.revision
          PROVE  Grows
      BY <2>1, <2>2 DEF Seqs!IsPrefix
    <2>3. ASSUME NEW p \in PreparedCommands, Stands(session, p), AcceptsAppend(sidecar, p),
                 sidecar' = AppendTo(sidecar, p)
          PROVE  Grows
      <3>1. sidecar.revision = p.previous /\ p.next.revision = p.previous + 1
        BY <2>3 DEF AcceptsAppend, Stands
      <3>2. sidecar'.revision = p.next.revision
        BY <2>3, AppendToFields
      <3>3. Seqs!IsPrefix(sidecar.journal, sidecar'.journal)
        BY <2>1, <2>3, JournalAppended
      <3> QED
        BY <2>1, <3>1, <3>2, <3>3
    <2>4. CASE AppendSubmitted
      BY <2>3, <2>4, SubmittedAppends
    <2>5. ASSUME NEW p \in prepared, AppendPrepared(p) PROVE Grows
      BY <2>3, <2>5, PreparedAppends
    <2>6. ASSUME NEW p \in prepared, RefusePrepared(p) PROVE Grows
      BY <2>2, <2>6 DEF RefusePrepared, durable
    <2>7. CASE PublishAppended \/ SessionRequest \/ Restart
      BY <2>2, <2>7 DEF PublishAppended, SessionRequest, Restart, durable
    <2>8. CASE DamageModel \/ DamageSnapshot
      BY <2>2, <2>8, DamageKept
    <2> QED
      BY <2>4, <2>5, <2>6, <2>7, <2>8 DEF DurableNext
  <1> QED
    BY <1>1, DurableAlways, PTL DEF DurableSpec, JournalOnlyGrows
=============================================================================
