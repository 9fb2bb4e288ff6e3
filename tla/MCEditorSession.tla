-------------------------- MODULE MCEditorSession --------------------------
(***************************************************************************)
(* Small instances of EditorSession.  Page p1 holds the text block t and,  *)
(* once created, the annotation note, which quotes the text x of t; page   *)
(* p2 holds the text block other and imports as one of two contents.       *)
(***************************************************************************)
EXTENDS EditorSession, TLC

CONSTANTS p1, p2, t, note, other, x, y, quote

MCPageOf == [o \in Objects |-> IF o = other THEN p2 ELSE p1]

\* The annotation quotes the text x of block t.
MCTargets == [a \in AnnotationValues |-> {t}]
MCQuoted  == {<<x, quote>>}

MCImports ==
  [page \in Pages |->
     IF page = p1 THEN {Part(All(x), {t})}
                 ELSE {Part(All(v), {other}) : v \in TextValues}]

\* A typing run whose caret goes back and forth, and a composition boundary.
Keystrokes ==
  {[group |-> "run", from |-> 0, to |-> 1, boundary |-> FALSE],
   [group |-> "run", from |-> 1, to |-> 0, boundary |-> FALSE],
   [group |-> "run", from |-> 1, to |-> 0, boundary |-> TRUE]}

Ids == Permutations(CommandIds)
=============================================================================
