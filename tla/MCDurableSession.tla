-------------------------- MODULE MCDurableSession --------------------------
(***************************************************************************)
(* A small instance of DurableSession.  Page p1 holds the text block t     *)
(* and, once created, the annotation note, which quotes the text x of t.   *)
(* The project is created without pages.                                   *)
(***************************************************************************)
EXTENDS DurableSession, TLC

CONSTANTS
  p1, t, note, x, y, quote,
  LastPrepared  \* bound on the revisions at which callers keep prepared commands

MCPageOf == [o \in Objects |-> p1]

\* The annotation quotes the text x of block t.
MCTargets == [a \in AnnotationValues |-> {t}]
MCQuoted  == {<<x, quote>>}

MCImports == [page \in Pages |-> {Part(All(x), {t})}]

\* A typing run whose caret goes back and forth.
Keystrokes ==
  {[group |-> "run", from |-> 0, to |-> 1, boundary |-> FALSE],
   [group |-> "run", from |-> 1, to |-> 0, boundary |-> FALSE]}

Ids == Permutations(CommandIds)

\* The journal goes on to MaxRevision without prepared commands.
PreparedEarly == prepared # {} => sidecar.revision <= LastPrepared

MCSpec == DurableInit /\ [][DurableNext /\ PreparedEarly']_allVars
=============================================================================
