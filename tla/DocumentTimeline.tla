-------------------------- MODULE DocumentTimeline --------------------------
(***************************************************************************)
(* What an editing session promises to its user, without its means: the    *)
(* document is a timeline of versions.  A command adds a version, or       *)
(* extends the newest one when a keystroke joins the typing run before it; *)
(* undo and redo walk the timeline and find every version as it was;       *)
(* pages join all versions of the timeline when they are loaded.           *)
(*                                                                         *)
(* One promise is weaker than a reader would expect.  A command publishes  *)
(* the document it was prepared against, so it may leave out pages that    *)
(* were loaded meanwhile (keep), and before the first command it may even  *)
(* bring back the earlier import of a page.                                *)
(***************************************************************************)
EXTENDS Integers, Sequences

CONSTANTS Pages, Objects, PageOf, Values, NoObject

VARIABLES
  pages,    \* the pages loaded so far
  past,     \* the versions undo returns to, oldest first
  present,  \* the version shown
  future    \* the versions redo returns to, the next one last

vars == <<pages, past, present, future>>

Versions == [Objects -> Values \cup {NoObject}]

Kept(version, keep) ==
  [o \in Objects |-> IF PageOf[o] \in keep THEN version[o] ELSE NoObject]

KeptAll(versions, keep) == [i \in DOMAIN versions |-> Kept(versions[i], keep)]

Front(seq) == SubSeq(seq, 1, Len(seq) - 1)
Last(seq) == seq[Len(seq)]

Init ==
  /\ pages \in SUBSET Pages
  /\ present \in Versions
  /\ past = <<>>
  /\ future = <<>>

\* The next version, which undo takes back to the present one.
Record(keep) ==
  /\ past' = Append(KeptAll(past, keep), Kept(present, keep))
  /\ present' \in Versions
  /\ future' = <<>>
  /\ pages' = keep

\* The first version after the imports; it may rest on an earlier import.
RecordFirst ==
  /\ past = <<>>
  /\ future = <<>>
  /\ pages' \subseteq pages
  /\ \E base \in Versions : past' = <<base>>
  /\ present' \in Versions
  /\ future' = <<>>

\* A keystroke joins the newest version: undo still goes where it went.
Extend(keep) ==
  /\ past # <<>>
  /\ past' = KeptAll(past, keep)
  /\ present' \in Versions
  /\ future' = <<>>
  /\ pages' = keep

StepBack(keep) ==
  /\ past # <<>>
  /\ present' = Kept(Last(past), keep)
  /\ past' = KeptAll(Front(past), keep)
  /\ future' = Append(KeptAll(future, keep), Kept(present, keep))
  /\ pages' = keep

StepForward(keep) ==
  /\ future # <<>>
  /\ present' = Kept(Last(future), keep)
  /\ future' = KeptAll(Front(future), keep)
  /\ past' = Append(KeptAll(past, keep), Kept(present, keep))
  /\ pages' = keep

\* Loaded content joins every version; a page is imported again only while
\* there is no history.
Load(p, content) ==
  LET Joined(version) ==
        [o \in Objects |-> IF PageOf[o] = p THEN content[o] ELSE version[o]]
  IN /\ p \notin pages \/ (past = <<>> /\ future = <<>>)
     /\ pages' = pages \cup {p}
     /\ past' = [i \in DOMAIN past |-> Joined(past[i])]
     /\ present' = Joined(present)
     /\ future' = [i \in DOMAIN future |-> Joined(future[i])]

Next ==
  \/ \E keep \in SUBSET pages :
       Record(keep) \/ Extend(keep) \/ StepBack(keep) \/ StepForward(keep)
  \/ RecordFirst
  \/ \E p \in Pages : \E content \in Versions : Load(p, content)

Spec == Init /\ [][Next]_vars
=============================================================================
