------------------------------ MODULE PageService ------------------------------
(***************************************************************************)
(* The page scene service (page_service.rs): threads ask for pages at a    *)
(* revision and with a priority; a page is imported once for all that wait *)
(* for it, with a bound on concurrent imports; a few scenes stay resident, *)
(* the rest is indexed.  One mutex and one condition variable; a request   *)
(* is a loop that looks at the state, sleeps, and looks again.             *)
(*                                                                         *)
(* Data abstraction: a page has no contents; the index repository and the  *)
(* importer are a step that fails or gives the page.  Import counts and    *)
(* the observed concurrency are statistics and left out.                   *)
(***************************************************************************)
EXTENDS Integers, Sequences, FiniteSets, Recency

CONSTANTS
  Callers,         \* threads that call request
  Workers,         \* threads of index_all_pages; none for a live session
  PageCount,
  Fragile,         \* pages whose import, or access to the index, can fail
  MaxConcurrency,  \* of imports; 2
  ResidentLimit,   \* resident scenes; 8
  Asked,           \* bound: the priorities callers use, of Priorities
  MaxRequests,     \* bound on the requests of a caller
  MaxRevision,     \* bound on revisions
  NoScene

Pages == 1 .. PageCount
Revisions == 0 .. MaxRevision
Threads == Callers \cup Workers

\* Background, Preload, Visible, ActiveSelection.
Priorities == 0 .. 3
States == {"Unseen", "Indexed", "Warm", "Visible", "Cold"}

ASSUME PageServiceAssumption ==
  /\ Callers \cap Workers = {} /\ IsFiniteSet(Callers) /\ IsFiniteSet(Workers)
  /\ PageCount \in Nat /\ MaxConcurrency \in Nat \ {0} /\ ResidentLimit \in Nat \ {0}
  /\ Asked \subseteq Priorities /\ Fragile \subseteq Pages
  /\ MaxRequests \in Nat /\ MaxRevision \in Nat
  /\ NoScene \notin [revision : Revisions, state : States]

VARIABLES
  service,  \* ServiceState, under the mutex
  thread,   \* the request each thread is in
  asked,    \* requests each caller has made
  indexing  \* index_all_pages: next page, whether errors were pushed, cancelled

vars == <<service, thread, asked, indexing>>

Scenes == [revision : Revisions, state : States]

ServiceStates ==
  [revision : Revisions, active : Nat, waiters : [Priorities -> Nat],
   inFlight : SUBSET Pages, scenes : [Pages -> Scenes \cup {NoScene}],
   recency : Seq(Pages), indexed : SUBSET Pages, states : [Pages -> States]]

\* What the last request of a thread returned: a scene of the revision it
\* asked for, a scene of another revision, or an error.
Answers == {"none", "current", "outdated", "stale", "failed"}

Requests ==
  [pc : {"idle", "looking", "done", "checking", "asleep", "importing"},
   page : Pages \cup {1}, expected : Revisions, priority : Priorities,
   registered : BOOLEAN, answer : Answers]

Idle(t) == IF t \in Workers THEN "looking" ELSE "idle"

\* A thread between two requests.
Returned(t, answer) ==
  [pc |-> Idle(t), page |-> 1, expected |-> 0, priority |-> 0, registered |-> FALSE, answer |-> answer]

Init ==
  /\ service = [revision |-> 0, active |-> 0, waiters |-> [i \in Priorities |-> 0],
                inFlight |-> {}, scenes |-> [p \in Pages |-> NoScene], recency |-> <<>>,
                indexed |-> {}, states |-> [p \in Pages |-> "Unseen"]]
  /\ thread = [t \in Threads |-> Returned(t, "none")]
  /\ asked = [c \in Callers |-> 0]
  /\ indexing = [next |-> 1, failed |-> FALSE, cancelled |-> FALSE]

-----------------------------------------------------------------------------
(* Resident scenes                                                         *)

StateFor(priority) ==
  CASE priority >= 2 -> "Visible" [] priority = 1 -> "Warm" [] OTHER -> "Indexed"

Promoted(current, requested) ==
  IF "Visible" \in {current, requested} THEN "Visible"
  ELSE IF "Warm" \in {current, requested} THEN "Warm" ELSE requested

Resident(s) == {p \in Pages : s.scenes[p] # NoScene}

Touch(s, p) == [s EXCEPT !.recency = Append(Only(@, Pages \ {p}), p)]

\* Scenes given up, and the state their pages get.
Without(s, ps) ==
  [s EXCEPT !.scenes = [p \in Pages |-> IF p \in ps THEN NoScene ELSE @[p]],
            !.recency = Only(@, Pages \ ps)]

Chilled(s, ps) == [s EXCEPT !.states = [p \in Pages |-> IF p \in ps THEN "Cold" ELSE @[p]]]

\* The coldest scenes that may go: visible ones stay.
Hidden(s) == {p \in Resident(s) : s.scenes[p].state # "Visible"}

Coldest(s, count) ==
  LET candidates == Only(s.recency, Hidden(s))
  IN {candidates[i] : i \in {j \in DOMAIN candidates : j <= count}}

InsertScene(s, p, scene) ==
  LET surplus == Cardinality(Resident(s)) - ResidentLimit + 1
      evicted == IF p \in Resident(s) THEN {} ELSE Coldest(s, surplus)
  IN Touch([Chilled(Without(s, evicted), evicted) EXCEPT !.scenes[p] = scene], p)

\* A page the service has: its scene, which stays unless it is for the index.
Publish(s, p, priority) ==
  LET scene == [revision |-> s.revision, state |-> StateFor(priority)]
      noted == [s EXCEPT !.states[p] = scene.state]
  IN IF priority = 0 THEN noted ELSE InsertScene(noted, p, scene)

-----------------------------------------------------------------------------
(* A request                                                               *)

\* Mutant: a waiter that leaves stays counted.
UnregisteredNever(s, r) == s

Unregistered(s, r) ==
  IF r.registered THEN [s EXCEPT !.waiters[r.priority] = @ - 1] ELSE s

NotifyAll(threads) ==
  [t \in Threads |-> IF threads[t].pc = "asleep" THEN [threads[t] EXCEPT !.pc = "checking"]
                     ELSE threads[t]]

\* The request of t returns; it wakes the others if wake.
Return(t, wake, answer) ==
  /\ thread' = [(IF wake THEN NotifyAll(thread) ELSE thread) EXCEPT ![t] = Returned(t, answer)]
  /\ indexing' = [indexing EXCEPT !.failed = @ \/ (t \in Workers /\ answer \in {"stale", "failed"})]
  /\ UNCHANGED asked

Scene(t, revision) == IF revision = thread[t].expected THEN "current" ELSE "outdated"

Begin(t, p, priority, expected) ==
  thread' = [thread EXCEPT ![t].pc = "checking", ![t].page = p,
                           ![t].priority = priority, ![t].expected = expected,
                           ![t].answer = "none"]

Request(c, p, priority, expected) ==
  /\ thread[c].pc = "idle"
  /\ asked[c] < MaxRequests
  /\ asked' = [asked EXCEPT ![c] = @ + 1]
  /\ Begin(c, p, priority, expected)
  /\ UNCHANGED <<service, indexing>>

Checking(t) == thread[t].pc = "checking"
Current(t) == Checking(t) /\ thread[t].expected = service.revision

RefuseStale(t) ==
  /\ Checking(t)
  /\ ~Current(t)
  /\ service' = Unregistered(service, thread[t])
  /\ Return(t, thread[t].registered, "stale")

AnswerResident(t) ==
  LET p == thread[t].page
      s == Touch(Unregistered(service, thread[t]), p)
      state == Promoted(service.scenes[p].state, StateFor(thread[t].priority))
  IN /\ Current(t)
     /\ p \in Resident(service)
     /\ service' = [s EXCEPT !.scenes[p].state = state, !.states[p] = state]
     /\ Return(t, thread[t].registered, Scene(t, service.scenes[p].revision))

AnswerIndexed(t) ==
  LET p == thread[t].page
  IN /\ Current(t)
     /\ p \in service.indexed \ Resident(service)
     /\ service' = Publish(Unregistered(service, thread[t]), p, thread[t].priority)
     /\ Return(t, thread[t].registered, Scene(t, service.revision))

Missing(t) == Current(t) /\ thread[t].page \notin service.indexed \cup Resident(service)

Blocked(s, r) ==
  \/ r.page \in s.inFlight
  \/ s.active >= MaxConcurrency
  \/ \E i \in Priorities : i > r.priority /\ s.waiters[i] > 0

\* A new waiter is announced: those behind it look again before it sleeps.
Wait(t) ==
  /\ Missing(t)
  /\ Blocked(service, thread[t])
  /\ service' = IF thread[t].registered THEN service
                ELSE [service EXCEPT !.waiters[thread[t].priority] = @ + 1]
  /\ thread' = [(IF thread[t].registered THEN thread ELSE NotifyAll(thread)) EXCEPT
                  ![t].pc = "asleep", ![t].registered = TRUE]
  /\ UNCHANGED <<asked, indexing>>

\* Here a waiter leaves without a notification.
StartImport(t) ==
  /\ Missing(t)
  /\ ~Blocked(service, thread[t])
  /\ service' = [Unregistered(service, thread[t]) EXCEPT
                   !.inFlight = @ \cup {thread[t].page}, !.active = @ + 1]
  /\ thread' = [thread EXCEPT ![t].pc = "importing", ![t].registered = FALSE]
  /\ UNCHANGED <<asked, indexing>>

Imported(t) ==
  [service EXCEPT !.inFlight = @ \ {thread[t].page}, !.active = @ - 1]

\* Mutants: the revision is not compared again; an error wakes nobody.
FinishImportUnchecked(t) ==
  /\ thread[t].pc = "importing"
  /\ service' = Publish([Imported(t) EXCEPT !.indexed = @ \cup {thread[t].page}],
                        thread[t].page, thread[t].priority)
  /\ Return(t, TRUE, Scene(t, service.revision))

FinishImportSilently(t) ==
  LET p == thread[t].page IN
  /\ thread[t].pc = "importing"
  /\ \/ /\ thread[t].expected = service.revision
        /\ service' = Publish([Imported(t) EXCEPT !.indexed = @ \cup {p}], p, thread[t].priority)
        /\ Return(t, TRUE, Scene(t, service.revision))
     \/ /\ thread[t].expected # service.revision \/ p \in Fragile
        /\ service' = Imported(t)
        /\ Return(t, FALSE, "failed")

\* load_indexed_page, import_page and store_indexed_page without the lock,
\* then the lock again: the revision may be another one.
FinishImport(t) ==
  LET p == thread[t].page IN
  /\ thread[t].pc = "importing"
  /\ \/ /\ thread[t].expected = service.revision
        /\ service' = Publish([Imported(t) EXCEPT !.indexed = @ \cup {p}], p, thread[t].priority)
        /\ Return(t, TRUE, Scene(t, service.revision))
     \/ /\ thread[t].expected # service.revision
        /\ service' = Imported(t)
        /\ Return(t, TRUE, "stale")
     \/ /\ p \in Fragile
        /\ service' = Imported(t)
        /\ Return(t, TRUE, "failed")

\* One turn of the loop in request.
Check(t) ==
  \/ RefuseStale(t) \/ AnswerResident(t) \/ AnswerIndexed(t)
  \/ Wait(t) \/ StartImport(t)

\* The condition variable may wake a thread for no reason.
WakeSpuriously(t) ==
  /\ thread[t].pc = "asleep"
  /\ thread' = [thread EXCEPT ![t].pc = "checking"]
  /\ UNCHANGED <<service, asked, indexing>>

-----------------------------------------------------------------------------
(* The other operations                                                    *)

SetRevision(r) ==
  /\ service' = [service EXCEPT
       !.revision = r, !.scenes = [p \in Pages |-> NoScene], !.recency = <<>>,
       !.indexed = {}, !.states = [p \in Pages |-> "Unseen"]]
  /\ thread' = NotifyAll(thread)
  /\ UNCHANGED <<asked, indexing>>

GiveUp(ps) ==
  /\ service' = Chilled(Without(service, ps), ps \cap service.indexed)
  /\ UNCHANGED <<thread, asked, indexing>>

MarkCold(p) == GiveUp({p})

ReportMemoryPressure == GiveUp(Hidden(service))

\* A worker takes the next page at the revision it reads.
IndexNextPage(w) ==
  /\ thread[w].pc = "looking"
  /\ ~indexing.cancelled
  /\ indexing.next <= PageCount
  /\ indexing' = [indexing EXCEPT !.next = @ + 1]
  /\ Begin(w, indexing.next, 0, service.revision)
  /\ UNCHANGED <<service, asked>>

StopIndexing(w) ==
  /\ thread[w].pc = "looking"
  /\ indexing.cancelled \/ indexing.next > PageCount
  /\ thread' = [thread EXCEPT ![w].pc = "done"]
  /\ UNCHANGED <<service, asked, indexing>>

CancelIndexing ==
  /\ ~indexing.cancelled
  /\ indexing' = [indexing EXCEPT !.cancelled = TRUE]
  /\ thread' = NotifyAll(thread)
  /\ UNCHANGED <<service, asked>>

Step(t) == Check(t) \/ FinishImport(t) \/ (t \in Workers /\ (IndexNextPage(t) \/ StopIndexing(t)))

Next ==
  \/ \E c \in Callers, p \in Pages, priority \in Asked, expected \in Revisions :
       Request(c, p, priority, expected)
  \/ \E t \in Threads : Step(t) \/ WakeSpuriously(t)
  \/ \E r \in Revisions : SetRevision(r)
  \/ \E p \in Pages : MarkCold(p)
  \/ ReportMemoryPressure
  \/ CancelIndexing

\* Threads that are not asleep run, and an import ends one way or another.
Fairness == \A t \in Threads : WF_vars(Step(t))

Spec == Init /\ [][Next]_vars /\ Fairness

-----------------------------------------------------------------------------
(* Properties                                                              *)

\* Every variable has its type; a thread between two requests has page 1.
TypeOK ==
  /\ service \in ServiceStates
  /\ thread \in [Threads -> Requests]
  /\ asked \in [Callers -> 0 .. MaxRequests]
  /\ indexing \in [next : 1 .. PageCount + 1, failed : BOOLEAN, cancelled : BOOLEAN]

Importing == {t \in Threads : thread[t].pc = "importing"}

\* A page is imported by one thread at a time, however many ask for it and
\* however often the revision changes meanwhile; imports stay within bounds.
ImportsAreShared ==
  /\ \A t, u \in Importing : thread[t].page = thread[u].page => t = u
  /\ service.inFlight = {thread[t].page : t \in Importing}
  /\ service.active = Cardinality(Importing)
  /\ service.active <= MaxConcurrency

\* The counters that hold lower priorities back count live requests only.
WaitersAreCounted ==
  \A i \in Priorities :
    service.waiters[i] =
      Cardinality({t \in Threads : thread[t].registered /\ thread[t].priority = i})

\* No wakeup is lost: a thread sleeps only while its request can neither be
\* answered nor refused, and while an import is under way, whose end wakes
\* it, or a request that goes first is awake.
SleepersWillBeWoken ==
  \A t \in Threads :
    thread[t].pc = "asleep" =>
      /\ thread[t].expected = service.revision
      /\ thread[t].page \notin service.indexed \cup Resident(service)
      /\ \/ Importing # {}
         \/ \E u \in Threads :
              /\ Checking(u) /\ thread[u].registered
              /\ thread[u].priority > thread[t].priority

\* The imports and requests the service counts are those under way, and
\* nobody sleeps without one of them that will wake it (page_service.rs).
WaitersWillBeServed == ImportsAreShared /\ WaitersAreCounted /\ SleepersWillBeWoken

\* A scene is handed out at the revision its caller asked for, or not at all.
ScenesAreCurrent ==
  /\ \A t \in Threads : thread[t].answer # "outdated"
  /\ \A p \in Resident(service) : service.scenes[p].revision = service.revision

\* The resident scenes and what page_state reports of them agree, and above
\* the limit at most one scene is not visible.
ResidencyIsBounded ==
  /\ {service.recency[i] : i \in DOMAIN service.recency} = Resident(service)
  /\ Len(service.recency) = Cardinality(Resident(service))
  /\ \A p \in Resident(service) : service.states[p] = service.scenes[p].state
  /\ Cardinality(Resident(service)) > ResidentLimit =>
       Cardinality(Hidden(service)) <= 1

\* The scenes that are kept and handed out are those of the revision, and no
\* more of them than the limit allows (evict, set_revision).
KeptScenesAreCurrent == TypeOK /\ ScenesAreCurrent /\ ResidencyIsBounded

\* Every request returns, whatever its priority: there is no deadlock between
\* priorities, shared imports and new revisions.
EveryRequestReturns ==
  \A t \in Threads :
    thread[t].pc \in {"checking", "asleep", "importing"} ~> thread[t].pc = Idle(t)
=============================================================================
