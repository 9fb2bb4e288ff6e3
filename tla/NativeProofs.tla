----------------------------- MODULE NativeProofs -----------------------------
(***************************************************************************)
(* Theorems about PageService and NativeSession, for any number of callers,*)
(* index workers, pages, revisions and imports at once.  The first part is *)
(* of the page service alone; its invariants, IInv and PInv, are kept by   *)
(* what the native session does with it, and are parts of the invariants   *)
(* of the second part.                                                     *)
(***************************************************************************)
EXTENDS NativeSession, FiniteSetTheorems, Induction, TLAPS

-----------------------------------------------------------------------------
(* The inductive invariant                                                 *)

ThreadStates ==
  [pc : {"idle", "looking", "done", "checking", "asleep", "importing"},
   page : Nat, expected : Revisions, priority : Priorities,
   registered : BOOLEAN, answer : Answers]

\* The types the argument rests on: any recency and any states will do.
ServiceLike(s) ==
  s \in [revision : Revisions, active : Nat, waiters : [Priorities -> Nat],
         inFlight : SUBSET Nat, scenes : [Pages -> Scenes \cup {NoScene}],
         recency : {s.recency}, indexed : SUBSET Nat, states : {s.states}]

IndexingStates == [next : Nat, failed : BOOLEAN, cancelled : BOOLEAN]

Types ==
  /\ ServiceLike(service)
  /\ thread \in [Threads -> ThreadStates]
  /\ indexing \in IndexingStates

\* A request is registered as a waiter only in its loop.
WaitersAreLive ==
  \A t \in Threads : thread[t].registered => thread[t].pc \in {"checking", "asleep"}

IInv ==
  /\ Types /\ WaitersAreLive
  /\ ImportsAreShared /\ WaitersAreCounted /\ SleepersWillBeWoken /\ ScenesAreCurrent

Registered(i) == {t \in Threads : thread[t].registered /\ thread[t].priority = i}

-----------------------------------------------------------------------------
(* Counting                                                                *)

\* Two sets that differ in t at most.
LEMMA OneElement ==
  ASSUME NEW S, NEW T, NEW t, IsFiniteSet(S), \A u : u # t => (u \in S <=> u \in T)
  PROVE  /\ IsFiniteSet(T)
         /\ t \in S /\ t \in T => Cardinality(T) = Cardinality(S)
         /\ t \notin S /\ t \notin T => Cardinality(T) = Cardinality(S)
         /\ t \notin S /\ t \in T => Cardinality(T) = Cardinality(S) + 1
         /\ t \in S /\ t \notin T => Cardinality(T) = Cardinality(S) - 1
  <1>1. CASE t \in S <=> t \in T
    <2>1. T = S
      BY <1>1
    <2> QED
      BY <1>1, <2>1
  <1>2. CASE t \notin S /\ t \in T
    <2>1. T = S \cup {t}
      BY <1>2
    <2> QED
      BY <1>2, <2>1, FS_AddElement
  <1>3. CASE t \in S /\ t \notin T
    <2>1. T = S \ {t}
      BY <1>3
    <2> QED
      BY <1>3, <2>1, FS_RemoveElement
  <1> QED
    BY <1>1, <1>2, <1>3

LEMMA ThreadsAreFinite == IsFiniteSet(Threads)
  BY PageServiceAssumption, FS_Union DEF Threads

LEMMA FiniteParts ==
  /\ IsFiniteSet(Importing) /\ Cardinality(Importing) \in Nat
  /\ \A i \in Priorities : IsFiniteSet(Registered(i)) /\ Cardinality(Registered(i)) \in Nat
  /\ Cardinality(Importing) > 0 <=> Importing # {}
  /\ \A i \in Priorities : Cardinality(Registered(i)) > 0 <=> Registered(i) # {}
  <1>1. Importing \in SUBSET Threads /\ \A i \in Priorities : Registered(i) \in SUBSET Threads
    BY DEF Importing, Registered
  <1>2. IsFiniteSet(Importing) /\ \A i \in Priorities : IsFiniteSet(Registered(i))
    BY <1>1, ThreadsAreFinite, FS_Subset
  <1>3. Cardinality(Importing) \in Nat /\ \A i \in Priorities : Cardinality(Registered(i)) \in Nat
    BY <1>2, FS_CardinalityType
  <1>4. Cardinality(Importing) = 0 <=> Importing = {}
    BY <1>2, FS_EmptySet
  <1>5. \A i \in Priorities : Cardinality(Registered(i)) = 0 <=> Registered(i) = {}
    BY <1>2, FS_EmptySet
  <1> QED
    BY <1>2, <1>3, <1>4, <1>5

-----------------------------------------------------------------------------
(* Resident scenes                                                         *)

\* What the service has, at the revision it has.
ScenesFit(s) == \A p \in Resident(s) : s.scenes[p].revision = s.revision

\* t is s but for what is resident, and holds no scene more than s, or p.
Keeps(s, t, p) ==
  /\ ServiceLike(t)
  /\ t.revision = s.revision /\ t.active = s.active /\ t.waiters = s.waiters
  /\ t.inFlight = s.inFlight /\ t.indexed = s.indexed
  /\ Resident(t) \subseteq Resident(s) \cup {p}
  /\ ScenesFit(s) => ScenesFit(t)

LEMMA TouchKeeps ==
  ASSUME NEW s, NEW p, NEW q, ServiceLike(s)
  PROVE  Keeps(s, Touch(s, p), q) /\ Touch(s, p).scenes = s.scenes
  <1> DEFINE t == Touch(s, p)
  <1>1. /\ t.revision = s.revision /\ t.active = s.active /\ t.waiters = s.waiters
        /\ t.inFlight = s.inFlight /\ t.indexed = s.indexed /\ t.scenes = s.scenes
        /\ ServiceLike(t)
    BY DEF Touch, ServiceLike
  <1> HIDE DEF t
  <1>2. Resident(t) = Resident(s)
    BY <1>1 DEF Resident
  <1> QED
    BY <1>1, <1>2 DEF Keeps, ScenesFit, t

LEMMA ChilledKeeps ==
  ASSUME NEW s, NEW ps, NEW q, ServiceLike(s)
  PROVE  Keeps(s, Chilled(s, ps), q) /\ Chilled(s, ps).scenes = s.scenes
  <1> DEFINE t == Chilled(s, ps)
  <1>1. /\ t.revision = s.revision /\ t.active = s.active /\ t.waiters = s.waiters
        /\ t.inFlight = s.inFlight /\ t.indexed = s.indexed /\ t.scenes = s.scenes
        /\ ServiceLike(t)
    BY DEF Chilled, ServiceLike
  <1> HIDE DEF t
  <1>2. Resident(t) = Resident(s)
    BY <1>1 DEF Resident
  <1> QED
    BY <1>1, <1>2 DEF Keeps, ScenesFit, t

LEMMA WithoutKeeps ==
  ASSUME NEW s, NEW ps, NEW q, ServiceLike(s)
  PROVE  Keeps(s, Without(s, ps), q) /\ Resident(Without(s, ps)) \subseteq Resident(s)
  <1> DEFINE t == Without(s, ps)
             scenes == [p \in Pages |-> IF p \in ps THEN NoScene ELSE s.scenes[p]]
             recency == Only(s.recency, Pages \ ps)
             without == [s EXCEPT !.scenes = scenes]
  <1>0. without.recency = s.recency
    BY DEF ServiceLike
  <1>1. t = [s EXCEPT !.scenes = scenes, !.recency = recency]
    BY <1>0 DEF Without
  <1>2. scenes \in [Pages -> Scenes \cup {NoScene}]
    BY DEF ServiceLike
  <1>3. \A p \in Pages : scenes[p] # NoScene => scenes[p] = s.scenes[p]
    OBVIOUS
  <1> HIDE DEF t, scenes, recency
  <1>4. /\ t.revision = s.revision /\ t.active = s.active /\ t.waiters = s.waiters
        /\ t.inFlight = s.inFlight /\ t.indexed = s.indexed /\ t.scenes = scenes
        /\ ServiceLike(t)
    BY <1>1, <1>2 DEF ServiceLike
  <1>5. Resident(t) \subseteq Resident(s)
    BY <1>3, <1>4 DEF Resident
  <1>6. ScenesFit(s) => ScenesFit(t)
    BY <1>3, <1>4, <1>5 DEF ScenesFit, Resident
  <1> QED
    BY <1>4, <1>5, <1>6 DEF Keeps, t

\* A page gets a scene of the revision.
LEMMA SceneKeeps ==
  ASSUME NEW s, NEW p, NEW scene \in Scenes, ServiceLike(s), scene.revision = s.revision
  PROVE  Keeps(s, [s EXCEPT !.scenes[p] = scene], p)
  <1> DEFINE t == [s EXCEPT !.scenes[p] = scene]
             scenes == [s.scenes EXCEPT ![p] = scene]
  <1>1. t = [s EXCEPT !.scenes = scenes]
    BY DEF ServiceLike
  <1>2. scenes \in [Pages -> Scenes \cup {NoScene}]
    BY DEF ServiceLike
  <1>3. \A q \in Pages : scenes[q] = IF q = p THEN scene ELSE s.scenes[q]
    BY DEF ServiceLike
  <1> HIDE DEF t, scenes
  <1>4. /\ t.revision = s.revision /\ t.active = s.active /\ t.waiters = s.waiters
        /\ t.inFlight = s.inFlight /\ t.indexed = s.indexed /\ t.scenes = scenes
        /\ ServiceLike(t)
    BY <1>1, <1>2 DEF ServiceLike
  <1>5. Resident(t) \subseteq Resident(s) \cup {p}
    BY <1>3, <1>4 DEF Resident
  <1>6. ScenesFit(s) => ScenesFit(t)
    BY <1>3, <1>4 DEF ScenesFit, Resident
  <1> QED
    BY <1>4, <1>5, <1>6 DEF Keeps, t

LEMMA KeepsTwice ==
  ASSUME NEW s, NEW t, NEW u, NEW p, Keeps(s, t, p), Keeps(t, u, p)
  PROVE  Keeps(s, u, p)
  BY DEF Keeps

\* Whatever is evicted, the service has a scene of p more at most.
LEMMA PublishKeeps ==
  ASSUME NEW s, NEW p, NEW priority \in Priorities, ServiceLike(s)
  PROVE  Keeps(s, Publish(s, p, priority), p)
  <1> DEFINE state == StateFor(priority)
             scene == [revision |-> s.revision, state |-> state]
             noted == [s EXCEPT !.states[p] = scene.state]
  <1>1. state \in States
    BY DEF StateFor, States
  <1>2. scene \in Scenes /\ scene.revision = s.revision
    BY <1>1 DEF Scenes, ServiceLike
  <1>3. Keeps(s, noted, p)
    <2>1. /\ noted.revision = s.revision /\ noted.active = s.active /\ noted.waiters = s.waiters
          /\ noted.inFlight = s.inFlight /\ noted.indexed = s.indexed /\ noted.scenes = s.scenes
          /\ ServiceLike(noted)
      BY DEF ServiceLike
    <2> HIDE DEF noted
    <2> QED
      BY <2>1 DEF Keeps, Resident, ScenesFit
  <1>4. CASE priority = 0
    BY <1>3, <1>4 DEF Publish
  <1>5. CASE priority # 0
    <2>1. Publish(s, p, priority) = InsertScene(noted, p, scene)
      BY <1>5 DEF Publish
    <2> HIDE DEF noted, scene
    <2> DEFINE surplus == Cardinality(Resident(noted)) - ResidentLimit + 1
               evicted == IF p \in Resident(noted) THEN {} ELSE Coldest(noted, surplus)
               rest == Without(noted, evicted)
               chilled == Chilled(rest, evicted)
               more == [chilled EXCEPT !.scenes[p] = scene]
    <2>2. InsertScene(noted, p, scene) = Touch(more, p)
      BY DEF InsertScene
    <2> HIDE DEF evicted
    <2>3. ServiceLike(noted) /\ noted.revision = s.revision
      BY <1>3 DEF Keeps
    <2>4. Keeps(noted, rest, p)
      BY <2>3, WithoutKeeps
    <2>5. ServiceLike(rest) /\ rest.revision = s.revision
      BY <2>3, <2>4 DEF Keeps
    <2>6. Keeps(rest, chilled, p)
      BY <2>5, ChilledKeeps
    <2>7. ServiceLike(chilled) /\ chilled.revision = s.revision
      BY <2>5, <2>6 DEF Keeps
    <2>8. Keeps(chilled, more, p)
      BY <1>2, <2>7, SceneKeeps
    <2>9. ServiceLike(more)
      BY <2>8 DEF Keeps
    <2>10. Keeps(more, Touch(more, p), p)
      BY <2>9, TouchKeeps
    <2> HIDE DEF rest, chilled, more
    <2> QED
      BY <1>3, <2>1, <2>2, <2>4, <2>6, <2>8, <2>10, KeepsTwice
  <1> QED
    BY <1>4, <1>5

LEMMA UnregisteredFacts ==
  ASSUME NEW s, NEW r \in ThreadStates, ServiceLike(s), r.registered => s.waiters[r.priority] > 0
  PROVE  LET t == Unregistered(s, r)
         IN /\ ServiceLike(t)
            /\ t.revision = s.revision /\ t.active = s.active /\ t.inFlight = s.inFlight
            /\ t.indexed = s.indexed /\ t.scenes = s.scenes
            /\ \A i \in Priorities :
                 t.waiters[i] = IF r.registered /\ i = r.priority THEN s.waiters[i] - 1 ELSE s.waiters[i]
  <1> DEFINE i == r.priority
             less == [s.waiters EXCEPT ![i] = @ - 1]
             t == [s EXCEPT !.waiters = less]
  <1>1. i \in Priorities /\ s.waiters \in [Priorities -> Nat]
    BY DEF ThreadStates, ServiceLike
  <1>2. CASE r.registered
    <2>1. Unregistered(s, r) = t
      BY <1>2 DEF Unregistered, ServiceLike
    <2>2. s.waiters[i] \in Nat /\ s.waiters[i] - 1 \in Nat
      BY <1>1, <1>2
    <2>3. /\ less \in [Priorities -> Nat]
          /\ \A j \in Priorities : less[j] = IF j = i THEN s.waiters[j] - 1 ELSE s.waiters[j]
      BY <1>1, <2>2
    <2> HIDE DEF less
    <2>4. /\ t.revision = s.revision /\ t.active = s.active /\ t.inFlight = s.inFlight
          /\ t.indexed = s.indexed /\ t.scenes = s.scenes /\ t.waiters = less /\ ServiceLike(t)
      BY <2>3 DEF ServiceLike
    <2> HIDE DEF t
    <2> QED
      BY <1>2, <2>1, <2>3, <2>4
  <1>3. CASE ~r.registered
    BY <1>3 DEF Unregistered
  <1> QED
    BY <1>2, <1>3

-----------------------------------------------------------------------------
(* Threads                                                                 *)

\* Everyone who sleeps looks again, or everything stays as it is.
Woken(wake) == IF wake THEN NotifyAll(thread) ELSE thread

\* Thread t moves to next, and the others look again if wake.
Moves(t, next, wake) == thread' = [Woken(wake) EXCEPT ![t] = next]

LEMMA WokenType ==
  ASSUME Types, NEW wake \in BOOLEAN
  PROVE  /\ Woken(wake) \in [Threads -> ThreadStates]
         /\ \A u \in Threads :
              /\ Woken(wake)[u].page = thread[u].page
              /\ Woken(wake)[u].expected = thread[u].expected
              /\ Woken(wake)[u].priority = thread[u].priority
              /\ Woken(wake)[u].answer = thread[u].answer
              /\ Woken(wake)[u].registered <=> thread[u].registered
              /\ Woken(wake)[u].pc = IF wake /\ thread[u].pc = "asleep" THEN "checking" ELSE thread[u].pc
  <1>1. thread \in [Threads -> ThreadStates]
    BY DEF Types
  <1>2. ASSUME NEW u \in Threads
        PROVE  LET up == [thread[u] EXCEPT !.pc = "checking"]
               IN /\ up \in ThreadStates /\ up.pc = "checking"
                  /\ up.page = thread[u].page /\ up.expected = thread[u].expected
                  /\ up.priority = thread[u].priority /\ up.answer = thread[u].answer
                  /\ up.registered <=> thread[u].registered
    <2>1. thread[u] \in ThreadStates
      BY <1>1
    <2> QED
      BY <2>1 DEF ThreadStates
  <1>3. CASE ~wake
    BY <1>1, <1>3 DEF Woken
  <1>4. CASE wake
    <2>1. ASSUME NEW u \in Threads
          PROVE  Woken(wake)[u] = IF thread[u].pc = "asleep" THEN [thread[u] EXCEPT !.pc = "checking"]
                                  ELSE thread[u]
      BY <1>4 DEF Woken, NotifyAll
    <2>2. Woken(wake) \in [Threads -> ThreadStates]
      <3>1. \A u \in Threads : Woken(wake)[u] \in ThreadStates
        BY <1>1, <1>2, <2>1
      <3>2. Woken(wake) = [u \in Threads |-> Woken(wake)[u]]
        BY <1>4 DEF Woken, NotifyAll
      <3> QED
        BY <3>1, <3>2
    <2>3. ASSUME NEW u \in Threads
          PROVE  /\ Woken(wake)[u].page = thread[u].page
                 /\ Woken(wake)[u].expected = thread[u].expected
                 /\ Woken(wake)[u].priority = thread[u].priority
                 /\ Woken(wake)[u].answer = thread[u].answer
                 /\ Woken(wake)[u].registered <=> thread[u].registered
                 /\ Woken(wake)[u].pc = IF wake /\ thread[u].pc = "asleep" THEN "checking"
                                        ELSE thread[u].pc
      BY <1>2, <1>4, <2>1
    <2> QED
      BY <2>2, <2>3
  <1> QED
    BY <1>3, <1>4

\* What is different after thread t has moved.
LEMMA MoveFacts ==
  ASSUME Types, NEW t \in Threads, NEW next \in ThreadStates, NEW wake \in BOOLEAN, Moves(t, next, wake)
  PROVE  /\ thread' \in [Threads -> ThreadStates] /\ thread'[t] = next
         /\ \A u \in Threads \ {t} :
              /\ thread'[u].page = thread[u].page /\ thread'[u].expected = thread[u].expected
              /\ thread'[u].priority = thread[u].priority /\ thread'[u].answer = thread[u].answer
              /\ thread'[u].registered <=> thread[u].registered
              /\ thread'[u].pc = IF wake /\ thread[u].pc = "asleep" THEN "checking" ELSE thread[u].pc
         /\ \A u : u # t => (u \in Importing' <=> u \in Importing)
         /\ t \in Importing' <=> next.pc = "importing"
         /\ \A i \in Priorities : \A u : u # t => (u \in Registered(i)' <=> u \in Registered(i))
         /\ \A i \in Priorities : t \in Registered(i)' <=> next.registered /\ next.priority = i
  <1>1. thread' \in [Threads -> ThreadStates] /\ thread'[t] = next
    BY WokenType DEF Moves
  <1>2. \A u \in Threads \ {t} : thread'[u] = Woken(wake)[u]
    BY WokenType DEF Moves
  <1>3. \A u \in Threads \ {t} :
          /\ thread'[u].page = thread[u].page /\ thread'[u].expected = thread[u].expected
          /\ thread'[u].priority = thread[u].priority /\ thread'[u].answer = thread[u].answer
          /\ thread'[u].registered <=> thread[u].registered
          /\ thread'[u].pc = IF wake /\ thread[u].pc = "asleep" THEN "checking" ELSE thread[u].pc
    BY <1>2, WokenType
  <1>4. \A u : u # t => (u \in Importing' <=> u \in Importing)
    BY <1>3 DEF Importing
  <1>5. t \in Importing' <=> next.pc = "importing"
    BY <1>1 DEF Importing
  <1>6. \A i \in Priorities : \A u : u # t => (u \in Registered(i)' <=> u \in Registered(i))
    BY <1>3 DEF Registered
  <1>7. \A i \in Priorities : t \in Registered(i)' <=> next.registered /\ next.priority = i
    BY <1>1 DEF Registered
  <1> QED
    BY <1>1, <1>3, <1>4, <1>5, <1>6, <1>7

\* The counters of the waiters follow their requests.
LEMMA WaiterSteps ==
  ASSUME IInv, NEW t \in Threads, NEW next \in ThreadStates, NEW wake \in BOOLEAN, Moves(t, next, wake),
         \A i \in Priorities :
           service'.waiters[i] = service.waiters[i]
             - (IF thread[t].registered /\ thread[t].priority = i THEN 1 ELSE 0)
             + (IF next.registered /\ next.priority = i THEN 1 ELSE 0)
  PROVE  WaitersAreCounted'
  <1>1. Types /\ \A i \in Priorities : service.waiters[i] = Cardinality(Registered(i))
    BY DEF IInv, WaitersAreCounted, Registered
  <1>2. ASSUME NEW i \in Priorities
        PROVE  service'.waiters[i] = Cardinality(Registered(i)')
    <2>1. IsFiniteSet(Registered(i)) /\ Cardinality(Registered(i)) \in Nat
      BY FiniteParts
    <2>2. t \in Registered(i) <=> thread[t].registered /\ thread[t].priority = i
      BY DEF Registered
    <2>3. /\ \A u : u # t => (u \in Registered(i) <=> u \in Registered(i)')
          /\ t \in Registered(i)' <=> next.registered /\ next.priority = i
      BY <1>1, MoveFacts
    <2> DEFINE S == Registered(i)
               T == Registered(i)'
    <2>4. /\ t \in S /\ t \in T => Cardinality(T) = Cardinality(S)
          /\ t \notin S /\ t \notin T => Cardinality(T) = Cardinality(S)
          /\ t \notin S /\ t \in T => Cardinality(T) = Cardinality(S) + 1
          /\ t \in S /\ t \notin T => Cardinality(T) = Cardinality(S) - 1
      <3>1. IsFiniteSet(S) /\ \A u : u # t => (u \in S <=> u \in T)
        BY <2>1, <2>3
      <3> HIDE DEF S, T
      <3> QED
        BY <3>1, OneElement
    <2>5. service.waiters[i] = Cardinality(S)
      BY <1>1
    <2> HIDE DEF S, T
    <2>6. service'.waiters[i] = Cardinality(T)
      BY <2>1, <2>2, <2>3, <2>4, <2>5 DEF S, T
    <2> QED
      BY <2>6 DEF T
  <1> QED
    BY <1>2 DEF WaitersAreCounted, Registered

\* Who imports is who is counted.
LEMMA ImportSteps ==
  ASSUME IInv, NEW t \in Threads, NEW next \in ThreadStates, NEW wake \in BOOLEAN, Moves(t, next, wake),
         \/ /\ thread[t].pc # "importing" /\ next.pc # "importing"
            /\ service'.inFlight = service.inFlight /\ service'.active = service.active
         \/ /\ thread[t].pc # "importing" /\ next.pc = "importing"
            /\ next.page \notin service.inFlight /\ service.active < MaxConcurrency
            /\ service'.inFlight = service.inFlight \cup {next.page}
            /\ service'.active = service.active + 1
         \/ /\ thread[t].pc = "importing" /\ next.pc # "importing"
            /\ service'.inFlight = service.inFlight \ {thread[t].page}
            /\ service'.active = service.active - 1
  PROVE  ImportsAreShared'
  <1>1. /\ \A u, v \in Importing : thread[u].page = thread[v].page => u = v
        /\ service.inFlight = {thread[u].page : u \in Importing}
        /\ service.active = Cardinality(Importing) /\ service.active <= MaxConcurrency
    BY DEF IInv, ImportsAreShared
  <1>2. /\ thread'[t] = next
        /\ \A u \in Threads \ {t} : thread'[u].page = thread[u].page
        /\ \A u : u # t => (u \in Importing' <=> u \in Importing)
        /\ t \in Importing' <=> next.pc = "importing"
    BY MoveFacts DEF IInv
  <1>3. IsFiniteSet(Importing) /\ Cardinality(Importing) \in Nat
    BY FiniteParts
  <1>4. t \in Importing <=> thread[t].pc = "importing"
    BY DEF Importing
  <1>5. Importing \subseteq Threads /\ Importing' \subseteq Threads
    BY DEF Importing
  <1> DEFINE S == Importing
             T == Importing'
  <1>6. /\ t \in S /\ t \in T => Cardinality(T) = Cardinality(S)
        /\ t \notin S /\ t \notin T => Cardinality(T) = Cardinality(S)
        /\ t \notin S /\ t \in T => Cardinality(T) = Cardinality(S) + 1
        /\ t \in S /\ t \notin T => Cardinality(T) = Cardinality(S) - 1
    <2>1. IsFiniteSet(S) /\ \A u : u # t => (u \in S <=> u \in T)
      BY <1>2, <1>3
    <2> HIDE DEF S, T
    <2> QED
      BY <2>1, OneElement
  <1>7. /\ service'.active = Cardinality(T) /\ service'.active <= MaxConcurrency
    <2> HIDE DEF S, T
    <2> QED
      BY <1>1, <1>2, <1>3, <1>4, <1>6, PageServiceAssumption DEF S, T
  <1>8. \A u, v \in Importing' : thread'[u].page = thread'[v].page => u = v
    <2> SUFFICES ASSUME NEW u \in Importing', NEW v \in Importing', thread'[u].page = thread'[v].page, u # v
                 PROVE  FALSE
      OBVIOUS
    <2>1. CASE u # t /\ v # t
      BY <1>1, <1>2, <1>5, <2>1
    <2>2. CASE u = t
      <3>1. v # t /\ v \in Importing /\ thread'[v].page = thread[v].page
        BY <1>2, <1>5, <2>2
      <3>2. thread[v].page \in service.inFlight /\ next.page = thread[v].page /\ next.pc = "importing"
        BY <1>1, <1>2, <2>2, <3>1
      <3> QED
        BY <3>2
    <2>3. CASE v = t
      <3>1. u # t /\ u \in Importing /\ thread'[u].page = thread[u].page
        BY <1>2, <1>5, <2>3
      <3>2. thread[u].page \in service.inFlight /\ next.page = thread[u].page /\ next.pc = "importing"
        BY <1>1, <1>2, <2>3, <3>1
      <3> QED
        BY <3>2
    <2> QED
      BY <2>1, <2>2, <2>3
  <1>9. service'.inFlight = {thread'[u].page : u \in Importing'}
    <2>1. CASE t \notin Importing /\ t \notin Importing'
      <3>1. Importing' = Importing /\ \A u \in Importing : thread'[u].page = thread[u].page
        BY <1>2, <1>5, <2>1
      <3> QED
        BY <1>1, <1>2, <1>4, <2>1, <3>1
    <2>2. CASE t \notin Importing /\ t \in Importing'
      <3>1. Importing' = Importing \cup {t} /\ \A u \in Importing : thread'[u].page = thread[u].page
        BY <1>2, <1>5, <2>2
      <3>2. service'.inFlight = service.inFlight \cup {next.page}
        BY <1>2, <1>4, <2>2
      <3> QED
        BY <1>1, <1>2, <3>1, <3>2
    <2>3. CASE t \in Importing /\ t \notin Importing'
      <3>1. Importing' = Importing \ {t} /\ \A u \in Importing \ {t} : thread'[u].page = thread[u].page
        BY <1>2, <1>5, <2>3
      <3>2. service'.inFlight = service.inFlight \ {thread[t].page}
        BY <1>2, <1>4, <2>3
      <3>3. \A u \in Importing \ {t} : thread[u].page # thread[t].page
        BY <1>1, <2>3
      <3> QED
        BY <1>1, <3>1, <3>2, <3>3
    <2> QED
      BY <1>2, <1>4, <2>1, <2>2, <2>3
  <1> QED
    BY <1>7, <1>8, <1>9 DEF ImportsAreShared

\* What a sleeper waits for.
Waits(t) ==
  /\ thread[t].expected = service.revision
  /\ thread[t].page \notin service.indexed \cup Resident(service)
  /\ \/ Importing # {}
     \/ \E u \in Threads :
          /\ Checking(u) /\ thread[u].registered
          /\ thread[u].priority > thread[t].priority

\* A step after which the others sleep as they did: nothing they wait for has
\* come, and no thread they count on is gone unless an import is under way.
LEMMA SleepersStay ==
  ASSUME IInv, NEW t \in Threads, NEW next \in ThreadStates, next.pc # "asleep",
         NEW wake \in BOOLEAN, ~wake, Moves(t, next, wake),
         service'.revision = service.revision,
         service'.indexed \cup Resident(service') \subseteq service.indexed \cup Resident(service),
         thread[t].pc = "importing" => next.pc = "importing",
         \/ next.pc = "importing"
         \/ ~(Checking(t) /\ thread[t].registered)
  PROVE  SleepersWillBeWoken'
  <1>1. /\ thread'[t] = next
        /\ \A u \in Threads \ {t} :
             /\ thread'[u].page = thread[u].page /\ thread'[u].expected = thread[u].expected
             /\ thread'[u].priority = thread[u].priority
             /\ thread'[u].registered <=> thread[u].registered
             /\ thread'[u].pc = thread[u].pc
        /\ \A u : u # t => (u \in Importing' <=> u \in Importing)
        /\ t \in Importing' <=> next.pc = "importing"
    BY MoveFacts DEF IInv
  <1>2. \A u \in Threads : thread[u].pc = "asleep" => Waits(u)
    BY DEF IInv, SleepersWillBeWoken, Waits
  <1>3. ASSUME NEW u \in Threads, thread'[u].pc = "asleep" PROVE Waits(u)'
    <2>1. u # t /\ u \in Threads \ {t} /\ thread[u].pc = "asleep"
      BY <1>1, <1>3
    <2>2. Waits(u)
      BY <1>2, <2>1
    <2>3. thread'[u].expected = service'.revision /\ thread'[u].page \notin service'.indexed \cup Resident(service')
      BY <1>1, <2>1, <2>2 DEF Waits
    <2>4. CASE Importing # {}
      <3>1. Importing' # {}
        BY <1>1, <2>4 DEF Importing
      <3> QED
        BY <2>3, <3>1 DEF Waits, Resident
    <2>5. CASE next.pc = "importing"
      <3>1. Importing' # {}
        BY <1>1, <2>5
      <3> QED
        BY <2>3, <3>1 DEF Waits, Resident
    <2>6. CASE Importing = {} /\ next.pc # "importing"
      <3>1. PICK v \in Threads : /\ Checking(v) /\ thread[v].registered
                                 /\ thread[v].priority > thread[u].priority
        BY <2>2, <2>6 DEF Waits
      <3>2. v \in Threads \ {t}
        BY <2>6, <3>1
      <3>3. Checking(v)' /\ thread'[v].registered /\ thread'[v].priority > thread'[u].priority
        BY <1>1, <2>1, <3>1, <3>2 DEF Checking
      <3> QED
        BY <2>3, <3>3 DEF Waits, Resident
    <2> QED
      BY <2>4, <2>5, <2>6
  <1> QED
    BY <1>3 DEF SleepersWillBeWoken, Waits

\* Nobody sleeps when everyone has been woken, but for the one that moved.
LEMMA SleepersWoken ==
  ASSUME IInv, NEW t \in Threads, NEW next \in ThreadStates, next.pc # "asleep",
         NEW wake \in BOOLEAN, Moves(t, next, wake)
  PROVE  wake => SleepersWillBeWoken'
  <1>1. /\ thread'[t] = next
        /\ \A u \in Threads \ {t} :
             thread'[u].pc = IF wake /\ thread[u].pc = "asleep" THEN "checking" ELSE thread[u].pc
    BY MoveFacts DEF IInv
  <1>2. wake => \A u \in Threads : thread'[u].pc # "asleep"
    BY <1>1
  <1> QED
    BY <1>2 DEF SleepersWillBeWoken

\* A request that leaves its loop, with the pieces that stay its own concern.
LEMMA LiveSteps ==
  ASSUME IInv, NEW t \in Threads, NEW next \in ThreadStates, NEW wake \in BOOLEAN, Moves(t, next, wake),
         next.registered => next.pc \in {"checking", "asleep"}
  PROVE  WaitersAreLive'
  <1>1. /\ thread'[t] = next
        /\ \A u \in Threads \ {t} :
             /\ thread'[u].registered <=> thread[u].registered
             /\ thread'[u].pc = IF wake /\ thread[u].pc = "asleep" THEN "checking" ELSE thread[u].pc
    BY MoveFacts DEF IInv
  <1>2. ASSUME NEW u \in Threads, thread'[u].registered PROVE thread'[u].pc \in {"checking", "asleep"}
    <2>1. CASE u = t
      BY <1>1, <1>2, <2>1
    <2>2. CASE u # t
      <3>1. thread[u].pc \in {"checking", "asleep"}
        BY <1>1, <1>2, <2>2 DEF IInv, WaitersAreLive
      <3> QED
        BY <1>1, <2>2, <3>1
    <2> QED
      BY <2>1, <2>2
  <1> QED
    BY <1>2 DEF WaitersAreLive

\* The scenes that are kept and those that were handed out.
LEMMA SceneSteps ==
  ASSUME IInv, NEW t \in Threads, NEW next \in ThreadStates, NEW wake \in BOOLEAN, Moves(t, next, wake),
         next.answer # "outdated", ScenesFit(service')
  PROVE  ScenesAreCurrent'
  <1>1. /\ thread'[t] = next
        /\ \A u \in Threads \ {t} : thread'[u].answer = thread[u].answer
    BY MoveFacts DEF IInv
  <1>2. \A u \in Threads : thread'[u].answer # "outdated"
    BY <1>1 DEF IInv, ScenesAreCurrent
  <1> QED
    BY <1>2 DEF ScenesAreCurrent, ScenesFit, Resident

\* The request of t returns: it was counted among the waiters or the
\* imports, and is no more.
LEMMA ReturnFacts ==
  ASSUME IInv, NEW t \in Threads, NEW wake \in BOOLEAN, NEW answer \in Answers, Return(t, wake, answer)
  PROVE  /\ Moves(t, Returned(t, answer), wake) /\ Returned(t, answer) \in ThreadStates
         /\ Returned(t, answer).pc \in {"idle", "looking"} /\ ~Returned(t, answer).registered
         /\ Returned(t, answer).answer = answer
         /\ indexing' \in IndexingStates
  <1> DEFINE next == Returned(t, answer)
  <1>1. next \in ThreadStates /\ next.pc \in {"idle", "looking"} /\ ~next.registered /\ next.answer = answer
    BY PageServiceAssumption DEF Returned, ThreadStates, Idle, Revisions, Priorities
  <1>2. Moves(t, next, wake)
    BY DEF Return, Woken, Moves
  <1>3. indexing' \in IndexingStates
    <2> DEFINE failed == indexing.failed \/ (t \in Workers /\ answer \in {"stale", "failed"})
    <2>1. indexing' = [indexing EXCEPT !.failed = failed]
      BY DEF Return
    <2>2. failed \in BOOLEAN
      BY DEF IInv, Types, IndexingStates
    <2> HIDE DEF failed
    <2> QED
      BY <2>1, <2>2 DEF IInv, Types, IndexingStates
  <1> QED
    BY <1>1, <1>2, <1>3

\* What is known of a thread and of the service.
LEMMA ThreadFacts ==
  ASSUME IInv, NEW t \in Threads
  PROVE  /\ thread[t] \in ThreadStates /\ ServiceLike(service) /\ ScenesFit(service)
         /\ thread[t].registered \in BOOLEAN /\ thread[t].priority \in Priorities
         /\ thread[t].page \in Nat /\ thread[t].expected \in Revisions
         /\ thread[t].answer # "outdated"
         /\ thread[t].registered => service.waiters[thread[t].priority] > 0
         /\ thread[t].registered => thread[t].pc \in {"checking", "asleep"}
         /\ indexing \in IndexingStates
  <1>1. thread[t] \in ThreadStates /\ ServiceLike(service) /\ indexing \in IndexingStates
    BY DEF IInv, Types
  <1>2. ScenesFit(service) /\ thread[t].answer # "outdated"
    BY DEF IInv, ScenesAreCurrent, ScenesFit
  <1>3. /\ thread[t].registered \in BOOLEAN /\ thread[t].priority \in Priorities
        /\ thread[t].page \in Nat /\ thread[t].expected \in Revisions
    BY <1>1 DEF ThreadStates
  <1>4. thread[t].registered => service.waiters[thread[t].priority] > 0
    <2>1. thread[t].registered => t \in Registered(thread[t].priority)
      BY DEF Registered
    <2>2. service.waiters[thread[t].priority] = Cardinality(Registered(thread[t].priority))
      BY <1>3 DEF IInv, WaitersAreCounted, Registered
    <2> QED
      BY <1>3, <2>1, <2>2, FiniteParts
  <1>5. thread[t].registered => thread[t].pc \in {"checking", "asleep"}
    BY DEF IInv, WaitersAreLive
  <1> QED
    BY <1>1, <1>2, <1>3, <1>4, <1>5

-----------------------------------------------------------------------------
(* Turns of the loop                                                       *)

\* A request returns out of its loop with what is resident or indexed.
LEMMA ReturnSteps ==
  ASSUME IInv, NEW t \in Threads, thread[t].pc = "checking",
         NEW answer \in Answers, answer # "outdated", Return(t, thread[t].registered, answer),
         ServiceLike(service'), ScenesFit(service'),
         service'.revision = service.revision, service'.active = service.active,
         service'.inFlight = service.inFlight,
         service'.indexed \cup Resident(service') \subseteq service.indexed \cup Resident(service),
         service'.waiters = Unregistered(service, thread[t]).waiters
  PROVE  IInv'
  <1> DEFINE next == Returned(t, answer)
             wake == thread[t].registered
  <1>1. /\ Moves(t, next, wake) /\ next \in ThreadStates /\ next.pc \in {"idle", "looking"}
        /\ ~next.registered /\ next.answer # "outdated" /\ wake \in BOOLEAN
        /\ indexing' \in IndexingStates
    BY ReturnFacts, ThreadFacts
  <1>2. \A i \in Priorities :
           service'.waiters[i] = service.waiters[i]
             - (IF thread[t].registered /\ thread[t].priority = i THEN 1 ELSE 0)
             + (IF next.registered /\ next.priority = i THEN 1 ELSE 0)
    <2> HIDE DEF next
    <2>1. \A i \in Priorities :
            /\ service.waiters[i] \in Nat
            /\ service'.waiters[i] = IF thread[t].registered /\ i = thread[t].priority
                                     THEN service.waiters[i] - 1 ELSE service.waiters[i]
      BY ThreadFacts, UnregisteredFacts DEF ServiceLike
    <2> QED
      BY <1>1, <2>1
  <1> HIDE DEF next
  <1>3. WaitersAreCounted'
    <2> HIDE DEF wake
    <2> QED
      BY <1>1, <1>2, WaiterSteps
  <1>4. ImportsAreShared'
    <2> HIDE DEF wake
    <2>1. thread[t].pc # "importing" /\ next.pc # "importing"
      BY <1>1
    <2> QED
      BY <1>1, <2>1, ImportSteps
  <1>5. WaitersAreLive' /\ ScenesAreCurrent'
    <2> HIDE DEF wake
    <2> QED
      BY <1>1, LiveSteps, SceneSteps
  <1>6. SleepersWillBeWoken'
    <2>1. next.pc # "asleep"
      BY <1>1
    <2>2. CASE thread[t].registered
      <3>1. wake => SleepersWillBeWoken'
        <4> HIDE DEF wake
        <4> QED
          BY <1>1, <2>1, SleepersWoken
      <3> QED
        BY <2>2, <3>1
    <2>3. CASE ~thread[t].registered
      <3>1. /\ thread[t].pc = "importing" => next.pc = "importing"
            /\ ~(Checking(t) /\ thread[t].registered)
        BY <2>3
      <3>2. ~wake
        BY <2>3
      <3> HIDE DEF wake
      <3> QED
        BY <1>1, <2>1, <3>1, <3>2, SleepersStay
    <2> QED
      BY <2>2, <2>3
  <1>7. Types'
    <2>1. thread' \in [Threads -> ThreadStates]
      <3> HIDE DEF wake
      <3> QED
        BY <1>1, MoveFacts DEF IInv
    <2> QED
      BY <1>1, <2>1 DEF Types, ServiceLike
  <1> QED
    BY <1>3, <1>4, <1>5, <1>6, <1>7 DEF IInv

LEMMA RefuseStaleStep == \A t \in Threads : IInv /\ RefuseStale(t) => IInv'
  <1> SUFFICES ASSUME NEW t \in Threads, IInv, RefuseStale(t) PROVE IInv'
    OBVIOUS
  <1>1. thread[t].pc = "checking" /\ Return(t, thread[t].registered, "stale")
    BY DEF RefuseStale, Checking
  <1>2. service' = Unregistered(service, thread[t])
    BY DEF RefuseStale
  <1>3. /\ ServiceLike(service') /\ service'.revision = service.revision
        /\ service'.active = service.active /\ service'.inFlight = service.inFlight
        /\ service'.indexed = service.indexed /\ service'.scenes = service.scenes
    BY <1>2, ThreadFacts, UnregisteredFacts
  <1>4. ScenesFit(service') /\ Resident(service') = Resident(service)
    BY <1>3, ThreadFacts DEF ScenesFit, Resident
  <1>5. "stale" \in Answers /\ "stale" # "outdated"
    BY DEF Answers
  <1>6. service'.waiters = Unregistered(service, thread[t]).waiters
    BY <1>2
  <1>7. service'.indexed \cup Resident(service') \subseteq service.indexed \cup Resident(service)
    BY <1>3, <1>4
  <1> QED
    BY <1>1, <1>3, <1>4, <1>5, <1>6, <1>7, ReturnSteps

LEMMA AnswerIndexedStep == \A t \in Threads : IInv /\ AnswerIndexed(t) => IInv'
  <1> SUFFICES ASSUME NEW t \in Threads, IInv, AnswerIndexed(t) PROVE IInv'
    OBVIOUS
  <1> DEFINE p == thread[t].page
             s == Unregistered(service, thread[t])
  <1>1. /\ thread[t].pc = "checking" /\ thread[t].expected = service.revision
        /\ p \in service.indexed /\ service' = Publish(s, p, thread[t].priority)
        /\ Return(t, thread[t].registered, Scene(t, service.revision))
    BY DEF AnswerIndexed, Current, Checking
  <1>2. Scene(t, service.revision) = "current" /\ "current" \in Answers /\ "current" # "outdated"
    BY <1>1 DEF Scene, Answers
  <1>3. /\ ServiceLike(s) /\ s.revision = service.revision /\ s.active = service.active
        /\ s.inFlight = service.inFlight /\ s.indexed = service.indexed /\ s.scenes = service.scenes
    BY ThreadFacts, UnregisteredFacts
  <1>4. ScenesFit(s) /\ Resident(s) = Resident(service)
    BY <1>3, ThreadFacts DEF ScenesFit, Resident
  <1> HIDE DEF s, p
  <1>5. Keeps(s, service', p)
    BY <1>1, <1>3, ThreadFacts, PublishKeeps
  <1>6. /\ ServiceLike(service') /\ ScenesFit(service') /\ service'.revision = service.revision
        /\ service'.active = service.active /\ service'.inFlight = service.inFlight
        /\ service'.indexed \cup Resident(service') \subseteq service.indexed \cup Resident(service)
        /\ service'.waiters = s.waiters
    BY <1>1, <1>3, <1>4, <1>5 DEF Keeps
  <1>7. service'.waiters = Unregistered(service, thread[t]).waiters
    BY <1>6 DEF s
  <1> QED
    BY <1>1, <1>2, <1>6, <1>7, ReturnSteps

LEMMA AnswerResidentStep == \A t \in Threads : IInv /\ AnswerResident(t) => IInv'
  <1> SUFFICES ASSUME NEW t \in Threads, IInv, AnswerResident(t) PROVE IInv'
    OBVIOUS
  <1> DEFINE p == thread[t].page
             s == Unregistered(service, thread[t])
             u == Touch(s, p)
             state == Promoted(service.scenes[p].state, StateFor(thread[t].priority))
  <1>1. /\ thread[t].pc = "checking" /\ thread[t].expected = service.revision
        /\ p \in Resident(service)
        /\ service' = [u EXCEPT !.scenes[p].state = state, !.states[p] = state]
        /\ Return(t, thread[t].registered, Scene(t, service.scenes[p].revision))
    BY DEF AnswerResident, Current, Checking
  <1>2. service.scenes[p].revision = service.revision
    BY <1>1, ThreadFacts DEF ScenesFit
  <1>3. /\ Scene(t, service.scenes[p].revision) = "current" /\ "current" \in Answers
        /\ "current" # "outdated"
    BY <1>1, <1>2 DEF Scene, Answers
  <1>4. /\ ServiceLike(s) /\ s.revision = service.revision /\ s.active = service.active
        /\ s.inFlight = service.inFlight /\ s.indexed = service.indexed /\ s.scenes = service.scenes
    BY ThreadFacts, UnregisteredFacts
  <1>5. ScenesFit(s) /\ Resident(s) = Resident(service)
    BY <1>4, ThreadFacts DEF ScenesFit, Resident
  <1>6. state \in States
    BY DEF Promoted, StateFor, States
  <1> HIDE DEF s, p
  <1>7. Keeps(s, u, p) /\ u.scenes = s.scenes /\ ServiceLike(u)
    BY <1>4, TouchKeeps DEF Keeps
  <1> HIDE DEF u
  <1> DEFINE scene == [revision |-> service.revision, state |-> state]
             v == [u EXCEPT !.scenes[p] = scene]
             states == [u.states EXCEPT ![p] = state]
  <1>8. scene \in Scenes /\ scene.revision = service.revision /\ u.revision = service.revision
    BY <1>4, <1>6, <1>7 DEF Scenes, Keeps, ServiceLike
  <1>9. Keeps(u, v, p)
    BY <1>7, <1>8, SceneKeeps
  <1>10. service' = [v EXCEPT !.states = states]
    <2>1. u.scenes[p] \in Scenes /\ u.scenes[p].revision = service.revision /\ p \in Pages
      BY <1>1, <1>2, <1>4, <1>7 DEF Resident, ServiceLike
    <2>2. scene = [u.scenes[p] EXCEPT !.state = state]
      BY <2>1 DEF Scenes
    <2>3. v = [u EXCEPT !.scenes[p].state = state]
      BY <1>7, <2>1, <2>2 DEF ServiceLike
    <2>4. service' = [[u EXCEPT !.scenes[p].state = state] EXCEPT !.states[p] = state]
      BY <1>1
    <2>5. service' = [v EXCEPT !.states[p] = state]
      BY <2>3, <2>4
    <2>6. v.states = u.states /\ ServiceLike(v)
      BY <1>7, <1>9 DEF ServiceLike, Keeps
    <2> HIDE DEF v
    <2> QED
      BY <2>5, <2>6 DEF ServiceLike
  <1> HIDE DEF v, scene, states, state
  <1>11. /\ ServiceLike(service') /\ service'.revision = v.revision /\ service'.active = v.active
         /\ service'.waiters = v.waiters /\ service'.inFlight = v.inFlight
         /\ service'.indexed = v.indexed /\ service'.scenes = v.scenes
    BY <1>9, <1>10 DEF ServiceLike, Keeps
  <1>12. ScenesFit(service') /\ Resident(service') = Resident(v)
    BY <1>5, <1>7, <1>9, <1>11 DEF ScenesFit, Resident, Keeps
  <1>13. /\ service'.revision = service.revision
         /\ service'.active = service.active /\ service'.inFlight = service.inFlight
         /\ service'.indexed \cup Resident(service') \subseteq service.indexed \cup Resident(service)
         /\ service'.waiters = s.waiters
    BY <1>1, <1>4, <1>5, <1>7, <1>9, <1>11, <1>12 DEF Keeps
  <1>14. service'.waiters = Unregistered(service, thread[t]).waiters
    BY <1>13 DEF s
  <1> QED
    BY <1>1, <1>3, <1>11, <1>12, <1>13, <1>14, ReturnSteps

\* A thread that moves without an answer, and leaves what is resident alone.
LEMMA LoopSteps ==
  ASSUME IInv, NEW t \in Threads, NEW next \in ThreadStates, NEW wake \in BOOLEAN, Moves(t, next, wake),
         next.registered => next.pc \in {"checking", "asleep"}, next.answer # "outdated",
         ServiceLike(service'), service'.revision = service.revision,
         service'.indexed = service.indexed, service'.scenes = service.scenes,
         indexing' \in IndexingStates
  PROVE  /\ Types' /\ WaitersAreLive' /\ ScenesAreCurrent'
         /\ Resident(service') = Resident(service)
  <1>1. Resident(service') = Resident(service) /\ ScenesFit(service')
    BY ThreadFacts DEF ScenesFit, Resident
  <1>2. WaitersAreLive' /\ ScenesAreCurrent'
    BY <1>1, LiveSteps, SceneSteps
  <1>3. thread' \in [Threads -> ThreadStates]
    BY MoveFacts DEF IInv
  <1> QED
    BY <1>1, <1>2, <1>3 DEF Types, ServiceLike

\* A waiter goes to sleep, and it waits for something: an import, or a
\* request that goes first, which sleeps only if it waits for something too.
LEMMA WaitStep == \A t \in Threads : IInv /\ Wait(t) => IInv'
  <1> SUFFICES ASSUME NEW t \in Threads, IInv, Wait(t) PROVE IInv'
    OBVIOUS
  <1> DEFINE next == [[thread[t] EXCEPT !.pc = "asleep"] EXCEPT !.registered = TRUE]
             wake == ~thread[t].registered
             i == thread[t].priority
  <1>1. /\ thread[t].pc = "checking" /\ thread[t].expected = service.revision
        /\ thread[t].page \notin service.indexed \cup Resident(service)
        /\ Blocked(service, thread[t])
        /\ service' = IF thread[t].registered THEN service ELSE [service EXCEPT !.waiters[i] = @ + 1]
        /\ thread' = [(IF thread[t].registered THEN thread ELSE NotifyAll(thread)) EXCEPT
                        ![t].pc = "asleep", ![t].registered = TRUE]
        /\ UNCHANGED <<asked, indexing>>
    BY DEF Wait, Missing, Current, Checking
  <1>2. /\ thread[t] \in ThreadStates /\ ServiceLike(service) /\ i \in Priorities
        /\ thread[t].answer # "outdated" /\ indexing \in IndexingStates
    BY ThreadFacts
  <1>3. /\ next \in ThreadStates /\ next.pc = "asleep" /\ next.registered /\ next.priority = i
        /\ next.page = thread[t].page /\ next.expected = thread[t].expected
        /\ next.answer = thread[t].answer
    BY <1>2 DEF ThreadStates
  <1>4. wake \in BOOLEAN
    OBVIOUS
  <1>5. Moves(t, next, wake)
    <2>1. Woken(wake) \in [Threads -> ThreadStates] /\ Woken(wake)[t] = thread[t]
      <3>1. Woken(wake) \in [Threads -> ThreadStates]
        BY WokenType DEF IInv
      <3>2. Woken(wake)[t] = thread[t]
        BY <1>1, <1>2 DEF Woken, NotifyAll
      <3> QED
        BY <3>1, <3>2
    <2>2. thread' = [Woken(wake) EXCEPT ![t].pc = "asleep", ![t].registered = TRUE]
      BY <1>1 DEF Woken
    <2> DEFINE all == Woken(wake)
    <2>3. all \in [Threads -> ThreadStates] /\ all[t] = thread[t]
      BY <2>1
    <2>4. thread' = [all EXCEPT ![t].pc = "asleep", ![t].registered = TRUE]
      BY <2>2
    <2> HIDE DEF all
    <2>5. thread' = [all EXCEPT ![t] = [[all[t] EXCEPT !.pc = "asleep"] EXCEPT !.registered = TRUE]]
      BY <2>3, <2>4 DEF ThreadStates
    <2> QED
      BY <2>3, <2>5 DEF Moves, all
  <1> HIDE DEF next
  <1>6. /\ ServiceLike(service') /\ service'.revision = service.revision
        /\ service'.active = service.active /\ service'.inFlight = service.inFlight
        /\ service'.indexed = service.indexed /\ service'.scenes = service.scenes
        /\ \A j \in Priorities :
             service'.waiters[j] = IF ~thread[t].registered /\ j = i THEN service.waiters[j] + 1
                                   ELSE service.waiters[j]
    <2>1. CASE thread[t].registered
      BY <1>1, <1>2, <2>1
    <2>2. CASE ~thread[t].registered
      <3> DEFINE more == [service.waiters EXCEPT ![i] = @ + 1]
      <3>1. service.waiters \in [Priorities -> Nat]
        BY <1>2 DEF ServiceLike
      <3>2. /\ more \in [Priorities -> Nat]
            /\ \A j \in Priorities : more[j] = IF j = i THEN service.waiters[j] + 1 ELSE service.waiters[j]
        BY <1>2, <3>1
      <3>3. service' = [service EXCEPT !.waiters = more]
        BY <1>1, <1>2, <2>2 DEF ServiceLike
      <3> HIDE DEF more
      <3>4. /\ ServiceLike(service') /\ service'.revision = service.revision
            /\ service'.active = service.active /\ service'.inFlight = service.inFlight
            /\ service'.indexed = service.indexed /\ service'.scenes = service.scenes
            /\ service'.waiters = more
        BY <1>2, <3>2, <3>3 DEF ServiceLike
      <3> QED
        BY <2>2, <3>2, <3>4
    <2> QED
      BY <2>1, <2>2
  <1>7. \A j \in Priorities :
          service'.waiters[j] = service.waiters[j]
            - (IF thread[t].registered /\ thread[t].priority = j THEN 1 ELSE 0)
            + (IF next.registered /\ next.priority = j THEN 1 ELSE 0)
    <2>1. \A j \in Priorities : service.waiters[j] \in Nat
      BY <1>2 DEF ServiceLike
    <2>2. next.registered /\ next.priority = i
      BY <1>3
    <2> QED
      BY <1>6, <2>1, <2>2
  <1>8. WaitersAreCounted' /\ ImportsAreShared'
    <2> HIDE DEF wake
    <2>1. thread[t].pc # "importing" /\ next.pc # "importing"
      BY <1>1, <1>3
    <2> QED
      BY <1>3, <1>4, <1>5, <1>6, <1>7, <2>1, WaiterSteps, ImportSteps
  <1>9. Types' /\ WaitersAreLive' /\ ScenesAreCurrent' /\ Resident(service') = Resident(service)
    <2> HIDE DEF wake
    <2>1. next.registered => next.pc \in {"checking", "asleep"}
      BY <1>3
    <2>2. next.answer # "outdated" /\ indexing' \in IndexingStates
      BY <1>1, <1>2, <1>3
    <2> QED
      BY <1>3, <1>4, <1>5, <1>6, <2>1, <2>2, LoopSteps
  <1>10. /\ thread'[t] = next
         /\ \A u \in Threads \ {t} :
              /\ thread'[u].page = thread[u].page /\ thread'[u].expected = thread[u].expected
              /\ thread'[u].priority = thread[u].priority
              /\ thread'[u].registered <=> thread[u].registered
              /\ thread'[u].pc = IF wake /\ thread[u].pc = "asleep" THEN "checking" ELSE thread[u].pc
         /\ Importing' = Importing
    <2> HIDE DEF wake
    <2>1. /\ thread'[t] = next
          /\ \A u \in Threads \ {t} :
               /\ thread'[u].page = thread[u].page /\ thread'[u].expected = thread[u].expected
               /\ thread'[u].priority = thread[u].priority
               /\ thread'[u].registered <=> thread[u].registered
               /\ thread'[u].pc = IF wake /\ thread[u].pc = "asleep" THEN "checking" ELSE thread[u].pc
          /\ \A u : u # t => (u \in Importing' <=> u \in Importing)
          /\ t \in Importing' <=> next.pc = "importing"
      BY <1>3, <1>4, <1>5, MoveFacts DEF IInv
    <2>2. t \notin Importing /\ t \notin Importing'
      BY <1>1, <1>3, <2>1 DEF Importing
    <2> QED
      BY <2>1, <2>2
  <1>11. \A u \in Threads : thread[u].pc = "asleep" => Waits(u)
    BY DEF IInv, SleepersWillBeWoken, Waits
  <1>12. Importing # {} \/ \E u \in Threads : /\ u # t /\ Checking(u)' /\ thread'[u].registered
                                            /\ thread'[u].priority > i
    <2>1. CASE Importing # {}
      BY <2>1
    <2>2. CASE Importing = {}
      <3>1. service.inFlight = {} /\ service.active = 0
        BY <2>2, FS_EmptySet DEF IInv, ImportsAreShared
      <3>2. PICK j \in Priorities : j > i /\ service.waiters[j] > 0
        BY <1>1, <3>1, PageServiceAssumption DEF Blocked
      <3>3. Registered(j) # {}
        BY <3>2, FiniteParts DEF IInv, WaitersAreCounted, Registered
      <3>4. PICK u \in Threads : thread[u].registered /\ thread[u].priority = j
        BY <3>3 DEF Registered
      <3>5. u # t /\ thread[u].pc \in {"checking", "asleep"}
        BY <1>2, <3>2, <3>4 DEF IInv, WaitersAreLive, Priorities
      <3>6. CASE thread[u].pc = "checking" \/ ~thread[t].registered
        BY <1>10, <3>2, <3>4, <3>5, <3>6 DEF Checking
      <3>7. CASE thread[u].pc = "asleep" /\ thread[t].registered
        <4>1. PICK v \in Threads : Checking(v) /\ thread[v].registered /\ thread[v].priority > j
          BY <1>11, <2>2, <3>4, <3>7 DEF Waits
        <4>2. thread[v].priority \in Priorities
          BY <4>1, ThreadFacts
        <4>3. v # t /\ thread[v].priority > i
          BY <1>2, <3>2, <4>1, <4>2 DEF Priorities
        <4> QED
          BY <1>10, <3>7, <4>1, <4>3 DEF Checking
      <3> QED
        BY <3>5, <3>6, <3>7
    <2> QED
      BY <2>1, <2>2
  <1>13. ASSUME NEW u \in Threads, thread'[u].pc = "asleep" PROVE Waits(u)'
    <2>1. CASE u = t
      <3>1. /\ thread'[u].expected = service'.revision /\ thread'[u].priority = i
            /\ thread'[u].page \notin service'.indexed \cup Resident(service')
        <4>1. thread'[u] = next
          BY <1>10, <2>1
        <4>2. next.expected = service.revision /\ next.priority = i
          BY <1>1, <1>3
        <4>3. next.page \notin service.indexed \cup Resident(service)
          BY <1>1, <1>3
        <4> QED
          BY <1>6, <1>9, <4>1, <4>2, <4>3
      <3> QED
        BY <1>10, <1>12, <3>1 DEF Waits, Resident
    <2>2. CASE u # t
      <3>1. ~wake /\ thread[u].pc = "asleep" /\ u \in Threads \ {t} /\ Waits(u)
        BY <1>10, <1>11, <1>13, <2>2
      <3>2. /\ thread'[u].expected = service'.revision /\ thread'[u].priority = thread[u].priority
            /\ thread'[u].page \notin service'.indexed \cup Resident(service')
        BY <1>6, <1>9, <1>10, <3>1 DEF Waits
      <3>3. Importing # {} \/ \E v \in Threads : /\ Checking(v)' /\ thread'[v].registered
                                               /\ thread'[v].priority > thread[u].priority
        <4>1. CASE Importing # {}
          BY <4>1
        <4>2. CASE Importing = {}
          <5>1. PICK v \in Threads : /\ Checking(v) /\ thread[v].registered
                                     /\ thread[v].priority > thread[u].priority
            BY <3>1, <4>2 DEF Waits
          <5>2. CASE v # t
            BY <1>10, <5>1, <5>2 DEF Checking
          <5>3. CASE v = t
            <6>1. PICK w \in Threads : /\ w # t /\ Checking(w)' /\ thread'[w].registered
                                       /\ thread'[w].priority > i
              BY <1>12, <4>2
            <6>2. thread'[w].priority \in Priorities /\ thread[u].priority \in Priorities
              BY <1>10, <6>1, ThreadFacts
            <6> QED
              BY <1>2, <5>1, <5>3, <6>1, <6>2 DEF Priorities
          <5> QED
            BY <5>2, <5>3
        <4> QED
          BY <4>1, <4>2
      <3> QED
        BY <1>10, <3>2, <3>3 DEF Waits, Resident
    <2> QED
      BY <2>1, <2>2
  <1>14. SleepersWillBeWoken'
    BY <1>13 DEF SleepersWillBeWoken, Waits
  <1> QED
    BY <1>8, <1>9, <1>14 DEF IInv

LEMMA StartImportStep == \A t \in Threads : IInv /\ StartImport(t) => IInv'
  <1> SUFFICES ASSUME NEW t \in Threads, IInv, StartImport(t) PROVE IInv'
    OBVIOUS
  <1> DEFINE next == [[thread[t] EXCEPT !.pc = "importing"] EXCEPT !.registered = FALSE]
             s == Unregistered(service, thread[t])
  <1>1. /\ thread[t].pc = "checking"
        /\ ~Blocked(service, thread[t])
        /\ service' = [s EXCEPT !.inFlight = @ \cup {thread[t].page}, !.active = @ + 1]
        /\ thread' = [thread EXCEPT ![t].pc = "importing", ![t].registered = FALSE]
        /\ UNCHANGED <<asked, indexing>>
    BY DEF StartImport, Missing, Current, Checking
  <1>2. /\ thread[t] \in ThreadStates /\ ServiceLike(service) /\ thread[t].page \in Nat
        /\ thread[t].answer # "outdated" /\ indexing \in IndexingStates
    BY ThreadFacts
  <1>3. /\ next \in ThreadStates /\ next.pc = "importing" /\ ~next.registered
        /\ next.page = thread[t].page /\ next.answer = thread[t].answer
    BY <1>2 DEF ThreadStates
  <1>4. thread' = [thread EXCEPT ![t] = next]
    BY <1>1 DEF IInv, Types, ThreadStates
  <1>5. PICK wake \in BOOLEAN : ~wake
    OBVIOUS
  <1>6. Moves(t, next, wake)
    BY <1>4, <1>5 DEF Moves, Woken
  <1> HIDE DEF next
  <1>7. /\ ServiceLike(s) /\ s.revision = service.revision /\ s.active = service.active
        /\ s.inFlight = service.inFlight /\ s.indexed = service.indexed /\ s.scenes = service.scenes
        /\ \A i \in Priorities :
             s.waiters[i] = IF thread[t].registered /\ i = thread[t].priority
                            THEN service.waiters[i] - 1 ELSE service.waiters[i]
    BY ThreadFacts, UnregisteredFacts
  <1> HIDE DEF s
  <1>8. /\ ServiceLike(service') /\ service'.revision = service.revision
        /\ service'.inFlight = service.inFlight \cup {next.page}
        /\ service'.active = service.active + 1 /\ service'.waiters = s.waiters
        /\ service'.indexed = service.indexed /\ service'.scenes = service.scenes
    <2> DEFINE inFlight == s.inFlight \cup {thread[t].page}
               active == s.active + 1
    <2>1. inFlight \in SUBSET Nat /\ active \in Nat
      BY <1>2, <1>7 DEF ServiceLike
    <2>2. service' = [[s EXCEPT !.inFlight = inFlight] EXCEPT !.active = active]
      BY <1>1, <1>7 DEF ServiceLike
    <2>3. inFlight = service.inFlight \cup {next.page} /\ active = service.active + 1
      BY <1>3, <1>7
    <2> HIDE DEF inFlight, active
    <2>4. /\ ServiceLike(service') /\ service'.revision = s.revision
          /\ service'.inFlight = inFlight /\ service'.active = active
          /\ service'.waiters = s.waiters /\ service'.indexed = s.indexed /\ service'.scenes = s.scenes
      BY <1>7, <2>1, <2>2 DEF ServiceLike
    <2> QED
      BY <1>7, <2>3, <2>4
  <1>9. \A i \in Priorities :
          service'.waiters[i] = service.waiters[i]
            - (IF thread[t].registered /\ thread[t].priority = i THEN 1 ELSE 0)
            + (IF next.registered /\ next.priority = i THEN 1 ELSE 0)
    <2>1. \A i \in Priorities : service.waiters[i] \in Nat
      BY <1>2 DEF ServiceLike
    <2> QED
      BY <1>3, <1>7, <1>8, <2>1
  <1>10. WaitersAreCounted'
    BY <1>3, <1>6, <1>9, WaiterSteps
  <1>11. ImportsAreShared'
    <2>1. next.page \notin service.inFlight /\ service.active < MaxConcurrency
      BY <1>1, <1>2, <1>3, PageServiceAssumption DEF Blocked, ServiceLike
    <2>2. thread[t].pc # "importing" /\ next.pc = "importing"
      BY <1>1, <1>3
    <2> QED
      BY <1>3, <1>6, <1>8, <2>1, <2>2, ImportSteps
  <1>12. Types' /\ WaitersAreLive' /\ ScenesAreCurrent' /\ Resident(service') = Resident(service)
    <2>1. next.registered => next.pc \in {"checking", "asleep"}
      BY <1>3
    <2>2. next.answer # "outdated" /\ indexing' \in IndexingStates
      BY <1>1, <1>2, <1>3
    <2> QED
      BY <1>3, <1>6, <1>8, <2>1, <2>2, LoopSteps
  <1>13. SleepersWillBeWoken'
    <2>1. next.pc # "asleep" /\ next.pc = "importing"
      BY <1>3
    <2>2. service'.indexed \cup Resident(service') \subseteq service.indexed \cup Resident(service)
      BY <1>8, <1>12
    <2> QED
      BY <1>3, <1>5, <1>6, <1>8, <2>1, <2>2, SleepersStay
  <1> QED
    BY <1>10, <1>11, <1>12, <1>13 DEF IInv

\* An import ends, and everyone looks again.
LEMMA FinishImportStep == \A t \in Threads : IInv /\ FinishImport(t) => IInv'
  <1> SUFFICES ASSUME NEW t \in Threads, IInv, FinishImport(t) PROVE IInv'
    OBVIOUS
  <1> DEFINE p == thread[t].page
             s == Imported(t)
             more == [s EXCEPT !.indexed = @ \cup {p}]
  <1>1. thread[t].pc = "importing"
    BY DEF FinishImport
  <1>2. /\ thread[t] \in ThreadStates /\ ServiceLike(service) /\ p \in Nat
        /\ thread[t].priority \in Priorities /\ ScenesFit(service) /\ ~thread[t].registered
    BY <1>1, ThreadFacts
  <1>3. service.active - 1 \in Nat
    <2>1. Importing # {} /\ Cardinality(Importing) = service.active
      BY <1>1 DEF Importing, IInv, ImportsAreShared
    <2> QED
      BY <2>1, FiniteParts
  <1>4. /\ ServiceLike(s) /\ s.revision = service.revision
        /\ s.inFlight = service.inFlight \ {p} /\ s.active = service.active - 1
        /\ s.waiters = service.waiters /\ s.indexed = service.indexed /\ s.scenes = service.scenes
    <2> DEFINE inFlight == service.inFlight \ {p}
               active == service.active - 1
    <2>1. inFlight \in SUBSET Nat /\ active \in Nat
      BY <1>2, <1>3 DEF ServiceLike
    <2>2. s = [[service EXCEPT !.inFlight = inFlight] EXCEPT !.active = active]
      BY <1>2 DEF Imported, ServiceLike
    <2> HIDE DEF inFlight, active, s
    <2>3. /\ ServiceLike(s) /\ s.revision = service.revision
          /\ s.inFlight = inFlight /\ s.active = active /\ s.waiters = service.waiters
          /\ s.indexed = service.indexed /\ s.scenes = service.scenes
      BY <1>2, <2>1, <2>2 DEF ServiceLike
    <2> QED
      BY <2>3 DEF inFlight, active
  <1>5. ScenesFit(s) /\ Resident(s) = Resident(service)
    <2> HIDE DEF s
    <2> QED
      BY <1>2, <1>4 DEF ScenesFit, Resident
  <1> HIDE DEF s
  <1>6. PICK wake \in BOOLEAN : wake
    OBVIOUS
  <1>7. PICK answer \in {"current", "stale", "failed"} :
          /\ Return(t, TRUE, answer)
          /\ service' = s \/ service' = Publish(more, p, thread[t].priority)
    BY DEF FinishImport, Scene, s
  <1>8. Return(t, wake, answer) /\ answer \in Answers /\ answer # "outdated"
    BY <1>6, <1>7 DEF Return, Answers
  <1>9. /\ ServiceLike(service') /\ ScenesFit(service')
        /\ service'.inFlight = service.inFlight \ {p} /\ service'.active = service.active - 1
        /\ service'.waiters = service.waiters
    <2>1. CASE service' = s
      BY <1>4, <1>5, <2>1
    <2>2. CASE service' = Publish(more, p, thread[t].priority)
      <3>1. /\ ServiceLike(more) /\ more.revision = s.revision /\ more.inFlight = s.inFlight
            /\ more.active = s.active /\ more.waiters = s.waiters /\ more.scenes = s.scenes
        BY <1>2, <1>4 DEF ServiceLike
      <3>2. ScenesFit(more)
        BY <1>5, <3>1 DEF ScenesFit, Resident
      <3> HIDE DEF more
      <3>3. Keeps(more, service', p)
        BY <1>2, <2>2, <3>1, PublishKeeps
      <3> QED
        BY <1>4, <3>1, <3>2, <3>3 DEF Keeps
    <2> QED
      BY <1>7, <2>1, <2>2
  <1> DEFINE next == Returned(t, answer)
  <1>10. /\ Moves(t, next, wake) /\ next \in ThreadStates /\ next.pc \in {"idle", "looking"}
         /\ ~next.registered /\ next.answer # "outdated" /\ indexing' \in IndexingStates
    BY <1>8, ReturnFacts
  <1> HIDE DEF next, p
  <1>11. \A i \in Priorities :
          service'.waiters[i] = service.waiters[i]
            - (IF thread[t].registered /\ thread[t].priority = i THEN 1 ELSE 0)
            + (IF next.registered /\ next.priority = i THEN 1 ELSE 0)
    <2>1. \A i \in Priorities : service.waiters[i] \in Nat
      BY <1>2 DEF ServiceLike
    <2> QED
      BY <1>2, <1>9, <1>10, <2>1
  <1>12. WaitersAreCounted'
    BY <1>10, <1>11, WaiterSteps
  <1>13. ImportsAreShared'
    <2>1. /\ thread[t].pc = "importing" /\ next.pc # "importing"
          /\ service'.inFlight = service.inFlight \ {thread[t].page}
          /\ service'.active = service.active - 1
      BY <1>1, <1>9, <1>10 DEF p
    <2> QED
      BY <1>10, <2>1, ImportSteps
  <1>14. WaitersAreLive' /\ ScenesAreCurrent'
    BY <1>9, <1>10, LiveSteps, SceneSteps
  <1>15. SleepersWillBeWoken'
    <2>1. next.pc # "asleep"
      BY <1>10
    <2>2. wake => SleepersWillBeWoken'
      BY <1>10, <2>1, SleepersWoken
    <2> QED
      BY <1>6, <2>2
  <1>16. Types'
    <2>1. thread' \in [Threads -> ThreadStates]
      BY <1>10, MoveFacts DEF IInv
    <2> QED
      BY <1>9, <1>10, <2>1 DEF Types, ServiceLike
  <1> QED
    BY <1>12, <1>13, <1>14, <1>15, <1>16 DEF IInv

-----------------------------------------------------------------------------
(* Between two requests                                                    *)

\* A thread that is in no import and counted nowhere begins something else.
LEMMA BeginSteps ==
  ASSUME IInv, NEW t \in Threads, thread[t].pc # "importing",
         NEW next \in ThreadStates, next.pc \notin {"asleep", "importing"},
         ~(Checking(t) /\ thread[t].registered),
         next.registered <=> thread[t].registered,
         next.registered => next.priority = thread[t].priority /\ next.pc = "checking",
         next.answer # "outdated", thread' = [thread EXCEPT ![t] = next],
         service' = service, indexing' \in IndexingStates
  PROVE  IInv'
  <1>1. PICK wake \in BOOLEAN : ~wake
    OBVIOUS
  <1>2. Moves(t, next, wake)
    BY <1>1 DEF Moves, Woken
  <1>3. /\ ServiceLike(service') /\ service'.revision = service.revision
        /\ service'.indexed = service.indexed /\ service'.scenes = service.scenes
    BY ThreadFacts
  <1>4. Types' /\ WaitersAreLive' /\ ScenesAreCurrent' /\ Resident(service') = Resident(service)
    <2>1. next.registered => next.pc \in {"checking", "asleep"}
      OBVIOUS
    <2> QED
      BY <1>2, <1>3, <2>1, LoopSteps
  <1>5. WaitersAreCounted'
    <2>1. \A i \in Priorities : service.waiters[i] \in Nat
      BY ThreadFacts DEF ServiceLike
    <2>2. \A i \in Priorities :
            service'.waiters[i] = service.waiters[i]
              - (IF thread[t].registered /\ thread[t].priority = i THEN 1 ELSE 0)
              + (IF next.registered /\ next.priority = i THEN 1 ELSE 0)
      BY <2>1
    <2> QED
      BY <1>2, <2>2, WaiterSteps
  <1>6. ImportsAreShared'
    <2>1. next.pc # "importing" /\ service'.inFlight = service.inFlight /\ service'.active = service.active
      OBVIOUS
    <2> QED
      BY <1>2, <2>1, ImportSteps
  <1>7. SleepersWillBeWoken'
    <2>1. /\ next.pc # "asleep" /\ (thread[t].pc = "importing" => next.pc = "importing")
          /\ service'.indexed \cup Resident(service') \subseteq service.indexed \cup Resident(service)
      BY <1>3, <1>4
    <2> QED
      BY <1>1, <1>2, <1>3, <2>1, SleepersStay
  <1> QED
    BY <1>4, <1>5, <1>6, <1>7 DEF IInv

\* The five assignments of Begin to the record of a thread, and what they make of it.
Assigned(th, p, priority, expected) ==
  [[[[[th EXCEPT !.pc = "checking"] EXCEPT !.page = p] EXCEPT !.priority = priority]
     EXCEPT !.expected = expected] EXCEPT !.answer = "none"]

Begun(th, p, priority, expected) ==
  [pc |-> "checking", page |-> p, expected |-> expected, priority |-> priority,
   registered |-> th.registered, answer |-> "none"]

LEMMA BeginIsARecord ==
  ASSUME NEW th \in ThreadStates, NEW p \in Nat, NEW priority \in Priorities,
         NEW expected \in Revisions
  PROVE  Assigned(th, p, priority, expected) = Begun(th, p, priority, expected)
  <1> DEFINE one == [th EXCEPT !.pc = "checking"]
             two == [one EXCEPT !.page = p]
             three == [two EXCEPT !.priority = priority]
             four == [three EXCEPT !.expected = expected]
             five == [four EXCEPT !.answer = "none"]
  <1>1. one = [pc |-> "checking", page |-> th.page, expected |-> th.expected,
               priority |-> th.priority, registered |-> th.registered, answer |-> th.answer]
        /\ one \in ThreadStates
    BY DEF ThreadStates
  <1> HIDE DEF one
  <1>2. two = [pc |-> "checking", page |-> p, expected |-> one.expected,
               priority |-> one.priority, registered |-> one.registered, answer |-> one.answer]
        /\ two \in ThreadStates
    BY <1>1 DEF ThreadStates
  <1> HIDE DEF two
  <1>3. three = [pc |-> "checking", page |-> p, expected |-> two.expected,
                 priority |-> priority, registered |-> two.registered, answer |-> two.answer]
        /\ three \in ThreadStates
    BY <1>2 DEF ThreadStates
  <1> HIDE DEF three
  <1>4. four = [pc |-> "checking", page |-> p, expected |-> expected,
                priority |-> priority, registered |-> three.registered, answer |-> three.answer]
        /\ four \in ThreadStates
    BY <1>3 DEF ThreadStates
  <1> HIDE DEF four
  <1>5. five = [pc |-> "checking", page |-> p, expected |-> expected,
                priority |-> priority, registered |-> four.registered, answer |-> "none"]
    BY <1>4 DEF ThreadStates, Answers
  <1>6. four.registered = th.registered
    <2>1. one.registered = th.registered
      BY <1>1, Zenon
    <2>2. two.registered = one.registered
      BY <1>2, Zenon
    <2>3. three.registered = two.registered
      BY <1>3, Zenon
    <2>4. four.registered = three.registered
      BY <1>4, Zenon
    <2> QED
      BY <2>1, <2>2, <2>3, <2>4, Zenon
  <1> HIDE DEF five
  <1>7. five = [pc |-> "checking", page |-> p, expected |-> expected,
                priority |-> priority, registered |-> th.registered, answer |-> "none"]
    BY <1>5, <1>6, Zenon
  <1> QED
    BY <1>7, Zenon DEF one, two, three, four, five, Assigned, Begun

LEMMA BeginFacts ==
  ASSUME IInv, NEW t \in Threads, thread[t].pc \in {"idle", "looking"}, NEW p \in Nat,
         NEW priority \in Priorities, NEW expected \in Revisions, Begin(t, p, priority, expected),
         service' = service, indexing' \in IndexingStates
  PROVE  IInv'
  <1> DEFINE next == Begun(thread[t], p, priority, expected)
  <1>1. thread[t] \in ThreadStates /\ thread \in [Threads -> ThreadStates] /\ ~thread[t].registered
    BY ThreadFacts DEF IInv, Types
  <1>2. thread' = [thread EXCEPT ![t] = next]
    <2>1. thread' = [thread EXCEPT ![t].pc = "checking", ![t].page = p,
                           ![t].priority = priority, ![t].expected = expected,
                           ![t].answer = "none"]
      BY DEF Begin
    <2> DEFINE raw == Assigned(thread[t], p, priority, expected)
    <2>2. raw = next
      BY <1>1, BeginIsARecord, Zenon
    <2>3. thread' = [thread EXCEPT ![t] = raw]
      BY <1>1, <2>1 DEF ThreadStates, Assigned
    <2> HIDE DEF raw, next
    <2> QED
      BY <2>2, <2>3
  <1>3. next \in ThreadStates /\ next.pc = "checking" /\ ~next.registered /\ next.answer = "none"
    BY <1>1 DEF ThreadStates, Answers, Begun
  <1> HIDE DEF next
  <1>4. next.pc \notin {"asleep", "importing"} /\ ~Checking(t) /\ thread[t].pc # "importing"
    BY <1>3 DEF Checking
  <1>5. next.registered <=> thread[t].registered
    BY <1>1, <1>3
  <1> QED
    BY <1>1, <1>2, <1>3, <1>4, <1>5, BeginSteps

LEMMA RequestStep ==
  \A c \in Callers, p \in Pages, priority \in Asked, expected \in Revisions :
    IInv /\ Request(c, p, priority, expected) => IInv'
  <1> SUFFICES ASSUME NEW c \in Callers, NEW p \in Pages, NEW priority \in Asked,
                      NEW expected \in Revisions, IInv, Request(c, p, priority, expected)
               PROVE  IInv'
    OBVIOUS
  <1>1. c \in Threads /\ p \in Nat /\ priority \in Priorities
    BY PageServiceAssumption DEF Threads, Pages
  <1>2. /\ thread[c].pc \in {"idle", "looking"} /\ Begin(c, p, priority, expected)
        /\ service' = service /\ indexing' = indexing
    BY DEF Request
  <1>3. indexing' \in IndexingStates
    BY <1>2 DEF IInv, Types
  <1> QED
    BY <1>1, <1>2, <1>3, BeginFacts

LEMMA IndexNextPageStep == \A t \in Threads : IInv /\ IndexNextPage(t) => IInv'
  <1> SUFFICES ASSUME NEW t \in Threads, IInv, IndexNextPage(t) PROVE IInv'
    OBVIOUS
  <1>1. /\ indexing \in IndexingStates /\ indexing.next \in Nat /\ service.revision \in Revisions
    BY DEF IInv, Types, IndexingStates, ServiceLike
  <1>2. /\ thread[t].pc \in {"idle", "looking"} /\ Begin(t, indexing.next, 0, service.revision)
        /\ service' = service /\ indexing' = [indexing EXCEPT !.next = @ + 1]
    BY DEF IndexNextPage
  <1>3. indexing' \in IndexingStates
    <2> DEFINE next == indexing.next + 1
    <2>1. next \in Nat /\ indexing' = [indexing EXCEPT !.next = next]
      BY <1>1, <1>2
    <2> HIDE DEF next
    <2> QED
      BY <1>1, <2>1 DEF IndexingStates
  <1>4. 0 \in Priorities
    BY DEF Priorities
  <1> QED
    BY <1>1, <1>2, <1>3, <1>4, BeginFacts

LEMMA StopIndexingStep == \A t \in Threads : IInv /\ StopIndexing(t) => IInv'
  <1> SUFFICES ASSUME NEW t \in Threads, IInv, StopIndexing(t) PROVE IInv'
    OBVIOUS
  <1> DEFINE next == [thread[t] EXCEPT !.pc = "done"]
  <1>1. /\ thread[t].pc = "looking" /\ thread' = [thread EXCEPT ![t] = next]
        /\ service' = service /\ indexing' = indexing
    BY DEF StopIndexing
  <1>2. thread[t] \in ThreadStates /\ ~thread[t].registered /\ thread[t].answer # "outdated"
    BY <1>1, ThreadFacts
  <1>3. next \in ThreadStates /\ next.pc = "done" /\ next.answer = thread[t].answer
    BY <1>2 DEF ThreadStates
  <1>4. next.registered <=> thread[t].registered
    BY <1>2 DEF ThreadStates
  <1>5. indexing' \in IndexingStates
    BY <1>1 DEF IInv, Types
  <1> HIDE DEF next
  <1> QED
    BY <1>1, <1>2, <1>3, <1>4, <1>5, BeginSteps DEF Checking

LEMMA WakeSpuriouslyStep == \A t \in Threads : IInv /\ WakeSpuriously(t) => IInv'
  <1> SUFFICES ASSUME NEW t \in Threads, IInv, WakeSpuriously(t) PROVE IInv'
    OBVIOUS
  <1> DEFINE next == [thread[t] EXCEPT !.pc = "checking"]
  <1>1. /\ thread[t].pc = "asleep" /\ thread' = [thread EXCEPT ![t] = next]
        /\ service' = service /\ indexing' = indexing
    BY DEF WakeSpuriously
  <1>2. thread[t] \in ThreadStates /\ thread[t].answer # "outdated"
    BY ThreadFacts
  <1>3. /\ next \in ThreadStates /\ next.pc = "checking" /\ next.answer = thread[t].answer
        /\ next.priority = thread[t].priority
    BY <1>2 DEF ThreadStates
  <1>4. next.registered <=> thread[t].registered
    BY <1>2 DEF ThreadStates
  <1>5. indexing' \in IndexingStates
    BY <1>1 DEF IInv, Types
  <1> HIDE DEF next
  <1> QED
    BY <1>1, <1>2, <1>3, <1>4, <1>5, BeginSteps DEF Checking

-----------------------------------------------------------------------------
(* The other operations                                                    *)

\* Everyone is woken; a new revision has no scenes.
LEMMA WakeAllSteps ==
  ASSUME IInv, thread' = NotifyAll(thread),
         ServiceLike(service'), ScenesFit(service'), indexing' \in IndexingStates,
         service'.waiters = service.waiters, service'.active = service.active,
         service'.inFlight = service.inFlight
  PROVE  IInv'
  <1>1. PICK wake \in BOOLEAN : wake
    OBVIOUS
  <1>2. thread' = Woken(wake)
    BY <1>1 DEF Woken
  <1>3. /\ thread' \in [Threads -> ThreadStates]
        /\ \A u \in Threads :
             /\ thread'[u].page = thread[u].page /\ thread'[u].priority = thread[u].priority
             /\ thread'[u].answer = thread[u].answer
             /\ thread'[u].registered <=> thread[u].registered
             /\ thread'[u].pc = IF wake /\ thread[u].pc = "asleep" THEN "checking" ELSE thread[u].pc
    BY <1>2, WokenType DEF IInv
  <1>4. \A u \in Threads : thread'[u].pc = IF thread[u].pc = "asleep" THEN "checking" ELSE thread[u].pc
    BY <1>1, <1>3
  <1>5. Importing' = Importing
    BY <1>4 DEF Importing
  <1>6. ImportsAreShared'
    <2>1. \A u \in Importing : thread'[u].page = thread[u].page
      BY <1>3 DEF Importing
    <2>2. {thread'[u].page : u \in Importing'} = {thread[u].page : u \in Importing}
      BY <1>5, <2>1
    <2> QED
      BY <1>5, <2>1, <2>2 DEF IInv, ImportsAreShared
  <1>7. WaitersAreCounted'
    <2>1. \A i \in Priorities : Registered(i)' = Registered(i)
      BY <1>3 DEF Registered
    <2>2. \A i \in Priorities : service.waiters[i] = Cardinality(Registered(i))
      BY DEF IInv, WaitersAreCounted, Registered
    <2>3. \A i \in Priorities : service'.waiters[i] = Cardinality(Registered(i)')
      BY <2>1, <2>2
    <2> QED
      BY <2>3 DEF WaitersAreCounted, Registered
  <1>8. WaitersAreLive' /\ ScenesAreCurrent'
    BY <1>3, <1>4 DEF IInv, WaitersAreLive, ScenesAreCurrent, ScenesFit, Resident
  <1>9. SleepersWillBeWoken'
    BY <1>4 DEF SleepersWillBeWoken
  <1>10. Types'
    BY <1>3 DEF Types, ServiceLike
  <1> QED
    BY <1>6, <1>7, <1>8, <1>9, <1>10 DEF IInv

LEMMA SetRevisionStep == \A r \in Revisions : IInv /\ SetRevision(r) => IInv'
  <1> SUFFICES ASSUME NEW r \in Revisions, IInv, SetRevision(r) PROVE IInv'
    OBVIOUS
  <1> DEFINE scenes == [p \in Pages |-> NoScene]
             states == [p \in Pages |-> "Unseen"]
  <1>1. ServiceLike(service) /\ indexing \in IndexingStates
    BY DEF IInv, Types
  <1>2. service' = [service EXCEPT !.revision = r, !.scenes = scenes, !.recency = <<>>,
                                   !.indexed = {}, !.states = states]
    BY DEF SetRevision
  <1>3. scenes \in [Pages -> Scenes \cup {NoScene}] /\ \A p \in Pages : scenes[p] = NoScene
    OBVIOUS
  <1>4. /\ ServiceLike(service') /\ service'.scenes = scenes
        /\ service'.waiters = service.waiters /\ service'.active = service.active
        /\ service'.inFlight = service.inFlight
    <2> HIDE DEF scenes, states
    <2> DEFINE s == [[[service EXCEPT !.revision = r] EXCEPT !.scenes = scenes] EXCEPT !.recency = <<>>]
    <2>1. /\ ServiceLike(s) /\ s.scenes = scenes
          /\ s.waiters = service.waiters /\ s.active = service.active /\ s.inFlight = service.inFlight
      BY <1>1, <1>3 DEF ServiceLike
    <2>2. service' = [[s EXCEPT !.indexed = {}] EXCEPT !.states = states]
      BY <1>2
    <2> HIDE DEF s
    <2> QED
      BY <2>1, <2>2 DEF ServiceLike
  <1>5. ScenesFit(service')
    BY <1>3, <1>4 DEF ScenesFit, Resident
  <1>6. thread' = NotifyAll(thread) /\ indexing' \in IndexingStates
    BY <1>1 DEF SetRevision
  <1> QED
    BY <1>4, <1>5, <1>6, WakeAllSteps

LEMMA CancelIndexingStep == IInv /\ CancelIndexing => IInv'
  <1> SUFFICES ASSUME IInv, CancelIndexing PROVE IInv'
    OBVIOUS
  <1>1. /\ thread' = NotifyAll(thread) /\ service' = service
        /\ indexing' = [indexing EXCEPT !.cancelled = TRUE]
    BY DEF CancelIndexing
  <1>2. indexing' \in IndexingStates
    BY <1>1 DEF IInv, Types, IndexingStates
  <1>3. ServiceLike(service') /\ ScenesFit(service')
    BY <1>1 DEF IInv, Types, ScenesAreCurrent, ScenesFit
  <1> QED
    BY <1>1, <1>2, <1>3, WakeAllSteps

\* Scenes that are given up take nothing from those that wait.
LEMMA GiveUpStep ==
  ASSUME IInv, NEW ps, GiveUp(ps)
  PROVE  IInv'
  <1> DEFINE rest == Without(service, ps)
  <1>1. ServiceLike(service)
    BY DEF IInv, Types
  <1>2. UNCHANGED <<thread, asked, indexing>> /\ service' = Chilled(rest, ps \cap service.indexed)
    BY DEF GiveUp
  <1>3. ServiceLike(rest) /\ Keeps(service, rest, {}) /\ Resident(rest) \subseteq Resident(service)
    BY <1>1, WithoutKeeps DEF Keeps
  <1> HIDE DEF rest
  <1>4. Keeps(rest, service', {}) /\ service'.scenes = rest.scenes
    BY <1>2, <1>3, ChilledKeeps
  <1>5. /\ ServiceLike(service') /\ service'.revision = service.revision
        /\ service'.active = service.active /\ service'.waiters = service.waiters
        /\ service'.inFlight = service.inFlight /\ service'.indexed = service.indexed
        /\ ScenesFit(service) => ScenesFit(service')
    BY <1>3, <1>4 DEF Keeps
  <1>6. Resident(service') \subseteq Resident(service)
    <2>1. Resident(service') = Resident(rest)
      BY <1>4 DEF Resident
    <2> QED
      BY <1>3, <2>1
  <1>7. Types' /\ WaitersAreLive' /\ ScenesAreCurrent'
    <2>1. Types'
      BY <1>2, <1>5 DEF IInv, Types
    <2>2. WaitersAreLive'
      BY <1>2 DEF IInv, WaitersAreLive
    <2>3. ScenesFit(service')
      BY <1>5 DEF IInv, ScenesAreCurrent, ScenesFit
    <2> QED
      BY <1>2, <2>1, <2>2, <2>3 DEF IInv, ScenesAreCurrent, ScenesFit
  <1>8. ImportsAreShared' /\ WaitersAreCounted'
    <2>1. ImportsAreShared'
      BY <1>2, <1>5 DEF IInv, ImportsAreShared, Importing
    <2>2. WaitersAreCounted'
      BY <1>2, <1>5 DEF IInv, WaitersAreCounted
    <2> QED
      BY <2>1, <2>2
  <1>9. SleepersWillBeWoken'
    <2>1. \A t \in Threads : thread[t].pc = "asleep" => Waits(t)
      BY DEF IInv, SleepersWillBeWoken, Waits
    <2>2. ASSUME NEW t \in Threads, thread'[t].pc = "asleep" PROVE Waits(t)'
      <3>1. Waits(t)
        BY <1>2, <2>1, <2>2
      <3>2. thread'[t].page \notin service'.indexed \cup Resident(service')
        BY <1>2, <1>5, <1>6, <3>1 DEF Waits
      <3> QED
        BY <1>2, <1>5, <3>1, <3>2 DEF Waits, Importing, Checking, Resident
    <2> QED
      BY <2>2 DEF SleepersWillBeWoken, Waits
  <1> QED
    BY <1>7, <1>8, <1>9 DEF IInv

LEMMA StutterStep == IInv /\ UNCHANGED vars => IInv'
  <1> SUFFICES ASSUME IInv, UNCHANGED vars PROVE IInv'
    OBVIOUS
  <1>1. UNCHANGED <<service, thread, indexing>>
    BY DEF vars
  <1> QED
    BY <1>1 DEF IInv, Types, ServiceLike, WaitersAreLive, ImportsAreShared, WaitersAreCounted,
                SleepersWillBeWoken, ScenesAreCurrent, Importing, Checking, Resident

-----------------------------------------------------------------------------
(* The theorems                                                            *)

LEMMA InitIInv == Init => IInv
  <1> SUFFICES ASSUME Init PROVE IInv
    OBVIOUS
  <1>1. \A t \in Threads : /\ thread[t] \in ThreadStates /\ thread[t].pc \in {"idle", "looking"}
                           /\ ~thread[t].registered /\ thread[t].answer = "none"
    BY PageServiceAssumption
    DEF Init, Returned, ThreadStates, Idle, Revisions, Priorities, Answers
  <1>2. thread \in [Threads -> ThreadStates]
    BY <1>1 DEF Init
  <1>3. /\ service.scenes = [p \in Pages |-> NoScene] /\ service.revision = 0 /\ service.active = 0
        /\ service.inFlight = {} /\ service.waiters = [i \in Priorities |-> 0]
    BY DEF Init
  <1>4. ServiceLike(service)
    BY PageServiceAssumption DEF Init, ServiceLike, Revisions
  <1>5. indexing \in IndexingStates
    BY DEF Init, IndexingStates
  <1>6. Importing = {} /\ \A i \in Priorities : Registered(i) = {}
    BY <1>1 DEF Importing, Registered
  <1>7. ImportsAreShared
    <2>1. service.inFlight = {thread[t].page : t \in Importing}
      BY <1>3, <1>6
    <2> QED
      BY <1>3, <1>6, <2>1, FS_EmptySet, PageServiceAssumption DEF ImportsAreShared
  <1>8. WaitersAreCounted
    <2>1. \A i \in Priorities : service.waiters[i] = Cardinality(Registered(i))
      BY <1>3, <1>6, FS_EmptySet
    <2> QED
      BY <2>1 DEF WaitersAreCounted, Registered
  <1>9. WaitersAreLive /\ SleepersWillBeWoken /\ ScenesAreCurrent
    BY <1>1, <1>3 DEF WaitersAreLive, SleepersWillBeWoken, ScenesAreCurrent, Resident
  <1> QED
    BY <1>2, <1>4, <1>5, <1>7, <1>8, <1>9 DEF IInv, Types

LEMMA NextIInv == IInv /\ [Next]_vars => IInv'
  <1> SUFFICES ASSUME IInv, [Next]_vars PROVE IInv'
    OBVIOUS
  <1>1. ASSUME NEW t \in Threads, Step(t) PROVE IInv'
    BY <1>1, RefuseStaleStep, AnswerResidentStep, AnswerIndexedStep, WaitStep, StartImportStep,
       FinishImportStep, IndexNextPageStep, StopIndexingStep DEF Step, Check
  <1>2. ASSUME NEW p \in Pages, MarkCold(p) PROVE IInv'
    BY <1>2, GiveUpStep DEF MarkCold
  <1>3. ASSUME ReportMemoryPressure PROVE IInv'
    BY <1>3, GiveUpStep DEF ReportMemoryPressure
  <1> QED
    BY <1>1, <1>2, <1>3, RequestStep, WakeSpuriouslyStep, SetRevisionStep, CancelIndexingStep,
       StutterStep
    DEF Next

THEOREM InvariantOfTheService == Spec => []IInv
  <1> QED
    BY InitIInv, NextIInv, PTL DEF Spec

\* No wakeup is lost: whatever priorities, revisions and failures meet, a
\* request sleeps only while something that will wake it is under way, and
\* the imports and waiters the service counts are those it has
\* (page_service.rs, request).
THEOREM NoLostWakeup == Spec => []WaitersWillBeServed
  <1>1. IInv => WaitersWillBeServed
    BY DEF IInv, WaitersWillBeServed
  <1> QED
    BY <1>1, InvariantOfTheService, PTL

\* However the threads that import race with set_revision: a scene is kept,
\* and handed out, at the revision of the service only (request, set_revision).
THEOREM ScenesOfTheRevision == Spec => []ScenesAreCurrent
  <1>1. IInv => ScenesAreCurrent
    BY DEF IInv
  <1> QED
    BY <1>1, InvariantOfTheService, PTL

-----------------------------------------------------------------------------
(* What is resident                                                        *)

\* The pages a service speaks of, with the states it reports.
Shape(s) ==
  /\ s.inFlight \subseteq Pages /\ s.indexed \subseteq Pages
  /\ s.recency \in Seq(Pages) /\ s.states \in [Pages -> States]

\* The order is of the resident scenes, once each, and they are reported as they are.
Ordered(s) ==
  /\ Distinct(s.recency) /\ Elements(s.recency) = Resident(s)
  /\ \A p \in Resident(s) : s.states[p] = s.scenes[p].state

Bounded(s) == Cardinality(Resident(s)) > ResidentLimit => Cardinality(Hidden(s)) <= 1

Kept(s) == ServiceLike(s) /\ Shape(s) /\ Ordered(s) /\ Bounded(s)

LEMMA ResidentFacts ==
  ASSUME NEW s
  PROVE  /\ Hidden(s) \subseteq Resident(s) /\ Resident(s) \subseteq Pages
         /\ IsFiniteSet(Resident(s)) /\ IsFiniteSet(Hidden(s))
         /\ Cardinality(Resident(s)) \in Nat /\ Cardinality(Hidden(s)) \in Nat
  <1>1. Hidden(s) \subseteq Resident(s) /\ Resident(s) \subseteq Pages
    BY DEF Hidden, Resident
  <1>2. IsFiniteSet(Pages)
    BY PageServiceAssumption, FS_Interval DEF Pages
  <1>3. IsFiniteSet(Resident(s)) /\ IsFiniteSet(Hidden(s))
    BY <1>1, <1>2, FS_Subset
  <1> QED
    BY <1>1, <1>3, FS_CardinalityType

\* As many of the hidden scenes as were asked for, or all of them.
LEMMA ColdestFacts ==
  ASSUME NEW s, Shape(s), Ordered(s), NEW count \in Int
  PROVE  /\ Coldest(s, count) \subseteq Hidden(s)
         /\ count <= 0 => Coldest(s, count) = {}
         /\ count \in 0 .. Cardinality(Hidden(s)) => Cardinality(Coldest(s, count)) = count
         /\ count >= Cardinality(Hidden(s)) => Coldest(s, count) = Hidden(s)
  <1> DEFINE candidates == Only(s.recency, Hidden(s))
             n == Len(candidates)
  <1>1. /\ candidates \in Seq(Pages) /\ Distinct(candidates)
        /\ Elements(candidates) = Elements(s.recency) \cap Hidden(s)
    BY OnlyFacts DEF Shape, Ordered
  <1>2. Coldest(s, count) = {candidates[i] : i \in {j \in DOMAIN candidates : j <= count}}
    BY DEF Coldest
  <1> HIDE DEF candidates
  <1>3. Elements(candidates) = Hidden(s)
    BY <1>1, ResidentFacts DEF Ordered
  <1>4. n \in Nat /\ DOMAIN candidates = 1 .. n /\ n = Cardinality(Hidden(s))
    <2>1. n \in Nat /\ DOMAIN candidates = 1 .. n /\ n \in 0 .. n
      BY <1>1
    <2>2. Cardinality(Elements(candidates)) = n
      BY <1>1, <2>1, DistinctCounts
    <2> QED
      BY <1>3, <2>1, <2>2
  <1> HIDE DEF n
  <1>5. Coldest(s, count) \subseteq Hidden(s)
    BY <1>2, <1>3 DEF Elements
  <1>6. ASSUME count <= 0 PROVE Coldest(s, count) = {}
    BY <1>2, <1>4, <1>6
  <1>7. ASSUME count \in 0 .. Cardinality(Hidden(s)) PROVE Cardinality(Coldest(s, count)) = count
    <2>1. {j \in DOMAIN candidates : j <= count} = 1 .. count
      BY <1>4, <1>7
    <2>2. count \in 0 .. Len(candidates)
      BY <1>4, <1>7 DEF n
    <2>3. Cardinality({candidates[i] : i \in 1 .. count}) = count
      BY <1>1, <2>2, DistinctCounts
    <2> QED
      BY <1>2, <2>1, <2>3
  <1>8. ASSUME count >= Cardinality(Hidden(s)) PROVE Coldest(s, count) = Hidden(s)
    <2>1. {j \in DOMAIN candidates : j <= count} = DOMAIN candidates
      BY <1>4, <1>8
    <2> QED
      BY <1>2, <1>3, <2>1 DEF Elements
  <1> QED
    BY <1>5, <1>6, <1>7, <1>8

LEMMA WithoutFacts ==
  ASSUME NEW s, NEW ps, ServiceLike(s)
  PROVE  /\ ServiceLike(Without(s, ps)) /\ Without(s, ps).revision = s.revision
         /\ Without(s, ps).inFlight = s.inFlight /\ Without(s, ps).indexed = s.indexed
         /\ Without(s, ps).states = s.states /\ Without(s, ps).recency = Only(s.recency, Pages \ ps)
         /\ Without(s, ps).scenes = [p \in Pages |-> IF p \in ps THEN NoScene ELSE s.scenes[p]]
         /\ Resident(Without(s, ps)) = Resident(s) \ ps
  <1> DEFINE t == Without(s, ps)
             scenes == [p \in Pages |-> IF p \in ps THEN NoScene ELSE s.scenes[p]]
             recency == Only(s.recency, Pages \ ps)
             without == [s EXCEPT !.scenes = scenes]
  <1>1. without.recency = s.recency
    BY DEF ServiceLike
  <1>2. t = [s EXCEPT !.scenes = scenes, !.recency = recency]
    BY <1>1 DEF Without
  <1>3. \A p \in Pages : scenes[p] = IF p \in ps THEN NoScene ELSE s.scenes[p]
    OBVIOUS
  <1>4. ServiceLike(t)
    BY WithoutKeeps DEF Keeps
  <1> HIDE DEF t, scenes, recency
  <1>5. /\ t.revision = s.revision /\ t.inFlight = s.inFlight /\ t.indexed = s.indexed
        /\ t.states = s.states /\ t.recency = recency /\ t.scenes = scenes
    BY <1>2 DEF ServiceLike
  <1>6. Resident(t) = Resident(s) \ ps
    BY <1>3, <1>5 DEF Resident
  <1> QED
    BY <1>4, <1>5, <1>6 DEF t, scenes, recency

LEMMA ChilledFacts ==
  ASSUME NEW s, NEW ps, ServiceLike(s)
  PROVE  /\ ServiceLike(Chilled(s, ps)) /\ Chilled(s, ps).revision = s.revision
         /\ Chilled(s, ps).inFlight = s.inFlight /\ Chilled(s, ps).indexed = s.indexed
         /\ Chilled(s, ps).recency = s.recency /\ Chilled(s, ps).scenes = s.scenes
         /\ Chilled(s, ps).states = [p \in Pages |-> IF p \in ps THEN "Cold" ELSE s.states[p]]
  BY DEF Chilled, ServiceLike

LEMMA TouchFacts ==
  ASSUME NEW s, NEW p, ServiceLike(s)
  PROVE  /\ ServiceLike(Touch(s, p)) /\ Touch(s, p).revision = s.revision
         /\ Touch(s, p).inFlight = s.inFlight /\ Touch(s, p).indexed = s.indexed
         /\ Touch(s, p).states = s.states /\ Touch(s, p).scenes = s.scenes
         /\ Touch(s, p).recency = Append(Only(s.recency, Pages \ {p}), p)
  BY DEF Touch, ServiceLike

LEMMA SceneFacts ==
  ASSUME NEW s, NEW p \in Pages, NEW scene \in Scenes, ServiceLike(s)
  PROVE  LET t == [s EXCEPT !.scenes[p] = scene]
         IN /\ ServiceLike(t) /\ t.revision = s.revision
            /\ t.inFlight = s.inFlight /\ t.indexed = s.indexed
            /\ t.states = s.states /\ t.recency = s.recency
            /\ \A q \in Pages : t.scenes[q] = IF q = p THEN scene ELSE s.scenes[q]
            /\ Resident(t) = Resident(s) \cup {p}
  <1> DEFINE t == [s EXCEPT !.scenes[p] = scene]
             scenes == [s.scenes EXCEPT ![p] = scene]
  <1>1. t = [s EXCEPT !.scenes = scenes]
    BY DEF ServiceLike
  <1>2. /\ scenes \in [Pages -> Scenes \cup {NoScene}]
        /\ \A q \in Pages : scenes[q] = IF q = p THEN scene ELSE s.scenes[q]
    BY DEF ServiceLike
  <1>3. scene # NoScene
    BY PageServiceAssumption DEF Scenes
  <1> HIDE DEF t, scenes
  <1>4. /\ ServiceLike(t) /\ t.revision = s.revision
        /\ t.inFlight = s.inFlight /\ t.indexed = s.indexed
        /\ t.states = s.states /\ t.recency = s.recency /\ t.scenes = scenes
    BY <1>1, <1>2 DEF ServiceLike
  <1>5. Resident(t) = Resident(s) \cup {p}
    BY <1>2, <1>3, <1>4 DEF Resident
  <1> QED
    BY <1>2, <1>4, <1>5 DEF t

\* A page is moved to the end of the order, or put there.
LEMMA TouchedOrder ==
  ASSUME NEW seq \in Seq(Pages), Distinct(seq), NEW p \in Pages
  PROVE  LET touched == Append(Only(seq, Pages \ {p}), p)
         IN /\ touched \in Seq(Pages) /\ Distinct(touched)
            /\ Elements(touched) = Elements(seq) \cup {p}
  <1> DEFINE others == Only(seq, Pages \ {p})
  <1>1. others \in Seq(Pages) /\ Distinct(others) /\ Elements(others) = Elements(seq) \cap (Pages \ {p})
    BY OnlyFacts
  <1>2. Elements(seq) \subseteq Pages
    BY DEF Elements
  <1> HIDE DEF others
  <1>3. p \notin Elements(others)
    BY <1>1
  <1>4. /\ Append(others, p) \in Seq(Pages) /\ Distinct(Append(others, p))
        /\ Elements(Append(others, p)) = Elements(others) \cup {p}
    BY <1>1, <1>3, AppendElements
  <1>5. Elements(others) \cup {p} = Elements(seq) \cup {p}
    BY <1>1, <1>2
  <1> QED
    BY <1>4, <1>5 DEF others

\* A scene of a page that had none: if there are too many now, then all that
\* could go are gone.
LEMMA InsertKept ==
  ASSUME NEW s, Kept(s), NEW p \in Pages, p \notin Resident(s),
         NEW scene \in Scenes, s.states[p] = scene.state
  PROVE  Kept(InsertScene(s, p, scene))
  <1> DEFINE surplus == Cardinality(Resident(s)) - ResidentLimit + 1
             gone == Coldest(s, surplus)
             rest == Without(s, gone)
             chilled == Chilled(rest, gone)
             more == [chilled EXCEPT !.scenes[p] = scene]
             t == Touch(more, p)
  <1>1. InsertScene(s, p, scene) = t
    BY DEF InsertScene
  <1>2. surplus \in Int /\ Cardinality(Resident(s)) \in Nat /\ ResidentLimit \in Nat
    BY ResidentFacts, PageServiceAssumption
  <1>3. /\ ServiceLike(s) /\ Shape(s) /\ Ordered(s)
        /\ gone \subseteq Hidden(s) /\ Hidden(s) \subseteq Resident(s) /\ Resident(s) \subseteq Pages
    BY <1>2, ResidentFacts, ColdestFacts DEF Kept
  <1> HIDE DEF gone
  <1>4. /\ ServiceLike(rest) /\ rest.inFlight = s.inFlight /\ rest.indexed = s.indexed
        /\ rest.states = s.states /\ rest.recency = Only(s.recency, Pages \ gone)
        /\ rest.scenes = [q \in Pages |-> IF q \in gone THEN NoScene ELSE s.scenes[q]]
        /\ Resident(rest) = Resident(s) \ gone
    BY ZenonT(30), <1>3, WithoutFacts
  <1> HIDE DEF rest
  <1>5. /\ ServiceLike(chilled) /\ chilled.inFlight = s.inFlight /\ chilled.indexed = s.indexed
        /\ chilled.recency = rest.recency /\ chilled.scenes = rest.scenes
        /\ chilled.states = [q \in Pages |-> IF q \in gone THEN "Cold" ELSE rest.states[q]]
    BY <1>4, ChilledFacts
  <1> HIDE DEF chilled
  <1>6. Resident(chilled) = Resident(s) \ gone
    BY <1>4, <1>5 DEF Resident
  <1>7. /\ ServiceLike(more) /\ more.inFlight = s.inFlight /\ more.indexed = s.indexed
        /\ more.states = chilled.states /\ more.recency = chilled.recency
        /\ \A q \in Pages : more.scenes[q] = IF q = p THEN scene ELSE chilled.scenes[q]
        /\ Resident(more) = Resident(chilled) \cup {p}
    BY <1>5, SceneFacts
  <1> HIDE DEF more
  <1>8. /\ ServiceLike(t) /\ t.inFlight = s.inFlight /\ t.indexed = s.indexed
        /\ t.states = more.states /\ t.scenes = more.scenes
        /\ t.recency = Append(Only(more.recency, Pages \ {p}), p)
    BY ZenonT(30), <1>7, TouchFacts
  <1> HIDE DEF t
  <1>9. Resident(t) = (Resident(s) \ gone) \cup {p}
    BY <1>6, <1>7, <1>8 DEF Resident
  <1>10. /\ more.recency \in Seq(Pages) /\ Distinct(more.recency)
         /\ Elements(more.recency) = Resident(s) \ gone
    <2>1. s.recency \in Seq(Pages) /\ Distinct(s.recency) /\ Elements(s.recency) = Resident(s)
      BY <1>3 DEF Shape, Ordered
    <2>2. /\ Only(s.recency, Pages \ gone) \in Seq(Pages) /\ Distinct(Only(s.recency, Pages \ gone))
          /\ Elements(Only(s.recency, Pages \ gone)) = Elements(s.recency) \cap (Pages \ gone)
      BY <2>1, OnlyFacts
    <2>3. Resident(s) \cap (Pages \ gone) = Resident(s) \ gone
      BY <1>3
    <2> QED
      BY <1>4, <1>5, <1>7, <2>1, <2>2, <2>3
  <1>11. t.recency \in Seq(Pages) /\ Distinct(t.recency) /\ Elements(t.recency) = Resident(t)
    BY <1>8, <1>9, <1>10, TouchedOrder
  <1>12. /\ \A q \in Pages \ (gone \cup {p}) : t.scenes[q] = s.scenes[q] /\ t.states[q] = s.states[q]
         /\ t.scenes[p] = scene /\ t.states[p] = s.states[p] /\ t.states \in [Pages -> States]
    <2>1. p \notin gone
      BY <1>3
    <2>2. s.states \in [Pages -> States]
      BY <1>3 DEF Shape
    <2>3. \A q \in Pages : t.states[q] = IF q \in gone THEN "Cold" ELSE s.states[q]
      BY <1>4, <1>5, <1>7, <1>8
    <2>4. t.states \in [Pages -> States]
      <3>1. t.states = [q \in Pages |-> IF q \in gone THEN "Cold" ELSE s.states[q]]
        BY <1>4, <1>5, <1>7, <1>8
      <3> QED
        BY <2>2, <3>1 DEF States
    <2>5. \A q \in Pages : t.scenes[q] = IF q = p THEN scene
                                         ELSE IF q \in gone THEN NoScene ELSE s.scenes[q]
      BY <1>4, <1>5, <1>7, <1>8
    <2> QED
      BY <2>1, <2>3, <2>4, <2>5
  <1>13. Shape(t)
    BY <1>3, <1>8, <1>11, <1>12 DEF Shape
  <1>14. \A q \in Resident(t) : t.states[q] = t.scenes[q].state
    BY <1>3, <1>9, <1>12 DEF Ordered
  <1>15. Hidden(t) \subseteq (Hidden(s) \ gone) \cup {p}
    BY <1>3, <1>9, <1>12 DEF Hidden
  <1>16. Bounded(t)
    <2>1. CASE surplus <= 0
      <3>1. gone = {}
        BY <1>2, <1>3, <2>1, ColdestFacts DEF gone
      <3>2. Resident(t) = Resident(s) \cup {p} /\ IsFiniteSet(Resident(s))
        BY <1>9, <3>1, ResidentFacts
      <3>4. Cardinality(Resident(t)) = Cardinality(Resident(s)) + 1
        BY <3>2, FS_AddElement
      <3>3. Cardinality(Resident(s)) + 1 <= ResidentLimit
        BY <1>2, <2>1
      <3> QED
        BY <1>2, <3>3, <3>4 DEF Bounded
    <2>2. CASE surplus \in 1 .. Cardinality(Hidden(s))
      <3>1. Cardinality(gone) = surplus
        BY <1>2, <1>3, <2>2, ColdestFacts DEF gone
      <3>2. gone \subseteq Resident(s) /\ IsFiniteSet(Resident(s)) /\ IsFiniteSet(gone)
        BY <1>3, ResidentFacts, FS_Subset
      <3>3. /\ IsFiniteSet(Resident(s) \ gone)
            /\ Cardinality(Resident(s) \ gone) = Cardinality(Resident(s)) - surplus
        <4> DEFINE all == Resident(s)
        <4>1. all \cap gone = gone /\ IsFiniteSet(all) /\ IsFiniteSet(gone)
          BY <3>2
        <4> HIDE DEF all
        <4>2. IsFiniteSet(all \ gone) /\ Cardinality(all \ gone) = Cardinality(all) - Cardinality(all \cap gone)
          BY <4>1, FS_Difference
        <4> QED
          BY <3>1, <4>1, <4>2 DEF all
      <3>4. Cardinality(Resident(t)) = Cardinality(Resident(s)) - surplus + 1
        BY <1>9, <3>3, FS_AddElement
      <3>5. Cardinality(Resident(t)) = ResidentLimit
        BY <1>2, <3>4
      <3> QED
        BY <1>2, <3>5 DEF Bounded
    <2>3. CASE surplus > Cardinality(Hidden(s))
      <3>1. gone = Hidden(s)
        BY <1>2, <1>3, <2>3, ResidentFacts, ColdestFacts DEF gone
      <3>2. Hidden(t) \subseteq {p}
        BY <1>15, <3>1
      <3>3. Cardinality(Hidden(t)) <= 1
        <4>1. IsFiniteSet({p}) /\ Cardinality({p}) = 1
          BY FS_Singleton
        <4>2. Hidden(t) \in SUBSET {p}
          BY <3>2
        <4> QED
          BY <4>1, <4>2, FS_Subset
      <3> QED
        BY <3>3 DEF Bounded
    <2> QED
      BY <1>2, <2>1, <2>2, <2>3, ResidentFacts
  <1> QED
    BY <1>1, <1>8, <1>11, <1>13, <1>14, <1>16 DEF Kept, Ordered

\* A service whose scenes are as they were.
LEMMA SameKept ==
  ASSUME NEW s, NEW t, Kept(s), ServiceLike(t), t.inFlight \subseteq Pages, t.indexed \subseteq Pages,
         t.scenes = s.scenes, t.recency = s.recency, t.states \in [Pages -> States],
         \A p \in Resident(s) : t.states[p] = s.states[p]
  PROVE  Kept(t) /\ Resident(t) = Resident(s)
  <1>1. Resident(t) = Resident(s)
    BY DEF Resident
  <1>2. Hidden(t) = Hidden(s)
    BY <1>1 DEF Hidden
  <1>3. Shape(t)
    BY DEF Kept, Shape
  <1>4. Ordered(t)
    BY <1>1 DEF Kept, Ordered
  <1>5. Bounded(t)
    BY <1>1, <1>2 DEF Kept, Bounded
  <1> QED
    BY <1>1, <1>3, <1>4, <1>5 DEF Kept

LEMMA PublishKept ==
  ASSUME NEW s, Kept(s), NEW p \in Pages, p \notin Resident(s), NEW priority \in Priorities
  PROVE  Kept(Publish(s, p, priority)) /\ Resident(Publish(s, p, priority)) \subseteq Resident(s) \cup {p}
  <1> DEFINE state == StateFor(priority)
             scene == [revision |-> s.revision, state |-> state]
             states == [s.states EXCEPT ![p] = state]
             noted == [s EXCEPT !.states = states]
  <1>1. state \in States
    BY DEF StateFor, States
  <1>2. ServiceLike(s) /\ s.states \in [Pages -> States] /\ s.revision \in Revisions
    BY DEF Kept, Shape, ServiceLike
  <1>3. scene \in Scenes /\ scene.state = state
    BY <1>1, <1>2 DEF Scenes
  <1>4. /\ states \in [Pages -> States] /\ states[p] = state
        /\ \A q \in Resident(s) : states[q] = s.states[q]
    BY <1>1, <1>2 DEF Resident
  <1>5. Publish(s, p, priority) = IF priority = 0 THEN noted ELSE InsertScene(noted, p, scene)
    BY <1>2 DEF Publish, ServiceLike
  <1> HIDE DEF states, scene, state
  <1>6. /\ ServiceLike(noted) /\ noted.inFlight = s.inFlight /\ noted.indexed = s.indexed
        /\ noted.scenes = s.scenes /\ noted.recency = s.recency /\ noted.states = states
    BY <1>2 DEF ServiceLike
  <1> HIDE DEF noted
  <1>7. Kept(noted) /\ Resident(noted) = Resident(s)
    <2>1. noted.inFlight \subseteq Pages /\ noted.indexed \subseteq Pages
      BY <1>6 DEF Kept, Shape
    <2> QED
      BY <1>4, <1>6, <2>1, SameKept
  <1>8. Kept(InsertScene(noted, p, scene))
    BY <1>3, <1>4, <1>6, <1>7, InsertKept
  <1>9. Resident(Publish(s, p, priority)) \subseteq Resident(s) \cup {p}
    BY <1>2, PublishKeeps DEF Keeps
  <1> QED
    BY <1>5, <1>7, <1>8, <1>9

\* Scenes are given up; the others are no less visible.
LEMMA GiveUpKept ==
  ASSUME NEW s, Kept(s), NEW ps
  PROVE  LET t == Chilled(Without(s, ps), ps \cap s.indexed)
         IN Kept(t) /\ t.inFlight = s.inFlight /\ t.indexed = s.indexed
            /\ Resident(t) \subseteq Resident(s)
  <1> DEFINE cold == ps \cap s.indexed
             rest == Without(s, ps)
             t == Chilled(rest, cold)
  <1>1. ServiceLike(s) /\ Shape(s) /\ Ordered(s) /\ Bounded(s)
    BY DEF Kept
  <1>0. cold \subseteq ps
    OBVIOUS
  <1> HIDE DEF t, cold
  <1>2. /\ ServiceLike(rest) /\ rest.inFlight = s.inFlight /\ rest.indexed = s.indexed
        /\ rest.states = s.states /\ rest.recency = Only(s.recency, Pages \ ps)
        /\ rest.scenes = [p \in Pages |-> IF p \in ps THEN NoScene ELSE s.scenes[p]]
        /\ Resident(rest) = Resident(s) \ ps
    <2>1. ServiceLike(s)
      BY <1>1
    <2> HIDE DEF rest
    <2>2. /\ ServiceLike(Without(s, ps)) /\ Without(s, ps).revision = s.revision
          /\ Without(s, ps).inFlight = s.inFlight /\ Without(s, ps).indexed = s.indexed
          /\ Without(s, ps).states = s.states /\ Without(s, ps).recency = Only(s.recency, Pages \ ps)
          /\ Without(s, ps).scenes = [p \in Pages |-> IF p \in ps THEN NoScene ELSE s.scenes[p]]
          /\ Resident(Without(s, ps)) = Resident(s) \ ps
      BY <2>1, WithoutFacts, Zenon
    <2> QED
      BY <2>2 DEF rest
  <1> HIDE DEF rest
  <1>3. /\ ServiceLike(t) /\ t.inFlight = s.inFlight /\ t.indexed = s.indexed
        /\ t.recency = rest.recency /\ t.scenes = rest.scenes
        /\ t.states = [q \in Pages |-> IF q \in cold THEN "Cold" ELSE rest.states[q]]
    BY <1>2, ChilledFacts DEF t
  <1>4. Resident(t) = Resident(s) \ ps
    BY <1>2, <1>3 DEF Resident
  <1>5. /\ t.states \in [Pages -> States]
        /\ \A q \in Resident(t) : t.states[q] = s.states[q] /\ t.scenes[q] = s.scenes[q]
    <2>1. s.states \in [Pages -> States]
      BY <1>1 DEF Shape
    <2>2. \A q \in Resident(t) : q \in Pages /\ q \notin ps
      BY <1>4 DEF Resident
    <2>3. t.states = [q \in Pages |-> IF q \in cold THEN "Cold" ELSE s.states[q]]
      BY <1>2, <1>3
    <2>4. t.scenes = [q \in Pages |-> IF q \in ps THEN NoScene ELSE s.scenes[q]]
      BY <1>2, <1>3
    <2>5. t.states \in [Pages -> States]
      BY <2>1, <2>3 DEF States
    <2> QED
      BY <1>0, <2>2, <2>3, <2>4, <2>5
  <1>6. t.recency \in Seq(Pages) /\ Distinct(t.recency) /\ Elements(t.recency) = Resident(t)
    <2>1. s.recency \in Seq(Pages) /\ Distinct(s.recency) /\ Elements(s.recency) = Resident(s)
      BY <1>1 DEF Shape, Ordered
    <2>2. /\ Only(s.recency, Pages \ ps) \in Seq(Pages) /\ Distinct(Only(s.recency, Pages \ ps))
          /\ Elements(Only(s.recency, Pages \ ps)) = Elements(s.recency) \cap (Pages \ ps)
      BY <2>1, OnlyFacts
    <2>3. Resident(s) \cap (Pages \ ps) = Resident(s) \ ps
      BY ResidentFacts
    <2> QED
      BY <1>2, <1>3, <1>4, <2>1, <2>2, <2>3
  <1>7. Shape(t) /\ Ordered(t)
    BY <1>1, <1>3, <1>4, <1>5, <1>6 DEF Shape, Ordered
  <1>8. Bounded(t)
    <2>1. Resident(t) \subseteq Resident(s) /\ Hidden(t) \subseteq Hidden(s)
      BY <1>4, <1>5 DEF Hidden
    <2>2. /\ Cardinality(Resident(t)) <= Cardinality(Resident(s))
          /\ Cardinality(Hidden(t)) <= Cardinality(Hidden(s))
      BY <2>1, ResidentFacts, FS_Subset
    <2> QED
      BY <1>1, <2>2, ResidentFacts, PageServiceAssumption DEF Bounded
  <1> QED
    BY <1>3, <1>4, <1>7, <1>8 DEF Kept, t, rest, cold

-----------------------------------------------------------------------------
(* The invariant of what is resident                                       *)

Busy == {"checking", "asleep", "importing"}

\* A request is for a page there is.
OnPages ==
  \A t \in Threads :
    thread[t].page \in Pages \cup {1} /\ (thread[t].pc \in Busy => thread[t].page \in Pages)

Counts == asked \in [Callers -> 0 .. MaxRequests] /\ indexing.next \in 1 .. PageCount + 1

\* A page that is being imported is not there yet.
NotThere(s) == s.inFlight \cap (s.indexed \cup Resident(s)) = {}

PInv == IInv /\ Kept(service) /\ NotThere(service) /\ OnPages /\ Counts

LEMMA PagesStay ==
  ASSUME OnPages,
         \A u \in Threads : /\ thread'[u].page = thread[u].page
                            /\ thread'[u].pc \in Busy => thread[u].pc \in Busy
  PROVE  OnPages'
  BY DEF OnPages

LEMMA MovePages ==
  ASSUME Types, OnPages, NEW t \in Threads, NEW next \in ThreadStates, NEW wake \in BOOLEAN,
         Moves(t, next, wake), next.page \in Pages \cup {1}, next.pc \in Busy => next.page \in Pages
  PROVE  OnPages'
  <1>1. /\ thread'[t] = next
        /\ \A u \in Threads \ {t} :
             /\ thread'[u].page = thread[u].page
             /\ thread'[u].pc = IF wake /\ thread[u].pc = "asleep" THEN "checking" ELSE thread[u].pc
    BY MoveFacts
  <1>2. \A u \in Threads \ {t} : thread'[u].pc \in Busy => thread[u].pc \in Busy
    BY <1>1 DEF Busy
  <1> QED
    BY <1>1, <1>2 DEF OnPages

LEMMA ReturnPages ==
  ASSUME PInv, NEW t \in Threads, NEW wake \in BOOLEAN, NEW answer \in Answers, Return(t, wake, answer)
  PROVE  OnPages' /\ Counts'
  <1> DEFINE next == Returned(t, answer)
  <1>1. Moves(t, next, wake) /\ next \in ThreadStates /\ next.pc \in {"idle", "looking"}
    BY ReturnFacts DEF PInv
  <1>2. next.page = 1
    BY DEF Returned
  <1> HIDE DEF next
  <1>3. OnPages'
    BY <1>1, <1>2, MovePages DEF PInv, IInv, Busy
  <1>4. asked' = asked /\ indexing'.next = indexing.next
    BY DEF Return, PInv, IInv, Types, IndexingStates
  <1> QED
    BY <1>3, <1>4 DEF PInv, Counts

LEMMA UnregisteredKept ==
  ASSUME PInv, NEW t \in Threads
  PROVE  LET s == Unregistered(service, thread[t])
         IN /\ Kept(s) /\ NotThere(s) /\ Resident(s) = Resident(service) /\ ServiceLike(s)
            /\ s.inFlight = service.inFlight /\ s.indexed = service.indexed /\ s.scenes = service.scenes
            /\ s.revision = service.revision
            /\ s.states = service.states /\ s.recency = service.recency
  <1> DEFINE s == Unregistered(service, thread[t])
  <1>1. /\ ServiceLike(s) /\ s.inFlight = service.inFlight /\ s.indexed = service.indexed
        /\ s.scenes = service.scenes /\ s.revision = service.revision
    BY ThreadFacts, UnregisteredFacts DEF PInv
  <1>2. s.states = service.states /\ s.recency = service.recency
    BY DEF Unregistered, PInv, Kept, ServiceLike
  <1> HIDE DEF s
  <1>3. Kept(service) /\ Shape(service) /\ NotThere(service)
    BY DEF PInv, Kept
  <1>4. Kept(s) /\ Resident(s) = Resident(service)
    BY <1>1, <1>2, <1>3, SameKept DEF Shape
  <1>5. NotThere(s)
    BY <1>1, <1>3, <1>4 DEF NotThere
  <1> QED
    BY <1>1, <1>2, <1>4, <1>5 DEF s

LEMMA RefuseStalePages == \A t \in Threads : PInv /\ RefuseStale(t) => PInv'
  <1> SUFFICES ASSUME NEW t \in Threads, PInv, RefuseStale(t) PROVE PInv'
    OBVIOUS
  <1>1. service' = Unregistered(service, thread[t]) /\ Return(t, thread[t].registered, "stale")
    BY DEF RefuseStale
  <1>2. Kept(service') /\ NotThere(service')
    BY <1>1, UnregisteredKept
  <1>3. thread[t].registered \in BOOLEAN /\ "stale" \in Answers
    BY ThreadFacts DEF PInv, Answers
  <1>4. OnPages' /\ Counts'
    BY <1>1, <1>3, ReturnPages
  <1> QED
    BY <1>2, <1>4, RefuseStaleStep DEF PInv, NotThere, Resident

LEMMA AnswerIndexedPages == \A t \in Threads : PInv /\ AnswerIndexed(t) => PInv'
  <1> SUFFICES ASSUME NEW t \in Threads, PInv, AnswerIndexed(t) PROVE PInv'
    OBVIOUS
  <1> DEFINE p == thread[t].page
             s == Unregistered(service, thread[t])
  <1>1. /\ thread[t].expected = service.revision /\ p \in service.indexed \ Resident(service)
        /\ service' = Publish(s, p, thread[t].priority)
        /\ Return(t, thread[t].registered, Scene(t, service.revision))
    BY DEF AnswerIndexed, Current
  <1>2. Scene(t, service.revision) \in Answers /\ thread[t].registered \in BOOLEAN
    BY ThreadFacts DEF PInv, Scene, Answers
  <1>3. /\ Kept(s) /\ NotThere(s) /\ Resident(s) = Resident(service) /\ ServiceLike(s)
        /\ s.inFlight = service.inFlight /\ s.indexed = service.indexed
    BY UnregisteredKept
  <1>4. p \in Pages /\ p \notin Resident(s) /\ thread[t].priority \in Priorities
    BY <1>1, <1>3, ThreadFacts DEF PInv, Kept, Shape
  <1> HIDE DEF s, p
  <1>5. Kept(service') /\ Resident(service') \subseteq Resident(s) \cup {p}
    BY <1>1, <1>3, <1>4, PublishKept
  <1>6. service'.inFlight = s.inFlight /\ service'.indexed = s.indexed
    BY <1>1, <1>3, <1>4, PublishKeeps DEF Keeps
  <1>7. NotThere(service')
    BY <1>1, <1>3, <1>5, <1>6 DEF NotThere
  <1>8. OnPages' /\ Counts'
    BY <1>1, <1>2, ReturnPages
  <1> QED
    BY <1>5, <1>7, <1>8, AnswerIndexedStep DEF PInv, NotThere, Resident

\* A scene that is there already gets the state of the request, and is not hidden for it.
LEMMA AnswerResidentPages == \A t \in Threads : PInv /\ AnswerResident(t) => PInv'
  <1> SUFFICES ASSUME NEW t \in Threads, PInv, AnswerResident(t) PROVE PInv'
    OBVIOUS
  <1> DEFINE p == thread[t].page
             s == Unregistered(service, thread[t])
             u == Touch(s, p)
             state == Promoted(service.scenes[p].state, StateFor(thread[t].priority))
             scene == [service.scenes[p] EXCEPT !.state = state]
             states == [service.states EXCEPT ![p] = state]
             v == [u EXCEPT !.scenes[p] = scene]
  <1>1. /\ p \in Resident(service) /\ p \in Pages
        /\ service' = [u EXCEPT !.scenes[p].state = state, !.states[p] = state]
        /\ Return(t, thread[t].registered, Scene(t, service.scenes[p].revision))
    BY DEF AnswerResident, Resident
  <1>2. Scene(t, service.scenes[p].revision) \in Answers /\ thread[t].registered \in BOOLEAN
    BY ThreadFacts DEF PInv, Scene, Answers
  <1>3. OnPages' /\ Counts'
    BY <1>1, <1>2, ReturnPages
  <1> HIDE DEF u, v, scene, states, state
  <1>4. /\ Kept(s) /\ NotThere(s) /\ Resident(s) = Resident(service) /\ ServiceLike(s)
        /\ s.inFlight = service.inFlight /\ s.indexed = service.indexed /\ s.scenes = service.scenes
        /\ s.states = service.states /\ s.recency = service.recency
    BY UnregisteredKept
  <1>5. state \in States /\ (service.scenes[p].state = "Visible" => state = "Visible")
    <2> DEFINE current == service.scenes[p].state
               requested == StateFor(thread[t].priority)
    <2>1. requested \in States
      BY DEF StateFor, States
    <2>2. state = Promoted(current, requested)
      BY DEF state
    <2> HIDE DEF current, requested
    <2>3. Promoted(current, requested) \in States /\ (current = "Visible" => Promoted(current, requested) = "Visible")
      BY <2>1 DEF Promoted, States
    <2> QED
      BY <2>2, <2>3 DEF current
  <1> HIDE DEF s, p
  <1>6. /\ ServiceLike(u) /\ u.inFlight = s.inFlight /\ u.indexed = s.indexed
        /\ u.states = s.states /\ u.scenes = s.scenes
        /\ u.recency = Append(Only(s.recency, Pages \ {p}), p)
    <2>1. ServiceLike(s) /\ u = Touch(s, p)
      BY <1>4 DEF u
    <2>2. /\ ServiceLike(Touch(s, p)) /\ Touch(s, p).revision = s.revision
          /\ Touch(s, p).inFlight = s.inFlight /\ Touch(s, p).indexed = s.indexed
          /\ Touch(s, p).states = s.states /\ Touch(s, p).scenes = s.scenes
          /\ Touch(s, p).recency = Append(Only(s.recency, Pages \ {p}), p)
      BY <2>1, TouchFacts
    <2> QED
      BY <2>1, <2>2
  <1>7. service.scenes[p] \in Scenes /\ service.states \in [Pages -> States]
    BY <1>1 DEF PInv, Kept, ServiceLike, Shape, Resident
  <1>8. scene \in Scenes /\ scene.state = state
    BY <1>5, <1>7 DEF Scenes, scene
  <1>9. service' = [v EXCEPT !.states = states]
    <2>1. v = [u EXCEPT !.scenes[p].state = state]
      BY <1>1, <1>4, <1>6 DEF ServiceLike, v, scene
    <2>2. v.states = service.states
      BY <1>4, <1>6 DEF ServiceLike, v
    <2>3. service' = [v EXCEPT !.states[p] = state]
      BY <1>1, <2>1 DEF u, state
    <2> QED
      BY <2>2, <2>3 DEF states
  <1>10. /\ ServiceLike(v) /\ v.inFlight = s.inFlight /\ v.indexed = s.indexed
         /\ v.states = s.states /\ v.recency = u.recency
         /\ \A q \in Pages : v.scenes[q] = IF q = p THEN scene ELSE service.scenes[q]
         /\ Resident(v) = Resident(service)
    <2>1. /\ ServiceLike(v) /\ v.inFlight = u.inFlight /\ v.indexed = u.indexed
          /\ v.states = u.states /\ v.recency = u.recency
          /\ \A q \in Pages : v.scenes[q] = IF q = p THEN scene ELSE u.scenes[q]
          /\ Resident(v) = Resident(u) \cup {p}
      <3> DEFINE w == [u EXCEPT !.scenes[p] = scene]
      <3> HIDE DEF w
      <3>1. p \in Pages /\ ServiceLike(u) /\ w = v
        BY <1>1, <1>6 DEF v, w
      <3>2. /\ ServiceLike(w) /\ w.revision = u.revision
            /\ w.inFlight = u.inFlight /\ w.indexed = u.indexed
            /\ w.states = u.states /\ w.recency = u.recency
            /\ \A q \in Pages : w.scenes[q] = IF q = p THEN scene ELSE u.scenes[q]
            /\ Resident(w) = Resident(u) \cup {p}
        BY <1>8, <3>1, SceneFacts DEF w
      <3> QED
        BY <3>1, <3>2
    <2>2. Resident(u) = Resident(service)
      BY <1>4, <1>6 DEF Resident
    <2> QED
      BY <1>1, <1>4, <1>6, <2>1, <2>2
  <1>11. /\ states \in [Pages -> States] /\ states[p] = state
         /\ \A q \in Pages \ {p} : states[q] = service.states[q]
    BY <1>1, <1>5, <1>7 DEF states
  <1>12. /\ ServiceLike(service') /\ service'.inFlight = v.inFlight /\ service'.indexed = v.indexed
         /\ service'.recency = v.recency /\ service'.scenes = v.scenes /\ service'.states = states
    BY <1>9, <1>10 DEF ServiceLike
  <1>13. Resident(service') = Resident(service)
    BY <1>10, <1>12 DEF Resident
  <1>14. /\ service'.recency \in Seq(Pages) /\ Distinct(service'.recency)
         /\ Elements(service'.recency) = Resident(service')
    <2>1. s.recency \in Seq(Pages) /\ Distinct(s.recency) /\ Elements(s.recency) = Resident(s)
      BY <1>4 DEF Kept, Shape, Ordered
    <2>2. service'.recency = Append(Only(s.recency, Pages \ {p}), p)
      BY <1>6, <1>10, <1>12
    <2> DEFINE touched == Append(Only(s.recency, Pages \ {p}), p)
               seq == s.recency
    <2>3. seq \in Seq(Pages) /\ Distinct(seq) /\ p \in Pages
      BY <1>1, <2>1
    <2>4. /\ touched \in Seq(Pages) /\ Distinct(touched) /\ Elements(touched) = Elements(seq) \cup {p}
      <3> HIDE DEF seq
      <3> QED
        BY <2>3, TouchedOrder DEF seq
    <2> HIDE DEF touched
    <2>5. Elements(touched) = Resident(service')
      BY <1>1, <1>4, <1>13, <2>1, <2>4
    <2> QED
      BY <2>2, <2>4, <2>5 DEF touched
  <1>15. Shape(service')
    BY <1>4, <1>10, <1>11, <1>12, <1>14 DEF Shape, Kept
  <1>16. \A q \in Resident(service') : service'.states[q] = service'.scenes[q].state
    BY <1>8, <1>10, <1>11, <1>12, <1>13 DEF PInv, Kept, Ordered, Resident
  <1>17. Hidden(service') \subseteq Hidden(service)
    BY <1>1, <1>5, <1>8, <1>10, <1>12, <1>13 DEF Hidden, Resident
  <1>18. Bounded(service')
    <2>1. Cardinality(Hidden(service')) <= Cardinality(Hidden(service))
      BY <1>17, ResidentFacts, FS_Subset
    <2> QED
      BY <1>13, <2>1, ResidentFacts DEF PInv, Kept, Bounded
  <1>19. Kept(service') /\ NotThere(service')
    BY <1>4, <1>10, <1>12, <1>13, <1>14, <1>15, <1>16, <1>18 DEF Kept, Ordered, NotThere
  <1> QED
    BY <1>3, <1>19, AnswerResidentStep DEF PInv, NotThere, Resident

LEMMA WaitPages == \A t \in Threads : PInv /\ Wait(t) => PInv'
  <1> SUFFICES ASSUME NEW t \in Threads, PInv, Wait(t) PROVE PInv'
    OBVIOUS
  <1> DEFINE i == thread[t].priority
             wake == ~thread[t].registered
             all == Woken(wake)
  <1>1. /\ thread[t].pc = "checking"
        /\ service' = IF thread[t].registered THEN service ELSE [service EXCEPT !.waiters[i] = @ + 1]
        /\ thread' = [all EXCEPT ![t].pc = "asleep", ![t].registered = TRUE]
        /\ asked' = asked /\ indexing' = indexing
    BY DEF Wait, Missing, Current, Checking, Woken
  <1>2. ServiceLike(service) /\ Shape(service)
    BY DEF PInv, Kept
  <1>3. /\ ServiceLike(service') /\ service'.inFlight = service.inFlight
        /\ service'.indexed = service.indexed /\ service'.scenes = service.scenes
        /\ service'.states = service.states /\ service'.recency = service.recency
    <2>1. ServiceLike(service')
      BY WaitStep DEF PInv, IInv, Types
    <2>2. CASE thread[t].registered
      BY <1>1, <2>1, <2>2
    <2>3. CASE ~thread[t].registered
      BY <1>1, <1>2, <2>1, <2>3 DEF ServiceLike
    <2> QED
      BY <2>2, <2>3
  <1>4. Kept(service') /\ Resident(service') = Resident(service)
    BY <1>2, <1>3, SameKept DEF PInv, Shape
  <1>5. NotThere(service')
    BY <1>3, <1>4 DEF PInv, NotThere
  <1>6. /\ all \in [Threads -> ThreadStates]
        /\ \A u \in Threads :
             /\ all[u].page = thread[u].page
             /\ all[u].pc = IF wake /\ thread[u].pc = "asleep" THEN "checking" ELSE thread[u].pc
    <2>1. wake \in BOOLEAN
      OBVIOUS
    <2> QED
      BY <2>1, WokenType DEF PInv, IInv
  <1> HIDE DEF all
  <1>7. \A u \in Threads : thread'[u].page = thread[u].page /\ (thread'[u].pc \in Busy => thread[u].pc \in Busy)
    <2>1. \A u \in Threads \ {t} : thread'[u] = all[u]
      BY <1>1, <1>6
    <2>2. thread'[t].page = all[t].page
      BY <1>1, <1>6 DEF ThreadStates
    <2> QED
      BY <1>1, <1>6, <2>1, <2>2 DEF Busy
  <1>8. OnPages' /\ Counts'
    BY <1>1, <1>7, PagesStay DEF PInv, Counts
  <1> QED
    BY <1>4, <1>5, <1>8, WaitStep DEF PInv, NotThere, Resident

LEMMA StartImportPages == \A t \in Threads : PInv /\ StartImport(t) => PInv'
  <1> SUFFICES ASSUME NEW t \in Threads, PInv, StartImport(t) PROVE PInv'
    OBVIOUS
  <1> DEFINE p == thread[t].page
             s == Unregistered(service, thread[t])
             inFlight == s.inFlight \cup {p}
             active == s.active + 1
  <1>1. /\ thread[t].pc = "checking" /\ p \notin service.indexed \cup Resident(service)
        /\ service' = [s EXCEPT !.inFlight = @ \cup {p}, !.active = @ + 1]
        /\ thread' = [thread EXCEPT ![t].pc = "importing", ![t].registered = FALSE]
        /\ asked' = asked /\ indexing' = indexing
    BY DEF StartImport, Missing, Current, Checking
  <1>2. thread \in [Threads -> ThreadStates] /\ p \in Pages
    BY <1>1 DEF PInv, IInv, Types, OnPages, Busy
  <1>3. /\ Kept(s) /\ NotThere(s) /\ Resident(s) = Resident(service) /\ ServiceLike(s)
        /\ s.indexed = service.indexed
    BY UnregisteredKept
  <1> HIDE DEF s, p
  <1>4. service' = [s EXCEPT !.inFlight = inFlight, !.active = active]
    BY <1>1, <1>3 DEF ServiceLike
  <1>5. ServiceLike(service')
    BY StartImportStep DEF PInv, IInv, Types
  <1> HIDE DEF active
  <1>6. /\ service'.inFlight = inFlight /\ service'.indexed = s.indexed /\ service'.scenes = s.scenes
        /\ service'.states = s.states /\ service'.recency = s.recency
    BY <1>3, <1>4 DEF ServiceLike
  <1>7. Kept(service') /\ Resident(service') = Resident(s)
    <2>1. s.states \in [Pages -> States] /\ s.indexed \subseteq Pages /\ inFlight \subseteq Pages
      BY <1>2, <1>3 DEF Kept, Shape
    <2> QED
      BY <1>3, <1>5, <1>6, <2>1, SameKept
  <1>8. NotThere(service')
    BY <1>1, <1>3, <1>6, <1>7 DEF NotThere
  <1>9. \A u \in Threads : thread'[u].page = thread[u].page /\ (thread'[u].pc \in Busy => thread[u].pc \in Busy)
    <2>1. \A u \in Threads \ {t} : thread'[u] = thread[u]
      BY <1>1, <1>2
    <2>2. thread'[t].page = thread[t].page
      BY <1>1, <1>2 DEF ThreadStates
    <2> QED
      BY <1>1, <2>1, <2>2 DEF Busy
  <1>10. OnPages' /\ Counts'
    BY <1>1, <1>9, PagesStay DEF PInv, Counts
  <1> QED
    BY <1>7, <1>8, <1>10, StartImportStep DEF PInv, NotThere, Resident

LEMMA FinishImportPages == \A t \in Threads : PInv /\ FinishImport(t) => PInv'
  <1> SUFFICES ASSUME NEW t \in Threads, PInv, FinishImport(t) PROVE PInv'
    OBVIOUS
  <1> DEFINE p == thread[t].page
             s == Imported(t)
             indexed == s.indexed \cup {p}
             more == [s EXCEPT !.indexed = indexed]
             inFlight == service.inFlight \ {p}
             active == service.active - 1
  <1>1. thread[t].pc = "importing" /\ p \in Pages /\ p \in service.inFlight
    BY DEF FinishImport, PInv, OnPages, Busy, IInv, ImportsAreShared, Importing
  <1>2. PICK answer \in Answers :
          /\ Return(t, TRUE, answer)
          /\ service' = s \/ service' = Publish(more, p, thread[t].priority)
    <2>1. \/ Return(t, TRUE, Scene(t, service.revision)) /\ service' = Publish(more, p, thread[t].priority)
          \/ Return(t, TRUE, "stale") /\ service' = s
          \/ Return(t, TRUE, "failed") /\ service' = s
      BY DEF FinishImport
    <2>2. Scene(t, service.revision) \in Answers /\ "stale" \in Answers /\ "failed" \in Answers
      BY DEF Scene, Answers
    <2> QED
      BY <2>1, <2>2
  <1>3. ServiceLike(service) /\ Kept(service) /\ Shape(service) /\ thread[t].priority \in Priorities
    BY ThreadFacts DEF PInv, Kept
  <1>4. service.active - 1 \in Nat
    <2>1. Importing # {} /\ Cardinality(Importing) = service.active
      BY <1>1 DEF Importing, PInv, IInv, ImportsAreShared
    <2> QED
      BY <2>1, FiniteParts
  <1>5. s = [service EXCEPT !.inFlight = inFlight, !.active = active]
    BY <1>3 DEF Imported, ServiceLike
  <1>6. active \in Nat /\ inFlight \subseteq Pages /\ inFlight \subseteq Nat
    BY <1>3, <1>4 DEF Shape, Pages
  <1> HIDE DEF s, active, inFlight
  <1>7. /\ ServiceLike(s) /\ s.inFlight = inFlight /\ s.indexed = service.indexed
        /\ s.scenes = service.scenes /\ s.states = service.states /\ s.recency = service.recency
    <2>1. s \in [revision : Revisions, active : Nat, waiters : [Priorities -> Nat],
             inFlight : SUBSET Nat, scenes : [Pages -> Scenes \cup {NoScene}],
             recency : {service.recency}, indexed : SUBSET Nat, states : {service.states}]
      BY <1>3, <1>5, <1>6 DEF ServiceLike
    <2>2. /\ s.inFlight = inFlight /\ s.indexed = service.indexed
          /\ s.scenes = service.scenes /\ s.states = service.states /\ s.recency = service.recency
      BY <1>3, <1>5 DEF ServiceLike
    <2> QED
      BY <2>1, <2>2 DEF ServiceLike
  <1>8. Kept(s) /\ Resident(s) = Resident(service)
    BY <1>3, <1>6, <1>7, SameKept DEF Shape
  <1>9. p \notin Resident(service) /\ p \notin service.indexed
    BY <1>1 DEF PInv, NotThere
  <1>10. NotThere(s)
    BY <1>7, <1>8 DEF PInv, NotThere, inFlight
  <1> HIDE DEF p
  <1>11. Kept(service') /\ NotThere(service')
    <2>1. CASE service' = s
      BY <1>8, <1>10, <2>1
    <2>2. CASE service' = Publish(more, p, thread[t].priority)
      <3>1. indexed \subseteq Pages /\ indexed \subseteq Nat
        BY <1>1, <1>3, <1>7 DEF Shape, Pages
      <3> HIDE DEF indexed
      <3>2. /\ ServiceLike(more) /\ more.inFlight = s.inFlight /\ more.indexed = indexed
            /\ more.scenes = s.scenes /\ more.states = s.states /\ more.recency = s.recency
        BY <1>7, <3>1 DEF ServiceLike
      <3> HIDE DEF more
      <3>3. Kept(more) /\ Resident(more) = Resident(s)
        <4>1. more.inFlight \subseteq Pages /\ more.indexed \subseteq Pages /\ more.states \in [Pages -> States]
          BY <1>6, <1>7, <3>1, <3>2, <1>8 DEF Kept, Shape
        <4> QED
          BY <1>8, <3>2, <4>1, SameKept
      <3>4. Kept(service') /\ Resident(service') \subseteq Resident(more) \cup {p}
        BY <1>1, <1>3, <1>8, <1>9, <2>2, <3>3, PublishKept
      <3>5. service'.inFlight = more.inFlight /\ service'.indexed = more.indexed
        BY <1>3, <2>2, <3>2, PublishKeeps DEF Keeps
      <3>6. NotThere(service')
        BY <1>7, <1>10, <3>2, <3>3, <3>4, <3>5 DEF NotThere, indexed, inFlight
      <3> QED
        BY <3>4, <3>6
    <2> QED
      BY <1>2, <2>1, <2>2
  <1>12. OnPages' /\ Counts'
    BY <1>2, ReturnPages
  <1> QED
    BY <1>11, <1>12, FinishImportStep DEF PInv, NotThere, Resident

LEMMA BeginPages ==
  ASSUME PInv, NEW t \in Threads, NEW p \in Pages, NEW priority \in Priorities,
         NEW expected \in Revisions, Begin(t, p, priority, expected)
  PROVE  OnPages'
  <1>1. thread \in [Threads -> ThreadStates]
    BY DEF PInv, IInv, Types
  <1>2. thread' = [thread EXCEPT ![t] = Assigned(thread[t], p, priority, expected)]
    BY <1>1 DEF Begin, ThreadStates, Assigned
  <1>3. Assigned(thread[t], p, priority, expected).page = p
    <2>1. Assigned(thread[t], p, priority, expected) = Begun(thread[t], p, priority, expected)
      <3>1. thread[t] \in ThreadStates /\ p \in Nat
        BY <1>1 DEF Pages
      <3> QED
        BY <3>1, BeginIsARecord, Zenon
    <2> QED
      BY <2>1 DEF Begun
  <1> QED
    BY <1>1, <1>2, <1>3 DEF PInv, OnPages

LEMMA RequestPages ==
  \A c \in Callers, p \in Pages, priority \in Asked, expected \in Revisions :
    PInv /\ Request(c, p, priority, expected) => PInv'
  <1> SUFFICES ASSUME NEW c \in Callers, NEW p \in Pages, NEW priority \in Asked,
                      NEW expected \in Revisions, PInv, Request(c, p, priority, expected)
               PROVE  PInv'
    OBVIOUS
  <1>1. c \in Threads /\ priority \in Priorities
    BY PageServiceAssumption DEF Threads
  <1>2. /\ Begin(c, p, priority, expected) /\ service' = service /\ indexing' = indexing
        /\ asked' = [asked EXCEPT ![c] = @ + 1] /\ asked[c] < MaxRequests
    BY DEF Request
  <1>3. OnPages'
    BY <1>1, <1>2, BeginPages
  <1>4. Counts'
    <2>1. asked \in [Callers -> 0 .. MaxRequests]
      BY DEF PInv, Counts
    <2>2. asked[c] + 1 \in 0 .. MaxRequests
      BY <1>2, <2>1, PageServiceAssumption
    <2>3. asked' \in [Callers -> 0 .. MaxRequests]
      BY <1>2, <2>1, <2>2
    <2> QED
      BY <1>2, <2>3 DEF PInv, Counts
  <1>5. IInv'
    BY RequestStep DEF PInv
  <1> QED
    BY <1>2, <1>3, <1>4, <1>5 DEF PInv, NotThere, Resident

LEMMA IndexNextPagePages == \A t \in Threads : PInv /\ IndexNextPage(t) => PInv'
  <1> SUFFICES ASSUME NEW t \in Threads, PInv, IndexNextPage(t) PROVE PInv'
    OBVIOUS
  <1>1. /\ Begin(t, indexing.next, 0, service.revision) /\ service' = service /\ asked' = asked
        /\ indexing.next <= PageCount /\ indexing' = [indexing EXCEPT !.next = @ + 1]
    BY DEF IndexNextPage
  <1>2. /\ indexing \in IndexingStates /\ indexing.next \in 1 .. PageCount + 1
        /\ service.revision \in Revisions /\ 0 \in Priorities
    BY DEF PInv, IInv, Types, ServiceLike, Counts, Priorities
  <1>3. indexing.next \in Pages
    BY <1>1, <1>2, PageServiceAssumption DEF Pages
  <1>4. OnPages'
    BY <1>1, <1>2, <1>3, BeginPages
  <1>5. Counts'
    <2>1. indexing'.next = indexing.next + 1
      BY <1>1, <1>2 DEF IndexingStates
    <2>2. indexing.next + 1 \in 1 .. PageCount + 1
      BY <1>1, <1>2, PageServiceAssumption
    <2> QED
      BY <1>1, <2>1, <2>2 DEF PInv, Counts
  <1>6. IInv'
    BY IndexNextPageStep DEF PInv
  <1> QED
    BY <1>1, <1>4, <1>5, <1>6 DEF PInv, NotThere, Resident

LEMMA StopIndexingPages == \A t \in Threads : PInv /\ StopIndexing(t) => PInv'
  <1> SUFFICES ASSUME NEW t \in Threads, PInv, StopIndexing(t) PROVE PInv'
    OBVIOUS
  <1>1. /\ thread' = [thread EXCEPT ![t].pc = "done"] /\ service' = service
        /\ asked' = asked /\ indexing' = indexing
    BY DEF StopIndexing
  <1>2. thread \in [Threads -> ThreadStates]
    BY DEF PInv, IInv, Types
  <1>3. \A u \in Threads : thread'[u].page = thread[u].page /\ (thread'[u].pc \in Busy => thread[u].pc \in Busy)
    BY <1>1, <1>2 DEF ThreadStates, Busy
  <1>4. OnPages'
    BY <1>3, PagesStay DEF PInv
  <1>5. IInv'
    BY StopIndexingStep DEF PInv
  <1> QED
    BY <1>1, <1>4, <1>5 DEF PInv, NotThere, Resident, Counts

LEMMA WakeSpuriouslyPages == \A t \in Threads : PInv /\ WakeSpuriously(t) => PInv'
  <1> SUFFICES ASSUME NEW t \in Threads, PInv, WakeSpuriously(t) PROVE PInv'
    OBVIOUS
  <1>1. /\ thread[t].pc = "asleep" /\ thread' = [thread EXCEPT ![t].pc = "checking"]
        /\ service' = service /\ asked' = asked /\ indexing' = indexing
    BY DEF WakeSpuriously
  <1>2. thread \in [Threads -> ThreadStates]
    BY DEF PInv, IInv, Types
  <1>3. \A u \in Threads : thread'[u].page = thread[u].page /\ (thread'[u].pc \in Busy => thread[u].pc \in Busy)
    BY <1>1, <1>2 DEF ThreadStates, Busy
  <1>4. OnPages'
    BY <1>3, PagesStay DEF PInv
  <1>5. IInv'
    BY WakeSpuriouslyStep DEF PInv
  <1> QED
    BY <1>1, <1>4, <1>5 DEF PInv, NotThere, Resident, Counts

LEMMA WakeAllPages ==
  ASSUME PInv, thread' = NotifyAll(thread)
  PROVE  OnPages'
  <1>1. PICK wake \in BOOLEAN : wake
    OBVIOUS
  <1>2. thread' = Woken(wake)
    BY <1>1 DEF Woken
  <1>3. \A u \in Threads :
             /\ thread'[u].page = thread[u].page
             /\ thread'[u].pc = IF wake /\ thread[u].pc = "asleep" THEN "checking" ELSE thread[u].pc
    BY <1>2, WokenType DEF PInv, IInv
  <1>4. \A u \in Threads : thread'[u].page = thread[u].page /\ (thread'[u].pc \in Busy => thread[u].pc \in Busy)
    BY <1>3 DEF Busy
  <1> QED
    BY <1>4, PagesStay DEF PInv

LEMMA SetRevisionPages == \A r \in Revisions : PInv /\ SetRevision(r) => PInv'
  <1> SUFFICES ASSUME NEW r \in Revisions, PInv, SetRevision(r) PROVE PInv'
    OBVIOUS
  <1> DEFINE scenes == [p \in Pages |-> NoScene]
             states == [p \in Pages |-> "Unseen"]
             s == [service EXCEPT !.revision = r, !.scenes = scenes, !.recency = <<>>]
  <1>1. /\ service' = [s EXCEPT !.indexed = {}, !.states = states]
        /\ thread' = NotifyAll(thread) /\ asked' = asked /\ indexing' = indexing
    BY DEF SetRevision
  <1>2. IInv' /\ ServiceLike(service')
    BY SetRevisionStep DEF PInv, IInv, Types
  <1>3. states \in [Pages -> States] /\ \A p \in Pages : scenes[p] = NoScene
    BY DEF States
  <1>4. service'.scenes = scenes /\ service'.recency = <<>> /\ service'.states = states
        /\ service'.indexed = {} /\ service'.inFlight = service.inFlight
    <2> HIDE DEF scenes, states
    <2>1. /\ s.scenes = scenes /\ s.recency = <<>> /\ s.inFlight = service.inFlight
          /\ DOMAIN s = DOMAIN service
      BY DEF PInv, Kept, ServiceLike
    <2>2. service' = [s EXCEPT !.indexed = {}, !.states = states]
      BY <1>1
    <2> HIDE DEF s
    <2> QED
      BY <2>1, <2>2 DEF PInv, Kept, ServiceLike
  <1> HIDE DEF scenes, states, s
  <1>5. Resident(service') = {}
    BY <1>3, <1>4 DEF Resident
  <1>6. Kept(service')
    <2>1. Shape(service')
      BY <1>3, <1>4 DEF PInv, Kept, Shape
    <2>2. Ordered(service')
      <3>1. Elements(<<>>) = {} /\ Distinct(<<>>)
        BY DEF Elements, Distinct
      <3> QED
        BY <1>4, <1>5, <3>1 DEF Ordered
    <2>3. Bounded(service')
      BY <1>5, FS_EmptySet, PageServiceAssumption DEF Bounded
    <2> QED
      BY <1>2, <2>1, <2>2, <2>3 DEF Kept
  <1>7. NotThere(service')
    BY <1>4, <1>5 DEF NotThere
  <1>8. OnPages' /\ Counts'
    BY <1>1, WakeAllPages DEF PInv, Counts
  <1> QED
    BY <1>2, <1>6, <1>7, <1>8 DEF PInv, NotThere, Resident

LEMMA CancelIndexingPages == PInv /\ CancelIndexing => PInv'
  <1> SUFFICES ASSUME PInv, CancelIndexing PROVE PInv'
    OBVIOUS
  <1>1. /\ thread' = NotifyAll(thread) /\ service' = service /\ asked' = asked
        /\ indexing' = [indexing EXCEPT !.cancelled = TRUE]
    BY DEF CancelIndexing
  <1>2. indexing'.next = indexing.next
    BY <1>1 DEF PInv, IInv, Types, IndexingStates
  <1>3. OnPages' /\ Counts'
    BY <1>1, <1>2, WakeAllPages DEF PInv, Counts
  <1>4. IInv'
    BY CancelIndexingStep DEF PInv
  <1> QED
    BY <1>1, <1>3, <1>4 DEF PInv, NotThere, Resident

LEMMA GiveUpPages ==
  ASSUME PInv, NEW ps, GiveUp(ps)
  PROVE  PInv'
  <1>1. /\ service' = Chilled(Without(service, ps), ps \cap service.indexed)
        /\ thread' = thread /\ asked' = asked /\ indexing' = indexing
    BY DEF GiveUp
  <1>2. Kept(service)
    BY DEF PInv
  <1>3. /\ Kept(service') /\ service'.inFlight = service.inFlight /\ service'.indexed = service.indexed
        /\ Resident(service') \subseteq Resident(service)
    BY <1>1, <1>2, GiveUpKept
  <1>4. NotThere(service')
    BY <1>3 DEF PInv, NotThere
  <1>5. IInv'
    BY GiveUpStep DEF PInv
  <1>6. OnPages' /\ Counts'
    BY <1>1 DEF PInv, OnPages, Counts
  <1> QED
    BY <1>3, <1>4, <1>5, <1>6 DEF PInv, NotThere, Resident

LEMMA StutterPages == PInv /\ UNCHANGED vars => PInv'
  <1> SUFFICES ASSUME PInv, UNCHANGED vars PROVE PInv'
    OBVIOUS
  <1>1. service' = service /\ thread' = thread /\ asked' = asked /\ indexing' = indexing
    BY DEF vars
  <1>2. IInv'
    BY StutterStep DEF PInv
  <1> QED
    BY <1>1, <1>2 DEF PInv, NotThere, Resident, OnPages, Counts

LEMMA InitPages == Init => PInv
  <1> SUFFICES ASSUME Init PROVE PInv
    OBVIOUS
  <1>1. /\ service.scenes = [p \in Pages |-> NoScene] /\ service.inFlight = {} /\ service.indexed = {}
        /\ service.recency = <<>> /\ service.states = [p \in Pages |-> "Unseen"]
    BY DEF Init
  <1>2. IInv /\ ServiceLike(service)
    BY InitIInv DEF IInv, Types
  <1>3. Resident(service) = {}
    BY <1>1 DEF Resident
  <1>4. Shape(service)
    BY <1>1 DEF Shape, States
  <1>5. Ordered(service)
    <2>1. Elements(<<>>) = {} /\ Distinct(<<>>)
      BY DEF Elements, Distinct
    <2> QED
      BY <1>1, <1>3, <2>1 DEF Ordered
  <1>6. Bounded(service)
    BY <1>3, FS_EmptySet, PageServiceAssumption DEF Bounded
  <1>7. \A t \in Threads : thread[t].page = 1 /\ thread[t].pc \in {"idle", "looking"}
    BY DEF Init, Returned, Idle
  <1>8. OnPages
    BY <1>7 DEF OnPages, Busy
  <1>9. Counts
    BY PageServiceAssumption DEF Init, Counts
  <1> QED
    BY <1>1, <1>2, <1>3, <1>4, <1>5, <1>6, <1>8, <1>9 DEF PInv, Kept, NotThere

LEMMA NextPages == PInv /\ [Next]_vars => PInv'
  <1> SUFFICES ASSUME PInv, [Next]_vars PROVE PInv'
    OBVIOUS
  <1>1. ASSUME NEW t \in Threads, Step(t) PROVE PInv'
    BY <1>1, RefuseStalePages, AnswerResidentPages, AnswerIndexedPages, WaitPages, StartImportPages,
       FinishImportPages, IndexNextPagePages, StopIndexingPages DEF Step, Check
  <1>2. ASSUME NEW p \in Pages, MarkCold(p) PROVE PInv'
    BY <1>2, GiveUpPages DEF MarkCold
  <1>3. ASSUME ReportMemoryPressure PROVE PInv'
    BY <1>3, GiveUpPages DEF ReportMemoryPressure
  <1> QED
    BY <1>1, <1>2, <1>3, RequestPages, WakeSpuriouslyPages, SetRevisionPages, CancelIndexingPages,
       StutterPages
    DEF Next

\* What the parts of the invariant say together.
LEMMA KeptIsCurrent == PInv => KeptScenesAreCurrent
  <1> SUFFICES ASSUME PInv PROVE KeptScenesAreCurrent
    OBVIOUS
  <1>1. service \in ServiceStates
    BY DEF PInv, Kept, ServiceLike, Shape, ServiceStates
  <1>2. thread \in [Threads -> Requests]
    <2>1. \A t \in Threads : thread[t] \in ThreadStates /\ thread[t].page \in Pages \cup {1}
      BY DEF PInv, IInv, Types, OnPages
    <2>2. \A t \in Threads : thread[t] \in Requests
      BY <2>1 DEF ThreadStates, Requests
    <2> QED
      BY <2>2 DEF PInv, IInv, Types
  <1>3. indexing \in [next : 1 .. PageCount + 1, failed : BOOLEAN, cancelled : BOOLEAN]
    BY DEF PInv, IInv, Types, IndexingStates, Counts
  <1>4. TypeOK
    BY <1>1, <1>2, <1>3 DEF TypeOK, PInv, Counts
  <1>5. ResidencyIsBounded
    <2>1. /\ service.recency \in Seq(Pages) /\ Distinct(service.recency)
          /\ Elements(service.recency) = Resident(service)
      BY DEF PInv, Kept, Shape, Ordered
    <2>2. Len(service.recency) \in 0 .. Len(service.recency)
      BY <2>1
    <2>3. Cardinality(Elements(service.recency)) = Len(service.recency)
      BY <2>1, <2>2, DistinctCounts
    <2> QED
      BY <2>1, <2>3 DEF ResidencyIsBounded, Elements, PInv, Kept, Ordered, Bounded
  <1> QED
    BY <1>4, <1>5 DEF KeptScenesAreCurrent, PInv, IInv

\* Whatever requests, commits and memory pressure meet, however many threads
\* import: the scenes that are kept and handed out are those of the revision,
\* page_state reports them as they are, and above the limit only visible
\* ones are kept, and the one that came last (evict, set_revision).
THEOREM OnlyCurrentScenesAreKept == Spec => []KeptScenesAreCurrent
  <1>1. Spec => []PInv
    BY InitPages, NextPages, PTL DEF Spec
  <1> QED
    BY <1>1, KeptIsCurrent, PTL

-----------------------------------------------------------------------------
(* The inductive invariant                                                 *)

Ops == {"none", "telling", "paging", "proposing", "approving", "removing",
        "starting", "registering", "collecting", "joining agent", "joining index", "awaiting index", "closing"}

RunStates ==
  [begun : Nat, active : SUBSET Nat, registered : SUBSET Nat, closed : BOOLEAN,
   found : SUBSET Nat, owed : SUBSET Nat]

NativeTypes ==
  /\ actor \in [revision : Revisions, loaded : SUBSET Nat, open : BOOLEAN]
  /\ call \in [Callers -> Calls]
  /\ issued \in Seq(Revisions) /\ Len(issued) <= MaxTokens
  /\ applied \in [Tokens -> SUBSET Revisions]
  /\ agent \in RunStates
  /\ joined \in BOOLEAN

\* What the page service was told, and will be told, has been committed.
ToldIsCommitted ==
  /\ ServiceIsNeverAhead
  /\ \A c \in Callers :
       call[c].op \in {"telling", "removing"} => call[c].revision <= actor.revision

\* A token is for the revision it was issued at, wherever it is.
IssuedFor(token, revision) == token \in DOMAIN issued /\ issued[token] = revision

TokensStand ==
  /\ \A proposal \in proposals : IssuedFor(proposal.token, proposal.base)
  /\ \A c \in Callers :
       call[c].op \in {"proposing", "approving"} => IssuedFor(call[c].subject, call[c].revision)
  /\ ProposalsFitTheirText

AllDone == \A w \in Workers : thread[w].pc = "done"

\* The stages of close come in order, and who skips one waits in it or
\* leaves it to a caller that does.
Waiting == {"collecting", "joining agent", "joining index"}

CloseInOrder ==
  /\ \A c \in Callers :
       /\ call[c].op \in Closers => agent.closed
       /\ call[c].op \in {"awaiting index", "closing"} => joined
  /\ ~actor.open => agent.closed /\ joined
  /\ agent.closed /\ ~joined => \E c \in Callers : call[c].op \in Waiting
  /\ joined /\ ~AllDone => \E c \in Callers : call[c].op = "awaiting index"

NInv == NativeTypes /\ IInv /\ ToldIsCommitted /\ TokensStand /\ CloseInOrder

-----------------------------------------------------------------------------
(* The page service under the native session                               *)

\* Threads of the index that have ended stay so.
EndedStay == \A u \in Threads : thread[u].pc = "done" => thread'[u].pc = "done"

LEMMA ReturnKeepsEnded ==
  ASSUME IInv, NEW t \in Threads, NEW wake \in BOOLEAN, NEW answer \in Answers,
         Return(t, wake, answer), thread[t].pc # "done"
  PROVE  EndedStay
  <1> DEFINE next == Returned(t, answer)
  <1>1. Moves(t, next, wake) /\ next \in ThreadStates /\ Types
    BY ReturnFacts DEF IInv
  <1> HIDE DEF next
  <1>2. \A u \in Threads \ {t} :
          thread'[u].pc = IF wake /\ thread[u].pc = "asleep" THEN "checking" ELSE thread[u].pc
    BY <1>1, MoveFacts
  <1> QED
    BY <1>2 DEF EndedStay

\* One thread changes in place.
LEMMA OneChangeKeepsEnded ==
  ASSUME IInv, NEW t \in Threads, NEW th, thread' = [thread EXCEPT ![t] = th], thread[t].pc # "done"
  PROVE  EndedStay
  BY DEF EndedStay, IInv, Types

LEMMA WakingKeepsEnded ==
  ASSUME IInv, thread' = NotifyAll(thread)
  PROVE  EndedStay
  BY DEF EndedStay, NotifyAll, IInv, Types

\* A thread of the page service leaves the revision alone.
LEMMA StepFacts ==
  ASSUME IInv, NEW t \in Threads, Step(t)
  PROVE  service'.revision = service.revision /\ EndedStay
  <1> DEFINE r == thread[t]
             p == r.page
             s == Unregistered(service, r)
  <1>1. /\ r \in ThreadStates /\ ServiceLike(service) /\ r.registered \in BOOLEAN
        /\ r.priority \in Priorities /\ ScenesFit(service)
    BY ThreadFacts
  <1>2. ServiceLike(s) /\ s.revision = service.revision
    BY ThreadFacts, UnregisteredFacts
  <1>3. /\ "stale" \in Answers /\ "current" \in Answers /\ "failed" \in Answers
        /\ "outdated" \in Answers
    BY DEF Answers
  <1>4. \A revision : Scene(t, revision) \in Answers
    BY <1>3 DEF Scene
  <1> HIDE DEF s
  <1>5. CASE RefuseStale(t)
    <2>1. service' = s /\ Return(t, r.registered, "stale") /\ r.pc # "done"
      BY <1>5 DEF RefuseStale, s, Checking
    <2> QED
      BY <1>1, <1>2, <1>3, <2>1, ReturnKeepsEnded
  <1>6. CASE AnswerResident(t)
    <2> DEFINE u == Touch(s, p)
               state == Promoted(service.scenes[p].state, StateFor(r.priority))
    <2>1. /\ service' = [u EXCEPT !.scenes[p].state = state, !.states[p] = state]
          /\ Return(t, r.registered, Scene(t, service.scenes[p].revision)) /\ r.pc # "done"
      BY <1>6 DEF AnswerResident, s, Checking, Current
    <2>2. ServiceLike(u) /\ u.revision = service.revision
      BY <1>2, TouchKeeps DEF Keeps
    <2> HIDE DEF u, state
    <2>3. service'.revision = u.revision
      BY <2>1, <2>2 DEF ServiceLike
    <2>4. EndedStay
      BY <1>1, <1>4, <2>1, ReturnKeepsEnded
    <2> QED
      BY <2>2, <2>3, <2>4
  <1>7. CASE AnswerIndexed(t)
    <2>1. /\ service' = Publish(s, p, r.priority)
          /\ Return(t, r.registered, Scene(t, service.revision)) /\ r.pc # "done"
      BY <1>7 DEF AnswerIndexed, s, Checking, Current
    <2>2. service'.revision = s.revision
      BY <1>1, <1>2, <2>1, PublishKeeps DEF Keeps
    <2>3. EndedStay
      BY <1>1, <1>4, <2>1, ReturnKeepsEnded
    <2> QED
      BY <1>2, <2>2, <2>3
  <1>8. CASE Wait(t)
    <2>1. service'.revision = service.revision
      <3>1. \/ service' = service
            \/ service' = [service EXCEPT !.waiters[r.priority] = @ + 1]
        BY <1>8 DEF Wait
      <3> QED
        BY <1>1, <3>1 DEF ServiceLike
    <2>2. EndedStay
      <3> DEFINE base == IF r.registered THEN thread ELSE NotifyAll(thread)
      <3>1. /\ thread' = [base EXCEPT ![t].pc = "asleep", ![t].registered = TRUE]
            /\ r.pc # "done"
        BY <1>8 DEF Wait, Missing, Current, Checking
      <3>2. \A u \in Threads : thread[u].pc = "done" => base[u] = thread[u]
        BY DEF NotifyAll
      <3>3. DOMAIN base = Threads
        BY DEF NotifyAll, IInv, Types
      <3> HIDE DEF base
      <3>4. \A u \in Threads \ {t} : thread'[u] = base[u]
        BY <3>1, <3>3
      <3> QED
        BY <3>1, <3>2, <3>4 DEF EndedStay
    <2> QED
      BY <2>1, <2>2
  <1>9. CASE StartImport(t)
    <2>1. /\ service' = [s EXCEPT !.inFlight = @ \cup {p}, !.active = @ + 1]
          /\ thread' = [thread EXCEPT ![t].pc = "importing", ![t].registered = FALSE]
          /\ r.pc # "done"
      BY <1>9 DEF StartImport, s, Missing, Current, Checking
    <2>2. service'.revision = s.revision
      BY <1>2, <2>1 DEF ServiceLike
    <2>3. \A u \in Threads \ {t} : thread'[u] = thread[u]
      BY <2>1 DEF IInv, Types
    <2> QED
      BY <1>2, <2>1, <2>2, <2>3 DEF EndedStay
  <1>10. CASE FinishImport(t)
    <2> DEFINE i == Imported(t)
               more == [i EXCEPT !.indexed = @ \cup {p}]
    <2>1. PICK answer \in Answers :
            /\ Return(t, TRUE, answer) /\ r.pc # "done"
            /\ service' = i \/ service' = Publish(more, p, r.priority)
      BY <1>3, <1>4, <1>10 DEF FinishImport
    <2>2. ServiceLike(i) /\ i.revision = service.revision
      <3> DEFINE inFlight == service.inFlight \ {p}
                 active == service.active - 1
      <3>1. r.pc = "importing"
        BY <1>10 DEF FinishImport
      <3>2. service.active - 1 \in Nat
        <4>1. Importing # {} /\ Cardinality(Importing) = service.active
          BY <3>1 DEF Importing, IInv, ImportsAreShared
        <4> QED
          BY <4>1, FiniteParts
      <3>3. inFlight \in SUBSET Nat /\ active \in Nat
        BY <1>1, <3>2 DEF ServiceLike
      <3>4. i = [[service EXCEPT !.inFlight = inFlight] EXCEPT !.active = active]
        BY <1>1 DEF Imported, ServiceLike
      <3> HIDE DEF i, inFlight, active
      <3> QED
        BY <1>1, <3>3, <3>4 DEF ServiceLike
    <2> HIDE DEF i
    <2>3. ServiceLike(more) /\ more.revision = service.revision
      BY <1>1, <2>2 DEF ServiceLike, ThreadStates
    <2> HIDE DEF more
    <2>4. service'.revision = service.revision
      <3>1. Keeps(more, Publish(more, p, r.priority), p)
        BY <1>1, <2>3, PublishKeeps
      <3> QED
        BY <2>1, <2>2, <2>3, <3>1 DEF Keeps
    <2>5. EndedStay
      <3>1. PICK wake \in BOOLEAN : wake
        OBVIOUS
      <3>2. Return(t, wake, answer)
        BY <2>1, <3>1 DEF Return
      <3> QED
        BY <2>1, <3>2, ReturnKeepsEnded
    <2> QED
      BY <2>4, <2>5
  <1>11. CASE IndexNextPage(t)
    <2>1. /\ service' = service /\ Begin(t, indexing.next, 0, service.revision)
          /\ r.pc = "looking"
      BY <1>11 DEF IndexNextPage
    <2>2. \A u \in Threads \ {t} : thread'[u] = thread[u]
      BY <2>1 DEF Begin, IInv, Types
    <2> QED
      BY <2>1, <2>2 DEF EndedStay
  <1>12. CASE StopIndexing(t)
    <2>1. /\ service' = service /\ thread' = [thread EXCEPT ![t].pc = "done"]
          /\ r.pc = "looking"
      BY <1>12 DEF StopIndexing
    <2>2. \A u \in Threads \ {t} : thread'[u] = thread[u]
      BY <2>1 DEF IInv, Types
    <2> QED
      BY <2>1, <2>2 DEF EndedStay
  <1> QED
    BY <1>5, <1>6, <1>7, <1>8, <1>9, <1>10, <1>11, <1>12 DEF Step, Check
\* The answer of a request is taken; its thread stays where it is.
LEMMA ConsumedStep ==
  ASSUME IInv, NEW c \in Callers, Consumed(c)
  PROVE  IInv' /\ service' = service /\ EndedStay
  <1> DEFINE next == [thread[c] EXCEPT !.answer = "none"]
  <1>1. c \in Threads
    BY DEF Threads
  <1>2. thread[c] \in ThreadStates /\ thread \in [Threads -> ThreadStates]
    BY <1>1, ThreadFacts DEF IInv, Types
  <1>3. /\ next \in ThreadStates /\ next.pc = thread[c].pc /\ next.page = thread[c].page
        /\ next.expected = thread[c].expected /\ next.priority = thread[c].priority
        /\ next.answer = "none"
    BY <1>2 DEF ThreadStates, Answers
  <1>4. next.registered <=> thread[c].registered
    BY <1>2 DEF ThreadStates
  <1>5. thread' = [thread EXCEPT ![c] = next] /\ UNCHANGED <<service, indexing>>
    BY <1>2 DEF Consumed
  <1> HIDE DEF next
  <1>6. thread' \in [Threads -> ThreadStates]
    BY <1>2, <1>3, <1>5
  <1>7. \A u \in Threads :
          /\ thread'[u].pc = thread[u].pc /\ thread'[u].page = thread[u].page
          /\ thread'[u].expected = thread[u].expected /\ thread'[u].priority = thread[u].priority
          /\ thread'[u].answer \in {thread[u].answer, "none"}
    BY <1>2, <1>3, <1>5
  <1>8. \A u \in Threads : thread'[u].registered <=> thread[u].registered
    BY <1>2, <1>4, <1>5
  <1>9. Types' /\ WaitersAreLive' /\ ScenesAreCurrent'
    BY <1>5, <1>6, <1>7, <1>8 DEF IInv, Types, ServiceLike, WaitersAreLive, ScenesAreCurrent, Resident
  <1>10. Importing' = Importing
    BY <1>7 DEF Importing
  <1>11. ImportsAreShared'
    <2>1. \A u \in Importing : thread'[u].page = thread[u].page
      BY <1>7 DEF Importing
    <2>2. {thread'[u].page : u \in Importing'} = {thread[u].page : u \in Importing}
      BY <1>10, <2>1
    <2> QED
      BY <1>5, <1>10, <2>1, <2>2 DEF IInv, ImportsAreShared
  <1>12. WaitersAreCounted'
    <2>1. \A i \in Priorities : Registered(i)' = Registered(i)
      BY <1>7, <1>8 DEF Registered
    <2>2. \A i \in Priorities : service.waiters[i] = Cardinality(Registered(i))
      BY DEF IInv, WaitersAreCounted, Registered
    <2>3. \A i \in Priorities : service'.waiters[i] = Cardinality(Registered(i)')
      BY <1>5, <2>1, <2>2
    <2> QED
      BY <2>3 DEF WaitersAreCounted, Registered
  <1>13. SleepersWillBeWoken'
    BY <1>5, <1>7, <1>8, <1>10 DEF IInv, SleepersWillBeWoken, Checking, Resident
  <1> QED
    BY <1>5, <1>7, <1>9, <1>11, <1>12, <1>13 DEF IInv, EndedStay

\* What the other operations do to the page service.
LEMMA RevisionSet ==
  ASSUME IInv, NEW r \in Revisions, SetRevision(r)
  PROVE  IInv' /\ service'.revision = r /\ EndedStay
  <1>1. IInv'
    BY SetRevisionStep
  <1>2. service'.revision = r
    BY DEF SetRevision, IInv, Types, ServiceLike
  <1>3. thread' = NotifyAll(thread)
    BY DEF SetRevision
  <1> QED
    BY <1>1, <1>2, <1>3, WakingKeepsEnded

LEMMA PagesAlone ==
  ASSUME IInv, UNCHANGED pages
  PROVE  IInv' /\ service' = service /\ EndedStay
  <1>1. UNCHANGED vars
    BY DEF vars, pages
  <1> QED
    BY <1>1, StutterStep DEF vars, EndedStay

LEMMA RequestFacts ==
  ASSUME IInv, NEW c \in Callers, NEW p \in Pages, NEW priority \in Asked, NEW expected \in Revisions,
         Request(c, p, priority, expected)
  PROVE  IInv' /\ service' = service /\ EndedStay
  <1>1. IInv'
    BY RequestStep
  <1>2. service' = service /\ thread[c].pc = "idle" /\ Begin(c, p, priority, expected)
    BY DEF Request
  <1>3. \A u \in Threads \ {c} : thread'[u] = thread[u]
    BY <1>2 DEF Begin, IInv, Types
  <1> QED
    BY <1>1, <1>2, <1>3 DEF EndedStay

LEMMA CancelFacts ==
  ASSUME IInv, CancelIndexing
  PROVE  IInv' /\ service' = service /\ EndedStay
  <1>1. thread' = NotifyAll(thread) /\ service' = service
    BY DEF CancelIndexing
  <1> QED
    BY <1>1, CancelIndexingStep, WakingKeepsEnded

LEMMA PageStepFacts ==
  ASSUME IInv, NEW t \in Threads, Step(t)
  PROVE  IInv' /\ service'.revision = service.revision /\ EndedStay
  <1>1. IInv'
    BY NextIInv DEF Next
  <1> QED
    BY <1>1, StepFacts

-----------------------------------------------------------------------------
(* Calls                                                                   *)

LEMMA EnterFacts ==
  ASSUME NativeTypes, NEW c \in Callers, NEW op \in Ops, NEW r \in Revisions, NEW n \in Nat,
         Enter(c, op, r, n)
  PROVE  /\ call' \in [Callers -> Calls]
         /\ call'[c].op = op /\ call'[c].revision = r /\ call'[c].subject = n
         /\ \A d \in Callers \ {c} : call'[d] = call[d]
  BY DEF NativeTypes, Enter, Calls, Ops

LEMMA FinishIsEnter ==
  ASSUME NEW c, Finish(c)
  PROVE  Enter(c, "none", 0, 0)
  BY DEF Finish, Enter

LEMMA ZeroIsARevision == 0 \in Revisions /\ 0 \in Nat /\ Revisions \subseteq Nat
  BY PageServiceAssumption DEF Revisions

\* A revision more than that of the actor, where a command is taken.
LEMMA NextRevision ==
  ASSUME NativeTypes, NEW base, Accepts(base)
  PROVE  /\ base = actor.revision /\ base \in Revisions /\ base + 1 \in Revisions
         /\ actor.open
  BY PageServiceAssumption DEF NativeTypes, Accepts, Revisions

LEMMA AdvanceFacts ==
  ASSUME NativeTypes, Accepts(actor.revision), Advance
  PROVE  /\ actor' \in [revision : Revisions, loaded : SUBSET Nat, open : BOOLEAN]
         /\ actor'.revision = actor.revision + 1 /\ actor'.open /\ actor.open
  <1>1. actor.revision + 1 \in Revisions /\ actor.open
    BY NextRevision
  <1> DEFINE r == actor.revision + 1
  <1>2. actor' = [actor EXCEPT !.revision = r]
    BY DEF Advance
  <1> HIDE DEF r
  <1>3. r \in Revisions
    BY <1>1 DEF r
  <1>4. actor' \in [revision : Revisions, loaded : SUBSET Nat, open : BOOLEAN]
        /\ actor'.revision = r /\ actor'.open
    BY <1>1, <1>2, <1>3 DEF NativeTypes
  <1> QED
    BY <1>1, <1>4 DEF r

-----------------------------------------------------------------------------
(* What a step that is not about it leaves of each part                    *)

Offering == {"proposing", "approving"}

LEMMA TokensKept ==
  ASSUME TokensStand, issued' = issued, applied' = applied, proposals' \subseteq proposals,
         \A c \in Callers :
           call'[c].op \in Offering => IssuedFor(call'[c].subject, call'[c].revision)
  PROVE  TokensStand'
  BY DEF TokensStand, IssuedFor, ProposalsFitTheirText, Offering

\* One call enters another operation.
LEMMA TokensOfOne ==
  ASSUME NInv, issued' = issued, applied' = applied, proposals' \subseteq proposals,
         NEW c \in Callers, call'[c].op \notin Offering, \A d \in Callers \ {c} : call'[d] = call[d]
  PROVE  TokensStand'
  <1>1. TokensStand /\ \A d \in Callers : call'[d].op \in Offering =>
                         IssuedFor(call'[d].subject, call'[d].revision)
    BY DEF NInv, TokensStand, Offering
  <1> QED
    BY <1>1, TokensKept

LEMMA DoneKept ==
  ASSUME EndedStay
  PROVE  AllDone => AllDone'
  BY DEF EndedStay, AllDone, Threads

LEMMA CloseKept ==
  ASSUME CloseInOrder, EndedStay, agent'.closed = agent.closed, joined' = joined, actor'.open <=> actor.open,
         \A c \in Callers : call'[c].op = call[c].op
                             \/ (call'[c].op \notin Closers /\ call[c].op \notin Closers)
  PROVE  CloseInOrder'
  <1>1. AllDone => AllDone'
    BY DoneKept
  <1>2. \A c \in Callers :
          /\ call'[c].op \in Closers => agent'.closed
          /\ call'[c].op \in {"awaiting index", "closing"} => joined'
    BY DEF CloseInOrder, Closers
  <1>3. ~actor'.open => agent'.closed /\ joined'
    BY DEF CloseInOrder
  <1>4. agent'.closed /\ ~joined' => \E c \in Callers : call'[c].op \in Waiting
    BY DEF CloseInOrder, Closers, Waiting
  <1>5. joined' /\ ~AllDone' => \E c \in Callers : call'[c].op = "awaiting index"
    BY <1>1 DEF CloseInOrder, Closers
  <1> QED
    BY <1>2, <1>3, <1>4, <1>5 DEF CloseInOrder, Closers

\* A call that has to do with none of close enters something else of that kind.
LEMMA CloseOfOne ==
  ASSUME NInv, EndedStay, agent'.closed = agent.closed, joined' = joined,
         actor'.open <=> actor.open, NEW c \in Callers, call[c].op \notin Closers, call'[c].op \notin Closers,
         \A d \in Callers \ {c} : call'[d] = call[d]
  PROVE  CloseInOrder'
  <1>1. \A d \in Callers : call'[d].op = call[d].op
                            \/ (call'[d].op \notin Closers /\ call[d].op \notin Closers)
    OBVIOUS
  <1> QED
    BY <1>1, CloseKept DEF NInv

\* The calls that are told, and the page service, are not ahead.
LEMMA ToldOfOne ==
  ASSUME NInv, actor'.revision \in Revisions, actor.revision <= actor'.revision,
         service'.revision \in Revisions, service'.revision <= actor'.revision,
         NEW c \in Callers, call'[c].revision \in Revisions,
         call'[c].op \in {"telling", "removing"} => call'[c].revision <= actor'.revision,
         \A d \in Callers \ {c} : call'[d] = call[d]
  PROVE  ToldIsCommitted'
  <1>1. \A d \in Callers :
          /\ call[d].revision \in Nat
          /\ call[d].op \in {"telling", "removing"} => call[d].revision <= actor.revision
    BY ZeroIsARevision DEF NInv, ToldIsCommitted, NativeTypes, Calls
  <1>2. actor.revision \in Nat /\ actor'.revision \in Nat
    BY ZeroIsARevision DEF NInv, NativeTypes
  <1>3. \A d \in Callers :
          call'[d].op \in {"telling", "removing"} => call'[d].revision <= actor'.revision
    BY <1>1, <1>2
  <1> QED
    BY <1>3 DEF ToldIsCommitted, ServiceIsNeverAhead

\* What is known before a step.
LEMMA Known ==
  ASSUME NInv
  PROVE  /\ actor.revision \in Revisions
         /\ service.revision \in Revisions /\ service.revision <= actor.revision
         /\ actor.revision <= actor.revision /\ actor.revision <= actor.revision + 1
         /\ service.revision <= actor.revision + 1 /\ 0 <= actor.revision
         /\ \A c \in Callers :
              /\ call[c].revision \in Revisions
              /\ call[c].op \in {"telling", "removing"} => call[c].revision <= actor.revision
              /\ call[c].subject \in Nat /\ call[c].op \in Ops
  <1>1. actor.revision \in Revisions
    BY DEF NInv, NativeTypes
  <1>2. service.revision \in Revisions /\ service.revision <= actor.revision
    BY DEF NInv, IInv, Types, ServiceLike, ToldIsCommitted, ServiceIsNeverAhead
  <1>3. \A c \in Callers :
          /\ call[c].revision \in Revisions
          /\ call[c].op \in {"telling", "removing"} => call[c].revision <= actor.revision
          /\ call[c].subject \in Nat /\ call[c].op \in Ops
    BY DEF NInv, NativeTypes, Calls, Ops, ToldIsCommitted
  <1>4. \A m, n \in Revisions : 0 <= m /\ m <= m /\ m <= m + 1 /\ (m <= n => m <= n + 1)
    BY ZeroIsARevision
  <1>5. /\ actor.revision <= actor.revision /\ actor.revision <= actor.revision + 1
        /\ service.revision <= actor.revision + 1 /\ 0 <= actor.revision
    BY <1>1, <1>2, <1>4
  <1> QED
    BY <1>1, <1>2, <1>3, <1>5

-----------------------------------------------------------------------------
(* The steps                                                               *)

LEMMA SubmitStep ==
  ASSUME NInv, NEW c \in Callers, NEW base \in Revisions, Submit(c, base)
  PROVE  NInv'
  <1>1. /\ call[c].op = "none" /\ Accepts(base) /\ Advance /\ Enter(c, "telling", base + 1, 0)
        /\ UNCHANGED <<pages, proposals, issued, applied, agent, joined>>
    BY DEF Submit, Free, In, fallback
  <1>2. NativeTypes /\ IInv
    BY DEF NInv
  <1>3. base = actor.revision /\ base + 1 \in Revisions /\ Accepts(actor.revision)
    BY <1>1, <1>2, NextRevision
  <1>4. /\ actor' \in [revision : Revisions, loaded : SUBSET Nat, open : BOOLEAN]
        /\ actor'.revision = actor.revision + 1 /\ actor'.open /\ actor.open
    BY <1>1, <1>2, <1>3, AdvanceFacts
  <1>5. /\ call' \in [Callers -> Calls] /\ call'[c].op = "telling" /\ call'[c].revision = base + 1
        /\ \A d \in Callers \ {c} : call'[d] = call[d]
    <2>1. "telling" \in Ops /\ 0 \in Nat
      BY DEF Ops
    <2> QED
      BY <1>1, <1>2, <1>3, <2>1, EnterFacts
  <1>6. IInv' /\ service' = service /\ EndedStay
    BY <1>1, <1>2, PagesAlone
  <1>7. NativeTypes'
    BY <1>1, <1>2, <1>4, <1>5 DEF NativeTypes
  <1>8. ToldIsCommitted'
    <2>1. /\ actor'.revision \in Revisions /\ actor.revision <= actor'.revision
          /\ service'.revision \in Revisions /\ service'.revision <= actor'.revision
          /\ call'[c].revision \in Revisions /\ call'[c].revision <= actor'.revision
      BY <1>3, <1>4, <1>5, <1>6, Known, ZeroIsARevision
    <2> QED
      BY <1>5, <2>1, ToldOfOne
  <1>9. TokensStand'
    BY <1>1, <1>5, TokensOfOne DEF Offering
  <1>10. CloseInOrder'
    <2>1. actor'.open <=> actor.open
      BY <1>4
    <2> QED
      BY <1>1, <1>5, <1>6, <2>1, CloseOfOne DEF Closers
  <1> QED
    BY <1>6, <1>7, <1>8, <1>9, <1>10 DEF NInv

LEMMA TellPagesStep ==
  ASSUME NInv, NEW c \in Callers, TellPages(c)
  PROVE  NInv'
  <1>1. /\ call[c].op = "telling" /\ SetRevision(call[c].revision) /\ proposals' \subseteq proposals
        /\ Enter(c, "none", 0, 0)
        /\ UNCHANGED <<actor, issued, applied, agent, joined>>
    BY FinishIsEnter DEF TellPages, In
  <1>2. NativeTypes /\ IInv /\ call[c].revision \in Revisions
    BY Known DEF NInv
  <1>3. /\ call' \in [Callers -> Calls] /\ call'[c].op = "none" /\ call'[c].revision = 0
        /\ \A d \in Callers \ {c} : call'[d] = call[d]
    BY <1>1, <1>2, EnterFacts, ZeroIsARevision DEF Ops
  <1>4. IInv' /\ service'.revision = call[c].revision /\ EndedStay
    BY <1>1, <1>2, RevisionSet
  <1>5. NativeTypes'
    BY <1>1, <1>2, <1>3 DEF NativeTypes
  <1>6. ToldIsCommitted'
    <2>1. /\ actor'.revision \in Revisions /\ actor.revision <= actor'.revision
          /\ service'.revision \in Revisions /\ service'.revision <= actor'.revision
          /\ call'[c].revision \in Revisions /\ call'[c].revision <= actor'.revision
      BY <1>1, <1>3, <1>4, Known, ZeroIsARevision
    <2> QED
      BY <1>3, <2>1, ToldOfOne
  <1>7. TokensStand'
    BY <1>1, <1>3, TokensOfOne DEF Offering
  <1>8. CloseInOrder'
    BY <1>1, <1>3, <1>4, CloseOfOne DEF Closers
  <1> QED
    BY <1>4, <1>5, <1>6, <1>7, <1>8 DEF NInv

\* A commit that tells nobody.
LEMMA SilentStep ==
  ASSUME NInv, Checkpoint \/ AgentCommits
  PROVE  NInv'
  <1>1. /\ Accepts(actor.revision) /\ Advance
        /\ UNCHANGED <<pages, call, proposals, issued, applied, agent, joined>>
    BY DEF Checkpoint, AgentCommits, fallback
  <1>2. NativeTypes /\ IInv
    BY DEF NInv
  <1>3. /\ actor' \in [revision : Revisions, loaded : SUBSET Nat, open : BOOLEAN]
        /\ actor'.revision = actor.revision + 1 /\ actor'.open /\ actor.open
    BY <1>1, <1>2, AdvanceFacts
  <1>4. IInv' /\ service' = service /\ EndedStay
    BY <1>1, <1>2, PagesAlone
  <1>5. NativeTypes'
    BY <1>1, <1>2, <1>3 DEF NativeTypes
  <1>6. ToldIsCommitted'
    <2>1. \A d \in Callers : call[d].op \in {"telling", "removing"} =>
                             call[d].revision <= actor.revision + 1
      <3>1. \A m, n \in Revisions : m <= n => m <= n + 1
        BY ZeroIsARevision
      <3> QED
        BY <3>1, Known
    <2> QED
      BY <1>1, <1>3, <1>4, <2>1, Known DEF ToldIsCommitted, ServiceIsNeverAhead
  <1>7. TokensStand'
    BY <1>1 DEF NInv, TokensStand, IssuedFor, ProposalsFitTheirText
  <1>8. CloseInOrder'
    <2>1. actor'.open <=> actor.open
      BY <1>3
    <2>2. \A d \in Callers : call'[d].op = call[d].op
      BY <1>1
    <2> QED
      BY <1>1, <1>4, <2>1, <2>2, CloseKept DEF NInv
  <1> QED
    BY <1>4, <1>5, <1>6, <1>7, <1>8 DEF NInv

LEMMA PageSceneStep ==
  ASSUME NInv, NEW c \in Callers, NEW p \in Pages, NEW priority \in Asked, NEW expected \in Revisions,
         PageScene(c, p, priority, expected)
  PROVE  NInv'
  <1>1. /\ call[c].op = "none" /\ expected = actor.revision /\ Request(c, p, priority, expected)
        /\ Enter(c, "paging", expected, p)
        /\ UNCHANGED <<actor, proposals, issued, applied, agent, joined>>
    BY DEF PageScene, Free, In, fallback
  <1>2. NativeTypes /\ IInv /\ p \in Nat
    BY DEF NInv, Pages
  <1>3. /\ call' \in [Callers -> Calls] /\ call'[c].op = "paging" /\ call'[c].revision = expected
        /\ \A d \in Callers \ {c} : call'[d] = call[d]
    <2>1. "paging" \in Ops
      BY DEF Ops
    <2> QED
      BY <1>1, <1>2, <2>1, EnterFacts
  <1>4. IInv' /\ service' = service /\ EndedStay
    BY <1>1, <1>2, RequestFacts
  <1>5. NativeTypes'
    BY <1>1, <1>2, <1>3 DEF NativeTypes
  <1>6. ToldIsCommitted'
    <2>1. /\ actor'.revision \in Revisions /\ actor.revision <= actor'.revision
          /\ service'.revision \in Revisions /\ service'.revision <= actor'.revision
          /\ call'[c].revision \in Revisions /\ call'[c].revision <= actor'.revision
      BY <1>1, <1>3, <1>4, Known
    <2> QED
      BY <1>3, <2>1, ToldOfOne
  <1>7. TokensStand'
    BY <1>1, <1>3, TokensOfOne DEF Offering
  <1>8. CloseInOrder'
    BY <1>1, <1>3, <1>4, CloseOfOne DEF Closers
  <1> QED
    BY <1>4, <1>5, <1>6, <1>7, <1>8 DEF NInv

LEMMA HydrateStep ==
  ASSUME NInv, NEW c \in Callers, Hydrate(c)
  PROVE  NInv'
  <1>1. /\ call[c].op = "paging" /\ Enter(c, "none", 0, 0) /\ Consumed(c)
        /\ UNCHANGED <<proposals, issued, applied, agent, joined>>
        /\ actor' = actor \/ actor' = [actor EXCEPT !.loaded = @ \cup {call[c].subject}]
    BY FinishIsEnter DEF Hydrate, In, fallback
  <1>2. NativeTypes /\ IInv
    BY DEF NInv
  <1>3. /\ call' \in [Callers -> Calls] /\ call'[c].op = "none" /\ call'[c].revision = 0
        /\ \A d \in Callers \ {c} : call'[d] = call[d]
    BY <1>1, <1>2, EnterFacts, ZeroIsARevision DEF Ops
  <1>4. IInv' /\ service' = service /\ EndedStay
    BY <1>1, <1>2, ConsumedStep
  <1>5. /\ actor' \in [revision : Revisions, loaded : SUBSET Nat, open : BOOLEAN]
        /\ actor'.revision = actor.revision /\ (actor'.open <=> actor.open)
    <2> DEFINE loaded == actor.loaded \cup {call[c].subject}
    <2>1. actor' = actor \/ actor' = [actor EXCEPT !.loaded = loaded]
      BY <1>1
    <2>2. loaded \in SUBSET Nat
      BY <1>2, Known DEF NativeTypes
    <2> HIDE DEF loaded
    <2> QED
      BY <1>2, <2>1, <2>2 DEF NativeTypes
  <1>6. NativeTypes'
    BY <1>1, <1>2, <1>3, <1>5 DEF NativeTypes
  <1>7. ToldIsCommitted'
    <2>1. /\ actor'.revision \in Revisions /\ actor.revision <= actor'.revision
          /\ service'.revision \in Revisions /\ service'.revision <= actor'.revision
          /\ call'[c].revision \in Revisions /\ call'[c].revision <= actor'.revision
      BY <1>3, <1>4, <1>5, Known, ZeroIsARevision
    <2> QED
      BY <1>3, <2>1, ToldOfOne
  <1>8. TokensStand'
    BY <1>1, <1>3, TokensOfOne DEF Offering
  <1>9. CloseInOrder'
    BY <1>1, <1>3, <1>4, <1>5, CloseOfOne DEF Closers
  <1> QED
    BY <1>4, <1>6, <1>7, <1>8, <1>9 DEF NInv

\* A step of a call in which neither the actor nor the page service has part.
LEMMA CallOnly ==
  ASSUME NInv, UNCHANGED <<pages, actor>>, NEW c \in Callers, NEW op \in Ops, NEW r \in Revisions,
         NEW n \in Nat, op \in {"telling", "removing"} => r <= actor.revision, Enter(c, op, r, n)
  PROVE  /\ IInv' /\ service' = service /\ EndedStay /\ actor' = actor
         /\ call' \in [Callers -> Calls]
         /\ call'[c].op = op /\ call'[c].revision = r /\ call'[c].subject = n
         /\ \A d \in Callers \ {c} : call'[d] = call[d]
         /\ ToldIsCommitted'
  <1>1. IInv' /\ service' = service /\ EndedStay /\ actor' = actor
    BY PagesAlone DEF NInv
  <1>2. /\ call' \in [Callers -> Calls]
        /\ call'[c].op = op /\ call'[c].revision = r /\ call'[c].subject = n
        /\ \A d \in Callers \ {c} : call'[d] = call[d]
    BY EnterFacts DEF NInv
  <1>3. /\ actor'.revision \in Revisions /\ actor.revision <= actor'.revision
        /\ service'.revision \in Revisions /\ service'.revision <= actor'.revision
        /\ call'[c].revision \in Revisions
        /\ call'[c].op \in {"telling", "removing"} => call'[c].revision <= actor'.revision
    BY <1>1, <1>2, Known
  <1>4. ToldIsCommitted'
    BY <1>2, <1>3, ToldOfOne
  <1> QED
    BY <1>1, <1>2, <1>4

LEMMA ProposeFontFallbackStep ==
  ASSUME NInv, NEW c \in Callers, NEW expected \in Revisions, ProposeFontFallback(c, expected)
  PROVE  NInv'
  <1>0. PICK k : k = Len(issued) + 1
    OBVIOUS
  <1>1. /\ call[c].op = "none" /\ expected = actor.revision /\ Len(issued) < MaxTokens
        /\ issued' = Append(issued, expected) /\ Enter(c, "proposing", expected, k)
        /\ UNCHANGED <<pages, actor, proposals, applied, agent, joined>>
    BY <1>0 DEF ProposeFontFallback, Free, In
  <1>2. /\ NativeTypes /\ issued \in Seq(Revisions) /\ Len(issued) \in Nat /\ k \in Nat
        /\ MaxTokens \in Nat
    BY <1>0, NativeAssumption DEF NInv, NativeTypes
  <1>3. /\ issued' \in Seq(Revisions) /\ Len(issued') = k /\ issued'[k] = expected
        /\ \A i \in DOMAIN issued : i \in DOMAIN issued' /\ issued'[i] = issued[i]
        /\ k \in DOMAIN issued' /\ k \notin DOMAIN issued
    BY <1>0, <1>1, <1>2
  <1>4. k <= MaxTokens
    BY <1>0, <1>1, <1>2
  <1>5. /\ IInv' /\ service' = service /\ EndedStay /\ actor' = actor
        /\ call' \in [Callers -> Calls]
        /\ call'[c].op = "proposing" /\ call'[c].revision = expected /\ call'[c].subject = k
        /\ \A d \in Callers \ {c} : call'[d] = call[d]
        /\ ToldIsCommitted'
    <2>1. "proposing" \in Ops /\ "proposing" \notin {"telling", "removing"}
      BY DEF Ops
    <2> QED
      BY <1>1, <1>2, <2>1, CallOnly
  <1>6. NativeTypes'
    BY <1>1, <1>2, <1>3, <1>4, <1>5 DEF NativeTypes
  <1>7. TokensStand'
    <2>1. \A token, r : IssuedFor(token, r) => IssuedFor(token, r)'
      BY <1>3 DEF IssuedFor
    <2>2. IssuedFor(k, expected)'
      BY <1>3 DEF IssuedFor
    <2>3. \A proposal \in proposals' : IssuedFor(proposal.token, proposal.base)'
      BY <1>1, <2>1 DEF NInv, TokensStand
    <2>4. \A d \in Callers :
            (call[d].op \in Offering => IssuedFor(call[d].subject, call[d].revision))'
      BY <1>5, <2>1, <2>2 DEF NInv, TokensStand, Offering
    <2>5. ProposalsFitTheirText'
      <3>1. ASSUME NEW q \in Tokens
            PROVE  applied'[q] \subseteq {issued'[i] : i \in {q} \cap DOMAIN issued'}
        <4>1. applied[q] \subseteq {issued[i] : i \in {q} \cap DOMAIN issued}
          BY DEF NInv, TokensStand, ProposalsFitTheirText
        <4>2. {issued[i] : i \in {q} \cap DOMAIN issued}
                \subseteq {issued'[i] : i \in {q} \cap DOMAIN issued'}
          BY <1>3
        <4> QED
          BY <1>1, <4>1, <4>2
      <3> QED
        BY <3>1 DEF ProposalsFitTheirText
    <2> QED
      BY <2>3, <2>4, <2>5 DEF TokensStand, Offering, IssuedFor
  <1>8. CloseInOrder'
    BY <1>1, <1>5, CloseOfOne DEF Closers
  <1> QED
    BY <1>5, <1>6, <1>7, <1>8 DEF NInv

LEMMA FileProposalStep ==
  ASSUME NInv, NEW c \in Callers, FileProposal(c)
  PROVE  NInv'
  <1> DEFINE filed == [token |-> call[c].subject, base |-> call[c].revision]
  <1>1. /\ call[c].op = "proposing" /\ Enter(c, "none", 0, 0) /\ proposals' = {filed}
        /\ UNCHANGED <<pages, actor, issued, applied, agent, joined>>
    BY FinishIsEnter DEF FileProposal, In
  <1>2. /\ IInv' /\ service' = service /\ EndedStay /\ actor' = actor
        /\ call' \in [Callers -> Calls] /\ call'[c].op = "none"
        /\ \A d \in Callers \ {c} : call'[d] = call[d]
        /\ ToldIsCommitted'
    BY <1>1, CallOnly, Known, ZeroIsARevision DEF Ops
  <1>3. NativeTypes'
    BY <1>1, <1>2 DEF NInv, NativeTypes
  <1>4. TokensStand'
    <2>1. IssuedFor(filed.token, filed.base)
      BY <1>1 DEF NInv, TokensStand
    <2> HIDE DEF filed
    <2>2. \A proposal \in proposals' : IssuedFor(proposal.token, proposal.base)'
      BY <1>1, <2>1 DEF IssuedFor
    <2>3. \A d \in Callers :
            (call[d].op \in Offering => IssuedFor(call[d].subject, call[d].revision))'
      BY <1>1, <1>2 DEF NInv, TokensStand, Offering, IssuedFor
    <2>4. ProposalsFitTheirText'
      BY <1>1 DEF NInv, TokensStand, ProposalsFitTheirText
    <2> QED
      BY <2>2, <2>3, <2>4 DEF TokensStand, Offering, IssuedFor
  <1>5. CloseInOrder'
    BY <1>1, <1>2, CloseOfOne DEF Closers
  <1> QED
    BY <1>2, <1>3, <1>4, <1>5 DEF NInv

LEMMA ApproveFontFallbackStep ==
  ASSUME NInv, NEW c \in Callers, NEW base \in Revisions, ApproveFontFallback(c, base)
  PROVE  NInv'
  <1>1. PICK proposal \in proposals :
          proposal.base = base /\ Enter(c, "approving", base, proposal.token)
    BY DEF ApproveFontFallback
  <1>2. /\ call[c].op = "none"
        /\ UNCHANGED <<pages, actor, proposals, issued, applied, agent, joined>>
    BY DEF ApproveFontFallback, Free, In, fallback
  <1>3. IssuedFor(proposal.token, base) /\ proposal.token \in Nat
    <2>1. IssuedFor(proposal.token, base)
      BY <1>1 DEF NInv, TokensStand
    <2>2. issued \in Seq(Revisions)
      BY DEF NInv, NativeTypes
    <2> QED
      BY <2>1, <2>2 DEF IssuedFor
  <1>4. /\ IInv' /\ service' = service /\ EndedStay /\ actor' = actor
        /\ call' \in [Callers -> Calls] /\ call'[c].op = "approving"
        /\ call'[c].revision = base /\ call'[c].subject = proposal.token
        /\ \A d \in Callers \ {c} : call'[d] = call[d]
        /\ ToldIsCommitted'
    <2>1. "approving" \in Ops /\ "approving" \notin {"telling", "removing"}
      BY DEF Ops
    <2> QED
      BY <1>1, <1>2, <1>3, <2>1, CallOnly
  <1>5. NativeTypes'
    BY <1>2, <1>4 DEF NInv, NativeTypes
  <1>6. TokensStand'
    <2>1. \A d \in Callers :
            call'[d].op \in Offering => IssuedFor(call'[d].subject, call'[d].revision)
      BY <1>3, <1>4 DEF NInv, TokensStand, Offering
    <2> QED
      BY <1>2, <2>1, TokensKept DEF NInv
  <1>7. CloseInOrder'
    BY <1>2, <1>4, CloseOfOne DEF Closers
  <1> QED
    BY <1>4, <1>5, <1>6, <1>7 DEF NInv

LEMMA ApplyFallbackStep ==
  ASSUME NInv, NEW c \in Callers, ApplyFallback(c)
  PROVE  NInv'
  <1>1. /\ call[c].op = "approving"
        /\ UNCHANGED <<pages, proposals, issued, agent, joined>>
    BY DEF ApplyFallback, In
  <1>2. NativeTypes /\ IInv /\ IssuedFor(call[c].subject, call[c].revision)
    BY <1>1 DEF NInv, TokensStand
  <1>3. CASE Accepts(call[c].revision)
    <2>1. PICK k : k = call[c].subject
      OBVIOUS
    <2>2. PICK r : r = actor.revision
      OBVIOUS
    <2>3. /\ Advance /\ applied' = [applied EXCEPT ![k] = @ \cup {r}]
          /\ Enter(c, "removing", r + 1, k)
      BY <1>3, <2>1, <2>2 DEF ApplyFallback
    <2>4. call[c].revision = r /\ r + 1 \in Revisions /\ Accepts(actor.revision) /\ r \in Revisions
      BY <1>2, <1>3, <2>2, NextRevision
    <2>5. /\ actor' \in [revision : Revisions, loaded : SUBSET Nat, open : BOOLEAN]
          /\ actor'.revision = r + 1 /\ actor'.open /\ actor.open
      BY <1>2, <2>2, <2>3, <2>4, AdvanceFacts
    <2>6. k \in DOMAIN issued /\ issued[k] = r /\ k \in Tokens /\ k \in Nat
      BY <1>2, <2>1, <2>4, NativeAssumption DEF IssuedFor, NativeTypes, Tokens
    <2>7. /\ call' \in [Callers -> Calls] /\ call'[c].op = "removing" /\ call'[c].revision = r + 1
          /\ \A d \in Callers \ {c} : call'[d] = call[d]
      BY <1>2, <2>3, <2>4, <2>6, EnterFacts DEF Ops
    <2>8. IInv' /\ service' = service /\ EndedStay
      BY <1>1, <1>2, PagesAlone
    <2>9. NativeTypes'
      <3>1. applied' \in [Tokens -> SUBSET Revisions]
        BY <1>2, <2>3, <2>4, <2>6 DEF NativeTypes
      <3> QED
        BY <1>1, <1>2, <2>5, <2>7, <3>1 DEF NativeTypes
    <2>10. ToldIsCommitted'
      <3>1. /\ actor'.revision \in Revisions /\ actor.revision <= actor'.revision
            /\ service'.revision \in Revisions /\ service'.revision <= actor'.revision
            /\ call'[c].revision \in Revisions /\ call'[c].revision <= actor'.revision
        BY <2>2, <2>4, <2>5, <2>7, <2>8, Known, ZeroIsARevision
      <3> QED
        BY <2>7, <3>1, ToldOfOne
    <2>11. TokensStand'
      <3>1. \A proposal \in proposals' : IssuedFor(proposal.token, proposal.base)'
        BY <1>1 DEF NInv, TokensStand, IssuedFor
      <3>2. \A d \in Callers :
              (call[d].op \in Offering => IssuedFor(call[d].subject, call[d].revision))'
        BY <1>1, <2>7 DEF NInv, TokensStand, Offering, IssuedFor
      <3>3. ProposalsFitTheirText'
        <4>1. ASSUME NEW q \in Tokens
              PROVE  applied'[q] \subseteq {issued[i] : i \in {q} \cap DOMAIN issued}
          <5>1. applied[q] \subseteq {issued[i] : i \in {q} \cap DOMAIN issued}
            BY DEF NInv, TokensStand, ProposalsFitTheirText
          <5>2. applied'[q] = IF q = k THEN applied[q] \cup {r} ELSE applied[q]
            BY <1>2, <2>3 DEF NativeTypes
          <5>3. q = k => r \in {issued[i] : i \in {q} \cap DOMAIN issued}
            BY <2>6
          <5> QED
            BY <5>1, <5>2, <5>3
        <4> QED
          BY <1>1, <4>1 DEF ProposalsFitTheirText
      <3> QED
        BY <3>1, <3>2, <3>3 DEF TokensStand, Offering, IssuedFor
    <2>12. CloseInOrder'
      <3>1. actor'.open <=> actor.open
        BY <2>5
      <3> QED
        BY <1>1, <2>7, <2>8, <3>1, CloseOfOne DEF Closers
    <2> QED
      BY <2>8, <2>9, <2>10, <2>11, <2>12 DEF NInv
  <1>4. CASE ~Accepts(call[c].revision)
    <2>1. UNCHANGED <<actor, applied>> /\ Enter(c, "none", 0, 0)
      BY <1>4, FinishIsEnter DEF ApplyFallback
    <2>2. /\ IInv' /\ service' = service /\ EndedStay /\ actor' = actor
          /\ call' \in [Callers -> Calls] /\ call'[c].op = "none"
          /\ \A d \in Callers \ {c} : call'[d] = call[d]
          /\ ToldIsCommitted'
      BY <1>1, <2>1, CallOnly, ZeroIsARevision DEF Ops
    <2>3. NativeTypes'
      BY <1>1, <1>2, <2>1, <2>2 DEF NativeTypes
    <2>4. TokensStand'
      BY <1>1, <2>1, <2>2, TokensOfOne DEF Offering
    <2>5. CloseInOrder'
      BY <1>1, <2>2, CloseOfOne DEF Closers
    <2> QED
      BY <2>2, <2>3, <2>4, <2>5 DEF NInv
  <1> QED
    BY <1>3, <1>4

LEMMA RemoveProposalStep ==
  ASSUME NInv, NEW c \in Callers, RemoveProposal(c)
  PROVE  NInv'
  <1>1. /\ call[c].op = "removing" /\ SetRevision(call[c].revision) /\ proposals' \subseteq proposals
        /\ Enter(c, "none", 0, 0)
        /\ UNCHANGED <<actor, issued, applied, agent, joined>>
    BY FinishIsEnter DEF RemoveProposal, In
  <1>2. NativeTypes /\ IInv /\ call[c].revision \in Revisions
    BY Known DEF NInv
  <1>3. /\ call' \in [Callers -> Calls] /\ call'[c].op = "none" /\ call'[c].revision = 0
        /\ \A d \in Callers \ {c} : call'[d] = call[d]
    BY <1>1, <1>2, EnterFacts, ZeroIsARevision DEF Ops
  <1>4. IInv' /\ service'.revision = call[c].revision /\ EndedStay
    BY <1>1, <1>2, RevisionSet
  <1>5. NativeTypes'
    BY <1>1, <1>2, <1>3 DEF NativeTypes
  <1>6. ToldIsCommitted'
    <2>1. /\ actor'.revision \in Revisions /\ actor.revision <= actor'.revision
          /\ service'.revision \in Revisions /\ service'.revision <= actor'.revision
          /\ call'[c].revision \in Revisions /\ call'[c].revision <= actor'.revision
      BY <1>1, <1>3, <1>4, Known, ZeroIsARevision
    <2> QED
      BY <1>3, <2>1, ToldOfOne
  <1>7. TokensStand'
    BY <1>1, <1>3, TokensOfOne DEF Offering
  <1>8. CloseInOrder'
    BY <1>1, <1>3, <1>4, CloseOfOne DEF Closers
  <1> QED
    BY <1>4, <1>5, <1>6, <1>7, <1>8 DEF NInv

\* The parts of CloseInOrder after a step of one call.
LEMMA CloseAfter ==
  ASSUME NEW c \in Callers,
         \A d \in Callers \ {c} :
           /\ call'[d].op \in Closers => agent'.closed
           /\ call'[d].op \in {"awaiting index", "closing"} => joined',
         call'[c].op \in Closers => agent'.closed,
         call'[c].op \in {"awaiting index", "closing"} => joined',
         ~actor'.open => agent'.closed /\ joined',
         agent'.closed /\ ~joined' => \E d \in Callers : call'[d].op \in Waiting,
         joined' /\ ~AllDone' => \E d \in Callers : call'[d].op = "awaiting index"
  PROVE  CloseInOrder'
  BY DEF CloseInOrder, Closers

\* What CloseInOrder says of the calls beside c, before a step of c.
LEMMA CloseBefore ==
  ASSUME NInv, NEW c \in Callers
  PROVE  /\ \A d \in Callers :
              /\ call[d].op \in Closers => agent.closed
              /\ call[d].op \in {"awaiting index", "closing"} => joined
         /\ ~actor.open => agent.closed /\ joined
         /\ joined /\ ~AllDone /\ call[c].op # "awaiting index" =>
              \E d \in Callers \ {c} : call[d].op = "awaiting index"
  BY DEF NInv, CloseInOrder, Closers

\* A step of c that is not the join itself leaves the call that awaits the
\* index workers where it is.
LEMMA IndexStillAwaited ==
  ASSUME NInv, EndedStay, NEW c \in Callers, joined, call[c].op # "awaiting index",
         \A d \in Callers \ {c} : call'[d] = call[d]
  PROVE  ~AllDone' => \E d \in Callers : call'[d].op = "awaiting index"
  <1> SUFFICES ASSUME ~AllDone' PROVE \E d \in Callers : call'[d].op = "awaiting index"
    OBVIOUS
  <1>1. ~AllDone
    BY DoneKept
  <1>2. PICK d \in Callers \ {c} : call[d].op = "awaiting index"
    BY <1>1, CloseBefore
  <1> QED
    BY <1>2

\* A call on its way to start a run goes a step on.
LEMMA RunStep ==
  ASSUME NInv, UNCHANGED <<pages, actor, fallback, joined>>,
         agent' \in RunStates, agent'.closed = agent.closed,
         NEW c \in Callers, call[c].op \notin Closers,
         NEW op \in {"none", "starting", "registering"}, NEW n \in Nat, Enter(c, op, 0, n)
  PROVE  NInv'
  <1>1. /\ IInv' /\ service' = service /\ EndedStay /\ actor' = actor
        /\ call' \in [Callers -> Calls] /\ call'[c].op = op
        /\ \A d \in Callers \ {c} : call'[d] = call[d]
        /\ ToldIsCommitted'
    <2>1. op \in Ops /\ op \notin {"telling", "removing"}
      BY DEF Ops
    <2> QED
      BY <2>1, CallOnly, ZeroIsARevision
  <1>2. NativeTypes'
    BY <1>1 DEF NInv, NativeTypes, fallback
  <1>3. TokensStand'
    BY <1>1, TokensOfOne DEF Offering, fallback
  <1>4. CloseInOrder'
    BY <1>1, CloseOfOne DEF Closers
  <1> QED
    BY <1>1, <1>2, <1>3, <1>4 DEF NInv

LEMMA StartAgentRunStep ==
  ASSUME NInv, NEW c \in Callers, StartAgentRun(c)
  PROVE  NInv'
  <1>1. agent \in RunStates /\ agent.begun + 1 \in Nat
    BY DEF NInv, NativeTypes, RunStates
  <1>2. agent' \in RunStates /\ agent'.closed = agent.closed
    BY <1>1 DEF StartAgentRun, RunStates
  <1>3. call[c].op \notin Closers
    BY DEF StartAgentRun, Free, In, Closers
  <1> QED
    BY <1>1, <1>2, <1>3, RunStep DEF StartAgentRun

LEMMA SpawnWorkerStep ==
  ASSUME NInv, NEW c \in Callers, SpawnWorker(c)
  PROVE  NInv'
  <1>1. agent \in RunStates /\ call[c].subject \in Nat
    BY Known DEF NInv, NativeTypes
  <1>2. agent' \in RunStates /\ agent'.closed = agent.closed
    BY <1>1 DEF SpawnWorker, RunStates
  <1>3. call[c].op \notin Closers
    BY DEF SpawnWorker, In, Closers
  <1> QED
    BY <1>1, <1>2, <1>3, RunStep DEF SpawnWorker

LEMMA RegisterRunStep ==
  ASSUME NInv, NEW c \in Callers, RegisterRun(c)
  PROVE  NInv'
  <1>1. agent \in RunStates /\ call[c].subject \in Nat
    BY Known DEF NInv, NativeTypes
  <1>2. agent' \in RunStates /\ agent'.closed = agent.closed
    BY <1>1 DEF RegisterRun, RunStates
  <1>3. call[c].op \notin Closers /\ Enter(c, "none", 0, 0)
    BY FinishIsEnter DEF RegisterRun, In, Closers
  <1> QED
    BY <1>2, <1>3, RunStep, ZeroIsARevision DEF RegisterRun

LEMMA EndWorkerStep ==
  ASSUME NInv, NEW k \in Runs, EndWorker(k)
  PROVE  NInv'
  <1>1. agent' = [agent EXCEPT !.active = @ \ {k}] /\ UNCHANGED <<pages, actor, call, fallback, joined>>
    BY DEF EndWorker
  <1>2. agent' \in RunStates /\ agent'.closed = agent.closed
    BY <1>1 DEF NInv, NativeTypes, RunStates
  <1>3. IInv' /\ service' = service /\ EndedStay
    BY <1>1, PagesAlone DEF NInv
  <1>4. NativeTypes' /\ TokensStand'
    BY <1>1, <1>2 DEF NInv, NativeTypes, TokensStand, IssuedFor, ProposalsFitTheirText, fallback
  <1>5. ToldIsCommitted'
    BY <1>1, <1>3 DEF NInv, ToldIsCommitted, ServiceIsNeverAhead
  <1>6. CloseInOrder'
    BY <1>1, <1>2, <1>3, CloseKept DEF NInv
  <1> QED
    BY <1>3, <1>4, <1>5, <1>6 DEF NInv

\* A call to close enters a stage in which it waits.
LEMMA WaitingStep ==
  ASSUME NInv, UNCHANGED <<pages, actor, fallback, joined>>,
         agent' \in RunStates, agent'.closed,
         NEW c \in Callers, call[c].op # "awaiting index", NEW op \in Waiting, Enter(c, op, 0, 0)
  PROVE  NInv'
  <1>1. /\ IInv' /\ service' = service /\ EndedStay /\ actor' = actor
        /\ call' \in [Callers -> Calls] /\ call'[c].op = op
        /\ \A d \in Callers \ {c} : call'[d] = call[d]
        /\ ToldIsCommitted'
    <2>1. op \in Ops /\ op \notin {"telling", "removing"}
      BY DEF Ops, Waiting
    <2> QED
      BY <2>1, CallOnly, ZeroIsARevision
  <1>2. NativeTypes'
    BY <1>1 DEF NInv, NativeTypes, fallback
  <1>3. TokensStand'
    BY <1>1, TokensOfOne DEF Offering, Waiting, fallback
  <1>4. CloseInOrder'
    <2>1. joined' /\ ~AllDone' => \E d \in Callers : call'[d].op = "awaiting index"
      BY <1>1, IndexStillAwaited
    <2>2. \A d \in Callers \ {c} : call'[d].op \in {"awaiting index", "closing"} => joined'
      BY <1>1, CloseBefore
    <2>3. ~actor'.open => joined'
      BY CloseBefore
    <2>4. call'[c].op \notin {"awaiting index", "closing"}
      BY <1>1 DEF Waiting
    <2> QED
      BY <1>1, <2>1, <2>2, <2>3, <2>4, CloseAfter
  <1> QED
    BY <1>1, <1>2, <1>3, <1>4 DEF NInv

LEMMA CloseAgentStep ==
  ASSUME NInv, NEW c \in Callers, CloseAgent(c)
  PROVE  NInv'
  <1>1. PICK op \in Waiting : Enter(c, op, 0, 0)
    BY DEF CloseAgent, Waiting
  <1>2. agent \in RunStates
    BY DEF NInv, NativeTypes
  <1>3. agent' \in RunStates /\ agent'.closed
    BY <1>2 DEF CloseAgent, RunStates
  <1>4. call[c].op # "awaiting index"
    BY DEF CloseAgent, Free, In
  <1> QED
    BY <1>1, <1>3, <1>4, WaitingStep DEF CloseAgent

LEMMA CollectRunsStep ==
  ASSUME NInv, NEW c \in Callers, CollectRuns(c)
  PROVE  NInv'
  <1>1. call[c].op = "collecting" /\ "joining agent" \in Waiting
    BY DEF CollectRuns, In, Waiting
  <1>2. agent \in RunStates /\ agent.closed
    BY <1>1, CloseBefore DEF NInv, NativeTypes, Closers
  <1>3. agent' \in RunStates /\ agent'.closed
    BY <1>2 DEF CollectRuns, RunStates
  <1> QED
    BY <1>1, <1>3, WaitingStep DEF CollectRuns

LEMMA JoinAgentStep ==
  ASSUME NInv, NEW c \in Callers, JoinAgent(c)
  PROVE  NInv'
  <1>1. call[c].op = "joining agent" /\ "joining index" \in Waiting
    BY DEF JoinAgent, In, Waiting
  <1>2. agent' \in RunStates /\ agent'.closed
    BY <1>1, CloseBefore DEF NInv, NativeTypes, Closers, JoinAgent
  <1> QED
    BY <1>1, <1>2, WaitingStep DEF JoinAgent

LEMMA StopIndexerStep ==
  ASSUME NInv, NEW c \in Callers, StopIndexer(c)
  PROVE  NInv'
  <1>1. PICK op \in {"closing", "awaiting index"} :
          /\ Enter(c, op, 0, 0) /\ (~joined => op = "awaiting index")
          /\ joined' /\ (UNCHANGED pages \/ CancelIndexing)
    BY DEF StopIndexer
  <1>2. /\ call[c].op = "joining index"
        /\ UNCHANGED <<actor, proposals, issued, applied, agent>>
    BY DEF StopIndexer, In, fallback
  <1>3. NativeTypes /\ IInv /\ joined' \in BOOLEAN
    BY DEF NInv, StopIndexer, NativeTypes
  <1>4. IInv' /\ service' = service /\ EndedStay
    BY <1>1, <1>3, PagesAlone, CancelFacts
  <1>5. /\ call' \in [Callers -> Calls] /\ call'[c].op = op /\ call'[c].revision = 0
        /\ \A d \in Callers \ {c} : call'[d] = call[d]
    <2>1. op \in Ops
      BY DEF Ops
    <2> QED
      BY <1>1, <1>3, <2>1, EnterFacts, ZeroIsARevision
  <1>6. NativeTypes'
    BY <1>2, <1>3, <1>5 DEF NativeTypes
  <1>7. ToldIsCommitted'
    <2>1. /\ actor'.revision \in Revisions /\ actor.revision <= actor'.revision
          /\ service'.revision \in Revisions /\ service'.revision <= actor'.revision
          /\ call'[c].revision \in Revisions /\ call'[c].revision <= actor'.revision
      BY <1>2, <1>4, <1>5, Known, ZeroIsARevision
    <2> QED
      BY <1>5, <2>1, ToldOfOne
  <1>8. TokensStand'
    BY <1>1, <1>2, <1>5, TokensOfOne DEF Offering
  <1>9. CloseInOrder'
    <2>1. agent'.closed
      BY <1>2, CloseBefore DEF Closers
    <2>2. joined' /\ ~AllDone' => \E d \in Callers : call'[d].op = "awaiting index"
      <3>1. CASE joined
        <4>1. call[c].op # "awaiting index"
          BY <1>2
        <4> QED
          BY <1>4, <1>5, <3>1, <4>1, IndexStillAwaited
      <3>2. CASE ~joined
        BY <1>1, <1>5, <3>2
      <3> QED
        BY <3>1, <3>2
    <2> QED
      BY <1>1, <2>1, <2>2, CloseAfter
  <1> QED
    BY <1>4, <1>6, <1>7, <1>8, <1>9 DEF NInv

LEMMA JoinIndexerStep ==
  ASSUME NInv, NEW c \in Callers, JoinIndexer(c)
  PROVE  NInv'
  <1>1. PICK op \in {"none", "closing"} : Enter(c, op, 0, 0)
    BY FinishIsEnter DEF JoinIndexer
  <1>2. /\ call[c].op = "awaiting index" /\ AllDone
        /\ UNCHANGED <<pages, actor, proposals, issued, applied, agent, joined>>
    BY DEF JoinIndexer, In, AllDone, fallback
  <1>3. /\ IInv' /\ service' = service /\ EndedStay /\ actor' = actor
        /\ call' \in [Callers -> Calls] /\ call'[c].op = op
        /\ \A d \in Callers \ {c} : call'[d] = call[d]
        /\ ToldIsCommitted'
    <2>1. op \in Ops /\ op \notin {"telling", "removing"}
      BY DEF Ops
    <2> QED
      BY <1>1, <1>2, <2>1, CallOnly, ZeroIsARevision
  <1>4. NativeTypes'
    BY <1>2, <1>3 DEF NInv, NativeTypes
  <1>5. TokensStand'
    BY <1>1, <1>2, <1>3, TokensOfOne DEF Offering
  <1>6. CloseInOrder'
    <2>1. agent'.closed /\ joined' /\ AllDone'
      BY <1>2, <1>3, CloseBefore, DoneKept DEF Closers
    <2> QED
      BY <2>1, CloseAfter
  <1> QED
    BY <1>3, <1>4, <1>5, <1>6 DEF NInv

LEMMA CloseActorStep ==
  ASSUME NInv, NEW c \in Callers, CloseActor(c)
  PROVE  NInv'
  <1>1. /\ call[c].op = "closing" /\ Enter(c, "none", 0, 0)
        /\ actor' = [actor EXCEPT !.open = FALSE]
        /\ UNCHANGED <<pages, proposals, issued, applied, agent, joined>>
    BY FinishIsEnter DEF CloseActor, In, fallback
  <1>2. NativeTypes /\ IInv
    BY DEF NInv
  <1>3. /\ call' \in [Callers -> Calls] /\ call'[c].op = "none" /\ call'[c].revision = 0
        /\ \A d \in Callers \ {c} : call'[d] = call[d]
    BY <1>1, <1>2, EnterFacts, ZeroIsARevision DEF Ops
  <1>4. IInv' /\ service' = service /\ EndedStay
    BY <1>1, <1>2, PagesAlone
  <1>5. /\ actor' \in [revision : Revisions, loaded : SUBSET Nat, open : BOOLEAN]
        /\ actor'.revision = actor.revision
    BY <1>1, <1>2 DEF NativeTypes
  <1>6. NativeTypes'
    BY <1>1, <1>2, <1>3, <1>5 DEF NativeTypes
  <1>7. ToldIsCommitted'
    <2>1. /\ actor'.revision \in Revisions /\ actor.revision <= actor'.revision
          /\ service'.revision \in Revisions /\ service'.revision <= actor'.revision
          /\ call'[c].revision \in Revisions /\ call'[c].revision <= actor'.revision
      BY <1>3, <1>4, <1>5, Known, ZeroIsARevision
    <2> QED
      BY <1>3, <2>1, ToldOfOne
  <1>8. TokensStand'
    BY <1>1, <1>3, TokensOfOne DEF Offering
  <1>9. CloseInOrder'
    <2>1. agent'.closed /\ joined'
      BY <1>1, CloseBefore DEF Closers
    <2>2. ~AllDone' => \E d \in Callers : call'[d].op = "awaiting index"
      <3>1. joined /\ call[c].op # "awaiting index"
        BY <1>1, <2>1
      <3> QED
        BY <1>3, <1>4, <3>1, IndexStillAwaited
    <2> QED
      BY <2>1, <2>2, CloseAfter
  <1> QED
    BY <1>4, <1>6, <1>7, <1>8, <1>9 DEF NInv

\* A thread of the page service runs on.
LEMMA PageStepStep ==
  ASSUME NInv, NEW t \in Threads, PageStep(t)
  PROVE  NInv'
  <1>1. Step(t) /\ UNCHANGED <<actor, call, proposals, issued, applied, agent, joined>>
    BY DEF PageStep, fallback
  <1>2. IInv' /\ service'.revision = service.revision /\ EndedStay
    BY <1>1, PageStepFacts DEF NInv
  <1>3. NativeTypes'
    BY <1>1 DEF NInv, NativeTypes
  <1>4. ToldIsCommitted'
    BY <1>1, <1>2 DEF NInv, ToldIsCommitted, ServiceIsNeverAhead
  <1>5. TokensStand'
    BY <1>1 DEF NInv, TokensStand, IssuedFor, ProposalsFitTheirText
  <1>6. CloseInOrder'
    <2>1. \A d \in Callers : call'[d].op = call[d].op
      BY <1>1
    <2>2. actor'.open <=> actor.open
      BY <1>1
    <2> QED
      BY <1>1, <1>2, <2>1, <2>2, CloseKept DEF NInv
  <1> QED
    BY <1>2, <1>3, <1>4, <1>5, <1>6 DEF NInv

LEMMA NativeStutter ==
  ASSUME NInv, UNCHANGED nativeVars
  PROVE  NInv'
  <1>1. UNCHANGED <<pages, actor, call, proposals, issued, applied, agent, joined>>
    BY DEF nativeVars, pages
  <1>2. IInv' /\ service' = service /\ EndedStay
    BY <1>1, PagesAlone DEF NInv
  <1>3. NativeTypes' /\ TokensStand'
    BY <1>1 DEF NInv, NativeTypes, TokensStand, IssuedFor, ProposalsFitTheirText
  <1>4. ToldIsCommitted'
    BY <1>1, <1>2 DEF NInv, ToldIsCommitted, ServiceIsNeverAhead
  <1>5. CloseInOrder'
    BY <1>1, <1>2, CloseKept DEF NInv
  <1> QED
    BY <1>2, <1>3, <1>4, <1>5 DEF NInv

LEMMA NativeInitNInv == NativeInit => NInv
  <1> SUFFICES ASSUME NativeInit PROVE NInv
    OBVIOUS
  <1>1. /\ Init /\ actor = [revision |-> 0, loaded |-> {}, open |-> TRUE]
        /\ call = [c \in Callers |-> [op |-> "none", revision |-> 0, subject |-> 0]]
        /\ proposals = {} /\ issued = << >> /\ applied = [k \in Tokens |-> {}]
        /\ agent = [begun |-> 0, active |-> {}, registered |-> {}, closed |-> FALSE,
                    found |-> {}, owed |-> {}]
        /\ joined \in BOOLEAN
        /\ joined => Workers = {}
    BY DEF NativeInit
  <1>2. IInv
    BY <1>1, InitIInv
  <1>3. NativeTypes
    BY <1>1, ZeroIsARevision, NativeAssumption DEF NativeTypes, RunStates, Calls
  <1>4. ToldIsCommitted
    BY <1>1, ZeroIsARevision DEF ToldIsCommitted, ServiceIsNeverAhead, Init
  <1>5. TokensStand
    BY <1>1 DEF TokensStand, ProposalsFitTheirText
  <1>6. CloseInOrder
    BY <1>1 DEF CloseInOrder, AllDone, Closers
  <1> QED
    BY <1>2, <1>3, <1>4, <1>5, <1>6 DEF NInv

LEMMA NativeNextNInv == NInv /\ [NativeNext]_nativeVars => NInv'
  <1> SUFFICES ASSUME NInv, [NativeNext]_nativeVars PROVE NInv'
    OBVIOUS
  <1>1. ASSUME NEW c \in Callers, Proceed(c) PROVE NInv'
    BY <1>1, TellPagesStep, HydrateStep, FileProposalStep, ApplyFallbackStep, RemoveProposalStep,
       SpawnWorkerStep, RegisterRunStep, CollectRunsStep, JoinAgentStep, StopIndexerStep,
       JoinIndexerStep, CloseActorStep DEF Proceed
  <1> QED
    BY <1>1, SubmitStep, ApproveFontFallbackStep, PageSceneStep, ProposeFontFallbackStep,
       StartAgentRunStep, EndWorkerStep, CloseAgentStep, PageStepStep, SilentStep, NativeStutter
       DEF NativeNext

THEOREM InvariantOfTheSession == NativeSpec => []NInv
  <1> QED
    BY NativeInitNInv, NativeNextNInv, PTL DEF NativeSpec

-----------------------------------------------------------------------------
(* The theorems                                                            *)

\* A fallback font is committed at the revision its proposal was made for,
\* whatever commits, approvals and other proposals come between the look at
\* the text, the filing of the token and the command (approve_font_fallback).
THEOREM FontsFitTheirText == NativeSpec => []ProposalsFitTheirText
  <1>1. NInv => ProposalsFitTheirText
    BY DEF NInv, TokensStand
  <1> QED
    BY <1>1, InvariantOfTheSession, PTL

\* Commits that report in the wrong order, late or not at all never make the
\* page service say a revision that the actor has not made; nobody in it
\* sleeps without somebody that will wake it (editing_api.rs, page_service.rs).
THEOREM ServiceStaysBehind == NativeSpec => [](ServiceIsNeverAhead /\ WaitersWillBeServed)
  <1>1. NInv => ServiceIsNeverAhead /\ WaitersWillBeServed
    BY DEF NInv, ToldIsCommitted, IInv, WaitersWillBeServed
  <1> QED
    BY <1>1, InvariantOfTheSession, PTL

-----------------------------------------------------------------------------
(* The runs of the agent: a run that close has to wait for is one of those *)
(* it found in the map, as long as that run's worker goes on.              *)
Spawning == {"starting", "registering"}
OnRuns == Spawning \cup {"collecting", "joining agent"}

NotYetRegistered(k) == k \in 1 .. agent.begun /\ k \notin agent.registered

RunsInOrder ==
  /\ agent \in Agents
  /\ agent.registered \subseteq 1 .. agent.begun
  /\ agent.owed \subseteq agent.registered
  /\ \A c \in Callers : call[c].op \in Spawning => NotYetRegistered(call[c].subject)
  /\ \A c, d \in Callers :
       c # d /\ call[c].op \in Spawning /\ call[d].op \in Spawning => call[c].subject # call[d].subject
  /\ agent.closed /\ agent.owed \cap agent.active # {} =>
       \E c \in Callers :
         \/ call[c].op = "collecting"
         \/ call[c].op = "joining agent" /\ agent.owed \subseteq agent.found

\* Calls of other kinds come and go.
LEMMA RunsKept ==
  ASSUME RunsInOrder, agent' = agent,
         \A c \in Callers : call'[c] = call[c] \/ (call'[c].op \notin OnRuns /\ call[c].op \notin OnRuns)
  PROVE  RunsInOrder'
  <1>1. \A c \in Callers : call'[c].op \in OnRuns \/ call[c].op \in OnRuns => call'[c] = call[c]
    OBVIOUS
  <1>2. \A c \in Callers : call'[c].op \in Spawning => call'[c] = call[c]
    BY <1>1 DEF OnRuns
  <1>3. \A c \in Callers : call[c].op \in {"collecting", "joining agent"} => call'[c] = call[c]
    BY <1>1 DEF OnRuns
  <1> QED
    BY <1>2, <1>3 DEF RunsInOrder, NotYetRegistered

\* One call enters another operation of another kind.
LEMMA RunsOfOne ==
  ASSUME NativeTypes, NEW c \in Callers, call[c].op \notin OnRuns, NEW op, op \notin OnRuns,
         \E r, n : Enter(c, op, r, n)
  PROVE  \A d \in Callers : call'[d] = call[d] \/ (call'[d].op \notin OnRuns /\ call[d].op \notin OnRuns)
  BY DEF NativeTypes, Enter

LEMMA BegunRuns ==
  ASSUME agent \in Agents, NEW k \in 1 .. agent.begun
  PROVE  k \in Runs
  <1>1. agent.begun \in 0 .. MaxRuns /\ MaxRuns \in Nat
    BY NativeAssumption DEF Agents
  <1> DEFINE n == agent.begun
  <1>2. n \in 0 .. MaxRuns /\ k \in 1 .. n
    BY <1>1
  <1> HIDE DEF n
  <1> QED
    BY <1>1, <1>2 DEF Runs

LEMMA StartRuns ==
  ASSUME NativeTypes, RunsInOrder, NEW c \in Callers, StartAgentRun(c)
  PROVE  RunsInOrder'
  <1> DEFINE n == agent.begun + 1
  <1>1. agent \in Agents /\ agent.begun \in 0 .. MaxRuns /\ agent.begun < MaxRuns /\ MaxRuns \in Nat
    BY NativeAssumption DEF RunsInOrder, Agents, StartAgentRun
  <1>2. n \in 0 .. MaxRuns /\ n \in 1 .. n /\ n \notin 1 .. agent.begun /\ 1 .. agent.begun \subseteq 1 .. n
    BY <1>1
  <1>3. agent' = [agent EXCEPT !.begun = n] /\ ~agent.closed
    BY DEF StartAgentRun
  <1>4. call' = [call EXCEPT ![c] = [op |-> "starting", revision |-> 0, subject |-> n]]
    BY DEF StartAgentRun, Enter
  <1> HIDE DEF n
  <1>5. /\ agent' \in Agents /\ agent'.begun = n /\ agent'.registered = agent.registered
        /\ agent'.owed = agent.owed /\ ~agent'.closed
    BY <1>1, <1>2, <1>3 DEF Agents
  <1>6. call'[c].op = "starting" /\ call'[c].subject = n /\ \A d \in Callers \ {c} : call'[d] = call[d]
    BY <1>4 DEF NativeTypes
  <1>7. \A d \in Callers \ {c} : call'[d].op \in Spawning =>
          call'[d].subject \in 1 .. agent.begun /\ call'[d].subject \notin agent.registered
    BY <1>6 DEF RunsInOrder, NotYetRegistered
  <1>8. n \notin agent.registered /\ agent.registered \subseteq 1 .. n
    BY <1>2 DEF RunsInOrder
  <1>9. \A d \in Callers : call'[d].op \in Spawning =>
          call'[d].subject \in 1 .. agent'.begun /\ call'[d].subject \notin agent'.registered
    BY <1>2, <1>5, <1>6, <1>7, <1>8
  <1>10. \A d, e \in Callers :
           d # e /\ call'[d].op \in Spawning /\ call'[e].op \in Spawning => call'[d].subject # call'[e].subject
    BY <1>2, <1>6, <1>7 DEF RunsInOrder
  <1> QED
    BY <1>5, <1>8, <1>9, <1>10 DEF RunsInOrder, NotYetRegistered

\* RunsInOrder after a step that neither closes nor collects: a call is on the
\* way with a run of its own, and those that wait for runs stay.
LEMMA RunsAfter ==
  ASSUME RunsInOrder, agent' \in Agents, agent'.registered \subseteq 1 .. agent'.begun,
         agent'.owed = agent.owed, agent'.closed = agent.closed, agent'.found = agent.found,
         agent.owed \subseteq agent'.registered,
         agent.owed \cap agent'.active \subseteq agent.owed \cap agent.active,
         \A d \in Callers : call'[d].op \in Spawning =>
           /\ call'[d].subject \in 1 .. agent'.begun /\ call'[d].subject \notin agent'.registered
           /\ call[d].op \in Spawning /\ call[d].subject = call'[d].subject,
         \A d \in Callers : call[d].op \in {"collecting", "joining agent"} => call'[d] = call[d]
  PROVE  RunsInOrder'
  <1>1. \A c, d \in Callers :
          c # d /\ call'[c].op \in Spawning /\ call'[d].op \in Spawning => call'[c].subject # call'[d].subject
    <2>1. \A c, d \in Callers :
            c # d /\ call[c].op \in Spawning /\ call[d].op \in Spawning => call[c].subject # call[d].subject
      BY DEF RunsInOrder
    <2> QED
      BY <2>1
  <1>2. agent'.closed /\ agent'.owed \cap agent'.active # {} =>
          \E c \in Callers :
            \/ call'[c].op = "collecting"
            \/ call'[c].op = "joining agent" /\ agent'.owed \subseteq agent'.found
    <2> SUFFICES ASSUME agent.closed, agent.owed \cap agent.active # {}
                 PROVE  \E c \in Callers :
                          \/ call'[c].op = "collecting"
                          \/ call'[c].op = "joining agent" /\ agent.owed \subseteq agent.found
      OBVIOUS
    <2>1. PICK c \in Callers :
            \/ call[c].op = "collecting"
            \/ call[c].op = "joining agent" /\ agent.owed \subseteq agent.found
      BY DEF RunsInOrder
    <2> QED
      BY <2>1
  <1>3. \A c \in Callers : call'[c].op \in Spawning =>
          call'[c].subject \in 1 .. agent'.begun /\ call'[c].subject \notin agent'.registered
    OBVIOUS
  <1> QED
    BY <1>1, <1>2, <1>3 DEF RunsInOrder, NotYetRegistered

LEMMA SpawnRuns ==
  ASSUME NativeTypes, RunsInOrder, NEW c \in Callers, SpawnWorker(c)
  PROVE  RunsInOrder'
  <1> DEFINE k == call[c].subject
  <1>1. agent \in Agents /\ NotYetRegistered(k)
    BY DEF RunsInOrder, SpawnWorker, In, Spawning
  <1>2. k \in Runs /\ k \notin agent.owed
    BY <1>1, BegunRuns DEF RunsInOrder, NotYetRegistered
  <1>3. agent' = [agent EXCEPT !.active = @ \cup {k}]
    BY DEF SpawnWorker
  <1>4. call' = [call EXCEPT ![c] = [op |-> "registering", revision |-> 0, subject |-> k]]
    BY DEF SpawnWorker, Enter
  <1>5. call[c].op = "starting"
    BY DEF SpawnWorker, In
  <1> HIDE DEF k
  <1>6. /\ agent' \in Agents /\ agent'.begun = agent.begun /\ agent'.registered = agent.registered
        /\ agent'.owed = agent.owed /\ agent'.closed = agent.closed /\ agent'.found = agent.found
        /\ agent'.active = agent.active \cup {k}
    BY <1>1, <1>2, <1>3 DEF Agents
  <1>7. call'[c].op = "registering" /\ call'[c].subject = k /\ \A d \in Callers \ {c} : call'[d] = call[d]
    BY <1>4 DEF NativeTypes
  <1>8. \A d \in Callers :
          call'[d].op \in Spawning => call[d].op \in Spawning /\ call'[d].subject = call[d].subject
    BY <1>5, <1>7 DEF Spawning, k
  <1>9. \A d \in Callers : call[d].op \in {"collecting", "joining agent"} => call'[d] = call[d]
    BY <1>5, <1>7
  <1>10. agent.owed \cap agent'.active \subseteq agent.owed \cap agent.active
    BY <1>2, <1>6
  <1>11. \A d \in Callers : call[d].op \in Spawning =>
           call[d].subject \in 1 .. agent.begun /\ call[d].subject \notin agent.registered
    BY DEF RunsInOrder, NotYetRegistered
  <1>12. agent.registered \subseteq 1 .. agent.begun /\ agent.owed \subseteq agent.registered
    BY DEF RunsInOrder
  <1> QED
    BY <1>6, <1>8, <1>9, <1>10, <1>11, <1>12, RunsAfter

LEMMA RegisterRuns ==
  ASSUME NativeTypes, RunsInOrder, NEW c \in Callers, RegisterRun(c)
  PROVE  RunsInOrder'
  <1> DEFINE k == call[c].subject
  <1>1. agent \in Agents /\ NotYetRegistered(k)
    BY DEF RunsInOrder, RegisterRun, In, Spawning
  <1>2. k \in Runs /\ k \in 1 .. agent.begun
    BY <1>1, BegunRuns DEF NotYetRegistered
  <1>3. agent' = [agent EXCEPT !.registered = @ \cup {k}]
    BY DEF RegisterRun
  <1>4. call' = [call EXCEPT ![c] = [op |-> "none", revision |-> 0, subject |-> 0]]
    BY DEF RegisterRun, Finish
  <1>5. call[c].op = "registering"
    BY DEF RegisterRun, In
  <1>6. \A d \in Callers \ {c} : call[d].op \in Spawning => call[d].subject # k
    BY <1>5 DEF RunsInOrder, Spawning
  <1> HIDE DEF k
  <1>7. /\ agent' \in Agents /\ agent'.begun = agent.begun /\ agent'.registered = agent.registered \cup {k}
        /\ agent'.owed = agent.owed /\ agent'.closed = agent.closed /\ agent'.found = agent.found
        /\ agent'.active = agent.active
    BY <1>1, <1>2, <1>3 DEF Agents
  <1>8. call'[c].op = "none" /\ \A d \in Callers \ {c} : call'[d] = call[d]
    BY <1>4 DEF NativeTypes
  <1>9. \A d \in Callers : call'[d].op \in Spawning => call'[d] = call[d] /\ call[d].subject # k
    BY <1>6, <1>8 DEF Spawning
  <1>10. \A d \in Callers : call[d].op \in {"collecting", "joining agent"} => call'[d] = call[d]
    BY <1>5, <1>8
  <1>11. \A d \in Callers : call[d].op \in Spawning =>
           call[d].subject \in 1 .. agent.begun /\ call[d].subject \notin agent.registered
    BY DEF RunsInOrder, NotYetRegistered
  <1>12. agent.registered \subseteq 1 .. agent.begun /\ agent.owed \subseteq agent.registered
    BY DEF RunsInOrder
  <1> QED
    BY <1>2, <1>7, <1>9, <1>10, <1>11, <1>12, RunsAfter

LEMMA EndRuns ==
  ASSUME RunsInOrder, NEW k \in Runs, EndWorker(k)
  PROVE  RunsInOrder'
  <1>1. agent' = [agent EXCEPT !.active = @ \ {k}] /\ call' = call
    BY DEF EndWorker
  <1>2. /\ agent' \in Agents /\ agent'.begun = agent.begun /\ agent'.registered = agent.registered
        /\ agent'.owed = agent.owed /\ agent'.closed = agent.closed /\ agent'.found = agent.found
        /\ agent'.active \subseteq agent.active
    BY <1>1 DEF RunsInOrder, Agents
  <1> QED
    BY <1>1, <1>2 DEF RunsInOrder, NotYetRegistered

LEMMA CloseRuns ==
  ASSUME NativeTypes, RunsInOrder, NEW c \in Callers, CloseAgent(c)
  PROVE  RunsInOrder'
  <1>1. call[c].op = "none" /\ agent \in Agents
    BY DEF CloseAgent, Free, In, RunsInOrder
  <1>2. CASE agent.closed
    <2>1. agent' = agent /\ Enter(c, "joining index", 0, 0)
      BY <1>2 DEF CloseAgent
    <2>2. call[c].op \notin OnRuns /\ "joining index" \notin OnRuns
      BY <1>1 DEF OnRuns, Spawning
    <2> QED
      BY <2>1, <2>2, RunsOfOne, RunsKept
  <1>3. CASE ~agent.closed
    <2>1. call' = [call EXCEPT ![c] = [op |-> "collecting", revision |-> 0, subject |-> 0]]
      BY <1>3 DEF CloseAgent, Enter
    <2>2. agent' = [agent EXCEPT !.closed = TRUE, !.owed = agent.registered]
      BY <1>3 DEF CloseAgent
    <2>3. /\ agent' \in Agents /\ agent'.begun = agent.begun /\ agent'.registered = agent.registered
          /\ agent'.owed = agent.registered
      BY <1>1, <2>2 DEF Agents
    <2>4. call'[c].op = "collecting" /\ \A d \in Callers \ {c} : call'[d] = call[d]
      BY <2>1 DEF NativeTypes
    <2>5. \A d \in Callers : call'[d].op \in Spawning => call'[d] = call[d]
      BY <2>4 DEF Spawning
    <2> QED
      BY <2>3, <2>4, <2>5 DEF RunsInOrder, NotYetRegistered
  <1> QED
    BY <1>2, <1>3

LEMMA CollectTheRuns ==
  ASSUME NativeTypes, RunsInOrder, NEW c \in Callers, CollectRuns(c)
  PROVE  RunsInOrder'
  <1>1. call[c].op = "collecting" /\ agent \in Agents
    BY DEF CollectRuns, In, RunsInOrder
  <1>2. call' = [call EXCEPT ![c] = [op |-> "joining agent", revision |-> 0, subject |-> 0]]
    BY DEF CollectRuns, Enter
  <1>3. agent' = [agent EXCEPT !.found = agent.registered]
    BY DEF CollectRuns
  <1>4. /\ agent' \in Agents /\ agent'.begun = agent.begun /\ agent'.registered = agent.registered
        /\ agent'.owed = agent.owed /\ agent'.found = agent.registered
    BY <1>1, <1>3 DEF Agents
  <1>5. call'[c].op = "joining agent" /\ \A d \in Callers \ {c} : call'[d] = call[d]
    BY <1>2 DEF NativeTypes
  <1>6. \A d \in Callers : call'[d].op \in Spawning => call'[d] = call[d]
    BY <1>5 DEF Spawning
  <1> QED
    BY <1>4, <1>5, <1>6 DEF RunsInOrder, NotYetRegistered

\* The call that has joined what it found waited for every run that was owed.
LEMMA JoinRuns ==
  ASSUME NativeTypes, RunsInOrder, NEW c \in Callers, JoinAgent(c)
  PROVE  RunsInOrder'
  <1>1. call[c].op = "joining agent" /\ agent' = agent /\ agent.found \cap agent.active = {}
    BY DEF JoinAgent, In
  <1>2. call' = [call EXCEPT ![c] = [op |-> "joining index", revision |-> 0, subject |-> 0]]
    BY DEF JoinAgent, Enter
  <1>3. call'[c].op = "joining index" /\ \A d \in Callers \ {c} : call'[d] = call[d]
    BY <1>2 DEF NativeTypes
  <1>4. \A d \in Callers : call'[d].op \in Spawning => call'[d] = call[d]
    BY <1>3 DEF Spawning
  <1>5. agent.closed /\ agent.owed \cap agent.active # {} =>
          \E d \in Callers : call'[d].op = "collecting"
    <2> SUFFICES ASSUME agent.closed, agent.owed \cap agent.active # {}
                 PROVE  \E d \in Callers : call'[d].op = "collecting"
      OBVIOUS
    <2>1. ~(agent.owed \subseteq agent.found)
      BY <1>1
    <2>2. PICK d \in Callers : call[d].op = "collecting"
      BY <2>1 DEF RunsInOrder
    <2> QED
      BY <1>1, <1>3, <2>2
  <1> QED
    BY <1>1, <1>4, <1>5 DEF RunsInOrder, NotYetRegistered

LEMMA NativeNextRuns ==
  ASSUME NInv, RunsInOrder, [NativeNext]_nativeVars
  PROVE  RunsInOrder'
  <1>1. NativeTypes
    BY DEF NInv
  <1> DEFINE Others ==
        \A d \in Callers : call'[d] = call[d] \/ (call'[d].op \notin OnRuns /\ call[d].op \notin OnRuns)
  <1>2. ASSUME NEW c \in Callers, NEW base \in Revisions,
               Submit(c, base) \/ ApproveFontFallback(c, base) \/ ProposeFontFallback(c, base)
        PROVE  RunsInOrder'
    <2>1. PICK op \in {"telling", "approving", "proposing"} : \E r, n : Enter(c, op, r, n)
      BY <1>2 DEF Submit, ApproveFontFallback, ProposeFontFallback
    <2>2. call[c].op \notin OnRuns /\ op \notin OnRuns
      BY <1>2 DEF Submit, ApproveFontFallback, ProposeFontFallback, Free, In, OnRuns, Spawning
    <2>3. agent' = agent
      BY <1>2 DEF Submit, ApproveFontFallback, ProposeFontFallback
    <2> QED
      BY <1>1, <2>1, <2>2, <2>3, RunsOfOne, RunsKept
  <1>3. ASSUME NEW c \in Callers, NEW p \in Pages, NEW priority \in Asked, NEW expected \in Revisions,
               PageScene(c, p, priority, expected)
        PROVE  RunsInOrder'
    <2>1. call[c].op \notin OnRuns /\ "paging" \notin OnRuns
      BY <1>3 DEF PageScene, Free, In, OnRuns, Spawning
    <2> QED
      BY <1>1, <1>3, <2>1, RunsOfOne, RunsKept DEF PageScene
  <1>4. ASSUME NEW c \in Callers,
               TellPages(c) \/ Hydrate(c) \/ FileProposal(c) \/ ApplyFallback(c) \/ RemoveProposal(c)
                 \/ StopIndexer(c) \/ JoinIndexer(c) \/ CloseActor(c)
        PROVE  RunsInOrder'
    <2>1. call[c].op \notin OnRuns
      BY <1>4 DEF TellPages, Hydrate, FileProposal, ApplyFallback, RemoveProposal, StopIndexer,
                  JoinIndexer, CloseActor, In, OnRuns, Spawning
    <2>2. PICK op \in {"none", "removing", "closing", "awaiting index"} : \E r, n : Enter(c, op, r, n)
      BY <1>4, FinishIsEnter DEF TellPages, Hydrate, FileProposal, ApplyFallback, RemoveProposal,
                  StopIndexer, JoinIndexer, CloseActor
    <2>3. op \notin OnRuns
      BY DEF OnRuns, Spawning
    <2>4. agent' = agent
      BY <1>4 DEF TellPages, Hydrate, FileProposal, ApplyFallback, RemoveProposal, StopIndexer,
                  JoinIndexer, CloseActor
    <2> QED
      BY <1>1, <2>1, <2>2, <2>3, <2>4, RunsOfOne, RunsKept
  <1>5. ASSUME NEW c \in Callers, Proceed(c) PROVE RunsInOrder'
    BY <1>1, <1>4, <1>5, SpawnRuns, RegisterRuns, CollectTheRuns, JoinRuns DEF Proceed
  <1>6. ASSUME UNCHANGED <<agent, call>> PROVE RunsInOrder'
    BY <1>6, RunsKept
  <1>7. ASSUME Checkpoint \/ AgentCommits \/ \E t \in Threads : PageStep(t) PROVE RunsInOrder'
    BY <1>6, <1>7 DEF Checkpoint, AgentCommits, PageStep
  <1>8. ASSUME UNCHANGED nativeVars PROVE RunsInOrder'
    BY <1>6, <1>8 DEF nativeVars
  <1> QED
    BY <1>1, <1>2, <1>3, <1>5, <1>7, <1>8, StartRuns, CloseRuns, EndRuns DEF NativeNext

LEMMA RunsAtFirst == NativeInit => RunsInOrder
  BY NativeAssumption DEF NativeInit, RunsInOrder, Agents, Runs, Spawning, NotYetRegistered

\* Only close closes the actor; and when nobody is in it, the index threads
\* and every run in the map when the flag was raised have ended, however many
\* callers closed the session at once and whichever of them failed (close).
THEOREM CloseJoinsEveryRun == NativeSpec => []ClosedMeansJoined
  <1>1. NInv /\ RunsInOrder => ClosedMeansJoined
    <2>1. ASSUME NInv, RunsInOrder, agent.closed, \A c \in Callers : call[c].op \notin Closers
          PROVE  agent.owed \cap agent.active = {} /\ \A w \in Workers : thread[w].pc = "done"
      <3>1. agent.owed \cap agent.active = {}
        BY <2>1 DEF RunsInOrder, Closers
      <3>2. joined
        BY <2>1 DEF NInv, CloseInOrder, Closers, Waiting
      <3>3. AllDone
        BY <2>1, <3>2 DEF NInv, CloseInOrder, Closers
      <3> QED
        BY <3>1, <3>3 DEF AllDone
    <2> QED
      BY <2>1 DEF NInv, CloseInOrder, ClosedMeansJoined
  <1>2. NInv /\ RunsInOrder /\ [NativeNext]_nativeVars => RunsInOrder'
    BY NativeNextRuns
  <1> QED
    BY <1>1, <1>2, RunsAtFirst, InvariantOfTheSession, PTL DEF NativeSpec

-----------------------------------------------------------------------------
(* The parts of the session fit together: beside the invariant of the      *)
(* session, what the page service keeps, and that the pages and the tokens *)
(* the calls go about with are those of the document and of the table.     *)
Fits ==
  /\ actor.loaded \subseteq Pages
  /\ \A c \in Callers : call[c].op = "paging" => call[c].subject \in Pages
  /\ proposals \subseteq [token : Tokens, base : Revisions]
  /\ silent \in 0 .. MaxSilent

PartsInv == NInv /\ RunsInOrder /\ PInv /\ Fits

LEMMA ConsumedPages ==
  ASSUME PInv, NEW c \in Callers, Consumed(c)
  PROVE  PInv'
  <1>1. service' = service /\ asked' = asked /\ indexing' = indexing
    BY DEF Consumed
  <1>2. thread \in [Threads -> ThreadStates] /\ c \in Threads
    BY DEF PInv, IInv, Types, Threads
  <1>3. \A u \in Threads : thread'[u].page = thread[u].page /\ (thread'[u].pc \in Busy => thread[u].pc \in Busy)
    BY <1>2 DEF Consumed, ThreadStates, Busy
  <1>4. OnPages'
    BY <1>3, PagesStay DEF PInv
  <1>5. IInv'
    BY ConsumedStep DEF PInv
  <1> QED
    BY <1>1, <1>4, <1>5 DEF PInv, NotThere, Resident, Counts

\* Who leaves the page service alone.
LEMMA PagesUntouched ==
  ASSUME PInv, UNCHANGED pages
  PROVE  PInv'
  <1>1. UNCHANGED vars
    BY DEF vars, pages
  <1> QED
    BY <1>1, StutterPages

\* Every step of the session is one of the page service, or none.
LEMMA NativeNextPages ==
  ASSUME PartsInv, [NativeNext]_nativeVars
  PROVE  PInv'
  <1>1. PInv /\ NativeTypes
    BY DEF PartsInv, NInv
  <1>2. \A c \in Callers : call[c].revision \in Revisions
    BY <1>1 DEF NativeTypes, Calls
  <1>3. ASSUME NEW c \in Callers, TellPages(c) \/ RemoveProposal(c) PROVE PInv'
    BY <1>1, <1>2, <1>3, SetRevisionPages DEF TellPages, RemoveProposal
  <1>4. ASSUME NEW c \in Callers, Hydrate(c) PROVE PInv'
    BY <1>1, <1>4, ConsumedPages DEF Hydrate
  <1>5. ASSUME NEW c \in Callers, StopIndexer(c) PROVE PInv'
    BY <1>1, <1>5, CancelIndexingPages, PagesUntouched DEF StopIndexer
  <1>6. ASSUME NEW c \in Callers,
               FileProposal(c) \/ ApplyFallback(c) \/ JoinIndexer(c) \/ CloseActor(c)
                 \/ StartAgentRun(c) \/ SpawnWorker(c) \/ RegisterRun(c)
                 \/ CloseAgent(c) \/ CollectRuns(c) \/ JoinAgent(c)
        PROVE  UNCHANGED pages
    BY <1>6 DEF FileProposal, ApplyFallback, JoinIndexer, CloseActor, StartAgentRun, SpawnWorker,
                RegisterRun, CloseAgent, CollectRuns, JoinAgent
  <1>7. ASSUME NEW c \in Callers, Proceed(c) \/ StartAgentRun(c) \/ CloseAgent(c) PROVE PInv'
    BY <1>1, <1>3, <1>4, <1>5, <1>6, <1>7, PagesUntouched DEF Proceed
  <1>8. ASSUME NEW c \in Callers, NEW p \in Pages, NEW priority \in Asked, NEW expected \in Revisions,
               PageScene(c, p, priority, expected)
        PROVE  PInv'
    BY <1>1, <1>8, RequestPages DEF PageScene
  <1>9. ASSUME NEW c \in Callers, NEW base \in Revisions,
               Submit(c, base) \/ ApproveFontFallback(c, base) \/ ProposeFontFallback(c, base)
        PROVE  PInv'
    BY <1>1, <1>9, PagesUntouched DEF Submit, ApproveFontFallback, ProposeFontFallback
  <1>10. ASSUME NEW t \in Threads, PageStep(t) PROVE PInv'
    BY <1>1, <1>10, NextPages DEF PageStep, Next
  <1>11. ASSUME Checkpoint \/ AgentCommits PROVE PInv'
    BY <1>1, <1>11, PagesUntouched DEF Checkpoint, AgentCommits
  <1>12. ASSUME NEW k \in Runs, EndWorker(k) PROVE PInv'
    BY <1>1, <1>12, PagesUntouched DEF EndWorker
  <1>13. ASSUME UNCHANGED nativeVars PROVE PInv'
    BY <1>1, <1>13, PagesUntouched DEF nativeVars, pages
  <1> QED
    BY <1>7, <1>8, <1>9, <1>10, <1>11, <1>12, <1>13 DEF NativeNext

\* Calls other than page_scene may come and go.
LEMMA FitsKept ==
  ASSUME Fits, proposals' \subseteq [token : Tokens, base : Revisions],
         actor'.loaded = actor.loaded, silent' \in 0 .. MaxSilent,
         \A c \in Callers : call'[c] = call[c] \/ call'[c].op # "paging"
  PROVE  Fits'
  <1> QED
    BY DEF Fits

\* One call enters another operation.
LEMMA OneCall ==
  ASSUME NativeTypes, NEW c, NEW op, op # "paging", NEW r, NEW n, Enter(c, op, r, n) \/ Finish(c)
  PROVE  \A d \in Callers : call'[d] = call[d] \/ call'[d].op # "paging"
  <1>1. call \in [Callers -> Calls]
    BY DEF NativeTypes
  <1> QED
    BY <1>1 DEF Enter, Finish

LEMMA AdvanceLoads ==
  ASSUME NativeTypes, Advance
  PROVE  actor'.loaded = actor.loaded
  <1> QED
    BY DEF Advance, NativeTypes

\* A page that is hydrated is one that was asked for; one that is asked for is
\* a page of the document.
LEMMA NativeNextFits ==
  ASSUME PartsInv, [NativeNext]_nativeVars
  PROVE  Fits'
  <1>1. NativeTypes /\ Fits
    BY DEF PartsInv, NInv
  <1>2. /\ proposals \subseteq [token : Tokens, base : Revisions] /\ silent \in 0 .. MaxSilent
        /\ call \in [Callers -> Calls] /\ silent \in Nat
    BY <1>1 DEF Fits, NativeTypes
  <1> DEFINE Others == \A d \in Callers : call'[d] = call[d] \/ call'[d].op # "paging"
  <1>3. ASSUME NEW c \in Callers, NEW base \in Revisions,
               Submit(c, base) \/ ApproveFontFallback(c, base) \/ ProposeFontFallback(c, base)
        PROVE  Fits'
    <2>1. Others
      BY <1>1, <1>3, OneCall DEF Submit, ApproveFontFallback, ProposeFontFallback
    <2>2. proposals' = proposals /\ silent' = silent
      BY <1>3 DEF Submit, ApproveFontFallback, ProposeFontFallback, fallback
    <2>3. actor'.loaded = actor.loaded
      BY <1>1, <1>3, AdvanceLoads DEF Submit, ApproveFontFallback, ProposeFontFallback
    <2> QED
      BY <1>1, <1>2, <2>1, <2>2, <2>3, FitsKept
  <1>4. ASSUME NEW c \in Callers, NEW p \in Pages, NEW priority \in Asked, NEW expected \in Revisions,
               PageScene(c, p, priority, expected)
        PROVE  Fits'
    <2>1. call' = [call EXCEPT ![c] = [op |-> "paging", revision |-> expected, subject |-> p]]
      BY <1>4 DEF PageScene, Enter
    <2>2. \A d \in Callers : call'[d].op = "paging" => call'[d].subject \in Pages
      BY <1>1, <1>2, <2>1 DEF Fits
    <2> QED
      BY <1>1, <1>4, <2>2 DEF Fits, PageScene, fallback
  <1>5. ASSUME NEW c \in Callers, Hydrate(c) PROVE Fits'
    <2>1. Others
      BY <1>1, <1>5, OneCall DEF Hydrate
    <2>2. \A d \in Callers : call'[d].op = "paging" => call'[d].subject \in Pages
      BY <1>1, <2>1 DEF Fits
    <2>3. call[c].subject \in Pages
      BY <1>1, <1>5 DEF Fits, Hydrate, In
    <2>4. actor'.loaded \subseteq Pages
      <3>1. actor' = actor \/ actor' = [actor EXCEPT !.loaded = @ \cup {call[c].subject}]
        BY <1>5 DEF Hydrate
      <3> QED
        BY <1>1, <2>3, <3>1 DEF Fits, NativeTypes
    <2> QED
      BY <1>1, <1>5, <2>2, <2>4 DEF Fits, Hydrate, fallback
  <1>6. ASSUME NEW c \in Callers, TellPages(c) \/ RemoveProposal(c) PROVE Fits'
    <2>1. Others
      BY <1>1, <1>6, OneCall DEF TellPages, RemoveProposal
    <2>2. proposals' \subseteq [token : Tokens, base : Revisions]
      BY <1>2, <1>6 DEF TellPages, RemoveProposal
    <2>3. actor' = actor /\ silent' = silent
      BY <1>6 DEF TellPages, RemoveProposal
    <2> QED
      BY <1>1, <1>2, <2>1, <2>2, <2>3, FitsKept
  <1>7. ASSUME NEW c \in Callers, FileProposal(c) PROVE Fits'
    <2>1. Others
      BY <1>1, <1>7, OneCall DEF FileProposal
    <2>2. IssuedFor(call[c].subject, call[c].revision)
      BY <1>7 DEF PartsInv, NInv, TokensStand, FileProposal, In
    <2>3. call[c].subject \in DOMAIN issued
      BY <2>2 DEF IssuedFor
    <2>4. Len(issued) \in Nat /\ DOMAIN issued = 1 .. Len(issued) /\ Len(issued) <= MaxTokens
      BY <1>1 DEF NativeTypes
    <2>5. call[c].subject \in Tokens
      <3>1. MaxTokens \in Nat
        BY NativeAssumption
      <3> DEFINE n == Len(issued)
      <3>2. n \in Nat /\ n <= MaxTokens /\ call[c].subject \in 1 .. n
        BY <2>3, <2>4
      <3> HIDE DEF n
      <3> QED
        BY <3>1, <3>2 DEF Tokens
    <2>6. call[c].revision \in Revisions
      BY <1>2 DEF Calls
    <2>7. proposals' \subseteq [token : Tokens, base : Revisions]
      BY <1>7, <2>5, <2>6 DEF FileProposal
    <2>8. actor' = actor /\ silent' = silent
      BY <1>7 DEF FileProposal
    <2> QED
      BY <1>1, <1>2, <2>1, <2>7, <2>8, FitsKept
  <1>8. ASSUME NEW c \in Callers, ApplyFallback(c) PROVE Fits'
    <2>1. Others
      BY <1>1, <1>8, OneCall DEF ApplyFallback
    <2>2. proposals' = proposals /\ silent' = silent
      BY <1>8 DEF ApplyFallback
    <2>3. actor'.loaded = actor.loaded
      BY <1>1, <1>8, AdvanceLoads DEF ApplyFallback
    <2> QED
      BY <1>1, <1>2, <2>1, <2>2, <2>3, FitsKept
  <1>9. ASSUME NEW c \in Callers,
               CloseAgent(c) \/ CollectRuns(c) \/ JoinAgent(c) \/ StopIndexer(c) \/ JoinIndexer(c)
                 \/ CloseActor(c)
        PROVE  Fits'
    <2>1. Others
      BY <1>1, <1>9, OneCall
         DEF CloseAgent, CollectRuns, JoinAgent, StopIndexer, JoinIndexer, CloseActor
    <2>2. proposals' = proposals /\ silent' = silent
      BY <1>9 DEF CloseAgent, CollectRuns, JoinAgent, StopIndexer, JoinIndexer, CloseActor, fallback
    <2>3. actor'.loaded = actor.loaded
      BY <1>1, <1>9
         DEF CloseAgent, CollectRuns, JoinAgent, StopIndexer, JoinIndexer, CloseActor, NativeTypes
    <2> QED
      BY <1>1, <1>2, <2>1, <2>2, <2>3, FitsKept
  <1>10. ASSUME Checkpoint \/ AgentCommits PROVE Fits'
    <2>1. proposals' = proposals /\ call' = call /\ silent' = silent + 1 /\ silent < MaxSilent
      BY <1>10 DEF Checkpoint, AgentCommits, fallback
    <2>2. actor'.loaded = actor.loaded
      BY <1>1, <1>10, AdvanceLoads DEF Checkpoint, AgentCommits
    <2>3. silent' \in 0 .. MaxSilent
      BY <1>2, <2>1, NativeAssumption
    <2> QED
      BY <1>1, <1>2, <2>1, <2>2, <2>3, FitsKept
  <1>11. ASSUME UNCHANGED <<actor, call, fallback, silent>> PROVE Fits'
    BY <1>1, <1>11 DEF Fits, fallback
  <1>12. ASSUME NEW t \in Threads, PageStep(t) PROVE Fits'
    BY <1>11, <1>12 DEF PageStep
  <1>13. ASSUME UNCHANGED nativeVars PROVE Fits'
    BY <1>11, <1>13 DEF nativeVars, fallback
  <1>14. ASSUME NEW c \in Callers, StartAgentRun(c) \/ SpawnWorker(c) \/ RegisterRun(c) PROVE Fits'
    <2>1. Others
      BY <1>1, <1>14, OneCall DEF StartAgentRun, SpawnWorker, RegisterRun
    <2>2. proposals' = proposals /\ silent' = silent /\ actor' = actor
      BY <1>14 DEF StartAgentRun, SpawnWorker, RegisterRun, fallback
    <2> QED
      BY <1>1, <1>2, <2>1, <2>2, FitsKept
  <1>15. ASSUME NEW k \in Runs, EndWorker(k) PROVE Fits'
    BY <1>11, <1>15 DEF EndWorker
  <1>16. ASSUME NEW c \in Callers, Proceed(c) PROVE Fits'
    BY <1>5, <1>6, <1>7, <1>8, <1>9, <1>14, <1>16 DEF Proceed
  <1> QED
    BY <1>3, <1>4, <1>9, <1>10, <1>12, <1>13, <1>14, <1>15, <1>16 DEF NativeNext

LEMMA PartsInit == NativeInit => PartsInv
  <1> SUFFICES ASSUME NativeInit PROVE PartsInv
    OBVIOUS
  <1>1. NInv /\ RunsInOrder /\ PInv
    BY NativeInitNInv, RunsAtFirst, InitPages DEF NativeInit
  <1>2. Fits
    BY NativeAssumption DEF NativeInit, Fits
  <1> QED
    BY <1>1, <1>2 DEF PartsInv

\* Whatever calls, commits of the agent and the threads of the page service
\* meet, the page service is not ahead of the actor, its scenes and requests
\* are of pages of the document, and so are the pages that are hydrated; a
\* filed proposal is a token that was issued (page_scene, submit, close).
THEOREM ThePartsAgree == NativeSpec => []PartsAgree
  <1>1. PartsInv /\ [NativeNext]_nativeVars => PartsInv'
    BY NativeNextNInv, NativeNextRuns, NativeNextPages, NativeNextFits DEF PartsInv
  <1>2. PartsInv => PartsAgree
    <2> SUFFICES ASSUME PartsInv PROVE PartsAgree
      OBVIOUS
    <2>1. TypeOK
      BY KeptIsCurrent DEF PartsInv, KeptScenesAreCurrent
    <2>2. actor \in [revision : Revisions, loaded : SUBSET Pages, open : BOOLEAN]
      BY DEF PartsInv, NInv, NativeTypes, Fits
    <2>3. NativeTypeOK
      BY <2>1, <2>2 DEF PartsInv, NInv, NativeTypes, RunsInOrder, Fits, NativeTypeOK
    <2> QED
      BY <2>3 DEF PartsAgree, PartsInv, NInv, ToldIsCommitted
  <1> QED
    BY <1>1, <1>2, PartsInit, PTL DEF NativeSpec

===============================================================================
