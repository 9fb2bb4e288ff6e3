---------------------------- MODULE AgentRunProofs ----------------------------
(***************************************************************************)
(* Theorems about AgentRun for every number of callers, every budget and   *)
(* every repository failure.                                               *)
(***************************************************************************)
EXTENDS AgentRun, SequenceTheorems, TLAPS

-----------------------------------------------------------------------------
(* The inductive invariant                                                 *)

\* Where a thread has the approval of the run in hand.
Deciding == {"parking", "granted", "declined", "mismatch", "cancelling"}

Sound(state) ==
  /\ state.pc \in Deciding => state.approval # NoApproval
  /\ state.pc = "recording" /\ state.kind # "read" => state.run.revision < MaxRevision

\* A thread that decides about an approval has one, and a command that is
\* recorded had a revision to make.
HandsAreFull == \A a \in Actors : Sound(actor[a])

\* After a restart nobody drives the run, and nobody can begin to.
RestIsFinal ==
  session.phase = "restarted" =>
    /\ Drivers = {} /\ pending = NoApproval
    /\ \A a \in Actors : actor[a].pc = "idle"

IInv == TypeOK /\ SingleOwner /\ RunsAreOwned /\ HandsAreFull /\ RestIsFinal

-----------------------------------------------------------------------------
(* Types                                                                   *)

LEMMA RunType ==
  /\ NoRun \in RunStates
  /\ \A run \in RunStates :
       /\ run.rounds < MaxRounds => [run EXCEPT !.rounds = @ + 1] \in RunStates
       /\ run.calls < MaxCalls => [run EXCEPT !.calls = @ + 1] \in RunStates
       /\ \A r \in Revisions : [run EXCEPT !.revision = r] \in RunStates
  BY AgentRunAssumption DEF RunStates, NoRun, Revisions

\* An approval has an id, so it is not the one that stands for none.
LEMMA ApprovalType ==
  /\ NoApproval \notin Approvals
  /\ \A approval \in Approvals : approval.id \in Ids /\ approval.run \in RunStates
  BY DEF Approvals, NoApproval, Ids, NoId

LEMMA IdleType == Idle \in ActorStates /\ Idle.pc = "idle"
  BY RunType DEF Idle, ActorStates, Pcs, Ops, Kinds

LEMMA AuditType ==
  ASSUME NEW rows \in Audits
  PROVE  /\ \A status \in Statuses : With(rows, status) \in Audits
         /\ \A id \in Ids, how \in Resolutions : Resolved(rows, id, how) \in Audits
         /\ \A id \in Ids, base \in Revisions : Requested(rows, id, base) \in Audits
         /\ \A commit \in Commits : Linked(rows, commit) \in Audits
         /\ [rows EXCEPT !.exchanged = TRUE] \in Audits
  <1>1. \A status \in Statuses : With(rows, status) \in Audits
    BY DEF With, Audits
  <1>2. \A id \in Ids, how \in Resolutions : Resolved(rows, id, how) \in Audits
    BY DEF Resolved, Audits
  <1>3. \A id \in Ids, base \in Revisions : Requested(rows, id, base) \in Audits
    BY DEF Requested, Audits, Resolutions
  <1>4. \A commit \in Commits : Linked(rows, commit) \in Audits
    BY DEF Linked, Audits
  <1>5. [rows EXCEPT !.exchanged = TRUE] \in Audits
    BY DEF Audits
  <1> QED
    BY <1>1, <1>2, <1>3, <1>4, <1>5

\* The status of the rows is the last one that was written.
LEMMA StatusOfRows ==
  ASSUME NEW rows \in Audits, NEW status \in Statuses
  PROVE  With(rows, status).status = status
  BY DEF With, Audits

\* What is left of the calls of a message is a message or nothing.
LEMMA TailOfBatch ==
  ASSUME NEW batch \in Batches
  PROVE  /\ Tail(batch) \in {<<>>} \cup Batches
         /\ Head(batch) \in Kinds
  <1>1. PICK n \in 1 .. MaxBatch : batch \in [1 .. n -> Kinds]
    BY DEF Batches
  <1>2. n \in Nat /\ n >= 1 /\ n <= MaxBatch /\ n - 1 \in Nat
    BY <1>1, AgentRunAssumption
  <1>3. batch \in Seq(Kinds) /\ Len(batch) = n /\ batch # <<>>
    BY <1>1, <1>2
  <1>4. /\ Tail(batch) \in Seq(Kinds) /\ Len(Tail(batch)) = n - 1
        /\ \A i \in 1 .. n - 1 : Tail(batch)[i] = batch[i + 1]
    BY <1>2, <1>3, HeadTailProperties
  <1>5. Head(batch) \in Kinds
    BY <1>3
  <1>6. CASE n = 1
    <2> DEFINE rest == Tail(batch)
    <2>1. rest \in Seq(Kinds) /\ Len(rest) = 0
      BY <1>4, <1>6
    <2> HIDE DEF rest
    <2>2. rest = <<>>
      BY <2>1, EmptySeq
    <2> QED
      BY <1>5, <2>2 DEF rest
  <1>7. CASE n # 1
    <2>1. n - 1 \in 1 .. MaxBatch /\ Tail(batch) \in [1 .. n - 1 -> Kinds]
      <3>1. n - 1 \in 1 .. MaxBatch
        BY <1>2, <1>7, AgentRunAssumption
      <3>2. Tail(batch) \in [1 .. Len(Tail(batch)) -> Kinds]
        BY <1>4, LenProperties
      <3> QED
        BY <1>4, <3>1, <3>2
    <2>2. ASSUME NEW i \in DOMAIN Tail(batch), i < Len(Tail(batch))
          PROVE  Tail(batch)[i] \in Automatic
      <3>1. i \in 1 .. n - 1 /\ i + 1 \in DOMAIN batch /\ i + 1 < Len(batch)
        BY <1>2, <1>3, <1>4, <2>2
      <3> QED
        BY <1>4, <3>1 DEF Batches
    <2> QED
      BY <1>5, <2>1, <2>2 DEF Batches
  <1> QED
    BY <1>6, <1>7

-----------------------------------------------------------------------------
(* Steps that keep the invariant                                           *)

\* Every variable but the threads has its type.
DataOK ==
  /\ document \in Revisions /\ token \in {"unknown", "clear", "cancelled"}
  /\ pending \in Approvals \cup {NoApproval} /\ issued \in 0 .. MaxApprovals
  /\ session \in [phase : {"open", "closed", "released", "restarted"}, registered : BOOLEAN]
  /\ audit \in Audits /\ commits \subseteq Commits /\ faults \in 0 .. MaxFaults

\* The thread that drives the run goes on with it, leaves it to an approval,
\* or leaves it at rest or to a failure.
LEMMA OwnerSteps ==
  ASSUME IInv, DataOK',
         NEW a \in Actors, actor[a].pc \in Driving,
         NEW next \in ActorStates, Sound(next), actor' = [actor EXCEPT ![a] = next],
         faults' >= faults, session' = session,
         \/ next.pc \in Driving /\ pending' = pending
         \/ next.pc \notin Driving /\ pending' # NoApproval
         \/ /\ next.pc \notin Driving /\ pending' = pending
            /\ faults' > 0 \/ audit'.status \notin Running \cup {"AwaitingApproval"}
  PROVE  IInv'
  <1>0. TypeOK'
    BY DEF IInv, TypeOK, DataOK
  <1>1. \A b \in Actors : actor'[b] = IF b = a THEN next ELSE actor[b]
    BY DEF IInv, TypeOK
  <1>2. Drivers = {a} /\ pending = NoApproval /\ session.phase # "restarted"
    BY DEF IInv, SingleOwner, RestIsFinal, Drivers
  <1>3. Drivers' = IF next.pc \in Driving THEN {a} ELSE {}
    BY <1>1, <1>2 DEF Drivers
  <1>4. SingleOwner'
    BY <1>2, <1>3 DEF SingleOwner
  <1>5. RunsAreOwned'
    BY <1>2, <1>3 DEF RunsAreOwned, IInv, TypeOK, DataOK
  <1>6. HandsAreFull'
    BY <1>1 DEF IInv, HandsAreFull
  <1>7. RestIsFinal'
    BY <1>2 DEF RestIsFinal
  <1> QED
    BY <1>0, <1>4, <1>5, <1>6, <1>7 DEF IInv

\* A thread that does not drive the run takes no part in it.
LEMMA OtherSteps ==
  ASSUME IInv, DataOK',
         NEW a \in Actors, actor[a].pc \notin Driving,
         NEW next \in ActorStates, next.pc \notin Driving, actor' = [actor EXCEPT ![a] = next],
         session.phase # "restarted", session'.phase # "restarted", faults' >= faults,
         pending' # NoApproval <=> pending # NoApproval,
         audit'.status = audit.status
  PROVE  IInv'
  <1>0. TypeOK'
    BY DEF IInv, TypeOK, DataOK
  <1>1. \A b \in Actors : actor'[b] = IF b = a THEN next ELSE actor[b]
    BY DEF IInv, TypeOK
  <1>2. Drivers' = Drivers
    BY <1>1 DEF Drivers
  <1>3. SingleOwner'
    BY <1>2 DEF IInv, SingleOwner
  <1>4. RunsAreOwned'
    BY <1>2 DEF IInv, RunsAreOwned, TypeOK, DataOK
  <1>5. Sound(next)
    BY DEF Sound, Driving, Deciding
  <1>6. HandsAreFull'
    BY <1>1, <1>5 DEF IInv, HandsAreFull
  <1>7. RestIsFinal'
    BY DEF RestIsFinal
  <1> QED
    BY <1>0, <1>3, <1>4, <1>6, <1>7 DEF IInv

\* A thread takes the approval the run waits for, and drives the run from
\* there: no other thread did, as long as there was something to take.
LEMMA TakingSteps ==
  ASSUME IInv, DataOK',
         NEW a \in Actors, pending # NoApproval, pending' = NoApproval,
         NEW next \in ActorStates, next.pc \in Driving, Sound(next), actor' = [actor EXCEPT ![a] = next],
         UNCHANGED <<session, audit, faults>>
  PROVE  IInv'
  <1>0. TypeOK'
    BY DEF IInv, TypeOK, DataOK
  <1>1. \A b \in Actors : actor'[b] = IF b = a THEN next ELSE actor[b]
    BY DEF IInv, TypeOK
  <1>2. Drivers = {} /\ session.phase # "restarted"
    BY DEF IInv, SingleOwner, RestIsFinal
  <1>3. Drivers' = {a}
    BY <1>1, <1>2 DEF Drivers
  <1>4. SingleOwner'
    BY <1>3 DEF SingleOwner
  <1>5. RunsAreOwned'
    BY <1>2, <1>3 DEF RunsAreOwned
  <1>6. HandsAreFull'
    BY <1>1 DEF IInv, HandsAreFull
  <1>7. RestIsFinal'
    BY <1>2 DEF RestIsFinal
  <1> QED
    BY <1>0, <1>4, <1>5, <1>6, <1>7 DEF IInv

LEMMA AfterType ==
  ASSUME TypeOK, NEW a \in Actors
  PROVE  After(a) \in ActorStates /\ After(a).pc \in {"idle", "joining"} /\ Sound(After(a))
  <1>1. [Idle EXCEPT !.pc = "joining", !.op = "close"] \in ActorStates
    BY RunType DEF Idle, ActorStates, Pcs, Ops, Kinds
  <1>2. [Idle EXCEPT !.pc = "joining", !.op = "close"].pc = "joining"
    BY DEF Idle
  <1> QED
    BY <1>1, <1>2, IdleType DEF After, Sound, Deciding

\* The thread that drives the run writes its rows and goes on, or ends the run;
\* or the repository fails and nobody drives the run any more.
LEMMA WriteSteps ==
  ASSUME IInv,
         NEW a \in Actors, actor[a].pc \in Driving,
         NEW writes \in Seq(Audits), writes # <<>>,
         NEW next \in ActorStates, Sound(next),
         \/ next.pc \in Driving
         \/ writes[Len(writes)].status \notin Running \cup {"AwaitingApproval"},
         Write(a, writes, Become(a, next)),
         session' = session, document' \in Revisions, token' \in {"unknown", "clear", "cancelled"},
         issued' \in 0 .. MaxApprovals, commits' \subseteq Commits
  PROVE  IInv'
  <1>1. writes[Len(writes)] \in Audits /\ \A i \in DOMAIN writes : writes[i] \in Audits
    BY LenProperties
  <1>2. audit \in Audits /\ faults \in 0 .. MaxFaults /\ pending \in Approvals \cup {NoApproval}
    BY DEF IInv, TypeOK
  <1>3. session \in [phase : {"open", "closed", "released", "restarted"}, registered : BOOLEAN]
    BY DEF IInv, TypeOK
  <1>4. CASE audit' = writes[Len(writes)] /\ faults' = faults /\ Become(a, next)
    <2>1. DataOK'
      BY <1>1, <1>2, <1>3, <1>4 DEF DataOK, Become
    <2>2. faults' >= faults
      BY <1>2, <1>4
    <2> QED
      BY <1>4, <2>1, <2>2, OwnerSteps DEF Become
  <1>5. ASSUME faults < MaxFaults, faults' = faults + 1,
               audit' \in {audit} \cup {writes[i] : i \in DOMAIN writes},
               actor' = [actor EXCEPT ![a] = After(a)], UNCHANGED pending
        PROVE  IInv'
    <2>1. DataOK'
      BY <1>1, <1>2, <1>3, <1>5, AgentRunAssumption DEF DataOK
    <2>2. faults' >= faults /\ faults' > 0
      BY <1>2, <1>5
    <2>3. After(a) \in ActorStates /\ After(a).pc \notin Driving /\ Sound(After(a))
      BY AfterType DEF IInv, Driving
    <2> QED
      BY <1>5, <2>1, <2>2, <2>3, OwnerSteps
  <1> QED
    BY <1>4, <1>5 DEF Write

\* The run comes to rest.
LEMMA EndSteps ==
  ASSUME IInv,
         NEW a \in Actors, actor[a].pc \in Driving,
         NEW status \in {"Completed", "Cancelled", "Failed", "BudgetPaused"}, End(a, status),
         UNCHANGED <<session, document, token, issued, commits>>
  PROVE  IInv'
  <1> DEFINE row == With(audit, status)
  <1>1. status \in Statuses /\ status \notin Running \cup {"AwaitingApproval"}
    BY DEF Statuses, Terminal, Running
  <1>2. row \in Audits /\ row.status = status
    BY <1>1, AuditType, StatusOfRows DEF IInv, TypeOK
  <1>3. After(a) \in ActorStates /\ Sound(After(a))
    BY AfterType DEF IInv
  <1>4. Write(a, <<row>>, Become(a, After(a)))
    BY DEF End
  <1>5. /\ document' \in Revisions /\ token' \in {"unknown", "clear", "cancelled"}
        /\ issued' \in 0 .. MaxApprovals /\ commits' \subseteq Commits /\ session' = session
    BY DEF IInv, TypeOK
  <1> HIDE DEF row
  <1>6. <<row>> \in Seq(Audits) /\ <<row>> # <<>> /\ <<row>>[Len(<<row>>)] = row
    BY <1>2
  <1> QED
    BY <1>1, <1>2, <1>3, <1>4, <1>5, <1>6, WriteSteps

\* A step that leaves the threads, the approval and the rows alone.
LEMMA StillSteps ==
  ASSUME IInv, DataOK', UNCHANGED <<actor, pending, audit, faults>>, session'.phase = session.phase
  PROVE  IInv'
  <1>1. TypeOK'
    BY DEF IInv, TypeOK, DataOK
  <1>2. Drivers' = Drivers
    BY DEF Drivers
  <1>3. SingleOwner' /\ RunsAreOwned' /\ RestIsFinal'
    BY <1>2 DEF IInv, SingleOwner, RunsAreOwned, RestIsFinal
  <1>4. HandsAreFull'
    BY DEF IInv, HandsAreFull
  <1> QED
    BY <1>1, <1>3, <1>4 DEF IInv

\* What is known of a thread that drives the run.
LEMMA OwnerFacts ==
  ASSUME IInv, NEW a \in Actors, actor[a].pc \in Driving
  PROVE  /\ actor[a] \in ActorStates /\ Sound(actor[a])
         /\ actor[a].run \in RunStates /\ actor[a].approval \in Approvals \cup {NoApproval}
         /\ actor[a].op \in Ops /\ actor[a].kind \in Kinds
         /\ actor[a].batch \in {<<>>} \cup Batches
         /\ pending = NoApproval /\ audit \in Audits /\ session.phase # "restarted"
         /\ faults \in 0 .. MaxFaults /\ document \in Revisions /\ issued \in 0 .. MaxApprovals
         /\ token \in {"unknown", "clear", "cancelled"} /\ commits \subseteq Commits
         /\ session \in [phase : {"open", "closed", "released", "restarted"}, registered : BOOLEAN]
  <1>1. actor[a] \in ActorStates /\ Sound(actor[a])
    BY DEF IInv, TypeOK, HandsAreFull
  <1>2. pending = NoApproval /\ session.phase # "restarted"
    BY DEF IInv, SingleOwner, RestIsFinal, Drivers
  <1> QED
    BY <1>1, <1>2 DEF IInv, TypeOK, ActorStates

\* A thread that drives the run moves on with what it has in hand.
LEMMA GotoType ==
  ASSUME IInv, NEW a \in Actors, actor[a].pc \in Driving,
         NEW pc \in Driving, pc # "recording", pc \in Deciding => actor[a].pc \in Deciding
  PROVE  /\ [actor[a] EXCEPT !.pc = pc] \in ActorStates
         /\ [actor[a] EXCEPT !.pc = pc].pc = pc
         /\ Sound([actor[a] EXCEPT !.pc = pc])
  <1> DEFINE next == [actor[a] EXCEPT !.pc = pc]
  <1>1. next \in ActorStates /\ next.pc = pc /\ next.approval = actor[a].approval
    BY OwnerFacts DEF ActorStates, Pcs
  <1>2. Sound(next)
    BY <1>1, OwnerFacts DEF Sound
  <1> QED
    BY <1>1, <1>2

\* One row is written and the run goes on.
LEMMA RowSteps ==
  ASSUME IInv, NEW a \in Actors, actor[a].pc \in Driving,
         NEW row \in Audits, NEW next \in ActorStates, next.pc \in Driving, Sound(next),
         Write(a, <<row>>, Become(a, next)),
         session' = session, document' \in Revisions, token' \in {"unknown", "clear", "cancelled"},
         issued' \in 0 .. MaxApprovals, commits' \subseteq Commits
  PROVE  IInv'
  <1>1. <<row>> \in Seq(Audits) /\ <<row>> # <<>>
    OBVIOUS
  <1> QED
    BY <1>1, WriteSteps

\* Nothing is written and the run goes on.
LEMMA SilentSteps ==
  ASSUME IInv, NEW a \in Actors, actor[a].pc \in Driving,
         NEW next \in ActorStates, next.pc \in Driving, Sound(next), Become(a, next),
         UNCHANGED <<session, token, issued, audit, faults>>,
         document' \in Revisions, commits' \subseteq Commits
  PROVE  IInv'
  <1>1. DataOK'
    BY OwnerFacts DEF DataOK, Become
  <1>2. faults' >= faults
    BY OwnerFacts
  <1> QED
    BY <1>1, <1>2, OwnerSteps DEF Become

-----------------------------------------------------------------------------
(* The run loop                                                            *)

LEMMA CreateStep == IInv /\ Create => IInv'
  <1> SUFFICES ASSUME IInv, Create PROVE IInv'
    OBVIOUS
  <1>1. Worker \in Actors /\ actor[Worker].pc = "new" /\ actor[Worker].pc \in Driving
    BY DEF Actors, Create, Driving
  <1>2. With(audit, "Queued") \in Audits
    BY <1>1, OwnerFacts, AuditType DEF Statuses, Running
  <1> DEFINE next == [actor[Worker] EXCEPT !.pc = "queued"]
  <1>3. next \in ActorStates /\ next.pc \in Driving /\ Sound(next)
    BY <1>1, GotoType DEF Driving, Deciding
  <1>4. Write(Worker, <<With(audit, "Queued")>>, Become(Worker, next))
    BY DEF Create, Goto
  <1>5. token' \in {"unknown", "clear", "cancelled"}
    BY <1>1, OwnerFacts DEF Create
  <1>6. UNCHANGED <<document, issued, session, commits>>
    BY DEF Create
  <1> HIDE DEF next
  <1> QED
    BY <1>1, <1>2, <1>3, <1>4, <1>5, <1>6, OwnerFacts, RowSteps

LEMMA AssembleStep == IInv /\ Assemble => IInv'
  <1> SUFFICES ASSUME IInv, Assemble PROVE IInv'
    OBVIOUS
  <1>1. Worker \in Actors /\ actor[Worker].pc = "queued" /\ actor[Worker].pc \in Driving
    BY DEF Actors, Assemble, Driving
  <1>2. With(audit, "AssemblingContext") \in Audits
    BY <1>1, OwnerFacts, AuditType DEF Statuses, Running
  <1> DEFINE next == [actor[Worker] EXCEPT !.pc = "assembling"]
  <1>3. next \in ActorStates /\ next.pc \in Driving /\ Sound(next)
    BY <1>1, GotoType DEF Driving, Deciding
  <1>4. Write(Worker, <<With(audit, "AssemblingContext")>>, Become(Worker, next))
    BY DEF Assemble, Goto
  <1>5. UNCHANGED <<document, token, issued, session, commits>>
    BY DEF Assemble
  <1> HIDE DEF next
  <1> QED
    BY <1>1, <1>2, <1>3, <1>4, <1>5, OwnerFacts, RowSteps

LEMMA CallProviderStep == IInv /\ CallProvider => IInv'
  <1> SUFFICES ASSUME IInv, CallProvider PROVE IInv'
    OBVIOUS
  <1>1. Worker \in Actors /\ actor[Worker].pc = "assembling" /\ actor[Worker].pc \in Driving
    BY DEF Actors, CallProvider, Driving
  <1>2. With(audit, "CallingProvider") \in Audits
    BY <1>1, OwnerFacts, AuditType DEF Statuses, Running
  <1> DEFINE next == [actor[Worker] EXCEPT !.pc = "loop"]
  <1>3. next \in ActorStates /\ next.pc \in Driving /\ Sound(next)
    BY <1>1, GotoType DEF Driving, Deciding
  <1>4. Write(Worker, <<With(audit, "CallingProvider")>>, Become(Worker, next))
    BY DEF CallProvider, Goto
  <1>5. UNCHANGED <<document, token, issued, session, commits>>
    BY DEF CallProvider
  <1> HIDE DEF next
  <1> QED
    BY <1>1, <1>2, <1>3, <1>4, <1>5, OwnerFacts, RowSteps

LEMMA NextRoundStep == \A a \in Actors : IInv /\ NextRound(a) => IInv'
  <1> SUFFICES ASSUME NEW a \in Actors, IInv, NextRound(a) PROVE IInv'
    OBVIOUS
  <1>1. actor[a].pc = "loop" /\ actor[a].pc \in Driving
    BY DEF NextRound, Driving
  <1>2. UNCHANGED <<session, document, token, issued, commits>>
    BY DEF NextRound
  <1>3. CASE End(a, "Cancelled") \/ End(a, "BudgetPaused")
    BY <1>1, <1>2, <1>3, EndSteps
  <1>4. CASE /\ actor[a].run.rounds < MaxRounds
             /\ Become(a, [actor[a] EXCEPT !.pc = "provider", !.run.rounds = @ + 1])
             /\ UNCHANGED <<audit, faults>>
    <2> DEFINE run == [actor[a].run EXCEPT !.rounds = @ + 1]
               next == [actor[a] EXCEPT !.pc = "provider", !.run = run]
    <2>1. run \in RunStates
      BY <1>1, <1>4, OwnerFacts, RunType
    <2>2. Become(a, next)
      BY <1>4
    <2> HIDE DEF run
    <2>3. next \in ActorStates /\ next.pc = "provider"
      BY <1>1, <2>1, OwnerFacts DEF ActorStates, Pcs, Driving
    <2>4. next.pc \in Driving /\ Sound(next)
      BY <2>3 DEF Driving, Sound, Deciding
    <2> HIDE DEF next
    <2> QED
      BY <1>1, <1>2, <1>4, <2>2, <2>3, <2>4, OwnerFacts, SilentSteps
  <1> QED
    BY <1>3, <1>4 DEF NextRound

LEMMA ProviderAnswersStep == \A a \in Actors : IInv /\ ProviderAnswers(a) => IInv'
  <1> SUFFICES ASSUME NEW a \in Actors, IInv, ProviderAnswers(a) PROVE IInv'
    OBVIOUS
  <1>1. actor[a].pc = "provider" /\ actor[a].pc \in Driving
    BY DEF ProviderAnswers, Driving
  <1>2. UNCHANGED <<session, document, token, issued, commits>>
    BY DEF ProviderAnswers
  <1>3. CASE End(a, "Cancelled") \/ End(a, "Failed") \/ End(a, "BudgetPaused")
    BY <1>1, <1>2, <1>3, EndSteps
  <1> DEFINE said == [audit EXCEPT !.exchanged = TRUE]
             done == With(said, "Completed")
  <1>4. CASE Write(a, <<said, done>>, Become(a, Idle))
    <2>1. said \in Audits
      BY <1>1, OwnerFacts, AuditType
    <2> HIDE DEF said
    <2>2. done \in Audits /\ done.status = "Completed"
      BY <2>1, AuditType, StatusOfRows DEF Statuses, Terminal
    <2>3. Idle \in ActorStates /\ Sound(Idle)
      BY IdleType DEF Sound, Deciding
    <2> HIDE DEF done
    <2>4. /\ <<said, done>> \in Seq(Audits) /\ <<said, done>> # <<>>
          /\ <<said, done>>[Len(<<said, done>>)] = done
      BY <2>1, <2>2
    <2>5. done.status \notin Running \cup {"AwaitingApproval"}
      BY <2>2 DEF Running
    <2> QED
      BY <1>1, <1>2, <1>4, <2>3, <2>4, <2>5, OwnerFacts, WriteSteps
  <1>5. ASSUME NEW batch \in Batches,
               Become(a, [actor[a] EXCEPT !.pc = "tools", !.batch = batch]),
               UNCHANGED <<audit, faults>>
        PROVE  IInv'
    <2> DEFINE next == [actor[a] EXCEPT !.pc = "tools", !.batch = batch]
    <2>1. next \in ActorStates /\ next.pc = "tools"
      BY <1>1, OwnerFacts DEF ActorStates, Pcs, Driving
    <2>2. next.pc \in Driving /\ Sound(next)
      BY <2>1 DEF Driving, Sound, Deciding
    <2>3. Become(a, next)
      BY <1>5
    <2> HIDE DEF next
    <2> QED
      BY <1>1, <1>2, <1>5, <2>1, <2>2, <2>3, OwnerFacts, SilentSteps
  <1> QED
    BY <1>3, <1>4, <1>5 DEF ProviderAnswers

LEMMA NoMoreToolsStep == \A a \in Actors : IInv /\ NoMoreTools(a) => IInv'
  <1> SUFFICES ASSUME NEW a \in Actors, IInv, NoMoreTools(a) PROVE IInv'
    OBVIOUS
  <1>1. actor[a].pc = "tools" /\ actor[a].pc \in Driving
    BY DEF NoMoreTools, Driving
  <1> DEFINE next == [actor[a] EXCEPT !.pc = "loop"]
  <1>2. next \in ActorStates /\ next.pc \in Driving /\ Sound(next)
    BY <1>1, GotoType DEF Driving, Deciding
  <1>3. Become(a, next) /\ UNCHANGED <<document, token, issued, session, audit, commits, faults>>
    BY DEF NoMoreTools, Goto
  <1> HIDE DEF next
  <1> QED
    BY <1>1, <1>2, <1>3, OwnerFacts, SilentSteps

LEMMA ToolBudgetStep == \A a \in Actors : IInv /\ ToolBudgetIsSpent(a) => IInv'
  <1> SUFFICES ASSUME NEW a \in Actors, IInv, ToolBudgetIsSpent(a) PROVE IInv'
    OBVIOUS
  <1>1. actor[a].pc \in Driving /\ End(a, "BudgetPaused")
    BY DEF ToolBudgetIsSpent, Driving
  <1>2. UNCHANGED <<session, document, token, issued, commits>>
    BY DEF ToolBudgetIsSpent
  <1> QED
    BY <1>1, <1>2, EndSteps

LEMMA StartToolStep == \A a \in Actors : IInv /\ StartTool(a) => IInv'
  <1> SUFFICES ASSUME NEW a \in Actors, IInv, StartTool(a) PROVE IInv'
    OBVIOUS
  <1> DEFINE kind == Head(actor[a].batch)
             run == [actor[a].run EXCEPT !.calls = @ + 1]
             rest == Tail(actor[a].batch)
             taken == [actor[a] EXCEPT !.batch = rest, !.kind = kind, !.run = run]
  <1>1. /\ actor[a].pc = "tools" /\ actor[a].pc \in Driving
        /\ actor[a].batch # <<>> /\ actor[a].run.calls < MaxCalls
    BY DEF StartTool, Driving
  <1>2. UNCHANGED <<document, token, session, commits>>
    BY DEF StartTool
  <1>3. kind \in Kinds /\ rest \in {<<>>} \cup Batches
    BY <1>1, OwnerFacts, TailOfBatch
  <1>4. run \in RunStates
    BY <1>1, OwnerFacts, RunType
  <1>5. actor[a] \in ActorStates
    BY <1>1, OwnerFacts
  <1>6. CASE /\ kind \in Automatic
             /\ Write(a, <<With(audit, "ExecutingTool")>>,
                      Become(a, [taken EXCEPT !.pc = "executing"]))
             /\ UNCHANGED issued
    <2> DEFINE next == [taken EXCEPT !.pc = "executing"]
    <2> HIDE DEF run, rest, kind
    <2>1. next \in ActorStates /\ next.pc = "executing"
      BY <1>3, <1>4, <1>5 DEF ActorStates, Pcs, Driving
    <2>2. next.pc \in Driving /\ Sound(next)
      BY <2>1 DEF Driving, Sound, Deciding
    <2>3. With(audit, "ExecutingTool") \in Audits
      BY <1>1, OwnerFacts, AuditType DEF Statuses, Running
    <2>4. Write(a, <<With(audit, "ExecutingTool")>>, Become(a, next)) /\ UNCHANGED issued
      BY <1>6
    <2> HIDE DEF next
    <2> QED
      BY <1>1, <1>2, <2>1, <2>2, <2>3, <2>4, OwnerFacts, RowSteps
  <1>7. CASE /\ issued < MaxApprovals /\ issued' = issued + 1
             /\ LET awaiting == With(audit, "AwaitingApproval")
                    approval == Proposed(a, issued')
                IN Write(a, <<awaiting, Requested(awaiting, approval.id, approval.base)>>,
                         Become(a, [taken EXCEPT !.pc = "parking", !.approval = approval]))
    <2> DEFINE awaiting == With(audit, "AwaitingApproval")
               approval == Proposed(a, issued')
               shown == Requested(awaiting, approval.id, approval.base)
               next == [taken EXCEPT !.pc = "parking", !.approval = approval]
    <2>1. issued' \in Ids /\ issued' \in 0 .. MaxApprovals
      BY <1>1, <1>7, OwnerFacts, AgentRunAssumption DEF Ids
    <2>2. actor[a].run.revision \in Revisions
      BY <1>1, OwnerFacts DEF RunStates
    <2>3. approval \in Approvals /\ approval.id = issued' /\ approval.base = actor[a].run.revision
      BY <1>4, <2>1, <2>2 DEF Proposed, Approvals
    <2>4. awaiting \in Audits
      BY <1>1, OwnerFacts, AuditType DEF Statuses
    <2>5. shown \in Audits
      BY <2>1, <2>2, <2>3, <2>4, AuditType
    <2>6. Write(a, <<awaiting, shown>>, Become(a, next))
      BY <1>7
    <2> HIDE DEF run, rest, kind, approval, awaiting, shown
    <2>7. next \in ActorStates /\ next.pc = "parking" /\ next.approval = approval
      BY <1>3, <1>4, <1>5, <2>3 DEF ActorStates, Pcs, Driving
    <2>8. next.pc \in Driving /\ Sound(next)
      BY <2>3, <2>7, ApprovalType DEF Driving, Sound
    <2> HIDE DEF next
    <2>9. <<awaiting, shown>> \in Seq(Audits) /\ <<awaiting, shown>> # <<>>
      BY <2>4, <2>5
    <2> QED
      BY <1>1, <1>2, <2>1, <2>6, <2>7, <2>8, <2>9, OwnerFacts, WriteSteps
  <1>8. CASE (End(a, "Completed") \/ End(a, "Failed")) /\ UNCHANGED issued
    BY <1>1, <1>2, <1>8, EndSteps
  <1>9. taken = [actor[a] EXCEPT !.batch = Tail(@), !.kind = kind, !.run.calls = @ + 1]
    BY <1>5 DEF ActorStates
  <1> HIDE DEF taken, run, rest
  <1> QED
    BY <1>6, <1>7, <1>8, <1>9 DEF StartTool

\* The approval in hand is given to the engine, and the thread is done.
LEMMA HandingSteps ==
  ASSUME IInv, NEW a \in Actors, actor[a].pc \in Driving, actor[a].approval # NoApproval,
         pending' = actor[a].approval, actor' = [actor EXCEPT ![a] = Idle],
         UNCHANGED <<document, token, issued, session, commits, faults>>, audit' \in Audits
  PROVE  IInv'
  <1>1. DataOK'
    BY OwnerFacts DEF DataOK
  <1>2. Idle \in ActorStates /\ Idle.pc \notin Driving /\ Sound(Idle)
    BY IdleType DEF Sound, Deciding, Driving
  <1>3. faults' >= faults /\ session' = session
    BY OwnerFacts
  <1>4. pending' # NoApproval
    OBVIOUS
  <1> QED
    BY <1>1, <1>2, <1>3, <1>4, OwnerSteps

LEMMA ParkStep == \A a \in Actors : IInv /\ Park(a) => IInv'
  <1> SUFFICES ASSUME NEW a \in Actors, IInv, Park(a) PROVE IInv'
    OBVIOUS
  <1>1. actor[a].pc = "parking" /\ actor[a].pc \in Driving
    BY DEF Park, Driving
  <1>2. actor[a].approval # NoApproval /\ audit \in Audits
    BY <1>1, OwnerFacts DEF Sound, Deciding
  <1> QED
    BY <1>1, <1>2, HandingSteps DEF Park

LEMMA RefusedSteps ==
  ASSUME IInv, NEW a \in Actors, actor[a].pc \in Driving, Refused(a),
         UNCHANGED <<document, token, issued, session, commits>>
  PROVE  IInv'
  <1> DEFINE row == With(audit, "AwaitingApproval")
  <1>1. CASE actor[a].approval = NoApproval
    BY <1>1, EndSteps DEF Refused
  <1>2. CASE actor[a].approval # NoApproval
    <2>1. row \in Audits
      BY OwnerFacts, AuditType DEF Statuses
    <2>2. Write(a, <<row>>, /\ pending' = actor[a].approval
                            /\ actor' = [actor EXCEPT ![a] = Idle])
      BY <1>2 DEF Refused
    <2> HIDE DEF row
    <2>3. CASE /\ audit' = row /\ faults' = faults
               /\ pending' = actor[a].approval /\ actor' = [actor EXCEPT ![a] = Idle]
      BY <1>2, <2>1, <2>3, HandingSteps
    <2>4. CASE /\ faults < MaxFaults /\ audit' \in {audit, row} /\ faults' = faults + 1
               /\ actor' = [actor EXCEPT ![a] = After(a)] /\ UNCHANGED pending
      <3>1. DataOK'
        BY <2>1, <2>4, OwnerFacts, AgentRunAssumption DEF DataOK
      <3>2. faults' >= faults /\ faults' > 0
        BY <2>4, OwnerFacts
      <3>3. After(a) \in ActorStates /\ After(a).pc \notin Driving /\ Sound(After(a))
        BY AfterType DEF IInv, Driving
      <3> QED
        BY <2>4, <3>1, <3>2, <3>3, OwnerSteps
    <2>5. \A i \in DOMAIN <<row>> : <<row>>[i] = row
      OBVIOUS
    <2>6. <<row>>[Len(<<row>>)] = row
      OBVIOUS
    <2> QED
      BY <2>2, <2>3, <2>4, <2>5, <2>6 DEF Write
  <1> QED
    BY <1>1, <1>2

LEMMA ExecuteStep == \A a \in Actors : IInv /\ Execute(a) => IInv'
  <1> SUFFICES ASSUME NEW a \in Actors, IInv, Execute(a) PROVE IInv'
    OBVIOUS
  <1>1. actor[a].pc = "executing" /\ actor[a].pc \in Driving
    BY DEF Execute, Driving
  <1>2. UNCHANGED <<token, issued, session>>
    BY DEF Execute
  <1>3. CASE Refused(a) /\ UNCHANGED <<document, commits>>
    BY <1>1, <1>2, <1>3, RefusedSteps
  <1>4. CASE /\ actor[a].run.revision = document
             /\ \/ actor[a].kind = "read" /\ UNCHANGED <<document, commits>>
                \/ /\ actor[a].kind # "read" /\ document < MaxRevision
                   /\ document' = document + 1
                   /\ commits' = commits \cup {Commit(a)}
             /\ Goto(a, "recording")
             /\ UNCHANGED <<audit, faults>>
    <2> DEFINE next == [actor[a] EXCEPT !.pc = "recording"]
    <2>1. /\ next \in ActorStates /\ next.pc = "recording"
          /\ next.kind = actor[a].kind /\ next.run = actor[a].run
      BY <1>1, OwnerFacts DEF ActorStates, Pcs, Driving
    <2>2. next.kind # "read" => next.run.revision < MaxRevision
      BY <1>4, <2>1
    <2>3. next.pc \in Driving /\ Sound(next)
      BY <2>1, <2>2 DEF Driving, Sound, Deciding
    <2>4. document' \in Revisions
      BY <1>1, <1>4, OwnerFacts, AgentRunAssumption DEF Revisions
    <2>5. actor[a].approval.id \in Ids \cup {NoId} /\ commits \subseteq Commits
      BY <1>1, OwnerFacts, ApprovalType DEF NoApproval
    <2>6. commits' \subseteq Commits
      <3>1. CASE UNCHANGED commits
        BY <2>5, <3>1
      <3>2. CASE /\ document < MaxRevision /\ document' = document + 1
                 /\ commits' = commits \cup {Commit(a)}
        <4>1. actor[a].run.revision \in Revisions /\ actor[a].run.revision + 1 \in Revisions
          BY <1>4, <2>4, <3>2, <1>1, OwnerFacts
        <4>2. Commit(a) \in Commits
          BY <2>5, <4>1 DEF Commit, Commits
        <4> QED
          BY <2>5, <3>2, <4>2
      <3> QED
        BY <1>4, <3>1, <3>2
    <2>7. Become(a, next)
      BY <1>4 DEF Goto
    <2> HIDE DEF next
    <2> QED
      BY <1>1, <1>2, <1>4, <2>1, <2>3, <2>4, <2>6, <2>7, SilentSteps
  <1> QED
    BY <1>3, <1>4 DEF Execute

\* A command that is recorded leaves a revision to the run.
LEMMA NextRevision ==
  ASSUME IInv, NEW a \in Actors, actor[a].pc = "recording", actor[a].kind # "read"
  PROVE  actor[a].run.revision + 1 \in Revisions
  <1>1. actor[a].run.revision < MaxRevision
    BY DEF IInv, HandsAreFull, Sound
  <1>2. actor[a].run.revision \in Revisions
    BY OwnerFacts DEF Driving, RunStates
  <1> QED
    BY <1>1, <1>2, AgentRunAssumption DEF Revisions

LEMMA RecordStep == \A a \in Actors : IInv /\ Record(a) => IInv'
  <1> SUFFICES ASSUME NEW a \in Actors, IInv, Record(a) PROVE IInv'
    OBVIOUS
  <1> DEFINE id == actor[a].approval.id
             read == actor[a].kind = "read"
             resolved == IF id = NoId THEN audit ELSE Resolved(audit, id, "approved")
             linked == IF read THEN resolved ELSE Linked(resolved, Commit(a))
             last == With(linked, "CallingProvider")
             revision == IF read THEN actor[a].run.revision ELSE actor[a].run.revision + 1
             run == [actor[a].run EXCEPT !.revision = revision]
             next == [actor[a] EXCEPT !.pc = "tools", !.kind = "read", !.approval = NoApproval,
                                      !.run = run]
  <1>1. actor[a].pc = "recording" /\ actor[a].pc \in Driving
    BY DEF Record, Driving
  <1>2. UNCHANGED <<document, token, issued, session, commits>>
    BY DEF Record
  <1>3. id \in Ids \cup {NoId} /\ audit \in Audits /\ actor[a].run.revision \in Revisions
    BY <1>1, OwnerFacts, ApprovalType DEF NoApproval, RunStates
  <1>4. ~read => actor[a].run.revision + 1 \in Revisions
    BY <1>1, NextRevision
  <1>5. resolved \in Audits
    <2>1. id # NoId => Resolved(audit, id, "approved") \in Audits
      BY <1>3, AuditType DEF Resolutions
    <2> QED
      BY <1>3, <2>1
  <1>6. linked \in Audits
    <2> HIDE DEF resolved
    <2>1. ~read => Commit(a) \in Commits
      BY <1>3, <1>4 DEF Commit, Commits
    <2>2. ~read => Linked(resolved, Commit(a)) \in Audits
      BY <1>5, <2>1, AuditType
    <2> QED
      BY <1>5, <2>2
  <1>7. last \in Audits
    <2> HIDE DEF linked
    <2> QED
      BY <1>6, AuditType DEF Statuses, Running
  <1>8. run \in RunStates
    <2>1. revision \in Revisions
      BY <1>3, <1>4
    <2> HIDE DEF revision
    <2> QED
      BY <1>1, <2>1, OwnerFacts, RunType
  <1>9. next \in ActorStates /\ next.pc = "tools"
    <2> HIDE DEF run
    <2>1. actor[a] \in ActorStates
      BY <1>1, OwnerFacts
    <2>2. "tools" \in Pcs /\ "read" \in Kinds
      BY DEF Pcs, Driving, Kinds
    <2> QED
      BY <1>8, <2>1, <2>2 DEF ActorStates
  <1>10. next.pc \in Driving /\ Sound(next)
    <2> HIDE DEF next
    <2> QED
      BY <1>9 DEF Driving, Sound, Deciding
  <1>11. next = [actor[a] EXCEPT !.pc = "tools", !.kind = "read", !.approval = NoApproval,
                                 !.run.revision = IF read THEN @ ELSE @ + 1]
    BY <1>1, OwnerFacts DEF ActorStates
  <1>12. Write(a, <<resolved, linked, last>>, Become(a, next))
    BY <1>11 DEF Record
  <1> HIDE DEF resolved, linked, last, next
  <1>13. <<resolved, linked, last>> \in Seq(Audits) /\ <<resolved, linked, last>> # <<>>
    BY <1>5, <1>6, <1>7
  <1> QED
    BY <1>1, <1>2, <1>9, <1>10, <1>12, <1>13, OwnerFacts, WriteSteps

LEMMA DriveStep == \A a \in Actors : IInv /\ Drive(a) => IInv'
  BY NextRoundStep, ProviderAnswersStep, NoMoreToolsStep, ToolBudgetStep, StartToolStep,
     ParkStep, ExecuteStep, RecordStep DEF Drive

-----------------------------------------------------------------------------
(* The callers of the native session                                       *)

\* What is known of a thread that does not drive the run.
LEMMA CallerFacts ==
  ASSUME IInv, NEW c \in Actors, actor[c].pc # "idle"
  PROVE  /\ actor[c] \in ActorStates /\ session.phase # "restarted" /\ audit \in Audits
         /\ faults \in 0 .. MaxFaults /\ document \in Revisions /\ issued \in 0 .. MaxApprovals
         /\ token \in {"unknown", "clear", "cancelled"} /\ commits \subseteq Commits
         /\ pending \in Approvals \cup {NoApproval}
         /\ session \in [phase : {"open", "closed", "released", "restarted"}, registered : BOOLEAN]
  BY DEF IInv, TypeOK, RestIsFinal

LEMMA RegisterStep == IInv /\ Register => IInv'
  <1> SUFFICES ASSUME IInv, Register PROVE IInv'
    OBVIOUS
  <1>1. session'.phase = session.phase
        /\ session' \in [phase : {"open", "closed", "released", "restarted"}, registered : BOOLEAN]
    BY DEF IInv, TypeOK, Register
  <1>2. DataOK' /\ UNCHANGED <<actor, pending, audit, faults>>
    BY <1>1 DEF IInv, TypeOK, DataOK, Register
  <1> QED
    BY <1>1, <1>2, StillSteps

LEMMA CallStep ==
  \A c \in Callers, op \in {"approve", "reject", "rebase", "cancel"}, id \in Ids \cup {NoId} :
    IInv /\ Call(c, op, id) => IInv'
  <1> SUFFICES ASSUME NEW c \in Callers, NEW op \in {"approve", "reject", "rebase", "cancel"},
                      NEW id \in Ids \cup {NoId}, IInv, Call(c, op, id)
               PROVE  IInv'
    OBVIOUS
  <1> DEFINE next == [Idle EXCEPT !.pc = "asked", !.op = op, !.named = id]
  <1>1. c \in Actors /\ actor[c].pc \notin Driving
    BY DEF Actors, Call, Driving
  <1>2. next \in ActorStates /\ next.pc = "asked"
    BY RunType DEF Idle, ActorStates, Pcs, Ops, Kinds
  <1>3. next.pc \notin Driving
    BY <1>2 DEF Driving
  <1>4. session.phase = "open" /\ session' = session
    BY DEF Call
  <1>5. DataOK' /\ faults' >= faults
    BY DEF IInv, TypeOK, DataOK, Call
  <1>6. actor' = [actor EXCEPT ![c] = next] /\ UNCHANGED <<pending, audit>>
    BY DEF Call
  <1> HIDE DEF next
  <1> QED
    BY <1>1, <1>2, <1>3, <1>4, <1>5, <1>6, OtherSteps

\* The approval in the hands of the caller that took it.
LEMMA HeldType ==
  ASSUME IInv, NEW c \in Actors, pending # NoApproval,
         NEW pc \in Driving, pc # "recording"
  PROVE  Held(c, pc) \in ActorStates /\ Held(c, pc).pc = pc /\ Sound(Held(c, pc))
  <1>1. actor[c] \in ActorStates /\ pending \in Approvals /\ pending.run \in RunStates
    BY ApprovalType DEF IInv, TypeOK
  <1>2. /\ Held(c, pc) \in ActorStates /\ Held(c, pc).pc = pc
        /\ Held(c, pc).approval = pending
    BY <1>1 DEF Held, ActorStates, Pcs, Kinds
  <1>3. Sound(Held(c, pc))
    BY <1>2 DEF Sound
  <1> QED
    BY <1>2, <1>3

LEMMA TakeStep ==
  \A c \in Callers, op \in {"approve", "reject"}, pc \in {"granted", "declined"} :
    IInv /\ Take(c, op, pc) => IInv'
  <1> SUFFICES ASSUME NEW c \in Callers, NEW op \in {"approve", "reject"},
                      NEW pc \in {"granted", "declined"}, IInv, Take(c, op, pc)
               PROVE  IInv'
    OBVIOUS
  <1>1. c \in Actors /\ actor[c].pc # "idle" /\ actor[c].pc \notin Driving
    BY DEF Actors, Take, Asked, Driving
  <1>2. /\ pending' = NoApproval
        /\ UNCHANGED <<document, token, issued, session, audit, commits, faults>>
    BY DEF Take
  <1>3. DataOK' /\ faults' >= faults
    BY <1>1, <1>2, CallerFacts DEF DataOK
  <1>4. CASE pending = NoApproval
    <2>1. actor' = [actor EXCEPT ![c] = Idle]
      BY <1>4 DEF Take
    <2>2. Idle \in ActorStates /\ Idle.pc \notin Driving
      BY IdleType DEF Driving
    <2> QED
      BY <1>1, <1>2, <1>3, <1>4, <2>1, <2>2, CallerFacts, OtherSteps
  <1>5. CASE pending # NoApproval
    <2>1. PICK at \in {"granted", "declined", "mismatch"} :
            actor' = [actor EXCEPT ![c] = Held(c, at)]
      BY <1>5 DEF Take
    <2>2. at \in Driving /\ at # "recording"
      BY DEF Driving
    <2>3. Held(c, at) \in ActorStates /\ Held(c, at).pc \in Driving /\ Sound(Held(c, at))
      BY <1>1, <1>5, <2>2, HeldType
    <2> QED
      BY <1>1, <1>2, <1>3, <1>5, <2>1, <2>3, TakingSteps
  <1> QED
    BY <1>4, <1>5

LEMMA GiveBackStep == \A c \in Callers : IInv /\ GiveBack(c) => IInv'
  <1> SUFFICES ASSUME NEW c \in Callers, IInv, GiveBack(c) PROVE IInv'
    OBVIOUS
  <1>1. c \in Actors /\ actor[c].pc = "mismatch" /\ actor[c].pc \in Driving
    BY DEF Actors, GiveBack, Driving
  <1>2. actor[c].approval # NoApproval /\ audit \in Audits
    BY <1>1, OwnerFacts DEF Sound, Deciding
  <1> QED
    BY <1>1, <1>2, HandingSteps DEF GiveBack

LEMMA ApproveStep == \A c \in Callers : IInv /\ Approve(c) => IInv'
  <1> SUFFICES ASSUME NEW c \in Callers, IInv, Approve(c) PROVE IInv'
    OBVIOUS
  <1>1. CASE Take(c, "approve", "granted")
    BY <1>1, TakeStep
  <1>2. CASE /\ actor[c].pc = "granted"
             /\ Write(c, <<With(audit, "ExecutingTool")>>, Goto(c, "executing"))
             /\ UNCHANGED <<document, token, issued, session, commits>>
    <2>1. c \in Actors /\ actor[c].pc \in Driving
      BY <1>2 DEF Actors, Driving
    <2>2. With(audit, "ExecutingTool") \in Audits
      BY <2>1, OwnerFacts, AuditType DEF Statuses, Running
    <2> DEFINE next == [actor[c] EXCEPT !.pc = "executing"]
    <2>3. next \in ActorStates /\ next.pc \in Driving /\ Sound(next)
      BY <2>1, GotoType DEF Driving, Deciding
    <2>4. Write(c, <<With(audit, "ExecutingTool")>>, Become(c, next))
      BY <1>2 DEF Goto
    <2> HIDE DEF next
    <2> QED
      BY <1>2, <2>1, <2>2, <2>3, <2>4, OwnerFacts, RowSteps
  <1> QED
    BY <1>1, <1>2 DEF Approve

LEMMA RejectStep == \A c \in Callers : IInv /\ Reject(c) => IInv'
  <1> SUFFICES ASSUME NEW c \in Callers, IInv, Reject(c) PROVE IInv'
    OBVIOUS
  <1> DEFINE id == actor[c].approval.id
             resolved == Resolved(audit, id, "rejected")
             last == With(resolved, "CallingProvider")
             next == [actor[c] EXCEPT !.pc = "loop", !.kind = "read", !.approval = NoApproval]
  <1>1. CASE Take(c, "reject", "declined")
    BY <1>1, TakeStep
  <1>2. CASE /\ actor[c].pc = "declined"
             /\ Write(c, <<resolved, last>>, Become(c, next))
             /\ UNCHANGED <<document, token, issued, session, commits>>
    <2>1. c \in Actors /\ actor[c].pc \in Driving
      BY <1>2 DEF Actors, Driving
    <2>2. id \in Ids
      <3>1. Sound(actor[c]) /\ actor[c].approval \in Approvals \cup {NoApproval}
        BY <2>1, OwnerFacts, Zenon
      <3>2. actor[c].pc \in Deciding
        BY <1>2 DEF Deciding
      <3>3. actor[c].approval \in Approvals
        BY <3>1, <3>2 DEF Sound
      <3> QED
        BY <3>3, ApprovalType, Zenon
    <2>3. resolved \in Audits
      BY <2>1, <2>2, OwnerFacts, AuditType DEF Resolutions
    <2> HIDE DEF resolved
    <2>4. last \in Audits
      BY <2>3, AuditType DEF Statuses, Running
    <2>5. next \in ActorStates /\ next.pc = "loop"
      <3>1. actor[c] \in ActorStates
        BY <2>1, OwnerFacts, Zenon
      <3>2. "loop" \in Pcs /\ "read" \in Kinds /\ NoApproval \in Approvals \cup {NoApproval}
        BY DEF Pcs, Driving, Kinds
      <3> QED
        BY <3>1, <3>2 DEF ActorStates
    <2> HIDE DEF next, last
    <2>6. next.pc \in Driving /\ Sound(next)
      BY <2>5 DEF Driving, Sound, Deciding
    <2>7. <<resolved, last>> \in Seq(Audits) /\ <<resolved, last>> # <<>>
      BY <2>3, <2>4
    <2> QED
      BY <1>2, <2>1, <2>5, <2>6, <2>7, OwnerFacts, WriteSteps
  <1> QED
    BY <1>1, <1>2 DEF Reject

\* What rebase does with the approval it was called for.
LEMMA RebaseCases ==
  ASSUME NEW c \in Callers, NEW r \in Revisions, Rebase(c, r), pending.id = actor[c].named
  PROVE  LET fresh == Rebased(pending, issued + 1, r)
             resolved == Resolved(audit, pending.id, "rejected")
         IN \/ /\ pending' = fresh /\ issued' = issued + 1
               /\ audit' = Requested(resolved, fresh.id, fresh.base) /\ faults' = faults
            \/ /\ faults < MaxFaults /\ faults' = faults + 1
               /\ \/ pending' = [pending EXCEPT !.run.revision = r] /\ UNCHANGED <<issued, audit>>
                  \/ pending' = fresh /\ issued' = issued + 1 /\ audit' = resolved
  BY DEF Rebase

LEMMA RebaseStep == \A c \in Callers, r \in Revisions : IInv /\ Rebase(c, r) => IInv'
  <1> SUFFICES ASSUME NEW c \in Callers, NEW r \in Revisions, IInv, Rebase(c, r) PROVE IInv'
    OBVIOUS
  <1>1. c \in Actors /\ actor[c].pc # "idle" /\ actor[c].pc \notin Driving
    BY DEF Actors, Rebase, Asked, Driving
  <1>2. actor' = [actor EXCEPT ![c] = Idle] /\ UNCHANGED <<document, token, session, commits>>
    BY DEF Rebase
  <1>3. Idle \in ActorStates /\ Idle.pc \notin Driving
    BY IdleType DEF Driving
  <1>4. CASE UNCHANGED <<pending, issued, audit, faults>>
    <2>1. DataOK' /\ faults' >= faults
      BY <1>1, <1>2, <1>4, CallerFacts DEF DataOK
    <2> QED
      BY <1>1, <1>2, <1>3, <1>4, <2>1, CallerFacts, OtherSteps
  <1>5. CASE pending # NoApproval /\ pending.id = actor[c].named /\ issued < MaxApprovals
    <2> DEFINE moved == [pending EXCEPT !.run.revision = r]
               fresh == Rebased(pending, issued + 1, r)
               resolved == Resolved(audit, pending.id, "rejected")
               shown == Requested(resolved, fresh.id, fresh.base)
    <2>1. pending \in Approvals /\ pending.id \in Ids /\ pending.run \in RunStates
      BY <1>1, <1>5, CallerFacts, ApprovalType
    <2>2. issued + 1 \in Ids /\ issued + 1 \in 0 .. MaxApprovals
      BY <1>1, <1>5, CallerFacts, AgentRunAssumption DEF Ids
    <2>3. moved \in Approvals
      <3> DEFINE run == [pending.run EXCEPT !.revision = r]
      <3>1. run \in RunStates
        BY <2>1, RunType
      <3>2. moved = [pending EXCEPT !.run = run]
        BY <2>1 DEF Approvals
      <3> HIDE DEF run, moved
      <3> QED
        BY <2>1, <3>1, <3>2 DEF Approvals
    <2>4. fresh \in Approvals /\ fresh.id = issued + 1 /\ fresh.base = r
      <3> DEFINE run == [pending.run EXCEPT !.revision = r]
      <3>1. run \in RunStates
        BY <2>1, RunType
      <3>2. fresh = [pending EXCEPT !.id = issued + 1, !.base = r, !.run = run]
        BY <2>1 DEF Rebased, Approvals
      <3>3. r \in Revisions
        OBVIOUS
      <3> HIDE DEF run, fresh
      <3>4. fresh.id = issued + 1 /\ fresh.base = r
        BY <2>1, <3>2 DEF Approvals
      <3>5. [pending EXCEPT !.id = issued + 1] \in Approvals
        BY <2>1, <2>2 DEF Approvals
      <3>6. [[pending EXCEPT !.id = issued + 1] EXCEPT !.base = r] \in Approvals
        BY <3>3, <3>5 DEF Approvals
      <3>7. [[[pending EXCEPT !.id = issued + 1] EXCEPT !.base = r] EXCEPT !.run = run] \in Approvals
        BY <3>1, <3>6 DEF Approvals
      <3> QED
        BY <3>2, <3>4, <3>7
    <2>5. resolved \in Audits
      BY <1>1, <2>1, CallerFacts, AuditType DEF Resolutions
    <2>6. resolved.status = audit.status
      BY <1>1, CallerFacts DEF Resolved, Audits
    <2> HIDE DEF moved, fresh, resolved
    <2>7. shown \in Audits
      BY <2>2, <2>4, <2>5, AuditType
    <2>8. shown.status = audit.status
      BY <2>5, <2>6 DEF Requested, Audits
    <2> HIDE DEF shown
    <2>9. /\ pending' \in {moved, fresh} /\ issued' \in {issued, issued + 1}
          /\ audit' \in {audit, resolved, shown}
          /\ faults' \in {faults, faults + 1} /\ (faults' # faults => faults < MaxFaults)
      <3>1. \/ /\ pending' = fresh /\ issued' = issued + 1
               /\ audit' = shown /\ faults' = faults
            \/ /\ faults < MaxFaults /\ faults' = faults + 1
               /\ \/ pending' = moved /\ UNCHANGED <<issued, audit>>
                  \/ pending' = fresh /\ issued' = issued + 1 /\ audit' = resolved
        BY <1>5, RebaseCases DEF moved, fresh, resolved, shown
      <3> QED
        BY <3>1
    <2>10. pending' \in Approvals /\ pending' # NoApproval
      BY <2>3, <2>4, <2>9, ApprovalType
    <2>11. audit' \in Audits /\ audit'.status = audit.status
      BY <1>1, <2>5, <2>6, <2>7, <2>8, <2>9, CallerFacts
    <2>12. faults' \in 0 .. MaxFaults /\ faults' >= faults
      BY <1>1, <2>9, CallerFacts, AgentRunAssumption
    <2>13. DataOK'
      BY <1>1, <1>2, <2>2, <2>9, <2>10, <2>11, <2>12, CallerFacts DEF DataOK
    <2> QED
      BY <1>1, <1>2, <1>3, <1>5, <2>10, <2>11, <2>12, <2>13, CallerFacts, OtherSteps
  <1> QED
    BY <1>4, <1>5 DEF Rebase

\* Cancel and close: the caller ends the run that waits, and only that one.
LEMMA CancelRunStep ==
  ASSUME IInv, NEW c \in Callers, actor[c].pc # "idle", actor[c].pc \notin Driving,
         NEW next \in ActorStates, next.pc \notin Driving, CancelRun(c, next)
  PROVE  IInv'
  <1>1. c \in Actors
    BY DEF Actors
  <1>2. pending' = NoApproval /\ UNCHANGED <<document, issued, session, audit, commits, faults>>
    BY DEF CancelRun
  <1>3. token' \in {"unknown", "clear", "cancelled"}
    BY <1>1, CallerFacts DEF CancelRun
  <1>4. DataOK' /\ faults' >= faults
    BY <1>1, <1>2, <1>3, CallerFacts DEF DataOK
  <1>5. CASE pending = NoApproval
    <2>1. actor' = [actor EXCEPT ![c] = next]
      BY <1>5 DEF CancelRun
    <2> QED
      BY <1>1, <1>2, <1>4, <1>5, <2>1, CallerFacts, OtherSteps
  <1>6. CASE pending # NoApproval
    <2>1. actor' = [actor EXCEPT ![c] = Held(c, "cancelling")]
      BY <1>6 DEF CancelRun
    <2>2. "cancelling" \in Driving
      BY DEF Driving
    <2>3. /\ Held(c, "cancelling") \in ActorStates /\ Held(c, "cancelling").pc \in Driving
          /\ Sound(Held(c, "cancelling"))
      BY <1>1, <1>6, <2>2, HeldType
    <2> QED
      BY <1>1, <1>2, <1>4, <1>6, <2>1, <2>3, TakingSteps
  <1> QED
    BY <1>5, <1>6

LEMMA CancelStep == \A c \in Callers : IInv /\ Cancel(c) => IInv'
  <1> SUFFICES ASSUME NEW c \in Callers, IInv, Cancel(c) PROVE IInv'
    OBVIOUS
  <1>1. CASE Asked(c, "cancel") /\ CancelRun(c, Idle)
    <2>1. actor[c].pc # "idle" /\ actor[c].pc \notin Driving
      BY <1>1 DEF Asked, Driving
    <2>2. Idle \in ActorStates /\ Idle.pc \notin Driving
      BY IdleType DEF Driving
    <2> QED
      BY <1>1, <2>1, <2>2, CancelRunStep
  <1>2. CASE /\ actor[c].pc = "cancelling" /\ End(c, "Cancelled")
             /\ UNCHANGED <<document, token, issued, session, commits>>
    <2>1. c \in Actors /\ actor[c].pc \in Driving
      BY <1>2 DEF Actors, Driving
    <2> QED
      BY <1>2, <2>1, EndSteps
  <1> QED
    BY <1>1, <1>2 DEF Cancel

LEMMA CloseSessionStep == \A c \in Callers : IInv /\ CloseSession(c) => IInv'
  <1> SUFFICES ASSUME NEW c \in Callers, IInv, CloseSession(c) PROVE IInv'
    OBVIOUS
  <1>0. c \in Actors
    BY DEF Actors
  <1>1. CASE /\ actor[c].pc = "closing"
             /\ CancelRun(c, [actor[c] EXCEPT !.pc = "joining"])
    <2> DEFINE next == [actor[c] EXCEPT !.pc = "joining"]
    <2>1. next \in ActorStates /\ next.pc = "joining"
      BY <1>0, <1>1, CallerFacts DEF ActorStates, Pcs
    <2>2. next.pc \notin Driving /\ actor[c].pc # "idle" /\ actor[c].pc \notin Driving
      BY <1>1, <2>1 DEF Driving
    <2>3. CancelRun(c, next)
      BY <1>1
    <2> HIDE DEF next
    <2> QED
      BY <2>1, <2>2, <2>3, CancelRunStep
  <1>2. CASE /\ actor[c].pc = "idle" /\ session.phase = "open"
             /\ session' = [session EXCEPT !.phase = "closed"]
             /\ actor' = [actor EXCEPT ![c] = [Idle EXCEPT !.pc = "closing", !.op = "close"]]
             /\ UNCHANGED <<document, token, pending, issued, audit, commits, faults>>
    <2> DEFINE next == [Idle EXCEPT !.pc = "closing", !.op = "close"]
    <2>1. next \in ActorStates /\ next.pc = "closing"
      BY RunType DEF Idle, ActorStates, Pcs, Ops, Kinds
    <2>2. next.pc \notin Driving /\ actor[c].pc \notin Driving
      BY <1>2, <2>1 DEF Driving
    <2>3. /\ session' \in [phase : {"open", "closed", "released", "restarted"}, registered : BOOLEAN]
          /\ session'.phase = "closed"
      BY <1>2 DEF IInv, TypeOK
    <2>4. DataOK' /\ faults' >= faults
      BY <1>2, <2>3 DEF IInv, TypeOK, DataOK
    <2>5. actor' = [actor EXCEPT ![c] = next]
      BY <1>2
    <2> HIDE DEF next
    <2> QED
      BY <1>0, <1>2, <2>1, <2>2, <2>3, <2>4, <2>5, OtherSteps
  <1>3. CASE /\ actor[c].pc \in {"closing", "joining"}
             /\ session' = [session EXCEPT !.phase = "released"]
             /\ actor' = [actor EXCEPT ![c] = Idle]
             /\ UNCHANGED <<document, token, pending, issued, audit, commits, faults>>
    <2>1. actor[c].pc # "idle" /\ actor[c].pc \notin Driving
      BY <1>3 DEF Driving
    <2>2. Idle \in ActorStates /\ Idle.pc \notin Driving
      BY IdleType DEF Driving
    <2>3. /\ session' \in [phase : {"open", "closed", "released", "restarted"}, registered : BOOLEAN]
          /\ session'.phase = "released"
      BY <1>3 DEF IInv, TypeOK
    <2>4. DataOK' /\ faults' >= faults
      BY <1>3, <2>3 DEF IInv, TypeOK, DataOK
    <2> QED
      BY <1>0, <1>3, <2>1, <2>2, <2>3, <2>4, CallerFacts, OtherSteps
  <1> QED
    BY <1>1, <1>2, <1>3 DEF CloseSession

-----------------------------------------------------------------------------
(* The application                                                         *)

LEMMA EditStep == IInv /\ Edit => IInv'
  <1> SUFFICES ASSUME IInv, Edit PROVE IInv'
    OBVIOUS
  <1>1. document' \in Revisions
    BY AgentRunAssumption DEF Edit, IInv, TypeOK, Revisions
  <1>2. DataOK' /\ UNCHANGED <<actor, pending, audit, faults>> /\ session'.phase = session.phase
    BY <1>1 DEF IInv, TypeOK, DataOK, Edit
  <1> QED
    BY <1>2, StillSteps

LEMMA RestartStep == IInv /\ Restart => IInv'
  <1> SUFFICES ASSUME IInv, Restart PROVE IInv'
    OBVIOUS
  <1>1. audit \in Audits /\ audit.status \in Statuses \cup {"none"}
    BY DEF IInv, TypeOK, Audits
  <1>2. audit' \in Audits /\ audit'.status \notin Running
    <2>1. CASE audit.status \in Running
      <3>1. audit' = With(audit, "Failed")
        BY <2>1 DEF Restart, Interrupted
      <3> QED
        BY <1>1, <3>1, AuditType, StatusOfRows DEF Statuses, Terminal, Running
    <2>2. CASE audit.status \notin Running
      <3>1. audit' = [audit EXCEPT !.status = audit.status]
        BY <2>2 DEF Restart, Interrupted, With
      <3>2. audit' = audit
        BY <1>1, <3>1 DEF Audits
      <3> QED
        BY <1>1, <2>2, <3>2
    <2> QED
      BY <2>1, <2>2
  <1>3. \A a \in Actors : actor'[a] = Idle
    BY DEF Restart
  <1>4. /\ session' \in [phase : {"open", "closed", "released", "restarted"}, registered : BOOLEAN]
        /\ session'.phase = "restarted" /\ pending' = NoApproval
    BY DEF Restart
  <1>5. TypeOK'
    <2>1. actor' \in [Actors -> ActorStates]
      BY IdleType DEF Restart
    <2> QED
      BY <1>2, <1>4, <2>1 DEF IInv, TypeOK, Restart
  <1>6. Drivers' = {} /\ \A a \in Actors : actor'[a].pc = "idle"
    BY <1>3, IdleType DEF Drivers, Driving
  <1>7. SingleOwner' /\ RunsAreOwned' /\ RestIsFinal'
    BY <1>2, <1>4, <1>6 DEF SingleOwner, RunsAreOwned, RestIsFinal
  <1>8. HandsAreFull'
    BY <1>6 DEF HandsAreFull, Sound, Deciding
  <1> QED
    BY <1>5, <1>7, <1>8 DEF IInv

LEMMA StutterStep == IInv /\ UNCHANGED vars => IInv'
  <1> SUFFICES ASSUME IInv, UNCHANGED vars PROVE IInv'
    OBVIOUS
  <1>1. DataOK' /\ UNCHANGED <<actor, pending, audit, faults>> /\ session'.phase = session.phase
    BY DEF IInv, TypeOK, DataOK, vars
  <1> QED
    BY <1>1, StillSteps

-----------------------------------------------------------------------------
(* The theorem                                                             *)

LEMMA InitIInv == Init => IInv
  <1> SUFFICES ASSUME Init PROVE IInv
    OBVIOUS
  <1>1. [Idle EXCEPT !.pc = "new"] \in ActorStates /\ [Idle EXCEPT !.pc = "new"].pc = "new"
    BY RunType DEF Idle, ActorStates, Pcs, Driving, Ops, Kinds
  <1>2. actor \in [Actors -> ActorStates]
    BY <1>1, IdleType DEF Init
  <1>3. \A a \in Actors : actor[a].pc = IF a = Worker THEN "new" ELSE "idle"
    BY <1>1, IdleType DEF Init
  <1>4. audit \in Audits
    BY AgentRunAssumption DEF Init, Audits, Resolutions, Revisions
  <1>5. TypeOK
    BY <1>2, <1>4, AgentRunAssumption DEF Init, TypeOK, Revisions
  <1>6. Drivers = {Worker}
    BY <1>3 DEF Drivers, Driving, Actors
  <1>7. pending = NoApproval /\ session.phase = "open"
    BY DEF Init
  <1>8. SingleOwner /\ RunsAreOwned /\ RestIsFinal
    BY <1>6, <1>7 DEF SingleOwner, RunsAreOwned, RestIsFinal
  <1>9. HandsAreFull
    BY <1>3 DEF HandsAreFull, Sound, Deciding
  <1> QED
    BY <1>5, <1>8, <1>9 DEF IInv

LEMMA NextIInv == IInv /\ [Next]_vars => IInv'
  <1> SUFFICES ASSUME IInv, [Next]_vars PROVE IInv'
    OBVIOUS
  <1>1. ASSUME WorkerStep PROVE IInv'
    <2>1. Worker \in Actors
      BY DEF Actors
    <2> QED
      BY <1>1, <2>1, CreateStep, AssembleStep, CallProviderStep, DriveStep DEF WorkerStep
  <1>2. ASSUME NEW c \in Callers, CallerStep(c) PROVE IInv'
    <2>1. c \in Actors
      BY DEF Actors
    <2> QED
      BY <1>2, <2>1, GiveBackStep, ApproveStep, RejectStep, RebaseStep, CancelStep, DriveStep
      DEF CallerStep
  <1>3. ASSUME NEW c \in Callers,
               \/ \E op \in {"approve", "reject", "rebase"}, i \in Ids : Call(c, op, i)
               \/ Call(c, "cancel", NoId)
        PROVE  IInv'
    <2>1. PICK op \in {"approve", "reject", "rebase", "cancel"}, i \in Ids \cup {NoId} : Call(c, op, i)
      BY <1>3
    <2> QED
      BY <2>1, CallStep
  <1> QED
    BY <1>1, <1>2, <1>3, RegisterStep, CloseSessionStep, EditStep, RestartStep, StutterStep
    DEF Next

\* The parts of the invariant hold in every state of the run.
THEOREM InvariantOfTheRun == Spec => []IInv
  <1> QED
    BY InitIInv, NextIInv, PTL DEF Spec

\* Whoever approves, rejects, rebases, cancels or closes, however often the
\* repository fails and wherever the process stops: a run that is not at rest
\* has exactly one owner (run.rs, agent_api.rs).
THEOREM OneOwner == Spec => []RunsHaveOneOwner
  <1>1. IInv => RunsHaveOneOwner
    BY DEF IInv, RunsHaveOneOwner
  <1> QED
    BY <1>1, InvariantOfTheRun, PTL

-----------------------------------------------------------------------------
(* The books: approvals, commands and the links between them               *)

\* The repository does not fail in the middle of a rebase.
RebasesAreWhole == "rebase" \notin FaultyIn

\* The repository holds the approval as it was shown, and it is unresolved.
Live(approval) ==
  /\ approval.id <= issued
  /\ audit.approval[approval.id] = "pending"
  /\ audit.shown[approval.id] = approval.base
  /\ approval.run.revision = approval.base

Unspent(approval) == \A c \in commits : c.approval # approval.id

\* What a thread may have in hand: nothing, or the one live approval, which
\* is spent when its command is being recorded and not before.
Fits(state) ==
  state.approval # NoApproval =>
    /\ state.pc \in Deciding \cup {"executing", "recording"}
    /\ Live(state.approval)
    /\ state.pc # "recording" => Unspent(state.approval)
    /\ state.pc \in {"granted", "executing", "recording"} =>
         state.kind # "read" /\ state.run.revision = state.approval.base

Bound ==
  /\ CommitsAreBound
  /\ \A c \in commits : c.approval <= issued
  /\ pending # NoApproval => Live(pending) /\ Unspent(pending)
  /\ \A a \in Actors : Fits(actor[a])

Recording(state) == state.pc = "recording" /\ state.kind # "read"

\* The run was lost in a failure or a stop, and nobody will go on with it.
NobodyLeft ==
  /\ Drivers = {} /\ pending = NoApproval
  /\ faults > 0 \/ session.phase = "restarted"

\* A command without a link is the last one: its thread is about to link it,
\* or the run is lost.
LinksKept ==
  /\ audit.links \subseteq commits
  /\ \A c \in commits : c.to <= document
  /\ \A a \in Actors : Recording(actor[a]) => Commit(a) \in commits
  /\ \A c \in commits \ audit.links :
       /\ \A d \in commits : d.to <= c.to
       /\ NobodyLeft \/ \E a \in Actors : Recording(actor[a]) /\ Commit(a) = c

Books == (RebasesAreWhole => Bound) /\ LinksKept

\* The approvals, what was shown and the links are as they were.
SameBooks ==
  /\ audit'.approval = audit.approval
  /\ audit'.shown = audit.shown
  /\ audit'.links = audit.links

LEMMA BooksType ==
  ASSUME IInv
  PROVE  /\ audit.approval \in [Ids -> Resolutions] /\ audit.shown \in [Ids -> Revisions]
         /\ audit.links \subseteq Commits /\ commits \subseteq Commits
         /\ issued \in 0 .. MaxApprovals /\ document \in Revisions
  BY DEF IInv, TypeOK, Audits

LEMMA CommitType ==
  ASSUME NEW c \in Commits
  PROVE  c.approval \in Nat /\ c.from \in Nat /\ c.to \in Nat
         /\ (c.approval # NoId => c.approval \in Ids)
  BY AgentRunAssumption DEF Commits, Ids, NoId, Revisions

\* Only the thread that drives the run has an approval in hand.
LEMMA OthersHoldNothing ==
  ASSUME Bound, NEW b \in Actors, actor[b].pc \notin Driving
  PROVE  actor[b].approval = NoApproval
  BY DEF Bound, Fits, Driving, Deciding

\* A state without an approval, as a thread is in when it is done.
LEMMA EmptyHands ==
  /\ Idle.approval = NoApproval /\ Idle.pc = "idle"
  /\ \A a \in Actors : /\ After(a).approval = NoApproval /\ After(a).pc \in {"idle", "joining"}
                       /\ After(a).kind = "read"
  /\ \A state : state.approval = NoApproval => Fits(state)
  BY DEF Idle, After, Fits

\* The books stay bound when rows and commands are left alone.
LEMMA QuietBound ==
  ASSUME IInv, Bound, SameBooks, UNCHANGED <<commits, issued>>,
         NEW a \in Actors, NEW next, Fits(next), actor' = [actor EXCEPT ![a] = next],
         NEW left, pending' = left, left # NoApproval => Live(left) /\ Unspent(left)
  PROVE  Bound'
  <1>1. \A b \in Actors : actor'[b] = IF b = a THEN next ELSE actor[b]
    BY DEF IInv, TypeOK
  <1>2. \A approval : /\ Live(approval) => Live(approval)'
                      /\ Unspent(approval) => Unspent(approval)'
    BY DEF Live, Unspent, SameBooks
  <1>3. CommitsAreBound'
    BY DEF Bound, CommitsAreBound, SameBooks
  <1>4. ASSUME NEW b \in Actors PROVE Fits(actor[b])'
    <2>1. CASE b = a
      BY <1>1, <1>2, <2>1 DEF Fits
    <2>2. CASE b # a
      BY <1>1, <1>2, <2>2 DEF Fits, Bound
    <2> QED
      BY <2>1, <2>2
  <1>5. \A c \in commits' : c.approval <= issued'
    BY DEF Bound
  <1>6. pending' # NoApproval => Live(pending)' /\ Unspent(pending)'
    BY <1>2 DEF Live, Unspent, SameBooks
  <1> QED
    BY <1>3, <1>4, <1>5, <1>6 DEF Bound

\* While a thread that records nothing drives the run, every command has its
\* link; whatever else that thread does leaves it so.
LEMMA NothingUnlinked ==
  ASSUME IInv, LinksKept, NEW a \in Actors, actor[a].pc \in Driving, ~Recording(actor[a])
  PROVE  commits \subseteq audit.links /\ \A b \in Actors : ~Recording(actor[b])
  <1>1. Drivers = {a}
    BY DEF IInv, SingleOwner, Drivers
  <1>2. \A b \in Actors : ~Recording(actor[b])
    BY <1>1 DEF Drivers, Recording, Driving
  <1>3. ~NobodyLeft
    BY <1>1 DEF NobodyLeft
  <1> QED
    BY <1>2, <1>3 DEF LinksKept

LEMMA QuietDriver ==
  ASSUME IInv, Books, SameBooks, UNCHANGED <<commits, issued, document>>,
         NEW a \in Actors, actor[a].pc \in Driving, ~Recording(actor[a]),
         NEW next, RebasesAreWhole => Fits(next), ~Recording(next),
         actor' = [actor EXCEPT ![a] = next],
         \/ pending' = NoApproval
         \/ pending' = actor[a].approval /\ actor[a].pc # "recording"
  PROVE  Books'
  <1>1. \A b \in Actors : actor'[b] = IF b = a THEN next ELSE actor[b]
    BY DEF IInv, TypeOK
  <1>2. commits \subseteq audit.links /\ \A b \in Actors : ~Recording(actor[b])
    BY NothingUnlinked DEF Books
  <1>3. LinksKept'
    <2>1. \A b \in Actors : ~Recording(actor[b])'
      BY <1>1, <1>2 DEF Recording
    <2>2. commits' \subseteq audit'.links /\ audit'.links \subseteq commits'
      BY <1>2 DEF SameBooks, Books, LinksKept
    <2> QED
      BY <2>1, <2>2 DEF Books, LinksKept
  <1>4. ASSUME RebasesAreWhole PROVE Bound'
    <2>1. Bound /\ Fits(next)
      BY <1>4 DEF Books
    <2>2. actor[a].pc # "recording" /\ actor[a].approval # NoApproval =>
            Live(actor[a].approval) /\ Unspent(actor[a].approval)
      BY <2>1 DEF Bound, Fits
    <2>3. PICK left : pending' = left /\ (left # NoApproval => Live(left) /\ Unspent(left))
      BY <2>2
    <2> QED
      BY <2>1, <2>3, QuietBound
  <1>5. RebasesAreWhole' <=> RebasesAreWhole
    BY DEF RebasesAreWhole
  <1> QED
    BY <1>3, <1>4, <1>5 DEF Books

\* The thread that drives the run writes rows that say nothing of approvals
\* and links; when the repository fails it leaves the run.
LEMMA QuietWrites ==
  ASSUME IInv, Books, UNCHANGED <<commits, issued, document>>,
         NEW a \in Actors, actor[a].pc \in Driving, ~Recording(actor[a]),
         NEW next, RebasesAreWhole => Fits(next), ~Recording(next),
         NEW writes, writes # <<>>, writes \in Seq(Audits),
         \A i \in DOMAIN writes : /\ writes[i].approval = audit.approval
                                  /\ writes[i].shown = audit.shown
                                  /\ writes[i].links = audit.links,
         Write(a, writes, Become(a, next))
  PROVE  Books'
  <1>1. Len(writes) \in DOMAIN writes
    BY LenProperties
  <1>2. SameBooks
    BY <1>1 DEF Write, SameBooks
  <1>3. pending' = NoApproval
    BY OwnerFacts DEF Write, Become
  <1>4. CASE actor' = [actor EXCEPT ![a] = next]
    BY <1>2, <1>3, <1>4, QuietDriver
  <1>5. CASE actor' = [actor EXCEPT ![a] = After(a)]
    <2>1. Fits(After(a)) /\ ~Recording(After(a))
      BY EmptyHands DEF Recording
    <2> QED
      BY <1>2, <1>3, <1>5, <2>1, QuietDriver
  <1> QED
    BY <1>4, <1>5 DEF Write, Become

LEMMA RowBooks ==
  ASSUME IInv, Books, UNCHANGED <<commits, issued, document>>,
         NEW a \in Actors, actor[a].pc \in Driving, ~Recording(actor[a]),
         NEW next, RebasesAreWhole => Fits(next), ~Recording(next),
         NEW status \in Statuses, Write(a, <<With(audit, status)>>, Become(a, next))
  PROVE  Books'
  <1> DEFINE row == With(audit, status)
  <1>1. /\ row \in Audits /\ row.approval = audit.approval
        /\ row.shown = audit.shown /\ row.links = audit.links
    BY OwnerFacts, AuditType DEF With, Audits
  <1>2. Write(a, <<row>>, Become(a, next))
    OBVIOUS
  <1> HIDE DEF row
  <1>3. <<row>> \in Seq(Audits) /\ <<row>> # <<>> /\ \A i \in DOMAIN <<row>> : <<row>>[i] = row
    BY <1>1
  <1> QED
    BY <1>1, <1>2, <1>3, QuietWrites

LEMMA EndBooks ==
  ASSUME IInv, Books, UNCHANGED <<commits, issued, document>>,
         NEW a \in Actors, actor[a].pc \in Driving, ~Recording(actor[a]),
         NEW status \in Statuses, End(a, status)
  PROVE  Books'
  <1>1. Fits(After(a)) /\ ~Recording(After(a))
    BY EmptyHands DEF Recording
  <1> QED
    BY <1>1, RowBooks DEF End

\* Where a thread works with nothing in its hands.
LEMMA NothingInHand ==
  ASSUME Books, RebasesAreWhole, NEW a \in Actors,
         actor[a].pc \notin Deciding \cup {"executing", "recording"}
  PROVE  actor[a].approval = NoApproval
  BY DEF Books, Bound, Fits

\* A driving thread goes on with nothing in its hands.
LEMMA GotoBooks ==
  ASSUME IInv, Books, NEW a \in Actors, actor[a].pc \in Driving \ (Deciding \cup {"executing", "recording"}),
         NEW next \in ActorStates, next.pc # "recording", next.approval = actor[a].approval
  PROVE  (RebasesAreWhole => Fits(next)) /\ ~Recording(next) /\ ~Recording(actor[a])
  <1>1. RebasesAreWhole => Fits(next)
    BY NothingInHand, EmptyHands
  <1> QED
    BY <1>1 DEF Recording

LEMMA WorkerBooks == IInv /\ Books /\ (Create \/ Assemble \/ CallProvider) => Books'
  <1> SUFFICES ASSUME IInv, Books, Create \/ Assemble \/ CallProvider PROVE Books'
    OBVIOUS
  <1>1. PICK status \in {"Queued", "AssemblingContext", "CallingProvider"},
             pc \in {"queued", "assembling", "loop"} :
          /\ Write(Worker, <<With(audit, status)>>, Become(Worker, [actor[Worker] EXCEPT !.pc = pc]))
          /\ UNCHANGED <<commits, issued, document>>
    BY DEF Create, Assemble, CallProvider, Goto
  <1> DEFINE next == [actor[Worker] EXCEPT !.pc = pc]
  <1>2. /\ Worker \in Actors
        /\ actor[Worker].pc \in Driving \ (Deciding \cup {"executing", "recording"})
    BY DEF Actors, Driving, Deciding, Create, Assemble, CallProvider
  <1>3. next \in ActorStates /\ next.pc = pc /\ next.approval = actor[Worker].approval
    BY <1>2, OwnerFacts DEF ActorStates, Pcs, Driving
  <1>4. Write(Worker, <<With(audit, status)>>, Become(Worker, next))
    BY <1>1
  <1> HIDE DEF next
  <1>5. (RebasesAreWhole => Fits(next)) /\ ~Recording(next) /\ ~Recording(actor[Worker])
    BY <1>2, <1>3, GotoBooks
  <1>6. status \in Statuses
    BY DEF Statuses, Running
  <1> QED
    BY <1>1, <1>2, <1>4, <1>5, <1>6, RowBooks

LEMMA NextRoundBooks == \A a \in Actors : IInv /\ Books /\ NextRound(a) => Books'
  <1> SUFFICES ASSUME NEW a \in Actors, IInv, Books, NextRound(a) PROVE Books'
    OBVIOUS
  <1>1. /\ actor[a].pc \in Driving \ (Deciding \cup {"executing", "recording"})
        /\ UNCHANGED <<document, issued, commits>> /\ ~Recording(actor[a])
    BY DEF NextRound, Driving, Deciding, Recording
  <1>2. CASE End(a, "Cancelled") \/ End(a, "BudgetPaused")
    BY <1>1, <1>2, EndBooks DEF Statuses, Terminal
  <1>3. CASE /\ Become(a, [actor[a] EXCEPT !.pc = "provider", !.run.rounds = @ + 1])
             /\ UNCHANGED audit /\ actor[a].run.rounds < MaxRounds
    <2> DEFINE run == [actor[a].run EXCEPT !.rounds = @ + 1]
               next == [actor[a] EXCEPT !.pc = "provider", !.run = run]
    <2>1. run \in RunStates
      BY <1>1, <1>3, OwnerFacts, RunType
    <2>2. Become(a, next) /\ pending = NoApproval
      BY <1>1, <1>3, OwnerFacts
    <2> HIDE DEF run
    <2>3. next \in ActorStates /\ next.pc = "provider" /\ next.approval = actor[a].approval
      BY <1>1, <2>1, OwnerFacts DEF ActorStates, Pcs, Driving
    <2> HIDE DEF next
    <2>4. (RebasesAreWhole => Fits(next)) /\ ~Recording(next)
      BY <1>1, <2>3, GotoBooks
    <2>5. SameBooks /\ pending' = NoApproval /\ actor' = [actor EXCEPT ![a] = next]
      BY <1>3, <2>2 DEF SameBooks, Become
    <2> QED
      BY <1>1, <2>4, <2>5, QuietDriver
  <1> QED
    BY <1>2, <1>3 DEF NextRound

LEMMA ProviderAnswersBooks == \A a \in Actors : IInv /\ Books /\ ProviderAnswers(a) => Books'
  <1> SUFFICES ASSUME NEW a \in Actors, IInv, Books, ProviderAnswers(a) PROVE Books'
    OBVIOUS
  <1>1. /\ actor[a].pc \in Driving \ (Deciding \cup {"executing", "recording"})
        /\ UNCHANGED <<document, issued, commits>> /\ ~Recording(actor[a])
    BY DEF ProviderAnswers, Driving, Deciding, Recording
  <1>2. CASE End(a, "Cancelled") \/ End(a, "Failed") \/ End(a, "BudgetPaused")
    BY <1>1, <1>2, EndBooks DEF Statuses, Terminal
  <1>3. CASE LET said == [audit EXCEPT !.exchanged = TRUE]
             IN Write(a, <<said, With(said, "Completed")>>, Become(a, Idle))
    <2> DEFINE said == [audit EXCEPT !.exchanged = TRUE]
               done == With(said, "Completed")
               writes == <<said, done>>
    <2>1. /\ said \in Audits /\ said.approval = audit.approval
          /\ said.shown = audit.shown /\ said.links = audit.links
      BY <1>1, OwnerFacts, AuditType DEF Audits
    <2>2. Write(a, <<said, done>>, Become(a, Idle))
      BY <1>3
    <2> HIDE DEF said
    <2>3. /\ done \in Audits /\ done.approval = said.approval
          /\ done.shown = said.shown /\ done.links = said.links
      BY <2>1, AuditType DEF With, Audits, Statuses, Terminal
    <2> HIDE DEF done
    <2>4. /\ writes \in Seq(Audits) /\ writes # <<>>
          /\ \A i \in DOMAIN writes : writes[i] = said \/ writes[i] = done
      BY <2>1, <2>3
    <2>5. Fits(Idle) /\ ~Recording(Idle)
      BY EmptyHands DEF Recording
    <2>6. Write(a, writes, Become(a, Idle))
      BY <2>2
    <2> HIDE DEF writes
    <2>7. \A i \in DOMAIN writes : /\ writes[i].approval = audit.approval
                                   /\ writes[i].shown = audit.shown
                                   /\ writes[i].links = audit.links
      BY <2>1, <2>3, <2>4
    <2> QED
      BY <1>1, <2>4, <2>5, <2>6, <2>7, QuietWrites
  <1>4. ASSUME NEW batch \in Batches, UNCHANGED audit,
               Become(a, [actor[a] EXCEPT !.pc = "tools", !.batch = batch])
        PROVE  Books'
    <2> DEFINE next == [actor[a] EXCEPT !.pc = "tools", !.batch = batch]
    <2>1. next \in ActorStates /\ next.pc = "tools" /\ next.approval = actor[a].approval
      BY <1>1, OwnerFacts DEF ActorStates, Pcs, Driving
    <2>2. Become(a, next) /\ pending = NoApproval
      BY <1>1, <1>4, OwnerFacts
    <2> HIDE DEF next
    <2>3. (RebasesAreWhole => Fits(next)) /\ ~Recording(next)
      BY <1>1, <2>1, GotoBooks
    <2>4. SameBooks /\ pending' = NoApproval /\ actor' = [actor EXCEPT ![a] = next]
      BY <1>4, <2>2 DEF SameBooks, Become
    <2> QED
      BY <1>1, <2>3, <2>4, QuietDriver
  <1> QED
    BY <1>2, <1>3, <1>4 DEF ProviderAnswers

LEMMA NoMoreToolsBooks == \A a \in Actors : IInv /\ Books /\ NoMoreTools(a) => Books'
  <1> SUFFICES ASSUME NEW a \in Actors, IInv, Books, NoMoreTools(a) PROVE Books'
    OBVIOUS
  <1> DEFINE next == [actor[a] EXCEPT !.pc = "loop"]
  <1>1. /\ actor[a].pc \in Driving \ (Deciding \cup {"executing", "recording"})
        /\ UNCHANGED <<document, issued, commits, audit>> /\ ~Recording(actor[a])
    BY DEF NoMoreTools, Driving, Deciding, Recording
  <1>2. next \in ActorStates /\ next.pc = "loop" /\ next.approval = actor[a].approval
    BY <1>1, OwnerFacts DEF ActorStates, Pcs, Driving
  <1>3. Become(a, next) /\ pending = NoApproval
    BY <1>1, OwnerFacts DEF NoMoreTools, Goto
  <1> HIDE DEF next
  <1>4. (RebasesAreWhole => Fits(next)) /\ ~Recording(next)
    BY <1>1, <1>2, GotoBooks
  <1>5. SameBooks /\ pending' = NoApproval /\ actor' = [actor EXCEPT ![a] = next]
    BY <1>1, <1>3 DEF SameBooks, Become
  <1> QED
    BY <1>1, <1>4, <1>5, QuietDriver

LEMMA ToolBudgetBooks == \A a \in Actors : IInv /\ Books /\ ToolBudgetIsSpent(a) => Books'
  <1> SUFFICES ASSUME NEW a \in Actors, IInv, Books, ToolBudgetIsSpent(a) PROVE Books'
    OBVIOUS
  <1>1. /\ actor[a].pc \in Driving /\ ~Recording(actor[a]) /\ End(a, "BudgetPaused")
        /\ UNCHANGED <<document, issued, commits>>
    BY DEF ToolBudgetIsSpent, Driving, Recording
  <1> QED
    BY <1>1, EndBooks DEF Statuses

\* Handing the approval in hand to the engine.
LEMMA ParkBooks ==
  ASSUME IInv, Books, NEW a \in Actors, actor[a].pc \in Driving, actor[a].pc # "recording",
         pending' = actor[a].approval, actor' = [actor EXCEPT ![a] = Idle],
         SameBooks, UNCHANGED <<commits, issued, document>>
  PROVE  Books'
  <1>1. Fits(Idle) /\ ~Recording(Idle) /\ ~Recording(actor[a])
    BY EmptyHands DEF Recording
  <1> QED
    BY <1>1, QuietDriver

\* An approval is given a new id; the rows may have been written or not.
LEMMA IssueBound ==
  ASSUME IInv, Bound, UNCHANGED <<commits, pending>>, pending = NoApproval,
         NEW a \in Actors, actor[a].pc \in Driving, issued' = issued + 1, issued' \in Ids,
         NEW base \in Revisions,
         \/ audit'.approval = audit.approval /\ audit'.shown = audit.shown
         \/ /\ audit'.approval = [audit.approval EXCEPT ![issued'] = "pending"]
            /\ audit'.shown = [audit.shown EXCEPT ![issued'] = base],
         NEW next, actor' = [actor EXCEPT ![a] = next],
         \/ next.approval = NoApproval
         \/ /\ next.pc = "parking" /\ next.approval.id = issued'
            /\ next.approval.base = base /\ next.approval.run.revision = base
            /\ audit'.approval[issued'] = "pending" /\ audit'.shown[issued'] = base
  PROVE  Bound'
  <1>1. \A b \in Actors : actor'[b] = IF b = a THEN next ELSE actor[b]
    BY DEF IInv, TypeOK
  <1>2. \A i \in Ids : i # issued' => audit'.approval[i] = audit.approval[i] /\ audit'.shown[i] = audit.shown[i]
    BY BooksType
  <1>3. \A i \in Ids : audit'.approval[i] = "approved" => audit.approval[i] = "approved"
    BY BooksType
  <1>4. \A c \in commits : /\ c \in Commits /\ c.approval <= issued /\ c.approval # issued'
                           /\ c.approval <= issued'
    BY BooksType, CommitType DEF Bound, Ids
  <1>5. CommitsAreBound'
    <2>1. ASSUME NEW c \in commits, c.approval # NoId
          PROVE  /\ audit'.shown[c.approval] = c.from
                 /\ audit'.approval[c.approval] \in {"pending", "approved"}
                 /\ \A d \in commits : d.approval = c.approval => d = c
      <3>1. c.approval \in Ids
        BY <1>4, <2>1, CommitType
      <3> QED
        BY <1>2, <1>4, <2>1, <3>1 DEF Bound, CommitsAreBound
    <2>2. ASSUME NEW i \in Ids, audit'.approval[i] = "approved"
          PROVE  \E c \in commits : c.approval = i
      BY <1>3, <2>2 DEF Bound, CommitsAreBound
    <2> QED
      BY <2>1, <2>2 DEF CommitsAreBound
  <1>6. ASSUME NEW b \in Actors PROVE Fits(actor[b])'
    <2>1. CASE b = a
      <3>1. CASE next.approval = NoApproval
        BY <1>1, <2>1, <3>1 DEF Fits
      <3>2. CASE next.approval # NoApproval
        <4>1. Live(actor[b].approval)' /\ Unspent(actor[b].approval)'
          BY <1>1, <1>4, <2>1, <3>2, BooksType DEF Live, Unspent
        <4> QED
          BY <1>1, <2>1, <3>2, <4>1 DEF Fits, Deciding
      <3> QED
        BY <3>1, <3>2
    <2>2. CASE b # a
      <3>1. actor[b].approval = NoApproval
        BY <2>2, OthersHoldNothing DEF IInv, SingleOwner, Drivers
      <3> QED
        BY <1>1, <2>2, <3>1 DEF Fits
    <2> QED
      BY <2>1, <2>2
  <1> QED
    BY <1>4, <1>5, <1>6 DEF Bound

LEMMA IssueBooks ==
  ASSUME IInv, Books, UNCHANGED <<commits, pending, document>>,
         NEW a \in Actors, actor[a].pc \in Driving, ~Recording(actor[a]),
         issued' = issued + 1, issued' \in Ids, NEW base \in Revisions,
         \/ audit'.approval = audit.approval /\ audit'.shown = audit.shown
         \/ /\ audit'.approval = [audit.approval EXCEPT ![issued'] = "pending"]
            /\ audit'.shown = [audit.shown EXCEPT ![issued'] = base],
         audit'.links = audit.links,
         NEW next, actor' = [actor EXCEPT ![a] = next], ~Recording(next),
         \/ next.approval = NoApproval
         \/ /\ next.pc = "parking" /\ next.approval.id = issued'
            /\ next.approval.base = base /\ next.approval.run.revision = base
            /\ audit'.approval[issued'] = "pending" /\ audit'.shown[issued'] = base
  PROVE  Books'
  <1>1. \A b \in Actors : actor'[b] = IF b = a THEN next ELSE actor[b]
    BY DEF IInv, TypeOK
  <1>2. commits \subseteq audit.links /\ \A b \in Actors : ~Recording(actor[b])
    BY NothingUnlinked DEF Books
  <1>3. \A b \in Actors : ~Recording(actor[b])'
    BY <1>1, <1>2 DEF Recording
  <1>4. LinksKept'
    BY <1>2, <1>3 DEF Books, LinksKept
  <1>5. ASSUME RebasesAreWhole PROVE Bound'
    <2>1. Bound /\ pending = NoApproval
      BY <1>5, OwnerFacts DEF Books
    <2>2. \/ next.approval = NoApproval
         \/ /\ next.pc = "parking" /\ next.approval.id = issued'
            /\ next.approval.base = base /\ next.approval.run.revision = base
            /\ audit'.approval[issued'] = "pending" /\ audit'.shown[issued'] = base
      BY <1>5, <2>1
    <2> QED
      BY <2>1, <2>2, IssueBound
  <1>6. RebasesAreWhole' <=> RebasesAreWhole
    BY DEF RebasesAreWhole
  <1> QED
    BY <1>4, <1>5, <1>6 DEF Books

LEMMA StartToolBooks == \A a \in Actors : IInv /\ Books /\ StartTool(a) => Books'
  <1> SUFFICES ASSUME NEW a \in Actors, IInv, Books, StartTool(a) PROVE Books'
    OBVIOUS
  <1> DEFINE kind == Head(actor[a].batch)
             run == [actor[a].run EXCEPT !.calls = @ + 1]
             rest == Tail(actor[a].batch)
             taken == [actor[a] EXCEPT !.batch = rest, !.kind = kind, !.run = run]
  <1>1. /\ actor[a].pc \in Driving \ (Deciding \cup {"executing", "recording"})
        /\ actor[a].pc \in Driving /\ ~Recording(actor[a])
        /\ actor[a].batch # <<>> /\ actor[a].run.calls < MaxCalls
    BY DEF StartTool, Driving, Deciding, Recording
  <1>2. UNCHANGED <<document, token, session, commits>>
    BY DEF StartTool
  <1>3. kind \in Kinds /\ rest \in {<<>>} \cup Batches
    BY <1>1, OwnerFacts, TailOfBatch
  <1>4. run \in RunStates
    BY <1>1, OwnerFacts, RunType
  <1>5. actor[a] \in ActorStates /\ pending = NoApproval /\ audit \in Audits
    BY <1>1, OwnerFacts
  <1>6. CASE /\ Write(a, <<With(audit, "ExecutingTool")>>, Become(a, [taken EXCEPT !.pc = "executing"]))
             /\ UNCHANGED issued
    <2> DEFINE next == [taken EXCEPT !.pc = "executing"]
    <2> HIDE DEF run, rest, kind
    <2>1. next.pc = "executing" /\ next.approval = actor[a].approval
      BY <1>3, <1>4, <1>5 DEF ActorStates, Pcs, Driving
    <2>2. Write(a, <<With(audit, "ExecutingTool")>>, Become(a, next))
      BY <1>6
    <2> HIDE DEF next
    <2>3. (RebasesAreWhole => Fits(next)) /\ ~Recording(next)
      BY <1>1, <2>1, NothingInHand, EmptyHands DEF Recording
    <2>4. "ExecutingTool" \in Statuses
      BY DEF Statuses, Running
    <2> QED
      BY <1>1, <1>2, <1>6, <2>2, <2>3, <2>4, RowBooks
  <1>7. CASE /\ issued < MaxApprovals /\ issued' = issued + 1
             /\ LET awaiting == With(audit, "AwaitingApproval")
                    approval == Proposed(a, issued')
                IN Write(a, <<awaiting, Requested(awaiting, approval.id, approval.base)>>,
                         Become(a, [taken EXCEPT !.pc = "parking", !.approval = approval]))
    <2> DEFINE awaiting == With(audit, "AwaitingApproval")
               approval == Proposed(a, issued')
               shown == Requested(awaiting, approval.id, approval.base)
               next == [taken EXCEPT !.pc = "parking", !.approval = approval]
               base == actor[a].run.revision
    <2>1. issued' \in Ids /\ issued \in Nat
      BY <1>1, <1>7, OwnerFacts, AgentRunAssumption DEF Ids
    <2>2. base \in Revisions /\ run.revision = base
      BY <1>1, OwnerFacts DEF RunStates
    <2>3. /\ approval \in Approvals /\ approval.id = issued' /\ approval.base = base
          /\ approval.run.revision = base
      BY <1>4, <2>1, <2>2 DEF Proposed, Approvals
    <2>4. /\ awaiting \in Audits /\ awaiting.approval = audit.approval
          /\ awaiting.shown = audit.shown /\ awaiting.links = audit.links
      BY <1>5, AuditType DEF Statuses, With, Audits
    <2>5. Write(a, <<awaiting, shown>>, Become(a, next))
      BY <1>7
    <2> HIDE DEF awaiting
    <2>6. /\ shown.approval = [audit.approval EXCEPT ![issued'] = "pending"]
          /\ shown.shown = [audit.shown EXCEPT ![issued'] = base]
          /\ shown.links = audit.links
      BY <2>1, <2>2, <2>3, <2>4 DEF Requested, Audits
    <2> HIDE DEF run, rest, kind, approval, shown, base
    <2>7. next \in ActorStates /\ next.pc = "parking" /\ next.approval = approval
      BY <1>3, <1>4, <1>5, <2>3 DEF ActorStates, Pcs, Driving
    <2> HIDE DEF next
    <2>8. \/ /\ audit' = shown /\ actor' = [actor EXCEPT ![a] = next]
          \/ audit' \in {audit, awaiting, shown} /\ actor' = [actor EXCEPT ![a] = After(a)]
      <3>1. /\ <<awaiting, shown>>[Len(<<awaiting, shown>>)] = shown
            /\ \A i \in DOMAIN <<awaiting, shown>> : <<awaiting, shown>>[i] \in {awaiting, shown}
        OBVIOUS
      <3> QED
        BY <2>5, <3>1 DEF Write, Become
    <2>9. UNCHANGED pending
      BY <2>5 DEF Write, Become
    <2>10. /\ \/ audit'.approval = audit.approval /\ audit'.shown = audit.shown
              \/ /\ audit'.approval = [audit.approval EXCEPT ![issued'] = "pending"]
                 /\ audit'.shown = [audit.shown EXCEPT ![issued'] = base]
           /\ audit'.links = audit.links
      BY <2>4, <2>6, <2>8
    <2>11. CASE audit' = shown /\ actor' = [actor EXCEPT ![a] = next]
      <3>1. audit'.approval[issued'] = "pending" /\ audit'.shown[issued'] = base
        BY <2>1, <2>6, <2>11, BooksType
      <3>2. ~Recording(next)
        BY <2>7 DEF Recording
      <3> QED
        BY <1>1, <1>2, <1>7, <2>1, <2>2, <2>3, <2>7, <2>9, <2>10, <2>11, <3>1, <3>2, IssueBooks
    <2>12. CASE actor' = [actor EXCEPT ![a] = After(a)]
      <3>1. After(a).approval = NoApproval /\ ~Recording(After(a))
        BY EmptyHands DEF Recording
      <3> QED
        BY <1>1, <1>2, <1>7, <2>1, <2>2, <2>9, <2>10, <2>12, <3>1, IssueBooks
    <2> QED
      BY <2>8, <2>11, <2>12
  <1>8. CASE (End(a, "Completed") \/ End(a, "Failed")) /\ UNCHANGED issued
    BY <1>1, <1>2, <1>8, EndBooks DEF Statuses, Terminal
  <1>9. taken = [actor[a] EXCEPT !.batch = Tail(@), !.kind = kind, !.run.calls = @ + 1]
    BY <1>5 DEF ActorStates
  <1> HIDE DEF taken, run, rest
  <1> QED
    BY <1>6, <1>7, <1>8, <1>9 DEF StartTool

LEMMA RefusedBooks ==
  ASSUME IInv, Books, NEW a \in Actors, actor[a].pc = "executing", Refused(a),
         UNCHANGED <<document, issued, commits>>
  PROVE  Books'
  <1> DEFINE row == With(audit, "AwaitingApproval")
  <1>1. actor[a].pc \in Driving /\ actor[a].pc # "recording" /\ ~Recording(actor[a])
    BY DEF Driving, Recording
  <1>2. CASE actor[a].approval = NoApproval
    BY <1>1, <1>2, EndBooks DEF Refused, Statuses, Terminal
  <1>3. CASE actor[a].approval # NoApproval
    <2>1. /\ row \in Audits /\ row.approval = audit.approval
          /\ row.shown = audit.shown /\ row.links = audit.links
      BY <1>1, OwnerFacts, AuditType DEF Statuses, With, Audits
    <2>2. Write(a, <<row>>, /\ pending' = actor[a].approval
                            /\ actor' = [actor EXCEPT ![a] = Idle])
      BY <1>3 DEF Refused
    <2> HIDE DEF row
    <2>3. <<row>>[Len(<<row>>)] = row /\ \A i \in DOMAIN <<row>> : <<row>>[i] = row
      OBVIOUS
    <2>4. SameBooks
      BY <2>1, <2>2, <2>3 DEF Write, SameBooks
    <2>5. CASE pending' = actor[a].approval /\ actor' = [actor EXCEPT ![a] = Idle]
      BY <1>1, <2>4, <2>5, ParkBooks
    <2>6. CASE actor' = [actor EXCEPT ![a] = After(a)] /\ UNCHANGED pending
      <3>1. Fits(After(a)) /\ ~Recording(After(a)) /\ pending' = NoApproval
        BY <1>1, <2>6, EmptyHands, OwnerFacts DEF Recording
      <3> QED
        BY <1>1, <2>4, <2>6, <3>1, QuietDriver
    <2> QED
      BY <2>2, <2>5, <2>6 DEF Write
  <1> QED
    BY <1>2, <1>3

\* A command is committed: it was not spent, and nothing else is unlinked.
LEMMA CommitBooks ==
  ASSUME IInv, Books, NEW a \in Actors, actor[a].pc = "executing", actor[a].kind # "read",
         actor[a].run.revision = document, document' = document + 1, document' \in Revisions,
         commits' = commits \cup {Commit(a)}, Goto(a, "recording"), UNCHANGED <<audit, issued>>
  PROVE  Books'
  <1> DEFINE next == [actor[a] EXCEPT !.pc = "recording"]
             new == Commit(a)
  <1>1. /\ actor[a].pc \in Driving /\ ~Recording(actor[a]) /\ actor[a] \in ActorStates
        /\ pending = NoApproval /\ pending' = NoApproval
    BY OwnerFacts DEF Driving, Recording, Goto, Become
  <1>2. /\ next.pc = "recording" /\ next.kind = actor[a].kind /\ next.run = actor[a].run
        /\ next.approval = actor[a].approval
    BY <1>1 DEF ActorStates
  <1>3. \A b \in Actors : actor'[b] = IF b = a THEN next ELSE actor[b]
    BY DEF Goto, Become, IInv, TypeOK
  <1>4. commits \subseteq audit.links /\ \A b \in Actors : ~Recording(actor[b])
    BY <1>1, NothingUnlinked DEF Books
  <1>5. /\ new.approval = actor[a].approval.id /\ new.from = document /\ new.to = document + 1
        /\ document \in Nat /\ document' \in Nat
    BY BooksType, AgentRunAssumption DEF Commit, Revisions
  <1> HIDE DEF next
  <1>6. Commit(a)' = new
    <2>1. actor'[a] = next
      BY <1>3
    <2> QED
      BY <1>2, <2>1 DEF Commit
  <1> HIDE DEF new
  <1>7. LinksKept'
    <2>1. audit'.links \subseteq commits'
      BY DEF Books, LinksKept
    <2>2. \A c \in commits : c.to \in Nat /\ c.to <= document
      BY BooksType, CommitType DEF Books, LinksKept
    <2>3. \A c \in commits' : c.to <= document'
      BY <1>5, <2>2 DEF new
    <2>4. ASSUME NEW b \in Actors, Recording(actor[b])' PROVE Commit(b)' \in commits'
      <3>1. b = a
        BY <1>3, <1>4, <2>4 DEF Recording
      <3> QED
        BY <1>6, <3>1 DEF new
    <2>5. ASSUME NEW c \in commits' \ audit'.links
          PROVE  /\ \A d \in commits' : d.to <= c.to
                 /\ \E b \in Actors : Recording(actor[b])' /\ Commit(b)' = c
      <3>1. c = new
        BY <1>4, <2>5 DEF new
      <3>2. \A d \in commits' : d.to <= c.to
        BY <1>5, <2>3, <3>1
      <3>3. Recording(actor[a])'
        BY <1>2, <1>3 DEF Recording
      <3> QED
        BY <1>6, <3>1, <3>2, <3>3
    <2> QED
      BY <2>1, <2>3, <2>4, <2>5 DEF LinksKept
  <1>8. ASSUME Bound PROVE Bound'
    <2>1. CASE actor[a].approval = NoApproval
      <3>1. new.approval = NoId
        BY <1>5, <2>1 DEF NoApproval
      <3>2. CommitsAreBound'
        BY <1>8, <3>1 DEF Bound, CommitsAreBound, new
      <3>3. \A c \in commits' : c.approval <= issued'
        BY <1>8, <3>1, BooksType DEF Bound, new, NoId
      <3>4. \A b \in Actors : actor'[b].approval = NoApproval
        BY <1>1, <1>2, <1>3, <1>8, <2>1, OthersHoldNothing DEF IInv, SingleOwner, Drivers
      <3> QED
        BY <1>1, <3>2, <3>3, <3>4 DEF Bound, Fits
    <2>2. CASE actor[a].approval # NoApproval
      <3> DEFINE approval == actor[a].approval
      <3>1. /\ Live(approval) /\ Unspent(approval) /\ approval.base = document
            /\ approval \in Approvals /\ approval.id \in Ids
        BY <1>1, <1>8, <2>2, OwnerFacts, ApprovalType DEF Bound, Fits
      <3>2. new.approval = approval.id
        BY <1>5
      <3> HIDE DEF approval
      <3>3. CommitsAreBound'
        <4>1. ASSUME NEW c \in commits', c.approval # NoId
              PROVE  /\ audit.shown[c.approval] = c.from
                     /\ audit.approval[c.approval] \in {"pending", "approved"}
                     /\ \A d \in commits' : d.approval = c.approval => d = c
          <5>1. CASE c = new
            BY <1>5, <3>1, <3>2, <5>1 DEF new, Live, Unspent
          <5>2. CASE c \in commits
            BY <1>8, <3>1, <3>2, <4>1, <5>2 DEF new, Unspent, Bound, CommitsAreBound
          <5> QED
            BY <5>1, <5>2 DEF new
        <4>2. ASSUME NEW i \in Ids, audit.approval[i] = "approved"
              PROVE  \E c \in commits' : c.approval = i
          BY <1>8, <4>2 DEF Bound, CommitsAreBound
        <4> QED
          BY <4>1, <4>2 DEF CommitsAreBound
      <3>4. \A c \in commits' : c.approval <= issued'
        BY <1>8, <3>1, <3>2 DEF Bound, Live, new
      <3>5. ASSUME NEW b \in Actors PROVE Fits(actor[b])'
        <4>1. CASE b = a
          <5>1. actor'[b] = next /\ next.approval = approval
            BY <1>2, <1>3, <4>1 DEF approval
          <5>2. Live(actor[b].approval)'
            BY <3>1, <5>1 DEF Live
          <5> QED
            BY <1>2, <3>1, <5>1, <5>2 DEF Fits
        <4>2. CASE b # a
          <5>1. actor[b].approval = NoApproval
            BY <1>1, <1>8, <4>2, OthersHoldNothing DEF IInv, SingleOwner, Drivers
          <5> QED
            BY <1>3, <4>2, <5>1 DEF Fits
        <4> QED
          BY <4>1, <4>2
      <3> QED
        BY <1>1, <3>3, <3>4, <3>5 DEF Bound
    <2> QED
      BY <2>1, <2>2
  <1>9. RebasesAreWhole' <=> RebasesAreWhole
    BY DEF RebasesAreWhole
  <1> QED
    BY <1>7, <1>8, <1>9 DEF Books

LEMMA ExecuteBooks == \A a \in Actors : IInv /\ Books /\ Execute(a) => Books'
  <1> SUFFICES ASSUME NEW a \in Actors, IInv, Books, Execute(a) PROVE Books'
    OBVIOUS
  <1>1. actor[a].pc = "executing" /\ actor[a].pc \in Driving /\ UNCHANGED issued
    BY DEF Execute, Driving
  <1>2. CASE Refused(a) /\ UNCHANGED <<document, commits>>
    BY <1>1, <1>2, RefusedBooks
  <1>3. CASE /\ actor[a].kind = "read" /\ UNCHANGED <<document, commits>>
             /\ Goto(a, "recording") /\ UNCHANGED audit
    <2> DEFINE next == [actor[a] EXCEPT !.pc = "recording"]
    <2>1. /\ next.pc = "recording" /\ next.kind = "read" /\ next.approval = actor[a].approval
          /\ pending = NoApproval
      BY <1>1, <1>3, OwnerFacts DEF ActorStates
    <2>2. actor' = [actor EXCEPT ![a] = next] /\ pending' = NoApproval /\ SameBooks
      BY <1>3, <2>1 DEF Goto, Become, SameBooks
    <2> HIDE DEF next
    <2>3. ASSUME RebasesAreWhole PROVE Fits(next)
      BY <1>1, <1>3, <2>1, <2>3 DEF Books, Bound, Fits
    <2>4. ~Recording(next) /\ ~Recording(actor[a])
      BY <1>1, <2>1 DEF Recording
    <2> QED
      BY <1>1, <1>3, <2>2, <2>3, <2>4, QuietDriver
  <1>4. CASE /\ actor[a].run.revision = document /\ actor[a].kind # "read" /\ document < MaxRevision
             /\ document' = document + 1 /\ commits' = commits \cup {Commit(a)}
             /\ Goto(a, "recording") /\ UNCHANGED audit
    <2>1. document' \in Revisions
      BY <1>4, BooksType, AgentRunAssumption DEF Revisions
    <2> QED
      BY <1>1, <1>4, <2>1, CommitBooks
  <1> QED
    BY <1>2, <1>3, <1>4 DEF Execute

\* The approval becomes approved when its command has been committed.
LEMMA RecordBound ==
  ASSUME IInv, Bound, NEW a \in Actors, actor[a].pc = "recording", LinksKept,
         UNCHANGED <<commits, issued, pending>>, audit'.shown = audit.shown,
         \/ audit'.approval = audit.approval
         \/ /\ actor[a].approval # NoApproval
            /\ audit'.approval = [audit.approval EXCEPT ![actor[a].approval.id] = "approved"],
         NEW next, next.approval = NoApproval, actor' = [actor EXCEPT ![a] = next]
  PROVE  Bound'
  <1>1. \A b \in Actors : actor'[b] = IF b = a THEN next ELSE actor[b]
    BY DEF IInv, TypeOK
  <1>2. actor[a].pc \in Driving /\ pending = NoApproval
    BY OwnerFacts DEF Driving
  <1>3. \A b \in Actors : Fits(actor[b])'
    <2>1. \A b \in Actors : actor'[b].approval = NoApproval
      BY <1>1, <1>2, OthersHoldNothing DEF IInv, SingleOwner, Drivers
    <2> QED
      BY <2>1 DEF Fits
  <1>4. CommitsAreBound'
    <2>1. CASE audit'.approval = audit.approval
      BY <2>1 DEF Bound, CommitsAreBound
    <2>2. CASE /\ actor[a].approval # NoApproval
               /\ audit'.approval = [audit.approval EXCEPT ![actor[a].approval.id] = "approved"]
      <3> DEFINE id == actor[a].approval.id
      <3>1. id \in Ids
        BY <1>2, <2>2, OwnerFacts, ApprovalType
      <3>2. actor[a].kind # "read"
        BY <2>2 DEF Bound, Fits
      <3>3. Commit(a) \in commits /\ Commit(a).approval = id
        BY <3>2 DEF LinksKept, Recording, Commit
      <3> HIDE DEF id
      <3>4. \A i \in Ids : audit'.approval[i] = IF i = id THEN "approved" ELSE audit.approval[i]
        BY <2>2, <3>1, BooksType DEF id
      <3>5. ASSUME NEW c \in commits, c.approval # NoId
            PROVE  /\ audit'.shown[c.approval] = c.from
                   /\ audit'.approval[c.approval] \in {"pending", "approved"}
                   /\ \A d \in commits : d.approval = c.approval => d = c
        <4>1. c.approval \in Ids
          BY <3>5, BooksType, CommitType
        <4> QED
          BY <3>4, <3>5, <4>1 DEF Bound, CommitsAreBound
      <3>6. ASSUME NEW i \in Ids, audit'.approval[i] = "approved"
            PROVE  \E c \in commits : c.approval = i
        BY <3>3, <3>4, <3>6 DEF Bound, CommitsAreBound
      <3> QED
        BY <3>5, <3>6 DEF CommitsAreBound
    <2> QED
      BY <2>1, <2>2
  <1> QED
    BY <1>2, <1>3, <1>4 DEF Bound

\* What is unlinked when a thread records is its own command; it is linked
\* now, or the run is lost.
LEMMA RecordLinks ==
  ASSUME IInv, LinksKept, NEW a \in Actors, actor[a].pc = "recording",
         UNCHANGED <<commits, document, pending>>,
         \/ audit'.links = audit.links
         \/ Recording(actor[a]) /\ audit'.links = audit.links \cup {Commit(a)},
         NEW next, next.pc # "recording", actor' = [actor EXCEPT ![a] = next],
         \/ Recording(actor[a]) => audit'.links = audit.links \cup {Commit(a)}
         \/ next.pc \notin Driving /\ faults' > 0
  PROVE  LinksKept'
  <1>1. \A b \in Actors : actor'[b] = IF b = a THEN next ELSE actor[b]
    BY DEF IInv, TypeOK
  <1>2. actor[a].pc \in Driving /\ pending = NoApproval
    BY OwnerFacts DEF Driving
  <1>3. Drivers = {a}
    BY <1>2 DEF IInv, SingleOwner, Drivers
  <1>4. \A b \in Actors : Recording(actor[b]) => b = a
    BY <1>3 DEF Drivers, Recording, Driving
  <1>5. \A b \in Actors : ~Recording(actor[b])'
    BY <1>1, <1>4 DEF Recording
  <1>6. audit'.links \subseteq commits
    BY DEF LinksKept
  <1>7. \A c \in commits \ audit.links : Recording(actor[a]) /\ Commit(a) = c
    BY <1>3, <1>4 DEF LinksKept, NobodyLeft
  <1>8. ASSUME NEW c \in commits \ audit'.links PROVE NobodyLeft'
    <2>1. c \notin audit.links
      BY <1>8
    <2>2. Recording(actor[a]) /\ Commit(a) = c
      BY <1>7, <2>1
    <2>3. next.pc \notin Driving /\ faults' > 0
      BY <1>8, <2>2
    <2>4. Drivers' = {}
      BY <1>1, <1>3, <2>3 DEF Drivers
    <2> QED
      BY <1>2, <2>3, <2>4 DEF NobodyLeft
  <1>9. \A c \in commits \ audit'.links : c \in commits \ audit.links
    OBVIOUS
  <1> QED
    BY <1>5, <1>6, <1>8, <1>9 DEF LinksKept

LEMMA RecordBooks == \A a \in Actors : IInv /\ Books /\ Record(a) => Books'
  <1> SUFFICES ASSUME NEW a \in Actors, IInv, Books, Record(a) PROVE Books'
    OBVIOUS
  <1> DEFINE id == actor[a].approval.id
             read == actor[a].kind = "read"
             resolved == IF id = NoId THEN audit ELSE Resolved(audit, id, "approved")
             linked == IF read THEN resolved ELSE Linked(resolved, Commit(a))
             last == With(linked, "CallingProvider")
             next == [actor[a] EXCEPT !.pc = "tools", !.kind = "read", !.approval = NoApproval,
                                      !.run.revision = IF read THEN @ ELSE @ + 1]
             approvals == [audit.approval EXCEPT ![id] = "approved"]
             links == audit.links \cup {Commit(a)}
  <1>1. actor[a].pc = "recording" /\ actor[a].pc \in Driving
    BY DEF Record, Driving
  <1>2. UNCHANGED <<document, token, issued, session, commits>>
    BY DEF Record
  <1>3. /\ id \in Ids \cup {NoId} /\ audit \in Audits
        /\ (id # NoId => actor[a].approval # NoApproval)
        /\ faults \in 0 .. MaxFaults
    BY <1>1, OwnerFacts, ApprovalType DEF NoApproval
  <1>4. Write(a, <<resolved, linked, last>>, Become(a, next))
    BY DEF Record
  <1>5. next.pc = "tools" /\ next.approval = NoApproval
    BY <1>1, OwnerFacts DEF ActorStates
  <1> HIDE DEF next
  <1>6. /\ resolved.shown = audit.shown /\ resolved.links = audit.links
        /\ \/ resolved.approval = audit.approval
           \/ actor[a].approval # NoApproval /\ resolved.approval = approvals
    <2>1. CASE id = NoId
      BY <2>1
    <2>2. CASE id # NoId
      BY <1>3, <2>2 DEF Resolved, Audits
    <2> QED
      BY <2>1, <2>2
  <1>7. resolved \in Audits
    <2>1. id # NoId => Resolved(audit, id, "approved") \in Audits
      BY <1>3, AuditType DEF Resolutions
    <2> QED
      BY <1>3, <2>1
  <1> HIDE DEF resolved, approvals
  <1>8. /\ linked.shown = resolved.shown /\ linked.approval = resolved.approval
        /\ linked.links = IF read THEN audit.links ELSE links
        /\ DOMAIN linked = DOMAIN resolved
    <2>1. CASE read
      BY <1>6, <2>1
    <2>2. CASE ~read
      BY <1>6, <1>7, <2>2 DEF Linked, Audits
    <2> QED
      BY <2>1, <2>2
  <1>9. /\ last.shown = linked.shown /\ last.approval = linked.approval
        /\ last.links = linked.links
    BY DEF With
  <1> HIDE DEF linked, last
  <1>10. \/ audit' = last /\ actor' = [actor EXCEPT ![a] = next] /\ UNCHANGED pending
         \/ /\ audit' \in {audit, resolved, linked, last} /\ faults' = faults + 1
            /\ actor' = [actor EXCEPT ![a] = After(a)] /\ UNCHANGED pending
    <2>1. /\ <<resolved, linked, last>>[Len(<<resolved, linked, last>>)] = last
          /\ \A i \in DOMAIN <<resolved, linked, last>> :
               <<resolved, linked, last>>[i] \in {resolved, linked, last}
      OBVIOUS
    <2> QED
      BY <1>4, <2>1 DEF Write, Become
  <1>11. PICK state : /\ actor' = [actor EXCEPT ![a] = state] /\ state.approval = NoApproval
                      /\ state.pc # "recording"
                      /\ \/ audit' = last
                         \/ state.pc \notin Driving /\ faults' > 0
    <2>1. /\ After(a).approval = NoApproval /\ After(a).pc \notin Driving
          /\ After(a).pc # "recording"
      BY EmptyHands DEF Driving
    <2> QED
      BY <1>3, <1>5, <1>10, <2>1
  <1>12. /\ UNCHANGED pending /\ audit'.shown = audit.shown
         /\ \/ audit'.approval = audit.approval
            \/ actor[a].approval # NoApproval /\ audit'.approval = approvals
    BY <1>6, <1>8, <1>9, <1>10
  <1>13. ASSUME RebasesAreWhole PROVE Bound'
    BY <1>1, <1>2, <1>11, <1>12, <1>13, RecordBound DEF Books, approvals
  <1>14. Recording(actor[a]) <=> ~read
    BY <1>1 DEF Recording
  <1>15. /\ \/ audit'.links = audit.links
            \/ ~read /\ audit'.links = links
         /\ (audit' = last /\ ~read) => audit'.links = links
    <2>1. /\ read => linked.links = audit.links
          /\ ~read => linked.links = links
      BY <1>8
    <2>2. audit' \in {audit, resolved, linked, last}
      BY <1>10
    <2> HIDE DEF read, links
    <2> QED
      BY <1>6, <1>9, <2>1, <2>2
  <1>16. LinksKept'
    BY <1>1, <1>2, <1>11, <1>12, <1>14, <1>15, RecordLinks DEF Books
  <1>17. RebasesAreWhole' <=> RebasesAreWhole
    BY DEF RebasesAreWhole
  <1> QED
    BY <1>13, <1>16, <1>17 DEF Books

LEMMA DriveBooks == \A a \in Actors : IInv /\ Books /\ Drive(a) => Books'
  <1> SUFFICES ASSUME NEW a \in Actors, IInv, Books, Drive(a) PROVE Books'
    OBVIOUS
  <1>1. CASE Park(a)
    <2>1. /\ actor[a].pc \in Driving /\ actor[a].pc # "recording" /\ SameBooks
          /\ pending' = actor[a].approval /\ actor' = [actor EXCEPT ![a] = Idle]
          /\ UNCHANGED <<commits, issued, document>>
      BY <1>1 DEF Park, Driving, SameBooks
    <2> QED
      BY <2>1, ParkBooks
  <1> QED
    BY <1>1, NextRoundBooks, ProviderAnswersBooks, NoMoreToolsBooks, ToolBudgetBooks,
       StartToolBooks, ExecuteBooks, RecordBooks DEF Drive

\* A thread that does not drive the run: it may take the approval with it.
LEMMA QuietCaller ==
  ASSUME IInv, Books, SameBooks, UNCHANGED <<commits, issued, document, faults>>,
         NEW c \in Actors, actor[c].pc \notin Driving,
         NEW next, RebasesAreWhole => Fits(next), next.pc # "recording",
         actor' = [actor EXCEPT ![c] = next],
         pending' = NoApproval \/ pending' = pending,
         pending = NoApproval => next.pc \notin Driving,
         session.phase = "restarted" => session'.phase = "restarted"
  PROVE  Books'
  <1>1. \A b \in Actors : actor'[b] = IF b = c THEN next ELSE actor[b]
    BY DEF IInv, TypeOK
  <1>2. \A b \in Actors : Recording(actor[b])' <=> Recording(actor[b])
    BY <1>1 DEF Recording, Driving
  <1>3. \A b \in Actors : Recording(actor[b]) => Commit(b)' = Commit(b)
    BY <1>1 DEF Recording, Driving, Commit
  <1>4. NobodyLeft => NobodyLeft'
    BY <1>1 DEF NobodyLeft, Drivers
  <1>5. LinksKept'
    BY <1>2, <1>3, <1>4 DEF Books, LinksKept, SameBooks
  <1>6. ASSUME RebasesAreWhole PROVE Bound'
    <2>1. Bound /\ Fits(next)
      BY <1>6 DEF Books
    <2>2. PICK left : pending' = left /\ (left # NoApproval => Live(left) /\ Unspent(left))
      BY <2>1 DEF Bound
    <2> QED
      BY <2>1, <2>2, QuietBound
  <1>7. RebasesAreWhole' <=> RebasesAreWhole
    BY DEF RebasesAreWhole
  <1> QED
    BY <1>5, <1>6, <1>7 DEF Books

\* A thread that is done, or asks, has nothing in its hands.
LEMMA EmptyCaller ==
  ASSUME IInv, Books, SameBooks, UNCHANGED <<commits, issued, document, faults>>,
         NEW c \in Actors, actor[c].pc \notin Driving,
         NEW next, next.approval = NoApproval, next.pc \notin Driving,
         actor' = [actor EXCEPT ![c] = next],
         pending' = NoApproval \/ pending' = pending,
         session.phase = "restarted" => session'.phase = "restarted"
  PROVE  Books'
  <1>1. Fits(next) /\ next.pc # "recording"
    BY EmptyHands DEF Driving
  <1> QED
    BY <1>1, QuietCaller

\* The approval in the hands of the caller that took it is live.
LEMMA HeldFits ==
  ASSUME IInv, Books, NEW c \in Actors, pending # NoApproval,
         NEW pc \in {"granted", "declined", "mismatch", "cancelling"}
  PROVE  (RebasesAreWhole => Fits(Held(c, pc))) /\ Held(c, pc).pc = pc
  <1>1. actor[c] \in ActorStates /\ pending \in Approvals
    BY DEF IInv, TypeOK
  <1>2. /\ Held(c, pc).pc = pc /\ Held(c, pc).approval = pending
        /\ Held(c, pc).run = pending.run /\ Held(c, pc).kind = "risky"
    BY <1>1 DEF Held, ActorStates
  <1>3. ASSUME RebasesAreWhole PROVE Fits(Held(c, pc))
    <2>1. Live(pending) /\ Unspent(pending)
      BY <1>3 DEF Books, Bound
    <2> QED
      BY <1>2, <2>1 DEF Fits, Live, Deciding
  <1> QED
    BY <1>2, <1>3

LEMMA TakeBooks ==
  \A c \in Callers, op \in {"approve", "reject"}, pc \in {"granted", "declined"} :
    IInv /\ Books /\ Take(c, op, pc) => Books'
  <1> SUFFICES ASSUME NEW c \in Callers, NEW op \in {"approve", "reject"},
                      NEW pc \in {"granted", "declined"}, IInv, Books, Take(c, op, pc)
               PROVE  Books'
    OBVIOUS
  <1>1. /\ c \in Actors /\ actor[c].pc \notin Driving /\ pending' = NoApproval
        /\ UNCHANGED <<commits, issued, document, faults, session>> /\ SameBooks
    BY DEF Actors, Take, Asked, Driving, SameBooks
  <1>2. CASE pending = NoApproval
    <2>1. actor' = [actor EXCEPT ![c] = Idle] /\ Idle.approval = NoApproval /\ Idle.pc \notin Driving
      BY <1>2, EmptyHands DEF Take, Driving
    <2> QED
      BY <1>1, <2>1, EmptyCaller
  <1>3. CASE pending # NoApproval
    <2>1. PICK at \in {"granted", "declined", "mismatch"} :
            actor' = [actor EXCEPT ![c] = Held(c, at)]
      BY <1>3 DEF Take
    <2>2. (RebasesAreWhole => Fits(Held(c, at))) /\ Held(c, at).pc # "recording"
      BY <1>1, <1>3, HeldFits
    <2> QED
      BY <1>1, <1>3, <2>1, <2>2, QuietCaller
  <1> QED
    BY <1>2, <1>3

LEMMA GiveBackBooks == \A c \in Callers : IInv /\ Books /\ GiveBack(c) => Books'
  <1> SUFFICES ASSUME NEW c \in Callers, IInv, Books, GiveBack(c) PROVE Books'
    OBVIOUS
  <1>1. /\ c \in Actors /\ actor[c].pc \in Driving /\ actor[c].pc # "recording" /\ SameBooks
        /\ pending' = actor[c].approval /\ actor' = [actor EXCEPT ![c] = Idle]
        /\ UNCHANGED <<commits, issued, document>>
    BY DEF Actors, GiveBack, Driving, SameBooks
  <1> QED
    BY <1>1, ParkBooks

LEMMA ApproveBooks == \A c \in Callers : IInv /\ Books /\ Approve(c) => Books'
  <1> SUFFICES ASSUME NEW c \in Callers, IInv, Books, Approve(c) PROVE Books'
    OBVIOUS
  <1>1. CASE Take(c, "approve", "granted")
    BY <1>1, TakeBooks
  <1>2. CASE /\ actor[c].pc = "granted"
             /\ Write(c, <<With(audit, "ExecutingTool")>>, Goto(c, "executing"))
             /\ UNCHANGED <<document, token, issued, session, commits>>
    <2> DEFINE next == [actor[c] EXCEPT !.pc = "executing"]
    <2>1. c \in Actors /\ actor[c].pc \in Driving /\ ~Recording(actor[c])
      BY <1>2 DEF Actors, Driving, Recording
    <2>2. /\ next.pc = "executing" /\ next.approval = actor[c].approval
          /\ next.kind = actor[c].kind /\ next.run = actor[c].run
      BY <2>1, OwnerFacts DEF ActorStates
    <2>3. Write(c, <<With(audit, "ExecutingTool")>>, Become(c, next))
      BY <1>2 DEF Goto
    <2> HIDE DEF next
    <2>4. ASSUME RebasesAreWhole PROVE Fits(next)
      <3>1. Fits(actor[c])
        BY <2>1, <2>4 DEF Books, Bound
      <3> QED
        BY <1>2, <2>2, <3>1 DEF Fits
    <2>5. ~Recording(next) /\ "ExecutingTool" \in Statuses
      BY <2>2 DEF Recording, Statuses, Running
    <2> QED
      BY <1>2, <2>1, <2>3, <2>4, <2>5, RowBooks
  <1> QED
    BY <1>1, <1>2 DEF Approve

\* An approval that was not spent may be rejected, by a thread that has it in
\* hand or in the place of the engine.
LEMMA RejectedBound ==
  ASSUME IInv, Bound, NEW approval \in Approvals, Unspent(approval), commits' = commits,
         audit'.approval = audit.approval
         \/ audit'.approval = [audit.approval EXCEPT ![approval.id] = "rejected"],
         audit'.shown = audit.shown
  PROVE  CommitsAreBound'
  <1>1. approval.id \in Ids
    BY ApprovalType
  <1>2. \A i \in Ids : /\ i # approval.id => audit'.approval[i] = audit.approval[i]
                       /\ audit'.approval[i] = "approved" => audit.approval[i] = "approved"
    BY <1>1, BooksType
  <1>3. ASSUME NEW c \in commits, c.approval # NoId
        PROVE  /\ audit'.shown[c.approval] = c.from
               /\ audit'.approval[c.approval] \in {"pending", "approved"}
               /\ \A d \in commits : d.approval = c.approval => d = c
    <2>1. c.approval \in Ids /\ c.approval # approval.id
      BY <1>3, BooksType, CommitType DEF Unspent
    <2> QED
      BY <1>2, <1>3, <2>1 DEF Bound, CommitsAreBound
  <1>4. ASSUME NEW i \in Ids, audit'.approval[i] = "approved"
        PROVE  \E c \in commits : c.approval = i
    BY <1>2, <1>4 DEF Bound, CommitsAreBound
  <1> QED
    BY <1>3, <1>4 DEF CommitsAreBound

LEMMA RejectBooks == \A c \in Callers : IInv /\ Books /\ Reject(c) => Books'
  <1> SUFFICES ASSUME NEW c \in Callers, IInv, Books, Reject(c) PROVE Books'
    OBVIOUS
  <1> DEFINE id == actor[c].approval.id
             resolved == Resolved(audit, id, "rejected")
             last == With(resolved, "CallingProvider")
             next == [actor[c] EXCEPT !.pc = "loop", !.kind = "read", !.approval = NoApproval]
  <1>1. CASE Take(c, "reject", "declined")
    BY <1>1, TakeBooks
  <1>2. CASE /\ actor[c].pc = "declined"
             /\ Write(c, <<resolved, last>>, Become(c, next))
             /\ UNCHANGED <<document, token, issued, session, commits>>
    <2>1. c \in Actors /\ actor[c].pc \in Driving /\ ~Recording(actor[c])
      BY <1>2 DEF Actors, Driving, Recording
    <2>2. /\ actor[c].approval \in Approvals /\ actor[c].approval # NoApproval /\ audit \in Audits
          /\ pending = NoApproval
      BY <1>2, <2>1, OwnerFacts DEF Sound, Deciding
    <2>3. next.pc = "loop" /\ next.approval = NoApproval
      BY <2>1, OwnerFacts DEF ActorStates
    <2>4. /\ resolved.approval = [audit.approval EXCEPT ![id] = "rejected"]
          /\ resolved.shown = audit.shown /\ resolved.links = audit.links
      BY <2>2 DEF Resolved, Audits
    <2>5. /\ last.approval = resolved.approval /\ last.shown = resolved.shown
          /\ last.links = resolved.links
      BY DEF With
    <2>6. Write(c, <<resolved, last>>, Become(c, next))
      BY <1>2
    <2> HIDE DEF resolved, last, next
    <2>7. /\ <<resolved, last>>[Len(<<resolved, last>>)] = last
          /\ \A i \in DOMAIN <<resolved, last>> : <<resolved, last>>[i] \in {resolved, last}
      OBVIOUS
    <2>8. /\ audit' \in {audit, resolved, last} /\ pending' = NoApproval
          /\ actor' = [actor EXCEPT ![c] = next] \/ actor' = [actor EXCEPT ![c] = After(c)]
      BY <2>2, <2>6, <2>7 DEF Write, Become
    <2>9. PICK state : /\ actor' = [actor EXCEPT ![c] = state] /\ state.approval = NoApproval
                       /\ ~Recording(state)
      BY <2>1, <2>3, <2>8, EmptyHands DEF Recording
    <2>10. \A b \in Actors : actor'[b] = IF b = c THEN state ELSE actor[b]
      BY <2>9 DEF IInv, TypeOK
    <2>11. /\ \/ audit'.approval = audit.approval
              \/ audit'.approval = [audit.approval EXCEPT ![id] = "rejected"]
           /\ audit'.shown = audit.shown /\ audit'.links = audit.links
      BY <2>4, <2>5, <2>8
    <2>12. LinksKept'
      <3>1. commits \subseteq audit.links /\ \A b \in Actors : ~Recording(actor[b])
        BY <2>1, NothingUnlinked DEF Books
      <3>2. \A b \in Actors : ~Recording(actor[b])'
        BY <2>9, <2>10, <3>1 DEF Recording
      <3> QED
        BY <1>2, <2>11, <3>1, <3>2 DEF Books, LinksKept
    <2>13. ASSUME RebasesAreWhole PROVE Bound'
      <3>1. Bound /\ Unspent(actor[c].approval)
        BY <1>2, <2>1, <2>2, <2>13 DEF Books, Bound, Fits
      <3>2. CommitsAreBound'
        BY <1>2, <2>2, <2>11, <3>1, RejectedBound
      <3>3. \A b \in Actors : actor'[b].approval = NoApproval
        BY <2>1, <2>9, <2>10, <3>1, OthersHoldNothing DEF IInv, SingleOwner, Drivers
      <3> QED
        BY <1>2, <2>8, <3>1, <3>2, <3>3 DEF Bound, Fits
    <2>14. RebasesAreWhole' <=> RebasesAreWhole
      BY DEF RebasesAreWhole
    <2> QED
      BY <2>12, <2>13, <2>14 DEF Books
  <1> QED
    BY <1>1, <1>2 DEF Reject

\* The old approval is rejected and the new one shown, unless the repository
\* fails between the two.
LEMMA RebaseBooks == \A c \in Callers, r \in Revisions : IInv /\ Books /\ Rebase(c, r) => Books'
  <1> SUFFICES ASSUME NEW c \in Callers, NEW r \in Revisions, IInv, Books, Rebase(c, r)
               PROVE  Books'
    OBVIOUS
  <1>1. /\ c \in Actors /\ actor[c].pc \notin Driving /\ actor' = [actor EXCEPT ![c] = Idle]
        /\ UNCHANGED <<document, session, commits>>
    BY DEF Actors, Rebase, Asked, Driving
  <1>2. Idle.approval = NoApproval /\ Idle.pc = "idle" /\ Idle.pc \notin Driving
    BY EmptyHands DEF Driving
  <1>3. CASE UNCHANGED <<pending, issued, audit, faults>>
    <2>1. SameBooks
      BY <1>3 DEF SameBooks
    <2> QED
      BY <1>1, <1>2, <1>3, <2>1, EmptyCaller
  <1>4. CASE pending # NoApproval /\ pending.id = actor[c].named /\ issued < MaxApprovals
    <2> DEFINE fresh == Rebased(pending, issued + 1, r)
               resolved == Resolved(audit, pending.id, "rejected")
               shown == Requested(resolved, fresh.id, fresh.base)
    <2>1. /\ pending \in Approvals /\ pending.id \in Ids /\ audit \in Audits /\ issued \in Nat
          /\ Drivers = {}
      BY <1>4, ApprovalType DEF IInv, TypeOK, SingleOwner
    <2>2. issued + 1 \in Ids
      BY <1>4, <2>1, AgentRunAssumption DEF Ids
    <2>3. /\ fresh.id = issued + 1 /\ fresh.base = r /\ fresh.run.revision = r
      BY <2>1 DEF Rebased, Approvals, RunStates
    <2>4. /\ resolved \in Audits /\ resolved.shown = audit.shown /\ resolved.links = audit.links
          /\ resolved.approval = [audit.approval EXCEPT ![pending.id] = "rejected"]
      BY <2>1, AuditType DEF Resolved, Audits, Resolutions
    <2> HIDE DEF resolved, fresh
    <2>5. /\ shown.links = audit.links
          /\ shown.shown = [audit.shown EXCEPT ![issued + 1] = r]
          /\ shown.approval = [resolved.approval EXCEPT ![issued + 1] = "pending"]
      BY <2>2, <2>3, <2>4 DEF Requested, Audits
    <2> HIDE DEF shown
    <2>6. \/ /\ pending' = fresh /\ issued' = issued + 1 /\ audit' = shown
          \/ ~RebasesAreWhole /\ audit' \in {audit, resolved}
      <3>1. \/ pending' = fresh /\ issued' = issued + 1 /\ audit' = shown
            \/ "rebase" \in FaultyIn /\ audit' \in {audit, resolved}
        BY <1>4 DEF Rebase, fresh, resolved, shown
      <3> QED
        BY <3>1 DEF RebasesAreWhole
    <2>7. \A b \in Actors : actor'[b] = IF b = c THEN Idle ELSE actor[b]
      BY <1>1 DEF IInv, TypeOK
    <2>8. \A b \in Actors : actor[b].pc \notin Driving /\ ~Recording(actor[b])
      BY <2>1 DEF Drivers, Recording, Driving
    <2>9. LinksKept'
      <3>1. commits \subseteq audit.links
        BY <1>4, <2>8 DEF Books, LinksKept, NobodyLeft
      <3>2. audit'.links = audit.links
        BY <2>4, <2>5, <2>6
      <3>3. \A b \in Actors : ~Recording(actor[b])'
        BY <1>2, <2>7, <2>8 DEF Recording
      <3> QED
        BY <1>1, <3>1, <3>2, <3>3 DEF Books, LinksKept
    <2>10. ASSUME RebasesAreWhole PROVE Bound'
      <3>1. Bound /\ Live(pending) /\ Unspent(pending)
        BY <1>4, <2>10 DEF Books, Bound
      <3>2. pending' = fresh /\ issued' = issued + 1 /\ audit' = shown
        BY <2>6, <2>10
      <3>3. \A k \in commits : /\ k \in Commits /\ k.approval <= issued /\ k.approval # issued + 1
                               /\ k.approval <= issued' /\ k.approval # pending.id
        BY <2>1, <3>1, <3>2, BooksType, CommitType DEF Bound, Unspent
      <3>4. \A i \in Ids : /\ i \notin {pending.id, issued + 1} =>
                                 audit'.approval[i] = audit.approval[i] /\ audit'.shown[i] = audit.shown[i]
                           /\ audit'.approval[i] = "approved" => audit.approval[i] = "approved"
        BY <2>1, <2>2, <2>4, <2>5, <3>2, BooksType
      <3>5. CommitsAreBound'
        <4>1. ASSUME NEW k \in commits, k.approval # NoId
              PROVE  /\ audit'.shown[k.approval] = k.from
                     /\ audit'.approval[k.approval] \in {"pending", "approved"}
                     /\ \A d \in commits : d.approval = k.approval => d = k
          <5>1. k.approval \in Ids /\ k.approval \notin {pending.id, issued + 1}
            BY <3>3, <4>1, CommitType
          <5> QED
            BY <3>1, <3>4, <4>1, <5>1 DEF Bound, CommitsAreBound
        <4>2. ASSUME NEW i \in Ids, audit'.approval[i] = "approved"
              PROVE  \E k \in commits : k.approval = i
          BY <3>1, <3>4, <4>2 DEF Bound, CommitsAreBound
        <4> QED
          BY <1>1, <4>1, <4>2 DEF CommitsAreBound
      <3>6. Live(pending)'
        <4>1. audit'.approval[issued + 1] = "pending" /\ audit'.shown[issued + 1] = r
          BY <2>2, <2>4, <2>5, <3>2, BooksType DEF Audits
        <4> QED
          BY <2>1, <2>3, <3>2, <4>1 DEF Live
      <3>7. Unspent(pending)'
        BY <1>1, <2>3, <3>2, <3>3 DEF Unspent
      <3>8. \A b \in Actors : actor'[b].approval = NoApproval
        BY <1>2, <2>7, <2>8, <3>1, OthersHoldNothing
      <3> QED
        BY <1>1, <3>3, <3>5, <3>6, <3>7, <3>8 DEF Bound, Fits
    <2>11. RebasesAreWhole' <=> RebasesAreWhole
      BY DEF RebasesAreWhole
    <2> QED
      BY <2>9, <2>10, <2>11 DEF Books
  <1> QED
    BY <1>3, <1>4 DEF Rebase

LEMMA CancelRunBooks ==
  ASSUME IInv, Books, NEW c \in Callers, actor[c].pc \notin Driving,
         \/ CancelRun(c, Idle)
         \/ actor[c].pc = "closing" /\ CancelRun(c, [actor[c] EXCEPT !.pc = "joining"])
  PROVE  Books'
  <1>1. /\ c \in Actors /\ pending' = NoApproval /\ SameBooks
        /\ UNCHANGED <<document, issued, session, commits, faults>>
    BY DEF Actors, CancelRun, SameBooks
  <1>2. CASE pending = NoApproval
    <2>1. /\ Idle.approval = NoApproval /\ Idle.pc \notin Driving
      BY EmptyHands DEF Driving
    <2>2. [actor[c] EXCEPT !.pc = "joining"].pc = "joining"
          /\ [actor[c] EXCEPT !.pc = "joining"].approval = actor[c].approval
      BY <1>1 DEF IInv, TypeOK, ActorStates
    <2>3. CASE actor' = [actor EXCEPT ![c] = Idle]
      BY <1>1, <2>1, <2>3, EmptyCaller
    <2>4. CASE actor' = [actor EXCEPT ![c] = [actor[c] EXCEPT !.pc = "joining"]]
      <3> DEFINE next == [actor[c] EXCEPT !.pc = "joining"]
      <3>1. RebasesAreWhole => actor[c].approval = NoApproval
        BY <1>1, OthersHoldNothing DEF Books
      <3>2. next.pc \notin Driving /\ next.pc # "recording" /\ (RebasesAreWhole => Fits(next))
        BY <2>2, <3>1, EmptyHands DEF Driving
      <3>3. actor' = [actor EXCEPT ![c] = next]
        BY <2>4
      <3> HIDE DEF next
      <3> QED
        BY <1>1, <1>2, <3>2, <3>3, QuietCaller
    <2> QED
      BY <1>2, <2>3, <2>4 DEF CancelRun
  <1>3. CASE pending # NoApproval
    <2>1. actor' = [actor EXCEPT ![c] = Held(c, "cancelling")]
      BY <1>3 DEF CancelRun
    <2>2. (RebasesAreWhole => Fits(Held(c, "cancelling"))) /\ Held(c, "cancelling").pc # "recording"
      BY <1>1, <1>3, HeldFits
    <2> QED
      BY <1>1, <1>3, <2>1, <2>2, QuietCaller
  <1> QED
    BY <1>2, <1>3

LEMMA CancelBooks == \A c \in Callers : IInv /\ Books /\ Cancel(c) => Books'
  <1> SUFFICES ASSUME NEW c \in Callers, IInv, Books, Cancel(c) PROVE Books'
    OBVIOUS
  <1>1. CASE Asked(c, "cancel") /\ CancelRun(c, Idle)
    <2>1. actor[c].pc \notin Driving
      BY <1>1 DEF Asked, Driving
    <2>2. CancelRun(c, Idle)
      BY <1>1
    <2> QED
      BY <2>1, <2>2, CancelRunBooks
  <1>2. CASE /\ actor[c].pc = "cancelling" /\ End(c, "Cancelled")
             /\ UNCHANGED <<document, token, issued, session, commits>>
    <2>1. c \in Actors /\ actor[c].pc \in Driving /\ ~Recording(actor[c])
      BY <1>2 DEF Actors, Driving, Recording
    <2> QED
      BY <1>2, <2>1, EndBooks DEF Statuses, Terminal
  <1> QED
    BY <1>1, <1>2 DEF Cancel

LEMMA SessionBooks ==
  \A c \in Callers, op \in {"approve", "reject", "rebase", "cancel"}, id \in Ids \cup {NoId} :
    IInv /\ Books /\ (CloseSession(c) \/ Call(c, op, id)) => Books'
  <1> SUFFICES ASSUME NEW c \in Callers, NEW op \in {"approve", "reject", "rebase", "cancel"},
                      NEW id \in Ids \cup {NoId}, IInv, Books, CloseSession(c) \/ Call(c, op, id)
               PROVE  Books'
    OBVIOUS
  <1>1. c \in Actors /\ actor[c].pc \notin Driving
    BY DEF Actors, CloseSession, Call, Driving
  <1>2. CASE actor[c].pc = "closing" /\ CancelRun(c, [actor[c] EXCEPT !.pc = "joining"])
    BY <1>1, <1>2, CancelRunBooks
  <1> DEFINE closing == [Idle EXCEPT !.pc = "closing", !.op = "close"]
             asked == [Idle EXCEPT !.pc = "asked", !.op = op, !.named = id]
  <1>3. CASE /\ \/ actor' = [actor EXCEPT ![c] = closing]
                \/ actor' = [actor EXCEPT ![c] = Idle]
                \/ actor' = [actor EXCEPT ![c] = asked]
             /\ session.phase = "open" \/ actor[c].pc # "idle"
             /\ UNCHANGED <<document, pending, issued, audit, commits, faults>>
    <2>1. session.phase # "restarted"
      BY <1>1, <1>3, CallerFacts
    <2>2. /\ closing.approval = NoApproval /\ closing.pc \notin Driving
          /\ asked.approval = NoApproval /\ asked.pc \notin Driving
          /\ Idle.approval = NoApproval /\ Idle.pc \notin Driving
      BY DEF Idle, Driving
    <2>3. SameBooks
      BY <1>3 DEF SameBooks
    <2> HIDE DEF closing, asked
    <2> QED
      BY <1>1, <1>3, <2>1, <2>2, <2>3, EmptyCaller
  <1> QED
    BY <1>2, <1>3 DEF CloseSession, Call

\* Steps that leave the threads, the approval and the books alone.
LEMMA StillBooks ==
  ASSUME IInv, Books, UNCHANGED <<actor, pending, audit, commits, issued, faults>>,
         session'.phase = session.phase, document' \in Nat, document' >= document
  PROVE  Books'
  <1>1. LinksKept'
    <2>1. \A c \in commits : c.to \in Nat /\ c.to <= document /\ document \in Nat
      BY BooksType, CommitType, AgentRunAssumption DEF Books, LinksKept, Revisions
    <2>2. \A c \in commits' : c.to <= document'
      BY <2>1
    <2> QED
      BY <2>2 DEF Books, LinksKept, NobodyLeft, Drivers, Recording, Commit
  <1>2. RebasesAreWhole => Bound'
    BY DEF Books, Bound, CommitsAreBound, Live, Unspent, Fits
  <1>3. RebasesAreWhole' <=> RebasesAreWhole
    BY DEF RebasesAreWhole
  <1> QED
    BY <1>1, <1>2, <1>3 DEF Books

LEMMA RestartBooks == IInv /\ Books /\ Restart => Books'
  <1> SUFFICES ASSUME IInv, Books, Restart PROVE Books'
    OBVIOUS
  <1>1. /\ \A b \in Actors : actor'[b] = Idle
        /\ pending' = NoApproval /\ session'.phase = "restarted"
        /\ UNCHANGED <<document, issued, commits, faults>>
    BY DEF Restart
  <1>2. /\ audit'.approval = audit.approval /\ audit'.shown = audit.shown
        /\ audit'.links = audit.links
    BY DEF Restart, With
  <1>3. \A b \in Actors : ~Recording(actor[b])' /\ Fits(actor[b])'
    BY <1>1, EmptyHands DEF Recording, Fits
  <1>4. NobodyLeft'
    BY <1>1, EmptyHands DEF NobodyLeft, Drivers, Driving
  <1>5. LinksKept'
    BY <1>1, <1>2, <1>3, <1>4 DEF Books, LinksKept
  <1>6. RebasesAreWhole => Bound'
    BY <1>1, <1>2, <1>3 DEF Books, Bound, CommitsAreBound
  <1>7. RebasesAreWhole' <=> RebasesAreWhole
    BY DEF RebasesAreWhole
  <1> QED
    BY <1>5, <1>6, <1>7 DEF Books

LEMMA InitBooks == Init => Books
  <1> SUFFICES ASSUME Init PROVE Books
    OBVIOUS
  <1>1. \A a \in Actors : actor[a].approval = NoApproval /\ actor[a].pc # "recording"
    BY DEF Init, Idle
  <1>2. /\ commits = {} /\ audit.links = {} /\ pending = NoApproval
        /\ \A i \in Ids : audit.approval[i] = "unknown"
    BY DEF Init
  <1>3. LinksKept
    BY <1>1, <1>2 DEF LinksKept, Recording
  <1>4. Bound
    BY <1>1, <1>2 DEF Bound, CommitsAreBound, Fits
  <1> QED
    BY <1>3, <1>4 DEF Books

LEMMA NextBooks == IInv /\ Books /\ [Next]_vars => Books'
  <1> SUFFICES ASSUME IInv, Books, [Next]_vars PROVE Books'
    OBVIOUS
  <1>1. ASSUME WorkerStep PROVE Books'
    <2>1. Worker \in Actors
      BY DEF Actors
    <2> QED
      BY <1>1, <2>1, WorkerBooks, DriveBooks DEF WorkerStep
  <1>2. ASSUME NEW c \in Callers, CallerStep(c) PROVE Books'
    <2>1. c \in Actors
      BY DEF Actors
    <2> QED
      BY <1>2, <2>1, GiveBackBooks, ApproveBooks, RejectBooks, RebaseBooks, CancelBooks, DriveBooks
      DEF CallerStep
  <1>3. ASSUME NEW c \in Callers,
               \/ \E op \in {"approve", "reject", "rebase"}, i \in Ids : Call(c, op, i)
               \/ Call(c, "cancel", NoId)
        PROVE  Books'
    <2>1. PICK op \in {"approve", "reject", "rebase", "cancel"}, i \in Ids \cup {NoId} : Call(c, op, i)
      BY <1>3
    <2> QED
      BY <2>1, SessionBooks
  <1>4. ASSUME NEW c \in Callers, CloseSession(c) PROVE Books'
    BY <1>4, SessionBooks DEF NoId
  <1>5. ASSUME Register \/ Edit \/ UNCHANGED vars PROVE Books'
    <2>1. document \in Nat
      BY BooksType, AgentRunAssumption DEF Revisions
    <2>2. /\ UNCHANGED <<actor, pending, audit, commits, issued, faults>>
          /\ document' = document \/ document' = document + 1
      BY <1>5 DEF Register, Edit, vars
    <2>3. session'.phase = session.phase
      BY <1>5 DEF Register, Edit, vars, IInv, TypeOK
    <2> QED
      BY <2>1, <2>2, <2>3, StillBooks
  <1> QED
    BY <1>1, <1>2, <1>3, <1>4, <1>5, RestartBooks DEF Next

\* The books are in order in every state of the run.
THEOREM BooksOfTheRun == Spec => []Books
  <1> QED
    BY InitBooks, NextBooks, InvariantOfTheRun, PTL DEF Spec

\* The approval the engine would execute is the one people were shown, and a
\* command with an approval was committed on the revision of its proposal,
\* once, as long as the repository takes what a rebase writes (run.rs).
THEOREM ApprovalsBind == RebasesAreWhole => (Spec => []CommitsAreShown)
  <1> SUFFICES ASSUME RebasesAreWhole PROVE Spec => []CommitsAreShown
    OBVIOUS
  <1>1. Books => CommitsAreShown
    BY DEF Books, Bound, CommitsAreShown, PendingIsShown, Live
  <1> QED
    BY <1>1, BooksOfTheRun, PTL

\* Whatever the repository refuses and wherever the process stops, a command
\* of the run has its link, is the last one and about to get it, or is the last
\* one of a run that is lost (run.rs, agent_repository.rs).
THEOREM CommandsAreLinked == Spec => []CommitsAreLinked
  <1>1. Books => CommitsAreLinked
    BY DEF Books, LinksKept, NobodyLeft, Recording, CommitsAreLinked
  <1> QED
    BY <1>1, BooksOfTheRun, PTL

-----------------------------------------------------------------------------
(* The status machine                                                      *)

\* The status the repository holds for the run that a thread drives.
StatusAt ==
  [new |-> "none", queued |-> "Queued", assembling |-> "AssemblingContext",
   loop |-> "CallingProvider", provider |-> "CallingProvider", tools |-> "CallingProvider",
   executing |-> "ExecutingTool", recording |-> "ExecutingTool",
   parking |-> "AwaitingApproval", granted |-> "AwaitingApproval", declined |-> "AwaitingApproval",
   mismatch |-> "AwaitingApproval", cancelling |-> "AwaitingApproval"]

\* Where the run is and what the repository says of it agree.
Steady ==
  /\ \A a \in Actors : actor[a].pc \in Driving => audit.status = StatusAt[actor[a].pc]
  /\ pending # NoApproval => audit.status = "AwaitingApproval"

\* What RunsEndForGood demands of a step.
Moves ==
  /\ audit'.status # audit.status => <<audit.status, audit'.status>> \in Legal
  /\ audit.status \in Terminal => commits' = commits

LEMMA StatusFacts ==
  /\ \A pc \in Driving : StatusAt[pc] \notin Terminal
  /\ \A pc \in Deciding : StatusAt[pc] = "AwaitingApproval" /\ pc \in Driving
  /\ \A pc \in {"loop", "provider", "tools"} : StatusAt[pc] = "CallingProvider"
  /\ \A pc \in {"executing", "recording"} : StatusAt[pc] = "ExecutingTool"
  /\ StatusAt["new"] = "none" /\ StatusAt["queued"] = "Queued"
  /\ StatusAt["assembling"] = "AssemblingContext"
  BY DEF StatusAt, Driving, Deciding, Terminal

LEMMA LegalFacts ==
  /\ <<"none", "Queued">> \in Legal /\ <<"Queued", "AssemblingContext">> \in Legal
  /\ <<"AssemblingContext", "CallingProvider">> \in Legal
  /\ \A from \in {"CallingProvider", "ExecutingTool"},
        to \in {"Completed", "Cancelled", "Failed", "BudgetPaused", "ExecutingTool",
                "AwaitingApproval", "CallingProvider"} :
       <<from, to>> \in Legal
  /\ \A to \in {"ExecutingTool", "CallingProvider", "Cancelled", "Failed"} :
       <<"AwaitingApproval", to>> \in Legal
  /\ \A from \in Running : <<from, "Failed">> \in Legal
  BY DEF Legal, Statuses, Terminal, Running

\* The thread that drives the run moves the status, and only it.
LEMMA DriverMoves ==
  ASSUME IInv, Steady, NEW a \in Actors, actor[a].pc \in Driving,
         NEW next, actor' = [actor EXCEPT ![a] = next],
         next.pc \in Driving => audit'.status = StatusAt[next.pc],
         pending' = NoApproval \/ audit'.status = "AwaitingApproval",
         audit'.status = audit.status \/ <<StatusAt[actor[a].pc], audit'.status>> \in Legal
  PROVE  Steady' /\ (audit'.status # audit.status => <<audit.status, audit'.status>> \in Legal)
         /\ audit.status \notin Terminal
  <1>1. \A b \in Actors : actor'[b] = IF b = a THEN next ELSE actor[b]
    BY DEF IInv, TypeOK
  <1>2. \A b \in Actors : b # a => actor[b].pc \notin Driving
    BY DEF IInv, SingleOwner, Drivers
  <1>3. audit.status = StatusAt[actor[a].pc] /\ audit.status \notin Terminal
    BY StatusFacts DEF Steady
  <1>4. Steady'
    BY <1>1, <1>2 DEF Steady
  <1> QED
    BY <1>3, <1>4

LEMMA WritesMove ==
  ASSUME IInv, Steady, NEW a \in Actors, actor[a].pc \in Driving, UNCHANGED commits,
         NEW writes, writes \in Seq(Audits), writes # <<>>,
         NEW next, Write(a, writes, Become(a, next)),
         next.pc \in Driving => writes[Len(writes)].status = StatusAt[next.pc],
         \A i \in DOMAIN writes : \/ writes[i].status = audit.status
                                  \/ <<StatusAt[actor[a].pc], writes[i].status>> \in Legal
  PROVE  Steady' /\ Moves
  <1>1. Len(writes) \in DOMAIN writes
    BY LenProperties
  <1>2. pending' = NoApproval /\ After(a).pc \notin Driving
    BY OwnerFacts, EmptyHands DEF Write, Become, Driving
  <1>3. audit'.status = audit.status \/ <<StatusAt[actor[a].pc], audit'.status>> \in Legal
    BY <1>1 DEF Write
  <1>4. PICK state : /\ actor' = [actor EXCEPT ![a] = state]
                     /\ state.pc \in Driving => audit'.status = StatusAt[state.pc]
    BY <1>2 DEF Write, Become
  <1> QED
    BY <1>2, <1>3, <1>4, DriverMoves DEF Moves

LEMMA RowMoves ==
  ASSUME IInv, Steady, NEW a \in Actors, actor[a].pc \in Driving, UNCHANGED commits,
         NEW status \in Statuses, <<StatusAt[actor[a].pc], status>> \in Legal,
         NEW next, Write(a, <<With(audit, status)>>, Become(a, next)),
         next.pc \in Driving => status = StatusAt[next.pc]
  PROVE  Steady' /\ Moves
  <1> DEFINE row == With(audit, status)
  <1>1. row \in Audits /\ row.status = status
    BY OwnerFacts, AuditType, StatusOfRows
  <1>2. Write(a, <<row>>, Become(a, next))
    OBVIOUS
  <1> HIDE DEF row
  <1>3. /\ <<row>> \in Seq(Audits) /\ <<row>> # <<>> /\ <<row>>[Len(<<row>>)] = row
        /\ \A i \in DOMAIN <<row>> : <<row>>[i] = row
    BY <1>1
  <1> QED
    BY <1>1, <1>2, <1>3, WritesMove

LEMMA EndMoves ==
  ASSUME IInv, Steady, NEW a \in Actors, actor[a].pc \in Driving, UNCHANGED commits,
         NEW status \in Statuses, <<StatusAt[actor[a].pc], status>> \in Legal, End(a, status)
  PROVE  Steady' /\ Moves
  <1>1. After(a).pc \notin Driving
    BY EmptyHands DEF Driving
  <1> QED
    BY <1>1, RowMoves DEF End

\* The thread that drives the run goes on, or leaves it to the approval.
LEMMA SilentMoves ==
  ASSUME IInv, Steady, NEW a \in Actors, actor[a].pc \in Driving,
         audit'.status = audit.status,
         NEW next, actor' = [actor EXCEPT ![a] = next],
         next.pc \in Driving => StatusAt[next.pc] = StatusAt[actor[a].pc],
         pending' = NoApproval \/ StatusAt[actor[a].pc] = "AwaitingApproval"
  PROVE  Steady' /\ Moves
  <1>1. audit.status = StatusAt[actor[a].pc]
    BY DEF Steady
  <1> QED
    BY <1>1, DriverMoves DEF Moves

\* The other threads leave the status alone; who takes the approval finds it
\* waiting.
LEMMA CallerMoves ==
  ASSUME IInv, Steady, NEW c \in Actors, actor[c].pc \notin Driving,
         audit'.status = audit.status, UNCHANGED commits,
         NEW next, actor' = [actor EXCEPT ![c] = next],
         next.pc \in Driving => pending # NoApproval /\ next.pc \in Deciding,
         pending' # NoApproval => pending # NoApproval
  PROVE  Steady' /\ Moves
  <1>1. \A b \in Actors : actor'[b] = IF b = c THEN next ELSE actor[b]
    BY DEF IInv, TypeOK
  <1>2. next.pc \in Driving => audit'.status = StatusAt[next.pc]
    BY StatusFacts DEF Steady
  <1>3. Steady'
    BY <1>1, <1>2 DEF Steady
  <1> QED
    BY <1>3 DEF Moves

\* What people decide and what is linked says nothing of the status.
LEMMA StatusStays ==
  ASSUME NEW rows \in Audits
  PROVE  /\ \A id \in Ids, how \in Resolutions : Resolved(rows, id, how).status = rows.status
         /\ \A id \in Ids, base \in Revisions : Requested(rows, id, base).status = rows.status
         /\ \A commit \in Commits : Linked(rows, commit).status = rows.status
  BY DEF Resolved, Requested, Linked, Audits

LEMMA WorkerMoves ==
  IInv /\ Steady /\ (Create \/ Assemble \/ CallProvider) => Steady' /\ Moves
  <1> SUFFICES ASSUME IInv, Steady, Create \/ Assemble \/ CallProvider PROVE Steady' /\ Moves
    OBVIOUS
  <1>1. PICK status \in {"Queued", "AssemblingContext", "CallingProvider"},
             pc \in {"queued", "assembling", "loop"} :
          /\ Write(Worker, <<With(audit, status)>>, Become(Worker, [actor[Worker] EXCEPT !.pc = pc]))
          /\ status = StatusAt[pc] /\ <<StatusAt[actor[Worker].pc], status>> \in Legal
          /\ actor[Worker].pc \in Driving /\ UNCHANGED commits
    BY LegalFacts, StatusFacts DEF Create, Assemble, CallProvider, Goto, Driving
  <1> DEFINE next == [actor[Worker] EXCEPT !.pc = pc]
  <1>2. Worker \in Actors
    BY DEF Actors
  <1>3. next.pc = pc
    BY <1>1, <1>2, OwnerFacts DEF ActorStates
  <1>4. Write(Worker, <<With(audit, status)>>, Become(Worker, next))
    BY <1>1
  <1>5. status \in Statuses
    BY DEF Statuses, Running
  <1> HIDE DEF next
  <1> QED
    BY <1>1, <1>2, <1>3, <1>4, <1>5, RowMoves

LEMMA NextRoundMoves == \A a \in Actors : IInv /\ Steady /\ NextRound(a) => Steady' /\ Moves
  <1> SUFFICES ASSUME NEW a \in Actors, IInv, Steady, NextRound(a) PROVE Steady' /\ Moves
    OBVIOUS
  <1>1. /\ actor[a].pc \in Driving /\ UNCHANGED commits
        /\ actor[a].pc = "loop" /\ StatusAt[actor[a].pc] = "CallingProvider"
    BY StatusFacts DEF NextRound, Driving
  <1>2. CASE End(a, "Cancelled") \/ End(a, "BudgetPaused")
    BY <1>1, <1>2, LegalFacts, EndMoves DEF Statuses, Terminal
  <1>3. CASE /\ Become(a, [actor[a] EXCEPT !.pc = "provider", !.run.rounds = @ + 1])
             /\ UNCHANGED audit
    <2> DEFINE next == [actor[a] EXCEPT !.pc = "provider", !.run.rounds = @ + 1]
    <2>1. next.pc = "provider"
      BY <1>1, OwnerFacts DEF ActorStates
    <2>2. actor' = [actor EXCEPT ![a] = next] /\ pending' = NoApproval
      BY <1>1, <1>3, OwnerFacts DEF Become
    <2> HIDE DEF next
    <2> QED
      BY <1>1, <1>3, <2>1, <2>2, StatusFacts, SilentMoves
  <1> QED
    BY <1>2, <1>3 DEF NextRound

LEMMA ProviderAnswersMoves ==
  \A a \in Actors : IInv /\ Steady /\ ProviderAnswers(a) => Steady' /\ Moves
  <1> SUFFICES ASSUME NEW a \in Actors, IInv, Steady, ProviderAnswers(a) PROVE Steady' /\ Moves
    OBVIOUS
  <1>1. /\ actor[a].pc \in Driving /\ UNCHANGED commits
        /\ actor[a].pc = "provider" /\ StatusAt[actor[a].pc] = "CallingProvider"
    BY StatusFacts DEF ProviderAnswers, Driving
  <1>2. CASE End(a, "Cancelled") \/ End(a, "Failed") \/ End(a, "BudgetPaused")
    BY <1>1, <1>2, LegalFacts, EndMoves DEF Statuses, Terminal
  <1>3. CASE LET said == [audit EXCEPT !.exchanged = TRUE]
             IN Write(a, <<said, With(said, "Completed")>>, Become(a, Idle))
    <2> DEFINE said == [audit EXCEPT !.exchanged = TRUE]
               done == With(said, "Completed")
               writes == <<said, done>>
    <2>1. said \in Audits /\ said.status = audit.status
      BY <1>1, OwnerFacts, AuditType DEF Audits
    <2>2. Write(a, <<said, done>>, Become(a, Idle))
      BY <1>3
    <2> HIDE DEF said
    <2>3. done \in Audits /\ done.status = "Completed"
      BY <2>1, AuditType, StatusOfRows DEF Statuses, Terminal
    <2> HIDE DEF done
    <2>4. /\ writes \in Seq(Audits) /\ writes # <<>>
          /\ \A i \in DOMAIN writes : writes[i] = said \/ writes[i] = done
      BY <2>1, <2>3
    <2>5. Write(a, writes, Become(a, Idle)) /\ Idle.pc \notin Driving
      BY <2>2, EmptyHands DEF Driving
    <2> HIDE DEF writes
    <2>6. \A i \in DOMAIN writes : \/ writes[i].status = audit.status
                                   \/ <<StatusAt[actor[a].pc], writes[i].status>> \in Legal
      BY <1>1, <2>1, <2>3, <2>4, LegalFacts
    <2> QED
      BY <1>1, <2>4, <2>5, <2>6, WritesMove
  <1>4. ASSUME NEW batch \in Batches, UNCHANGED audit,
               Become(a, [actor[a] EXCEPT !.pc = "tools", !.batch = batch])
        PROVE  Steady' /\ Moves
    <2> DEFINE next == [actor[a] EXCEPT !.pc = "tools", !.batch = batch]
    <2>1. next.pc = "tools"
      BY <1>1, OwnerFacts DEF ActorStates
    <2>2. actor' = [actor EXCEPT ![a] = next] /\ pending' = NoApproval
      BY <1>1, <1>4, OwnerFacts DEF Become
    <2> HIDE DEF next
    <2> QED
      BY <1>1, <1>4, <2>1, <2>2, StatusFacts, SilentMoves
  <1> QED
    BY <1>2, <1>3, <1>4 DEF ProviderAnswers

LEMMA NoMoreToolsMoves == \A a \in Actors : IInv /\ Steady /\ NoMoreTools(a) => Steady' /\ Moves
  <1> SUFFICES ASSUME NEW a \in Actors, IInv, Steady, NoMoreTools(a) PROVE Steady' /\ Moves
    OBVIOUS
  <1> DEFINE next == [actor[a] EXCEPT !.pc = "loop"]
  <1>1. /\ actor[a].pc \in Driving /\ UNCHANGED <<commits, audit>>
        /\ actor[a].pc = "tools" /\ StatusAt[actor[a].pc] = "CallingProvider"
    BY StatusFacts DEF NoMoreTools, Driving
  <1>2. next.pc = "loop"
    BY <1>1, OwnerFacts DEF ActorStates
  <1>3. actor' = [actor EXCEPT ![a] = next] /\ pending' = NoApproval
    BY <1>1, OwnerFacts DEF NoMoreTools, Goto, Become
  <1> HIDE DEF next
  <1> QED
    BY <1>1, <1>2, <1>3, StatusFacts, SilentMoves

LEMMA ToolBudgetMoves ==
  \A a \in Actors : IInv /\ Steady /\ ToolBudgetIsSpent(a) => Steady' /\ Moves
  <1> SUFFICES ASSUME NEW a \in Actors, IInv, Steady, ToolBudgetIsSpent(a) PROVE Steady' /\ Moves
    OBVIOUS
  <1>1. /\ actor[a].pc \in Driving /\ UNCHANGED commits /\ End(a, "BudgetPaused")
        /\ StatusAt[actor[a].pc] = "CallingProvider"
    BY StatusFacts DEF ToolBudgetIsSpent, Driving
  <1> QED
    BY <1>1, LegalFacts, EndMoves DEF Statuses

LEMMA StartToolMoves == \A a \in Actors : IInv /\ Steady /\ StartTool(a) => Steady' /\ Moves
  <1> SUFFICES ASSUME NEW a \in Actors, IInv, Steady, StartTool(a) PROVE Steady' /\ Moves
    OBVIOUS
  <1> DEFINE taken == [actor[a] EXCEPT !.batch = Tail(@), !.kind = Head(actor[a].batch),
                                       !.run.calls = @ + 1]
  <1>1. /\ actor[a].pc \in Driving /\ UNCHANGED commits
        /\ actor[a].pc = "tools" /\ StatusAt[actor[a].pc] = "CallingProvider"
    BY StatusFacts DEF StartTool, Driving
  <1>2. actor[a] \in ActorStates /\ audit \in Audits
    BY <1>1, OwnerFacts
  <1>3. CASE Write(a, <<With(audit, "ExecutingTool")>>, Become(a, [taken EXCEPT !.pc = "executing"]))
    <2> DEFINE next == [taken EXCEPT !.pc = "executing"]
    <2>1. next.pc = "executing"
      BY <1>2 DEF ActorStates
    <2>2. Write(a, <<With(audit, "ExecutingTool")>>, Become(a, next))
      BY <1>3
    <2> HIDE DEF next
    <2>3. /\ "ExecutingTool" \in Statuses /\ StatusAt["executing"] = "ExecutingTool"
          /\ <<"CallingProvider", "ExecutingTool">> \in Legal
      BY StatusFacts, LegalFacts DEF Statuses, Running
    <2> QED
      BY <1>1, <2>1, <2>2, <2>3, RowMoves
  <1>4. CASE /\ issued < MaxApprovals /\ issued' = issued + 1
             /\ LET awaiting == With(audit, "AwaitingApproval")
                    approval == Proposed(a, issued')
                IN Write(a, <<awaiting, Requested(awaiting, approval.id, approval.base)>>,
                         Become(a, [taken EXCEPT !.pc = "parking", !.approval = approval]))
    <2>1. PICK id \in Ids : id = issued'
      BY <1>1, <1>4, OwnerFacts, AgentRunAssumption DEF Ids
    <2> DEFINE awaiting == With(audit, "AwaitingApproval")
               approval == Proposed(a, id)
               base == actor[a].run.revision
               shown == Requested(awaiting, approval.id, approval.base)
               next == [taken EXCEPT !.pc = "parking", !.approval = approval]
               writes == <<awaiting, shown>>
    <2>2. base \in Revisions
      BY <1>1, OwnerFacts DEF RunStates
    <2>3. approval.id = id /\ approval.base = base
      BY DEF Proposed
    <2>4. awaiting \in Audits /\ awaiting.status = "AwaitingApproval"
      BY <1>2, AuditType, StatusOfRows DEF Statuses
    <2>5. next.pc = "parking"
      BY <1>2 DEF ActorStates
    <2>6. Write(a, <<awaiting, shown>>, Become(a, next))
      BY <1>4, <2>1
    <2> HIDE DEF awaiting, approval, base, next
    <2>7. shown \in Audits /\ shown.status = "AwaitingApproval"
      BY <2>2, <2>3, <2>4, AuditType, StatusStays
    <2> HIDE DEF shown
    <2>8. /\ writes \in Seq(Audits) /\ writes # <<>>
          /\ \A i \in DOMAIN writes : writes[i] = awaiting \/ writes[i] = shown
          /\ writes[Len(writes)] = shown
      BY <2>4, <2>7
    <2>9. Write(a, writes, Become(a, next))
      BY <2>6
    <2> HIDE DEF writes
    <2>10. StatusAt["parking"] = "AwaitingApproval"
           /\ <<"CallingProvider", "AwaitingApproval">> \in Legal
      BY LegalFacts DEF StatusAt
    <2>11. \A i \in DOMAIN writes : <<StatusAt[actor[a].pc], writes[i].status>> \in Legal
      BY <1>1, <2>4, <2>7, <2>8, <2>10
    <2> QED
      BY <1>1, <2>5, <2>7, <2>8, <2>9, <2>10, <2>11, WritesMove
  <1>5. CASE End(a, "Completed") \/ End(a, "Failed")
    BY <1>1, <1>5, LegalFacts, EndMoves DEF Statuses, Terminal
  <1> HIDE DEF taken
  <1>6. taken = [actor[a] EXCEPT !.batch = Tail(@), !.kind = Head(actor[a].batch),
                                 !.run.calls = @ + 1]
    BY DEF taken
  <1> QED
    BY <1>3, <1>4, <1>5, <1>6 DEF StartTool

LEMMA RefusedMoves ==
  ASSUME IInv, Steady, NEW a \in Actors, actor[a].pc = "executing", Refused(a), UNCHANGED commits
  PROVE  Steady' /\ Moves
  <1> DEFINE row == With(audit, "AwaitingApproval")
  <1>1. actor[a].pc \in Driving /\ StatusAt[actor[a].pc] = "ExecutingTool"
    BY StatusFacts DEF Driving
  <1>2. CASE actor[a].approval = NoApproval
    BY <1>1, <1>2, LegalFacts, EndMoves DEF Refused, Statuses, Terminal
  <1>3. CASE actor[a].approval # NoApproval
    <2>1. row.status = "AwaitingApproval"
      BY <1>1, OwnerFacts, StatusOfRows DEF Statuses
    <2>2. Write(a, <<row>>, /\ pending' = actor[a].approval
                            /\ actor' = [actor EXCEPT ![a] = Idle])
      BY <1>3 DEF Refused
    <2> HIDE DEF row
    <2>3. <<row>>[Len(<<row>>)] = row /\ \A i \in DOMAIN <<row>> : <<row>>[i] = row
      OBVIOUS
    <2>4. audit' \in {audit, row}
      BY <2>2, <2>3 DEF Write
    <2>5. audit'.status = audit.status \/ <<StatusAt[actor[a].pc], audit'.status>> \in Legal
      BY <1>1, <2>1, <2>4, LegalFacts
    <2>6. CASE audit' = row /\ actor' = [actor EXCEPT ![a] = Idle]
      <3>1. Idle.pc \notin Driving
        BY EmptyHands DEF Driving
      <3> QED
        BY <1>1, <2>1, <2>5, <2>6, <3>1, DriverMoves DEF Moves
    <2>7. CASE actor' = [actor EXCEPT ![a] = After(a)] /\ UNCHANGED pending
      <3>1. After(a).pc \notin Driving /\ pending' = NoApproval
        BY <1>1, <2>7, EmptyHands, OwnerFacts DEF Driving
      <3> QED
        BY <1>1, <2>5, <2>7, <3>1, DriverMoves DEF Moves
    <2> QED
      BY <2>2, <2>3, <2>6, <2>7 DEF Write
  <1> QED
    BY <1>2, <1>3

LEMMA ExecuteMoves == \A a \in Actors : IInv /\ Steady /\ Execute(a) => Steady' /\ Moves
  <1> SUFFICES ASSUME NEW a \in Actors, IInv, Steady, Execute(a) PROVE Steady' /\ Moves
    OBVIOUS
  <1> DEFINE next == [actor[a] EXCEPT !.pc = "recording"]
  <1>1. /\ actor[a].pc = "executing" /\ actor[a].pc \in Driving
        /\ StatusAt[actor[a].pc] = "ExecutingTool" /\ StatusAt["recording"] = "ExecutingTool"
    BY StatusFacts DEF Execute, Driving
  <1>2. CASE Refused(a) /\ UNCHANGED commits
    BY <1>1, <1>2, RefusedMoves
  <1>3. CASE Goto(a, "recording") /\ UNCHANGED audit
    <2>1. next.pc = "recording"
      BY <1>1, OwnerFacts DEF ActorStates
    <2>2. actor' = [actor EXCEPT ![a] = next] /\ pending' = NoApproval
      BY <1>1, <1>3, OwnerFacts DEF Goto, Become
    <2> HIDE DEF next
    <2> QED
      BY <1>1, <1>3, <2>1, <2>2, SilentMoves
  <1> QED
    BY <1>2, <1>3 DEF Execute

LEMMA RecordMoves == \A a \in Actors : IInv /\ Steady /\ Record(a) => Steady' /\ Moves
  <1> SUFFICES ASSUME NEW a \in Actors, IInv, Steady, Record(a) PROVE Steady' /\ Moves
    OBVIOUS
  <1> DEFINE id == actor[a].approval.id
             read == actor[a].kind = "read"
             resolved == IF id = NoId THEN audit ELSE Resolved(audit, id, "approved")
             linked == IF read THEN resolved ELSE Linked(resolved, Commit(a))
             last == With(linked, "CallingProvider")
             next == [actor[a] EXCEPT !.pc = "tools", !.kind = "read", !.approval = NoApproval,
                                      !.run.revision = IF read THEN @ ELSE @ + 1]
             writes == <<resolved, linked, last>>
  <1>1. /\ actor[a].pc = "recording" /\ actor[a].pc \in Driving /\ UNCHANGED commits
        /\ StatusAt[actor[a].pc] = "ExecutingTool" /\ StatusAt["tools"] = "CallingProvider"
    BY StatusFacts DEF Record, Driving
  <1>2. id \in Ids \cup {NoId} /\ audit \in Audits /\ actor[a].run.revision \in Revisions
    BY <1>1, OwnerFacts, ApprovalType DEF NoApproval, RunStates
  <1>3. resolved \in Audits /\ resolved.status = audit.status
    <2>1. id # NoId => /\ Resolved(audit, id, "approved") \in Audits
                       /\ Resolved(audit, id, "approved").status = audit.status
      BY <1>2, AuditType, StatusStays DEF Resolutions
    <2> QED
      BY <1>2, <2>1
  <1>4. linked \in Audits /\ linked.status = audit.status
    <2> HIDE DEF resolved
    <2>1. ~read => Commit(a) \in Commits
      <3>1. ~read => actor[a].run.revision + 1 \in Revisions
        BY <1>1, NextRevision
      <3> QED
        BY <1>2, <3>1 DEF Commit, Commits
    <2>2. ~read => /\ Linked(resolved, Commit(a)) \in Audits
                   /\ Linked(resolved, Commit(a)).status = resolved.status
      BY <1>3, <2>1, AuditType, StatusStays
    <2> QED
      BY <1>3, <2>2
  <1>5. last \in Audits /\ last.status = "CallingProvider"
    <2> HIDE DEF linked
    <2> QED
      BY <1>4, AuditType, StatusOfRows DEF Statuses, Running
  <1>6. next.pc = "tools"
    BY <1>1, OwnerFacts DEF ActorStates
  <1>7. Write(a, <<resolved, linked, last>>, Become(a, next))
    BY DEF Record
  <1> HIDE DEF resolved, linked, last, next
  <1>8. /\ writes \in Seq(Audits) /\ writes # <<>> /\ writes[Len(writes)] = last
        /\ \A i \in DOMAIN writes : writes[i] \in {resolved, linked, last}
    BY <1>3, <1>4, <1>5
  <1>9. Write(a, writes, Become(a, next))
    BY <1>7
  <1> HIDE DEF writes
  <1>10. \A i \in DOMAIN writes : \/ writes[i].status = audit.status
                                  \/ <<StatusAt[actor[a].pc], writes[i].status>> \in Legal
    BY <1>1, <1>3, <1>4, <1>5, <1>8, LegalFacts
  <1> QED
    BY <1>1, <1>5, <1>6, <1>8, <1>9, <1>10, WritesMove

\* A thread hands the approval that it took, or asked for, to the engine.
LEMMA HandingMoves ==
  ASSUME IInv, Steady, NEW a \in Actors, actor[a].pc \in Deciding, UNCHANGED <<audit, commits>>,
         actor' = [actor EXCEPT ![a] = Idle]
  PROVE  Steady' /\ Moves
  <1>1. Idle.pc \notin Driving
    BY EmptyHands DEF Driving
  <1> QED
    BY <1>1, StatusFacts, SilentMoves

LEMMA DriveMoves == \A a \in Actors : IInv /\ Steady /\ Drive(a) => Steady' /\ Moves
  <1> SUFFICES ASSUME NEW a \in Actors, IInv, Steady, Drive(a) PROVE Steady' /\ Moves
    OBVIOUS
  <1>1. CASE Park(a)
    BY <1>1, HandingMoves DEF Park, Deciding
  <1> QED
    BY <1>1, NextRoundMoves, ProviderAnswersMoves, NoMoreToolsMoves, ToolBudgetMoves,
       StartToolMoves, ExecuteMoves, RecordMoves DEF Drive

LEMMA TakeMoves ==
  \A c \in Callers, op \in {"approve", "reject"}, pc \in {"granted", "declined"} :
    IInv /\ Steady /\ Take(c, op, pc) => Steady' /\ Moves
  <1> SUFFICES ASSUME NEW c \in Callers, NEW op \in {"approve", "reject"},
                      NEW pc \in {"granted", "declined"}, IInv, Steady, Take(c, op, pc)
               PROVE  Steady' /\ Moves
    OBVIOUS
  <1>1. /\ c \in Actors /\ actor[c].pc \notin Driving /\ pending' = NoApproval
        /\ UNCHANGED <<audit, commits>>
    BY DEF Actors, Take, Asked, Driving
  <1>2. CASE pending = NoApproval
    <2>1. actor' = [actor EXCEPT ![c] = Idle] /\ Idle.pc \notin Driving
      BY <1>2, EmptyHands DEF Take, Driving
    <2> QED
      BY <1>1, <2>1, CallerMoves
  <1>3. CASE pending # NoApproval
    <2>1. PICK at \in {"granted", "declined", "mismatch"} :
            actor' = [actor EXCEPT ![c] = Held(c, at)]
      BY <1>3 DEF Take
    <2>2. Held(c, at).pc \in Deciding
      BY <1>1 DEF IInv, TypeOK, ActorStates, Held, Deciding
    <2> QED
      BY <1>1, <1>3, <2>1, <2>2, CallerMoves
  <1> QED
    BY <1>2, <1>3

LEMMA ApproveMoves == \A c \in Callers : IInv /\ Steady /\ Approve(c) => Steady' /\ Moves
  <1> SUFFICES ASSUME NEW c \in Callers, IInv, Steady, Approve(c) PROVE Steady' /\ Moves
    OBVIOUS
  <1>1. CASE Take(c, "approve", "granted")
    BY <1>1, TakeMoves
  <1>2. CASE /\ actor[c].pc = "granted"
             /\ Write(c, <<With(audit, "ExecutingTool")>>, Goto(c, "executing"))
             /\ UNCHANGED commits
    <2> DEFINE next == [actor[c] EXCEPT !.pc = "executing"]
    <2>1. c \in Actors /\ actor[c].pc \in Driving
      BY <1>2 DEF Actors, Driving
    <2>2. next.pc = "executing"
      BY <2>1, OwnerFacts DEF ActorStates
    <2>3. Write(c, <<With(audit, "ExecutingTool")>>, Become(c, next))
      BY <1>2 DEF Goto
    <2> HIDE DEF next
    <2>4. /\ "ExecutingTool" \in Statuses /\ StatusAt["executing"] = "ExecutingTool"
          /\ <<StatusAt[actor[c].pc], "ExecutingTool">> \in Legal
      BY <1>2, LegalFacts DEF StatusAt, Statuses, Running
    <2> QED
      BY <1>2, <2>1, <2>2, <2>3, <2>4, RowMoves
  <1> QED
    BY <1>1, <1>2 DEF Approve

LEMMA RejectMoves == \A c \in Callers : IInv /\ Steady /\ Reject(c) => Steady' /\ Moves
  <1> SUFFICES ASSUME NEW c \in Callers, IInv, Steady, Reject(c) PROVE Steady' /\ Moves
    OBVIOUS
  <1> DEFINE id == actor[c].approval.id
             resolved == Resolved(audit, id, "rejected")
             last == With(resolved, "CallingProvider")
             next == [actor[c] EXCEPT !.pc = "loop", !.kind = "read", !.approval = NoApproval]
             writes == <<resolved, last>>
  <1>1. CASE Take(c, "reject", "declined")
    BY <1>1, TakeMoves
  <1>2. CASE /\ actor[c].pc = "declined"
             /\ Write(c, <<resolved, last>>, Become(c, next))
             /\ UNCHANGED commits
    <2>1. c \in Actors /\ actor[c].pc \in Driving
      BY <1>2 DEF Actors, Driving
    <2>2. id \in Ids
      BY <1>2, <2>1, OwnerFacts, ApprovalType DEF Sound, Deciding
    <2>3. resolved \in Audits /\ resolved.status = audit.status
      BY <2>1, <2>2, OwnerFacts, AuditType, StatusStays DEF Resolutions
    <2> HIDE DEF resolved
    <2>4. last \in Audits /\ last.status = "CallingProvider"
      BY <2>3, AuditType, StatusOfRows DEF Statuses, Running
    <2>5. next.pc = "loop"
      BY <2>1, OwnerFacts DEF ActorStates
    <2> HIDE DEF next, last
    <2>6. /\ writes \in Seq(Audits) /\ writes # <<>> /\ writes[Len(writes)] = last
          /\ \A i \in DOMAIN writes : writes[i] \in {resolved, last}
      BY <2>3, <2>4
    <2>7. Write(c, writes, Become(c, next))
      BY <1>2
    <2> HIDE DEF writes
    <2>8. /\ StatusAt["loop"] = "CallingProvider"
          /\ <<StatusAt[actor[c].pc], "CallingProvider">> \in Legal
      BY <1>2, LegalFacts DEF StatusAt
    <2> QED
      BY <1>2, <2>1, <2>3, <2>4, <2>5, <2>6, <2>7, <2>8, WritesMove
  <1> QED
    BY <1>1, <1>2 DEF Reject

LEMMA RebaseMoves ==
  \A c \in Callers, r \in Revisions : IInv /\ Steady /\ Rebase(c, r) => Steady' /\ Moves
  <1> SUFFICES ASSUME NEW c \in Callers, NEW r \in Revisions, IInv, Steady, Rebase(c, r)
               PROVE  Steady' /\ Moves
    OBVIOUS
  <1>1. /\ c \in Actors /\ actor[c].pc # "idle" /\ actor[c].pc \notin Driving
        /\ actor' = [actor EXCEPT ![c] = Idle] /\ UNCHANGED commits
    BY DEF Actors, Rebase, Asked, Driving
  <1>2. Idle.pc \notin Driving
    BY EmptyHands DEF Driving
  <1>3. CASE UNCHANGED <<pending, audit>>
    BY <1>1, <1>2, <1>3, CallerMoves
  <1>4. CASE pending # NoApproval /\ pending.id = actor[c].named /\ issued < MaxApprovals
    <2> DEFINE fresh == Rebased(pending, issued + 1, r)
               resolved == Resolved(audit, pending.id, "rejected")
               shown == Requested(resolved, fresh.id, fresh.base)
    <2>1. pending \in Approvals /\ pending.id \in Ids
      BY <1>1, <1>4, CallerFacts, ApprovalType
    <2>2. fresh.id \in Ids /\ fresh.base \in Revisions
      <3>1. fresh.id = issued + 1 /\ fresh.base = r
        BY <2>1 DEF Rebased, Approvals
      <3>2. issued + 1 \in Ids
        BY <1>1, <1>4, CallerFacts, AgentRunAssumption DEF Ids
      <3> QED
        BY <3>1, <3>2
    <2>3. resolved \in Audits /\ resolved.status = audit.status
      BY <1>1, <2>1, CallerFacts, AuditType, StatusStays DEF Resolutions
    <2> HIDE DEF fresh, resolved
    <2>4. shown.status = audit.status
      BY <2>2, <2>3, StatusStays
    <2>5. audit' \in {audit, resolved, shown}
      <3>1. \/ audit' = shown \/ UNCHANGED audit \/ audit' = resolved
        BY <1>4, RebaseCases DEF fresh, resolved, shown
      <3> QED
        BY <3>1
    <2>6. audit'.status = audit.status
      BY <2>3, <2>4, <2>5
    <2> QED
      BY <1>1, <1>2, <1>4, <2>6, CallerMoves
  <1> QED
    BY <1>3, <1>4 DEF Rebase

\* The run that waits is taken by the one that ends it.
LEMMA CancelRunMoves ==
  ASSUME IInv, Steady, NEW c \in Callers, actor[c].pc \notin Driving,
         \/ CancelRun(c, Idle)
         \/ CancelRun(c, [actor[c] EXCEPT !.pc = "joining"])
  PROVE  Steady' /\ Moves
  <1>1. c \in Actors /\ pending' = NoApproval /\ UNCHANGED <<audit, commits>>
    BY DEF Actors, CancelRun
  <1>2. PICK state : /\ actor' = [actor EXCEPT ![c] = state]
                     /\ state.pc \in Driving => pending # NoApproval /\ state.pc \in Deciding
    <2>1. /\ Idle.pc \notin Driving
          /\ [actor[c] EXCEPT !.pc = "joining"].pc \notin Driving
          /\ Held(c, "cancelling").pc \in Deciding
      BY <1>1, EmptyHands DEF IInv, TypeOK, ActorStates, Held, Deciding, Driving
    <2> QED
      BY <2>1 DEF CancelRun
  <1> QED
    BY <1>1, <1>2, CallerMoves

LEMMA CancelMoves == \A c \in Callers : IInv /\ Steady /\ Cancel(c) => Steady' /\ Moves
  <1> SUFFICES ASSUME NEW c \in Callers, IInv, Steady, Cancel(c) PROVE Steady' /\ Moves
    OBVIOUS
  <1>1. CASE Asked(c, "cancel") /\ CancelRun(c, Idle)
    <2>1. actor[c].pc \notin Driving
      BY <1>1 DEF Asked, Driving
    <2> QED
      BY <1>1, <2>1, CancelRunMoves
  <1>2. CASE actor[c].pc = "cancelling" /\ End(c, "Cancelled") /\ UNCHANGED commits
    <2>1. /\ c \in Actors /\ actor[c].pc \in Driving /\ "Cancelled" \in Statuses
          /\ <<StatusAt[actor[c].pc], "Cancelled">> \in Legal
      BY <1>2, LegalFacts DEF Actors, Driving, StatusAt, Statuses, Terminal
    <2> QED
      BY <1>2, <2>1, EndMoves
  <1> QED
    BY <1>1, <1>2 DEF Cancel

LEMMA SessionMoves ==
  \A c \in Callers, op \in {"approve", "reject", "rebase", "cancel"}, id \in Ids \cup {NoId} :
    IInv /\ Steady /\ (CloseSession(c) \/ Call(c, op, id)) => Steady' /\ Moves
  <1> SUFFICES ASSUME NEW c \in Callers, NEW op \in {"approve", "reject", "rebase", "cancel"},
                      NEW id \in Ids \cup {NoId}, IInv, Steady, CloseSession(c) \/ Call(c, op, id)
               PROVE  Steady' /\ Moves
    OBVIOUS
  <1>1. c \in Actors /\ actor[c].pc \notin Driving
    BY DEF Actors, CloseSession, Call, Driving
  <1>2. CASE CancelRun(c, [actor[c] EXCEPT !.pc = "joining"])
    BY <1>1, <1>2, CancelRunMoves
  <1> DEFINE closing == [Idle EXCEPT !.pc = "closing", !.op = "close"]
             asked == [Idle EXCEPT !.pc = "asked", !.op = op, !.named = id]
  <1>3. CASE /\ \/ actor' = [actor EXCEPT ![c] = closing]
                \/ actor' = [actor EXCEPT ![c] = Idle]
                \/ actor' = [actor EXCEPT ![c] = asked]
             /\ UNCHANGED <<pending, audit, commits>>
    <2>1. closing.pc \notin Driving /\ asked.pc \notin Driving /\ Idle.pc \notin Driving
      BY DEF Idle, Driving
    <2> HIDE DEF closing, asked
    <2> QED
      BY <1>1, <1>3, <2>1, CallerMoves
  <1> QED
    BY <1>2, <1>3 DEF CloseSession, Call

\* What recover_interrupted ends was running.
LEMMA RestartMoves == IInv /\ Restart => Steady' /\ Moves
  <1> SUFFICES ASSUME IInv, Restart PROVE Steady' /\ Moves
    OBVIOUS
  <1>1. /\ \A b \in Actors : actor'[b] = Idle
        /\ pending' = NoApproval /\ commits' = commits
    BY DEF Restart
  <1>2. Steady'
    BY <1>1, EmptyHands DEF Steady, Driving
  <1>3. audit'.status = Interrupted(audit.status)
    BY DEF Restart, With, IInv, TypeOK, Audits
  <1>4. audit'.status # audit.status => <<audit.status, audit'.status>> \in Legal
    BY <1>3, LegalFacts DEF Interrupted
  <1> QED
    BY <1>1, <1>2, <1>4 DEF Moves

LEMMA InitSteady == Init => Steady
  <1> SUFFICES ASSUME Init PROVE Steady
    OBVIOUS
  <1>1. \A a \in Actors : actor[a].pc \in {"new", "idle"}
    BY DEF Init, Idle
  <1>2. audit.status = "none" /\ pending = NoApproval
    BY DEF Init
  <1> QED
    BY <1>1, <1>2, StatusFacts DEF Steady, Driving

LEMMA NextMoves == IInv /\ Steady /\ [Next]_vars => Steady' /\ Moves
  <1> SUFFICES ASSUME IInv, Steady, [Next]_vars PROVE Steady' /\ Moves
    OBVIOUS
  <1>1. ASSUME WorkerStep PROVE Steady' /\ Moves
    <2>1. Worker \in Actors
      BY DEF Actors
    <2> QED
      BY <1>1, <2>1, WorkerMoves, DriveMoves DEF WorkerStep
  <1>2. ASSUME NEW c \in Callers, CallerStep(c) PROVE Steady' /\ Moves
    <2>1. c \in Actors
      BY DEF Actors
    <2>2. CASE GiveBack(c)
      BY <2>1, <2>2, HandingMoves DEF GiveBack, Deciding
    <2> QED
      BY <1>2, <2>1, <2>2, ApproveMoves, RejectMoves, RebaseMoves, CancelMoves, DriveMoves
      DEF CallerStep
  <1>3. ASSUME NEW c \in Callers,
               \/ \E op \in {"approve", "reject", "rebase"}, i \in Ids : Call(c, op, i)
               \/ Call(c, "cancel", NoId)
        PROVE  Steady' /\ Moves
    <2>1. PICK op \in {"approve", "reject", "rebase", "cancel"}, i \in Ids \cup {NoId} : Call(c, op, i)
      BY <1>3
    <2> QED
      BY <2>1, SessionMoves
  <1>4. ASSUME NEW c \in Callers, CloseSession(c) PROVE Steady' /\ Moves
    BY <1>4, SessionMoves DEF NoId
  <1>5. ASSUME Register \/ Edit \/ UNCHANGED vars PROVE Steady' /\ Moves
    BY <1>5 DEF Register, Edit, vars, Steady, Moves
  <1> QED
    BY <1>1, <1>2, <1>3, <1>4, <1>5, RestartMoves DEF Next

\* The status moves as the status machine allows, so the repository refuses
\* nothing the engine does, and a run that has ended commits nothing, whatever
\* races with its end (model.rs, can_transition_to; run.rs).
THEOREM RunsEnd == Spec => RunsEndForGood
  <1>1. IInv /\ Steady /\ [Next]_vars =>
          /\ Steady'
          /\ [audit'.status # audit.status => <<audit.status, audit'.status>> \in Legal]_vars
          /\ [audit.status \in Terminal => commits' = commits]_vars
    BY NextMoves DEF Moves
  <1> QED
    BY <1>1, InitSteady, InvariantOfTheRun, PTL
    DEF Spec, RunsEndForGood, StatusesAreLegal, EndedRunsAreSilent
=============================================================================
