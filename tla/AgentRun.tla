------------------------------- MODULE AgentRun -------------------------------
(***************************************************************************)
(* One run of the agent (run.rs) in a native session (agent_api.rs).  The  *)
(* worker thread alternates rounds of the model provider with tool calls;  *)
(* a call that needs approval parks the run, and the caller that approves  *)
(* or rejects it drives the run further on its own thread.  Everything the *)
(* run does is written to the audit repository (agent_repository.rs),      *)
(* which may fail, and the application may die.                            *)
(*                                                                         *)
(* Data abstraction: a tool call is one of five kinds, told apart by       *)
(* validation and policy; messages, event payloads and digests are left    *)
(* out.  The rows of a run are written by its owner only, so the writes    *)
(* between two looks at shared state are one step, which a failure or a    *)
(* crash may cut after any of them.                                        *)
(***************************************************************************)
EXTENDS Integers, Sequences, FiniteSets

CONSTANTS
  Worker,        \* the thread start_agent_run spawns
  Callers,       \* threads that call the native session
  MaxRounds,     \* max_provider_rounds of the budgets
  MaxCalls,      \* max_tool_calls of the budgets
  MaxBatch,      \* bound on the tool calls of one provider message
  MaxApprovals,  \* bound on approval ids
  MaxRevision,   \* bound on revisions
  MaxFaults,     \* bound on repository failures
  FaultyIn       \* operations during which the repository may fail

Actors == {Worker} \cup Callers
Revisions == 0 .. MaxRevision
Ids == 1 .. MaxApprovals
NoId == 0

\* read: ReadOnly and Preview; local: a LocalMutation of one target; risky:
\* wider, bulk and history mutations; save: ExplicitSave; bad: refused.
Kinds == {"read", "local", "risky", "save", "bad"}
Automatic == {"read", "local"}

\* A call of another kind ends or parks the run: what follows it is dropped.
Batches ==
  {batch \in UNION {[1 .. n -> Kinds] : n \in 1 .. MaxBatch} :
     \A i \in DOMAIN batch : i < Len(batch) => batch[i] \in Automatic}

Terminal == {"Completed", "Cancelled", "Failed"}
Running == {"Queued", "AssemblingContext", "CallingProvider", "ExecutingTool"}
Statuses == Terminal \cup Running \cup {"AwaitingApproval", "BudgetPaused"}

ASSUME AgentRunAssumption ==
  /\ Worker \notin Callers
  /\ MaxRounds \in Nat \ {0} /\ MaxCalls \in Nat \ {0}
  /\ MaxBatch \in Nat /\ MaxApprovals \in Nat /\ MaxRevision \in Nat /\ MaxFaults \in Nat

VARIABLES
  document,  \* the revision of the document, which people edit too
  token,     \* the cancellation token; unknown until start registers it
  pending,   \* the approval the engine holds, if any
  issued,    \* approval ids used so far
  actor,     \* where each thread is, and the run if it drives it
  session,   \* the native session, and whether it knows the run
  audit,     \* the rows of the run in the repository
  commits,   \* history: commands the run committed
  faults     \* failures of the repository so far

vars == <<document, token, pending, issued, actor, session, audit, commits, faults>>

\* RunState, with the tool calls of the message still to do, the call in
\* hand and the approval it was given, and the id the caller has named.
RunStates == [revision : Revisions, rounds : 0 .. MaxRounds, calls : 0 .. MaxCalls]
NoRun == [revision |-> 0, rounds |-> 0, calls |-> 0]

\* A call runs at the revision of the run; base is the one people are shown.
Approvals == [id : Ids, base : Revisions, run : RunStates]
NoApproval == [id |-> NoId, base |-> 0, run |-> NoRun]

Driving == {"new", "queued", "assembling", "loop", "provider", "tools", "executing",
            "recording", "parking", "granted", "declined", "mismatch", "cancelling"}
Pcs == Driving \cup {"idle", "asked", "closing", "joining"}
Ops == {"run", "approve", "reject", "rebase", "cancel", "close"}

ActorStates ==
  [pc : Pcs, op : Ops, named : Ids \cup {NoId}, run : RunStates,
   batch : {<<>>} \cup Batches, kind : Kinds, approval : Approvals \cup {NoApproval}]

Idle ==
  [pc |-> "idle", op |-> "run", named |-> NoId, run |-> NoRun, batch |-> <<>>,
   kind |-> "read", approval |-> NoApproval]

Commits == [approval : Ids \cup {NoId}, from : Revisions, to : Revisions]
Resolutions == {"unknown", "pending", "approved", "rejected"}

Audits ==
  [status : Statuses \cup {"none"}, approval : [Ids -> Resolutions],
   shown : [Ids -> Revisions], links : SUBSET Commits, exchanged : BOOLEAN]

Init ==
  /\ document = 0
  /\ token = "unknown"
  /\ pending = NoApproval
  /\ issued = 0
  /\ actor = [a \in Actors |-> IF a = Worker THEN [Idle EXCEPT !.pc = "new"] ELSE Idle]
  /\ session = [phase |-> "open", registered |-> FALSE]
  /\ audit = [status |-> "none", approval |-> [i \in Ids |-> "unknown"],
              shown |-> [i \in Ids |-> 0], links |-> {}, exchanged |-> FALSE]
  /\ commits = {}
  /\ faults = 0

-----------------------------------------------------------------------------
(* The repository                                                          *)

With(rows, status) == [rows EXCEPT !.status = status]

\* Mutant: the rows of the link are never written.
LinkedNot(rows, commit) == rows
Linked(rows, commit) == [rows EXCEPT !.links = @ \cup {commit}]

Resolved(rows, id, how) == [rows EXCEPT !.approval[id] = how]

Requested(rows, id, base) ==
  [rows EXCEPT !.approval[id] = "pending", !.shown[id] = base]

\* Where a thread goes that drives the run no more: close has workers to join.
After(a) ==
  IF actor[a].op = "close" THEN [Idle EXCEPT !.pc = "joining", !.op = "close"] ELSE Idle

\* Actor a writes; done holds after the last write.  A failure leaves the
\* rows after one of the writes, and the run of a has no owner any more.
Write(a, writes, done) ==
  \/ /\ audit' = writes[Len(writes)]
     /\ faults' = faults
     /\ done
  \/ /\ faults < MaxFaults /\ actor[a].op \in FaultyIn
     /\ audit' \in {audit} \cup {writes[i] : i \in DOMAIN writes}
     /\ faults' = faults + 1
     /\ actor' = [actor EXCEPT ![a] = After(a)]
     /\ UNCHANGED pending

Become(a, state) == actor' = [actor EXCEPT ![a] = state] /\ UNCHANGED pending
Goto(a, pc) == Become(a, [actor[a] EXCEPT !.pc = pc])

\* finish_completed, finish_cancelled, pause_for_budget and fail.
End(a, status) == Write(a, <<With(audit, status)>>, Become(a, After(a)))

-----------------------------------------------------------------------------
(* The run loop                                                            *)

\* start: the history is loaded, the run created, its token registered.
Create ==
  /\ actor[Worker].pc = "new"
  /\ Write(Worker, <<With(audit, "Queued")>>, Goto(Worker, "queued"))
  /\ token' = IF actor'[Worker].pc = "queued" THEN "clear" ELSE token
  /\ UNCHANGED <<document, issued, session, commits>>

Assemble ==
  /\ actor[Worker].pc = "queued"
  /\ Write(Worker, <<With(audit, "AssemblingContext")>>, Goto(Worker, "assembling"))
  /\ UNCHANGED <<document, token, issued, session, commits>>

\* The revision of the snapshot the request was made from is the run's.
CallProvider ==
  /\ actor[Worker].pc = "assembling"
  /\ Write(Worker, <<With(audit, "CallingProvider")>>, Goto(Worker, "loop"))
  /\ UNCHANGED <<document, token, issued, session, commits>>

\* The elapsed time may be over whatever the rounds.
NextRound(a) ==
  LET run == actor[a].run IN
  /\ actor[a].pc = "loop"
  /\ \/ token = "cancelled" /\ End(a, "Cancelled")
     \/ token # "cancelled" /\ End(a, "BudgetPaused")
     \/ /\ token # "cancelled" /\ run.rounds < MaxRounds
        /\ Become(a, [actor[a] EXCEPT !.pc = "provider", !.run.rounds = @ + 1])
        /\ UNCHANGED <<audit, faults>>
  /\ UNCHANGED <<document, token, issued, session, commits>>

\* complete: it looks at the token when it is done.  Without tool calls the
\* conversation is extended and the run completes.
ProviderAnswers(a) ==
  /\ actor[a].pc = "provider"
  /\ \/ token = "cancelled" /\ End(a, "Cancelled")
     \/ End(a, "Failed")
     \/ token # "cancelled" /\ End(a, "BudgetPaused")
     \/ /\ token # "cancelled"
        /\ LET said == [audit EXCEPT !.exchanged = TRUE]
           IN Write(a, <<said, With(said, "Completed")>>, Become(a, Idle))
     \/ /\ token # "cancelled"
        /\ \E batch \in Batches :
             Become(a, [actor[a] EXCEPT !.pc = "tools", !.batch = batch])
        /\ UNCHANGED <<audit, faults>>
  /\ UNCHANGED <<document, token, issued, session, commits>>

NoMoreTools(a) ==
  /\ actor[a].pc = "tools"
  /\ actor[a].batch = <<>>
  /\ Goto(a, "loop")
  /\ UNCHANGED <<document, token, issued, session, audit, commits, faults>>

ToolBudgetIsSpent(a) ==
  /\ actor[a].pc = "tools"
  /\ actor[a].batch # <<>>
  /\ actor[a].run.calls >= MaxCalls
  /\ End(a, "BudgetPaused")
  /\ UNCHANGED <<document, token, issued, session, commits>>

Proposed(a, id) ==
  [id |-> id, base |-> actor[a].run.revision, run |-> [actor[a].run EXCEPT !.calls = @ + 1]]

\* The next call of the message is announced, validated and judged.
StartTool(a) ==
  LET kind == Head(actor[a].batch)
      taken == [actor[a] EXCEPT !.batch = Tail(@), !.kind = kind, !.run.calls = @ + 1]
  IN /\ actor[a].pc = "tools"
     /\ actor[a].batch # <<>>
     /\ actor[a].run.calls < MaxCalls
     /\ \/ /\ kind \in Automatic
           /\ Write(a, <<With(audit, "ExecutingTool")>>,
                    Become(a, [taken EXCEPT !.pc = "executing"]))
           /\ UNCHANGED issued
        \/ /\ kind = "risky"
           /\ issued < MaxApprovals
           /\ issued' = issued + 1
           /\ LET awaiting == With(audit, "AwaitingApproval")
                  approval == Proposed(a, issued')
              IN Write(a, <<awaiting, Requested(awaiting, approval.id, approval.base)>>,
                       Become(a, [taken EXCEPT !.pc = "parking", !.approval = approval]))
        \/ kind = "save" /\ End(a, "Completed") /\ UNCHANGED issued
        \/ kind = "bad" /\ End(a, "Failed") /\ UNCHANGED issued
     /\ UNCHANGED <<document, token, session, commits>>

\* The approval is given to the engine, and the calls behind it are dropped.
Park(a) ==
  /\ actor[a].pc = "parking"
  /\ pending' = actor[a].approval
  /\ actor' = [actor EXCEPT ![a] = Idle]
  /\ UNCHANGED <<document, token, issued, session, audit, commits, faults>>

\* Mutant: a refused call is tried again.
RefusedOnce(a) == Goto(a, "executing") /\ UNCHANGED <<audit, faults>>

\* The gateway refuses, for a stale revision at least: an automatic call
\* fails the run, an approved one gives the approval back.
Refused(a) ==
  IF actor[a].approval = NoApproval
  THEN End(a, "Failed")
  ELSE Write(a, <<With(audit, "AwaitingApproval")>>,
             /\ pending' = actor[a].approval
             /\ actor' = [actor EXCEPT ![a] = Idle])

Commit(a) ==
  [approval |-> actor[a].approval.id, from |-> actor[a].run.revision,
   to |-> actor[a].run.revision + 1]

\* Mutant: the command runs at whatever revision the document has.
ExecuteUnbound(a) ==
  /\ actor[a].pc = "executing"
  /\ \/ /\ actor[a].kind # "read" /\ document < MaxRevision
        /\ document' = document + 1
        /\ commits' = commits \cup {[Commit(a) EXCEPT !.from = document, !.to = document']}
        /\ Goto(a, "recording")
        /\ UNCHANGED <<audit, faults>>
     \/ /\ Refused(a)
        /\ UNCHANGED <<document, commits>>
  /\ UNCHANGED <<token, issued, session>>

\* execute: the gateway answers at the revision of the run or refuses.
Execute(a) ==
  /\ actor[a].pc = "executing"
  /\ \/ /\ actor[a].run.revision = document
        /\ \/ actor[a].kind = "read" /\ UNCHANGED <<document, commits>>
           \/ /\ actor[a].kind # "read" /\ document < MaxRevision
              /\ document' = document + 1
              /\ commits' = commits \cup {Commit(a)}
        /\ Goto(a, "recording")
        /\ UNCHANGED <<audit, faults>>
     \/ /\ Refused(a)
        /\ UNCHANGED <<document, commits>>
  /\ UNCHANGED <<token, issued, session>>

\* record_observation, or the same for an automatic call: the approval is
\* resolved, the command linked, and the provider is called again.
Record(a) ==
  LET id == actor[a].approval.id
      read == actor[a].kind = "read"
      resolved == IF id = NoId THEN audit ELSE Resolved(audit, id, "approved")
      linked == IF read THEN resolved ELSE Linked(resolved, Commit(a))
      next == [actor[a] EXCEPT !.pc = "tools", !.kind = "read", !.approval = NoApproval,
                               !.run.revision = IF read THEN @ ELSE @ + 1]
  IN /\ actor[a].pc = "recording"
     /\ Write(a, <<resolved, linked, With(linked, "CallingProvider")>>, Become(a, next))
     /\ UNCHANGED <<document, token, issued, session, commits>>

Drive(a) ==
  \/ NextRound(a) \/ ProviderAnswers(a) \/ NoMoreTools(a) \/ ToolBudgetIsSpent(a)
  \/ StartTool(a) \/ Park(a) \/ Execute(a) \/ Record(a)

-----------------------------------------------------------------------------
(* The callers of the native session                                       *)

\* start_agent_run adds its handle when the worker is already spawned.
Register ==
  /\ session.phase # "restarted"
  /\ ~session.registered
  /\ session' = [session EXCEPT !.registered = TRUE]
  /\ UNCHANGED <<document, token, pending, issued, actor, audit, commits, faults>>

\* ensure_open and the look-up of the handle.
Call(c, op, id) ==
  /\ actor[c].pc = "idle"
  /\ session = [phase |-> "open", registered |-> TRUE]
  /\ actor' = [actor EXCEPT ![c] = [Idle EXCEPT !.pc = "asked", !.op = op, !.named = id]]
  /\ UNCHANGED <<document, token, pending, issued, session, audit, commits, faults>>

\* Approve, reject and rebase wait for the worker first.
Asked(c, op) ==
  /\ actor[c].pc = "asked"
  /\ actor[c].op = op
  /\ op \in {"approve", "reject", "rebase"} => actor[Worker].pc = "idle"

Held(c, pc) ==
  [actor[c] EXCEPT !.pc = pc, !.named = NoId, !.approval = pending, !.run = pending.run, !.kind = "risky"]

\* Mutant: the approval is looked at and left where it is.
TakeByReference(c, op, pc) ==
  /\ Asked(c, op)
  /\ pending # NoApproval /\ pending.id = actor[c].named
  /\ actor' = [actor EXCEPT ![c] = Held(c, pc)]
  /\ UNCHANGED <<document, token, pending, issued, session, audit, commits, faults>>

\* The approval leaves the engine before its id is compared.
Take(c, op, pc) ==
  /\ Asked(c, op)
  /\ pending' = NoApproval
  /\ actor' = [actor EXCEPT ![c] =
       IF pending = NoApproval THEN Idle
       ELSE Held(c, IF pending.id = actor[c].named THEN pc ELSE "mismatch")]
  /\ UNCHANGED <<document, token, issued, session, audit, commits, faults>>

GiveBack(c) ==
  /\ actor[c].pc = "mismatch"
  /\ pending' = actor[c].approval
  /\ actor' = [actor EXCEPT ![c] = Idle]
  /\ UNCHANGED <<document, token, issued, session, audit, commits, faults>>

Approve(c) ==
  \/ Take(c, "approve", "granted")
  \/ /\ actor[c].pc = "granted"
     /\ Write(c, <<With(audit, "ExecutingTool")>>, Goto(c, "executing"))
     /\ UNCHANGED <<document, token, issued, session, commits>>

Reject(c) ==
  \/ Take(c, "reject", "declined")
  \/ /\ actor[c].pc = "declined"
     /\ LET resolved == Resolved(audit, actor[c].approval.id, "rejected")
        IN Write(c, <<resolved, With(resolved, "CallingProvider")>>,
                 Become(c, [actor[c] EXCEPT !.pc = "loop", !.kind = "read", !.approval = NoApproval]))
     /\ UNCHANGED <<document, token, issued, session, commits>>

\* The proposal shown again, at the revision of the document.
Rebased(approval, id, r) == [approval EXCEPT !.id = id, !.base = r, !.run.revision = r]

\* rebase holds the lock all through; a failure leaves it half done.
Rebase(c, r) ==
  /\ Asked(c, "rebase")
  /\ actor' = [actor EXCEPT ![c] = Idle]
  /\ \/ /\ pending.id # actor[c].named
        /\ UNCHANGED <<pending, issued, audit, faults>>
     \/ /\ pending.id = actor[c].named /\ pending # NoApproval
        /\ issued < MaxApprovals
        /\ LET fresh == Rebased(pending, issued + 1, r)
               resolved == Resolved(audit, pending.id, "rejected")
           IN \/ /\ pending' = fresh
                 /\ issued' = issued + 1
                 /\ audit' = Requested(resolved, fresh.id, fresh.base)
                 /\ UNCHANGED faults
              \/ /\ faults < MaxFaults /\ "rebase" \in FaultyIn
                 /\ faults' = faults + 1
                 /\ \/ /\ pending' = [pending EXCEPT !.run.revision = r]
                       /\ UNCHANGED <<issued, audit>>
                    \/ /\ pending' = fresh
                       /\ issued' = issued + 1
                       /\ audit' = resolved
  /\ UNCHANGED <<document, token, session, commits>>

\* Mutant: the approval of the run that is ended stays with the engine.
CancelRunInPlace(c, next) ==
  /\ token' = IF token = "unknown" THEN token ELSE "cancelled"
  /\ actor' = [actor EXCEPT ![c] = IF pending = NoApproval THEN next ELSE Held(c, "cancelling")]
  /\ UNCHANGED <<document, pending, issued, session, audit, commits, faults>>

\* cancel: the run that waits is ended here, the one that runs is told to.
CancelRun(c, next) ==
  /\ token' = IF token = "unknown" THEN token ELSE "cancelled"
  /\ pending' = NoApproval
  /\ actor' = [actor EXCEPT ![c] = IF pending = NoApproval THEN next ELSE Held(c, "cancelling")]
  /\ UNCHANGED <<document, issued, session, audit, commits, faults>>

Cancel(c) ==
  \/ Asked(c, "cancel") /\ CancelRun(c, Idle)
  \/ /\ actor[c].pc = "cancelling"
     /\ End(c, "Cancelled")
     /\ UNCHANGED <<document, token, issued, session, commits>>

\* NativeAgentRuntime::close: refuse what is new, cancel the runs that are
\* registered, join their workers.
CloseSession(c) ==
  \/ /\ actor[c].pc = "idle"
     /\ session.phase = "open"
     /\ session' = [session EXCEPT !.phase = "closed"]
     /\ actor' = [actor EXCEPT ![c] = [Idle EXCEPT !.pc = "closing", !.op = "close"]]
     /\ UNCHANGED <<document, token, pending, issued, audit, commits, faults>>
  \/ /\ actor[c].pc = "closing"
     /\ session.registered
     /\ CancelRun(c, [actor[c] EXCEPT !.pc = "joining"])
  \/ /\ actor[c].pc = "closing"
     /\ ~session.registered
     /\ session' = [session EXCEPT !.phase = "released"]
     /\ actor' = [actor EXCEPT ![c] = Idle]
     /\ UNCHANGED <<document, token, pending, issued, audit, commits, faults>>
  \/ /\ actor[c].pc = "joining"
     /\ actor[Worker].pc = "idle"
     /\ session' = [session EXCEPT !.phase = "released"]
     /\ actor' = [actor EXCEPT ![c] = Idle]
     /\ UNCHANGED <<document, token, pending, issued, audit, commits, faults>>

-----------------------------------------------------------------------------
(* The application                                                         *)

\* Somebody edits the document.
Edit ==
  /\ document < MaxRevision
  /\ document' = document + 1
  /\ UNCHANGED <<token, pending, issued, actor, session, audit, commits, faults>>

\* recover_interrupted
Interrupted(status) == IF status \in Running THEN "Failed" ELSE status

\* The process stops; the repository is opened again.
Restart ==
  /\ session.phase # "restarted"
  /\ session' = [phase |-> "restarted", registered |-> FALSE]
  /\ token' = "unknown"
  /\ pending' = NoApproval
  /\ actor' = [a \in Actors |-> Idle]
  /\ audit' = With(audit, Interrupted(audit.status))
  /\ UNCHANGED <<document, issued, commits, faults>>

WorkerStep == Create \/ Assemble \/ CallProvider \/ Drive(Worker)

CallerStep(c) ==
  \/ GiveBack(c) \/ Approve(c) \/ Reject(c) \/ (\E r \in Revisions : Rebase(c, r))
  \/ Cancel(c) \/ Drive(c)

Next ==
  \/ WorkerStep
  \/ Register
  \/ \E c \in Callers :
       \/ \E op \in {"approve", "reject", "rebase"}, i \in Ids : Call(c, op, i)
       \/ Call(c, "cancel", NoId)
       \/ CallerStep(c)
       \/ CloseSession(c)
  \/ Edit
  \/ Restart

\* Threads run, the provider and the gateway answer; closing is up to people.
Fairness ==
  /\ WF_vars(WorkerStep) /\ WF_vars(Register)
  /\ \A c \in Callers : WF_vars(CallerStep(c)) /\ WF_vars(actor[c].pc # "idle" /\ CloseSession(c))

Spec == Init /\ [][Next]_vars /\ Fairness

-----------------------------------------------------------------------------
(* Properties                                                              *)

\* Every variable has its type.
TypeOK ==
  /\ document \in Revisions
  /\ token \in {"unknown", "clear", "cancelled"}
  /\ pending \in Approvals \cup {NoApproval}
  /\ issued \in 0 .. MaxApprovals
  /\ actor \in [Actors -> ActorStates]
  /\ session \in [phase : {"open", "closed", "released", "restarted"}, registered : BOOLEAN]
  /\ audit \in Audits
  /\ commits \subseteq Commits
  /\ faults \in 0 .. MaxFaults

Drivers == {a \in Actors : actor[a].pc \in Driving}

\* A run has one owner at a time, a thread that drives it or the approval it
\* waits for, whatever callers race for that approval: its events come from
\* one counter and its approval is executed once.
SingleOwner ==
  /\ \A a, b \in Drivers : a = b
  /\ pending # NoApproval => Drivers = {}

\* A run that is not at rest has an owner, unless the repository failed; after
\* a restart no run is left at work.
RunsAreOwned ==
  /\ session.phase = "restarted" => audit.status \notin Running
  /\ session.phase # "restarted" /\ faults = 0
       /\ audit.status \in Running \cup {"AwaitingApproval"}
     => Drivers # {} \/ pending # NoApproval

\* Every run that is not at rest has exactly one owner, whoever approves,
\* rejects, cancels or closes meanwhile (run.rs, agent_api.rs).
RunsHaveOneOwner == TypeOK /\ SingleOwner /\ RunsAreOwned

\* The approval the engine would execute is one the repository holds as
\* pending, at the revision people were shown, and not yet given.
PendingIsShown ==
  pending # NoApproval =>
    /\ audit.approval[pending.id] = "pending"
    /\ audit.shown[pending.id] = pending.base
    /\ pending.run.revision = pending.base

\* A command with an approval was committed on the revision its proposal was
\* shown at, once, and the approval was not rejected; an approval that counts
\* as approved has its command.
CommitsAreBound ==
  /\ \A c \in commits : c.approval # NoId =>
       /\ audit.shown[c.approval] = c.from
       /\ audit.approval[c.approval] \in {"pending", "approved"}
       /\ \A d \in commits : d.approval = c.approval => d = c
  /\ \A i \in Ids : audit.approval[i] = "approved" => \E c \in commits : c.approval = i

\* What people are shown, what they approve and what is committed are one
\* call at one revision, rebased or not (run.rs, approve and rebase).
CommitsAreShown == PendingIsShown /\ CommitsAreBound

\* The repository links every command of the run, except the last one while
\* it is being recorded, or for good when a failure or a stop came between.
CommitsAreLinked ==
  /\ audit.links \subseteq commits
  /\ \A c \in commits \ audit.links :
       /\ \A d \in commits : d.to <= c.to
       /\ \/ \E a \in Actors : actor[a].pc = "recording" /\ Commit(a) = c
          \/ faults > 0 \/ session.phase = "restarted"

\* can_transition_to
Legal ==
  ({"none"} \X {"Queued"})
  \cup ({"Queued"} \X {"AssemblingContext", "Cancelled", "Failed"})
  \cup ({"AssemblingContext"} \X {"CallingProvider", "Cancelled", "Failed"})
  \cup ({"CallingProvider", "ExecutingTool"} \X
         ((Statuses \ {"Queued", "AssemblingContext"})))
  \cup ({"AwaitingApproval"} \X {"ExecutingTool", "CallingProvider", "Cancelled", "Failed"})
  \cup ({"BudgetPaused"} \X {"CallingProvider", "Cancelled", "Failed"})

\* The status the repository holds moves as the status machine allows, so
\* that transition refuses nothing the engine does.
StatusesAreLegal ==
  [][audit'.status # audit.status => <<audit.status, audit'.status>> \in Legal]_vars

\* Nothing is committed for a run that has ended.
EndedRunsAreSilent == [][audit.status \in Terminal => commits' = commits]_vars

\* The status moves as the status machine allows and a run that has ended
\* commits nothing, whatever races with its end (cancel, close).
RunsEndForGood == StatusesAreLegal /\ EndedRunsAreSilent

\* Every call returns and every drive of the run ends, as long as there are
\* approval ids: the budgets bound what the model asks for.
EveryCallReturns ==
  \A a \in Actors :
    actor[a].pc # "idle" ~> actor[a].pc = "idle" \/ issued = MaxApprovals

\* "Cancellation stops future provider/tool work": once the token is set no
\* tool call is started.
CancelStopsTools == [][token = "cancelled" => ~(\E a \in Actors : StartTool(a))]_vars
=============================================================================
