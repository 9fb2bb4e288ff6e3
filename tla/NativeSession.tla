----------------------------- MODULE NativeSession -----------------------------
(***************************************************************************)
(* The native editor session (editing_api.rs): one object that joins the   *)
(* session actor, the page service, the table of font fallback proposals   *)
(* and the agent runtime.  Its operations hold no lock over the calls they *)
(* make, so what one part said may be old when the next one hears of it.   *)
(*                                                                         *)
(* The page service is the module PageService; here its callers are the    *)
(* page_scene calls and its revisions are those the commands report.  The  *)
(* actor is its revision, the pages of its model and whether it is open    *)
(* (EditorSession and SessionActor say more); a run of the agent is a      *)
(* thread that commits (AgentRun says more).  A proposal is its token and  *)
(* its revision: token k is the k-th that was issued, always for the same  *)
(* object.                                                                 *)
(***************************************************************************)
EXTENDS PageService

CONSTANTS
  MaxTokens,  \* bound on fallback proposals
  MaxSilent,  \* bound on commits by checkpoint and by the agent
  MaxRuns     \* bound on agent runs

ASSUME NativeAssumption == MaxTokens \in Nat /\ MaxSilent \in Nat /\ MaxRuns \in Nat

Tokens == 1 .. MaxTokens
Runs == 1 .. MaxRuns

VARIABLES
  actor,      \* revision, pages of the model, open
  call,       \* the native call each thread is in; its page or token
  proposals,  \* fallback_proposals: the revision each token was made at
  issued,     \* history: the revisions tokens were issued at
  applied,    \* history: revisions at which each token was committed
  agent,      \* the agent runtime: the runs begun, those whose worker runs, the
              \* map of runs, the closed flag, the handles close has read, and
              \* (history) what the map held when close was called
  joined,     \* whether the handle of the index thread was taken
  silent      \* commits the page service is not told of

nativeVars == <<service, thread, asked, indexing, actor, call, proposals, issued, applied,
                agent, joined, silent>>
pages == <<service, thread, asked, indexing>>
fallback == <<proposals, issued, applied>>

Calls ==
  [op : {"none", "telling", "paging", "proposing", "approving", "removing",
         "starting", "registering", "collecting", "joining agent", "joining index", "awaiting index", "closing"},
   revision : Revisions, subject : Nat]

Agents ==
  [begun : 0 .. MaxRuns, active : SUBSET Runs, registered : SUBSET Runs,
   closed : BOOLEAN, found : SUBSET Runs, owed : SUBSET Runs]

NativeTypeOK ==
  /\ TypeOK
  /\ actor \in [revision : Revisions, loaded : SUBSET Pages, open : BOOLEAN]
  /\ call \in [Callers -> Calls]
  /\ proposals \subseteq [token : Tokens, base : Revisions]
  /\ issued \in Seq(Revisions) /\ Len(issued) <= MaxTokens
  /\ applied \in [Tokens -> SUBSET Revisions]
  /\ agent \in Agents
  /\ joined \in BOOLEAN
  /\ silent \in 0 .. MaxSilent

NativeInit ==
  /\ Init
  /\ actor = [revision |-> 0, loaded |-> {}, open |-> TRUE]
  /\ call = [c \in Callers |-> [op |-> "none", revision |-> 0, subject |-> 0]]
  /\ proposals = {} /\ issued = << >> /\ applied = [k \in Tokens |-> {}]
  /\ agent = [begun |-> 0, active |-> {}, registered |-> {}, closed |-> FALSE,
              found |-> {}, owed |-> {}]
  /\ joined = (Workers = {})
  /\ silent = 0

In(c, op) == call[c].op = op
Free(c) == In(c, "none")
Enter(c, op, revision, subject) ==
  call' = [call EXCEPT ![c] = [op |-> op, revision |-> revision, subject |-> subject]]
Finish(c) == call' = [call EXCEPT ![c] = [op |-> "none", revision |-> 0, subject |-> 0]]

\* The actor takes a command made for the revision base.
Accepts(base) == actor.open /\ base = actor.revision /\ base < MaxRevision
Advance == actor' = [actor EXCEPT !.revision = @ + 1]
--------------------------------------------------------------------------------
(* Commands: the actor commits, then the page service is told.             *)

\* Mutant of Submit: what the actor said of the command is not looked at.
SubmitUnheard(c, base) ==
  /\ Free(c) /\ actor.open /\ base < MaxRevision
  /\ IF Accepts(base) THEN Advance ELSE UNCHANGED actor
  /\ Enter(c, "telling", base + 1, 0)
  /\ UNCHANGED <<pages, fallback, agent, joined, silent>>

Submit(c, base) ==
  /\ Free(c) /\ Accepts(base)
  /\ Advance
  /\ Enter(c, "telling", base + 1, 0)
  /\ UNCHANGED <<pages, fallback, agent, joined, silent>>

\* submit and publish clear the proposals, annotation commands do not.
TellPages(c) ==
  /\ In(c, "telling")
  /\ SetRevision(call[c].revision)
  /\ proposals' \in {{}, proposals}
  /\ Finish(c)
  /\ UNCHANGED <<actor, issued, applied, agent, joined, silent>>

\* checkpoint commits and tells nobody.
Checkpoint ==
  /\ silent < MaxSilent /\ Accepts(actor.revision)
  /\ Advance
  /\ silent' = silent + 1
  /\ UNCHANGED <<pages, call, fallback, agent, joined>>

--------------------------------------------------------------------------------
(* page_scene                                                              *)

\* A page the model does not have is asked for; the other outcomes, a page of
\* the model and a stale expectation, are answers that change nothing.
PageScene(c, p, priority, expected) ==
  /\ Free(c) /\ actor.open
  /\ expected = actor.revision /\ p \notin actor.loaded
  /\ Request(c, p, priority, expected)
  /\ Enter(c, "paging", expected, p)
  /\ UNCHANGED <<actor, fallback, agent, joined, silent>>

\* The caller has the answer of the page service.
Consumed(c) ==
  /\ thread' = [thread EXCEPT ![c].answer = "none"]
  /\ UNCHANGED <<service, asked, indexing>>

\* What the service imported goes into the model, if that is still the one
\* the page was imported for.
Hydrate(c) ==
  /\ In(c, "paging") /\ thread[c].pc = "idle"
  /\ IF /\ thread[c].answer \in {"current", "outdated"}
        /\ actor.open /\ call[c].revision = actor.revision
       THEN actor' = [actor EXCEPT !.loaded = @ \cup {call[c].subject}]
       ELSE UNCHANGED actor
  /\ Finish(c)
  /\ Consumed(c)
  /\ UNCHANGED <<fallback, agent, joined, silent>>
--------------------------------------------------------------------------------
(* Font fallback                                                           *)

\* The text is read in a snapshot; the proposal is filed when a font is found.
ProposeFontFallback(c, expected) ==
  /\ Free(c) /\ actor.open /\ expected = actor.revision /\ Len(issued) < MaxTokens
  /\ issued' = Append(issued, expected)
  /\ Enter(c, "proposing", expected, Len(issued) + 1)
  /\ UNCHANGED <<pages, actor, proposals, applied, agent, joined, silent>>

FileProposal(c) ==
  /\ In(c, "proposing")
  /\ proposals' = {[token |-> call[c].subject, base |-> call[c].revision]}
  /\ Finish(c)
  /\ UNCHANGED <<pages, actor, issued, applied, agent, joined, silent>>

\* A proposal is looked up and its font asset made durable.
ApproveFontFallback(c, base) ==
  /\ Free(c)
  /\ \E proposal \in proposals :
       proposal.base = base /\ Enter(c, "approving", base, proposal.token)
  /\ UNCHANGED <<pages, actor, fallback, agent, joined, silent>>

\* Mutant of ApplyFallback: the command is made for the revision of the day.
ApplyFallbackAnyway(c) ==
  /\ In(c, "approving")
  /\ IF Accepts(actor.revision)
       THEN /\ Advance
            /\ applied' = [applied EXCEPT ![call[c].subject] = @ \cup {actor.revision}]
            /\ Enter(c, "removing", actor.revision + 1, call[c].subject)
       ELSE UNCHANGED <<actor, applied>> /\ Finish(c)
  /\ UNCHANGED <<pages, proposals, issued, agent, joined, silent>>

ApplyFallback(c) ==
  /\ In(c, "approving")
  /\ IF Accepts(call[c].revision)
       THEN /\ Advance
            /\ applied' = [applied EXCEPT ![call[c].subject] = @ \cup {actor.revision}]
            /\ Enter(c, "removing", actor.revision + 1, call[c].subject)
       ELSE UNCHANGED <<actor, applied>> /\ Finish(c)
  /\ UNCHANGED <<pages, proposals, issued, agent, joined, silent>>

RemoveProposal(c) ==
  /\ In(c, "removing")
  /\ proposals' = {k \in proposals : k.token # call[c].subject}
  /\ SetRevision(call[c].revision)
  /\ Finish(c)
  /\ UNCHANGED <<actor, issued, applied, agent, joined, silent>>
--------------------------------------------------------------------------------
(* Runs of the agent                                                       *)

\* start_agent_run looks at the closed flag and takes a snapshot.
StartAgentRun(c) ==
  /\ Free(c) /\ ~agent.closed /\ actor.open /\ agent.begun < MaxRuns
  /\ agent' = [agent EXCEPT !.begun = @ + 1]
  /\ Enter(c, "starting", 0, agent.begun + 1)
  /\ UNCHANGED <<pages, actor, fallback, joined, silent>>

\* The worker thread runs; its handle is with the call that spawned it.
SpawnWorker(c) ==
  /\ In(c, "starting")
  /\ agent' = [agent EXCEPT !.active = @ \cup {call[c].subject}]
  /\ Enter(c, "registering", 0, call[c].subject)
  /\ UNCHANGED <<pages, actor, fallback, joined, silent>>

\* Nobody looks at the closed flag again.
RegisterRun(c) ==
  /\ In(c, "registering")
  /\ agent' = [agent EXCEPT !.registered = @ \cup {call[c].subject}]
  /\ Finish(c)
  /\ UNCHANGED <<pages, actor, fallback, joined, silent>>

\* The worker returns: the run has ended, or waits for an approval.
EndWorker(k) ==
  /\ k \in agent.active
  /\ agent' = [agent EXCEPT !.active = @ \ {k}]
  /\ UNCHANGED <<pages, actor, call, fallback, joined, silent>>

\* A worker, or a call that approves what one proposed, has the actor and not
\* the session: nobody tells the page service.
AgentCommits ==
  /\ agent.active \cup agent.registered # {}
  /\ silent < MaxSilent /\ Accepts(actor.revision)
  /\ Advance
  /\ silent' = silent + 1
  /\ UNCHANGED <<pages, call, fallback, agent, joined>>
--------------------------------------------------------------------------------
(* close                                                                   *)

\* NativeAgentRuntime::close: the flag is raised by the first caller only.
CloseAgent(c) ==
  /\ Free(c)
  /\ IF agent.closed
       THEN Enter(c, "joining index", 0, 0) /\ UNCHANGED agent
       ELSE /\ Enter(c, "collecting", 0, 0)
            /\ agent' = [agent EXCEPT !.closed = TRUE, !.owed = agent.registered]
  /\ UNCHANGED <<pages, actor, fallback, joined, silent>>

\* The map of runs is read once, and the runs in it are cancelled.
CollectRuns(c) ==
  /\ In(c, "collecting")
  /\ agent' = [agent EXCEPT !.found = agent.registered]
  /\ Enter(c, "joining agent", 0, 0)
  /\ UNCHANGED <<pages, actor, fallback, joined, silent>>

\* Mutant of JoinAgent: the runs are cancelled and not waited for.
JoinAgentLater(c) ==
  /\ In(c, "joining agent")
  /\ Enter(c, "joining index", 0, 0)
  /\ UNCHANGED <<pages, actor, fallback, agent, joined, silent>>

\* join_worker of each handle; a worker may take long, and commit, before.
JoinAgent(c) ==
  /\ In(c, "joining agent") /\ agent.found \cap agent.active = {}
  /\ Enter(c, "joining index", 0, 0)
  /\ UNCHANGED <<pages, actor, fallback, agent, joined, silent>>

\* PageIndexTask::cancel_and_wait: the first caller takes the handle.
StopIndexer(c) ==
  /\ In(c, "joining index")
  /\ IF joined
       THEN Enter(c, "closing", 0, 0) /\ UNCHANGED <<pages, joined>>
       ELSE /\ Enter(c, "awaiting index", 0, 0)
            /\ CancelIndexing
            /\ joined' = TRUE
  /\ UNCHANGED <<actor, fallback, agent, silent>>

\* The error of the thread ends this close and not the session.
JoinIndexer(c) ==
  /\ In(c, "awaiting index")
  /\ \A w \in Workers : thread[w].pc = "done"
  /\ IF indexing.failed THEN Finish(c) ELSE Enter(c, "closing", 0, 0)
  /\ UNCHANGED <<pages, actor, fallback, agent, joined, silent>>

CloseActor(c) ==
  /\ In(c, "closing")
  /\ actor' = [actor EXCEPT !.open = FALSE]
  /\ Finish(c)
  /\ UNCHANGED <<pages, fallback, agent, joined, silent>>
--------------------------------------------------------------------------------
\* The rest of a call, once it began.
Proceed(c) ==
  \/ TellPages(c) \/ Hydrate(c) \/ FileProposal(c) \/ ApplyFallback(c) \/ RemoveProposal(c)
  \/ SpawnWorker(c) \/ RegisterRun(c) \/ CollectRuns(c)
  \/ JoinAgent(c) \/ StopIndexer(c) \/ JoinIndexer(c) \/ CloseActor(c)

PageStep(t) ==
  /\ Step(t)
  /\ UNCHANGED <<actor, call, fallback, agent, joined, silent>>

NativeNext ==
  \/ \E c \in Callers, base \in Revisions : Submit(c, base) \/ ApproveFontFallback(c, base)
  \/ \E c \in Callers, p \in Pages, priority \in Asked, expected \in Revisions :
       PageScene(c, p, priority, expected)
  \/ \E c \in Callers, expected \in Revisions : ProposeFontFallback(c, expected)
  \/ \E c \in Callers : StartAgentRun(c) \/ CloseAgent(c) \/ Proceed(c)
  \/ \E k \in Runs : EndWorker(k)
  \/ \E t \in Threads : PageStep(t)
  \/ Checkpoint \/ AgentCommits

\* Calls and the threads they wait for run on; the budgets of a run end it.
NativeFairness ==
  /\ \A c \in Callers : WF_nativeVars(Proceed(c))
  /\ \A k \in Runs : WF_nativeVars(EndWorker(k))
  /\ \A t \in Threads : WF_nativeVars(Step(t) /\ UNCHANGED <<actor, call, fallback, agent, joined, silent>>)

NativeSpec == NativeInit /\ [][NativeNext]_nativeVars /\ NativeFairness
--------------------------------------------------------------------------------
(* The page service is never told of a revision the actor has not made, so *)
(* no scene carries one, whatever order the calls report in.               *)
ServiceIsNeverAhead == service.revision <= actor.revision

(* The parts the native session joins fit together: their variables have   *)
(* their types and the page service is not ahead of the actor.             *)
PartsAgree == NativeTypeOK /\ ServiceIsNeverAhead

(* A fallback font is written into the text it was proposed for and into   *)
(* no later one, and once: proposals outlive annotation commands,          *)
(* checkpoints and commits of the agent, and two callers may approve one.  *)
ProposalsFitTheirText ==
  \A k \in Tokens : applied[k] \subseteq {issued[i] : i \in {k} \cap DOMAIN issued}

Closers == {"collecting", "joining agent", "joining index", "awaiting index", "closing"}

(* Only a close closes the actor.  When one was called and none is under   *)
(* way, with whatever error it ended, the index threads have ended and so  *)
(* has the worker of every run that start_agent_run had answered before:   *)
(* two closes may overlap, and the second waits for no run.                *)
ClosedMeansJoined ==
  /\ ~actor.open => agent.closed
  /\ agent.closed /\ (\A c \in Callers : call[c].op \notin Closers) =>
       /\ agent.owed \cap agent.active = {}
       /\ \A w \in Workers : thread[w].pc = "done"

(* "Closing the editor session cancels active runs ... and joins workers   *)
(* before releasing the repository": when every call has returned and the  *)
(* actor is closed, no worker runs.  The code does not keep this: a run    *)
(* whose start looked at the flag before close raised it is registered     *)
(* after close has read the map.                                           *)
CloseJoinsWorkers ==
  ~actor.open /\ (\A c \in Callers : Free(c)) => agent.active = {}

(* Every native call returns: page_scene waits for the page service, close *)
(* for the agent and the index thread, and those for imports.              *)
EveryNativeCallReturns == \A c \in Callers : ~Free(c) ~> Free(c)
================================================================================
