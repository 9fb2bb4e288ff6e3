----------------------------- MODULE SessionActor -----------------------------
(***************************************************************************)
(* The thread that owns an editing session and the callers around it       *)
(* (actor.rs): a bounded queue of requests, a reply for each, a closed     *)
(* flag that callers read before they send, and bounded event queues to    *)
(* the subscribers, which the actor never waits for.                       *)
(*                                                                         *)
(* The session is its revision: a submission commits when it carries the   *)
(* current one and the repository can append it (DurableSession models     *)
(* both).  Publish and InvokeTool commit and broadcast in the same way;    *)
(* Search, ValidateSelection, SelectionContext, Prepare and the            *)
(* hydrations answer like Snapshot, without an event.                      *)
(***************************************************************************)
EXTENDS Integers, Sequences, FiniteSets

CONSTANTS
  Clients,          \* threads that call the actor
  Subscribers,      \* event streams
  RequestCapacity,  \* REQUEST_CAPACITY, 64
  EventCapacity,    \* DEFAULT_SUBSCRIBER_CAPACITY, 32
  MaxCalls          \* bound on the calls of a client

ASSUME ActorAssumption ==
  /\ RequestCapacity \in Nat \ {0}
  /\ EventCapacity \in Nat \ {0}
  /\ MaxCalls \in Nat

VARIABLES
  closedFlag,  \* ActorInner::closed
  queue,       \* requests sent and not yet received by the actor
  worker,      \* "running", "leaving" after Close, "stopped"
  revision,    \* of the session
  caller,      \* where every client is in its call
  calls,       \* calls each client has begun
  stream       \* the two ends of every event channel

vars == <<closedFlag, queue, worker, revision, caller, calls, stream>>

Kinds == {"Submit", "Snapshot", "Subscribe", "Close"}
Answers == {"none", "committed", "refused", "read", "subscribed",
            "closed", "session_closed", "actor_unavailable"}

\* A caller knows a revision, from its last answer; a call carries it.
Callers ==
  [pc : {"idle", "sending", "waiting", "joining"},
   kind : Kinds, known : Nat, answer : Answers]

Requests == [client : Clients, kind : Kinds, base : Nat]

Events == [kind : {"Ready", "CommandCommitted", "Lagged", "Closed"}, revision : Nat]

\* sent is what the subscriber has been sent so far, taken how much of it
\* the subscriber has read: the channel holds the difference.
Streams ==
  [state : {"none", "open", "dropped", "ended"}, lagged : BOOLEAN,
   sent : Seq(Events), taken : Nat]

-----------------------------------------------------------------------------
(* Callers                                                                 *)

Init ==
  /\ closedFlag = FALSE
  /\ queue = <<>>
  /\ worker = "running"
  /\ revision = 0
  /\ caller = [c \in Clients |->
                 [pc |-> "idle", kind |-> "Snapshot", known |-> 0, answer |-> "none"]]
  /\ calls = [c \in Clients |-> 0]
  /\ stream = [s \in Subscribers |->
                 [state |-> "none", lagged |-> FALSE, sent |-> <<>>, taken |-> 0]]

CanCall(c) == caller[c].pc = "idle" /\ calls[c] < MaxCalls

\* Bound: every subscription in flight finds a stream that was never used.
CanSubscribe ==
  Cardinality({c \in Clients : caller[c].pc # "idle" /\ caller[c].kind = "Subscribe"})
    < Cardinality({s \in Subscribers : stream[s].state = "none"})

\* ensure_open reads the flag; the send comes later.
Call(c, kind) ==
  /\ CanCall(c)
  /\ kind # "Close"
  /\ kind = "Subscribe" => CanSubscribe
  /\ calls' = [calls EXCEPT ![c] = @ + 1]
  /\ caller' = [caller EXCEPT
       ![c].kind = kind,
       ![c].pc = IF closedFlag THEN "idle" ELSE "sending",
       ![c].answer = IF closedFlag THEN "session_closed" ELSE "none"]
  /\ UNCHANGED <<closedFlag, queue, worker, revision, stream>>

\* close() swaps the flag: only the first of them sends a request.
CallClose(c) ==
  /\ CanCall(c)
  /\ closedFlag' = TRUE
  /\ calls' = [calls EXCEPT ![c] = @ + 1]
  /\ caller' = [caller EXCEPT
       ![c].kind = "Close",
       ![c].pc = IF closedFlag THEN "idle" ELSE "sending",
       ![c].answer = IF closedFlag THEN "closed" ELSE "none"]
  /\ UNCHANGED <<queue, worker, revision, stream>>

\* send blocks while the queue is full and fails once the receiver is gone.
Send(c) ==
  /\ caller[c].pc = "sending"
  /\ \/ /\ worker = "stopped"
        /\ caller' = [caller EXCEPT ![c].pc = "idle", ![c].answer = "actor_unavailable"]
        /\ UNCHANGED queue
     \/ /\ worker # "stopped"
        /\ Len(queue) < RequestCapacity
        /\ queue' = Append(queue,
             [client |-> c, kind |-> caller[c].kind, base |-> caller[c].known])
        /\ caller' = [caller EXCEPT ![c].pc = "waiting"]
  /\ UNCHANGED <<closedFlag, worker, revision, calls, stream>>

\* The closer joins the worker after its answer.
Join(c) ==
  /\ caller[c].pc = "joining"
  /\ worker = "stopped"
  /\ caller' = [caller EXCEPT ![c].pc = "idle"]
  /\ UNCHANGED <<closedFlag, queue, worker, revision, calls, stream>>

-----------------------------------------------------------------------------
(* Events                                                                  *)

Event(kind, r) == [kind |-> kind, revision |-> r]

Full(ch) == Len(ch.sent) - ch.taken >= EventCapacity

Put(ch, event) == [ch EXCEPT !.sent = Append(@, event)]

\* Mutant: the gap left in a full channel is not remembered.
ToldForgetful(ch, event) == IF Full(ch) THEN ch ELSE Put(ch, event)

\* A lagged subscriber gets the marker first; what does not fit is not sent.
Told(ch, event) ==
  IF ch.lagged /\ Full(ch) THEN ch
  ELSE LET marked == IF ch.lagged
                     THEN [Put(ch, Event("Lagged", event.revision)) EXCEPT !.lagged = FALSE]
                     ELSE ch
       IN IF Full(marked) THEN [marked EXCEPT !.lagged = TRUE] ELSE Put(marked, event)

\* broadcast; a channel whose receiver is gone is forgotten.
Broadcast(event) ==
  [s \in Subscribers |->
     CASE stream[s].state = "open"    -> Told(stream[s], event)
       [] stream[s].state = "dropped" -> [stream[s] EXCEPT !.state = "ended"]
       [] OTHER                       -> stream[s]]

\* The subscriber reads what was sent, also after the actor has stopped.
Take(s) ==
  /\ stream[s].taken < Len(stream[s].sent)
  /\ stream[s].state # "dropped"
  /\ stream' = [stream EXCEPT ![s].taken = @ + 1]
  /\ UNCHANGED <<closedFlag, queue, worker, revision, caller, calls>>

Drop(s) ==
  /\ stream[s].state = "open"
  /\ stream' = [stream EXCEPT ![s].state = "dropped"]
  /\ UNCHANGED <<closedFlag, queue, worker, revision, caller, calls>>

-----------------------------------------------------------------------------
(* The actor                                                               *)

Answer(c, answer, known) ==
  caller' = [caller EXCEPT ![c].pc = "idle", ![c].answer = answer, ![c].known = known]

Receive(kind) ==
  /\ worker = "running"
  /\ queue # <<>>
  /\ Head(queue).kind = kind
  /\ queue' = Tail(queue)

\* prepare, append, publish, broadcast, reply.
Commit ==
  /\ Receive("Submit")
  /\ Head(queue).base = revision
  /\ revision' = revision + 1
  /\ stream' = Broadcast(Event("CommandCommitted", revision + 1))
  /\ Answer(Head(queue).client, "committed", revision + 1)
  /\ UNCHANGED <<closedFlag, worker, calls>>

\* Another revision, or a failed append.
Refuse ==
  /\ Receive("Submit")
  /\ Answer(Head(queue).client, "refused", caller[Head(queue).client].known)
  /\ UNCHANGED <<closedFlag, worker, revision, calls, stream>>

Snapshot ==
  /\ Receive("Snapshot")
  /\ Answer(Head(queue).client, "read", revision)
  /\ UNCHANGED <<closedFlag, worker, revision, calls, stream>>

Subscribe ==
  /\ Receive("Subscribe")
  /\ \E s \in Subscribers :
       /\ stream[s].state = "none"
       /\ stream' = [stream EXCEPT ![s] = Put([@ EXCEPT !.state = "open"],
                                              Event("Ready", revision))]
  /\ Answer(Head(queue).client, "subscribed", revision)
  /\ UNCHANGED <<closedFlag, worker, revision, calls>>

\* The repository closes (the subscribers are told) or fails to.
Close ==
  /\ Receive("Close")
  /\ \/ /\ stream' = Broadcast(Event("Closed", revision))
        /\ caller' = [caller EXCEPT ![Head(queue).client].pc = "joining",
                                    ![Head(queue).client].answer = "closed"]
     \/ /\ stream' = stream
        /\ caller' = [caller EXCEPT ![Head(queue).client].pc = "joining",
                                    ![Head(queue).client].answer = "refused"]
  /\ worker' = "leaving"
  /\ UNCHANGED <<closedFlag, revision, calls>>

\* Mutant: the receiver outlives the loop.
LeaveQueue ==
  /\ worker = "leaving"
  /\ worker' = "stopped"
  /\ UNCHANGED <<closedFlag, queue, revision, caller, calls, stream>>

\* The thread ends: the queue is dropped with the reply channels in it, and
\* so are the event channels.
Leave ==
  /\ worker = "leaving"
  /\ worker' = "stopped"
  /\ queue' = <<>>
  /\ caller' = [c \in Clients |->
       IF caller[c].pc = "waiting"
       THEN [caller[c] EXCEPT !.pc = "idle", !.answer = "actor_unavailable"]
       ELSE caller[c]]
  /\ stream' = [s \in Subscribers |->
       IF stream[s].state = "open" THEN [stream[s] EXCEPT !.state = "ended"] ELSE stream[s]]
  /\ UNCHANGED <<closedFlag, revision, calls>>

Serve == Commit \/ Refuse \/ Snapshot \/ Subscribe \/ Close

Next ==
  \/ \E c \in Clients :
       (\E kind \in Kinds : Call(c, kind)) \/ CallClose(c) \/ Send(c) \/ Join(c)
  \/ Serve
  \/ Leave
  \/ \E s \in Subscribers : Take(s) \/ Drop(s)

\* The threads run: the actor, every caller inside a call, and the readers of
\* the streams.  Nobody has to call, to close or to drop a stream.
Fairness ==
  /\ WF_vars(Serve)
  /\ WF_vars(Leave)
  /\ \A c \in Clients : WF_vars(Send(c)) /\ WF_vars(Join(c))
  /\ \A s \in Subscribers : WF_vars(Take(s))

Spec == Init /\ [][Next]_vars /\ Fairness

-----------------------------------------------------------------------------
(* Properties                                                              *)

\* Every variable has its type; no queue outgrows its capacity.
TypeOK ==
  /\ closedFlag \in BOOLEAN
  /\ queue \in Seq(Requests) /\ Len(queue) <= RequestCapacity
  /\ worker \in {"running", "leaving", "stopped"}
  /\ revision \in Nat
  /\ caller \in [Clients -> Callers]
  /\ calls \in [Clients -> 0 .. MaxCalls]
  /\ stream \in [Subscribers -> Streams]
  /\ \A s \in Subscribers :
       stream[s].taken <= Len(stream[s].sent) /\ Len(stream[s].sent) <= stream[s].taken + EventCapacity

\* A subscriber reads commits in revision order, and none is missing without
\* a Lagged marker in its place (try_send drops what does not fit); nothing
\* follows Closed.
NoSilentGap ==
  \A s \in Subscribers : \A i \in 2 .. Len(stream[s].sent) :
    LET event == stream[s].sent[i]
        last  == stream[s].sent[i - 1]
    IN /\ last.kind # "Closed"
       /\ CASE event.kind = "CommandCommitted" ->
                 \/ last.revision = event.revision - 1
                 \/ last = Event("Lagged", event.revision)
            [] event.kind = "Closed" -> last.revision = event.revision
            [] OTHER -> event.kind = "Lagged" /\ last.revision <= event.revision

\* The actor knows which subscribers it has left behind.
BehindIsMarked ==
  \A s \in Subscribers :
    stream[s].state = "open" =>
      \/ stream[s].lagged
      \/ stream[s].sent[Len(stream[s].sent)].revision = revision

\* No gap is silent and none is forgotten: what a subscriber has not been
\* sent is marked, in its stream or for its next event (broadcast).
NoGapIsForgotten == TypeOK /\ NoSilentGap /\ BehindIsMarked

\* Whatever a subscriber does, every caller gets an answer: full queues, a
\* close that overtakes a request and the end of the thread included.
EveryCallReturns == \A c \in Clients : caller[c].pc # "idle" ~> caller[c].pc = "idle"

\* A reader learns every revision, or is marked as behind.
EveryCommitIsTold ==
  \A s \in Subscribers :
    stream[s].state = "open" ~>
      \/ stream[s].state # "open" \/ stream[s].lagged
      \/ /\ stream[s].taken > 0
         /\ stream[s].sent[stream[s].taken].revision = revision
=============================================================================
