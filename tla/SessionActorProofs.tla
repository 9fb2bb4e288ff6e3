-------------------------- MODULE SessionActorProofs --------------------------
(***************************************************************************)
(* Theorems about SessionActor for every number of clients and subscribers *)
(* and every capacity of the queues.                                       *)
(***************************************************************************)
EXTENDS SessionActor, SequenceTheorems, TLAPS

-----------------------------------------------------------------------------
(* The inductive invariant                                                 *)

Last(sent) == sent[Len(sent)]

\* What NoSilentGap says of two events in a row.
Follows(event, last) ==
  /\ last.kind # "Closed"
  /\ CASE event.kind = "CommandCommitted" ->
            \/ last.revision = event.revision - 1
            \/ last = Event("Lagged", event.revision)
       [] event.kind = "Closed" -> last.revision = event.revision
       [] OTHER -> event.kind = "Lagged" /\ last.revision <= event.revision

Unbroken(sent) == \A i \in 2 .. Len(sent) : Follows(sent[i], sent[i - 1])

Fits(ch) == ch.taken <= Len(ch.sent) /\ Len(ch.sent) <= ch.taken + EventCapacity

\* An open stream ends at the revision of the session or is marked, and is
\* not closed as long as the actor serves.
UpToDate(ch, r, serving) ==
  /\ ch.sent # <<>>
  /\ Last(ch.sent).revision <= r
  /\ ch.lagged \/ Last(ch.sent).revision = r
  /\ serving => Last(ch.sent).kind # "Closed"

StreamOK(ch, r, serving) ==
  /\ Fits(ch)
  /\ Unbroken(ch.sent)
  /\ ch.state = "none" => ch.sent = <<>> /\ ch.taken = 0 /\ ~ch.lagged
  /\ ch.state = "open" => UpToDate(ch, r, serving)

StreamsOK == \A s \in Subscribers : StreamOK(stream[s], revision, worker = "running")

IInv == TypeOK /\ StreamsOK

-----------------------------------------------------------------------------
(* Events                                                                  *)

LEMMA EventType ==
  \A kind \in {"Ready", "CommandCommitted", "Lagged", "Closed"}, r \in Nat :
    /\ Event(kind, r) \in Events
    /\ Event(kind, r).kind = kind /\ Event(kind, r).revision = r
  BY DEF Event, Events

\* An event that follows the last one leaves no gap.
LEMMA UnbrokenAppend ==
  ASSUME NEW sent \in Seq(Events), NEW event \in Events, Unbroken(sent),
         sent = <<>> \/ Follows(event, Last(sent))
  PROVE  /\ Append(sent, event) \in Seq(Events)
         /\ Len(Append(sent, event)) = Len(sent) + 1
         /\ Append(sent, event) # <<>> /\ Last(Append(sent, event)) = event
         /\ Unbroken(Append(sent, event))
  <1> DEFINE more == Append(sent, event)
  <1>1. /\ more \in Seq(Events) /\ Len(more) = Len(sent) + 1 /\ Len(sent) \in Nat
        /\ \A i \in 1 .. Len(sent) : more[i] = sent[i]
        /\ more[Len(sent) + 1] = event /\ more # <<>>
    BY AppendProperties
  <1>2. Last(more) = event
    <2> HIDE DEF more
    <2> QED
      BY <1>1 DEF Last
  <1>3. ASSUME NEW i \in 2 .. Len(more) PROVE Follows(more[i], more[i - 1])
    <2>1. CASE i = Len(sent) + 1
      <3>1. Len(sent) \in 1 .. Len(sent) /\ sent # <<>> /\ i - 1 = Len(sent)
        BY <1>1, <1>3, <2>1
      <3>2. more[i] = event /\ more[i - 1] = Last(sent)
        BY <1>1, <2>1, <3>1 DEF Last
      <3> HIDE DEF more
      <3> QED
        BY <3>1, <3>2
    <2>2. CASE i # Len(sent) + 1
      <3>1. i \in 2 .. Len(sent) /\ i \in 1 .. Len(sent) /\ i - 1 \in 1 .. Len(sent)
        BY <1>1, <1>3, <2>2
      <3>2. more[i] = sent[i] /\ more[i - 1] = sent[i - 1]
        BY <1>1, <3>1
      <3> HIDE DEF more
      <3> QED
        BY <3>1, <3>2 DEF Unbroken
    <2> QED
      BY <2>1, <2>2
  <1> HIDE DEF more
  <1>4. Unbroken(more)
    BY <1>3 DEF Unbroken
  <1> QED
    BY <1>1, <1>2, <1>4 DEF more

\* Put on a channel with room for one more event.
LEMMA PutOK ==
  ASSUME NEW ch \in Streams, NEW event \in Events, Fits(ch), ~Full(ch), Unbroken(ch.sent),
         ch.sent = <<>> \/ Follows(event, Last(ch.sent))
  PROVE  /\ Put(ch, event) \in Streams
         /\ Put(ch, event).state = ch.state /\ Put(ch, event).lagged = ch.lagged
         /\ Put(ch, event).taken = ch.taken
         /\ Put(ch, event).sent # <<>> /\ Last(Put(ch, event).sent) = event
         /\ Fits(Put(ch, event)) /\ Unbroken(Put(ch, event).sent)
  <1>1. ch.sent \in Seq(Events) /\ ch.taken \in Nat
    BY DEF Streams
  <1> DEFINE more == Append(ch.sent, event)
  <1>2. /\ more \in Seq(Events) /\ Len(more) = Len(ch.sent) + 1 /\ more # <<>>
        /\ Last(more) = event /\ Unbroken(more)
    BY <1>1, UnbrokenAppend
  <1> HIDE DEF more
  <1>3. /\ Put(ch, event) \in Streams /\ Put(ch, event).sent = more
        /\ Put(ch, event).state = ch.state /\ Put(ch, event).taken = ch.taken
    BY <1>2 DEF Put, Streams, more
  <1>4. Put(ch, event).lagged = ch.lagged
    BY DEF Put, Streams
  <1>5. Len(ch.sent) \in Nat /\ Len(ch.sent) - ch.taken < EventCapacity
    BY <1>1, ActorAssumption DEF Full
  <1>6. Fits(Put(ch, event))
    BY <1>1, <1>2, <1>3, <1>5, ActorAssumption DEF Fits
  <1> QED
    BY <1>2, <1>3, <1>4, <1>6

\* A subscriber that is told of an event gets it, after the marker when it
\* was behind, or is marked.
LEMMA ToldOK ==
  ASSUME NEW ch \in Streams, NEW old \in Nat, NEW new \in Nat,
         StreamOK(ch, old, TRUE), ch.state = "open",
         NEW kind \in {"CommandCommitted", "Closed"},
         new = IF kind = "Closed" THEN old ELSE old + 1
  PROVE  /\ Told(ch, Event(kind, new)) \in Streams
         /\ StreamOK(Told(ch, Event(kind, new)), new, kind # "Closed")
  <1> DEFINE event == Event(kind, new)
             marker == Event("Lagged", new)
  <1>1. /\ event \in Events /\ event.kind = kind /\ event.revision = new
        /\ marker \in Events /\ marker.kind = "Lagged" /\ marker.revision = new
        /\ marker = Event("Lagged", event.revision)
    BY EventType
  <1>2. /\ Fits(ch) /\ Unbroken(ch.sent) /\ ch.sent # <<>>
        /\ Last(ch.sent).revision <= old /\ Last(ch.sent).kind # "Closed"
        /\ ch.lagged \/ Last(ch.sent).revision = old
    BY DEF StreamOK, UpToDate
  <1>3. ch.sent \in Seq(Events) /\ Last(ch.sent) \in Events /\ Last(ch.sent).revision \in Nat
    <2>1. ch.sent \in Seq(Events)
      BY DEF Streams
    <2>2. Len(ch.sent) \in 1 .. Len(ch.sent)
      BY <1>2, <2>1, EmptySeq, LenProperties
    <2>3. Last(ch.sent) \in Events
      BY <2>1, <2>2 DEF Last
    <2> QED
      BY <2>1, <2>3 DEF Events
  <1> HIDE DEF event, marker
  <1>4. CASE Full(ch)
    <2>1. CASE ch.lagged
      <3>1. Told(ch, event) = ch
        BY <1>4, <2>1 DEF Told
      <3> QED
        BY <1>2, <1>3, <2>1, <3>1 DEF StreamOK, UpToDate, event
    <2>2. CASE ~ch.lagged
      <3> DEFINE behind == [ch EXCEPT !.lagged = TRUE]
      <3>1. Told(ch, event) = behind
        BY <1>4, <2>2 DEF Told
      <3>2. /\ behind \in Streams /\ behind.lagged /\ behind.state = "open"
            /\ behind.sent = ch.sent /\ behind.taken = ch.taken
        BY DEF Streams
      <3> HIDE DEF behind
      <3>3. StreamOK(behind, new, kind # "Closed")
        BY <1>2, <1>3, <3>2 DEF StreamOK, UpToDate, Fits
      <3> QED
        BY <3>1, <3>2, <3>3 DEF event
    <2> QED
      BY <2>1, <2>2
  <1>5. CASE ~Full(ch) /\ ~ch.lagged
    <2> DEFINE told == Put(ch, event)
    <2>1. Told(ch, event) = told
      BY <1>5 DEF Told
    <2>2. Follows(event, Last(ch.sent))
      BY <1>1, <1>2, <1>3, <1>5 DEF Follows
    <2>3. /\ told \in Streams /\ told.state = "open" /\ told.sent # <<>>
          /\ Last(told.sent) = event /\ Fits(told) /\ Unbroken(told.sent)
      BY <1>1, <1>2, <1>5, <2>2, PutOK
    <2> HIDE DEF told
    <2>4. StreamOK(told, new, kind # "Closed")
      BY <1>1, <2>3 DEF StreamOK, UpToDate
    <2> QED
      BY <2>1, <2>3, <2>4 DEF event
  <1>6. CASE ~Full(ch) /\ ch.lagged
    <2> DEFINE put == Put(ch, marker)
               marked == [put EXCEPT !.lagged = FALSE]
    <2>1. Follows(marker, Last(ch.sent))
      BY <1>1, <1>2, <1>3 DEF Follows
    <2>2. /\ put \in Streams /\ put.state = "open" /\ put.sent # <<>>
          /\ Last(put.sent) = marker /\ Fits(put) /\ Unbroken(put.sent)
      BY <1>1, <1>2, <1>6, <2>1, PutOK
    <2>3. Told(ch, event) =
            IF Full(marked) THEN [marked EXCEPT !.lagged = TRUE] ELSE Put(marked, event)
      BY <1>1, <1>6 DEF Told
    <2> HIDE DEF put
    <2>4. /\ marked \in Streams /\ marked.state = "open" /\ marked.sent = put.sent
          /\ marked.taken = put.taken /\ ~marked.lagged
      BY <2>2 DEF Streams
    <2> HIDE DEF marked
    <2>5. Fits(marked) /\ Unbroken(marked.sent) /\ Last(marked.sent) = marker /\ marked.sent # <<>>
      BY <2>2, <2>4 DEF Fits
    <2>6. CASE Full(marked)
      <3> DEFINE behind == [marked EXCEPT !.lagged = TRUE]
      <3>1. Told(ch, event) = behind
        BY <2>3, <2>6
      <3>2. /\ behind \in Streams /\ behind.lagged /\ behind.state = "open"
            /\ behind.sent = marked.sent /\ behind.taken = marked.taken
        BY <2>4 DEF Streams
      <3> HIDE DEF behind
      <3>3. StreamOK(behind, new, kind # "Closed")
        BY <1>1, <2>5, <3>2 DEF StreamOK, UpToDate, Fits
      <3> QED
        BY <3>1, <3>2, <3>3 DEF event
    <2>7. CASE ~Full(marked)
      <3> DEFINE told == Put(marked, event)
      <3>1. Told(ch, event) = told
        BY <2>3, <2>7
      <3>2. Follows(event, Last(marked.sent))
        BY <1>1, <2>5 DEF Follows
      <3>3. /\ told \in Streams /\ told.state = "open" /\ told.sent # <<>>
            /\ Last(told.sent) = event /\ Fits(told) /\ Unbroken(told.sent)
        BY <1>1, <2>4, <2>5, <2>7, <3>2, PutOK
      <3> HIDE DEF told
      <3>4. StreamOK(told, new, kind # "Closed")
        BY <1>1, <3>3 DEF StreamOK, UpToDate
      <3> QED
        BY <3>1, <3>3, <3>4 DEF event
    <2> QED
      BY <2>6, <2>7
  <1> QED
    BY <1>4, <1>5, <1>6 DEF event

\* Every open channel is told, and the others lose nothing.
LEMMA BroadcastOK ==
  ASSUME IInv, worker = "running", NEW kind \in {"CommandCommitted", "Closed"},
         NEW new \in Nat, new = IF kind = "Closed" THEN revision ELSE revision + 1,
         stream' = Broadcast(Event(kind, new)), revision' = new,
         (worker' = "running") => kind # "Closed"
  PROVE  stream' \in [Subscribers -> Streams] /\ StreamsOK'
  <1>1. revision \in Nat /\ stream \in [Subscribers -> Streams]
    BY DEF IInv, TypeOK
  <1>2. ASSUME NEW s \in Subscribers
        PROVE  stream'[s] \in Streams /\ StreamOK(stream'[s], new, kind # "Closed")
    <2>1. stream[s] \in Streams /\ StreamOK(stream[s], revision, TRUE)
      BY <1>1 DEF IInv, StreamsOK
    <2>2. CASE stream[s].state = "open"
      <3>1. stream'[s] = Told(stream[s], Event(kind, new))
        BY <2>2 DEF Broadcast
      <3> QED
        BY <1>1, <2>1, <2>2, <3>1, ToldOK
    <2>3. CASE stream[s].state = "dropped"
      <3> DEFINE ended == [stream[s] EXCEPT !.state = "ended"]
      <3>1. stream'[s] = ended
        BY <2>3 DEF Broadcast
      <3>2. /\ ended \in Streams /\ ended.state = "ended"
            /\ ended.sent = stream[s].sent /\ ended.taken = stream[s].taken
        BY <2>1 DEF Streams
      <3> HIDE DEF ended
      <3> QED
        BY <2>1, <3>1, <3>2 DEF StreamOK, Fits
    <2>4. CASE stream[s].state \notin {"open", "dropped"}
      <3>1. stream'[s] = stream[s]
        BY <2>4 DEF Broadcast
      <3> QED
        BY <2>1, <2>4, <3>1 DEF StreamOK
    <2> QED
      BY <2>2, <2>3, <2>4
  <1>3. stream' \in [Subscribers -> Streams]
    BY <1>2 DEF Broadcast
  <1>4. ASSUME NEW s \in Subscribers
        PROVE  StreamOK(stream'[s], revision', worker' = "running")
    BY <1>2, <1>4 DEF StreamOK, UpToDate
  <1> QED
    BY <1>3, <1>4 DEF StreamsOK

-----------------------------------------------------------------------------
(* Steps that keep the invariant                                           *)

\* The channels are left alone, and so is what they are told about.
LEMMA QuietSteps ==
  ASSUME IInv, TypeOK', UNCHANGED <<stream, revision>>, worker' = "running" => worker = "running"
  PROVE  IInv'
  <1>1. StreamsOK'
    BY DEF IInv, StreamsOK, StreamOK, UpToDate
  <1> QED
    BY <1>1 DEF IInv

\* The subscribers keep their places in the channels as they are typed.
LEMMA FitsType ==
  ASSUME StreamsOK
  PROVE  \A s \in Subscribers :
           stream[s].taken <= Len(stream[s].sent) /\ Len(stream[s].sent) <= stream[s].taken + EventCapacity
  BY DEF StreamsOK, StreamOK, Fits

\* What the actor receives is a request, and the queue gets shorter.
LEMMA ReceiveType ==
  ASSUME IInv, NEW kind, Receive(kind)
  PROVE  /\ Head(queue) \in Requests /\ Head(queue).client \in Clients
         /\ queue' \in Seq(Requests) /\ Len(queue') <= RequestCapacity
         /\ worker = "running"
  <1>1. queue \in Seq(Requests) /\ queue # <<>> /\ Len(queue) <= RequestCapacity
    BY DEF IInv, TypeOK, Receive
  <1>2. /\ Head(queue) \in Requests /\ Tail(queue) \in Seq(Requests)
        /\ Len(Tail(queue)) = Len(queue) - 1 /\ Len(queue) \in Nat
    BY <1>1, HeadTailProperties, LenProperties
  <1>3. queue' = Tail(queue) /\ worker = "running"
    BY DEF Receive
  <1>4. Len(queue') <= RequestCapacity
    BY <1>1, <1>2, <1>3, ActorAssumption
  <1> QED
    BY <1>2, <1>3, <1>4 DEF Requests

LEMMA AnswerType ==
  ASSUME TypeOK, NEW c \in Clients, NEW answer \in Answers, NEW known \in Nat,
         Answer(c, answer, known)
  PROVE  caller' \in [Clients -> Callers]
  <1> DEFINE next == [[[caller[c] EXCEPT !.pc = "idle"] EXCEPT !.answer = answer] EXCEPT !.known = known]
  <1>1. caller \in [Clients -> Callers] /\ caller[c] \in Callers
    BY DEF TypeOK
  <1>2. next \in Callers
    BY <1>1 DEF Callers
  <1>3. caller' = [caller EXCEPT ![c] = next]
    BY <1>1 DEF Answer
  <1> HIDE DEF next
  <1> QED
    BY <1>1, <1>2, <1>3

\* One thread's place in its call.
LEMMA CallerType ==
  ASSUME TypeOK, NEW c \in Clients
  PROVE  /\ caller[c] \in Callers /\ caller[c].known \in Nat /\ caller[c].kind \in Kinds
         /\ \A pc \in {"idle", "sending", "waiting", "joining"}, kind \in Kinds, answer \in Answers :
              [[[caller[c] EXCEPT !.kind = kind] EXCEPT !.pc = pc] EXCEPT !.answer = answer] \in Callers
  BY DEF TypeOK, Callers

LEMMA InitIInv == Init => IInv
  <1> SUFFICES ASSUME Init PROVE IInv
    OBVIOUS
  <1>1. <<>> \in Seq(Requests) /\ Len(<<>>) = 0 /\ <<>> \in Seq(Events)
    OBVIOUS
  <1>2. stream \in [Subscribers -> Streams]
    BY <1>1 DEF Init, Streams
  <1>3. caller \in [Clients -> Callers]
    BY DEF Init, Callers, Kinds, Answers
  <1>4. StreamsOK
    BY <1>1, ActorAssumption DEF Init, StreamsOK, StreamOK, Fits, Unbroken
  <1>5. queue \in Seq(Requests) /\ Len(queue) <= RequestCapacity
    BY <1>1, ActorAssumption DEF Init
  <1>6. calls \in [Clients -> 0 .. MaxCalls]
    BY ActorAssumption DEF Init
  <1>7. closedFlag \in BOOLEAN /\ worker = "running" /\ revision \in Nat
    BY DEF Init
  <1>8. TypeOK
    BY <1>2, <1>3, <1>4, <1>5, <1>6, <1>7, FitsType DEF TypeOK
  <1> QED
    BY <1>4, <1>8 DEF IInv

-----------------------------------------------------------------------------
(* Callers                                                                 *)

LEMMA CallStep == \A c \in Clients, kind \in Kinds : IInv /\ Call(c, kind) => IInv'
  <1> SUFFICES ASSUME NEW c \in Clients, NEW kind \in Kinds, IInv, Call(c, kind) PROVE IInv'
    OBVIOUS
  <1>1. TypeOK
    BY DEF IInv
  <1>2. calls' \in [Clients -> 0 .. MaxCalls]
    BY <1>1, ActorAssumption DEF TypeOK, Call, CanCall
  <1> DEFINE pc == IF closedFlag THEN "idle" ELSE "sending"
             answer == IF closedFlag THEN "session_closed" ELSE "none"
             next == [[[caller[c] EXCEPT !.kind = kind] EXCEPT !.pc = pc] EXCEPT !.answer = answer]
  <1>3. pc \in {"idle", "sending", "waiting", "joining"} /\ answer \in Answers
    BY DEF Answers
  <1>4. caller' = [caller EXCEPT ![c] = next]
    BY <1>1 DEF Call, TypeOK
  <1> HIDE DEF pc, answer
  <1>5. next \in Callers
    BY <1>1, <1>3, CallerType
  <1> HIDE DEF next
  <1>6. caller' \in [Clients -> Callers]
    BY <1>1, <1>4, <1>5 DEF TypeOK
  <1>7. UNCHANGED <<closedFlag, queue, worker, revision, stream>>
    BY DEF Call
  <1>8. TypeOK'
    BY <1>1, <1>2, <1>6, <1>7 DEF TypeOK
  <1> QED
    BY <1>7, <1>8, QuietSteps

LEMMA CallCloseStep == \A c \in Clients : IInv /\ CallClose(c) => IInv'
  <1> SUFFICES ASSUME NEW c \in Clients, IInv, CallClose(c) PROVE IInv'
    OBVIOUS
  <1>1. TypeOK
    BY DEF IInv
  <1>2. calls' \in [Clients -> 0 .. MaxCalls]
    BY <1>1, ActorAssumption DEF TypeOK, CallClose, CanCall
  <1> DEFINE pc == IF closedFlag THEN "idle" ELSE "sending"
             answer == IF closedFlag THEN "closed" ELSE "none"
             next == [[[caller[c] EXCEPT !.kind = "Close"] EXCEPT !.pc = pc] EXCEPT !.answer = answer]
  <1>3. pc \in {"idle", "sending", "waiting", "joining"} /\ answer \in Answers /\ "Close" \in Kinds
    BY DEF Answers, Kinds
  <1>4. caller' = [caller EXCEPT ![c] = next]
    BY <1>1 DEF CallClose, TypeOK
  <1> HIDE DEF pc, answer
  <1>5. next \in Callers
    BY <1>1, <1>3, CallerType
  <1> HIDE DEF next
  <1>6. caller' \in [Clients -> Callers]
    BY <1>1, <1>4, <1>5 DEF TypeOK
  <1>7. UNCHANGED <<queue, worker, revision, stream>> /\ closedFlag' \in BOOLEAN
    BY DEF CallClose
  <1>8. TypeOK'
    BY <1>1, <1>2, <1>6, <1>7 DEF TypeOK
  <1> QED
    BY <1>7, <1>8, QuietSteps

LEMMA SendStep == \A c \in Clients : IInv /\ Send(c) => IInv'
  <1> SUFFICES ASSUME NEW c \in Clients, IInv, Send(c) PROVE IInv'
    OBVIOUS
  <1>1. TypeOK /\ caller[c] \in Callers /\ caller[c].known \in Nat /\ caller[c].kind \in Kinds
    BY CallerType DEF IInv
  <1>2. UNCHANGED <<closedFlag, worker, revision, calls, stream>>
    BY DEF Send
  <1>3. caller' \in [Clients -> Callers]
    <2>1. CASE caller' = [caller EXCEPT ![c].pc = "idle", ![c].answer = "actor_unavailable"]
      <3> DEFINE next == [[caller[c] EXCEPT !.pc = "idle"] EXCEPT !.answer = "actor_unavailable"]
      <3>1. next \in Callers
        BY <1>1 DEF Callers, Answers
      <3>2. caller' = [caller EXCEPT ![c] = next]
        BY <1>1, <2>1 DEF TypeOK
      <3> HIDE DEF next
      <3> QED
        BY <1>1, <3>1, <3>2 DEF TypeOK
    <2>2. CASE caller' = [caller EXCEPT ![c].pc = "waiting"]
      BY <1>1, <2>2 DEF TypeOK, Callers
    <2> QED
      BY <2>1, <2>2 DEF Send
  <1>4. queue' \in Seq(Requests) /\ Len(queue') <= RequestCapacity
    <2>1. queue \in Seq(Requests) /\ Len(queue) <= RequestCapacity /\ Len(queue) \in Nat
      BY <1>1 DEF TypeOK
    <2> DEFINE request == [client |-> c, kind |-> caller[c].kind, base |-> caller[c].known]
    <2>2. request \in Requests
      BY <1>1 DEF Requests
    <2>3. CASE UNCHANGED queue
      BY <2>1, <2>3
    <2>4. CASE Len(queue) < RequestCapacity /\ queue' = Append(queue, request)
      <3> HIDE DEF request
      <3> QED
        BY <2>1, <2>2, <2>4, AppendProperties, ActorAssumption
    <2> QED
      BY <2>3, <2>4 DEF Send
  <1>5. TypeOK'
    BY <1>1, <1>2, <1>3, <1>4 DEF TypeOK
  <1> QED
    BY <1>2, <1>5, QuietSteps

LEMMA JoinStep == \A c \in Clients : IInv /\ Join(c) => IInv'
  <1> SUFFICES ASSUME NEW c \in Clients, IInv, Join(c) PROVE IInv'
    OBVIOUS
  <1>1. TypeOK
    BY DEF IInv
  <1>2. caller' \in [Clients -> Callers]
    BY <1>1 DEF TypeOK, Join, Callers
  <1>3. UNCHANGED <<closedFlag, queue, worker, revision, calls, stream>>
    BY DEF Join
  <1>4. TypeOK'
    BY <1>1, <1>2, <1>3 DEF TypeOK
  <1> QED
    BY <1>3, <1>4, QuietSteps

-----------------------------------------------------------------------------
(* Subscribers                                                             *)

\* A subscriber that reads or drops its stream takes nothing from it.
LEMMA ReaderSteps ==
  ASSUME IInv, NEW s \in Subscribers, NEW ch \in Streams, stream' = [stream EXCEPT ![s] = ch],
         Fits(ch), ch.sent = stream[s].sent, ch.lagged <=> stream[s].lagged,
         ch.state = stream[s].state \/ ch.state \notin {"none", "open"},
         stream[s].state = "none" => ch.taken = 0,
         UNCHANGED <<closedFlag, queue, worker, revision, caller, calls>>
  PROVE  IInv'
  <1>1. TypeOK /\ StreamsOK
    BY DEF IInv
  <1>2. \A r \in Subscribers : stream'[r] = IF r = s THEN ch ELSE stream[r]
    BY <1>1 DEF TypeOK
  <1>3. StreamOK(ch, revision, worker = "running")
    BY <1>1 DEF StreamsOK, StreamOK, UpToDate
  <1>4. StreamsOK'
    BY <1>1, <1>2, <1>3 DEF StreamsOK
  <1>5. stream' \in [Subscribers -> Streams]
    BY <1>1 DEF TypeOK
  <1>6. \A r \in Subscribers : Fits(stream'[r])
    BY <1>4 DEF StreamsOK, StreamOK
  <1>7. TypeOK'
    BY <1>1, <1>5, <1>6 DEF TypeOK, Fits
  <1> QED
    BY <1>4, <1>7 DEF IInv

LEMMA TakeStep == \A s \in Subscribers : IInv /\ Take(s) => IInv'
  <1> SUFFICES ASSUME NEW s \in Subscribers, IInv, Take(s) PROVE IInv'
    OBVIOUS
  <1> DEFINE ch == [stream[s] EXCEPT !.taken = @ + 1]
  <1>1. stream[s] \in Streams /\ stream \in [Subscribers -> Streams] /\ StreamOK(stream[s], revision, worker = "running")
    BY DEF IInv, TypeOK, StreamsOK
  <1>2. stream' = [stream EXCEPT ![s] = ch]
    BY DEF Take
  <1>3. UNCHANGED <<closedFlag, queue, worker, revision, caller, calls>>
    BY DEF Take
  <1>4. /\ ch \in Streams /\ ch.sent = stream[s].sent /\ ch.state = stream[s].state
        /\ ch.taken = stream[s].taken + 1 /\ stream[s].taken \in Nat /\ Len(stream[s].sent) \in Nat
    <2>1. stream[s].taken \in Nat /\ stream[s].sent \in Seq(Events)
      BY <1>1 DEF Streams
    <2> DEFINE taken == stream[s].taken + 1
    <2>2. taken \in Nat /\ Len(stream[s].sent) \in Nat
      BY <2>1
    <2>3. ch = [stream[s] EXCEPT !.taken = taken]
      BY DEF Streams
    <2> HIDE DEF taken, ch
    <2>4. /\ ch \in Streams /\ ch.sent = stream[s].sent /\ ch.state = stream[s].state
          /\ ch.taken = taken
      BY <1>1, <2>2, <2>3 DEF Streams
    <2> QED
      BY <2>1, <2>2, <2>4 DEF taken
  <1>5. ch.lagged <=> stream[s].lagged
    BY <1>1 DEF Streams
  <1>6. stream[s].taken < Len(stream[s].sent)
    BY DEF Take
  <1> HIDE DEF ch
  <1>7. Fits(ch)
    BY <1>1, <1>4, <1>6, ActorAssumption DEF StreamOK, Fits
  <1>8. stream[s].state # "none"
    BY <1>1, <1>4, <1>6 DEF StreamOK
  <1> QED
    BY <1>2, <1>3, <1>4, <1>5, <1>7, <1>8, ReaderSteps

LEMMA DropStep == \A s \in Subscribers : IInv /\ Drop(s) => IInv'
  <1> SUFFICES ASSUME NEW s \in Subscribers, IInv, Drop(s) PROVE IInv'
    OBVIOUS
  <1> DEFINE ch == [stream[s] EXCEPT !.state = "dropped"]
  <1>1. stream[s] \in Streams /\ stream \in [Subscribers -> Streams] /\ StreamOK(stream[s], revision, worker = "running")
    BY DEF IInv, TypeOK, StreamsOK
  <1>2. stream' = [stream EXCEPT ![s] = ch]
    BY DEF Drop
  <1>3. UNCHANGED <<closedFlag, queue, worker, revision, caller, calls>> /\ stream[s].state = "open"
    BY DEF Drop
  <1>4. /\ ch \in Streams /\ ch.sent = stream[s].sent /\ ch.state = "dropped"
        /\ ch.taken = stream[s].taken
    BY <1>1 DEF Streams
  <1>5. ch.lagged <=> stream[s].lagged
    BY <1>1 DEF Streams
  <1> HIDE DEF ch
  <1>6. Fits(ch)
    BY <1>1, <1>4 DEF StreamOK, Fits
  <1> QED
    BY <1>2, <1>3, <1>4, <1>5, <1>6, ReaderSteps

-----------------------------------------------------------------------------
(* The actor                                                               *)

LEMMA CommitStep == IInv /\ Commit => IInv'
  <1> SUFFICES ASSUME IInv, Commit PROVE IInv'
    OBVIOUS
  <1>1. TypeOK /\ revision \in Nat
    BY DEF IInv, TypeOK
  <1>2. /\ Head(queue).client \in Clients /\ worker = "running"
        /\ queue' \in Seq(Requests) /\ Len(queue') <= RequestCapacity
    BY ReceiveType DEF Commit
  <1>3. caller' \in [Clients -> Callers]
    <2>1. "committed" \in Answers /\ revision + 1 \in Nat
      BY <1>1 DEF Answers
    <2> QED
      BY <1>1, <1>2, <2>1, AnswerType DEF Commit
  <1>4. /\ revision' = revision + 1 /\ UNCHANGED <<closedFlag, worker, calls>>
        /\ stream' = Broadcast(Event("CommandCommitted", revision + 1))
    BY DEF Commit
  <1>5. stream' \in [Subscribers -> Streams] /\ StreamsOK'
    <2> DEFINE new == revision + 1
    <2>1. new \in Nat
      BY <1>1
    <2>2. "CommandCommitted" \in {"CommandCommitted", "Closed"} /\ "CommandCommitted" # "Closed"
      OBVIOUS
    <2>3. new = IF "CommandCommitted" = "Closed" THEN revision ELSE revision + 1
      OBVIOUS
    <2>4. stream' = Broadcast(Event("CommandCommitted", new)) /\ revision' = new
      BY <1>4
    <2> HIDE DEF new
    <2> QED
      BY <1>2, <2>1, <2>2, <2>3, <2>4, BroadcastOK
  <1>6. \A s \in Subscribers : Fits(stream'[s])
    BY <1>5 DEF StreamsOK, StreamOK
  <1>7. TypeOK'
    BY <1>1, <1>2, <1>3, <1>4, <1>5, <1>6 DEF TypeOK, Fits
  <1> QED
    BY <1>5, <1>7 DEF IInv

LEMMA RefuseStep == IInv /\ Refuse => IInv'
  <1> SUFFICES ASSUME IInv, Refuse PROVE IInv'
    OBVIOUS
  <1> DEFINE c == Head(queue).client
  <1>1. TypeOK
    BY DEF IInv
  <1>2. c \in Clients /\ queue' \in Seq(Requests) /\ Len(queue') <= RequestCapacity
    BY ReceiveType DEF Refuse
  <1>3. Answer(c, "refused", caller[c].known)
    BY DEF Refuse
  <1> HIDE DEF c
  <1>4. caller' \in [Clients -> Callers]
    <2>1. "refused" \in Answers /\ caller[c].known \in Nat
      BY <1>1, <1>2, CallerType DEF Answers
    <2> QED
      BY <1>1, <1>2, <1>3, <2>1, AnswerType
  <1>5. UNCHANGED <<closedFlag, worker, revision, calls, stream>>
    BY DEF Refuse
  <1>6. TypeOK'
    BY <1>1, <1>2, <1>4, <1>5 DEF TypeOK
  <1> QED
    BY <1>5, <1>6, QuietSteps

LEMMA SnapshotStep == IInv /\ Snapshot => IInv'
  <1> SUFFICES ASSUME IInv, Snapshot PROVE IInv'
    OBVIOUS
  <1>1. TypeOK /\ revision \in Nat
    BY DEF IInv, TypeOK
  <1>2. Head(queue).client \in Clients /\ queue' \in Seq(Requests) /\ Len(queue') <= RequestCapacity
    BY ReceiveType DEF Snapshot
  <1>3. caller' \in [Clients -> Callers]
    <2>1. "read" \in Answers
      BY DEF Answers
    <2> QED
      BY <1>1, <1>2, <2>1, AnswerType DEF Snapshot
  <1>4. UNCHANGED <<closedFlag, worker, revision, calls, stream>>
    BY DEF Snapshot
  <1>5. TypeOK'
    BY <1>1, <1>2, <1>3, <1>4 DEF TypeOK
  <1> QED
    BY <1>4, <1>5, QuietSteps

\* A stream begins at the revision of the session.
LEMMA SubscribeStep == IInv /\ Subscribe => IInv'
  <1> SUFFICES ASSUME IInv, Subscribe PROVE IInv'
    OBVIOUS
  <1>1. TypeOK /\ revision \in Nat /\ stream \in [Subscribers -> Streams] /\ StreamsOK
    BY DEF IInv, TypeOK
  <1>2. Head(queue).client \in Clients /\ queue' \in Seq(Requests) /\ Len(queue') <= RequestCapacity
    BY ReceiveType DEF Subscribe
  <1>3. caller' \in [Clients -> Callers]
    <2>1. "subscribed" \in Answers
      BY DEF Answers
    <2> QED
      BY <1>1, <1>2, <2>1, AnswerType DEF Subscribe
  <1>4. UNCHANGED <<closedFlag, worker, revision, calls>>
    BY DEF Subscribe
  <1> DEFINE ready == Event("Ready", revision)
  <1>5. PICK s \in Subscribers :
          /\ stream[s].state = "none"
          /\ stream' = [stream EXCEPT ![s] = Put([stream[s] EXCEPT !.state = "open"], ready)]
    BY <1>1 DEF Subscribe
  <1> DEFINE ch == [stream[s] EXCEPT !.state = "open"]
             new == Put(ch, ready)
  <1>6. ready \in Events /\ ready.kind = "Ready" /\ ready.revision = revision
    BY <1>1, EventType
  <1>7. /\ ch \in Streams /\ ch.state = "open" /\ ch.sent = <<>> /\ ch.taken = 0
        /\ Fits(stream[s])
    <2>1. stream[s] \in Streams /\ StreamOK(stream[s], revision, worker = "running")
      BY <1>1 DEF StreamsOK
    <2>2. stream[s].sent = <<>> /\ stream[s].taken = 0
      BY <1>5, <2>1 DEF StreamOK
    <2> QED
      BY <2>1, <2>2 DEF StreamOK, Streams
  <1> HIDE DEF ch, ready
  <1>8. Fits(ch) /\ ~Full(ch) /\ Unbroken(ch.sent)
    <2>1. Len(<<>>) = 0
      OBVIOUS
    <2> QED
      BY <1>7, <2>1, ActorAssumption DEF Fits, Full, Unbroken
  <1>9. /\ new \in Streams /\ new.state = "open" /\ new.sent # <<>> /\ Last(new.sent) = ready
        /\ Fits(new) /\ Unbroken(new.sent)
    BY <1>6, <1>7, <1>8, PutOK
  <1>10. stream' = [stream EXCEPT ![s] = new]
    BY <1>5 DEF ch
  <1> HIDE DEF new
  <1>11. StreamOK(new, revision, worker = "running")
    BY <1>1, <1>6, <1>9 DEF StreamOK, UpToDate
  <1>12. StreamsOK'
    BY <1>1, <1>4, <1>10, <1>11 DEF StreamsOK
  <1>13. stream' \in [Subscribers -> Streams]
    BY <1>1, <1>9, <1>10
  <1>14. \A t \in Subscribers : Fits(stream'[t])
    BY <1>12 DEF StreamsOK, StreamOK
  <1>15. TypeOK'
    BY <1>1, <1>2, <1>3, <1>4, <1>13, <1>14 DEF TypeOK, Fits
  <1> QED
    BY <1>12, <1>15 DEF IInv

LEMMA CloseStep == IInv /\ Close => IInv'
  <1> SUFFICES ASSUME IInv, Close PROVE IInv'
    OBVIOUS
  <1> DEFINE c == Head(queue).client
  <1>1. TypeOK /\ revision \in Nat /\ stream \in [Subscribers -> Streams]
    BY DEF IInv, TypeOK
  <1>2. /\ c \in Clients /\ worker = "running"
        /\ queue' \in Seq(Requests) /\ Len(queue') <= RequestCapacity
    BY ReceiveType DEF Close
  <1>3. worker' = "leaving" /\ UNCHANGED <<closedFlag, revision, calls>>
    BY DEF Close
  <1>4. PICK answer \in {"closed", "refused"} :
          caller' = [caller EXCEPT ![c].pc = "joining", ![c].answer = answer]
    BY DEF Close
  <1>5. stream' = stream \/ stream' = Broadcast(Event("Closed", revision))
    BY DEF Close
  <1> HIDE DEF c
  <1>6. caller' \in [Clients -> Callers]
    <2> DEFINE next == [[caller[c] EXCEPT !.pc = "joining"] EXCEPT !.answer = answer]
    <2>1. caller[c] \in Callers /\ answer \in Answers
      BY <1>1, <1>2, CallerType DEF Answers
    <2>2. next \in Callers
      BY <2>1 DEF Callers
    <2>3. caller' = [caller EXCEPT ![c] = next]
      BY <1>1, <1>2, <1>4 DEF TypeOK
    <2> HIDE DEF next
    <2> QED
      BY <1>1, <1>2, <2>2, <2>3 DEF TypeOK
  <1>7. stream' \in [Subscribers -> Streams] /\ StreamsOK'
    <2>1. CASE stream' = stream
      BY <1>1, <1>3, <2>1 DEF IInv, StreamsOK, StreamOK, UpToDate
    <2>2. CASE stream' = Broadcast(Event("Closed", revision))
      <3>1. /\ "Closed" \in {"CommandCommitted", "Closed"}
            /\ revision = IF "Closed" = "Closed" THEN revision ELSE revision + 1
        OBVIOUS
      <3>2. worker' # "running" /\ revision' = revision
        BY <1>3
      <3> QED
        BY <1>1, <1>2, <2>2, <3>1, <3>2, BroadcastOK
    <2> QED
      BY <1>5, <2>1, <2>2
  <1>8. \A s \in Subscribers : Fits(stream'[s])
    BY <1>7 DEF StreamsOK, StreamOK
  <1>9. TypeOK'
    BY <1>1, <1>2, <1>3, <1>6, <1>7, <1>8 DEF TypeOK, Fits
  <1> QED
    BY <1>7, <1>9 DEF IInv

LEMMA LeaveStep == IInv /\ Leave => IInv'
  <1> SUFFICES ASSUME IInv, Leave PROVE IInv'
    OBVIOUS
  <1>1. TypeOK /\ stream \in [Subscribers -> Streams] /\ StreamsOK
    BY DEF IInv, TypeOK
  <1>2. worker' = "stopped" /\ queue' = <<>> /\ UNCHANGED <<closedFlag, revision, calls>>
    BY DEF Leave
  <1>3. queue' \in Seq(Requests) /\ Len(queue') <= RequestCapacity
    BY <1>2, ActorAssumption
  <1>4. caller' \in [Clients -> Callers]
    <2>1. ASSUME NEW c \in Clients PROVE caller'[c] \in Callers
      <3> DEFINE next == [[caller[c] EXCEPT !.pc = "idle"] EXCEPT !.answer = "actor_unavailable"]
      <3>1. caller[c] \in Callers
        BY <1>1, CallerType
      <3>2. next \in Callers
        BY <3>1 DEF Callers, Answers
      <3>3. caller'[c] \in {caller[c], next}
        BY DEF Leave
      <3> HIDE DEF next
      <3> QED
        BY <3>1, <3>2, <3>3
    <2> QED
      BY <2>1 DEF Leave
  <1>5. ASSUME NEW s \in Subscribers
        PROVE  stream'[s] \in Streams /\ StreamOK(stream'[s], revision, FALSE)
    <2> DEFINE ended == [stream[s] EXCEPT !.state = "ended"]
    <2>1. stream[s] \in Streams /\ StreamOK(stream[s], revision, worker = "running")
      BY <1>1 DEF StreamsOK
    <2>2. /\ ended \in Streams /\ ended.state = "ended"
          /\ ended.sent = stream[s].sent /\ ended.taken = stream[s].taken
      BY <2>1 DEF Streams
    <2>3. stream'[s] = IF stream[s].state = "open" THEN ended ELSE stream[s]
      BY DEF Leave
    <2> HIDE DEF ended
    <2> QED
      BY <2>1, <2>2, <2>3 DEF StreamOK, Fits
  <1>6. stream' \in [Subscribers -> Streams]
    BY <1>5 DEF Leave
  <1>7. StreamsOK'
    BY <1>2, <1>5 DEF StreamsOK
  <1>8. \A s \in Subscribers : Fits(stream'[s])
    BY <1>7 DEF StreamsOK, StreamOK
  <1>9. TypeOK'
    BY <1>1, <1>2, <1>3, <1>4, <1>6, <1>8 DEF TypeOK, Fits
  <1> QED
    BY <1>7, <1>9 DEF IInv

LEMMA StutterStep == IInv /\ UNCHANGED vars => IInv'
  <1> SUFFICES ASSUME IInv, UNCHANGED vars PROVE IInv'
    OBVIOUS
  <1>1. TypeOK'
    BY DEF IInv, TypeOK, vars
  <1>2. UNCHANGED <<stream, revision, worker>>
    BY DEF vars
  <1> QED
    BY <1>1, <1>2, QuietSteps

-----------------------------------------------------------------------------
(* The theorem                                                             *)

LEMMA NextIInv == IInv /\ [Next]_vars => IInv'
  <1> SUFFICES ASSUME IInv, [Next]_vars PROVE IInv'
    OBVIOUS
  <1> QED
    BY CallStep, CallCloseStep, SendStep, JoinStep, CommitStep, RefuseStep, SnapshotStep,
       SubscribeStep, CloseStep, LeaveStep, TakeStep, DropStep, StutterStep
    DEF Next, Serve

\* The commits a subscriber reads are in revision order, what it has not been
\* sent is marked, and no queue outgrows its capacity, however many clients
\* and subscribers there are and whatever they do (actor.rs, broadcast).
THEOREM GapsAreTold == Spec => []NoGapIsForgotten
  <1>1. IInv => NoGapIsForgotten
    BY DEF IInv, NoGapIsForgotten, NoSilentGap, BehindIsMarked, StreamsOK, StreamOK, Unbroken,
           Follows, UpToDate, Last
  <1> QED
    BY <1>1, InitIInv, NextIInv, PTL DEF Spec
===============================================================================
