--------------------------- MODULE ProviderStream ---------------------------
(***************************************************************************)
(* The decoder of a provider's streamed answer (openai_stream.rs): text    *)
(* and tool calls arrive in pieces, the pieces of several calls mixed.     *)
(*                                                                         *)
(* Data abstraction: a frame is one delta, [kind |-> "text", piece],       *)
(* [kind |-> "call", index, id, name, piece], "done" or "malformed" (JSON  *)
(* that the decoder refuses); a piece is one symbol of a text or of the    *)
(* arguments, NoPiece when the field is absent or null.  The calls are the *)
(* map of the code, by index; usage is left out.                           *)
(***************************************************************************)
EXTENDS Integers, Sequences, FiniteSetsExt

CONSTANTS
  Frame,      \* what a provider may send
  NoPiece,    \* a field that is absent or null
  ValidJson,  \* the argument sequences that parse to an object
  FrameLimit  \* bound: frames of a stream

ASSUME StreamAssumption ==
  /\ \A frame \in Frame :
       /\ frame.kind \in {"text", "call", "done", "malformed"}
       /\ frame.kind = "text" => frame.piece # NoPiece
       /\ frame.kind = "call" => frame.index \in Nat
  /\ <<>> \notin ValidJson
  /\ FrameLimit \in Nat

VARIABLES
  decoder,    \* ok is FALSE once a frame has been refused
  received    \* the frames that were pushed

streamVars == <<decoder, received>>

NewCall == [id |-> NoPiece, name |-> NoPiece, arguments |-> <<>>]

NewDecoder == [ok |-> TRUE, done |-> FALSE, text |-> <<>>, calls |-> [index \in {} |-> NewCall]]

InitStream ==
  /\ decoder = NewDecoder
  /\ received = <<>>

\* merge_stable_field: a field may be repeated, never changed.
Conflicts(existing, piece) == existing # NoPiece /\ piece # NoPiece /\ existing # piece

Merged(existing, piece) == IF piece = NoPiece THEN existing ELSE piece

Extended(sequence, piece) == IF piece = NoPiece THEN sequence ELSE Append(sequence, piece)

\* Mutant: a piece without an id belongs to the call that came last.
IndexOfLatest(calls, frame) ==
  IF frame.id = NoPiece /\ DOMAIN calls # {} THEN Max(DOMAIN calls) ELSE frame.index

\* Whose accumulator a frame goes to.
IndexOf(calls, frame) == frame.index

PushToolCall(frame) ==
  LET index == IndexOf(decoder.calls, frame)
      call  == IF index \in DOMAIN decoder.calls THEN decoder.calls[index] ELSE NewCall
      after == [id |-> Merged(call.id, frame.id), name |-> Merged(call.name, frame.name),
                arguments |-> Extended(call.arguments, frame.piece)]
  IN IF Conflicts(call.id, frame.id) \/ Conflicts(call.name, frame.name)
     THEN [decoder EXCEPT !.ok = FALSE]
     ELSE [decoder EXCEPT !.calls = [i \in DOMAIN decoder.calls \cup {index} |->
                                       IF i = index THEN after ELSE decoder.calls[i]]]

Pushed(frame) ==
  IF decoder.done THEN [decoder EXCEPT !.ok = FALSE]
  ELSE CASE frame.kind = "done"      -> [decoder EXCEPT !.done = TRUE]
         [] frame.kind = "malformed" -> [decoder EXCEPT !.ok = FALSE]
         [] frame.kind = "text"      -> [decoder EXCEPT !.text = Append(@, frame.piece)]
         [] frame.kind = "call"      -> PushToolCall(frame)

\* The caller gives up with the first frame that is refused.
PushData(frame) ==
  /\ decoder.ok
  /\ Len(received) < FrameLimit
  /\ received' = Append(received, frame)
  /\ decoder' = Pushed(frame)

NextStream == \E frame \in Frame : PushData(frame)

SpecStream == InitStream /\ [][NextStream]_streamVars

\* Every call has an id of its own, a name, and arguments that are an object.
WellFormed(calls) ==
  \A i \in DOMAIN calls :
    /\ calls[i].id # NoPiece
    /\ \A j \in DOMAIN calls : calls[j].id = calls[i].id => j = i
    /\ calls[i].name # NoPiece
    /\ calls[i].arguments \in ValidJson \cup {<<>>}

\* What the run gets if the stream ends here, which needs no "done"; the calls
\* are listed in the order of their indexes.
FinishStream ==
  IF decoder.ok /\ WellFormed(decoder.calls)
  THEN [ok |-> TRUE, text |-> decoder.text, calls |-> decoder.calls]
  ELSE [ok |-> FALSE, text |-> <<>>, calls |-> [index \in {} |-> NewCall]]

-----------------------------------------------------------------------------
(* Properties                                                              *)

TextSent == {n \in DOMAIN received : received[n].kind = "text"}

SentFor(index) == {n \in DOMAIN received : received[n].kind = "call" /\ received[n].index = index}

Announced == {received[n].index : n \in {m \in DOMAIN received : received[m].kind = "call"}}

\* s holds the pieces of the frames at these positions and no others, in order.
HoldsPieces(s, frames, positions) ==
  LET pieces == {n \in positions : frames[n].piece # NoPiece} IN
  /\ Len(s) = Cardinality(pieces)
  /\ \A n \in pieces : s[Cardinality({m \in pieces : m <= n})] = frames[n].piece

\* However the pieces of several calls are mixed, wherever the stream ends:
\* what is accepted is the text that was sent and the calls that were
\* announced, each with the one id and name sent for its index and with its own
\* pieces in order; no two calls share the id that a result is returned under,
\* and nothing came after the end (push_data, push_tool_call, finish).
StreamedCallsKeepTheirPieces ==
  LET result == FinishStream IN
  result.ok =>
    /\ HoldsPieces(result.text, received, TextSent)
    /\ DOMAIN result.calls = Announced
    /\ \A index \in Announced :
         LET call == result.calls[index] IN
         /\ HoldsPieces(call.arguments, received, SentFor(index))
         /\ \E n \in SentFor(index) : received[n].id = call.id
         /\ \A n \in SentFor(index) : /\ received[n].id \in {NoPiece, call.id}
                                      /\ received[n].name \in {NoPiece, call.name}
         /\ \A other \in Announced : result.calls[other].id = call.id => other = index
    /\ \A n \in DOMAIN received : received[n].kind = "done" => n = Len(received)
=============================================================================
