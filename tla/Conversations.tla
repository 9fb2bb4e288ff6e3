----------------------------- MODULE Conversations -----------------------------
(***************************************************************************)
(* The conversations of the agent in the store: imported once from the     *)
(* app's own, continued by the exchange of every run that answers          *)
(* (agent_repository.rs, schema.rs; the runs are AgentRun's).  The         *)
(* connection is behind a lock and every operation is one transaction.     *)
(***************************************************************************)
EXTENDS Integers, SequencesExt, FiniteSetsExt

CONSTANTS
  Imports,          \* what may be imported: conversation, legacy, messages
  ImportLimit,      \* bound: number of imports
  RunLimit          \* bound: number of runs

\* The application's runs are of these conversations.
ConversationIds == {i.conversation : i \in Imports}

Roles == {"system", "user", "assistant"}

NoLegacy == "no_legacy"

\* An id of the app's own is no id of the store, which are made from those,
\* and what people said before is told from what a run says.
ASSUME ImportAssumption ==
  \A import \in Imports :
    /\ import.legacy \notin ConversationIds \cup {NoLegacy}
    /\ import.messages \in Seq({import.messages[i] : i \in DOMAIN import.messages})
    /\ \A i \in DOMAIN import.messages : import.messages[i].content[1] # "run"

VARIABLES
  conversations,    \* agent_conversations: conversation -> legacy id
  messages,         \* rows of agent_messages
  runs,             \* agent_runs: run -> conversation, the messages it was given, answered
  receipts          \* the answers to imports, in order

conversationVars == <<conversations, messages, runs, receipts>>

Rows(c) == {row \in messages : row.conversation = c}

\* Mutant of Ordered: the newest first.
OrderedBackwards(rows) ==
  [i \in 1 .. Cardinality(rows) |->
     CHOOSE row \in rows : Cardinality({other \in rows : other.sequence > row.sequence}) = i - 1]

\* read_conversation and load_conversation_messages order by sequence.
Ordered(rows) ==
  [i \in 1 .. Cardinality(rows) |->
     CHOOSE row \in rows : Cardinality({other \in rows : other.sequence < row.sequence}) = i - 1]

Said(rows) ==
  LET ordered == Ordered(rows)
  IN [i \in DOMAIN ordered |-> <<ordered[i].role, ordered[i].content>>]

Transcript(c) == Said(Rows(c))

LoadConversationMessages(c) == Said({row \in Rows(c) : ~row.compacted})

\* By its own id or by the one it was imported under.
ReadConversation(id) == {c \in DOMAIN conversations : c = id \/ conversations[c] = id}

InitConversations ==
  /\ conversations = << >>
  /\ messages = {}
  /\ runs = << >>
  /\ receipts = <<>>

\* UNIQUE(conversation_id, sequence) and UNIQUE(conversation_id, external_id).
Unique(rows) ==
  \A a, b \in rows : (a # b /\ a.conversation = b.conversation) =>
    /\ a.sequence # b.sequence
    /\ a.external # b.external \/ a.external = <<>>

ImportedRows(import) ==
  {[conversation |-> import.conversation, sequence |-> import.messages[i].sequence,
    external |-> import.messages[i].external, role |-> import.messages[i].role,
    content |-> import.messages[i].content, compacted |-> import.messages[i].compacted] :
     i \in DOMAIN import.messages}

\* The sequences of the messages are 1, 2, ... and the roles those of people
\* and models.
ValidImport(import) ==
  \A i \in DOMAIN import.messages :
    /\ import.messages[i].sequence = i
    /\ import.messages[i].role \in Roles

\* The conversation of the store that an import is of.
Known(import) ==
  {c \in DOMAIN conversations : c = import.conversation \/ conversations[c] = import.legacy}

Receipt(import, c, count, present) ==
  [import |-> import, conversation |-> c, count |-> count, already_present |-> present]

ImportConversation(import) ==
  /\ Len(receipts) < ImportLimit
  /\ ValidImport(import)
  /\ \/ \E c \in Known(import) :
          /\ receipts' = Append(receipts, Receipt(import, c, Cardinality(Rows(c)), TRUE))
          /\ UNCHANGED <<conversations, messages>>
     \/ /\ Known(import) = {}
        /\ Cardinality(ImportedRows(import)) = Len(import.messages)
        /\ Unique(messages \cup ImportedRows(import))
        /\ conversations' = [c \in DOMAIN conversations \cup {import.conversation} |->
                               IF c = import.conversation THEN import.legacy ELSE conversations[c]]
        /\ messages' = messages \cup ImportedRows(import)
        /\ receipts' = Append(receipts, Receipt(import, import.conversation,
                                                Len(import.messages), FALSE))
  /\ UNCHANGED runs

\* A run makes its conversation known where it is not, and is given the
\* messages that are not compacted.
CreateRun(c) ==
  LET run == Cardinality(DOMAIN runs) + 1 IN
  /\ run <= RunLimit
  /\ conversations' = [d \in DOMAIN conversations \cup {c} |->
                         IF d \in DOMAIN conversations THEN conversations[d] ELSE NoLegacy]
  /\ runs' = [r \in DOMAIN runs \cup {run} |->
                IF r = run
                THEN [conversation |-> c, given |-> LoadConversationMessages(c), answered |-> FALSE]
                ELSE runs[r]]
  /\ UNCHANGED <<messages, receipts>>

NewRow(c, sequence, role, run) ==
  [conversation |-> c, sequence |-> sequence, external |-> <<>>, role |-> role,
   content |-> <<"run", run>>, compacted |-> FALSE]

\* The request of a run that has answered, and its answer.
ExchangeRows(c, run) ==
  LET start == Max({row.sequence : row \in Rows(c)} \cup {0})
  IN {NewRow(c, start + 1, "user", run), NewRow(c, start + 2, "assistant", run)}

AppendConversationExchange(run) ==
  LET c == runs[run].conversation IN
  /\ ~runs[run].answered
  /\ Unique(messages \cup ExchangeRows(c, run))
  /\ messages' = messages \cup ExchangeRows(c, run)
  /\ runs' = [runs EXCEPT ![run].answered = TRUE]
  /\ UNCHANGED <<conversations, receipts>>

NextConversations ==
  \/ \E import \in Imports : ImportConversation(import)
  \/ \E c \in ConversationIds : CreateRun(c)
  \/ \E run \in DOMAIN runs : AppendConversationExchange(run)

SpecConversations == InitConversations /\ [][NextConversations]_conversationVars

-----------------------------------------------------------------------------
(* Properties                                                              *)

\* What a run was given is the start of what its conversation holds ever
\* after, up to the compacted messages, and ends with a whole turn: runs at
\* once miss each other's exchange and never see half of one.
GivenWholeTurns ==
  \A run \in DOMAIN runs :
    LET given == runs[run].given
        Spoken(role) == {i \in DOMAIN given : given[i][1] = role /\ given[i][2][1] = "run"}
    IN /\ IsPrefix(given, LoadConversationMessages(runs[run].conversation))
       /\ Cardinality(Spoken("user")) = Cardinality(Spoken("assistant"))

\* What a receipt says is in the store is in the store, also after the import
\* is repeated: the conversation is found by both its ids, its count was told,
\* and a fresh import is the start of its transcript.
ReceiptsAreKept ==
  \A i \in DOMAIN receipts :
    LET r == receipts[i] IN
    /\ r.conversation \in ReadConversation(r.import.conversation) \cup ReadConversation(r.import.legacy)
    /\ Cardinality(Rows(r.conversation)) >= r.count
    /\ ~r.already_present =>
         /\ ReadConversation(r.import.legacy) = {r.conversation}
         /\ IsPrefix([k \in DOMAIN r.import.messages |->
                        <<r.import.messages[k].role, r.import.messages[k].content>>],
                     Transcript(r.conversation))

\* A conversation loses nothing it was promised to keep: not what a run is
\* given, not what an import was acknowledged for (agent_repository.rs).
ConversationsAreKept == GivenWholeTurns /\ ReceiptsAreKept
=============================================================================
