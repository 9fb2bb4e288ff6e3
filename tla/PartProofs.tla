------------------------------ MODULE PartProofs ------------------------------
(***************************************************************************)
(* Theorems about the smaller parts: change proposals, clean patches, the  *)
(* conversations of the agent, the stream of its provider, retrieval, the  *)
(* texts of a written page, and a block of text under its commands.        *)
(***************************************************************************)
EXTENDS Proposals, PatchCache, Conversations, ProviderStream, Retrieval,
        ContentEdit, TextObject, Induction, SequenceTheorems, FiniteSetTheorems, TLAPS

-----------------------------------------------------------------------------
(* Change proposals.  The proposals are numbered as they come; of one tool *)
(* call at most one is open or executed, which is what every operation     *)
(* that makes a proposal has to see to.                                    *)

Statuses == {"AwaitingApproval", "Approved", "Rejected", "Superseded"}

Shown ==
  [call : ToolCall, base : 1 .. RevisionLimit, quote : Content, replacement : Content,
   status : Statuses]

\* One that may still be executed, or was.
Live(p) == proposals[p].status \in {"AwaitingApproval", "Approved"}

Numbered ==
  /\ IsFiniteSet(ProposalIds)
  /\ ProposalIds = 1 .. Cardinality(ProposalIds)
  /\ proposals = [p \in ProposalIds |-> proposals[p]]

OneLives ==
  \A p, q \in ProposalIds : Live(p) /\ Live(q) /\ proposals[p].call = proposals[q].call => p = q

ProposalsInv ==
  /\ Numbered
  /\ \A p \in ProposalIds : proposals[p] \in Shown
  /\ text \in Content /\ revision \in 1 .. RevisionLimit
  /\ OneLives
  /\ DOMAIN executed \subseteq ProposalIds
  /\ ExecutedAsShown

\* A proposal that was superseded.
Closed(p) == [proposals[p] EXCEPT !.status = "Superseded"]

LEMMA NextIsNew ==
  ASSUME Numbered
  PROVE  /\ NextProposal \notin ProposalIds /\ NextProposal \in Nat
         /\ ProposalIds \cup {NextProposal} = 1 .. NextProposal
         /\ Cardinality(ProposalIds \cup {NextProposal}) = NextProposal
         /\ IsFiniteSet(ProposalIds \cup {NextProposal})
  <1> DEFINE n == Cardinality(ProposalIds)
  <1>1. n \in Nat
    BY FS_CardinalityType DEF Numbered
  <1>2. ProposalIds = 1 .. n /\ IsFiniteSet(ProposalIds)
    BY DEF Numbered
  <1>3. NextProposal = n + 1
    BY DEF NextProposal
  <1> HIDE DEF n
  <1>4. NextProposal \notin ProposalIds /\ ProposalIds \cup {NextProposal} = 1 .. NextProposal
    BY <1>1, <1>2, <1>3
  <1>5. /\ IsFiniteSet(ProposalIds \cup {NextProposal})
        /\ Cardinality(ProposalIds \cup {NextProposal}) = Cardinality(ProposalIds) + 1
    BY <1>2, <1>4, FS_AddElement
  <1> QED
    BY <1>1, <1>3, <1>4, <1>5 DEF n

\* One proposal more, and the rest as they were or closed: the new one is
\* the only one of its call that is open.
LEMMA OneMore ==
  ASSUME ProposalsInv, NEW call \in ToolCall, NEW base \in 1 .. RevisionLimit, NEW quote \in Content,
         NEW replacement \in Content, NEW old, DOMAIN old = ProposalIds,
         \A p \in ProposalIds : old[p] = proposals[p] \/ (old[p] = Closed(p) /\ Awaiting(p)),
         \A p \in ProposalIds : proposals[p].call = call => old[p].status \notin {"AwaitingApproval", "Approved"},
         proposals' = Filed(Proposal(call, base, quote, replacement), old),
         UNCHANGED <<text, revision, executed>>
  PROVE  ProposalsInv'
  <1> DEFINE new == Proposal(call, base, quote, replacement)
  <1>1. /\ NextProposal \notin ProposalIds /\ NextProposal \in Nat
        /\ ProposalIds \cup {NextProposal} = 1 .. NextProposal
        /\ Cardinality(ProposalIds \cup {NextProposal}) = NextProposal
        /\ IsFiniteSet(ProposalIds \cup {NextProposal})
    BY NextIsNew DEF ProposalsInv
  <1>2. /\ ProposalIds' = ProposalIds \cup {NextProposal}
        /\ proposals' = [p \in ProposalIds \cup {NextProposal} |-> proposals'[p]]
        /\ proposals'[NextProposal] = new
        /\ \A p \in ProposalIds : proposals'[p] = old[p]
    BY <1>1 DEF ProposalIds, Filed
  <1>3. new \in Shown /\ new.call = call
    BY DEF Proposal, Shown, Statuses
  <1> HIDE DEF new
  <1>4. \A p \in ProposalIds : /\ proposals'[p] \in Shown
                               /\ proposals'[p].call = proposals[p].call
                               /\ proposals'[p].quote = proposals[p].quote
                               /\ proposals'[p].status # proposals[p].status =>
                                    proposals[p].status = "AwaitingApproval" /\ proposals'[p].status = "Superseded"
    BY <1>2 DEF ProposalsInv, Shown, Statuses, Awaiting, Closed
  <1>5. Numbered'
    BY <1>1, <1>2 DEF Numbered
  <1>6. OneLives'
    <2> SUFFICES ASSUME NEW p \in ProposalIds', NEW q \in ProposalIds', Live(p)', Live(q)',
                        proposals'[p].call = proposals'[q].call
                 PROVE  p = q
      BY DEF OneLives
    <2>1. CASE p \in ProposalIds /\ q \in ProposalIds
      BY <1>4, <2>1 DEF ProposalsInv, OneLives, Live
    <2>2. ASSUME NEW r \in ProposalIds, Live(r)' PROVE proposals'[r].call # call
      BY <1>2, <1>4, <2>2 DEF Live
    <2> QED
      BY <1>2, <1>3, <2>1, <2>2
  <1>7. DOMAIN executed' \subseteq ProposalIds'
    BY <1>2 DEF ProposalsInv
  <1>8. ExecutedAsShown'
    <2> SUFFICES ASSUME NEW p \in ProposalIds', p \in DOMAIN executed
                 PROVE  proposals'[p].status = "Approved" /\ executed[p] = proposals'[p].quote
      BY DEF ExecutedAsShown
    <2>1. p \in ProposalIds
      BY DEF ProposalsInv
    <2> QED
      BY <1>4, <2>1 DEF ProposalsInv, ExecutedAsShown
  <1> QED
    BY <1>2, <1>3, <1>4, <1>5, <1>6, <1>7, <1>8 DEF ProposalsInv

\* The status of one proposal changes.
LEMMA StatusSet ==
  ASSUME ProposalsInv, NEW p \in ProposalIds, NEW status \in Statuses,
         proposals' = [proposals EXCEPT ![p].status = status]
  PROVE  /\ ProposalIds' = ProposalIds /\ Numbered'
         /\ proposals'[p] = [proposals[p] EXCEPT !.status = status]
         /\ \A q \in ProposalIds \ {p} : proposals'[q] = proposals[q]
         /\ \A q \in ProposalIds : /\ proposals'[q] \in Shown
                                   /\ proposals'[q].call = proposals[q].call
                                   /\ proposals'[q].quote = proposals[q].quote
         /\ proposals'[p].status = status
  <1>1. proposals' = [q \in ProposalIds |-> IF q = p THEN [proposals[p] EXCEPT !.status = status] ELSE proposals[q]]
    BY DEF ProposalsInv, Numbered, ProposalIds
  <1>2. ProposalIds' = ProposalIds
    BY <1>1 DEF ProposalIds
  <1>3. Numbered'
    BY <1>1, <1>2 DEF ProposalsInv, Numbered
  <1>4. \A q \in ProposalIds : proposals[q] \in Shown
    BY DEF ProposalsInv
  <1> QED
    BY <1>1, <1>2, <1>3, <1>4 DEF Shown

LEMMA TokenIds ==
  ASSUME NEW token \in Tokens
  PROVE  token.id \in ProposalIds
  <1>1. PICK p \in ProposalIds :
          \/ token = TokenOf(p) \/ token = [TokenOf(p) EXCEPT !.digest = <<"forged">>]
          \/ token = [TokenOf(p) EXCEPT !.base = revision]
    BY Zenon DEF Tokens
  <1>3. \/ token.id = TokenOf(p).id
        \/ token.id = [TokenOf(p) EXCEPT !.digest = <<"forged">>].id
        \/ token.id = [TokenOf(p) EXCEPT !.base = revision].id
    BY <1>1
  <1>4. TokenOf(p).id = p
    BY DEF TokenOf
  <1>5. [TokenOf(p) EXCEPT !.digest = <<"forged">>].id = p
    BY DEF TokenOf
  <1>6. [TokenOf(p) EXCEPT !.base = revision].id = p
    BY DEF TokenOf
  <1> QED
    BY <1>3, <1>4, <1>5, <1>6

LEMMA ApproveStep ==
  ASSUME ProposalsInv, NEW token \in Tokens, NEW present, Approve(token, present)
  PROVE  ProposalsInv'
  <1> DEFINE p == token.id
  <1>1. p \in ProposalIds
    BY TokenIds
  <1>2. /\ proposals[p].status = "AwaitingApproval" /\ proposals[p].quote = text
        /\ proposals' = [proposals EXCEPT ![p].status = "Approved"]
        /\ text' = proposals[p].replacement /\ revision' = revision + 1 /\ revision < RevisionLimit
        /\ executed' = [q \in DOMAIN executed \cup {p} |-> IF q = p THEN text ELSE executed[q]]
    BY DEF Approve, Awaiting, GatewayAccepts
  <1> HIDE DEF p
  <1>3. "Approved" \in Statuses
    BY DEF Statuses
  <1>4. /\ ProposalIds' = ProposalIds /\ Numbered'
        /\ proposals'[p] = [proposals[p] EXCEPT !.status = "Approved"]
        /\ \A q \in ProposalIds \ {p} : proposals'[q] = proposals[q]
        /\ \A q \in ProposalIds : /\ proposals'[q] \in Shown
                                  /\ proposals'[q].call = proposals[q].call
                                  /\ proposals'[q].quote = proposals[q].quote
        /\ proposals'[p].status = "Approved"
    BY <1>1, <1>2, <1>3, StatusSet
  <1>5. OneLives'
    <2>1. \A q \in ProposalIds : Live(q)' => Live(q)
      BY <1>2, <1>4 DEF Live
    <2> QED
      BY <1>4, <2>1 DEF ProposalsInv, OneLives
  <1>6. /\ DOMAIN executed' = DOMAIN executed \cup {p} /\ executed'[p] = text
        /\ \A q \in DOMAIN executed \ {p} : executed'[q] = executed[q]
    BY <1>2
  <1>7. ExecutedAsShown'
    BY <1>2, <1>4, <1>6 DEF ProposalsInv, ExecutedAsShown
  <1>8. text' \in Content /\ revision' \in 1 .. RevisionLimit
    <2>1. RevisionLimit \in Nat /\ proposals[p] \in Shown
      BY <1>1, ProposalAssumption DEF ProposalsInv
    <2> QED
      BY <1>1, <1>2, <2>1 DEF ProposalsInv, Shown
  <1> QED
    BY <1>1, <1>4, <1>5, <1>6, <1>7, <1>8 DEF ProposalsInv

LEMMA RejectStep ==
  ASSUME ProposalsInv, NEW token \in Tokens, Reject(token)
  PROVE  ProposalsInv'
  <1> DEFINE p == token.id
  <1>1. p \in ProposalIds
    BY TokenIds
  <1>2. /\ proposals[p].status = "AwaitingApproval"
        /\ proposals' = [proposals EXCEPT ![p].status = "Rejected"]
        /\ text' = text /\ revision' = revision /\ executed' = executed
    BY DEF Reject, Awaiting
  <1> HIDE DEF p
  <1>3. "Rejected" \in Statuses
    BY DEF Statuses
  <1>4. /\ ProposalIds' = ProposalIds /\ Numbered'
        /\ proposals'[p] = [proposals[p] EXCEPT !.status = "Rejected"]
        /\ \A q \in ProposalIds \ {p} : proposals'[q] = proposals[q]
        /\ \A q \in ProposalIds : /\ proposals'[q] \in Shown
                                  /\ proposals'[q].call = proposals[q].call
                                  /\ proposals'[q].quote = proposals[q].quote
        /\ proposals'[p].status = "Rejected"
    BY <1>1, <1>2, <1>3, StatusSet
  <1>5. OneLives'
    <2>1. \A q \in ProposalIds : Live(q)' => Live(q)
      BY <1>2, <1>4 DEF Live
    <2> QED
      BY <1>4, <2>1 DEF ProposalsInv, OneLives
  <1>6. ExecutedAsShown'
    BY <1>2, <1>4 DEF ProposalsInv, ExecutedAsShown
  <1> QED
    BY <1>2, <1>4, <1>5, <1>6 DEF ProposalsInv

LEMMA RequestApprovalStep ==
  ASSUME ProposalsInv, NEW call \in ToolCall, NEW replacement \in Content,
         RequestApproval(call, replacement)
  PROVE  ProposalsInv'
  <1>1. text \in Content /\ revision \in 1 .. RevisionLimit
    BY DEF ProposalsInv
  <1>2. \A p \in ProposalIds : proposals[p].call # call
    BY DEF RequestApproval
  <1> QED
    BY <1>1, <1>2, OneMore DEF RequestApproval, ProposalIds

\* The proposal that is rebased is closed, and every other one of its call
\* was closed before.
LEMMA RebaseStep ==
  ASSUME ProposalsInv, NEW token \in Tokens, NEW present \in 1 .. RevisionLimit, Rebase(token, present)
  PROVE  ProposalsInv'
  <1> DEFINE p == token.id
             old == proposals[p]
             rest == [proposals EXCEPT ![p].status = "Superseded"]
  <1>1. p \in ProposalIds
    BY TokenIds
  <1>2. /\ Awaiting(p)
        /\ proposals' = Filed(Proposal(old.call, present, old.quote, old.replacement), rest)
        /\ UNCHANGED <<text, revision, executed>>
    BY DEF Rebase
  <1>3. old \in Shown
    BY <1>1 DEF ProposalsInv
  <1> HIDE DEF p
  <1>4. /\ DOMAIN rest = ProposalIds /\ rest[p] = Closed(p)
        /\ \A q \in ProposalIds \ {p} : rest[q] = proposals[q]
    BY <1>1 DEF ProposalIds, Closed
  <1>5. rest[p].status = "Superseded"
    BY <1>1, <1>3, <1>4 DEF Shown, Closed
  <1> HIDE DEF rest
  <1>6. \A q \in ProposalIds : rest[q] = proposals[q] \/ (rest[q] = Closed(q) /\ Awaiting(q))
    BY <1>2, <1>4
  <1>7. \A q \in ProposalIds : proposals[q].call = old.call => rest[q].status \notin {"AwaitingApproval", "Approved"}
    <2> SUFFICES ASSUME NEW q \in ProposalIds, proposals[q].call = proposals[p].call, q # p
                 PROVE  proposals[q].status \notin {"AwaitingApproval", "Approved"}
      BY <1>4, <1>5
    <2> QED
      BY <1>1, <1>2 DEF ProposalsInv, OneLives, Live, Awaiting
  <1>8. old.call \in ToolCall /\ old.quote \in Content /\ old.replacement \in Content
    BY <1>3 DEF Shown
  <1> DEFINE call == old.call  quote == old.quote  replacement == old.replacement
  <1>9. call \in ToolCall /\ quote \in Content /\ replacement \in Content
    BY <1>8
  <1>10. proposals' = Filed(Proposal(call, present, quote, replacement), rest)
    BY <1>2
  <1>11. \A q \in ProposalIds : proposals[q].call = call => rest[q].status \notin {"AwaitingApproval", "Approved"}
    BY <1>7
  <1> HIDE DEF call, quote, replacement, old
  <1>12. DOMAIN rest = ProposalIds /\ UNCHANGED <<text, revision, executed>>
    BY <1>2, <1>4
  <1> QED
    BY <1>6, <1>9, <1>10, <1>11, <1>12, OneMore

LEMMA OthersEditStep ==
  ASSUME ProposalsInv, OthersEdit
  PROVE  ProposalsInv'
  <1>1. /\ proposals' = proposals /\ executed' = executed /\ text' \in Content
        /\ revision' = revision + 1 /\ revision < RevisionLimit
    BY DEF OthersEdit
  <1>2. revision' \in 1 .. RevisionLimit
    BY <1>1, ProposalAssumption DEF ProposalsInv
  <1> QED
    BY <1>1, <1>2
    DEF ProposalsInv, Numbered, ProposalIds, OneLives, Live, ExecutedAsShown

LEMMA InitProposalsInv == InitProposals => ProposalsInv
  <1> SUFFICES ASSUME InitProposals PROVE ProposalsInv
    OBVIOUS
  <1>1. ProposalIds = {} /\ DOMAIN executed = {}
    BY DEF InitProposals, ProposalIds
  <1>2. IsFiniteSet({}) /\ Cardinality({}) = 0
    BY FS_EmptySet
  <1>3. Numbered
    <2>1. proposals = [p \in {} |-> proposals[p]]
      BY DEF InitProposals
    <2> QED
      BY <1>1, <1>2, <2>1 DEF Numbered
  <1>4. text \in Content /\ revision \in 1 .. RevisionLimit
    BY ProposalAssumption DEF InitProposals
  <1> QED
    BY <1>1, <1>3, <1>4 DEF ProposalsInv, OneLives, ExecutedAsShown

LEMMA NextProposalsInv == ProposalsInv /\ [NextProposals]_proposalVars => ProposalsInv'
  <1> SUFFICES ASSUME ProposalsInv, [NextProposals]_proposalVars PROVE ProposalsInv'
    OBVIOUS
  <1>1. CASE UNCHANGED proposalVars
    BY <1>1 DEF proposalVars, ProposalsInv, Numbered, ProposalIds, OneLives, Live, ExecutedAsShown
  <1> QED
    BY <1>1, RequestApprovalStep, ApproveStep, RebaseStep, RejectStep, OthersEditStep DEF NextProposals

\* However often proposals are rebased, whoever else edits, and whichever
\* tokens are presented again or forged: a tool call is executed once, and
\* what it replaces is the text that people saw (approve, rebase).
THEOREM ProposalsAreExecutedOnce == SpecProposals => []ApprovedChangesAreMade
  <1>1. ProposalsInv => ApprovedChangesAreMade
    <2> SUFFICES ASSUME ProposalsInv PROVE CallsRunOnce
      BY DEF ApprovedChangesAreMade, ProposalsInv
    <2>1. \A p \in DOMAIN executed : p \in ProposalIds /\ Live(p)
      BY DEF ProposalsInv, ExecutedAsShown, Live
    <2> QED
      BY <2>1 DEF CallsRunOnce, ProposalsInv, OneLives
  <1> QED
    BY <1>1, InitProposalsInv, NextProposalsInv, PTL DEF SpecProposals

-----------------------------------------------------------------------------
(* Clean patches.  The bytes of a set of patches, first: a sum does not    *)
(* depend on the order in which it is taken.                               *)

Pick(s) == CHOOSE x \in s : TRUE

\* g has the bytes of every subset of S.
Sums(g, S) ==
  g = [s \in SUBSET S |-> IF s = {} THEN 0 ELSE DecodedSize(Pick(s)) + g[s \ {Pick(s)}]]

\* As Sums, for the sets of no more than n elements.
SumsUpTo(g, S, n) ==
  /\ DOMAIN g = SUBSET S
  /\ \A s \in SUBSET S :
       Cardinality(s) <= n => g[s] = IF s = {} THEN 0 ELSE DecodedSize(Pick(s)) + g[s \ {Pick(s)}]

\* An element less.
LEMMA OneLess ==
  ASSUME NEW S, IsFiniteSet(S), NEW s \in SUBSET S, NEW x \in s
  PROVE  /\ IsFiniteSet(s) /\ Cardinality(s) \in Nat /\ Cardinality(s) # 0
         /\ s \ {x} \in SUBSET S /\ IsFiniteSet(s \ {x})
         /\ Cardinality(s \ {x}) = Cardinality(s) - 1
  <1>1. IsFiniteSet(s)
    BY FS_Subset
  <1>2. IsFiniteSet(s \ {x}) /\ Cardinality(s \ {x}) = Cardinality(s) - 1
    BY <1>1, FS_RemoveElement
  <1>3. Cardinality(s) \in Nat /\ (Cardinality(s) = 0 <=> s = {})
    BY <1>1, FS_CardinalityType, FS_EmptySet
  <1> QED
    BY <1>1, <1>2, <1>3

LEMMA PickIsIn ==
  ASSUME NEW s, s # {}
  PROVE  Pick(s) \in s
  <1> QED
    BY DEF Pick

LEMMA SumsExist ==
  ASSUME NEW S, IsFiniteSet(S)
  PROVE  \E g : Sums(g, S)
  <1> DEFINE N == {n \in Nat : \E g : SumsUpTo(g, S, n)}
  <1>1. \A s \in SUBSET S : /\ Cardinality(s) \in Nat
                            /\ Cardinality(s) = 0 <=> s = {}
    BY FS_Subset, FS_CardinalityType, FS_EmptySet
  <1>2. 0 \in N
    <2> DEFINE g == [s \in SUBSET S |-> 0]
    <2>1. SumsUpTo(g, S, 0)
      BY <1>1 DEF SumsUpTo
    <2> QED
      BY <2>1
  <1>3. ASSUME NEW n \in Nat, n \in N PROVE n + 1 \in N
    <2>1. PICK g : SumsUpTo(g, S, n)
      BY <1>3
    <2> DEFINE next(s) == IF s = {} THEN 0 ELSE DecodedSize(Pick(s)) + g[s \ {Pick(s)}]
               h == [s \in SUBSET S |-> IF Cardinality(s) <= n THEN g[s] ELSE next(s)]
    <2>2. \A s \in SUBSET S : Cardinality(s) <= n => g[s] = next(s)
      BY <2>1 DEF SumsUpTo
    <2>3. \A s \in SUBSET S : h[s] = next(s)
      BY <2>2
    <2>4. ASSUME NEW s \in SUBSET S, Cardinality(s) <= n + 1, s # {}
          PROVE  h[s \ {Pick(s)}] = g[s \ {Pick(s)}]
      <3>1. Pick(s) \in s
        BY <2>4, PickIsIn
      <3>2. s \ {Pick(s)} \in SUBSET S /\ Cardinality(s \ {Pick(s)}) <= n
        BY <2>4, <3>1, <1>1, OneLess
      <3> QED
        BY <3>2
    <2>5. DOMAIN h = SUBSET S
      OBVIOUS
    <2>6. \A s \in SUBSET S : Cardinality(s) <= n + 1 =>
            h[s] = IF s = {} THEN 0 ELSE DecodedSize(Pick(s)) + h[s \ {Pick(s)}]
      BY <2>3, <2>4
    <2> HIDE DEF h, next
    <2>7. SumsUpTo(h, S, n + 1)
      BY <2>5, <2>6 DEF SumsUpTo
    <2> QED
      BY <2>7
  <1> HIDE DEF N
  <1>4. Nat \subseteq N
    BY <1>2, <1>3, SetInduction
  <1>5. Cardinality(S) \in Nat /\ \A s \in SUBSET S : Cardinality(s) <= Cardinality(S)
    BY FS_Subset, FS_CardinalityType
  <1>6. PICK g : SumsUpTo(g, S, Cardinality(S))
    BY <1>4, <1>5 DEF N
  <1> DEFINE h == [s \in SUBSET S |-> g[s]]
  <1>7. \A s \in SUBSET S : h[s] = IF s = {} THEN 0 ELSE DecodedSize(Pick(s)) + h[s \ {Pick(s)}]
    BY <1>5, <1>6 DEF SumsUpTo
  <1>8. h = [s \in SUBSET S |-> h[s]]
    OBVIOUS
  <1> HIDE DEF h
  <1>9. Sums(h, S)
    BY <1>7, <1>8 DEF Sums
  <1> QED
    BY <1>9

\* What a function that sums up says of its sets.
LEMMA SumsFacts ==
  ASSUME NEW S, NEW g, Sums(g, S), NEW s \in SUBSET S
  PROVE  g[s] = IF s = {} THEN 0 ELSE DecodedSize(Pick(s)) + g[s \ {Pick(s)}]
  <1> QED
    BY Zenon DEF Sums

\* Any element may be taken first.
LEMMA SumsInAnyOrder ==
  ASSUME NEW S, IsFiniteSet(S), S \subseteq Keys, NEW g, Sums(g, S), NEW s \in SUBSET S
  PROVE  /\ g[s] \in Nat
         /\ \A x \in s : g[s] = DecodedSize(x) + g[s \ {x}]
  <1> DEFINE Good(r) == g[r] \in Nat /\ \A x \in r : g[r] = DecodedSize(x) + g[r \ {x}]
             N == {n \in Nat : \A r \in SUBSET S : Cardinality(r) <= n => Good(r)}
  <1>1. \A r \in SUBSET S : /\ Cardinality(r) \in Nat
                            /\ Cardinality(r) = 0 <=> r = {}
    BY FS_Subset, FS_CardinalityType, FS_EmptySet
  <1>2. \A x \in S : DecodedSize(x) \in Nat
    BY CacheAssumption DEF Keys, DecodedSize
  <1>3. g[{}] = 0
    BY SumsFacts
  <1>4. 0 \in N
    BY <1>1, <1>3
  <1>5. ASSUME NEW n \in Nat, n \in N, NEW r \in SUBSET S, Cardinality(r) <= n + 1
        PROVE  Good(r)
    <2>1. CASE r = {}
      BY <1>3, <2>1
    <2>2. CASE r # {}
      <3> DEFINE y == Pick(r)
      <3>1. y \in r
        BY <2>2, PickIsIn
      <3>2. g[r] = DecodedSize(y) + g[r \ {y}]
        BY <2>2, SumsFacts
      <3> HIDE DEF y
      <3>3. \A x \in r : r \ {x} \in SUBSET S /\ Good(r \ {x})
        <4> SUFFICES ASSUME NEW x \in r PROVE r \ {x} \in SUBSET S /\ Good(r \ {x})
          OBVIOUS
        <4>1. r \ {x} \in SUBSET S /\ Cardinality(r \ {x}) <= n
          BY <1>1, <1>5, OneLess
        <4> QED
          BY <1>5, <4>1
      <3>4. g[r] \in Nat
        <4>1. DecodedSize(y) \in Nat /\ g[r \ {y}] \in Nat
          BY <1>2, <3>1, <3>3
        <4> QED
          BY <3>2, <4>1
      <3>5. ASSUME NEW x \in r, x # y PROVE g[r] = DecodedSize(x) + g[r \ {x}]
        <4>1. /\ g[r \ {y}] = DecodedSize(x) + g[(r \ {y}) \ {x}]
              /\ g[r \ {x}] = DecodedSize(y) + g[(r \ {x}) \ {y}]
          BY <3>1, <3>3, <3>5
        <4>2. (r \ {y}) \ {x} = (r \ {x}) \ {y}
          OBVIOUS
        <4> DEFINE rest == g[(r \ {x}) \ {y}]
        <4>3. rest \in Nat
          <5>1. (r \ {x}) \ {y} \in SUBSET S /\ Cardinality((r \ {x}) \ {y}) <= n
            <6>1. r \ {x} \in SUBSET S /\ Cardinality(r \ {x}) = Cardinality(r) - 1
              BY OneLess
            <6>2. y \in r \ {x}
              BY <3>1, <3>5
            <6> DEFINE q == r \ {x}
            <6>3. q \in SUBSET S /\ y \in q
              BY <6>1, <6>2
            <6> HIDE DEF q
            <6>4. q \ {y} \in SUBSET S /\ Cardinality(q \ {y}) = Cardinality(q) - 1
              BY <6>3, OneLess
            <6> QED
              BY <1>1, <1>5, <6>1, <6>4 DEF q
          <5> QED
            BY <1>5, <5>1
        <4>4. DecodedSize(x) \in Nat /\ DecodedSize(y) \in Nat
          BY <1>2, <3>1
        <4>5. g[r] = DecodedSize(y) + (DecodedSize(x) + rest) /\ g[r \ {x}] = DecodedSize(y) + rest
          BY <3>2, <4>1, <4>2
        <4> HIDE DEF rest
        <4> QED
          BY <4>3, <4>4, <4>5
      <3> QED
        BY <3>2, <3>4, <3>5
    <2> QED
      BY <2>1, <2>2
  <1> HIDE DEF Good
  <1>6. ASSUME NEW n \in Nat, n \in N PROVE n + 1 \in N
    <2>1. \A r \in SUBSET S : Cardinality(r) <= n + 1 => Good(r)
      BY <1>5, <1>6
    <2> QED
      BY <2>1
  <1> HIDE DEF N
  <1>7. Nat \subseteq N
    BY <1>4, <1>6, SetInduction
  <1>8. Cardinality(s) \in N /\ Cardinality(s) <= Cardinality(s)
    BY <1>1, <1>7
  <1>9. Good(s)
    BY <1>8 DEF N
  <1> QED
    BY <1>9 DEF Good

\* The sums over a set and over a part of it agree.
LEMMA SumsAgree ==
  ASSUME NEW S, IsFiniteSet(S), NEW T \in SUBSET S, NEW g, Sums(g, S), NEW h, Sums(h, T)
  PROVE  g[T] = h[T]
  <1> DEFINE N == {n \in Nat : \A r \in SUBSET T : Cardinality(r) <= n => g[r] = h[r]}
  <1>1. \A r \in SUBSET T : /\ Cardinality(r) \in Nat
                            /\ Cardinality(r) = 0 <=> r = {}
    BY FS_Subset, FS_CardinalityType, FS_EmptySet
  <1>2. 0 \in N
    <2>1. g[{}] = 0 /\ h[{}] = 0
      BY SumsFacts
    <2> QED
      BY <1>1, <2>1
  <1>3. ASSUME NEW n \in Nat, n \in N, NEW r \in SUBSET T, Cardinality(r) <= n + 1
        PROVE  g[r] = h[r]
    <2>1. /\ g[r] = IF r = {} THEN 0 ELSE DecodedSize(Pick(r)) + g[r \ {Pick(r)}]
          /\ h[r] = IF r = {} THEN 0 ELSE DecodedSize(Pick(r)) + h[r \ {Pick(r)}]
      BY SumsFacts
    <2>2. ASSUME r # {} PROVE g[r \ {Pick(r)}] = h[r \ {Pick(r)}]
      <3>1. Pick(r) \in r /\ IsFiniteSet(T)
        BY <2>2, PickIsIn, FS_Subset
      <3>2. r \ {Pick(r)} \in SUBSET T /\ Cardinality(r \ {Pick(r)}) <= n
        BY <1>1, <1>3, <3>1, OneLess
      <3> QED
        BY <1>3, <3>2
    <2> QED
      BY <2>1, <2>2
  <1>4. \A n \in Nat : n \in N => n + 1 \in N
    BY <1>3
  <1> HIDE DEF N
  <1>5. Nat \subseteq N
    BY <1>2, <1>4, SetInduction
  <1>6. Cardinality(T) \in N /\ Cardinality(T) <= Cardinality(T)
    BY <1>1, <1>5
  <1> QED
    BY <1>6 DEF N

LEMMA BytesAreSums ==
  ASSUME NEW S, IsFiniteSet(S)
  PROVE  \E g : Sums(g, S) /\ ResidentBytes(S) = g[S]
  <1> DEFINE g == CHOOSE g : Sums(g, S)
  <1>1. Sums(g, S)
    BY SumsExist
  <1>2. ResidentBytes(S) = g[S]
    BY Zenon DEF ResidentBytes, MapThenSumSet, MapThenFoldSet, Sums, Pick
  <1> QED
    BY <1>1, <1>2

\* The bytes of patches, one by one.
LEMMA BytesFacts ==
  ASSUME NEW S, IsFiniteSet(S), S \subseteq Keys
  PROVE  /\ ResidentBytes(S) \in Nat
         /\ \A x \in S : ResidentBytes(S) = DecodedSize(x) + ResidentBytes(S \ {x})
  <1>1. PICK g : Sums(g, S) /\ ResidentBytes(S) = g[S]
    BY BytesAreSums
  <1>2. g[S] \in Nat /\ \A x \in S : g[S] = DecodedSize(x) + g[S \ {x}]
    BY <1>1, SumsInAnyOrder
  <1>3. ASSUME NEW x \in S PROVE ResidentBytes(S \ {x}) = g[S \ {x}]
    <2> DEFINE T == S \ {x}
    <2>1. IsFiniteSet(T) /\ T \in SUBSET S
      BY FS_Subset
    <2> HIDE DEF T
    <2>2. PICK h : Sums(h, T) /\ ResidentBytes(T) = h[T]
      BY <2>1, BytesAreSums
    <2>3. g[T] = h[T]
      BY <1>1, <2>1, <2>2, SumsAgree
    <2> QED
      BY <2>2, <2>3 DEF T
  <1> QED
    BY <1>1, <1>2, <1>3

-----------------------------------------------------------------------------
(* The cache.  The account covers what is resident, which is kept once.    *)

\* What an eviction begins and ends with.
Covered(left, shown) ==
  /\ left.keys \in Seq(Keys) /\ Distinct(left.keys)
  /\ shown \subseteq Elements(left.keys)
  /\ left.account \in Nat /\ ResidentBytes(Elements(left.keys)) <= left.account

CacheInv ==
  /\ recency \in Seq(Keys) /\ Distinct(recency)
  /\ visible \subseteq Resident
  /\ decoded \in Nat /\ ResidentBytes(Resident) <= decoded
  /\ rendering \in [Caller -> Keys \cup {Nothing}]

LEMMA ElementsAreFinite ==
  ASSUME NEW keys \in Seq(Keys), Distinct(keys)
  PROVE  IsFiniteSet(Elements(keys)) /\ Elements(keys) \subseteq Keys
  <1>1. Len(keys) \in 0 .. Len(keys)
    OBVIOUS
  <1>2. IsFiniteSet(Elements(keys))
    BY <1>1, DistinctCounts
  <1> QED
    BY <1>2 DEF Elements

LEMMA SizesAreNumbers == \A key \in Keys : DecodedSize(key) \in Nat
  BY CacheAssumption DEF Keys, DecodedSize

\* A resolution is rendered as one of those of the cache.
LEMMA BucketIsOne ==
  ASSUME NEW dpi \in Dpi
  PROVE  DpiBucket(dpi) \in Bucket
  <1> DEFINE below == {b \in Bucket : b <= dpi}
  <1>1. Bucket \subseteq Nat /\ Bucket # {} /\ dpi \in Nat
    BY CacheAssumption
  <1>2. Min(Bucket) \in Bucket
    <2>1. \E x \in Bucket : \A y \in Bucket : x <= y
      BY <1>1, LeastElement
    <2> QED
      BY <2>1 DEF Min
  <1>3. ASSUME below # {} PROVE Max(below) \in below
    <2> DEFINE above == {dpi - b : b \in below}
    <2>1. above \subseteq Nat /\ above # {}
      <3>1. \A b \in below : dpi - b \in Nat
        BY <1>1
      <3> HIDE DEF below
      <3> QED
        BY <1>3, <3>1
    <2> HIDE DEF above
    <2>2. PICK a \in above : \A c \in above : a <= c
      BY <2>1, LeastElement
    <2>3. PICK x \in below : a = dpi - x
      BY <2>2 DEF above
    <2>4. \A y \in below : x >= y
      <3> SUFFICES ASSUME NEW y \in below PROVE x >= y
        OBVIOUS
      <3>1. dpi - x <= dpi - y
        BY <2>2, <2>3 DEF above
      <3>2. x \in Nat /\ y \in Nat
        BY <1>1
      <3> QED
        BY <1>1, <3>1, <3>2
    <2> HIDE DEF below
    <2>5. \E z \in below : \A y \in below : z >= y
      BY <2>4
    <2> QED
      BY <2>5 DEF Max
  <1> HIDE DEF below
  <1>4. DpiBucket(dpi) = IF below = {} THEN Min(Bucket) ELSE Max(below)
    BY DEF DpiBucket, below
  <1>5. below \subseteq Bucket
    BY DEF below
  <1> QED
    BY <1>2, <1>3, <1>4, <1>5

LEMMA KeyIsOne ==
  ASSUME NEW patch \in Patch, NEW dpi \in Dpi
  PROVE  Key(patch, dpi) \in Keys
  <1> QED
    BY BucketIsOne DEF Key, Keys

\* The key that is used comes last.
LEMMA TouchFacts ==
  ASSUME CacheInv, NEW key \in Keys
  PROVE  /\ Touch(key) \in Seq(Keys) /\ Distinct(Touch(key))
         /\ Elements(Touch(key)) = Resident \cup {key}
  <1> DEFINE rest == Only(recency, Keys \ {key})
  <1>1. recency \in Seq(Keys) /\ Distinct(recency) /\ Resident = Elements(recency)
    BY DEF CacheInv, Resident, Elements
  <1>2. /\ rest \in Seq(Keys) /\ Elements(rest) = Elements(recency) \cap (Keys \ {key})
        /\ Distinct(rest)
    BY <1>1, OnlyFacts
  <1>3. Elements(recency) \subseteq Keys
    BY <1>1, ElementsAreFinite
  <1>4. Touch(key) = Append(rest, key)
    BY DEF Touch
  <1> HIDE DEF rest
  <1>5. key \notin Elements(rest)
    BY <1>2
  <1>6. /\ Append(rest, key) \in Seq(Keys) /\ Elements(Append(rest, key)) = Elements(rest) \cup {key}
        /\ Distinct(Append(rest, key))
    BY <1>2, <1>5, AppendElements
  <1> QED
    BY <1>1, <1>2, <1>3, <1>4, <1>6

\* An eviction takes a patch that is not visible, and its bytes, which are
\* in the account.
LEMMA EvictOldestFacts ==
  ASSUME NEW left, NEW shown, Covered(left, shown)
  PROVE  Covered(EvictOldest(left, shown), shown)
  <1> DEFINE hidden == Only(left.keys, Keys \ shown)
             oldest == hidden[1]
             keys == Only(left.keys, Keys \ {oldest})
             account == left.account - DecodedSize(oldest)
  <1>1. /\ left.keys \in Seq(Keys) /\ Distinct(left.keys) /\ shown \subseteq Elements(left.keys)
        /\ left.account \in Nat /\ ResidentBytes(Elements(left.keys)) <= left.account
    BY DEF Covered
  <1>2. IsFiniteSet(Elements(left.keys)) /\ Elements(left.keys) \subseteq Keys
    BY <1>1, ElementsAreFinite
  <1>3. /\ hidden \in Seq(Keys) /\ Elements(hidden) = Elements(left.keys) \cap (Keys \ shown)
    BY <1>1, OnlyFacts
  <1>4. /\ keys \in Seq(Keys) /\ Elements(keys) = Elements(left.keys) \cap (Keys \ {oldest})
        /\ Distinct(keys)
    BY <1>1, OnlyFacts
  <1>5. EvictOldest(left, shown) = left
          \/ (hidden # <<>> /\ EvictOldest(left, shown) = [keys |-> keys, account |-> account])
    BY DEF EvictOldest
  <1>6. ASSUME hidden # <<>> PROVE Covered([keys |-> keys, account |-> account], shown)
    <2>1. oldest \in Elements(hidden)
      <3> HIDE DEF hidden
      <3>1. 1 \in DOMAIN hidden
        BY <1>3, <1>6
      <3> QED
        BY <3>1 DEF Elements
    <2> HIDE DEF hidden, oldest, keys
    <2>2. oldest \in Elements(left.keys) /\ oldest \notin shown
      BY <1>3, <2>1
    <2>3. Elements(keys) = Elements(left.keys) \ {oldest}
      BY <1>2, <1>4
    <2>4. ResidentBytes(Elements(left.keys)) = DecodedSize(oldest) + ResidentBytes(Elements(keys))
      BY <1>2, <2>2, <2>3, BytesFacts
    <2>5. /\ ResidentBytes(Elements(keys)) \in Nat
          /\ DecodedSize(oldest) \in Nat
      <3> DEFINE rest == Elements(left.keys) \ {oldest}
      <3>1. IsFiniteSet(rest) /\ rest \subseteq Keys
        BY <1>2, FS_Subset
      <3> HIDE DEF rest
      <3>2. ResidentBytes(rest) \in Nat
        BY <3>1, BytesFacts
      <3> QED
        BY <1>2, <2>2, <2>3, <3>2, SizesAreNumbers DEF rest
    <2>6. account \in Nat /\ ResidentBytes(Elements(keys)) <= account
      BY <1>1, <2>4, <2>5
    <2> HIDE DEF account
    <2> QED
      BY <1>1, <1>4, <2>2, <2>3, <2>6 DEF Covered
  <1> HIDE DEF keys, account, hidden
  <1> QED
    BY <1>5, <1>6

\* left[i] is what i rounds leave.
RoundsOf(left, n, keys, account, shown) ==
  left = [i \in 0 .. n |->
            IF i = 0 THEN [keys |-> keys, account |-> account] ELSE EvictOldest(left[i - 1], shown)]

LEMMA RoundsExist ==
  ASSUME NEW keys, NEW account, NEW shown, NEW n \in Nat
  PROVE  \E left : RoundsOf(left, n, keys, account, shown)
  <1> DEFINE First == [keys |-> keys, account |-> account]
             S == {k \in Nat : \E left : RoundsOf(left, k, keys, account, shown)}
  <1>1. 0 \in S
    <2> DEFINE left == [i \in 0 .. 0 |-> First]
    <2>1. RoundsOf(left, 0, keys, account, shown)
      BY DEF RoundsOf
    <2> QED
      BY <2>1
  <1>2. ASSUME NEW k \in Nat, k \in S PROVE k + 1 \in S
    <2>1. PICK left : RoundsOf(left, k, keys, account, shown)
      BY <1>2
    <2> DEFINE more == [i \in 0 .. k + 1 |-> IF i <= k THEN left[i] ELSE EvictOldest(left[k], shown)]
    <2>2. \A i \in 0 .. k : left[i] = IF i = 0 THEN First ELSE EvictOldest(left[i - 1], shown)
      BY <2>1, Zenon DEF RoundsOf
    <2> HIDE DEF First
    <2>3. \A i \in 0 .. k + 1 : more[i] = IF i = 0 THEN First ELSE EvictOldest(more[i - 1], shown)
      BY <2>2
    <2>4. more = [i \in 0 .. k + 1 |-> more[i]]
      OBVIOUS
    <2> HIDE DEF more
    <2>5. RoundsOf(more, k + 1, keys, account, shown)
      BY <2>3, <2>4 DEF RoundsOf, First
    <2> QED
      BY <2>5
  <1> HIDE DEF S
  <1>3. Nat \subseteq S
    BY <1>1, <1>2, SetInduction
  <1> QED
    BY <1>3 DEF S

LEMMA EvictedFacts ==
  ASSUME NEW keys, NEW account, NEW shown, Covered([keys |-> keys, account |-> account], shown)
  PROVE  Covered(Evicted(keys, account, shown), shown)
  <1> DEFINE last == Len(keys)
             left == CHOOSE left : RoundsOf(left, Len(keys), keys, account, shown)
             S == {n \in Nat : n <= last => Covered(left[n], shown)}
  <1>1. Evicted(keys, account, shown) = left[last]
    BY Zenon DEF Evicted, RoundsOf
  <1>2. last \in Nat
    <2>1. keys \in Seq(Keys)
      BY DEF Covered
    <2> QED
      BY <2>1
  <1>3. RoundsOf(left, last, keys, account, shown)
    BY <1>2, RoundsExist
  <1> HIDE DEF left, last
  <1>4. \A i \in 0 .. last :
          left[i] = IF i = 0 THEN [keys |-> keys, account |-> account] ELSE EvictOldest(left[i - 1], shown)
    BY <1>3, Zenon DEF RoundsOf
  <1>5. 0 \in S
    <2>1. left[0] = [keys |-> keys, account |-> account]
      BY <1>2, <1>4
    <2> QED
      BY <2>1
  <1>6. ASSUME NEW n \in Nat, n \in S PROVE n + 1 \in S
    <2> SUFFICES ASSUME n + 1 <= last PROVE Covered(left[n + 1], shown)
      OBVIOUS
    <2>1. Covered(left[n], shown)
      BY <1>2, <1>6
    <2>2. left[n + 1] = EvictOldest(left[n], shown)
      BY <1>2, <1>4
    <2> QED
      BY <2>1, <2>2, EvictOldestFacts
  <1> HIDE DEF S
  <1>7. Nat \subseteq S
    BY <1>5, <1>6, SetInduction
  <1>8. Covered(left[last], shown)
    BY <1>2, <1>7 DEF S
  <1> QED
    BY <1>1, <1>8

LEMMA LookupStep ==
  ASSUME CacheInv, NEW c \in Caller, NEW patch \in Patch, NEW dpi \in Dpi, Lookup(c, patch, dpi)
  PROVE  CacheInv'
  <1> DEFINE key == Key(patch, dpi)
  <1>1. key \in Keys
    BY KeyIsOne
  <1>2. UNCHANGED <<visible, decoded>>
    BY DEF Lookup
  <1>3. \/ key \in Resident /\ recency' = Touch(key) /\ rendering' = rendering
        \/ rendering' = [rendering EXCEPT ![c] = key] /\ recency' = recency
    BY DEF Lookup
  <1> HIDE DEF key
  <1>4. CASE key \in Resident /\ recency' = Touch(key) /\ rendering' = rendering
    <2>1. recency' \in Seq(Keys) /\ Distinct(recency') /\ Elements(recency') = Resident
      BY <1>1, <1>4, TouchFacts
    <2>2. Resident' = Resident
      BY <2>1 DEF Resident, Elements
    <2> QED
      BY <1>2, <1>4, <2>1, <2>2 DEF CacheInv
  <1>5. CASE rendering' = [rendering EXCEPT ![c] = key] /\ recency' = recency
    <2>1. Resident' = Resident
      BY <1>5 DEF Resident
    <2> QED
      BY <1>1, <1>2, <1>5, <2>1 DEF CacheInv
  <1> QED
    BY <1>3, <1>4, <1>5

\* A patch that is there already is counted twice: the account is above what
\* is resident.
LEMMA InsertStep ==
  ASSUME CacheInv, NEW c \in Caller, Insert(c)
  PROVE  CacheInv'
  <1> DEFINE key == rendering[c]
             shown == visible \ {key}
             keys == Touch(key)
             account == decoded + DecodedSize(key)
             left == Evicted(keys, account, shown)
  <1>1. /\ key # Nothing /\ recency' = left.keys /\ decoded' = left.account /\ visible' = shown
        /\ rendering' = [rendering EXCEPT ![c] = Nothing]
    BY DEF Insert
  <1>2. key \in Keys
    BY <1>1 DEF CacheInv
  <1>3. keys \in Seq(Keys) /\ Distinct(keys) /\ Elements(keys) = Resident \cup {key}
    BY <1>2, TouchFacts
  <1>4. shown \subseteq Elements(keys)
    BY <1>3 DEF CacheInv
  <1>5. account \in Nat /\ ResidentBytes(Resident \cup {key}) <= account
    <2>1. decoded \in Nat /\ ResidentBytes(Resident) <= decoded /\ DecodedSize(key) \in Nat
      BY <1>2, SizesAreNumbers DEF CacheInv
    <2> DEFINE all == Resident \cup {key}
    <2>2. IsFiniteSet(all) /\ all \subseteq Keys /\ IsFiniteSet(Resident) /\ Resident \subseteq Keys
      <3>1. IsFiniteSet(Elements(keys)) /\ Elements(keys) \subseteq Keys
        BY <1>3, ElementsAreFinite
      <3>2. IsFiniteSet(all) /\ all \subseteq Keys
        BY <1>3, <3>1
      <3> QED
        BY <3>2, FS_Subset
    <2>3. ResidentBytes(Resident) \in Nat
      BY <2>2, BytesFacts
    <2>4. CASE key \in Resident
      <3>1. all = Resident
        BY <2>4
      <3>2. ResidentBytes(all) = ResidentBytes(Resident)
        BY <3>1, Zenon
      <3> HIDE DEF all
      <3>3. ResidentBytes(all) <= account
        BY <2>1, <2>3, <3>2
      <3> QED
        BY <2>1, <3>3 DEF all
    <2>5. CASE key \notin Resident
      <3>1. all \ {key} = Resident /\ key \in all
        BY <2>5
      <3> HIDE DEF all
      <3>2. ResidentBytes(all) = DecodedSize(key) + ResidentBytes(Resident)
        BY <2>2, <3>1, BytesFacts
      <3> QED
        BY <2>1, <2>3, <3>2 DEF all
    <2> QED
      BY <2>4, <2>5
  <1>6. Covered([keys |-> keys, account |-> account], shown)
    BY <1>3, <1>4, <1>5 DEF Covered
  <1> HIDE DEF keys, account, shown
  <1>7. Covered(left, shown)
    BY <1>6, EvictedFacts
  <1> HIDE DEF left
  <1>8. /\ recency' \in Seq(Keys) /\ Distinct(recency') /\ visible' \subseteq Resident'
        /\ decoded' \in Nat /\ ResidentBytes(Resident') <= decoded'
    <2>1. Resident' = Elements(left.keys)
      BY <1>1 DEF Resident, Elements
    <2> QED
      BY <1>1, <1>7, <2>1 DEF Covered
  <1>9. rendering' \in [Caller -> Keys \cup {Nothing}]
    BY <1>1 DEF CacheInv
  <1> QED
    BY <1>8, <1>9 DEF CacheInv

\* Where nothing is resident nothing needs to be accounted for.
LEMMA NoBytes == ResidentBytes({}) = 0
  <1>1. IsFiniteSet({})
    BY FS_EmptySet
  <1>2. PICK g : Sums(g, {}) /\ ResidentBytes({}) = g[{}]
    BY <1>1, BytesAreSums
  <1> QED
    BY <1>2, SumsFacts

LEMMA NoPatches == <<>> \in Seq(Keys) /\ Distinct(<<>>)
  BY DEF Distinct

LEMMA NextCacheInv == CacheInv /\ [NextCache]_cacheVars => CacheInv'
  <1> SUFFICES ASSUME CacheInv, [NextCache]_cacheVars PROVE CacheInv'
    OBVIOUS
  <1>1. ASSUME UNCHANGED <<recency, decoded>>, visible' \subseteq Resident,
               rendering' \in [Caller -> Keys \cup {Nothing}]
        PROVE  CacheInv'
    BY <1>1 DEF CacheInv, Resident
  <1>2. ASSUME NEW c \in Caller, RenderFails(c) PROVE CacheInv'
    BY <1>1, <1>2 DEF RenderFails, CacheInv
  <1>3. ASSUME NEW key \in Resident, NEW shown \in BOOLEAN, SetVisible(key, shown) PROVE CacheInv'
    BY <1>1, <1>3 DEF SetVisible, CacheInv
  <1>4. ASSUME Clear \/ Cancel PROVE CacheInv'
    <2>1. /\ recency' = <<>> /\ visible' = {} /\ decoded' = 0
          /\ rendering' \in [Caller -> Keys \cup {Nothing}]
      BY <1>4 DEF Clear, Cancel, CacheInv
    <2>2. Resident' = {}
      BY <2>1 DEF Resident
    <2> QED
      BY <2>1, <2>2, NoBytes, NoPatches DEF CacheInv
  <1>5. CASE UNCHANGED cacheVars
    BY <1>1, <1>5 DEF cacheVars, CacheInv
  <1> QED
    BY <1>2, <1>3, <1>4, <1>5, LookupStep, InsertStep DEF NextCache

\* Whoever renders the same patch at once, and whatever is cleared, shown or
\* cancelled under a render: what is resident is within the account, so an
\* eviction never takes more from it than is there, and what is shown is
\* resident (get_or_render, clear, cancel).
THEOREM TheAccountCoversThePatches == SpecCache => []PatchMemoryIsBounded
  <1>1. InitCache => CacheInv
    <2> SUFFICES ASSUME InitCache PROVE CacheInv
      OBVIOUS
    <2>1. Resident = {}
      BY DEF InitCache, Resident
    <2>2. rendering \in [Caller -> Keys \cup {Nothing}]
      BY DEF InitCache
    <2> QED
      BY <2>1, <2>2, NoBytes, NoPatches DEF InitCache, CacheInv
  <1>2. CacheInv => PatchMemoryIsBounded
    BY DEF CacheInv, PatchMemoryIsBounded
  <1> QED
    BY <1>1, <1>2, NextCacheInv, PTL DEF SpecCache

-----------------------------------------------------------------------------
(* Conversations.  What is said in rows is a sequence; a row behind all    *)
(* the others is one turn more at its end.                                 *)

\* A sequence of n items.
IsOf(s, n) == s = [i \in 1 .. n |-> s[i]]

\* t goes on where s ends.
Starts(s, t) == DOMAIN s \subseteq DOMAIN t /\ \A i \in DOMAIN s : s[i] = t[i]

Earlier(row, rows) == {other \in rows : other.sequence < row.sequence}

Sequenced(rows) == IsFiniteSet(rows) /\ \A row \in rows : row.sequence \in Nat

LEMMA StartsIsPrefix ==
  ASSUME NEW m \in Nat, NEW n \in Nat, NEW s, NEW t, IsOf(s, m), IsOf(t, n), Starts(s, t)
  PROVE  IsPrefix(s, t)
  <1> DEFINE R == {s[i] : i \in 1 .. m}
             S == {t[i] : i \in 1 .. n}
  <1>1. DOMAIN s = 1 .. m /\ DOMAIN t = 1 .. n
    BY DEF IsOf
  <1>2. s \in Seq(R) /\ t \in Seq(S)
    <2>1. s \in [1 .. m -> R] /\ t \in [1 .. n -> S]
      BY DEF IsOf
    <2> HIDE DEF R, S
    <2> QED
      BY <2>1, SeqDef
  <1> HIDE DEF R, S
  <1>3. Len(s) = m /\ Len(t) = n
    BY <1>1, <1>2
  <1>4. m <= n
    <2>1. CASE m = 0
      BY <2>1
    <2>2. CASE m # 0
      <3>1. m \in 1 .. n
        BY <1>1, <2>2 DEF Starts
      <3> QED
        BY <3>1
    <2> QED
      BY <2>1, <2>2
  <1>5. \A i \in 1 .. m : s[i] = t[i] /\ s[i] \in R /\ t[i] \in R
    BY <1>1, <1>2, <1>3 DEF Starts
  <1> DEFINE a == SubSeq(s, 1, m)
             b == SubSeq(t, 1, m)
  <1>6. /\ a \in Seq(R) /\ b \in Seq(R) /\ Len(a) = m /\ Len(b) = m
        /\ \A i \in 1 .. m : a[i] = s[i] /\ b[i] = t[i]
    <2>1. /\ a \in Seq(R) /\ Len(a) = (IF 1 <= m THEN m - 1 + 1 ELSE 0)
          /\ \A i \in 1 .. m - 1 + 1 : a[i] = s[1 + i - 1]
      BY <1>5, SubSeqProperties
    <2>2. /\ b \in Seq(R) /\ Len(b) = (IF 1 <= m THEN m - 1 + 1 ELSE 0)
          /\ \A i \in 1 .. m - 1 + 1 : b[i] = t[1 + i - 1]
      BY <1>5, SubSeqProperties
    <2> HIDE DEF a, b
    <2> QED
      BY <2>1, <2>2
  <1> HIDE DEF a, b
  <1>7. a = b
    BY <1>5, <1>6, SeqEqual
  <1> QED
    BY <1>3, <1>4, <1>7 DEF IsPrefix, a, b

\* The row behind all others is the last, and the others stay in their places.
LEMMA OrderedMore ==
  ASSUME NEW rows, Sequenced(rows), NEW last, last.sequence \in Nat,
         \A row \in rows : row.sequence < last.sequence
  PROVE  /\ Sequenced(rows \cup {last})
         /\ Cardinality(rows) \in Nat /\ Cardinality(rows \cup {last}) = Cardinality(rows) + 1
         /\ \A i \in 1 .. Cardinality(rows) : Ordered(rows \cup {last})[i] = Ordered(rows)[i]
         /\ Ordered(rows \cup {last})[Cardinality(rows) + 1] = last
  <1> DEFINE n == Cardinality(rows)
             all == rows \cup {last}
  <1>1. IsFiniteSet(rows) /\ last \notin rows /\ n \in Nat
    BY FS_CardinalityType DEF Sequenced
  <1>2. IsFiniteSet(all) /\ Cardinality(all) = n + 1
    BY <1>1, FS_AddElement
  <1>3. \A row \in rows : Earlier(row, all) = Earlier(row, rows)
    BY DEF Earlier, Sequenced
  <1>4. Earlier(last, all) = rows
    BY DEF Earlier, Sequenced
  <1>5. \A row \in rows : Cardinality(Earlier(row, rows)) \in Nat /\ Cardinality(Earlier(row, rows)) < n
    <2> SUFFICES ASSUME NEW row \in rows
                 PROVE  Cardinality(Earlier(row, rows)) \in Nat /\ Cardinality(Earlier(row, rows)) < n
      OBVIOUS
    <2> DEFINE rest == rows \ {row}
               early == Earlier(row, rows)
    <2>1. early \subseteq rest
      BY DEF Earlier, Sequenced
    <2>2. IsFiniteSet(rest) /\ Cardinality(rest) = n - 1
      BY <1>1, FS_RemoveElement
    <2> HIDE DEF rest, early, n
    <2>3. IsFiniteSet(early) /\ Cardinality(early) <= Cardinality(rest)
      BY <2>1, <2>2, FS_Subset
    <2>4. Cardinality(early) \in Nat
      BY <2>3, FS_CardinalityType
    <2> QED
      BY <1>1, <2>2, <2>3, <2>4 DEF early
  <1>6. \A i \in 1 .. n + 1 :
          Ordered(all)[i] = CHOOSE row \in all : Cardinality(Earlier(row, all)) = i - 1
    BY <1>2 DEF Ordered, Earlier
  <1>7. \A i \in 1 .. n :
          Ordered(rows)[i] = CHOOSE row \in rows : Cardinality(Earlier(row, rows)) = i - 1
    BY DEF Ordered, Earlier
  <1>8. ASSUME NEW i \in 1 .. n PROVE Ordered(all)[i] = Ordered(rows)[i]
    <2>1. i \in 1 .. n + 1 /\ i - 1 # n
      BY <1>1
    <2>2. Ordered(all)[i] = CHOOSE row : row \in all /\ Cardinality(Earlier(row, all)) = i - 1
      BY <1>6, <2>1, Zenon
    <2>3. Ordered(rows)[i] = CHOOSE row : row \in rows /\ Cardinality(Earlier(row, rows)) = i - 1
      BY <1>7, Zenon
    <2>4. \A row : (row \in all /\ Cardinality(Earlier(row, all)) = i - 1)
                     <=> (row \in rows /\ Cardinality(Earlier(row, rows)) = i - 1)
      BY <1>3, <1>4, <2>1 DEF n
    <2>5. (CHOOSE row : row \in all /\ Cardinality(Earlier(row, all)) = i - 1)
            = (CHOOSE row : row \in rows /\ Cardinality(Earlier(row, rows)) = i - 1)
      BY <2>4
    <2> QED
      BY <2>2, <2>3, <2>5
  <1>9. Ordered(all)[n + 1] = last
    <2>1. Ordered(all)[n + 1] = CHOOSE row \in all : Cardinality(Earlier(row, all)) = n
      <3>1. n + 1 \in 1 .. n + 1 /\ (n + 1) - 1 = n
        BY <1>1
      <3> QED
        BY <1>6, <3>1
    <2>2. Cardinality(Earlier(last, all)) = n
      BY <1>4
    <2>3. ASSUME NEW row \in rows PROVE Cardinality(Earlier(row, all)) # n
      <3> HIDE DEF n, all
      <3>1. Earlier(row, all) = Earlier(row, rows)
        BY <1>3
      <3>2. Cardinality(Earlier(row, rows)) \in Nat /\ Cardinality(Earlier(row, rows)) < n
        BY <1>5
      <3> QED
        BY <1>1, <3>1, <3>2
    <2>4. last \in all /\ \A row \in all : row \in rows \/ row = last
      OBVIOUS
    <2> HIDE DEF n, all
    <2>5. \A row \in all : Cardinality(Earlier(row, all)) = n => row = last
      BY <2>3, <2>4
    <2> QED
      BY <2>1, <2>2, <2>4, <2>5
  <1>10. Sequenced(all)
    BY <1>2 DEF Sequenced
  <1> QED
    BY <1>1, <1>2, <1>8, <1>9, <1>10

LEMMA SaidFacts ==
  ASSUME NEW rows
  PROVE  /\ IsOf(Said(rows), Cardinality(rows))
         /\ \A i \in 1 .. Cardinality(rows) :
              Said(rows)[i] = <<Ordered(rows)[i].role, Ordered(rows)[i].content>>
  <1>1. DOMAIN Ordered(rows) = 1 .. Cardinality(rows)
    BY DEF Ordered
  <1> QED
    BY <1>1 DEF Said, IsOf

\* s is followed by one item, said.
GoesOn(s, n, t, said) ==
  /\ n \in Nat /\ IsOf(s, n) /\ IsOf(t, n + 1)
  /\ Starts(s, t) /\ t[n + 1] = said

LEMMA SaidMore ==
  ASSUME NEW rows, Sequenced(rows), NEW last, last.sequence \in Nat,
         \A row \in rows : row.sequence < last.sequence
  PROVE  /\ Sequenced(rows \cup {last}) /\ Cardinality(rows \cup {last}) = Cardinality(rows) + 1
         /\ GoesOn(Said(rows), Cardinality(rows), Said(rows \cup {last}), <<last.role, last.content>>)
  <1> DEFINE n == Cardinality(rows)
             all == rows \cup {last}
  <1>1. /\ Sequenced(all) /\ n \in Nat /\ Cardinality(all) = n + 1
        /\ \A i \in 1 .. n : Ordered(all)[i] = Ordered(rows)[i]
        /\ Ordered(all)[n + 1] = last
    BY OrderedMore
  <1>2. /\ IsOf(Said(rows), n)
        /\ \A i \in 1 .. n : Said(rows)[i] = <<Ordered(rows)[i].role, Ordered(rows)[i].content>>
    BY SaidFacts
  <1>3. /\ IsOf(Said(all), Cardinality(all))
        /\ \A i \in 1 .. Cardinality(all) : Said(all)[i] = <<Ordered(all)[i].role, Ordered(all)[i].content>>
    BY SaidFacts
  <1> HIDE DEF n, all
  <1>4. 1 .. n \subseteq 1 .. n + 1 /\ n + 1 \in 1 .. n + 1
    BY <1>1
  <1>5. Starts(Said(rows), Said(all))
    <2>1. DOMAIN Said(rows) = 1 .. n /\ DOMAIN Said(all) = 1 .. n + 1
      BY <1>1, <1>2, <1>3 DEF IsOf
    <2> QED
      BY <1>1, <1>2, <1>3, <1>4, <2>1 DEF Starts
  <1>6. Said(all)[n + 1] = <<last.role, last.content>>
    BY <1>1, <1>3, <1>4
  <1>7. GoesOn(Said(rows), n, Said(all), <<last.role, last.content>>)
    BY <1>1, <1>2, <1>3, <1>5, <1>6 DEF GoesOn
  <1> QED
    BY <1>1, <1>7 DEF n, all

\* The last sequence that is used, which is 0 where none is.
LEMMA LastSequence ==
  ASSUME NEW rows, Sequenced(rows)
  PROVE  /\ Max({row.sequence : row \in rows} \cup {0}) \in Nat
         /\ \A row \in rows : row.sequence <= Max({row2.sequence : row2 \in rows} \cup {0})
  <1> DEFINE Bounded(some) == \E m \in Nat : /\ m \in {row.sequence : row \in some} \cup {0}
                                            /\ \A row \in some : row.sequence <= m
             S == {n \in Nat : \A some : Sequenced(some) /\ Cardinality(some) = n => Bounded(some)}
  <1>1. 0 \in S
    <2> SUFFICES ASSUME NEW some, Sequenced(some), Cardinality(some) = 0 PROVE Bounded(some)
      OBVIOUS
    <2>1. some = {}
      BY FS_EmptySet DEF Sequenced
    <2>2. 0 \in {row.sequence : row \in some} \cup {0} /\ \A row \in some : row.sequence <= 0
      BY <2>1
    <2> QED
      BY <2>2
  <1>2. ASSUME NEW n \in Nat, n \in S PROVE n + 1 \in S
    <2> SUFFICES ASSUME NEW some, Sequenced(some), Cardinality(some) = n + 1 PROVE Bounded(some)
      OBVIOUS
    <2>1. some # {}
      BY FS_EmptySet
    <2>2. PICK x \in some : TRUE
      BY <2>1
    <2> DEFINE rest == some \ {x}
    <2>3. IsFiniteSet(rest) /\ Cardinality(rest) = n
      <3>1. IsFiniteSet(some)
        BY DEF Sequenced
      <3>2. IsFiniteSet(some \ {x}) /\ Cardinality(some \ {x}) = Cardinality(some) - 1
        BY <3>1, FS_RemoveElement
      <3> QED
        BY <3>2
    <2>4. Sequenced(rest) /\ x.sequence \in Nat
      BY <2>3 DEF Sequenced
    <2> HIDE DEF rest
    <2>5. Bounded(rest)
      BY <1>2, <2>3, <2>4
    <2>6. PICK m \in Nat : /\ m \in {row.sequence : row \in rest} \cup {0}
                           /\ \A row \in rest : row.sequence <= m
      BY <2>5
    <2>7. CASE x.sequence <= m
      <3>1. \A row \in some : row.sequence <= m
        BY <2>6, <2>7 DEF rest
      <3>2. m \in {row.sequence : row \in some} \cup {0}
        BY <2>6 DEF rest
      <3> QED
        BY <3>1, <3>2
    <2>8. CASE m < x.sequence
      <3>1. \A row \in some : row.sequence <= x.sequence
        BY <2>4, <2>6, <2>8 DEF rest, Sequenced
      <3> QED
        BY <2>4, <3>1
    <2> QED
      BY <2>4, <2>7, <2>8
  <1>3. Nat \subseteq S
    <2> HIDE DEF S
    <2> QED
      BY <1>1, <1>2, SetInduction
  <1>4. Cardinality(rows) \in Nat
    BY FS_CardinalityType DEF Sequenced
  <1>5. Bounded(rows)
    BY <1>3, <1>4
  <1> DEFINE used == {row.sequence : row \in rows} \cup {0}
  <1>6. PICK m \in Nat : m \in used /\ \A k \in used : m >= k
    <2>1. PICK m \in Nat : m \in used /\ \A row \in rows : row.sequence <= m
      BY <1>5
    <2>2. \A k \in used : m >= k
      BY <2>1
    <2> QED
      BY <2>1, <2>2
  <1>7. used \subseteq Nat /\ \A row \in rows : row.sequence \in used
    BY DEF Sequenced
  <1> HIDE DEF used
  <1>8. Max(used) \in used /\ \A k \in used : Max(used) >= k
    BY <1>6 DEF Max
  <1>9. Max(used) \in Nat /\ \A row \in rows : row.sequence <= Max(used)
    BY <1>7, <1>8
  <1> QED
    BY <1>9 DEF used

\* What the runs have said in a role.
Spoken(s, role) == {i \in DOMAIN s : s[i][1] = role /\ s[i][2][1] = "run"}

\* As many answers as requests.
Turns(s) == Cardinality(Spoken(s, "user")) = Cardinality(Spoken(s, "assistant"))

LEMMA StartsFurther ==
  ASSUME NEW s, NEW t, NEW u, Starts(s, t), Starts(t, u)
  PROVE  Starts(s, u)
  BY DEF Starts

\* A request and its answer are a turn more.
LEMMA TurnMore ==
  ASSUME NEW s, NEW t, NEW u, NEW n, NEW x, NEW y, x[1] = "run", y[1] = "run",
         GoesOn(s, n, t, <<"user", x>>), GoesOn(t, n + 1, u, <<"assistant", y>>)
  PROVE  Starts(s, u) /\ (Turns(s) => Turns(u))
  <1>1. Starts(s, u)
    BY StartsFurther DEF GoesOn
  <1>2. /\ n \in Nat /\ DOMAIN s = 1 .. n /\ DOMAIN t = 1 .. n + 1 /\ DOMAIN u = 1 .. n + 2
        /\ \A i \in 1 .. n : s[i] = u[i]
        /\ u[n + 1] = <<"user", x>> /\ u[n + 2] = <<"assistant", y>>
    <2>1. /\ n \in Nat /\ IsOf(s, n) /\ IsOf(t, n + 1) /\ IsOf(u, (n + 1) + 1)
          /\ Starts(s, t) /\ Starts(t, u)
          /\ t[n + 1] = <<"user", x>> /\ u[(n + 1) + 1] = <<"assistant", y>>
      BY DEF GoesOn
    <2>2. (n + 1) + 1 = n + 2 /\ n + 1 \in 1 .. n + 1
      BY <2>1
    <2>3. DOMAIN s = 1 .. n /\ DOMAIN t = 1 .. n + 1 /\ DOMAIN u = 1 .. n + 2
      BY <2>1, <2>2 DEF IsOf
    <2>4. u[n + 1] = t[n + 1]
      BY <2>1, <2>2, <2>3 DEF Starts
    <2> QED
      BY <1>1, <2>1, <2>2, <2>3, <2>4 DEF Starts
  <1>3. /\ 1 .. n + 2 = (1 .. n) \cup {n + 1, n + 2}
        /\ n + 1 \notin 1 .. n /\ n + 2 \notin 1 .. n
    BY <1>2
  <1>4. ASSUME NEW role PROVE IsFiniteSet(Spoken(s, role)) /\ Spoken(s, role) \subseteq 1 .. n
    <2>1. IsFiniteSet(1 .. n)
      BY <1>2, FS_Interval
    <2>2. Spoken(s, role) \subseteq 1 .. n
      BY <1>2 DEF Spoken
    <2> QED
      BY <2>1, <2>2, FS_Subset
  <1>5. Spoken(u, "user") = Spoken(s, "user") \cup {n + 1}
    <2>1. \A i \in 1 .. n : i \in Spoken(u, "user") <=> i \in Spoken(s, "user")
      BY <1>2, <1>3 DEF Spoken
    <2>2. n + 1 \in Spoken(u, "user") /\ n + 2 \notin Spoken(u, "user")
      BY <1>2, <1>3 DEF Spoken
    <2>3. Spoken(u, "user") \subseteq (1 .. n) \cup {n + 1, n + 2}
      BY <1>2, <1>3 DEF Spoken
    <2> QED
      BY <1>4, <2>1, <2>2, <2>3
  <1>6. Spoken(u, "assistant") = Spoken(s, "assistant") \cup {n + 2}
    <2>1. \A i \in 1 .. n : i \in Spoken(u, "assistant") <=> i \in Spoken(s, "assistant")
      BY <1>2, <1>3 DEF Spoken
    <2>2. n + 2 \in Spoken(u, "assistant") /\ n + 1 \notin Spoken(u, "assistant")
      BY <1>2, <1>3 DEF Spoken
    <2>3. Spoken(u, "assistant") \subseteq (1 .. n) \cup {n + 1, n + 2}
      BY <1>2, <1>3 DEF Spoken
    <2> QED
      BY <1>4, <2>1, <2>2, <2>3
  <1>7. Cardinality(Spoken(u, "user")) = Cardinality(Spoken(s, "user")) + 1
    <2>1. n + 1 \notin Spoken(s, "user") /\ IsFiniteSet(Spoken(s, "user"))
      BY <1>3, <1>4
    <2> QED
      BY <1>5, <2>1, FS_AddElement
  <1>8. Cardinality(Spoken(u, "assistant")) = Cardinality(Spoken(s, "assistant")) + 1
    <2>1. n + 2 \notin Spoken(s, "assistant") /\ IsFiniteSet(Spoken(s, "assistant"))
      BY <1>3, <1>4
    <2> QED
      BY <1>6, <2>1, FS_AddElement
  <1> QED
    BY <1>1, <1>7, <1>8 DEF Turns

\* An exchange comes behind the rows it is not among, whichever are given.
LEMMA ExchangeSaid ==
  ASSUME NEW rows, Sequenced(rows), NEW start \in Nat, \A row \in rows : row.sequence <= start,
         NEW c, NEW run,
         NEW all, all = rows \cup {NewRow(c, start + 1, "user", run), NewRow(c, start + 2, "assistant", run)}
  PROVE  /\ Sequenced(all) /\ Cardinality(rows) \in Nat /\ Cardinality(all) = Cardinality(rows) + 2
         /\ Starts(Said(rows), Said(all)) /\ (Turns(Said(rows)) => Turns(Said(all)))
  <1> DEFINE n == Cardinality(rows)
             asked == NewRow(c, start + 1, "user", run)
             answer == NewRow(c, start + 2, "assistant", run)
             more == rows \cup {asked}
  <1>1. /\ asked.sequence = start + 1 /\ asked.role = "user" /\ asked.content = <<"run", run>>
        /\ answer.sequence = start + 2 /\ answer.role = "assistant" /\ answer.content = <<"run", run>>
    BY DEF NewRow
  <1>2. all = more \cup {answer}
    BY DEF more, asked, answer
  <1> HIDE DEF asked, answer
  <1>3. asked.sequence \in Nat /\ \A row \in rows : row.sequence < asked.sequence
    BY <1>1 DEF Sequenced
  <1>4. /\ Sequenced(more) /\ Cardinality(more) = n + 1
        /\ GoesOn(Said(rows), n, Said(more), <<asked.role, asked.content>>)
    BY <1>3, SaidMore
  <1>5. answer.sequence \in Nat /\ \A row \in more : row.sequence < answer.sequence
    BY <1>1, <1>3 DEF Sequenced
  <1> HIDE DEF more
  <1>6. /\ Sequenced(all) /\ Cardinality(all) = Cardinality(more) + 1
        /\ GoesOn(Said(more), Cardinality(more), Said(all), <<answer.role, answer.content>>)
    BY <1>2, <1>4, <1>5, SaidMore
  <1> HIDE DEF n
  <1>7. n \in Nat
    BY <1>4 DEF GoesOn
  <1> DEFINE x == <<"run", run>>
  <1>8. x[1] = "run"
    OBVIOUS
  <1>9. GoesOn(Said(rows), n, Said(more), <<"user", x>>) /\ GoesOn(Said(more), n + 1, Said(all), <<"assistant", x>>)
    BY <1>1, <1>4, <1>6
  <1> HIDE DEF x
  <1>10. Starts(Said(rows), Said(all)) /\ (Turns(Said(rows)) => Turns(Said(all)))
    BY <1>8, <1>9, TurnMore
  <1>11. Cardinality(all) = n + 2
    BY <1>4, <1>6, <1>7
  <1> QED
    BY <1>6, <1>7, <1>10, <1>11 DEF n

-----------------------------------------------------------------------------
\* The row of the i-th message of an import, and the texts.
ImportedRow(import, i) ==
  [conversation |-> import.conversation, sequence |-> import.messages[i].sequence,
   external |-> import.messages[i].external, role |-> import.messages[i].role,
   content |-> import.messages[i].content, compacted |-> import.messages[i].compacted]

\* The first k rows, and those of them that are given.
FirstRows(import, k) == {ImportedRow(import, i) : i \in 1 .. k}

Uncompacted(rows) == {row \in rows : ~row.compacted}

Texts(import) == [i \in DOMAIN import.messages |-> <<import.messages[i].role, import.messages[i].content>>]

\* No run has a part in it.
Older(s) == \A i \in DOMAIN s : s[i][2][1] # "run"

LEMMA OlderTurns ==
  ASSUME NEW s, Older(s)
  PROVE  Turns(s)
  <1>1. Spoken(s, "user") = {} /\ Spoken(s, "assistant") = {}
    BY DEF Spoken, Older
  <1> QED
    BY <1>1 DEF Turns

\* One item more, that no run has said.
LEMMA OlderMore ==
  ASSUME NEW s, NEW n, NEW t, NEW said, GoesOn(s, n, t, said), Older(s), said[2][1] # "run"
  PROVE  Older(t)
  <1>1. n \in Nat /\ DOMAIN s = 1 .. n /\ DOMAIN t = 1 .. n + 1 /\ t[n + 1] = said
        /\ \A i \in 1 .. n : t[i] = s[i]
    BY DEF GoesOn, IsOf, Starts
  <1>2. \A i \in 1 .. n + 1 : i \in 1 .. n \/ i = n + 1
    BY <1>1
  <1> QED
    BY <1>1, <1>2 DEF Older

\* What is imported is read in its order.
LEMMA ImportIsRead ==
  ASSUME ImportAssumption, NEW import \in Imports, ValidImport(import)
  PROVE  /\ Sequenced(ImportedRows(import))
         /\ Cardinality(ImportedRows(import)) = Len(import.messages)
         /\ Starts(Texts(import), Said(ImportedRows(import)))
         /\ Turns(Said(Uncompacted(ImportedRows(import))))
  <1> DEFINE told == Len(import.messages)
             R(k) == FirstRows(import, k)
             Read(k) == /\ Sequenced(R(k)) /\ Cardinality(R(k)) = k
                        /\ \A i \in 1 .. k : Said(R(k))[i] = Texts(import)[i]
                        /\ Sequenced(Uncompacted(R(k))) /\ Older(Said(Uncompacted(R(k))))
  <1>1. told \in Nat /\ DOMAIN import.messages = 1 .. told
    BY DEF ImportAssumption
  <1>2. \A i \in 1 .. told : /\ ImportedRow(import, i).sequence = i
                             /\ ImportedRow(import, i).role = import.messages[i].role
                             /\ ImportedRow(import, i).content = import.messages[i].content
                             /\ import.messages[i].content[1] # "run"
    BY <1>1 DEF ImportedRow, ValidImport, ImportAssumption
  <1>3. Read(0)
    <2>1. R(0) = {}
      BY DEF FirstRows
    <2>2. Uncompacted({}) = {} /\ Sequenced({}) /\ Cardinality({}) = 0
      BY FS_EmptySet DEF Uncompacted, Sequenced
    <2>3. IsOf(Said({}), 0)
      BY <2>2, SaidFacts
    <2>4. Older(Said({}))
      <3>1. DOMAIN Said({}) = {}
        BY <2>3 DEF IsOf
      <3> QED
        BY <3>1 DEF Older
    <2> HIDE DEF R
    <2>5. \A i \in 1 .. 0 : Said(R(0))[i] = Texts(import)[i]
      OBVIOUS
    <2>6. /\ Sequenced(R(0)) /\ Cardinality(R(0)) = 0
          /\ Sequenced(Uncompacted(R(0))) /\ Older(Said(Uncompacted(R(0))))
      BY <2>1, <2>2, <2>4
    <2> QED
      BY <2>5, <2>6
  <1>4. ASSUME NEW k \in Nat, k + 1 <= told, Read(k) PROVE Read(k + 1)
    <2> DEFINE next == ImportedRow(import, k + 1)
    <2>1. /\ k + 1 \in 1 .. told /\ k \in 0 .. told
          /\ 1 .. k + 1 = (1 .. k) \cup {k + 1} /\ 1 .. k \subseteq 1 .. told
      BY <1>1, <1>4
    <2>2. R(k + 1) = R(k) \cup {next}
      BY <2>1 DEF FirstRows
    <2>3. next.sequence = k + 1 /\ <<next.role, next.content>> = Texts(import)[k + 1]
          /\ next.content[1] # "run"
      BY <1>1, <1>2, <2>1 DEF Texts
    <2>4. \A row \in R(k) : row.sequence \in 1 .. k
      BY <1>2, <2>1 DEF FirstRows
    <2>5. /\ Sequenced(R(k)) /\ Cardinality(R(k)) = k
          /\ \A i \in 1 .. k : Said(R(k))[i] = Texts(import)[i]
          /\ Sequenced(Uncompacted(R(k))) /\ Older(Said(Uncompacted(R(k))))
      BY <1>4
    <2>6. next.sequence \in Nat /\ \A row \in R(k) : row.sequence < next.sequence
      BY <2>3, <2>4
    <2>7. Uncompacted(R(k)) \subseteq R(k)
          /\ Uncompacted(R(k + 1)) = (IF next.compacted THEN Uncompacted(R(k)) ELSE Uncompacted(R(k)) \cup {next})
      BY <2>2 DEF Uncompacted
    <2> HIDE DEF R, next
    <2>8. /\ Sequenced(R(k + 1)) /\ Cardinality(R(k + 1)) = k + 1
          /\ GoesOn(Said(R(k)), k, Said(R(k + 1)), <<next.role, next.content>>)
      BY <2>2, <2>5, <2>6, SaidMore
    <2>9. \A i \in 1 .. k + 1 : Said(R(k + 1))[i] = Texts(import)[i]
      <3>1. DOMAIN Said(R(k)) = 1 .. k /\ Said(R(k + 1))[k + 1] = Texts(import)[k + 1]
            /\ Starts(Said(R(k)), Said(R(k + 1)))
        BY <2>3, <2>8 DEF GoesOn, IsOf
      <3>2. \A i \in 1 .. k : Said(R(k + 1))[i] = Texts(import)[i]
        BY <2>5, <3>1 DEF Starts
      <3> QED
        BY <2>1, <3>1, <3>2
    <2>10. Sequenced(Uncompacted(R(k + 1))) /\ Older(Said(Uncompacted(R(k + 1))))
      <3>1. CASE next.compacted
        BY <2>5, <2>7, <3>1
      <3>2. CASE ~next.compacted
        <4> DEFINE given == Uncompacted(R(k))
        <4>1. Sequenced(given) /\ \A row \in given : row.sequence < next.sequence
          BY <2>5, <2>6, <2>7
        <4>2. Uncompacted(R(k + 1)) = given \cup {next}
          BY <2>7, <3>2
        <4>3. Older(Said(given))
          BY <2>5
        <4> HIDE DEF given
        <4>4. /\ Sequenced(given \cup {next})
              /\ GoesOn(Said(given), Cardinality(given), Said(given \cup {next}), <<next.role, next.content>>)
          BY <2>6, <4>1, SaidMore
        <4>5. <<next.role, next.content>>[2][1] # "run"
          BY <2>3
        <4>6. Older(Said(given \cup {next}))
          BY <4>3, <4>4, <4>5, OlderMore
        <4> QED
          BY <4>2, <4>4, <4>6
      <3> QED
        BY <3>1, <3>2
    <2> QED
      BY <2>8, <2>9, <2>10
  <1> DEFINE S == {k \in Nat : k <= told => Read(k)}
  <1> HIDE DEF Read
  <1>5. 0 \in S
    BY <1>3
  <1>6. ASSUME NEW k \in Nat, k \in S PROVE k + 1 \in S
    <2>1. k + 1 <= told => k <= told
      BY <1>1
    <2> QED
      BY <1>4, <1>6, <2>1
  <1>7. Nat \subseteq S
    <2> HIDE DEF S
    <2> QED
      BY <1>5, <1>6, SetInduction
  <1>8. Read(told)
    BY <1>1, <1>7
  <1>9. R(told) = ImportedRows(import)
    BY <1>1 DEF FirstRows, ImportedRow, ImportedRows
  <1> DEFINE all == ImportedRows(import)
  <1>10. /\ Sequenced(all) /\ Cardinality(all) = told
         /\ \A i \in 1 .. told : Said(all)[i] = Texts(import)[i]
         /\ Older(Said(Uncompacted(all)))
    BY <1>8, <1>9 DEF Read
  <1> HIDE DEF R, all
  <1>11. Turns(Said(Uncompacted(all)))
    BY <1>10, OlderTurns
  <1>12. DOMAIN Said(all) = 1 .. told
    BY <1>10, SaidFacts DEF IsOf
  <1>13. Starts(Texts(import), Said(all))
    BY <1>1, <1>10, <1>12 DEF Starts, Texts
  <1> QED
    BY <1>10, <1>11, <1>13 DEF all

-----------------------------------------------------------------------------
(* What is kept.  The messages that a run was given begin what its         *)
(* conversation holds, and whatever is held has whole turns only.          *)

Receipts == [import : Imports, conversation : ConversationIds, count : Nat, already_present : BOOLEAN]

RunKept(r) ==
  /\ r = [conversation |-> r.conversation, given |-> r.given, answered |-> r.answered]
  /\ r.conversation \in DOMAIN conversations
  /\ \E n \in Nat : IsOf(r.given, n)
  /\ Starts(r.given, LoadConversationMessages(r.conversation))
  /\ Turns(r.given)

ReceiptKept(r) ==
  /\ r.conversation \in ReadConversation(r.import.conversation) \cup ReadConversation(r.import.legacy)
  /\ Cardinality(Rows(r.conversation)) >= r.count
  /\ ~r.already_present =>
       /\ ReadConversation(r.import.legacy) = {r.conversation}
       /\ Starts(Texts(r.import), Transcript(r.conversation))

ConversationsInv ==
  /\ Sequenced(messages)
  /\ \A row \in messages : row.conversation \in DOMAIN conversations
  /\ DOMAIN conversations \subseteq ConversationIds
  /\ \A c \in ConversationIds : Turns(LoadConversationMessages(c))
  /\ \A run \in DOMAIN runs : RunKept(runs[run])
  /\ receipts \in Seq(Receipts)
  /\ \A i \in DOMAIN receipts : ReceiptKept(receipts[i])

\* No conversation loses what it has, and a new one takes no name in use.
Grows ==
  /\ DOMAIN conversations \subseteq DOMAIN conversations'
  /\ \A c \in DOMAIN conversations :
       /\ conversations'[c] = conversations[c]
       /\ Cardinality(Rows(c)) \in Nat /\ Cardinality(Rows(c))' \in Nat
       /\ Cardinality(Rows(c)) <= Cardinality(Rows(c))'
       /\ Starts(Transcript(c), Transcript(c)')
       /\ Starts(LoadConversationMessages(c), LoadConversationMessages(c)')
  /\ DOMAIN conversations' \subseteq ConversationIds
  /\ \A c \in DOMAIN conversations' \ DOMAIN conversations :
       \/ conversations'[c] = NoLegacy
       \/ \A d \in DOMAIN conversations : conversations[d] # conversations'[c]

LEMMA LoadedAreUncompacted ==
  ASSUME NEW c
  PROVE  LoadConversationMessages(c) = Said(Uncompacted(Rows(c)))
  BY DEF LoadConversationMessages, Uncompacted

LEMMA RowsAreSequenced ==
  ASSUME Sequenced(messages), NEW c
  PROVE  /\ Sequenced(Rows(c)) /\ Cardinality(Rows(c)) \in Nat
         /\ Sequenced(Uncompacted(Rows(c))) /\ Cardinality(Uncompacted(Rows(c))) \in Nat
  <1>1. Rows(c) \subseteq messages /\ Uncompacted(Rows(c)) \subseteq messages
    BY DEF Rows, Uncompacted
  <1>2. IsFiniteSet(Rows(c)) /\ IsFiniteSet(Uncompacted(Rows(c)))
    BY <1>1, FS_Subset DEF Sequenced
  <1>3. Cardinality(Rows(c)) \in Nat /\ Cardinality(Uncompacted(Rows(c))) \in Nat
    BY <1>2, FS_CardinalityType
  <1> QED
    BY <1>1, <1>2, <1>3 DEF Sequenced

LEMMA RunKeptFurther ==
  ASSUME NEW r, RunKept(r), Grows
  PROVE  RunKept(r)'
  <1>1. r.conversation \in DOMAIN conversations'
    BY DEF RunKept, Grows
  <1>2. Starts(r.given, LoadConversationMessages(r.conversation)')
    BY StartsFurther DEF RunKept, Grows
  <1> QED
    BY <1>1, <1>2 DEF RunKept

LEMMA ReceiptKeptFurther ==
  ASSUME ImportAssumption, DOMAIN conversations \subseteq ConversationIds,
         NEW r \in Receipts, ReceiptKept(r), Grows
  PROVE  ReceiptKept(r)'
  <1>1. /\ r.import \in Imports /\ r.count \in Nat
        /\ r.import.legacy \notin ConversationIds \cup {NoLegacy}
    BY DEF Receipts, ImportAssumption
  <1>2. r.conversation \in DOMAIN conversations
    BY DEF ReceiptKept, ReadConversation
  <1>3. r.conversation \in (ReadConversation(r.import.conversation) \cup ReadConversation(r.import.legacy))'
    BY <1>2 DEF ReceiptKept, ReadConversation, Grows
  <1>4. Cardinality(Rows(r.conversation))' >= r.count
    <2>1. /\ Cardinality(Rows(r.conversation)) \in Nat /\ Cardinality(Rows(r.conversation))' \in Nat
          /\ Cardinality(Rows(r.conversation)) <= Cardinality(Rows(r.conversation))'
          /\ Cardinality(Rows(r.conversation)) >= r.count
      BY <1>2 DEF Grows, ReceiptKept
    <2> QED
      BY <1>1, <2>1
  <1>5. ASSUME ~r.already_present
        PROVE  /\ ReadConversation(r.import.legacy)' = {r.conversation}
               /\ Starts(Texts(r.import), Transcript(r.conversation)')
    <2>1. /\ ReadConversation(r.import.legacy) = {r.conversation}
          /\ Starts(Texts(r.import), Transcript(r.conversation))
      BY <1>5 DEF ReceiptKept
    <2>2. \A c \in DOMAIN conversations : conversations[c] = r.import.legacy <=> c = r.conversation
      BY <1>1, <2>1 DEF ReadConversation
    <2>3. \A c \in DOMAIN conversations' : conversations'[c] = r.import.legacy <=> c = r.conversation
      BY <1>1, <1>2, <2>2 DEF Grows
    <2>4. ReadConversation(r.import.legacy)' = {r.conversation}
      BY <1>1, <1>2, <2>3 DEF ReadConversation, Grows
    <2> QED
      BY <1>2, <2>1, <2>4, StartsFurther DEF Grows
  <1> QED
    BY <1>3, <1>4, <1>5 DEF ReceiptKept

\* A conversation of which nothing is written.
LEMMA NothingIsWhole == Turns(Said({}))
  <1>1. IsOf(Said({}), 0)
    BY SaidFacts, FS_EmptySet
  <1>2. DOMAIN Said({}) = {}
    BY <1>1 DEF IsOf
  <1> QED
    BY <1>2, OlderTurns DEF Older

LEMMA InitConversationsInv == InitConversations => ConversationsInv
  <1> SUFFICES ASSUME InitConversations PROVE ConversationsInv
    OBVIOUS
  <1>1. messages = {} /\ DOMAIN conversations = {} /\ DOMAIN runs = {} /\ receipts = <<>>
    BY DEF InitConversations
  <1>2. Sequenced(messages)
    BY <1>1, FS_EmptySet DEF Sequenced
  <1>3. ASSUME NEW c PROVE Turns(LoadConversationMessages(c))
    <2>1. Uncompacted(Rows(c)) = {}
      BY <1>1 DEF Rows, Uncompacted
    <2> QED
      BY <2>1, NothingIsWhole, LoadedAreUncompacted
  <1>4. receipts \in Seq(Receipts) /\ DOMAIN receipts = {}
    BY <1>1
  <1> QED
    BY <1>1, <1>2, <1>3, <1>4 DEF ConversationsInv

\* Every receipt is kept, and one more.
LEMMA ReceiptsFurther ==
  ASSUME ImportAssumption, ConversationsInv, Grows, NEW r \in Receipts, ReceiptKept(r)',
         receipts' = Append(receipts, r)
  PROVE  receipts' \in Seq(Receipts) /\ (\A i \in DOMAIN receipts : ReceiptKept(receipts[i]))'
  <1>1. /\ receipts \in Seq(Receipts) /\ DOMAIN conversations \subseteq ConversationIds
        /\ \A i \in DOMAIN receipts : ReceiptKept(receipts[i])
    BY DEF ConversationsInv
  <1>2. /\ receipts' \in Seq(Receipts) /\ Len(receipts) \in Nat
        /\ DOMAIN receipts' = 1 .. Len(receipts) + 1
        /\ \A i \in 1 .. Len(receipts) : receipts'[i] = receipts[i]
        /\ receipts'[Len(receipts) + 1] = r
    BY <1>1
  <1> SUFFICES ASSUME NEW i \in DOMAIN receipts' PROVE ReceiptKept(receipts[i])'
    BY <1>2
  <1>3. CASE i = Len(receipts) + 1
    <2>1. receipts'[i] = r
      BY <1>2, <1>3
    <2> QED
      BY <2>1 DEF ReceiptKept
  <1>4. CASE i \in 1 .. Len(receipts)
    <2>1. \E old \in Receipts : old = receipts[i] /\ receipts'[i] = old /\ ReceiptKept(old)
      BY <1>1, <1>2, <1>4
    <2>2. PICK old \in Receipts : receipts'[i] = old /\ ReceiptKept(old)
      BY <2>1
    <2>3. ReceiptKept(old)'
      BY <1>1, <2>2, ReceiptKeptFurther
    <2> QED
      BY <2>2, <2>3 DEF ReceiptKept
  <1> QED
    BY <1>2, <1>3, <1>4

LEMMA ReceiptsStay ==
  ASSUME ImportAssumption, ConversationsInv, Grows, UNCHANGED receipts
  PROVE  receipts' \in Seq(Receipts) /\ (\A i \in DOMAIN receipts : ReceiptKept(receipts[i]))'
  <1>1. /\ receipts \in Seq(Receipts) /\ DOMAIN conversations \subseteq ConversationIds
        /\ \A i \in DOMAIN receipts : receipts[i] \in Receipts /\ ReceiptKept(receipts[i])
    BY DEF ConversationsInv
  <1> SUFFICES ASSUME NEW i \in DOMAIN receipts' PROVE ReceiptKept(receipts[i])'
    BY <1>1
  <1>2. PICK old \in Receipts : receipts[i] = old /\ receipts'[i] = old /\ ReceiptKept(old)
    BY <1>1
  <1>3. ReceiptKept(old)'
    BY <1>1, <1>2, ReceiptKeptFurther
  <1> QED
    BY <1>2, <1>3 DEF ReceiptKept

\* The same of a run.
LEMMA RunFurther ==
  ASSUME ConversationsInv, Grows, NEW run \in DOMAIN runs, runs'[run] = runs[run]
  PROVE  RunKept(runs[run])'
  <1>1. PICK old : runs[run] = old /\ runs'[run] = old /\ RunKept(old)
    BY DEF ConversationsInv
  <1>2. RunKept(old)'
    BY <1>1, RunKeptFurther
  <1> QED
    BY <1>1, <1>2 DEF RunKept

LEMMA CreateRunStep ==
  ASSUME ImportAssumption, ConversationsInv, NEW c \in ConversationIds, CreateRun(c)
  PROVE  ConversationsInv'
  <1> DEFINE run == Cardinality(DOMAIN runs) + 1
  <1>a. PICK made : made = [conversation |-> c, given |-> LoadConversationMessages(c), answered |-> FALSE]
    OBVIOUS
  <1>1. /\ messages' = messages /\ receipts' = receipts
        /\ DOMAIN conversations' = DOMAIN conversations \cup {c}
        /\ \A d \in DOMAIN conversations : conversations'[d] = conversations[d]
        /\ c \notin DOMAIN conversations => conversations'[c] = NoLegacy
        /\ DOMAIN runs' = DOMAIN runs \cup {run} /\ runs'[run] = made
        /\ \A r \in DOMAIN runs : r # run => runs'[r] = runs[r]
    BY <1>a DEF CreateRun
  <1>2. /\ Sequenced(messages) /\ DOMAIN conversations \subseteq ConversationIds
        /\ \A row \in messages : row.conversation \in DOMAIN conversations
        /\ \A d \in ConversationIds : Turns(LoadConversationMessages(d))
    BY DEF ConversationsInv
  <1>3. ASSUME NEW d
        PROVE  /\ Rows(d)' = Rows(d) /\ Transcript(d)' = Transcript(d)
               /\ LoadConversationMessages(d)' = LoadConversationMessages(d)
               /\ Cardinality(Rows(d)) \in Nat
    <2>1. Rows(d)' = Rows(d)
      BY <1>1 DEF Rows
    <2>2. Transcript(d)' = Transcript(d) /\ LoadConversationMessages(d)' = LoadConversationMessages(d)
      BY <2>1 DEF Transcript, LoadConversationMessages
    <2> QED
      BY <1>2, <2>1, <2>2, RowsAreSequenced
  <1> HIDE DEF run
  <1>4. Grows
    BY <1>1, <1>2, <1>3 DEF Grows, Starts
  <1>5. RunKept(made)'
    <2>1. PICK given : given = LoadConversationMessages(c)
      OBVIOUS
    <2>2. IsOf(given, Cardinality(Uncompacted(Rows(c)))) /\ Cardinality(Uncompacted(Rows(c))) \in Nat
      BY <1>2, <2>1, LoadedAreUncompacted, SaidFacts, RowsAreSequenced
    <2>3. Turns(given) /\ Starts(given, LoadConversationMessages(c)') /\ c \in DOMAIN conversations'
      BY <1>1, <1>2, <1>3, <2>1 DEF Starts
    <2>4. /\ made.conversation = c /\ made.given = given
          /\ made = [conversation |-> made.conversation, given |-> made.given, answered |-> made.answered]
      BY <1>a, <2>1
    <2>5. made.conversation \in DOMAIN conversations'
          /\ Starts(made.given, LoadConversationMessages(made.conversation)') /\ Turns(made.given)
      BY <2>3, <2>4
    <2>6. \E n \in Nat : IsOf(made.given, n)
      BY <2>2, <2>4
    <2> QED
      BY <2>4, <2>5, <2>6 DEF RunKept
  <1>6. (\A r \in DOMAIN runs : RunKept(runs[r]))'
    <2> SUFFICES ASSUME NEW r \in DOMAIN runs' PROVE RunKept(runs[r])'
      OBVIOUS
    <2>1. CASE r = run
      BY <1>1, <1>5, <2>1 DEF RunKept
    <2>2. CASE r # run
      BY <1>1, <1>4, <2>2, RunFurther
    <2> QED
      BY <2>1, <2>2
  <1>7. receipts' \in Seq(Receipts) /\ (\A i \in DOMAIN receipts : ReceiptKept(receipts[i]))'
    BY <1>1, <1>4, ReceiptsStay
  <1>8. Sequenced(messages)' /\ (\A row \in messages : row.conversation \in DOMAIN conversations)'
        /\ DOMAIN conversations' \subseteq ConversationIds
    BY <1>1, <1>2 DEF Sequenced
  <1>9. (\A d \in ConversationIds : Turns(LoadConversationMessages(d)))'
    BY <1>2, <1>3 DEF Turns, Spoken
  <1> QED
    BY <1>6, <1>7, <1>8, <1>9 DEF ConversationsInv

LEMMA RepeatedImportStep ==
  ASSUME ImportAssumption, ConversationsInv, NEW import \in Imports, NEW c \in Known(import),
         receipts' = Append(receipts, Receipt(import, c, Cardinality(Rows(c)), TRUE)),
         UNCHANGED <<conversations, messages, runs>>
  PROVE  ConversationsInv'
  <1>1. /\ Sequenced(messages) /\ DOMAIN conversations \subseteq ConversationIds
        /\ \A row \in messages : row.conversation \in DOMAIN conversations
        /\ \A d \in ConversationIds : Turns(LoadConversationMessages(d))
    BY DEF ConversationsInv
  <1>2. ASSUME NEW d
        PROVE  /\ Rows(d)' = Rows(d) /\ Transcript(d)' = Transcript(d)
               /\ LoadConversationMessages(d)' = LoadConversationMessages(d)
               /\ Cardinality(Rows(d)) \in Nat
    BY <1>1, RowsAreSequenced DEF Rows, Transcript, LoadConversationMessages
  <1>3. Grows
    BY <1>1, <1>2 DEF Grows, Starts
  <1>4. PICK count \in Nat : count = Cardinality(Rows(c))
    BY <1>2
  <1>5. PICK r : r = Receipt(import, c, count, TRUE)
    OBVIOUS
  <1>6. c \in DOMAIN conversations /\ c \in ConversationIds
        /\ (c = import.conversation \/ conversations[c] = import.legacy)
    BY <1>1 DEF Known
  <1>7. /\ r \in Receipts /\ r.import = import /\ r.conversation = c /\ r.count = count
        /\ r.already_present
    BY <1>5, <1>6 DEF Receipt, Receipts
  <1>8. ReceiptKept(r)'
    <2>1. c \in ReadConversation(import.conversation)' \cup ReadConversation(import.legacy)'
      BY <1>6 DEF ReadConversation
    <2>2. Cardinality(Rows(c))' >= count
      BY <1>2, <1>4
    <2> QED
      BY <1>7, <2>1, <2>2 DEF ReceiptKept
  <1>9. receipts' \in Seq(Receipts) /\ (\A i \in DOMAIN receipts : ReceiptKept(receipts[i]))'
    BY <1>3, <1>4, <1>5, <1>7, <1>8, ReceiptsFurther
  <1>10. (\A run \in DOMAIN runs : RunKept(runs[run]))'
    BY <1>3, RunFurther
  <1>11. (\A d \in ConversationIds : Turns(LoadConversationMessages(d)))'
    BY <1>1, <1>2 DEF Turns, Spoken
  <1> QED
    BY <1>1, <1>9, <1>10, <1>11 DEF ConversationsInv, Sequenced

\* Nothing is written of a conversation that is not known, and what is
\* imported is all that is written of it then.
LEMMA FreshImportStep ==
  ASSUME ImportAssumption, ConversationsInv, NEW import \in Imports, ValidImport(import),
         Known(import) = {},
         conversations' = [c \in DOMAIN conversations \cup {import.conversation} |->
                             IF c = import.conversation THEN import.legacy ELSE conversations[c]],
         messages' = messages \cup ImportedRows(import),
         receipts' = Append(receipts, Receipt(import, import.conversation, Len(import.messages), FALSE)),
         UNCHANGED runs
  PROVE  ConversationsInv'
  <1> DEFINE new == ImportedRows(import)
             conv == import.conversation
             told == Len(import.messages)
  <1>1. /\ Sequenced(messages) /\ DOMAIN conversations \subseteq ConversationIds
        /\ \A row \in messages : row.conversation \in DOMAIN conversations
        /\ \A d \in ConversationIds : Turns(LoadConversationMessages(d))
    BY DEF ConversationsInv
  <1>2. /\ conv \notin DOMAIN conversations /\ conv \in ConversationIds
        /\ \A c \in DOMAIN conversations : conversations[c] # import.legacy
        /\ import.legacy \notin ConversationIds
    BY DEF Known, ConversationIds, ImportAssumption
  <1>3. /\ Sequenced(new) /\ Cardinality(new) = told /\ told \in Nat
        /\ Starts(Texts(import), Said(new)) /\ Turns(Said(Uncompacted(new)))
    <2>1. told \in Nat
      BY DEF ImportAssumption
    <2> QED
      BY <2>1, ImportIsRead
  <1>4. \A row \in new : row.conversation = conv
    BY DEF ImportedRows
  <1> HIDE DEF new, told
  <1>5. Sequenced(messages)' /\ (\A row \in messages : row.conversation \in DOMAIN conversations)'
    <2>1. IsFiniteSet(messages \cup new)
      BY <1>1, <1>3, FS_Union DEF Sequenced
    <2> QED
      BY <1>1, <1>3, <1>4, <2>1 DEF Sequenced, new
  <1>6. Rows(conv)' = new
    BY <1>1, <1>2, <1>4 DEF Rows, new
  <1>7. ASSUME NEW d, d # conv
        PROVE  /\ Rows(d)' = Rows(d) /\ Transcript(d)' = Transcript(d)
               /\ LoadConversationMessages(d)' = LoadConversationMessages(d)
               /\ Cardinality(Rows(d)) \in Nat
    <2>1. Rows(d)' = Rows(d)
      BY <1>4, <1>7 DEF Rows, new
    <2> QED
      BY <1>1, <2>1, RowsAreSequenced DEF Transcript, LoadConversationMessages
  <1>8. Transcript(conv)' = Said(new) /\ LoadConversationMessages(conv)' = Said(Uncompacted(new))
    BY <1>6 DEF Transcript, LoadConversationMessages, Uncompacted
  <1>9. /\ DOMAIN conversations' = DOMAIN conversations \cup {conv}
        /\ conversations'[conv] = import.legacy
        /\ \A c \in DOMAIN conversations : conversations'[c] = conversations[c]
    BY <1>2
  <1>10. Grows
    <2>1. \A c \in DOMAIN conversations : c # conv
      BY <1>2
    <2> QED
      BY <1>1, <1>2, <1>7, <1>9, <2>1 DEF Grows, Starts
  <1>11. PICK r : r = Receipt(import, conv, told, FALSE)
    OBVIOUS
  <1>12. /\ r \in Receipts /\ r.import = import /\ r.conversation = conv /\ r.count = told
         /\ ~r.already_present
    BY <1>2, <1>3, <1>11 DEF Receipt, Receipts
  <1>13. ReceiptKept(r)'
    <2>1. conv \in ReadConversation(conv)'
      BY <1>9 DEF ReadConversation
    <2>2. Cardinality(Rows(conv))' = told
      BY <1>3, <1>6
    <2>3. ReadConversation(import.legacy)' = {conv}
      BY <1>1, <1>2, <1>9 DEF ReadConversation
    <2>4. Starts(Texts(import), Transcript(conv)')
      BY <1>3, <1>8
    <2> HIDE DEF conv
    <2>5. /\ r.conversation \in ReadConversation(r.import.conversation)' \cup ReadConversation(r.import.legacy)'
          /\ Cardinality(Rows(r.conversation))' >= r.count
      BY <1>3, <1>12, <2>1, <2>2 DEF conv
    <2>6. /\ ReadConversation(r.import.legacy)' = {r.conversation}
          /\ Starts(Texts(r.import), Transcript(r.conversation)')
      BY <1>12, <2>3, <2>4
    <2> QED
      BY <2>5, <2>6 DEF ReceiptKept
  <1>14. receipts' \in Seq(Receipts) /\ (\A i \in DOMAIN receipts : ReceiptKept(receipts[i]))'
    <2>1. receipts' = Append(receipts, r)
      BY <1>11 DEF told
    <2> QED
      BY <1>10, <1>12, <1>13, <2>1, ReceiptsFurther
  <1>15. (\A run \in DOMAIN runs : RunKept(runs[run]))'
    BY <1>10, RunFurther
  <1>16. (\A d \in ConversationIds : Turns(LoadConversationMessages(d)))'
    <2> SUFFICES ASSUME NEW d \in ConversationIds PROVE Turns(LoadConversationMessages(d)')
      BY DEF Turns, Spoken
    <2>1. CASE d = conv
      BY <1>3, <1>8, <2>1
    <2>2. CASE d # conv
      BY <1>1, <1>7, <2>2
    <2> QED
      BY <2>1, <2>2
  <1>17. DOMAIN conversations' \subseteq ConversationIds
    BY <1>1, <1>2, <1>9
  <1> QED
    BY <1>5, <1>14, <1>15, <1>16, <1>17 DEF ConversationsInv

LEMMA ImportStep ==
  ASSUME ImportAssumption, ConversationsInv, NEW import \in Imports, ImportConversation(import)
  PROVE  ConversationsInv'
  <1>1. CASE \E c \in Known(import) :
               /\ receipts' = Append(receipts, Receipt(import, c, Cardinality(Rows(c)), TRUE))
               /\ UNCHANGED <<conversations, messages>>
    BY <1>1, RepeatedImportStep DEF ImportConversation
  <1>2. CASE Known(import) = {}
    BY <1>2, FreshImportStep DEF ImportConversation
  <1> QED
    BY <1>1, <1>2 DEF ImportConversation

LEMMA ExchangeStep ==
  ASSUME ImportAssumption, ConversationsInv, NEW run \in DOMAIN runs, AppendConversationExchange(run)
  PROVE  ConversationsInv'
  <1>a. PICK c : c = runs[run].conversation
    OBVIOUS
  <1>b. PICK start : start = Max({row.sequence : row \in Rows(c)} \cup {0})
    OBVIOUS
  <1> DEFINE asked == NewRow(c, start + 1, "user", run)
             answer == NewRow(c, start + 2, "assistant", run)
  <1>1. /\ Sequenced(messages) /\ DOMAIN conversations \subseteq ConversationIds
        /\ \A row \in messages : row.conversation \in DOMAIN conversations
        /\ \A d \in ConversationIds : Turns(LoadConversationMessages(d))
        /\ \A r \in DOMAIN runs : RunKept(runs[r])
    BY DEF ConversationsInv
  <1>2. /\ messages' = messages \cup {asked, answer}
        /\ conversations' = conversations /\ receipts' = receipts
        /\ runs' = [runs EXCEPT ![run].answered = TRUE]
    BY <1>a, <1>b DEF AppendConversationExchange, ExchangeRows
  <1>3. c \in DOMAIN conversations /\ c \in ConversationIds
    BY <1>a, <1>1 DEF RunKept
  <1>4. /\ Sequenced(Rows(c)) /\ Cardinality(Rows(c)) \in Nat
        /\ Sequenced(Uncompacted(Rows(c))) /\ Cardinality(Uncompacted(Rows(c))) \in Nat
    BY <1>1, RowsAreSequenced
  <1>5. start \in Nat /\ \A row \in Rows(c) : row.sequence <= start
    BY <1>b, <1>4, LastSequence
  <1>6. /\ asked.conversation = c /\ answer.conversation = c
        /\ ~asked.compacted /\ ~answer.compacted
        /\ asked.sequence = start + 1 /\ answer.sequence = start + 2
    BY DEF NewRow
  <1>7. /\ Sequenced(Rows(c) \cup {asked, answer})
        /\ Cardinality(Rows(c) \cup {asked, answer}) = Cardinality(Rows(c)) + 2
        /\ Starts(Said(Rows(c)), Said(Rows(c) \cup {asked, answer}))
    BY <1>4, <1>5, ExchangeSaid
  <1>8. /\ Starts(Said(Uncompacted(Rows(c))), Said(Uncompacted(Rows(c)) \cup {asked, answer}))
        /\ Turns(Said(Uncompacted(Rows(c)))) => Turns(Said(Uncompacted(Rows(c)) \cup {asked, answer}))
    <2>1. \A row \in Uncompacted(Rows(c)) : row.sequence <= start
      BY <1>5 DEF Uncompacted
    <2> DEFINE given == Uncompacted(Rows(c))
    <2>2. Sequenced(given) /\ \A row \in given : row.sequence <= start
      BY <1>4, <2>1
    <2> HIDE DEF given
    <2>3. /\ Starts(Said(given), Said(given \cup {asked, answer}))
          /\ Turns(Said(given)) => Turns(Said(given \cup {asked, answer}))
      BY <1>5, <2>2, ExchangeSaid
    <2> QED
      BY <2>3 DEF given
  <1> HIDE DEF asked, answer
  <1>9. Rows(c)' = Rows(c) \cup {asked, answer}
        /\ Uncompacted(Rows(c) \cup {asked, answer}) = Uncompacted(Rows(c)) \cup {asked, answer}
    BY <1>2, <1>6 DEF Rows, Uncompacted
  <1>10. ASSUME NEW d, d # c
         PROVE  /\ Rows(d)' = Rows(d) /\ Transcript(d)' = Transcript(d)
                /\ LoadConversationMessages(d)' = LoadConversationMessages(d)
                /\ Cardinality(Rows(d)) \in Nat
    <2>1. Rows(d)' = Rows(d)
      BY <1>2, <1>6, <1>10 DEF Rows
    <2> QED
      BY <1>1, <2>1, RowsAreSequenced DEF Transcript, LoadConversationMessages
  <1>11. /\ Cardinality(Rows(c))' \in Nat /\ Cardinality(Rows(c)) <= Cardinality(Rows(c))'
         /\ Starts(Transcript(c), Transcript(c)')
    <2>1. Transcript(c)' = Said(Rows(c)') /\ Transcript(c) = Said(Rows(c))
      BY DEF Transcript
    <2>2. Cardinality(Rows(c))' = Cardinality(Rows(c) \cup {asked, answer})
      BY <1>9
    <2> QED
      BY <1>4, <1>7, <1>9, <2>1, <2>2
  <1>12. /\ Starts(LoadConversationMessages(c), LoadConversationMessages(c)')
         /\ Turns(LoadConversationMessages(c)')
    <2>1. LoadConversationMessages(c) = Said(Uncompacted(Rows(c)))
          /\ LoadConversationMessages(c)' = Said(Uncompacted(Rows(c)'))
      BY DEF LoadConversationMessages, Uncompacted
    <2>2. Turns(Said(Uncompacted(Rows(c))))
      BY <1>1, <1>3, <2>1
    <2> QED
      BY <1>8, <1>9, <2>1, <2>2
  <1>13. Grows
    <2> SUFFICES ASSUME NEW d \in DOMAIN conversations
                 PROVE  /\ Cardinality(Rows(d)) \in Nat /\ Cardinality(Rows(d))' \in Nat
                        /\ Cardinality(Rows(d)) <= Cardinality(Rows(d))'
                        /\ Starts(Transcript(d), Transcript(d)')
                        /\ Starts(LoadConversationMessages(d), LoadConversationMessages(d)')
      BY <1>1, <1>2 DEF Grows
    <2>1. CASE d = c
      BY <1>4, <1>11, <1>12, <2>1
    <2>2. CASE d # c
      BY <1>10, <2>2 DEF Starts
    <2> QED
      BY <2>1, <2>2
  <1>14. (\A r \in DOMAIN runs : RunKept(runs[r]))'
    <2> SUFFICES ASSUME NEW r \in DOMAIN runs' PROVE RunKept(runs[r])'
      OBVIOUS
    <2>1. r \in DOMAIN runs /\ RunKept(runs[r])
      BY <1>1, <1>2
    <2>2. CASE r # run
      BY <1>2, <1>13, <2>1, <2>2, RunFurther
    <2>3. CASE r = run
      <3>1. PICK old : old = runs[run] /\ RunKept(old)
        BY <1>1
      <3>2. RunKept(old)'
        BY <1>13, <3>1, RunKeptFurther
      <3>3. PICK new : new = [conversation |-> old.conversation, given |-> old.given, answered |-> TRUE]
        OBVIOUS
      <3>4. runs'[run] = new
        BY <1>2, <3>1, <3>3 DEF RunKept
      <3>5. /\ new.conversation = old.conversation /\ new.given = old.given
            /\ new = [conversation |-> new.conversation, given |-> new.given, answered |-> new.answered]
        BY <3>3
      <3>6. RunKept(new)'
        BY <3>2, <3>5 DEF RunKept
      <3> QED
        BY <2>3, <3>4, <3>6 DEF RunKept
    <2> QED
      BY <2>2, <2>3
  <1>15. receipts' \in Seq(Receipts) /\ (\A i \in DOMAIN receipts : ReceiptKept(receipts[i]))'
    BY <1>2, <1>13, ReceiptsStay
  <1>16. (\A d \in ConversationIds : Turns(LoadConversationMessages(d)))'
    <2> SUFFICES ASSUME NEW d \in ConversationIds PROVE Turns(LoadConversationMessages(d)')
      BY DEF Turns, Spoken
    <2>1. CASE d = c
      BY <1>12, <2>1
    <2>2. CASE d # c
      BY <1>1, <1>10, <2>2
    <2> QED
      BY <2>1, <2>2
  <1>17. Sequenced(messages')
    <2>1. IsFiniteSet(messages \cup {asked})
      BY <1>1, FS_AddElement DEF Sequenced
    <2>2. IsFiniteSet((messages \cup {asked}) \cup {answer})
      BY <2>1, FS_AddElement
    <2>3. messages' = (messages \cup {asked}) \cup {answer}
      BY <1>2
    <2> QED
      BY <1>1, <1>5, <1>6, <2>2, <2>3 DEF Sequenced
  <1>18. (\A row \in messages : row.conversation \in DOMAIN conversations)'
    BY <1>1, <1>2, <1>3, <1>6
  <1> QED
    BY <1>1, <1>2, <1>14, <1>15, <1>16, <1>17, <1>18 DEF ConversationsInv, Sequenced

LEMMA NextConversationsInv ==
  ASSUME ImportAssumption, ConversationsInv, [NextConversations]_conversationVars
  PROVE  ConversationsInv'
  <1>1. CASE UNCHANGED conversationVars
    <2>1. /\ messages' = messages /\ conversations' = conversations
          /\ runs' = runs /\ receipts' = receipts
      BY <1>1 DEF conversationVars
    <2>2. /\ Sequenced(messages) /\ DOMAIN conversations \subseteq ConversationIds
          /\ \A row \in messages : row.conversation \in DOMAIN conversations
          /\ \A d \in ConversationIds : Turns(LoadConversationMessages(d))
      BY DEF ConversationsInv
    <2>3. ASSUME NEW d
          PROVE  /\ Rows(d)' = Rows(d) /\ Transcript(d)' = Transcript(d)
                 /\ LoadConversationMessages(d)' = LoadConversationMessages(d)
                 /\ Cardinality(Rows(d)) \in Nat
      BY <2>1, <2>2, RowsAreSequenced DEF Rows, Transcript, LoadConversationMessages
    <2>4. Grows
      BY <2>1, <2>2, <2>3 DEF Grows, Starts
    <2>5. receipts' \in Seq(Receipts) /\ (\A i \in DOMAIN receipts : ReceiptKept(receipts[i]))'
      BY <2>1, <2>4, ReceiptsStay
    <2>6. (\A run \in DOMAIN runs : RunKept(runs[run]))'
      BY <2>1, <2>4, RunFurther
    <2>7. (\A d \in ConversationIds : Turns(LoadConversationMessages(d)))'
      BY <2>2, <2>3 DEF Turns, Spoken
    <2> QED
      BY <2>1, <2>2, <2>5, <2>6, <2>7 DEF ConversationsInv, Sequenced
  <1>2. CASE NextConversations
    <2>1. ASSUME NEW import \in Imports, ImportConversation(import) PROVE ConversationsInv'
      BY <2>1, ImportStep
    <2>2. ASSUME NEW c \in ConversationIds, CreateRun(c) PROVE ConversationsInv'
      BY <2>2, CreateRunStep
    <2>3. ASSUME NEW run \in DOMAIN runs, AppendConversationExchange(run) PROVE ConversationsInv'
      BY <2>3, ExchangeStep
    <2> QED
      BY <1>2, <2>1, <2>2, <2>3 DEF NextConversations
  <1> QED
    BY <1>1, <1>2

LEMMA InvKeepsConversations ==
  ASSUME ImportAssumption, ConversationsInv
  PROVE  ConversationsAreKept
  <1>1. GivenWholeTurns
    <2> SUFFICES ASSUME NEW run \in DOMAIN runs
                 PROVE  /\ IsPrefix(runs[run].given, LoadConversationMessages(runs[run].conversation))
                        /\ Turns(runs[run].given)
      BY DEF GivenWholeTurns, Turns, Spoken
    <2> DEFINE r == runs[run]
    <2>1. RunKept(r)
      BY DEF ConversationsInv
    <2> HIDE DEF r
    <2>2. PICK m \in Nat : IsOf(r.given, m)
      BY <2>1 DEF RunKept
    <2>3. PICK n \in Nat : IsOf(LoadConversationMessages(r.conversation), n)
      <3>1. Cardinality(Uncompacted(Rows(r.conversation))) \in Nat
        BY RowsAreSequenced DEF ConversationsInv
      <3> QED
        BY <3>1, LoadedAreUncompacted, SaidFacts
    <2>4. IsPrefix(r.given, LoadConversationMessages(r.conversation))
      BY <2>1, <2>2, <2>3, StartsIsPrefix DEF RunKept
    <2> QED
      BY <2>1, <2>4 DEF RunKept, r
  <1>2. ReceiptsAreKept
    <2> SUFFICES ASSUME NEW i \in DOMAIN receipts
                 PROVE  /\ ReceiptKept(receipts[i])
                        /\ ~receipts[i].already_present =>
                             IsPrefix(Texts(receipts[i].import), Transcript(receipts[i].conversation))
      BY DEF ReceiptsAreKept, ReceiptKept, Texts
    <2> DEFINE r == receipts[i]
    <2>1. ReceiptKept(r) /\ r \in Receipts
      BY DEF ConversationsInv
    <2> HIDE DEF r
    <2>2. ASSUME ~r.already_present PROVE IsPrefix(Texts(r.import), Transcript(r.conversation))
      <3>1. Len(r.import.messages) \in Nat /\ IsOf(Texts(r.import), Len(r.import.messages))
        BY <2>1 DEF Receipts, ImportAssumption, IsOf, Texts
      <3>2. Cardinality(Rows(r.conversation)) \in Nat
            /\ IsOf(Transcript(r.conversation), Cardinality(Rows(r.conversation)))
        BY RowsAreSequenced, SaidFacts DEF Transcript, ConversationsInv
      <3>3. Starts(Texts(r.import), Transcript(r.conversation))
        BY <2>1, <2>2 DEF ReceiptKept
      <3> QED
        BY <3>1, <3>2, <3>3, StartsIsPrefix
    <2> QED
      BY <2>1, <2>2 DEF r
  <1> QED
    BY <1>1, <1>2 DEF ConversationsAreKept

\* Whichever imports are repeated, and however many runs answer at once in a
\* conversation: what a run was given is the start of what its conversation
\* holds and ends with a whole turn, and what a receipt of an import says is
\* in the store stays there (import_conversation, append_conversation_exchange).
THEOREM NothingSaidIsLost == SpecConversations => []ConversationsAreKept
  <1>1. InitConversations => ConversationsInv
    BY InitConversationsInv
  <1>2. ConversationsInv /\ [NextConversations]_conversationVars => ConversationsInv'
    BY ImportAssumption, NextConversationsInv
  <1>3. ConversationsInv => ConversationsAreKept
    BY ImportAssumption, InvKeepsConversations
  <1> QED
    BY <1>1, <1>2, <1>3, PTL DEF SpecConversations

-----------------------------------------------------------------------------
(* The provider's stream.  What was decoded so far is what was received so *)
(* far, call by call; a stream that was refused decodes to nothing.        *)

SentPieces == {frame.piece : frame \in Frame}

Names == {frame.id : frame \in Frame} \cup {frame.name : frame \in Frame} \cup {NoPiece}

Accumulators == [id : Names, name : Names, arguments : Seq(SentPieces)]

StreamTypes ==
  /\ received \in Seq(Frame)
  /\ decoder = [ok |-> decoder.ok, done |-> decoder.done, text |-> decoder.text, calls |-> decoder.calls]
  /\ decoder.ok \in BOOLEAN /\ decoder.done \in BOOLEAN
  /\ decoder.text \in Seq(SentPieces)
  /\ DOMAIN decoder.calls \subseteq Nat
  /\ decoder.calls \in [DOMAIN decoder.calls -> Accumulators]

\* What is known of a call by what was sent for it.
CallIsItsFrames(call, frames, positions) ==
  /\ HoldsPieces(call.arguments, frames, positions)
  /\ call.id # NoPiece => \E n \in positions : frames[n].id = call.id
  /\ \A n \in positions : /\ frames[n].id \in {NoPiece, call.id}
                          /\ frames[n].name \in {NoPiece, call.name}

DecodedIsReceived ==
  /\ HoldsPieces(decoder.text, received, TextSent)
  /\ DOMAIN decoder.calls = Announced
  /\ \A index \in Announced : CallIsItsFrames(decoder.calls[index], received, SentFor(index))
  /\ \A n \in DOMAIN received : received[n].kind = "done" => n = Len(received) /\ decoder.done

StreamInv == StreamTypes /\ (decoder.ok => DecodedIsReceived)

\* A piece more at the end, and the frames of others.
LEMMA PieceAdded ==
  ASSUME NEW frames \in Seq(Frame), NEW frame \in Frame, NEW s \in Seq(SentPieces),
         NEW positions \in SUBSET DOMAIN frames, HoldsPieces(s, frames, positions)
  PROVE  /\ HoldsPieces(s, Append(frames, frame), positions)
         /\ HoldsPieces(Extended(s, frame.piece), Append(frames, frame), positions \cup {Len(frames) + 1})
  <1> DEFINE new    == Len(frames) + 1
             more   == Append(frames, frame)
             pieces == {n \in positions : frames[n].piece # NoPiece}
             UpTo(n) == {m \in pieces : m <= n}
  <1>1. /\ Len(frames) \in Nat /\ DOMAIN frames = 1 .. Len(frames)
        /\ more[new] = frame
        /\ \A n \in positions : n \in Nat /\ n < new /\ more[n] = frames[n]
    OBVIOUS
  <1> HIDE DEF more
  <1>2. /\ Len(s) = Cardinality(pieces)
        /\ \A n \in pieces : s[Cardinality(UpTo(n))] = frames[n].piece
    BY DEF HoldsPieces
  <1>3. pieces = {n \in positions : more[n].piece # NoPiece}
    BY <1>1
  <1>4. HoldsPieces(s, more, positions)
    BY <1>1, <1>2, <1>3 DEF HoldsPieces
  <1>5. IsFiniteSet(pieces)
    <2>1. IsFiniteSet(1 .. Len(frames))
      BY <1>1, FS_Interval
    <2> QED
      BY <1>1, <2>1, FS_Subset
  <1>6. \A n \in pieces : Cardinality(UpTo(n)) \in 1 .. Len(s)
    <2> TAKE n \in pieces
    <2>1. IsFiniteSet(UpTo(n)) /\ Cardinality(UpTo(n)) <= Cardinality(pieces)
      BY <1>5, FS_Subset
    <2>2. n \in UpTo(n)
      BY <1>1
    <2>3. Cardinality(UpTo(n)) \in Nat /\ Cardinality(UpTo(n)) # 0
      BY <2>1, <2>2, FS_CardinalityType, FS_EmptySet
    <2> QED
      BY <1>2, <2>1, <2>3
  <1>7. CASE frame.piece = NoPiece
    <2>1. {n \in positions \cup {new} : more[n].piece # NoPiece} = pieces
      BY <1>1, <1>7
    <2> QED
      BY <1>2, <1>4, <1>7, <2>1 DEF HoldsPieces, Extended, more
  <1>8. CASE frame.piece # NoPiece
    <2> DEFINE later == pieces \cup {new}
               longer == Append(s, frame.piece)
    <2>1. {n \in positions \cup {new} : more[n].piece # NoPiece} = later
      BY <1>1, <1>8
    <2>2. Cardinality(later) = Cardinality(pieces) + 1
      <3>1. new \notin pieces
        BY <1>1
      <3> QED
        BY <1>5, <3>1, FS_AddElement
    <2>3. frame.piece \in SentPieces
      BY DEF SentPieces
    <2>4. Len(longer) = Len(s) + 1 /\ longer[Len(s) + 1] = frame.piece
      BY <2>3, AppendProperties
    <2>5. \A i \in 1 .. Len(s) : longer[i] = s[i]
      BY <2>3, AppendProperties
    <2>6. ASSUME NEW n \in later PROVE longer[Cardinality({m \in later : m <= n})] = more[n].piece
      <3>1. CASE n = new
        <4>1. {m \in later : m <= n} = later
          BY <1>1, <3>1
        <4> QED
          BY <1>1, <1>2, <2>2, <2>4, <3>1, <4>1
      <3>2. CASE n \in pieces
        <4>1. {m \in later : m <= n} = UpTo(n)
          BY <1>1, <3>2
        <4> QED
          BY <1>1, <1>2, <1>6, <2>5, <3>2, <4>1
      <3> QED
        BY <3>1, <3>2
    <2> HIDE DEF more, pieces, UpTo, later
    <2>7. HoldsPieces(longer, more, positions \cup {new})
      BY <1>2, <2>1, <2>2, <2>4, <2>6 DEF HoldsPieces
    <2> QED
      BY <1>4, <1>8, <2>7 DEF Extended, more
  <1> QED
    BY <1>4, <1>7, <1>8

\* The first frame of a call.
LEMMA FirstPiece ==
  ASSUME NEW frames \in Seq(Frame), NEW frame \in Frame
  PROVE  /\ HoldsPieces(<<>>, frames, {})
         /\ HoldsPieces(Extended(<<>>, frame.piece), Append(frames, frame), {Len(frames) + 1})
  <1>1. HoldsPieces(<<>>, frames, {})
    BY FS_EmptySet DEF HoldsPieces
  <1>2. <<>> \in Seq(SentPieces) /\ {} \in SUBSET DOMAIN frames
    OBVIOUS
  <1> QED
    BY <1>1, <1>2, PieceAdded

LEMMA InitStreamInv == InitStream => StreamInv
  <1> SUFFICES ASSUME InitStream PROVE StreamInv
    OBVIOUS
  <1> USE DEF InitStream, NewDecoder
  <1>1. DOMAIN decoder.calls = {} /\ received = <<>> /\ decoder.text = <<>>
    OBVIOUS
  <1>2. StreamTypes
    BY <1>1 DEF StreamTypes
  <1>3. TextSent = {} /\ Announced = {}
    BY <1>1 DEF TextSent, Announced
  <1>4. HoldsPieces(decoder.text, received, TextSent)
    BY <1>1, <1>3, FS_EmptySet DEF HoldsPieces
  <1> QED
    BY <1>1, <1>2, <1>3, <1>4 DEF StreamInv, DecodedIsReceived

\* A frame of a call leaves the other calls alone.
LEMMA CallFrame ==
  ASSUME NEW frame \in Frame, frame.kind = "call", StreamInv, decoder.ok, ~decoder.done,
         received' = Append(received, frame), decoder' = PushToolCall(frame)
  PROVE  StreamInv'
  <1> DEFINE index == frame.index
             new   == Len(received) + 1
             call  == IF index \in DOMAIN decoder.calls THEN decoder.calls[index] ELSE NewCall
             after == [id |-> Merged(call.id, frame.id), name |-> Merged(call.name, frame.name),
                       arguments |-> Extended(call.arguments, frame.piece)]
             calls == [i \in DOMAIN decoder.calls \cup {index} |->
                         IF i = index THEN after ELSE decoder.calls[i]]
  <1>1. /\ received \in Seq(Frame) /\ received' \in Seq(Frame)
        /\ Len(received) \in Nat /\ Len(received') = new /\ received'[new] = frame
        /\ DOMAIN received = 1 .. Len(received) /\ DOMAIN received' = DOMAIN received \cup {new}
        /\ new \notin DOMAIN received
        /\ \A n \in DOMAIN received : received'[n] = received[n]
    BY DEF StreamInv, StreamTypes
  <1>2. /\ DOMAIN decoder.calls \subseteq Nat /\ index \in Nat
        /\ decoder = [ok |-> decoder.ok, done |-> decoder.done, text |-> decoder.text, calls |-> decoder.calls]
        /\ decoder.ok \in BOOLEAN /\ decoder.done \in BOOLEAN
        /\ decoder.text \in Seq(SentPieces)
        /\ decoder.calls \in [DOMAIN decoder.calls -> Accumulators]
    BY StreamAssumption DEF StreamInv, StreamTypes
  <1>3. call \in Accumulators
    <2>1. NewCall \in Accumulators
      BY DEF NewCall, Accumulators, Names
    <2> QED
      BY <1>2, <2>1
  <1>4. after \in Accumulators
    <2>1. frame.piece \in SentPieces /\ frame.id \in Names /\ frame.name \in Names
      BY DEF SentPieces, Names
    <2>2. Merged(call.id, frame.id) \in Names /\ Merged(call.name, frame.name) \in Names
      BY <1>3, <2>1 DEF Merged, Accumulators
    <2>3. Extended(call.arguments, frame.piece) \in Seq(SentPieces)
      BY <1>3, <2>1 DEF Extended, Accumulators
    <2> QED
      BY <2>2, <2>3 DEF Accumulators
  <1>5. decoder' = IF Conflicts(call.id, frame.id) \/ Conflicts(call.name, frame.name)
                   THEN [decoder EXCEPT !.ok = FALSE] ELSE [decoder EXCEPT !.calls = calls]
    BY DEF PushToolCall, IndexOf
  <1>6. DecodedIsReceived
    BY DEF StreamInv
  <1> HIDE DEF calls, after, call
  <1>7. CASE Conflicts(call.id, frame.id) \/ Conflicts(call.name, frame.name)
    BY <1>1, <1>2, <1>5, <1>7 DEF StreamInv, StreamTypes
  <1>8. CASE ~(Conflicts(call.id, frame.id) \/ Conflicts(call.name, frame.name))
    <2>1. decoder' = [decoder EXCEPT !.calls = calls]
      BY <1>5, <1>8
    <2>2. /\ decoder'.calls = calls /\ decoder'.text = decoder.text /\ decoder'.done = FALSE
          /\ decoder'.ok = TRUE
      BY <1>2, <2>1
    <2>3. /\ DOMAIN calls = DOMAIN decoder.calls \cup {index}
          /\ calls[index] = after
          /\ \A i \in DOMAIN decoder.calls : i # index => calls[i] = decoder.calls[i]
      BY DEF calls
    <2>4. StreamTypes'
      <3>1. calls \in [DOMAIN calls -> Accumulators]
        BY <1>2, <1>4 DEF calls
      <3>2. DOMAIN calls \subseteq Nat
        BY <1>2, <2>3
      <3> QED
        BY <1>1, <1>2, <2>1, <2>2, <3>1, <3>2 DEF StreamTypes
    <2>5. TextSent' = TextSent
      BY <1>1 DEF TextSent
    <2>6. Announced' = Announced \cup {index}
      BY <1>1 DEF Announced
    <2>7. SentFor(index)' = SentFor(index) \cup {new}
      BY <1>1 DEF SentFor
    <2>8. \A i \in Nat : i # index => SentFor(i)' = SentFor(i)
      BY <1>1 DEF SentFor
    <2>9. HoldsPieces(decoder.text, received', TextSent)
      <3>1. TextSent \in SUBSET DOMAIN received /\ HoldsPieces(decoder.text, received, TextSent)
        BY <1>6 DEF TextSent, DecodedIsReceived
      <3> QED
        BY <1>1, <1>2, <3>1, PieceAdded
    <2>10. ASSUME NEW i \in Announced, i # index
           PROVE  CallIsItsFrames(calls[i], received', SentFor(i)')
      <3>1. i \in DOMAIN decoder.calls /\ CallIsItsFrames(decoder.calls[i], received, SentFor(i))
        BY <1>6, <2>10 DEF DecodedIsReceived
      <3>2. calls[i] = decoder.calls[i] /\ SentFor(i)' = SentFor(i)
        BY <1>2, <2>3, <2>8, <2>10, <3>1
      <3>3. SentFor(i) \in SUBSET DOMAIN received
        BY DEF SentFor
      <3>4. decoder.calls[i].arguments \in Seq(SentPieces)
        BY <1>2, <3>1 DEF Accumulators
      <3>5. HoldsPieces(decoder.calls[i].arguments, received', SentFor(i))
        BY <1>1, <3>1, <3>3, <3>4, PieceAdded DEF CallIsItsFrames
      <3>6. \A n \in SentFor(i) : received'[n] = received[n]
        BY <1>1, <3>3
      <3> QED
        BY <3>1, <3>2, <3>5, <3>6 DEF CallIsItsFrames
    <2>11. CallIsItsFrames(after, received', SentFor(index)')
      <3>1. SentFor(index) \in SUBSET DOMAIN received
        BY DEF SentFor
      <3>4. CallIsItsFrames(call, received, SentFor(index))
        <4>1. CASE index \in DOMAIN decoder.calls
          <5>1. call = decoder.calls[index]
            BY <4>1 DEF call
          <5> QED
            BY <1>6, <4>1, <5>1 DEF DecodedIsReceived
        <4>2. CASE index \notin DOMAIN decoder.calls
          <5>1. SentFor(index) = {}
            BY <1>6, <4>2 DEF DecodedIsReceived, Announced, SentFor
          <5>2. call.arguments = <<>> /\ call.id = NoPiece
            BY <4>2 DEF call, NewCall
          <5>3. HoldsPieces(call.arguments, received, SentFor(index))
            BY <1>1, <5>1, <5>2, FirstPiece
          <5> QED
            BY <5>1, <5>2, <5>3 DEF CallIsItsFrames
        <4> QED
          BY <4>1, <4>2
      <3>5. HoldsPieces(after.arguments, received', SentFor(index)')
        <4>1. call.arguments \in Seq(SentPieces) /\ after.arguments = Extended(call.arguments, frame.piece)
          BY <1>3 DEF Accumulators, after
        <4>2. HoldsPieces(call.arguments, received, SentFor(index))
          BY <3>4 DEF CallIsItsFrames
        <4>3. HoldsPieces(Extended(call.arguments, frame.piece), Append(received, frame), SentFor(index) \cup {new})
          BY <1>1, <3>1, <4>1, <4>2, PieceAdded
        <4> QED
          BY <2>7, <4>1, <4>3
      <3>6. after.id = Merged(call.id, frame.id) /\ after.name = Merged(call.name, frame.name)
        BY DEF after
      <3>7. \A n \in SentFor(index) : received'[n].id = received[n].id /\ received'[n].name = received[n].name
        BY <1>1, <3>1
      <3>8. /\ \A n \in SentFor(index) : received[n].id \in {NoPiece, call.id}
            /\ \A n \in SentFor(index) : received[n].name \in {NoPiece, call.name}
            /\ call.id # NoPiece => \E n \in SentFor(index) : received[n].id = call.id
        BY <3>4 DEF CallIsItsFrames
      <3>9. after.id # NoPiece => \E n \in SentFor(index)' : received'[n].id = after.id
        <4>1. CASE frame.id = NoPiece
          BY <2>7, <3>6, <3>7, <3>8, <4>1 DEF Merged
        <4>2. CASE frame.id # NoPiece
          <5>1. new \in SentFor(index)' /\ received'[new].id = after.id
            BY <1>1, <2>7, <3>6, <4>2 DEF Merged
          <5> QED
            BY <5>1
        <4> QED
          BY <4>1, <4>2
      <3>10. \A n \in SentFor(index)' : received'[n].id \in {NoPiece, after.id}
        <4>1. frame.id \in {NoPiece, after.id} /\ call.id \in {NoPiece, after.id}
          BY <1>8, <3>6 DEF Merged, Conflicts
        <4>2. received'[new].id \in {NoPiece, after.id}
          BY <1>1, <4>1
        <4>3. \A n \in SentFor(index) : received'[n].id \in {NoPiece, after.id}
          BY <3>7, <3>8, <4>1
        <4> QED
          BY <2>7, <4>2, <4>3
      <3>11. \A n \in SentFor(index)' : received'[n].name \in {NoPiece, after.name}
        <4>1. frame.name \in {NoPiece, after.name} /\ call.name \in {NoPiece, after.name}
          BY <1>8, <3>6 DEF Merged, Conflicts
        <4>2. received'[new].name \in {NoPiece, after.name}
          BY <1>1, <4>1
        <4>3. \A n \in SentFor(index) : received'[n].name \in {NoPiece, after.name}
          BY <3>7, <3>8, <4>1
        <4> QED
          BY <2>7, <4>2, <4>3
      <3> QED
        BY <3>5, <3>9, <3>10, <3>11 DEF CallIsItsFrames
    <2>12. \A n \in DOMAIN received' : received'[n].kind = "done" => n = Len(received)' /\ decoder'.done
      BY <1>1, <1>6 DEF DecodedIsReceived
    <2> QED
      BY <2>2, <2>3, <2>4, <2>5, <2>6, <2>9, <2>10, <2>11, <2>12, <1>6 DEF StreamInv, DecodedIsReceived
  <1> QED
    BY <1>7, <1>8

LEMMA OtherFrame ==
  ASSUME NEW frame \in Frame, frame.kind # "call", StreamInv, decoder.ok,
         received' = Append(received, frame), decoder' = Pushed(frame), ~decoder.done
  PROVE  StreamInv'
  <1> DEFINE new == Len(received) + 1
  <1>1. /\ received \in Seq(Frame) /\ received' \in Seq(Frame)
        /\ Len(received) \in Nat /\ Len(received') = new /\ received'[new] = frame
        /\ DOMAIN received = 1 .. Len(received) /\ DOMAIN received' = DOMAIN received \cup {new}
        /\ new \notin DOMAIN received
        /\ \A n \in DOMAIN received : received'[n] = received[n]
    BY DEF StreamInv, StreamTypes
  <1>2. /\ DOMAIN decoder.calls \subseteq Nat
        /\ decoder = [ok |-> decoder.ok, done |-> decoder.done, text |-> decoder.text, calls |-> decoder.calls]
        /\ decoder.ok \in BOOLEAN /\ decoder.done \in BOOLEAN
        /\ decoder.text \in Seq(SentPieces)
        /\ decoder.calls \in [DOMAIN decoder.calls -> Accumulators]
        /\ frame.kind \in {"text", "done", "malformed"}
    BY StreamAssumption DEF StreamInv, StreamTypes
  <1>3. DecodedIsReceived
    BY DEF StreamInv
  <1>4. CASE frame.kind = "malformed"
    BY <1>1, <1>2, <1>4 DEF StreamInv, StreamTypes, Pushed
  <1>5. CASE frame.kind # "malformed"
    <2> DEFINE said == IF frame.kind = "text" THEN Append(decoder.text, frame.piece) ELSE decoder.text
    <2>1. frame.kind = "text" => frame.piece \in SentPieces /\ frame.piece # NoPiece
      BY StreamAssumption DEF SentPieces
    <2>2. said \in Seq(SentPieces)
      BY <1>2, <2>1
    <2>3. decoder' = [ok |-> TRUE, done |-> (frame.kind = "done"), text |-> said, calls |-> decoder.calls]
      <3>1. CASE frame.kind = "done"
        <4>1. decoder' = [decoder EXCEPT !.done = TRUE] /\ said = decoder.text
          BY <3>1 DEF Pushed
        <4> QED
          BY <1>2, <3>1, <4>1
      <3>2. CASE frame.kind = "text"
        <4>1. decoder' = [decoder EXCEPT !.text = said]
          BY <3>2 DEF Pushed
        <4>2. decoder.done = FALSE /\ decoder.ok = TRUE
          BY <1>2
        <4> HIDE DEF said
        <4> QED
          BY <1>2, <3>2, <4>1, <4>2
      <3> QED
        BY <1>2, <1>5, <3>1, <3>2
    <2> HIDE DEF said
    <2>10. StreamTypes'
      BY <1>1, <1>2, <2>2, <2>3 DEF StreamTypes
    <2> USE DEF said
    <2>4. Announced' = Announced
      BY <1>1 DEF Announced
    <2>5. \A i \in Nat : SentFor(i)' = SentFor(i)
      BY <1>1 DEF SentFor
    <2>6. HoldsPieces(said, received', TextSent')
      <3>1. TextSent \in SUBSET DOMAIN received /\ HoldsPieces(decoder.text, received, TextSent)
        BY <1>3 DEF TextSent, DecodedIsReceived
      <3>2. TextSent' = IF frame.kind = "text" THEN TextSent \cup {new} ELSE TextSent
        BY <1>1 DEF TextSent
      <3>3. said = IF frame.kind = "text" THEN Extended(decoder.text, frame.piece) ELSE decoder.text
        BY <2>1 DEF Extended
      <3>4. /\ HoldsPieces(decoder.text, received', TextSent)
            /\ HoldsPieces(Extended(decoder.text, frame.piece), received', TextSent \cup {new})
        BY <1>1, <1>2, <3>1, PieceAdded
      <3> QED
        BY <3>2, <3>3, <3>4
    <2> HIDE DEF said
    <2>7. ASSUME NEW i \in Announced
          PROVE  CallIsItsFrames(decoder.calls[i], received', SentFor(i)')
      <3>1. i \in DOMAIN decoder.calls /\ CallIsItsFrames(decoder.calls[i], received, SentFor(i))
        BY <1>3 DEF DecodedIsReceived
      <3>2. SentFor(i)' = SentFor(i) /\ SentFor(i) \in SUBSET DOMAIN received
        BY <1>2, <2>5, <3>1 DEF SentFor
      <3>3. decoder.calls[i].arguments \in Seq(SentPieces)
        BY <1>2, <3>1 DEF Accumulators
      <3>4. HoldsPieces(decoder.calls[i].arguments, received', SentFor(i))
        BY <1>1, <3>1, <3>2, <3>3, PieceAdded DEF CallIsItsFrames
      <3> QED
        BY <1>1, <3>1, <3>2, <3>4 DEF CallIsItsFrames
    <2>8. \A n \in DOMAIN received' : received'[n].kind = "done" => n = Len(received)' /\ decoder'.done
      <3>1. \A n \in DOMAIN received : received[n].kind # "done"
        BY <1>3 DEF DecodedIsReceived
      <3>2. frame.kind = "done" => decoder'.done
        <4>1. decoder'.done = (frame.kind = "done")
          BY <2>3
        <4> QED
          BY <4>1
      <3> QED
        BY <1>1, <3>1, <3>2
    <2>9. DOMAIN decoder'.calls = Announced'
      BY <1>3, <2>3, <2>4 DEF DecodedIsReceived
    <2> QED
      BY <2>3, <2>4, <2>6, <2>7, <2>8, <2>9, <2>10 DEF StreamInv, DecodedIsReceived
  <1> QED
    BY <1>4, <1>5

LEMMA NextStreamInv == StreamInv /\ [NextStream]_streamVars => StreamInv'
  <1> SUFFICES ASSUME StreamInv, [NextStream]_streamVars PROVE StreamInv'
    OBVIOUS
  <1>1. CASE UNCHANGED streamVars
    <2>1. decoder' = decoder /\ received' = received
      BY <1>1 DEF streamVars
    <2>2. TextSent' = TextSent /\ Announced' = Announced
      BY <2>1 DEF TextSent, Announced
    <2>3. \A i : SentFor(i)' = SentFor(i)
      BY <2>1 DEF SentFor
    <2>4. DecodedIsReceived => DecodedIsReceived'
      BY <2>1, <2>2, <2>3 DEF DecodedIsReceived
    <2> QED
      BY <2>1, <2>4 DEF StreamInv, StreamTypes
  <1>2. ASSUME NEW frame \in Frame, PushData(frame) PROVE StreamInv'
    <2>1. decoder.ok /\ received' = Append(received, frame) /\ decoder' = Pushed(frame)
      BY <1>2 DEF PushData
    <2>2. CASE decoder.done
      <3>1. decoder' = [decoder EXCEPT !.ok = FALSE]
        BY <2>1, <2>2 DEF Pushed
      <3>2. received' \in Seq(Frame)
        BY <2>1 DEF StreamInv, StreamTypes
      <3> QED
        BY <3>1, <3>2 DEF StreamInv, StreamTypes
    <2>3. CASE ~decoder.done /\ frame.kind = "call"
      <3>1. decoder' = PushToolCall(frame)
        BY <2>1, <2>3 DEF Pushed
      <3> QED
        BY <2>1, <2>3, <3>1, CallFrame
    <2>4. CASE ~decoder.done /\ frame.kind # "call"
      BY <2>1, <2>4, OtherFrame
    <2> QED
      BY <2>2, <2>3, <2>4
  <1> QED
    BY <1>1, <1>2 DEF NextStream

LEMMA StreamInvKeepsPieces == StreamInv => StreamedCallsKeepTheirPieces
  <1> SUFFICES ASSUME StreamInv, FinishStream.ok PROVE StreamedCallsKeepTheirPieces
    BY DEF StreamedCallsKeepTheirPieces
  <1>1. /\ decoder.ok /\ WellFormed(decoder.calls)
        /\ FinishStream = [ok |-> TRUE, text |-> decoder.text, calls |-> decoder.calls]
    BY DEF FinishStream
  <1>2. DecodedIsReceived
    BY <1>1 DEF StreamInv
  <1> QED
    BY <1>1, <1>2 DEF StreamedCallsKeepTheirPieces, DecodedIsReceived, WellFormed, CallIsItsFrames

\* However a provider mixes the pieces of its calls, the decoder gives each
\* call its own (openai_stream.rs).
THEOREM EachCallGetsItsPieces == SpecStream => []StreamedCallsKeepTheirPieces
  <1>1. SpecStream => []StreamInv
    BY InitStreamInv, NextStreamInv, PTL DEF SpecStream
  <1> QED
    BY <1>1, StreamInvKeepsPieces, PTL

-----------------------------------------------------------------------------
(* Chunks.  The chunks and the open one are the page up to the last word.  *)

Glyphs(n) == (1 .. n) \cup {Space}

\* A chunk of the letters 1..n.
Held(chunk, most, ends, n) ==
  /\ chunk \in Seq(Glyphs(n))
  /\ Len(chunk) \in 1 .. most
  /\ \A i \in 1 .. Len(chunk) :
       IF chunk[i] = Space
       THEN i # 1 /\ i # Len(chunk) /\ chunk[i - 1] \in ends /\ chunk[i + 1] = chunk[i - 1] + 1
       ELSE i # Len(chunk) =>
              IF chunk[i] \in ends THEN chunk[i + 1] = Space ELSE chunk[i + 1] = chunk[i] + 1

CutWell(chunk, most, ends) == LastLetter(chunk) \in ends \/ Len(chunk) = most

\* The chunks hold the letters up to last.
TextSoFar(all, most, ends, n, last) ==
  /\ all \in Seq(Seq(Glyphs(n)))
  /\ \A i \in 1 .. Len(all) :
       /\ Held(all[i], most, ends, n)
       /\ CutWell(all[i], most, ends)
       /\ all[i][1] = IF i = 1 THEN 1 ELSE LastLetter(all[i - 1]) + 1
  /\ last = IF all = <<>> THEN 0 ELSE LastLetter(all[Len(all)])

SplitInv ==
  /\ size \in Nat \ {0} /\ letters \in Nat
  /\ wordEnds \in SUBSET (1 .. letters)
  /\ letters # 0 => letters \in wordEnds
  /\ closed \in Seq(Seq(Glyphs(letters))) /\ current \in Seq(Glyphs(letters))
  /\ TextSoFar(Chunks, size, wordEnds, letters, letters)

\* The next word does not change what was cut.
LEMMA HeldLater ==
  ASSUME NEW most \in Nat \ {0}, NEW n \in Nat, NEW m \in Nat, n < m, NEW ends \in SUBSET (1 .. n),
         NEW chunk, Held(chunk, most, ends, n)
  PROVE  Held(chunk, most, ends \cup {m}, m)
  <1>1. Space \notin Nat
    BY RetrievalAssumption
  <1>2. chunk \in Seq(Glyphs(m))
    <2>1. Glyphs(n) \subseteq Glyphs(m)
      BY DEF Glyphs
    <2> QED
      BY <2>1 DEF Held
  <1>3. \A i \in 1 .. Len(chunk) : chunk[i] # m
    BY <1>1 DEF Held, Glyphs
  <1>4. ASSUME NEW i \in 1 .. Len(chunk)
        PROVE  IF chunk[i] = Space
               THEN i # 1 /\ i # Len(chunk) /\ chunk[i - 1] \in ends \cup {m} /\ chunk[i + 1] = chunk[i - 1] + 1
               ELSE i # Len(chunk) =>
                      IF chunk[i] \in ends \cup {m} THEN chunk[i + 1] = Space ELSE chunk[i + 1] = chunk[i] + 1
    BY <1>3 DEF Held
  <1> QED
    BY <1>2, <1>4 DEF Held

LEMMA TextLater ==
  ASSUME NEW most \in Nat \ {0}, NEW n \in Nat, NEW m \in Nat, n < m, NEW ends \in SUBSET (1 .. n),
         NEW all, NEW last, TextSoFar(all, most, ends, n, last)
  PROVE  TextSoFar(all, most, ends \cup {m}, m, last)
  <1>1. all \in Seq(Seq(Glyphs(m)))
    <2>1. Seq(Glyphs(n)) \subseteq Seq(Glyphs(m))
      BY DEF Glyphs
    <2> QED
      BY <2>1 DEF TextSoFar
  <1>2. \A i \in 1 .. Len(all) : Held(all[i], most, ends \cup {m}, m)
    BY HeldLater DEF TextSoFar
  <1>3. \A i \in 1 .. Len(all) : CutWell(all[i], most, ends \cup {m})
    BY DEF TextSoFar, CutWell
  <1> QED
    BY <1>1, <1>2, <1>3 DEF TextSoFar

\* The letters from..to, no word ending before the last of them.
LEMMA RunHeld ==
  ASSUME NEW most \in Nat \ {0}, NEW n \in Nat, NEW ends, NEW from \in 1 .. n, NEW to \in from .. n,
         to - from < most, \A e \in from .. to - 1 : e \notin ends
  PROVE  /\ Held(Run(from, to), most, ends, n)
         /\ Len(Run(from, to)) = to - from + 1
         /\ Run(from, to)[1] = from /\ LastLetter(Run(from, to)) = to
  <1> DEFINE run == Run(from, to)
             len == to - from + 1
  <1>1. Space \notin Nat
    BY RetrievalAssumption
  <1>2. len \in 1 .. most
    OBVIOUS
  <1>3. run = [i \in 1 .. len |-> from + i - 1]
    BY DEF Run
  <1>4. \A i \in 1 .. len : from + i - 1 \in Glyphs(n) /\ from + i - 1 # Space
    BY <1>1 DEF Glyphs
  <1>5. run \in Seq(Glyphs(n)) /\ Len(run) = len
    <2>1. len \in Nat
      OBVIOUS
    <2> HIDE DEF len
    <2>2. run \in [1 .. len -> Glyphs(n)]
      BY <1>3, <1>4
    <2> HIDE DEF run
    <2> QED
      BY <2>1, <2>2
  <1>6. run[1] = from /\ run[len] = to
    BY <1>2, <1>3
  <1>7. \A i \in 1 .. len : run[i] = from + i - 1
    BY <1>3
  <1> HIDE DEF run
  <1>8. ASSUME NEW i \in 1 .. len
        PROVE  /\ run[i] # Space
               /\ i # len => run[i] \notin ends /\ run[i + 1] = run[i] + 1
    BY <1>4, <1>7
  <1>9. Held(run, most, ends, n)
    BY <1>2, <1>5, <1>8 DEF Held
  <1> QED
    BY <1>5, <1>6, <1>9 DEF run, LastLetter

\* One chunk more.
LEMMA TextMore ==
  ASSUME NEW most \in Nat \ {0}, NEW n \in Nat, NEW ends, NEW all, NEW last \in Nat, NEW chunk,
         TextSoFar(all, most, ends, n, last), Held(chunk, most, ends, n), CutWell(chunk, most, ends),
         chunk[1] = last + 1
  PROVE  TextSoFar(Append(all, chunk), most, ends, n, LastLetter(chunk))
  <1> DEFINE more == Append(all, chunk)
  <1>1. all \in Seq(Seq(Glyphs(n))) /\ chunk \in Seq(Glyphs(n))
    BY DEF TextSoFar, Held
  <1>2. /\ more \in Seq(Seq(Glyphs(n))) /\ Len(more) = Len(all) + 1 /\ Len(all) \in Nat
        /\ more[Len(all) + 1] = chunk
        /\ \A i \in 1 .. Len(all) : more[i] = all[i]
        /\ more # <<>> /\ (all = <<>> <=> Len(all) = 0)
    <2>1. Len(all) \in Nat /\ (all = <<>> <=> Len(all) = 0)
      BY <1>1, EmptySeq
    <2>2. /\ more \in Seq(Seq(Glyphs(n))) /\ Len(more) = Len(all) + 1 /\ more[Len(all) + 1] = chunk
          /\ \A i \in 1 .. Len(all) : more[i] = all[i]
      BY <1>1, AppendProperties
    <2> HIDE DEF more
    <2>3. more # <<>>
      BY <2>1, <2>2
    <2> QED
      BY <2>1, <2>2, <2>3
  <1> HIDE DEF more
  <1>9. \A i \in 2 .. Len(all) + 1 : more[i - 1] = all[i - 1]
    <2> TAKE i \in 2 .. Len(all) + 1
    <2>1. i - 1 \in 1 .. Len(all)
      BY <1>2
    <2> QED
      BY <1>2, <2>1
  <1>3. ASSUME NEW i \in 1 .. Len(more)
        PROVE  /\ Held(more[i], most, ends, n) /\ CutWell(more[i], most, ends)
               /\ more[i][1] = IF i = 1 THEN 1 ELSE LastLetter(more[i - 1]) + 1
    <2>1. CASE i \in 1 .. Len(all)
      <3>1. /\ Held(all[i], most, ends, n) /\ CutWell(all[i], most, ends)
            /\ all[i][1] = IF i = 1 THEN 1 ELSE LastLetter(all[i - 1]) + 1
        BY <2>1 DEF TextSoFar
      <3>2. more[i] = all[i] /\ (i # 1 => more[i - 1] = all[i - 1])
        BY <1>2, <1>9, <2>1
      <3> QED
        BY <3>1, <3>2
    <2>2. CASE i = Len(all) + 1
      <3>1. more[i] = chunk /\ (i # 1 => more[i - 1] = all[Len(all)])
        <4>1. i # 1 => i \in 2 .. Len(all) + 1 /\ i - 1 = Len(all)
          BY <1>2, <2>2
        <4> QED
          BY <1>2, <1>9, <2>2, <4>1
      <3>2. last = IF i = 1 THEN 0 ELSE LastLetter(all[Len(all)])
        BY <1>2, <2>2 DEF TextSoFar
      <3> QED
        BY <3>1, <3>2
    <2> QED
      BY <1>2, <2>1, <2>2
  <1>4. TextSoFar(more, most, ends, n, LastLetter(chunk))
    BY <1>2, <1>3 DEF TextSoFar
  <1> QED
    BY <1>4 DEF more

\* And one chunk less.
LEMMA TextLess ==
  ASSUME NEW most \in Nat \ {0}, NEW n \in Nat, NEW ends, NEW all \in Seq(Seq(Glyphs(n))), NEW last,
         NEW chunk \in Seq(Glyphs(n)), TextSoFar(Append(all, chunk), most, ends, n, last)
  PROVE  /\ TextSoFar(all, most, ends, n, chunk[1] - 1)
         /\ Held(chunk, most, ends, n) /\ CutWell(chunk, most, ends) /\ LastLetter(chunk) = last
  <1> DEFINE more == Append(all, chunk)
  <1>1. /\ Len(more) = Len(all) + 1 /\ Len(all) \in Nat
        /\ more[Len(all) + 1] = chunk
        /\ \A i \in 1 .. Len(all) : more[i] = all[i]
        /\ more # <<>> /\ (all = <<>> <=> Len(all) = 0)
    OBVIOUS
  <1>2. TextSoFar(more, most, ends, n, last)
    OBVIOUS
  <1> HIDE DEF more
  <1>6. /\ \A i \in 1 .. Len(more) :
             /\ Held(more[i], most, ends, n) /\ CutWell(more[i], most, ends)
             /\ more[i][1] = IF i = 1 THEN 1 ELSE LastLetter(more[i - 1]) + 1
        /\ last = IF more = <<>> THEN 0 ELSE LastLetter(more[Len(more)])
    BY <1>2 DEF TextSoFar
  <1>3. /\ Held(chunk, most, ends, n) /\ CutWell(chunk, most, ends) /\ LastLetter(chunk) = last
        /\ chunk[1] = IF Len(all) = 0 THEN 1 ELSE LastLetter(more[Len(all)]) + 1
    <2>1. /\ Len(all) + 1 \in 1 .. Len(more) /\ (Len(all) + 1 = 1 <=> Len(all) = 0)
          /\ (Len(all) + 1) - 1 = Len(all)
      BY <1>1
    <2>2. last = LastLetter(chunk)
      BY <1>1, <1>6
    <2> QED
      BY <1>1, <1>6, <2>1, <2>2
  <1>4. ASSUME NEW i \in 1 .. Len(all)
        PROVE  /\ Held(all[i], most, ends, n) /\ CutWell(all[i], most, ends)
               /\ all[i][1] = IF i = 1 THEN 1 ELSE LastLetter(all[i - 1]) + 1
    <2>1. i \in 1 .. Len(more) /\ more[i] = all[i]
      BY <1>1
    <2>2. i # 1 => more[i - 1] = all[i - 1]
      <3>1. i # 1 => i - 1 \in 1 .. Len(all)
        BY <1>1
      <3> QED
        BY <1>1, <3>1
    <2> QED
      BY <1>6, <2>1, <2>2
  <1>5. chunk[1] - 1 = IF all = <<>> THEN 0 ELSE LastLetter(all[Len(all)])
    <2>1. CASE Len(all) = 0
      BY <1>1, <1>3, <2>1
    <2>2. CASE Len(all) # 0
      <3>1. Held(all[Len(all)], most, ends, n)
        BY <1>1, <1>4, <2>2
      <3>2. LastLetter(all[Len(all)]) \in Nat
        BY <3>1 DEF Held, LastLetter, Glyphs
      <3>3. more[Len(all)] = all[Len(all)] /\ all # <<>>
        <4>1. Len(all) \in 1 .. Len(all)
          BY <1>1, <2>2
        <4>2. \A i \in 1 .. Len(all) : more[i] = all[i]
          BY <1>1
        <4>3. all # <<>>
          BY <1>1, <2>2
        <4> QED
          BY <4>1, <4>2, <4>3
      <3> QED
        BY <1>3, <2>2, <3>2, <3>3
    <2> QED
      BY <2>1, <2>2
  <1> QED
    BY <1>3, <1>4, <1>5 DEF TextSoFar

\* A word at the end of the open chunk.
LEMMA Joined ==
  ASSUME NEW most \in Nat \ {0}, NEW n \in Nat, NEW ends, NEW chunk, Held(chunk, most, ends, n),
         NEW from \in 1 .. n, NEW to \in from .. n, from - 1 \in ends, LastLetter(chunk) = from - 1,
         \A e \in from .. to - 1 : e \notin ends, Len(chunk) + 1 + (to - from + 1) <= most
  PROVE  LET longer == chunk \o <<Space>> \o Run(from, to) IN
         /\ Held(longer, most, ends, n)
         /\ longer[1] = chunk[1] /\ LastLetter(longer) = to
  <1> DEFINE longer == chunk \o <<Space>> \o Run(from, to)
             run == Run(from, to)
             len == Len(chunk)
             all == len + 1 + Len(run)
  <1>1. /\ Held(run, most, ends, n) /\ Len(run) = to - from + 1
        /\ run[1] = from /\ LastLetter(run) = to
    <2>1. to - from < most
      BY DEF Held
    <2> QED
      BY <2>1, RunHeld
  <1>2. /\ chunk \in Seq(Glyphs(n)) /\ run \in Seq(Glyphs(n)) /\ Space \in Glyphs(n)
        /\ len \in Nat \ {0} /\ Len(run) \in Nat \ {0}
    BY <1>1 DEF Held, Glyphs
  <1>3. longer = (chunk \o <<Space>>) \o run
    OBVIOUS
  <1> HIDE DEF run
  <1>4. /\ longer \in Seq(Glyphs(n)) /\ Len(longer) = all
        /\ \A i \in 1 .. all :
             longer[i] = IF i <= len THEN chunk[i] ELSE IF i = len + 1 THEN Space ELSE run[i - (len + 1)]
    <2>1. /\ chunk \o <<Space>> \in Seq(Glyphs(n)) /\ Len(chunk \o <<Space>>) = len + 1
          /\ \A i \in 1 .. len + 1 : (chunk \o <<Space>>)[i] = IF i <= len THEN chunk[i] ELSE Space
      BY <1>2
    <2> DEFINE first == chunk \o <<Space>>
    <2>2. longer = first \o run
      BY <1>3
    <2> HIDE DEF first, longer
    <2>3. first \in Seq(Glyphs(n)) /\ Len(first) = len + 1
      BY <2>1 DEF first
    <2>4. /\ longer \in Seq(Glyphs(n)) /\ Len(longer) = all
          /\ \A i \in 1 .. all : longer[i] = IF i <= len + 1 THEN first[i] ELSE run[i - (len + 1)]
      <3>1. first \in Seq(Glyphs(n)) /\ run \in Seq(Glyphs(n))
        BY <1>2, <2>3
      <3>2. /\ first \o run \in Seq(Glyphs(n)) /\ Len(first \o run) = Len(first) + Len(run)
            /\ \A i \in 1 .. Len(first) + Len(run) :
                 (first \o run)[i] = IF i <= Len(first) THEN first[i] ELSE run[i - Len(first)]
        BY <3>1, ConcatProperties
      <3>3. Len(first) + Len(run) = all
        BY <2>3
      <3> QED
        BY <2>2, <2>3, <3>2, <3>3
    <2>5. \A i \in 1 .. len + 1 : first[i] = IF i <= len THEN chunk[i] ELSE Space
      BY <2>1 DEF first
    <2>6. ASSUME NEW i \in 1 .. all
          PROVE  longer[i] = IF i <= len THEN chunk[i] ELSE IF i = len + 1 THEN Space ELSE run[i - (len + 1)]
      <3>1. CASE i \in 1 .. len + 1
        <4>1. longer[i] = first[i]
          BY <1>2, <2>4, <3>1
        <4>2. ~(i <= len) => i = len + 1
          BY <1>2, <3>1
        <4> QED
          BY <2>5, <3>1, <4>1, <4>2
      <3>2. CASE ~(i <= len + 1)
        <4>1. longer[i] = run[i - (len + 1)]
          BY <2>4, <3>2
        <4>2. ~(i <= len) /\ i # len + 1
          BY <1>2, <3>2
        <4> QED
          BY <4>1, <4>2
      <3> QED
        BY <1>2, <3>1, <3>2
    <2> QED
      BY <2>4, <2>6
  <1> HIDE DEF longer
  <1>5. all \in 1 .. most
    BY <1>1, <1>2
  <1>6. ASSUME NEW i \in 1 .. all
        PROVE  IF longer[i] = Space
               THEN i # 1 /\ i # all /\ longer[i - 1] \in ends /\ longer[i + 1] = longer[i - 1] + 1
               ELSE i # all =>
                      IF longer[i] \in ends THEN longer[i + 1] = Space ELSE longer[i + 1] = longer[i] + 1
    <2>1. Space \notin Nat
      BY RetrievalAssumption
    <2>2. chunk[len] = from - 1
      BY DEF LastLetter
    <2>3. CASE i < len
      <3>1. /\ longer[i] = chunk[i] /\ longer[i + 1] = chunk[i + 1]
            /\ i # 1 => longer[i - 1] = chunk[i - 1]
        <4>1. /\ i <= len /\ i + 1 \in 1 .. all /\ i + 1 <= len
              /\ i # 1 => i - 1 \in 1 .. all /\ i - 1 <= len
          BY <1>2, <2>3
        <4>2. longer[i] = chunk[i]
          BY <1>4, <4>1
        <4>3. longer[i + 1] = chunk[i + 1]
          BY <1>4, <4>1
        <4>4. i # 1 => longer[i - 1] = chunk[i - 1]
          BY <1>4, <4>1
        <4> QED
          BY <4>2, <4>3, <4>4
      <3>2. i \in 1 .. Len(chunk) /\ i # Len(chunk) /\ i # all
        BY <1>2, <2>3
      <3>3. IF chunk[i] = Space
            THEN i # 1 /\ chunk[i - 1] \in ends /\ chunk[i + 1] = chunk[i - 1] + 1
            ELSE IF chunk[i] \in ends THEN chunk[i + 1] = Space ELSE chunk[i + 1] = chunk[i] + 1
        BY <3>2 DEF Held
      <3>4. CASE chunk[i] = Space
        BY <3>1, <3>2, <3>3, <3>4
      <3>5. CASE chunk[i] # Space
        BY <3>1, <3>3, <3>5
      <3> QED
        BY <3>4, <3>5
    <2>4. CASE i = len
      <3>1. longer[i] = from - 1 /\ longer[i + 1] = Space
        <4>1. i + 1 \in 1 .. all
          BY <1>2, <2>4
        <4> QED
          BY <1>2, <1>4, <2>2, <2>4, <4>1
      <3> QED
        BY <2>1, <3>1
    <2>5. CASE i = len + 1
      <3>1. i - 1 \in 1 .. all /\ i + 1 \in 1 .. all /\ i # all /\ i # 1
        BY <1>2, <2>5
      <3>2. longer[i] = Space /\ longer[i - 1] = from - 1 /\ longer[i + 1] = run[1]
        BY <1>2, <1>4, <2>2, <2>5, <3>1
      <3> QED
        BY <1>1, <3>1, <3>2
    <2>6. CASE i > len + 1
      <3> DEFINE j == i - (len + 1)
      <3>1. j \in 1 .. Len(run) /\ (i # all <=> j # Len(run))
        BY <1>2, <2>6
      <3>2. longer[i] = run[j]
        BY <1>2, <1>4, <2>6
      <3>3. i # all => longer[i + 1] = run[j + 1]
        <4>1. i # all => i + 1 \in 1 .. all /\ (i + 1) - (len + 1) = j + 1
          BY <1>2
        <4> QED
          BY <1>2, <1>4, <2>6, <4>1
      <3>4. run[j] # Space
        BY <3>1, <1>1, <2>1 DEF run, Run
      <3> HIDE DEF j
      <3> QED
        BY <1>1, <3>1, <3>2, <3>3, <3>4 DEF Held
    <2> QED
      BY <1>2, <2>3, <2>4, <2>5, <2>6
  <1>7. longer[1] = chunk[1] /\ longer[all] = run[Len(run)]
    <2>1. 1 \in 1 .. all /\ all \in 1 .. all /\ all > len + 1 /\ all - (len + 1) = Len(run)
      BY <1>2
    <2> QED
      BY <1>2, <1>4, <2>1
  <1>8. Held(longer, most, ends, n)
    BY <1>4, <1>5, <1>6 DEF Held
  <1> QED
    BY <1>1, <1>4, <1>7, <1>8 DEF LastLetter, longer

\* The pieces of a long word.
LEMMA TextMany ==
  ASSUME NEW most \in Nat \ {0}, NEW n \in Nat, NEW ends, NEW all, NEW last \in Nat,
         TextSoFar(all, most, ends, n, last), NEW whole \in Nat, last + whole * most <= n,
         \A e \in last + 1 .. n - 1 : e \notin ends
  PROVE  TextSoFar(all \o [i \in 1 .. whole |-> Run(last + (i - 1) * most + 1, last + i * most)],
                   most, ends, n, last + whole * most)
  <1> DEFINE Piece(i) == Run(last + (i - 1) * most + 1, last + i * most)
             pieces == [i \in 1 .. whole |-> Piece(i)]
             more == all \o pieces
  <1>1. ASSUME NEW i \in 1 .. whole
        PROVE  /\ Held(Piece(i), most, ends, n) /\ CutWell(Piece(i), most, ends)
               /\ Piece(i)[1] = last + (i - 1) * most + 1 /\ LastLetter(Piece(i)) = last + i * most
    <2> DEFINE from == last + (i - 1) * most + 1
               to == last + i * most
    <2>1. (i - 1) * most = i * most - most
      OBVIOUS
    <2>2. i * most <= whole * most
      OBVIOUS
    <2>3. (i - 1) * most \in Nat /\ i * most \in Nat /\ whole * most \in Nat
      OBVIOUS
    <2>4. from \in 1 .. n /\ to \in from .. n /\ to - from + 1 = most
      BY <2>1, <2>2, <2>3
    <2>5. Piece(i) = Run(from, to) /\ last + 1 <= from
      BY <2>3
    <2> HIDE DEF from, to, Piece
    <2>6. /\ Held(Run(from, to), most, ends, n) /\ Len(Run(from, to)) = most
          /\ Run(from, to)[1] = from /\ LastLetter(Run(from, to)) = to
      <3>1. \A e \in from .. to - 1 : e \notin ends
        <4> TAKE e \in from .. to - 1
        <4>1. e \in last + 1 .. n - 1
          BY <2>4, <2>5
        <4> QED
          BY <4>1
      <3>2. to - from < most
        BY <2>4
      <3>3. from \in 1 .. n /\ to \in from .. n
        BY <2>4
      <3>4. /\ Held(Run(from, to), most, ends, n) /\ Len(Run(from, to)) = to - from + 1
            /\ Run(from, to)[1] = from /\ LastLetter(Run(from, to)) = to
        <4>1. PICK f : f = from
          OBVIOUS
        <4>2. PICK t : t = to
          OBVIOUS
        <4>3. /\ Held(Run(f, t), most, ends, n) /\ Len(Run(f, t)) = t - f + 1
              /\ Run(f, t)[1] = f /\ LastLetter(Run(f, t)) = t
          BY <3>1, <3>2, <3>3, <4>1, <4>2, RunHeld
        <4> QED
          BY <4>1, <4>2, <4>3
      <3> QED
        BY <2>4, <3>4
    <2>7. /\ Held(Piece(i), most, ends, n) /\ CutWell(Piece(i), most, ends)
          /\ Piece(i)[1] = from /\ LastLetter(Piece(i)) = to
      BY <2>5, <2>6 DEF CutWell
    <2> QED
      BY <2>7 DEF from, to
  <1>2. pieces \in Seq(Seq(Glyphs(n))) /\ Len(pieces) = whole
    <2>1. \A i \in 1 .. whole : Piece(i) \in Seq(Glyphs(n))
      BY <1>1 DEF Held
    <2> HIDE DEF Piece
    <2> QED
      BY <2>1
  <1>3. \A i \in 1 .. whole : pieces[i] = Piece(i)
    OBVIOUS
  <1> HIDE DEF pieces
  <1>4. all \in Seq(Seq(Glyphs(n))) /\ Len(all) \in Nat
    BY DEF TextSoFar
  <1>5. /\ more \in Seq(Seq(Glyphs(n))) /\ Len(more) = Len(all) + whole
        /\ \A i \in 1 .. Len(all) + whole : more[i] = IF i <= Len(all) THEN all[i] ELSE pieces[i - Len(all)]
    BY <1>2, <1>4, ConcatProperties
  <1> HIDE DEF Piece, more
  <1>9. \A i \in 1 .. whole : more[Len(all) + i] = Piece(i)
    <2> TAKE i \in 1 .. whole
    <2>1. /\ Len(all) + i \in 1 .. Len(all) + whole /\ ~(Len(all) + i <= Len(all))
          /\ (Len(all) + i) - Len(all) = i
      BY <1>4
    <2>2. more[Len(all) + i] = pieces[(Len(all) + i) - Len(all)]
      BY <1>5, <2>1
    <2> QED
      BY <1>3, <2>1, <2>2
  <1>6. ASSUME NEW i \in 1 .. Len(more)
        PROVE  /\ Held(more[i], most, ends, n) /\ CutWell(more[i], most, ends)
               /\ more[i][1] = IF i = 1 THEN 1 ELSE LastLetter(more[i - 1]) + 1
    <2>1. CASE i <= Len(all)
      <3>1. i \in 1 .. Len(all)
        BY <1>4, <1>5, <2>1
      <3>2. /\ Held(all[i], most, ends, n) /\ CutWell(all[i], most, ends)
            /\ all[i][1] = IF i = 1 THEN 1 ELSE LastLetter(all[i - 1]) + 1
        BY <3>1 DEF TextSoFar
      <3>3. more[i] = all[i]
        BY <1>4, <1>5, <2>1
      <3>4. i # 1 => more[i - 1] = all[i - 1]
        <4>1. i # 1 => i - 1 \in 1 .. Len(all) + whole /\ i - 1 <= Len(all)
          BY <1>4, <1>5, <2>1
        <4> QED
          BY <1>5, <4>1
      <3> QED
        BY <3>2, <3>3, <3>4
    <2>2. CASE i > Len(all)
      <3> DEFINE j == i - Len(all)
      <3>1. j \in 1 .. whole
        BY <1>4, <1>5, <2>2
      <3>2. more[i] = Piece(j)
        <4>1. i = Len(all) + j
          BY <1>4, <1>5
        <4> QED
          BY <1>9, <3>1, <4>1
      <3>3. CASE j = 1
        <4>1. Piece(j)[1] = last + 1
          BY <1>1, <3>1, <3>3
        <4>2. CASE i = 1
          <5>1. all = <<>>
            BY <1>4, <3>3, <4>2, EmptySeq
          <5>2. last = 0
            BY <5>1 DEF TextSoFar
          <5> QED
            BY <1>1, <3>1, <3>2, <4>1, <4>2, <5>2
        <4>3. CASE i # 1
          <5>1. i - 1 = Len(all) /\ i - 1 \in 1 .. Len(all) + whole /\ all # <<>>
            BY <1>4, <1>5, <3>3, <4>3
          <5>2. more[i - 1] = all[Len(all)]
            BY <1>5, <5>1
          <5>3. last = LastLetter(all[Len(all)])
            BY <5>1 DEF TextSoFar
          <5> QED
            BY <1>1, <3>1, <3>2, <4>1, <4>3, <5>2, <5>3
        <4> QED
          BY <4>2, <4>3
      <3>4. CASE j # 1
        <4>1. j - 1 \in 1 .. whole /\ i # 1
          BY <1>4, <3>1, <3>4
        <4>2. more[i - 1] = Piece(j - 1)
          <5>1. i - 1 = Len(all) + (j - 1)
            BY <1>4, <1>5
          <5> QED
            BY <1>9, <4>1, <5>1
        <4>3. LastLetter(Piece(j - 1)) = last + (j - 1) * most
          BY <1>1, <4>1
        <4>4. Piece(j)[1] = last + (j - 1) * most + 1
          BY <1>1, <3>1
        <4> QED
          BY <1>1, <3>1, <3>2, <4>1, <4>2, <4>3, <4>4
      <3> QED
        BY <3>3, <3>4
    <2> QED
      BY <1>4, <1>5, <2>1, <2>2
  <1>7. last + whole * most = IF more = <<>> THEN 0 ELSE LastLetter(more[Len(more)])
    <2>1. CASE whole = 0
      <3>1. pieces = <<>> /\ more = all
        BY <1>2, <1>4, <2>1, EmptySeq, ConcatEmptySeq DEF more
      <3>2. last + whole * most = last
        BY <2>1
      <3> QED
        BY <3>1, <3>2 DEF TextSoFar
    <2>2. CASE whole # 0
      <3>1. /\ Len(more) \in 1 .. Len(all) + whole /\ Len(more) > Len(all) /\ Len(more) - Len(all) = whole
            /\ whole \in 1 .. whole
        BY <1>4, <1>5, <2>2
      <3>2. more[Len(more)] = Piece(whole)
        <4>1. Len(more) = Len(all) + whole
          BY <1>5
        <4> QED
          BY <1>9, <3>1, <4>1
      <3>3. LastLetter(Piece(whole)) = last + whole * most
        BY <1>1, <3>1
      <3>4. more # <<>>
        BY <1>4, <3>1, EmptySeq
      <3> QED
        BY <3>2, <3>3, <3>4
    <2> QED
      BY <2>1, <2>2
  <1>8. TextSoFar(more, most, ends, n, last + whole * most)
    BY <1>5, <1>6, <1>7 DEF TextSoFar
  <1> QED
    BY <1>8 DEF more, pieces, Piece

\* A chunk of the letters up to the end of a word.
LEMMA TextEnded ==
  ASSUME NEW most \in Nat \ {0}, NEW ends, NEW last \in Nat, NEW m \in Nat, last < m, m - last <= most,
         m \in ends, \A e \in last + 1 .. m - 1 : e \notin ends,
         NEW all, TextSoFar(all, most, ends, m, last)
  PROVE  /\ Run(last + 1, m) \in Seq(Glyphs(m)) /\ Run(last + 1, m) # <<>>
         /\ TextSoFar(Append(all, Run(last + 1, m)), most, ends, m, m)
  <1>1. PICK from : from = last + 1
    OBVIOUS
  <1>2. from \in 1 .. m /\ m \in from .. m /\ m - from < most /\ \A e \in from .. m - 1 : e \notin ends
    BY <1>1
  <1>3. Held(Run(from, m), most, ends, m) /\ Run(from, m)[1] = from /\ LastLetter(Run(from, m)) = m
    BY <1>2, RunHeld
  <1>4. CutWell(Run(from, m), most, ends)
    BY <1>3 DEF CutWell
  <1>5. TextSoFar(Append(all, Run(from, m)), most, ends, m, m)
    BY <1>1, <1>3, <1>4, TextMore
  <1>6. Run(from, m) \in Seq(Glyphs(m)) /\ Run(from, m) # <<>>
    BY <1>3 DEF Held
  <1> QED
    BY <1>1, <1>5, <1>6

LEMMA InitSplitInv == InitSplit => SplitInv
  <1> SUFFICES ASSUME InitSplit PROVE SplitInv
    OBVIOUS
  <1>1. /\ size \in Nat \ {0} /\ letters = 0 /\ wordEnds = {} /\ closed = <<>> /\ current = <<>>
    BY RetrievalAssumption DEF InitSplit
  <1>2. Chunks = <<>> /\ Len(Chunks) = 0
    BY <1>1 DEF Chunks
  <1>3. TextSoFar(Chunks, size, wordEnds, letters, letters)
    BY <1>1, <1>2 DEF TextSoFar
  <1> QED
    BY <1>1, <1>3 DEF SplitInv

LEMMA AddWordStep ==
  ASSUME NEW length \in 1 .. MaxWord, SplitInv, AddWord(length)
  PROVE  SplitInv'
  <1> DEFINE m == letters + length
             ends == wordEnds \cup {m}
             whole == length \div size
  <1>1. /\ size \in Nat \ {0} /\ letters \in Nat /\ length \in Nat \ {0} /\ m \in Nat /\ letters < m
        /\ wordEnds \in SUBSET (1 .. letters)
        /\ letters # 0 => letters \in wordEnds
        /\ TextSoFar(Chunks, size, wordEnds, letters, letters)
    BY RetrievalAssumption DEF SplitInv
  <1>2. size' = size /\ letters' = m /\ wordEnds' = ends
    BY DEF AddWord
  <1>3. ends \in SUBSET (1 .. m) /\ m \in ends /\ m # 0
    BY <1>1
  <1>4. \A e \in letters + 1 .. m - 1 : e \notin ends
    BY <1>1
  <1>5. TextSoFar(Chunks, size, ends, m, letters)
    BY <1>1, TextLater
  <1>6. closed \in Seq(Seq(Glyphs(m))) /\ current \in Seq(Glyphs(m))
    <2>1. Glyphs(letters) \subseteq Glyphs(m)
      BY <1>1 DEF Glyphs
    <2>2. closed \in Seq(Seq(Glyphs(letters))) /\ current \in Seq(Glyphs(letters))
      BY DEF SplitInv
    <2>3. Seq(Glyphs(letters)) \subseteq Seq(Glyphs(m))
      BY <2>1
    <2> QED
      BY <2>2, <2>3
  <1> HIDE DEF m, ends
  <1>7. ASSUME closed' \in Seq(Seq(Glyphs(m))), current' \in Seq(Glyphs(m)),
               TextSoFar(Chunks', size, ends, m, m)
        PROVE  SplitInv'
    BY <1>1, <1>2, <1>3, <1>7 DEF SplitInv
  <1>8. CASE current # <<>> /\ HasRoom(length)
    <2> DEFINE longer == current \o <<Space>> \o Run(letters + 1, m)
    <2>1. closed' = closed /\ current' = longer
      BY <1>8 DEF AddWord, m
    <2>2. Chunks = Append(closed, current)
      BY <1>8 DEF Chunks
    <2>3. /\ TextSoFar(closed, size, ends, m, current[1] - 1)
          /\ Held(current, size, ends, m) /\ LastLetter(current) = letters
      BY <1>1, <1>5, <1>6, <2>2, TextLess
    <2>4. letters # 0 /\ letters \in ends
      <3>1. LastLetter(current) # 0
        <4>1. Space # 0
          BY RetrievalAssumption
        <4> QED
          BY <2>3, <4>1 DEF Held, LastLetter, Glyphs
      <3> QED
        BY <1>1, <2>3, <3>1 DEF ends
    <2>5. Held(longer, size, ends, m) /\ longer[1] = current[1] /\ LastLetter(longer) = m
      <3>1. /\ letters + 1 \in 1 .. m /\ m \in letters + 1 .. m /\ (letters + 1) - 1 = letters
            /\ m - (letters + 1) + 1 = length
        BY <1>1 DEF m
      <3>2. Len(current) + 1 + length <= size
        BY <1>8 DEF HasRoom
      <3> QED
        <4>1. /\ letters + 1 \in 1 .. m /\ m \in letters + 1 .. m /\ (letters + 1) - 1 \in ends
              /\ LastLetter(current) = (letters + 1) - 1
              /\ Len(current) + 1 + (m - (letters + 1) + 1) <= size
          <5>1. (letters + 1) - 1 = letters /\ m - (letters + 1) + 1 = length
            BY <3>1
          <5> QED
            BY <2>3, <2>4, <3>1, <3>2, <5>1
        <4> QED
          BY <1>1, <1>4, <2>3, <4>1, Joined, SMTT(20)
    <2> HIDE DEF longer
    <2>6. current[1] \in Nat /\ current[1] - 1 \in Nat
      <3>1. current[1] # Space /\ current[1] \in Glyphs(m)
        BY <1>1, <2>3 DEF Held
      <3> QED
        BY <1>1, <3>1 DEF Glyphs
    <2>7. longer[1] = (current[1] - 1) + 1
      BY <2>5, <2>6
    <2>8. CutWell(longer, size, ends)
      BY <1>3, <2>5 DEF CutWell
    <2>9. TextSoFar(Append(closed, longer), size, ends, m, m)
      BY <1>1, <2>3, <2>5, <2>6, <2>7, <2>8, TextMore
    <2>10. longer \in Seq(Glyphs(m)) /\ longer # <<>>
      BY <2>5 DEF Held
    <2>11. Chunks' = Append(closed, longer)
      BY <2>1, <2>10 DEF Chunks
    <2> QED
      BY <1>6, <1>7, <2>1, <2>9, <2>10, <2>11
  <1>9. CASE ~(current # <<>> /\ HasRoom(length)) /\ length > size
    <2> DEFINE pieces == [i \in 1 .. whole |-> Run(letters + (i - 1) * size + 1, letters + i * size)]
               all == Chunks \o pieces
               rest == Run(letters + whole * size + 1, m)
    <2>1. closed' = all /\ current' = rest
      BY <1>9 DEF AddWord, Pieces, Rest, m
    <2>2. /\ whole \in Nat /\ whole * size \in Nat
          /\ whole * size <= length /\ length < whole * size + size
      BY <1>1
    <2> HIDE DEF whole
    <2>3. letters + whole * size <= m /\ letters + whole * size \in Nat
      BY <1>1, <2>2 DEF m
    <2>4. TextSoFar(all, size, ends, m, letters + whole * size)
      BY <1>1, <1>4, <1>5, <2>2, <2>3, TextMany
    <2> HIDE DEF all
    <2>5. all \in Seq(Seq(Glyphs(m)))
      BY <2>4 DEF TextSoFar
    <2>6. CASE whole * size = length
      <3>1. rest = <<>>
        <4>1. letters + whole * size + 1 = m + 1
          BY <1>1, <2>6 DEF m
        <4>2. m - (m + 1) + 1 = 0
          BY <1>1
        <4>3. rest = [i \in 1 .. 0 |-> (m + 1) + i - 1]
          BY <4>1, <4>2 DEF Run
        <4> QED
          BY <4>3
      <3>2. Chunks' = all
        BY <2>1, <3>1 DEF Chunks
      <3>3. letters + whole * size = m
        BY <2>6 DEF m
      <3>4. current' \in Seq(Glyphs(m))
        <4> HIDE DEF rest
        <4> QED
          BY <2>1, <3>1
      <3> QED
        BY <1>7, <2>1, <2>4, <2>5, <3>2, <3>3, <3>4
    <2>7. CASE whole * size # length
      <3> DEFINE last == letters + whole * size
      <3>1. last \in Nat /\ last < m /\ m - last <= size
        BY <1>1, <2>2, <2>3, <2>7 DEF m
      <3>2. \A e \in last + 1 .. m - 1 : e \notin ends
        BY <1>1, <1>4, <2>2
      <3>3. TextSoFar(all, size, ends, m, last)
        BY <2>4
      <3>4. rest = Run(last + 1, m)
        OBVIOUS
      <3> HIDE DEF last, rest
      <3>5. /\ rest \in Seq(Glyphs(m)) /\ rest # <<>>
            /\ TextSoFar(Append(all, rest), size, ends, m, m)
        BY <1>1, <1>3, <3>1, <3>2, <3>3, <3>4, TextEnded
      <3>6. Chunks' = Append(all, rest)
        BY <2>1, <3>5 DEF Chunks
      <3>7. current' = rest
        BY <2>1 DEF rest, last
      <3> QED
        BY <1>7, <2>1, <2>5, <3>5, <3>6, <3>7
    <2> QED
      BY <2>6, <2>7
  <1>10. CASE ~(current # <<>> /\ HasRoom(length)) /\ length <= size
    <2> DEFINE run == Run(letters + 1, m)
    <2>1. closed' = Chunks /\ current' = run
      BY <1>1, <1>10 DEF AddWord, m
    <2>2. m - letters <= size
      BY <1>1, <1>10 DEF m
    <2>3. /\ run \in Seq(Glyphs(m)) /\ run # <<>>
          /\ TextSoFar(Append(Chunks, run), size, ends, m, m)
      BY <1>1, <1>3, <1>4, <1>5, <2>2, TextEnded
    <2> HIDE DEF run
    <2>4. Chunks' = Append(Chunks, run)
      BY <2>1, <2>3 DEF Chunks
    <2>5. Chunks \in Seq(Seq(Glyphs(m)))
      BY <1>5 DEF TextSoFar
    <2> QED
      BY <1>7, <2>1, <2>3, <2>4, <2>5
  <1> QED
    BY <1>1, <1>8, <1>9, <1>10

LEMMA NextSplitInv == SplitInv /\ [NextSplit]_splitVars => SplitInv'
  <1> SUFFICES ASSUME SplitInv, [NextSplit]_splitVars PROVE SplitInv'
    OBVIOUS
  <1>1. CASE UNCHANGED splitVars
    <2>1. /\ size' = size /\ letters' = letters /\ wordEnds' = wordEnds
          /\ closed' = closed /\ current' = current
      BY <1>1 DEF splitVars
    <2>2. Chunks' = Chunks
      BY <2>1 DEF Chunks
    <2> QED
      BY <2>1, <2>2 DEF SplitInv
  <1> QED
    BY <1>1, AddWordStep DEF NextSplit

LEMMA SplitInvKeepsText == SplitInv => ChunksKeepTheText
  <1> SUFFICES ASSUME SplitInv PROVE ChunksKeepTheText
    OBVIOUS
  <1>1. TextSoFar(Chunks, size, wordEnds, letters, letters) /\ size \in Nat
    BY DEF SplitInv
  <1>2. Chunks \in Seq(Seq(Glyphs(letters)))
    BY <1>1 DEF TextSoFar
  <1>3. DOMAIN Chunks = 1 .. Len(Chunks)
    BY <1>2
  <1>4. ASSUME NEW i \in DOMAIN Chunks PROVE HoldsItsLetters(Chunks[i])
    <2> DEFINE chunk == Chunks[i]
    <2>1. Held(chunk, size, wordEnds, letters)
      BY <1>1, <1>3 DEF TextSoFar
    <2> HIDE DEF chunk
    <2>2. Len(chunk) \in 1 .. size /\ DOMAIN chunk = 1 .. Len(chunk) /\ Len(chunk) \in Nat
      BY <2>1 DEF Held
    <2> DEFINE len == Len(chunk)
    <2>4. HoldsItsLetters(chunk)
      <3>1. ASSUME NEW j \in DOMAIN chunk
            PROVE  IF chunk[j] = Space
                   THEN /\ j - 1 \in DOMAIN chunk /\ j + 1 \in DOMAIN chunk
                        /\ chunk[j - 1] \in wordEnds
                        /\ chunk[j + 1] = chunk[j - 1] + 1
                   ELSE j + 1 \in DOMAIN chunk =>
                          IF chunk[j] \in wordEnds THEN chunk[j + 1] = Space ELSE chunk[j + 1] = chunk[j] + 1
        <4>1. j \in 1 .. len
          BY <2>2
        <4>2. /\ chunk[j] = Space => /\ j # 1 /\ j # len /\ chunk[j - 1] \in wordEnds
                                     /\ chunk[j + 1] = chunk[j - 1] + 1
              /\ (chunk[j] # Space /\ j # len) =>
                    IF chunk[j] \in wordEnds THEN chunk[j + 1] = Space ELSE chunk[j + 1] = chunk[j] + 1
          BY <2>1, <4>1 DEF Held
        <4>3. DOMAIN chunk = 1 .. len
          BY <2>2
        <4>6. len \in Nat
          BY <2>2
        <4> HIDE DEF len, chunk
        <4>4. j # 1 => j - 1 \in 1 .. len
          BY <4>1, <4>6
        <4>5. (j # len => j + 1 \in 1 .. len) /\ (j = len => ~(j + 1 \in 1 .. len))
          BY <4>1, <4>6
        <4> QED
          BY <4>2, <4>3, <4>4, <4>5
      <3> QED
        BY <2>2, <3>1 DEF HoldsItsLetters
    <2> QED
      BY <2>4 DEF chunk
  <1> QED
    BY <1>1, <1>3, <1>4 DEF ChunksKeepTheText, TextSoFar, CutWell

\* Wherever a page ends and however long its words are, its chunks are its
\* text, cut inside no word that fits into one (lib.rs, split_text_chunks).
THEOREM NoLetterIsLost == SpecSplit => []ChunksKeepTheText
  <1>1. SpecSplit => []SplitInv
    BY InitSplitInv, NextSplitInv, PTL DEF SpecSplit
  <1> QED
    BY <1>1, SplitInvKeepsText, PTL

-----------------------------------------------------------------------------
(* The index.  Each of the two files is of the document that is said to    *)
(* have written it, or is not there.                                       *)

IndexInv ==
  /\ files = [index |-> files.index, manifest |-> files.manifest]
  /\ files.index # NoFile => indexed \in Document /\ files.index = TextsOf(indexed)
  /\ files.manifest # NoFile => finished \in Document /\ files.manifest = RagManifest(finished)
  /\ DOMAIN building \subseteq Document
  /\ building \in [DOMAIN building -> {0, 1}]

LEMMA InitIndexInv == InitIndex => IndexInv
  BY DEF InitIndex, IndexInv

LEMMA ReplaceFileStep ==
  ASSUME IndexInv, NEW document \in Document, ReplaceFile(document)
  PROVE  IndexInv'
  <1>1. /\ document \in DOMAIN building /\ building[document] \in {0, 1}
        /\ files = [index |-> files.index, manifest |-> files.manifest]
        /\ DOMAIN building \subseteq Document
        /\ building \in [DOMAIN building -> {0, 1}]
    BY DEF ReplaceFile, IndexInv
  <1>2. CASE building[document] = 0
    <2>1. FileOrder[building[document] + 1] = "index"
      BY <1>2 DEF FileOrder
    <2>2. /\ files' = [files EXCEPT !["index"] = TextsOf(document)]
          /\ indexed' = document /\ finished' = finished
          /\ building' = [building EXCEPT ![document] = 1]
      BY <1>2, <2>1 DEF ReplaceFile
    <2>3. files' = [index |-> TextsOf(document), manifest |-> files.manifest]
      BY <1>1, <2>2
    <2>4. DOMAIN building' = DOMAIN building /\ building' \in [DOMAIN building -> {0, 1}]
      BY <1>1, <2>2
    <2> QED
      BY <1>1, <2>2, <2>3, <2>4 DEF IndexInv
  <1>3. CASE building[document] = 1
    <2>1. FileOrder[building[document] + 1] = "manifest"
      BY <1>3 DEF FileOrder
    <2>2. /\ files' = [files EXCEPT !["manifest"] = RagManifest(document)]
          /\ indexed' = indexed /\ finished' = document
          /\ building' = StillBuilding(document)
      BY <1>3, <2>1 DEF ReplaceFile
    <2>3. files' = [index |-> files.index, manifest |-> RagManifest(document)]
      BY <1>1, <2>2
    <2>4. DOMAIN building' \subseteq DOMAIN building /\ building' \in [DOMAIN building' -> {0, 1}]
      BY <1>1, <2>2 DEF StillBuilding
    <2> QED
      BY <1>1, <2>2, <2>3, <2>4 DEF IndexInv
  <1> QED
    BY <1>1, <1>2, <1>3

LEMMA NextIndexInv == IndexInv /\ [NextIndex]_indexVars => IndexInv'
  <1> SUFFICES ASSUME IndexInv, [NextIndex]_indexVars PROVE IndexInv'
    OBVIOUS
  <1>1. CASE UNCHANGED indexVars
    <2>1. files' = files /\ building' = building /\ indexed' = indexed /\ finished' = finished
      BY <1>1 DEF indexVars
    <2> QED
      BY <2>1 DEF IndexInv
  <1>2. ASSUME NEW document \in Document, LocalRagIndex(document) PROVE IndexInv'
    <2>1. /\ files' = files /\ indexed' = indexed /\ finished' = finished
          /\ building' = [d \in DOMAIN building \cup {document} |-> IF d = document THEN 0 ELSE building[d]]
      BY <1>2 DEF LocalRagIndex
    <2>2. DOMAIN building' \subseteq Document /\ building' \in [DOMAIN building' -> {0, 1}]
      BY <2>1 DEF IndexInv
    <2> QED
      BY <2>1, <2>2 DEF IndexInv
  <1>3. ASSUME NEW document \in Document, BuildStops(document) PROVE IndexInv'
    <2>1. files' = files /\ indexed' = indexed /\ finished' = finished /\ building' = StillBuilding(document)
      BY <1>3 DEF BuildStops
    <2>2. DOMAIN building' \subseteq Document /\ building' \in [DOMAIN building' -> {0, 1}]
      BY <2>1 DEF IndexInv, StillBuilding
    <2> QED
      BY <2>1, <2>2 DEF IndexInv
  <1>4. ASSUME NEW file \in {"index", "manifest"}, LoseFile(file) PROVE IndexInv'
    <2>1. /\ files' = [files EXCEPT ![file] = NoFile]
          /\ indexed' = indexed /\ finished' = finished /\ building' = building
      BY <1>4 DEF LoseFile
    <2>2. files' = [index |-> IF file = "index" THEN NoFile ELSE files.index,
                    manifest |-> IF file = "manifest" THEN NoFile ELSE files.manifest]
      BY <2>1 DEF IndexInv
    <2> QED
      BY <2>1, <2>2 DEF IndexInv
  <1> QED
    BY <1>1, <1>2, <1>3, <1>4, ReplaceFileStep DEF NextIndex

LEMMA AnswersByText ==
  ASSUME NEW document \in Document, NEW query, files.index = TextsOf(document),
         files.manifest = RagManifest(document)
  PROVE  {files.manifest.ids[key] : key \in {k \in DOMAIN files.index : files.index[k] = query}}
           = TheirChunks(document, query)
  <1>1. /\ DOMAIN files.index = DOMAIN document.chunks
        /\ \A k \in DOMAIN document.chunks : files.index[k] = document.chunks[k].text
    BY DEF TextsOf
  <1>2. \A k \in DOMAIN document.chunks : files.manifest.ids[k] = document.chunks[k].id
    BY DEF RagManifest, Ids
  <1>3. {k \in DOMAIN files.index : files.index[k] = query} =
          {j \in DOMAIN document.chunks : document.chunks[j].text = query}
    BY <1>1
  <1> QED
    BY <1>2, <1>3 DEF TheirChunks

LEMMA IndexInvAnswers == IndexInv => AnswersAreTheirChunks
  <1> SUFFICES ASSUME IndexInv, NEW document \in Document, NEW query
               PROVE  LET answers == LocalRagQuery(document, query) IN
                      /\ answers # {} => finished # NoFile /\ RagManifest(document) = RagManifest(finished)
                      /\ document = indexed => answers \subseteq TheirChunks(document, query)
                      /\ (document = indexed /\ document = finished
                           /\ NoFile \notin {files.index, files.manifest}) =>
                            answers = TheirChunks(document, query)
    BY DEF AnswersAreTheirChunks
  <1> DEFINE found == {files.manifest.ids[key] : key \in {k \in DOMAIN files.index : files.index[k] = query}}
  <1>1. LocalRagQuery(document, query) = IF ValidateExisting(document) THEN found ELSE {}
    BY DEF LocalRagQuery
  <1>2. ValidateExisting(document) =>
          /\ finished \in Document /\ finished # NoFile /\ RagManifest(document) = RagManifest(finished)
          /\ files.manifest = RagManifest(document)
          /\ indexed \in Document /\ files.index = TextsOf(indexed)
    BY RetrievalAssumption DEF ValidateExisting, IndexInv
  <1>3. (ValidateExisting(document) /\ document = indexed) => found = TheirChunks(document, query)
    BY <1>2, AnswersByText
  <1>4. ASSUME document = indexed, document = finished, NoFile \notin {files.index, files.manifest}
        PROVE  ValidateExisting(document)
    <2>1. files.manifest = RagManifest(document) /\ files.index = TextsOf(document)
      BY <1>4 DEF IndexInv
    <2>2. Len(TextsOf(document)) = Len(Ids(document))
      <3>1. PICK n : n = Len(document.chunks)
        OBVIOUS
      <3>2. n \in Nat /\ DOMAIN document.chunks = 1 .. n
        BY <3>1, RetrievalAssumption
      <3>3. /\ TextsOf(document) = [i \in 1 .. n |-> document.chunks[i].text]
            /\ Ids(document) = [i \in 1 .. n |-> document.chunks[i].id]
        BY <3>2 DEF TextsOf, Ids
      <3> QED
        BY <3>2, <3>3
    <2> QED
      BY <1>4, <2>1, <2>2 DEF ValidateExisting
  <1> HIDE DEF found
  <1> QED
    BY <1>1, <1>2, <1>3, <1>4

\* Whatever is built at once, stopped, lost or built again, an answer is for
\* the build that finished last, and right where the vectors are its own
\* (rag.rs, local_rag_index, local_rag_query).
THEOREM AnswersAreOfTheIndex == SpecIndex => []AnswersAreTheirChunks
  <1>1. SpecIndex => []IndexInv
    BY InitIndexInv, NextIndexInv, PTL DEF SpecIndex
  <1> QED
    BY <1>1, IndexInvAnswers, PTL

\* Retrieval answers with text of the document: pages are cut without loss
\* while indexes are built, interrupted and asked (lib.rs, rag.rs, api.rs).
THEOREM RetrievalIsSound == SpecSplit /\ SpecIndex => []RetrievalKeepsTheText
  BY NoLetterIsLost, AnswersAreOfTheIndex, PTL DEF RetrievalKeepsTheText

-----------------------------------------------------------------------------
(* The content of a page.  A text that gets a font moves what follows it by*)
(* two operators; what is counted, and which font is selected or in effect *)
(* at every other text, moves with it.                                     *)

LEMMA LengthOf ==
  ASSUME NEW n \in Nat, NEW s, IsOf(s, n)
  PROVE  Len(s) = n /\ DOMAIN s = 1 .. n
  <1> DEFINE R == {s[i] : i \in 1 .. n}
  <1>1. s \in [1 .. n -> R] /\ DOMAIN s = 1 .. n
    BY DEF IsOf
  <1> HIDE DEF R
  <1>2. s \in Seq(R)
    BY <1>1, SeqDef
  <1> QED
    BY <1>1, <1>2

\* The operators op up to i.
Those(content, op, i) == {k \in 1 .. i : content[k].op = op}

LEMMA ThoseAreFinite ==
  ASSUME NEW c, NEW op, NEW i \in Nat
  PROVE  /\ IsFiniteSet(Those(c, op, i)) /\ Those(c, op, i) \subseteq 1 .. i
         /\ Count(c, op, i) = Cardinality(Those(c, op, i)) /\ Count(c, op, i) \in Nat
  <1>1. IsFiniteSet(1 .. i)
    BY FS_Interval
  <1>2. Those(c, op, i) \subseteq 1 .. i /\ Count(c, op, i) = Cardinality(Those(c, op, i))
    BY DEF Those, Count
  <1> HIDE DEF Those
  <1>3. IsFiniteSet(Those(c, op, i))
    BY <1>1, <1>2, FS_Subset
  <1> QED
    BY <1>2, <1>3, FS_CardinalityType

\* Another operator more does not count.
LEMMA CountSkips ==
  ASSUME NEW c, NEW op, NEW i \in Nat \ {0}, c[i].op # op
  PROVE  Count(c, op, i) = Count(c, op, i - 1)
  <1>1. {k \in 1 .. i : c[k].op = op} = {k \in 1 .. i - 1 : c[k].op = op}
    OBVIOUS
  <1> QED
    BY <1>1 DEF Count

\* Contents with the same operators have the same counts.
LEMMA CountAgrees ==
  ASSUME NEW c, NEW d, NEW op, NEW i \in Nat, \A k \in 1 .. i : d[k].op = c[k].op
  PROVE  Count(d, op, i) = Count(c, op, i)
  <1>1. {k \in 1 .. i : d[k].op = op} = {k \in 1 .. i : c[k].op = op}
    OBVIOUS
  <1> QED
    BY <1>1 DEF Count

\* Two texts of one content are told apart by their occurrence.
LEMMA OccurrenceTells ==
  ASSUME NEW c, NEW n \in Nat, DOMAIN c = 1 .. n,
         NEW p \in Shows(c), NEW q \in Shows(c), Occurrence(c, p) = Occurrence(c, q)
  PROVE  p = q
  <1>1. /\ p \in Nat /\ q \in Nat /\ p \in 1 .. p /\ q \in 1 .. q
        /\ c[p].op = "Show" /\ c[q].op = "Show"
    BY DEF Shows
  <1>2. ASSUME NEW a \in Nat, NEW b \in Nat, c[b].op = "Show", b \in 1 .. b, a < b
        PROVE  Occurrence(c, a) # Occurrence(c, b)
    <2>1. Those(c, "Show", a) \subseteq Those(c, "Show", b)
      BY <1>2 DEF Those
    <2>2. b \in Those(c, "Show", b) /\ b \notin Those(c, "Show", a)
      BY <1>2 DEF Those
    <2>3. IsFiniteSet(Those(c, "Show", b)) /\ Occurrence(c, b) = Cardinality(Those(c, "Show", b))
      BY ThoseAreFinite DEF Occurrence
    <2>4. Occurrence(c, a) = Cardinality(Those(c, "Show", a))
      BY ThoseAreFinite DEF Occurrence
    <2> QED
      BY <2>1, <2>2, <2>3, <2>4, FS_Subset
  <1> QED
    BY <1>1, <1>2

\* Where the operator i is when the one at position is surrounded by two.
Moved(i, position) == IF i < position THEN i ELSE IF i = position THEN i + 1 ELSE i + 2

\* d is c with the text at position surrounded by two font selections.
Embeds(c, n, position, d) ==
  /\ n \in Nat /\ IsOf(c, n) /\ IsOf(d, n + 2)
  /\ position \in 1 .. n
  /\ c[position].op = "Show" /\ d[position + 1].op = "Show"
  /\ d[position].op = "Tf" /\ d[position + 2].op = "Tf"
  /\ \A i \in 1 .. n : i # position => d[Moved(i, position)] = c[i]

LEMMA MovedIs ==
  ASSUME NEW n \in Nat, NEW position \in 1 .. n
  PROVE  /\ \A i \in 1 .. n : Moved(i, position) \in 1 .. n + 2 /\ i <= Moved(i, position)
         /\ \A i, k \in 1 .. n : i < k => Moved(i, position) < Moved(k, position)
         /\ \A i \in 1 .. n : Moved(i, position) # position /\ Moved(i, position) # position + 2
         /\ \A k \in 1 .. n + 2 :
              k # position /\ k # position + 2 => \E i \in 1 .. n : k = Moved(i, position)
         /\ Moved(position, position) = position + 1
  <1>1. ASSUME NEW k \in 1 .. n + 2, k # position, k # position + 2
        PROVE  \E i \in 1 .. n : k = Moved(i, position)
    <2>1. CASE k < position
      <3>1. k \in 1 .. n /\ k = Moved(k, position)
        BY <2>1 DEF Moved
      <3> QED
        BY <3>1
    <2>2. CASE k = position + 1
      <3>1. k = Moved(position, position)
        BY <2>2 DEF Moved
      <3> QED
        BY <3>1
    <2>3. CASE k > position + 2
      <3>1. k - 2 \in 1 .. n /\ k = Moved(k - 2, position)
        BY <2>3 DEF Moved
      <3> QED
        BY <3>1
    <2> QED
      BY <1>1, <2>1, <2>2, <2>3
  <1> QED
    BY <1>1 DEF Moved

LEMMA CountMoves ==
  ASSUME NEW c, NEW n, NEW position, NEW d, Embeds(c, n, position, d), NEW op, op # "Tf",
         NEW i \in 1 .. n
  PROVE  Count(d, op, Moved(i, position)) = Count(c, op, i)
  <1> DEFINE A == Those(c, op, i)
             B == Those(d, op, Moved(i, position))
             f == [k \in A |-> Moved(k, position)]
  <1>1. /\ n \in Nat /\ position \in 1 .. n /\ i \in Nat
        /\ \A k \in 1 .. n : d[Moved(k, position)].op = c[k].op
        /\ d[position].op # op /\ d[position + 2].op # op
    BY MovedIs DEF Embeds
  <1>2. /\ \A k \in 1 .. n : Moved(k, position) \in 1 .. n + 2
        /\ \A k, m \in 1 .. n : k < m => Moved(k, position) < Moved(m, position)
        /\ \A k \in 1 .. n + 2 :
             k # position /\ k # position + 2 => \E m \in 1 .. n : k = Moved(m, position)
    BY <1>1, MovedIs
  <1>3. \A k \in A : k \in 1 .. n /\ k <= i /\ c[k].op = op
    BY <1>1 DEF Those
  <1>4. ASSUME NEW k \in A PROVE f[k] \in B
    <2>1. k \in 1 .. n /\ k <= i /\ c[k].op = op
      BY <1>3
    <2>2. Moved(k, position) <= Moved(i, position) /\ Moved(k, position) \in 1 .. Moved(i, position)
      BY <1>2, <2>1
    <2> QED
      BY <1>1, <2>1, <2>2 DEF Those
  <1>5. ASSUME NEW k \in B PROVE \E m \in A : f[m] = k
    <2>1. k \in 1 .. Moved(i, position) /\ d[k].op = op
      BY DEF Those
    <2>2. k \in 1 .. n + 2 /\ k # position /\ k # position + 2
      BY <1>1, <1>2, <2>1
    <2>3. PICK m \in 1 .. n : k = Moved(m, position)
      BY <1>2, <2>2
    <2>4. m <= i
      BY <1>2, <2>1, <2>3
    <2>5. m \in A
      BY <1>1, <2>1, <2>3, <2>4 DEF Those
    <2> QED
      BY <2>3, <2>5
  <1>6. ASSUME NEW k \in A, NEW m \in A, f[k] = f[m] PROVE k = m
    BY <1>2, <1>3, <1>6
  <1> HIDE DEF A, B
  <1>7. f \in Bijection(A, B)
    <2>1. f \in [A -> B] /\ DOMAIN f = A
      BY <1>4
    <2> HIDE DEF f
    <2> QED
      BY <2>1, <1>5, <1>6 DEF Bijection, Injection, Surjection, IsInjective
  <1>8. ExistsBijection(A, B)
    BY <1>7 DEF ExistsBijection
  <1>9. IsFiniteSet(A) /\ Count(c, op, i) = Cardinality(A)
    BY <1>1, ThoseAreFinite DEF A
  <1>10. Moved(i, position) \in Nat
    BY <1>2
  <1>11. Count(d, op, Moved(i, position)) = Cardinality(B)
    BY <1>10, ThoseAreFinite DEF B
  <1> QED
    BY <1>8, <1>9, <1>11, FS_Bijection

LEMMA DepthMoves ==
  ASSUME NEW c, NEW n, NEW position, NEW d, Embeds(c, n, position, d)
  PROVE  /\ \A i \in 1 .. n : Depth(d, Moved(i, position)) = Depth(c, i) /\ Depth(c, i) \in Int
         /\ Depth(d, position) = Depth(c, position)
         /\ Depth(d, position + 2) = Depth(c, position)
         /\ position # 1 => Depth(c, position - 1) = Depth(c, position)
  <1>1. /\ n \in Nat /\ position \in 1 .. n
        /\ c[position].op = "Show" /\ d[position + 1].op = "Show"
        /\ d[position].op = "Tf" /\ d[position + 2].op = "Tf"
    BY DEF Embeds
  <1>2. ASSUME NEW op \in {"q", "Q"}
        PROVE  /\ \A i \in 1 .. n : Count(d, op, Moved(i, position)) = Count(c, op, i) /\ Count(c, op, i) \in Nat
               /\ Count(d, op, position) = Count(c, op, position)
               /\ Count(d, op, position + 2) = Count(c, op, position)
               /\ Count(c, op, position - 1) = Count(c, op, position)
    <2>1. op # "Tf" /\ op # "Show"
      OBVIOUS
    <2>2. \A i \in 1 .. n : Count(d, op, Moved(i, position)) = Count(c, op, i) /\ Count(c, op, i) \in Nat
      BY <1>1, <2>1, CountMoves, ThoseAreFinite
    <2>3. Count(c, op, position - 1) = Count(c, op, position)
      BY <1>1, <2>1, CountSkips
    <2>4. Count(d, op, position + 1) = Count(d, op, position)
      <3>1. (position + 1) - 1 = position /\ position + 1 \in Nat \ {0}
        BY <1>1
      <3> QED
        BY <1>1, <2>1, <3>1, CountSkips
    <2>5. Count(d, op, position + 2) = Count(d, op, position + 1)
      <3>1. (position + 2) - 1 = position + 1 /\ position + 2 \in Nat \ {0}
        BY <1>1
      <3> QED
        BY <1>1, <2>1, <3>1, CountSkips
    <2>6. Count(d, op, position + 1) = Count(c, op, position)
      BY <1>1, <2>2, MovedIs
    <2> QED
      BY <2>2, <2>3, <2>4, <2>5, <2>6
  <1> QED
    BY <1>2 DEF Depth

\* What is selected lasts as long as before, and what is selected around the
\* text lasts as long as what would have been selected in its place.
LEMMA LastsMoves ==
  ASSUME NEW c, NEW n, NEW position, NEW d, Embeds(c, n, position, d)
  PROVE  /\ \A i, p \in 1 .. n :
              i # position => (Lasts(d, Moved(i, position), Moved(p, position)) <=> Lasts(c, i, p))
         /\ \A p \in position + 1 .. n :
              /\ Lasts(d, position + 2, Moved(p, position)) <=> Lasts(c, position, p)
              /\ Lasts(d, position, Moved(p, position)) => Lasts(c, position, p)
         /\ \A p \in position + 1 .. n, i \in 1 .. position - 1 :
              Lasts(c, position, p) => (Lasts(c, i, p) <=> Lasts(c, i, position))
  <1>1. n \in Nat /\ position \in 1 .. n
    BY DEF Embeds
  <1>2. /\ \A i \in 1 .. n : Moved(i, position) \in 1 .. n + 2 /\ i <= Moved(i, position)
        /\ \A i, k \in 1 .. n : i < k => Moved(i, position) < Moved(k, position)
        /\ \A k \in 1 .. n + 2 :
             k # position /\ k # position + 2 => \E i \in 1 .. n : k = Moved(i, position)
        /\ Moved(position, position) = position + 1
    BY <1>1, MovedIs
  <1>3. /\ \A i \in 1 .. n : Depth(d, Moved(i, position)) = Depth(c, i) /\ Depth(c, i) \in Int
        /\ Depth(d, position) = Depth(c, position)
        /\ Depth(d, position + 2) = Depth(c, position)
        /\ position # 1 => Depth(c, position - 1) = Depth(c, position)
    BY DepthMoves
  <1>4. /\ \A i \in 1 .. position - 1 : Moved(i, position) = i
        /\ \A i \in position + 1 .. n : Moved(i, position) = i + 2
    BY <1>1 DEF Moved
  <1>5. ASSUME NEW i \in 1 .. n, NEW p \in 1 .. n, i # position
        PROVE  Lasts(d, Moved(i, position), Moved(p, position)) <=> Lasts(c, i, p)
    <2>1. ASSUME Lasts(d, Moved(i, position), Moved(p, position)), NEW k \in i .. p - 1
          PROVE  Depth(c, k) >= Depth(c, i)
      <3>1. k \in 1 .. n
        BY <1>1
      <3>2. Moved(k, position) \in Moved(i, position) .. Moved(p, position) - 1
        <4>1. k = i \/ i < k
          OBVIOUS
        <4>2. k < p
          OBVIOUS
        <4> QED
          BY <1>2, <3>1, <4>1, <4>2
      <3>3. Depth(d, Moved(k, position)) >= Depth(d, Moved(i, position))
        BY <2>1, <3>2 DEF Lasts
      <3> QED
        BY <1>3, <3>1, <3>3
    <2>2. ASSUME Lasts(c, i, p), NEW k \in Moved(i, position) .. Moved(p, position) - 1
          PROVE  Depth(d, k) >= Depth(d, Moved(i, position))
      <3>1. k \in 1 .. n + 2
        BY <1>1, <1>2
      <3>2. CASE k # position /\ k # position + 2
        <4>1. PICK m \in 1 .. n : k = Moved(m, position)
          BY <1>2, <3>1, <3>2
        <4>2. m \in i .. p - 1
          <5>1. ~(m < i)
            BY <1>2, <4>1
          <5>2. ~(p <= m)
            BY <1>2, <4>1
          <5> QED
            BY <5>1, <5>2
        <4>3. Depth(c, m) >= Depth(c, i)
          BY <2>2, <4>2 DEF Lasts
        <4> QED
          BY <1>3, <4>1, <4>3
      <3>3. CASE k = position
        <4>1. i < position
          BY <1>1, <1>5, <3>3 DEF Moved
        <4>2. position - 1 \in i .. p - 1
          <5>1. ~(p < position)
            BY <1>1, <1>4, <3>3
          <5> QED
            BY <1>1, <4>1, <5>1
        <4>3. Depth(c, position - 1) >= Depth(c, i)
          BY <2>2, <4>2 DEF Lasts
        <4> QED
          BY <1>1, <1>3, <3>3, <4>1, <4>3
      <3>4. CASE k = position + 2
        <4>1. i < position
          BY <1>1, <1>5, <3>4 DEF Moved
        <4>2. position \in i .. p - 1
          <5>1. ~(p < position) /\ p # position
            BY <1>1, <1>2, <1>4, <3>4
          <5> QED
            BY <1>1, <4>1, <5>1
        <4>3. Depth(c, position) >= Depth(c, i)
          BY <2>2, <4>2 DEF Lasts
        <4> QED
          BY <1>1, <1>3, <3>4, <4>3
      <3> QED
        BY <3>2, <3>3, <3>4
    <2> QED
      BY <2>1, <2>2 DEF Lasts
  <1>6. ASSUME NEW p \in position + 1 .. n
        PROVE  /\ Lasts(d, position + 2, Moved(p, position)) <=> Lasts(c, position, p)
               /\ Lasts(d, position, Moved(p, position)) => Lasts(c, position, p)
    <2>1. p \in 1 .. n /\ Moved(p, position) = p + 2
      BY <1>1, <1>4
    <2>2. ASSUME NEW k \in position .. p - 1, k # position
          PROVE  k + 2 \in position + 2 .. (p + 2) - 1 /\ Depth(d, k + 2) = Depth(c, k)
      <3>1. k \in position + 1 .. n /\ k \in 1 .. n
        BY <1>1, <2>2
      <3> QED
        BY <1>1, <1>3, <1>4, <3>1
    <2>3. ASSUME Lasts(d, position + 2, p + 2), NEW k \in position .. p - 1
          PROVE  Depth(c, k) >= Depth(c, position)
      <3>1. CASE k = position
        BY <1>1, <1>3, <3>1
      <3>2. CASE k # position
        <4>1. Depth(d, k + 2) >= Depth(d, position + 2)
          BY <2>2, <2>3, <3>2 DEF Lasts
        <4> QED
          BY <1>3, <2>2, <3>2, <4>1
      <3> QED
        BY <3>1, <3>2
    <2>4. ASSUME Lasts(d, position, p + 2), NEW k \in position .. p - 1
          PROVE  Depth(c, k) >= Depth(c, position)
      <3>1. CASE k = position
        BY <1>1, <1>3, <3>1
      <3>2. CASE k # position
        <4>1. k + 2 \in position .. (p + 2) - 1
          BY <1>1
        <4>2. Depth(d, k + 2) >= Depth(d, position)
          BY <2>4, <4>1 DEF Lasts
        <4> QED
          BY <1>3, <2>2, <3>2, <4>2
      <3> QED
        BY <3>1, <3>2
    <2>5. ASSUME Lasts(c, position, p), NEW k \in position + 2 .. (p + 2) - 1
          PROVE  Depth(d, k) >= Depth(d, position + 2)
      <3>1. CASE k = position + 2
        BY <1>1, <1>3, <3>1
      <3>2. CASE k # position + 2
        <4>1. k - 2 \in position .. p - 1 /\ k - 2 # position /\ (k - 2) + 2 = k
          BY <1>1, <3>2
        <4>2. Depth(c, k - 2) >= Depth(c, position)
          BY <2>5, <4>1 DEF Lasts
        <4> QED
          BY <1>3, <2>2, <4>1, <4>2
      <3> QED
        BY <3>1, <3>2
    <2> QED
      BY <2>1, <2>3, <2>4, <2>5 DEF Lasts
  <1>7. ASSUME NEW p \in position + 1 .. n, NEW i \in 1 .. position - 1, Lasts(c, position, p)
        PROVE  Lasts(c, i, p) <=> Lasts(c, i, position)
    <2>1. Lasts(c, i, p) => Lasts(c, i, position)
      <3>1. \A k \in i .. position - 1 : k \in i .. p - 1
        BY <1>1
      <3> QED
        BY <3>1 DEF Lasts
    <2>2. ASSUME Lasts(c, i, position), NEW k \in i .. p - 1
          PROVE  Depth(c, k) >= Depth(c, i)
      <3>1. CASE k < position
        <4>1. k \in i .. position - 1
          BY <1>1, <3>1
        <4> QED
          BY <2>2, <4>1 DEF Lasts
      <3>2. CASE ~(k < position)
        <4>1. k \in position .. p - 1 /\ position - 1 \in i .. position - 1 /\ position # 1
          BY <1>1, <3>2
        <4>2. Depth(c, k) >= Depth(c, position)
          BY <1>7, <4>1 DEF Lasts
        <4>3. Depth(c, position - 1) >= Depth(c, i)
          BY <2>2, <4>1 DEF Lasts
        <4>4. i \in 1 .. n /\ k \in 1 .. n
          BY <1>1
        <4> QED
          BY <1>1, <1>3, <4>1, <4>2, <4>3, <4>4
      <3> QED
        BY <3>1, <3>2
    <2> QED
      BY <2>1, <2>2 DEF Lasts
  <1> QED
    BY <1>5, <1>6, <1>7

Latest(positions) == {k \in positions : \A j \in positions : j <= k}

Selections(content, p) == {k \in 1 .. p - 1 : content[k].op = "Tf"}

Lasting(content, p) == {k \in 1 .. p - 1 : content[k].op = "Tf" /\ Lasts(content, k, p)}

LEMMA AreLatest ==
  ASSUME NEW c, NEW p \in Nat
  PROVE  LastSelection(c, p) = Latest(Selections(c, p)) /\ InEffect(c, p) = Latest(Lasting(c, p))
  <1>1. LastSelection(c, p) = Latest(Selections(c, p))
    BY DEF LastSelection, Latest, Selections
  <1>2. InEffect(c, p) = Latest(Lasting(c, p))
    BY DEF InEffect, Latest, Lasting
  <1> QED
    BY <1>1, <1>2

\* The selections before a text are those before it moved, and the two around
\* the embedded text if it comes earlier; then the latest of them names the
\* same font.
LEMMA LatestMoves ==
  ASSUME NEW c, NEW n, NEW position, NEW d, Embeds(c, n, position, d),
         NEW before \in SUBSET ((1 .. n) \ {position}),
         NEW extra \in SUBSET {position, position + 2},
         NEW earlier, Selected(c, Latest(earlier)) = {d[position + 2].font},
         extra # {} => position + 2 \in extra /\ earlier = {i \in before : i < position},
         NEW after, after = {Moved(i, position) : i \in before} \cup extra
  PROVE  Selected(d, Latest(after)) = Selected(c, Latest(before))
  <1> DEFINE moved == {Moved(i, position) : i \in before}
  <1>1. n \in Nat /\ position \in 1 .. n /\ \A i \in before : i \in 1 .. n /\ i # position
    BY DEF Embeds
  <1>2. /\ \A i \in 1 .. n : Moved(i, position) \in 1 .. n + 2 /\ i <= Moved(i, position)
        /\ \A i, k \in 1 .. n : i < k => Moved(i, position) < Moved(k, position)
    BY <1>1, MovedIs
  <1>3. \A i \in before : d[Moved(i, position)] = c[i]
    BY <1>1 DEF Embeds
  <1>4. \A i \in before : /\ i < position => Moved(i, position) < position
                          /\ ~(i < position) => Moved(i, position) > position + 2
    BY <1>1 DEF Moved
  <1>5. CASE extra = {} \/ \E j \in before : j > position
    <2>1. ASSUME NEW i \in Latest(before) PROVE Moved(i, position) \in Latest(moved \cup extra)
      <3>1. i \in before /\ \A j \in before : j <= i
        BY DEF Latest
      <3>2. \A j \in before : Moved(j, position) <= Moved(i, position)
        BY <1>1, <1>2, <3>1
      <3>3. \A k \in extra : k <= Moved(i, position)
        <4>1. extra # {} => i > position
          BY <1>1, <1>5, <3>1
        <4> QED
          BY <1>1, <1>2, <1>4, <3>1, <4>1
      <3> QED
        BY <3>1, <3>2, <3>3 DEF Latest
    <2>2. ASSUME NEW k \in Latest(moved \cup extra) PROVE \E i \in Latest(before) : k = Moved(i, position)
      <3>1. k \in moved \cup extra /\ \A j \in moved \cup extra : j <= k
        BY DEF Latest
      <3>2. k \notin extra
        <4>1. ASSUME k \in extra PROVE FALSE
          <5>1. PICK j \in before : j > position
            BY <1>5, <4>1
          <5>2. Moved(j, position) > position + 2 /\ Moved(j, position) <= k
            BY <1>1, <1>4, <3>1, <5>1
          <5>3. Moved(j, position) \in Nat /\ k \in {position, position + 2}
            BY <1>1, <1>2, <4>1
          <5> QED
            BY <1>1, <5>2, <5>3
        <4> QED
          BY <4>1
      <3>3. PICK i \in before : k = Moved(i, position)
        BY <3>1, <3>2
      <3>4. ASSUME NEW j \in before PROVE j <= i
        <4>1. Moved(j, position) <= Moved(i, position)
          BY <3>1, <3>3
        <4> QED
          BY <1>1, <1>2, <4>1
      <3> QED
        BY <3>3, <3>4 DEF Latest
    <2>3. \A i \in Latest(before) : i \in before
      BY DEF Latest
    <2> HIDE DEF moved
    <2>4. Latest(moved \cup extra) = {Moved(i, position) : i \in Latest(before)}
      <3>1. PICK S : S = Latest(moved \cup extra)
        OBVIOUS
      <3>2. PICK T : T = Latest(before)
        OBVIOUS
      <3>3. \A i \in T : Moved(i, position) \in S
        BY <2>1, <3>1, <3>2
      <3>4. \A k \in S : \E i \in T : k = Moved(i, position)
        BY <2>2, <3>1, <3>2
      <3>5. S = {Moved(i, position) : i \in T}
        BY <3>3, <3>4
      <3> QED
        BY <3>1, <3>2, <3>5
    <2>5. Selected(d, {Moved(i, position) : i \in Latest(before)}) = Selected(c, Latest(before))
      <3>1. PICK T : T = Latest(before)
        OBVIOUS
      <3>2. \A i \in T : d[Moved(i, position)].font = c[i].font
        BY <1>3, <2>3, <3>1
      <3>3. {d[k].font : k \in {Moved(i, position) : i \in T}} = {c[i].font : i \in T}
        BY <3>2
      <3> QED
        BY <3>1, <3>3 DEF Selected
    <2> QED
      BY <2>4, <2>5 DEF moved
  <1>6. CASE ~(extra = {} \/ \E j \in before : j > position)
    <2>1. position + 2 \in extra /\ \A i \in before : i < position
      <3>1. extra # {} /\ \A i \in before : ~(i > position)
        BY <1>6
      <3>2. position + 2 \in extra
        BY <3>1
      <3>3. \A i \in before : i < position
        BY <1>1, <3>1
      <3> QED
        BY <3>2, <3>3
    <2>2. \A k \in moved : k <= position + 2 /\ k \in Nat
      <3>1. ASSUME NEW i \in before PROVE Moved(i, position) <= position + 2 /\ Moved(i, position) \in Nat
        <4>1. i \in 1 .. n /\ Moved(i, position) < position
          BY <1>1, <1>4, <2>1
        <4> QED
          BY <1>1, <1>2, <4>1
      <3> QED
        BY <3>1
    <2>3. \A k \in extra : k <= position + 2 /\ k \in Nat
      BY <1>1
    <2> HIDE DEF moved
    <2>4. Latest(moved \cup extra) = {position + 2}
      <3>1. PICK S : S = moved \cup extra
        OBVIOUS
      <3>2. position + 2 \in S /\ \A k \in S : k <= position + 2 /\ k \in Nat
        BY <2>1, <2>2, <2>3, <3>1
      <3>3. \A k \in S : k # position + 2 => ~(position + 2 <= k)
        BY <1>1, <3>2
      <3>4. {k \in S : \A j \in S : j <= k} = {position + 2}
        BY <3>2, <3>3
      <3> QED
        BY <3>1, <3>4 DEF Latest
    <2>5. before = earlier
      BY <1>6, <2>1
    <2>6. Selected(d, {position + 2}) = {d[position + 2].font}
      BY DEF Selected
    <2> QED
      BY <2>4, <2>5, <2>6 DEF moved
  <1> QED
    BY <1>5, <1>6

\* The font that is selected again is the one in effect before the text.
Restores(c, position, d) ==
  /\ Selected(c, LastSelection(c, position)) = {d[position + 2].font}
  /\ Selected(c, InEffect(c, position)) = {d[position + 2].font}

LEMMA SelectionsMove ==
  ASSUME NEW c, NEW n, NEW position, NEW d, Embeds(c, n, position, d), Restores(c, position, d),
         NEW p \in 1 .. n, p # position
  PROVE  /\ Selected(d, LastSelection(d, Moved(p, position))) = Selected(c, LastSelection(c, p))
         /\ Selected(d, InEffect(d, Moved(p, position))) = Selected(c, InEffect(c, p))
  <1> DEFINE q == Moved(p, position)
  <1>1. /\ n \in Nat /\ position \in 1 .. n
        /\ c[position].op = "Show" /\ d[position + 1].op = "Show"
        /\ d[position].op = "Tf" /\ d[position + 2].op = "Tf"
        /\ \A i \in 1 .. n : i # position => d[Moved(i, position)] = c[i]
    BY DEF Embeds
  <1>2. /\ \A i \in 1 .. n : Moved(i, position) \in 1 .. n + 2 /\ i <= Moved(i, position)
        /\ \A i, k \in 1 .. n : i < k => Moved(i, position) < Moved(k, position)
        /\ \A i \in 1 .. n : Moved(i, position) # position /\ Moved(i, position) # position + 2
        /\ \A k \in 1 .. n + 2 :
             k # position /\ k # position + 2 => \E i \in 1 .. n : k = Moved(i, position)
        /\ Moved(position, position) = position + 1
    BY <1>1, MovedIs
  <1>3. q \in 1 .. n + 2 /\ (p < position => q < position) /\ (p > position => q = p + 2)
    BY <1>1, <1>2 DEF Moved
  <1>4. \A k \in 1 .. n : d[Moved(k, position)].op = "Tf" <=> c[k].op = "Tf"
    BY <1>1, <1>2
  <1>5. /\ \A i \in 1 .. n : i # position => (Lasts(d, Moved(i, position), q) <=> Lasts(c, i, p))
        /\ p > position => /\ Lasts(d, position + 2, q) <=> Lasts(c, position, p)
                           /\ Lasts(d, position, q) => Lasts(c, position, p)
        /\ \A i \in 1 .. position - 1 :
             p > position /\ Lasts(c, position, p) => (Lasts(c, i, p) <=> Lasts(c, i, position))
    <2>1. p > position => p \in position + 1 .. n
      BY <1>1
    <2> QED
      BY <2>1, LastsMoves
  <1> HIDE DEF q
  <1>6. \A k \in 1 .. q - 1 : \/ k \in {position, position + 2} /\ p > position
                             \/ \E i \in 1 .. p - 1 : k = Moved(i, position)
    <2>1. ASSUME NEW k \in 1 .. q - 1, k # position, k # position + 2
          PROVE  \E i \in 1 .. p - 1 : k = Moved(i, position)
      <3>1. PICK i \in 1 .. n : k = Moved(i, position)
        BY <1>1, <1>2, <1>3, <2>1
      <3>2. ~(p <= i)
        BY <1>2, <3>1 DEF q
      <3> QED
        BY <3>1, <3>2
    <2> QED
      BY <1>1, <1>3, <2>1
  <1>7. \A i \in 1 .. p - 1 : i \in 1 .. n /\ Moved(i, position) \in 1 .. q - 1
    BY <1>1, <1>2 DEF q
  <1>8. Selected(d, LastSelection(d, q)) = Selected(c, LastSelection(c, p))
    <2> DEFINE before == Selections(c, p)
               extra  == IF p > position THEN {position, position + 2} ELSE {}
    <2>1. before \in SUBSET ((1 .. n) \ {position}) /\ \A i \in before : i \in 1 .. p - 1
      BY <1>1 DEF Selections
    <2>2. Selections(d, q) = {Moved(i, position) : i \in before} \cup extra
      <3>1. ASSUME NEW k \in Selections(d, q) PROVE k \in {Moved(i, position) : i \in before} \cup extra
        <4>1. k \in 1 .. q - 1 /\ d[k].op = "Tf"
          BY DEF Selections
        <4>2. CASE k \in {position, position + 2} /\ p > position
          BY <4>2
        <4>3. CASE \E i \in 1 .. p - 1 : k = Moved(i, position)
          <5>1. PICK i \in 1 .. p - 1 : k = Moved(i, position)
            BY <4>3
          <5>2. i \in before
            BY <1>4, <1>7, <4>1, <5>1 DEF Selections
          <5> QED
            BY <5>1, <5>2
        <4> QED
          BY <1>6, <4>1, <4>2, <4>3
      <3>2. ASSUME NEW i \in before PROVE Moved(i, position) \in Selections(d, q)
        BY <1>4, <1>7 DEF Selections
      <3>3. extra \subseteq Selections(d, q)
        <4>1. p > position => position \in 1 .. q - 1 /\ position + 2 \in 1 .. q - 1
          BY <1>1, <1>3
        <4> QED
          BY <1>1, <4>1 DEF Selections
      <3> QED
        BY <3>1, <3>2, <3>3
    <2>3. extra # {} => {i \in before : i < position} = Selections(c, position)
      <3>1. CASE p > position
        BY <1>1, <3>1 DEF Selections
      <3> QED
        BY <3>1
    <2>4. extra \in SUBSET {position, position + 2} /\ (extra # {} => position + 2 \in extra)
      OBVIOUS
    <2> HIDE DEF before, extra
    <2>5. Selected(c, Latest(Selections(c, position))) = {d[position + 2].font}
      BY <1>1, AreLatest DEF Restores
    <2>6. extra # {} => position + 2 \in extra /\ Selections(c, position) = {i \in before : i < position}
      BY <2>3, <2>4
    <2>7. Selected(d, Latest(Selections(d, q))) = Selected(c, Latest(before))
      BY <2>1, <2>2, <2>4, <2>5, <2>6, LatestMoves
    <2>8. LastSelection(d, q) = Latest(Selections(d, q)) /\ LastSelection(c, p) = Latest(Selections(c, p))
      BY <1>3, AreLatest
    <2> QED
      BY <2>7, <2>8 DEF before
  <1>9. Selected(d, InEffect(d, q)) = Selected(c, InEffect(c, p))
    <2> DEFINE before == Lasting(c, p)
               extra  == {k \in {position, position + 2} : p > position /\ Lasts(d, k, q)}
    <2>1. before \in SUBSET ((1 .. n) \ {position}) /\ \A i \in before : i \in 1 .. p - 1
      BY <1>1 DEF Lasting
    <2>2. Lasting(d, q) = {Moved(i, position) : i \in before} \cup extra
      <3>1. ASSUME NEW k \in Lasting(d, q) PROVE k \in {Moved(i, position) : i \in before} \cup extra
        <4>1. k \in 1 .. q - 1 /\ d[k].op = "Tf" /\ Lasts(d, k, q)
          BY DEF Lasting
        <4>2. CASE k \in {position, position + 2} /\ p > position
          BY <4>1, <4>2
        <4>3. CASE \E i \in 1 .. p - 1 : k = Moved(i, position)
          <5>1. PICK i \in 1 .. p - 1 : k = Moved(i, position)
            BY <4>3
          <5>2. i # position
            BY <1>1, <1>2, <4>1, <5>1
          <5>3. i \in before
            BY <1>4, <1>5, <1>7, <4>1, <5>1, <5>2 DEF Lasting
          <5> QED
            BY <5>1, <5>3
        <4> QED
          BY <1>6, <4>1, <4>2, <4>3
      <3>2. ASSUME NEW i \in before PROVE Moved(i, position) \in Lasting(d, q)
        <4>1. i \in 1 .. p - 1 /\ c[i].op = "Tf" /\ Lasts(c, i, p) /\ i # position
          BY <1>1 DEF Lasting
        <4> QED
          BY <1>4, <1>5, <1>7, <4>1 DEF Lasting
      <3>3. extra \subseteq Lasting(d, q)
        <4>1. p > position => position \in 1 .. q - 1 /\ position + 2 \in 1 .. q - 1
          BY <1>1, <1>3
        <4> QED
          BY <1>1, <4>1 DEF Lasting
      <3> QED
        BY <3>1, <3>2, <3>3
    <2>3. extra # {} => {i \in before : i < position} = Lasting(c, position)
      <3>1. ASSUME extra # {} PROVE p > position /\ Lasts(c, position, p)
        BY <1>5, <3>1
      <3>2. ASSUME extra # {}, NEW i \in 1 .. position - 1
            PROVE  i \in before <=> i \in Lasting(c, position)
        <4>1. i \in 1 .. p - 1 /\ (Lasts(c, i, p) <=> Lasts(c, i, position))
          BY <1>1, <1>5, <3>1, <3>2
        <4> QED
          BY <4>1 DEF Lasting
      <3>3. \A i \in Lasting(c, position) : i \in 1 .. position - 1
        BY DEF Lasting
      <3>4. \A i \in before : i < position => i \in 1 .. position - 1
        BY <1>1, <2>1
      <3> QED
        BY <1>1, <3>2, <3>3, <3>4
    <2>4. extra \in SUBSET {position, position + 2} /\ (extra # {} => position + 2 \in extra)
      BY <1>5
    <2> HIDE DEF before, extra
    <2>5. Selected(c, Latest(Lasting(c, position))) = {d[position + 2].font}
      BY <1>1, AreLatest DEF Restores
    <2>6. extra # {} => position + 2 \in extra /\ Lasting(c, position) = {i \in before : i < position}
      BY <2>3, <2>4
    <2>7. Selected(d, Latest(Lasting(d, q))) = Selected(c, Latest(before))
      BY <2>1, <2>2, <2>4, <2>5, <2>6, LatestMoves
    <2>8. InEffect(d, q) = Latest(Lasting(d, q)) /\ InEffect(c, p) = Latest(Lasting(c, p))
      BY <1>3, AreLatest
    <2> QED
      BY <2>7, <2>8 DEF before
  <1> QED
    BY <1>8, <1>9 DEF q

LEMMA OwnFontInEffect ==
  ASSUME NEW c, NEW n, NEW position, NEW d, Embeds(c, n, position, d)
  PROVE  Selected(d, InEffect(d, position + 1)) = {d[position].font}
  <1>1. n \in Nat /\ position \in 1 .. n /\ d[position].op = "Tf"
    BY DEF Embeds
  <1>2. Lasts(d, position, position + 1)
    <2>1. \A k \in position .. (position + 1) - 1 : k = position
      BY <1>1
    <2>2. Depth(d, position) \in Int
      BY DepthMoves, <1>1
    <2> QED
      BY <2>1, <2>2 DEF Lasts
  <1>3. InEffect(d, position + 1) = {position}
    <2>1. 1 .. (position + 1) - 1 = 1 .. position
      BY <1>1
    <2>2. \A i \in 1 .. position - 1 : position \in i + 1 .. (position + 1) - 1
      BY <1>1
    <2>3. position + 1 .. (position + 1) - 1 = {}
      BY <1>1
    <2> QED
      BY <1>1, <1>2, <2>1, <2>2, <2>3 DEF InEffect
  <1> QED
    BY <1>3 DEF Selected

\* Other words in the same places.
LEMMA Reworded ==
  ASSUME NEW c, NEW n \in Nat, NEW d,
         \A k \in 1 .. n : d[k].op = c[k].op /\ (c[k].op = "Tf" => d[k] = c[k]),
         NEW p \in 1 .. n
  PROVE  /\ Occurrence(d, p) = Occurrence(c, p)
         /\ Selected(d, LastSelection(d, p)) = Selected(c, LastSelection(c, p))
         /\ Selected(d, InEffect(d, p)) = Selected(c, InEffect(c, p))
  <1>1. p \in Nat /\ \A k \in 1 .. n : k \in Nat /\ \A m \in 1 .. k : m \in 1 .. n
    OBVIOUS
  <1>2. ASSUME NEW op, NEW k \in 1 .. n PROVE Count(d, op, k) = Count(c, op, k)
    <2>1. \A m \in 1 .. k : d[m].op = c[m].op
      BY <1>1
    <2> QED
      BY <1>1, <2>1, CountAgrees
  <1>3. \A k \in 1 .. n : Depth(d, k) = Depth(c, k)
    BY <1>2 DEF Depth
  <1>4. \A k \in 1 .. p - 1 : k \in 1 .. n /\ \A m \in k .. p - 1 : m \in 1 .. n
    OBVIOUS
  <1>5. \A k \in 1 .. p - 1 : Lasts(d, k, p) <=> Lasts(c, k, p)
    BY <1>3, <1>4 DEF Lasts
  <1>6. Selections(d, p) = Selections(c, p) /\ Lasting(d, p) = Lasting(c, p)
    BY <1>4, <1>5 DEF Selections, Lasting
  <1>7. /\ LastSelection(d, p) = LastSelection(c, p) /\ InEffect(d, p) = InEffect(c, p)
    BY <1>1, <1>6, AreLatest
  <1>8. \A k \in LastSelection(c, p) \cup InEffect(c, p) : d[k] = c[k]
    BY <1>4 DEF LastSelection, InEffect
  <1>9. Selected(d, LastSelection(c, p)) = Selected(c, LastSelection(c, p))
    BY <1>8 DEF Selected
  <1>10. Selected(d, InEffect(c, p)) = Selected(c, InEffect(c, p))
    BY <1>8 DEF Selected
  <1> QED
    BY <1>2, <1>7, <1>9, <1>10 DEF Occurrence

-----------------------------------------------------------------------------
(* The page.  Of every text that was not edited the content, the font in   *)
(* effect and the one selected last are those of the source; an edited one *)
(* has the words of its edit and its own resource, if it was given a font. *)

NamesAt(of, p) == Selected(of.content, InEffect(of.content, p))

LastNamesAt(of, p) == Selected(of.content, LastSelection(of.content, p))

Untouched(occurrence) == \A i \in DOMAIN edits : edits[i].occurrence # occurrence

Alike(p, q) ==
  LET occurrence == Occurrence(source.content, p) IN
  /\ Untouched(occurrence) => /\ page.content[q] = source.content[p]
                              /\ NamesAt(page, q) = NamesAt(source, p)
                              /\ LastNamesAt(page, q) = LastNamesAt(source, p)
  /\ \A i \in DOMAIN edits :
       edits[i].occurrence = occurrence =>
         /\ page.content[q].text = edits[i].text
         /\ NamesAt(page, q) = IF edits[i].fallback = NoFont THEN NamesAt(source, p)
                               ELSE {FallbackResource(i)}

Occurrences(content) == {Occurrence(content, q) : q \in Shows(content)}

WrittenSoFar ==
  /\ Occurrences(page.content) = Occurrences(source.content)
  /\ \A p \in Shows(source.content), q \in Shows(page.content) :
       Occurrence(page.content, q) = Occurrence(source.content, p) => Alike(p, q)

InstalledSoFar ==
  /\ DOMAIN source.fonts \subseteq DOMAIN page.fonts
  /\ OwnNames => \A i \in DOMAIN source.content :
       source.content[i].op = "Tf" =>
         page.fonts[source.content[i].font] = source.fonts[source.content[i].font]
  /\ \A i \in DOMAIN edits :
       edits[i].fallback # NoFont => /\ FallbackResource(i) \in DOMAIN page.fonts
                                     /\ page.fonts[FallbackResource(i)] = edits[i].fallback

Written(of) ==
  /\ of = [content |-> of.content, fonts |-> of.fonts]
  /\ Len(of.content) \in Nat /\ IsOf(of.content, Len(of.content))
  /\ \A i \in DOMAIN of.content :
       of.content[i].op = "Show" => of.content[i] = [op |-> "Show", text |-> of.content[i].text]

WriteTypes ==
  /\ source \in SourcePage /\ Written(source) /\ Written(page)
  /\ edits \in Seq(Replacement) /\ Len(edits) <= EditLimit
  /\ \A i, j \in DOMAIN edits : edits[i].occurrence = edits[j].occurrence => i = j

Restored == OwnNames /\ \A i \in DOMAIN edits : RestoresItsFont(edits[i])

WriteInv == WriteTypes /\ InstalledSoFar /\ (Restored => WrittenSoFar)

LEMMA SourceIsWritten ==
  ASSUME NEW of \in SourcePage
  PROVE  /\ Written(of)
         /\ \A i \in DOMAIN of.content : of.content[i].op = "Tf" => of.content[i].font \in DOMAIN of.fonts
  BY ContentAssumption DEF Written, IsOf

LEMMA InitWriteInv == InitWrite => WriteInv
  <1> SUFFICES ASSUME InitWrite PROVE WriteInv
    OBVIOUS
  <1>1. source \in SourcePage /\ page = source /\ edits = <<>>
    BY DEF InitWrite
  <1>2. WriteTypes
    <2>1. Written(source)
      BY <1>1, SourceIsWritten
    <2>2. edits \in Seq(Replacement) /\ Len(edits) = 0 /\ DOMAIN edits = {}
      BY <1>1
    <2> QED
      BY <1>1, <2>1, <2>2, ContentAssumption DEF WriteTypes
  <1>3. DOMAIN edits = {}
    BY <1>1
  <1>4. InstalledSoFar
    BY <1>1, <1>3 DEF InstalledSoFar
  <1>5. WrittenSoFar
    <2>1. /\ Len(source.content) \in Nat /\ DOMAIN source.content = 1 .. Len(source.content)
      BY <1>2, LengthOf DEF WriteTypes, Written
    <2>2. \A p, q \in Shows(source.content) :
            Occurrence(source.content, q) = Occurrence(source.content, p) => p = q
      BY <2>1, OccurrenceTells
    <2> QED
      BY <1>1, <1>3, <2>2 DEF WrittenSoFar, Alike
  <1> QED
    BY <1>2, <1>4, <1>5 DEF WriteInv

\* The step moves the text k to f[k] and gives the one at position its edit.
Places(f, edit, position) ==
  /\ \A q \in Shows(page'.content) : \E k \in Shows(page.content) : q = f[k]
  /\ \A k \in Shows(page.content) :
       /\ f[k] \in Shows(page'.content)
       /\ Occurrence(page'.content, f[k]) = Occurrence(page.content, k)
       /\ k # position => /\ page'.content[f[k]] = page.content[k]
                          /\ NamesAt(page', f[k]) = NamesAt(page, k)
                          /\ LastNamesAt(page', f[k]) = LastNamesAt(page, k)
  /\ page'.content[f[position]].text = edit.text
  /\ NamesAt(page', f[position]) = IF edit.fallback = NoFont THEN NamesAt(page, position)
                                   ELSE {FallbackResource(Len(edits) + 1)}

\* One text more, wherever it was moved and the others with it.
LEMMA TextWritten ==
  ASSUME WriteTypes, WrittenSoFar, NEW edit \in Replacement, Untouched(edit.occurrence),
         edits' = Append(edits, edit), UNCHANGED source,
         NEW position \in Position(page.content, edit.occurrence), NEW f, Places(f, edit, position)
  PROVE  WrittenSoFar'
  <1>1. /\ Len(edits) \in Nat /\ DOMAIN edits = 1 .. Len(edits)
        /\ DOMAIN edits' = 1 .. Len(edits) + 1
        /\ \A i \in DOMAIN edits : edits'[i] = edits[i]
        /\ edits'[Len(edits) + 1] = edit
    BY DEF WriteTypes
  <1>2. /\ position \in Shows(page.content) /\ Occurrence(page.content, position) = edit.occurrence
        /\ Len(page.content) \in Nat /\ DOMAIN page.content = 1 .. Len(page.content)
    BY LengthOf DEF Position, WriteTypes, Written
  <1>3. Occurrences(page.content)' = Occurrences(source.content)'
    <2>1. Occurrences(page.content)' = Occurrences(page.content)
      BY DEF Occurrences, Places
    <2> QED
      BY <2>1 DEF WrittenSoFar
  <1>4. ASSUME NEW p \in Shows(source.content), NEW q \in Shows(page'.content),
               Occurrence(page'.content, q) = Occurrence(source.content, p)
        PROVE  Alike(p, q)'
    <2>0. PICK occurrence : occurrence = Occurrence(source.content, p)
      OBVIOUS
    <2>1. PICK k \in Shows(page.content) : q = f[k]
      BY DEF Places
    <2>2. Occurrence(page.content, k) = occurrence
      BY <1>4, <2>0, <2>1 DEF Places
    <2>3. Alike(p, k)
      BY <2>0, <2>2 DEF WrittenSoFar
    <2>4. /\ Untouched(occurrence) => /\ page.content[k] = source.content[p]
                                      /\ NamesAt(page, k) = NamesAt(source, p)
                                      /\ LastNamesAt(page, k) = LastNamesAt(source, p)
          /\ \A i \in DOMAIN edits :
               edits[i].occurrence = occurrence =>
                 /\ page.content[k].text = edits[i].text
                 /\ NamesAt(page, k) = IF edits[i].fallback = NoFont THEN NamesAt(source, p)
                                       ELSE {FallbackResource(i)}
      BY <2>0, <2>3 DEF Alike
    <2>5. CASE k # position
      <3>1. occurrence # edit.occurrence
        BY <1>2, <2>2, <2>5, OccurrenceTells
      <3>2. (Untouched(occurrence))' => Untouched(occurrence)
        BY <1>1 DEF Untouched
      <3>3. /\ page'.content[q] = page.content[k] /\ NamesAt(page', q) = NamesAt(page, k)
            /\ LastNamesAt(page', q) = LastNamesAt(page, k)
        BY <2>1, <2>5 DEF Places
      <3>4. \A i \in DOMAIN edits' : edits'[i].occurrence = occurrence => i \in DOMAIN edits /\ edits'[i] = edits[i]
        BY <1>1, <3>1
      <3>5. /\ (Untouched(occurrence))' => /\ page'.content[q] = source.content[p]
                                           /\ NamesAt(page', q) = NamesAt(source, p)
                                           /\ LastNamesAt(page', q) = LastNamesAt(source, p)
            /\ \A i \in DOMAIN edits' :
                 edits'[i].occurrence = occurrence =>
                   /\ page'.content[q].text = edits'[i].text
                   /\ NamesAt(page', q) = IF edits'[i].fallback = NoFont THEN NamesAt(source, p)
                                          ELSE {FallbackResource(i)}
        BY <2>4, <3>2, <3>3, <3>4
      <3> QED
        BY <2>0, <3>5 DEF Alike
    <2>6. CASE k = position
      <3>1. occurrence = edit.occurrence
        BY <1>2, <2>2, <2>6
      <3>2. NamesAt(page, k) = NamesAt(source, p)
        BY <2>4, <3>1
      <3>3. \A i \in DOMAIN edits' : edits'[i].occurrence = occurrence => i = Len(edits) + 1
        BY <1>1, <3>1 DEF Untouched
      <3>4. ~(Untouched(occurrence))'
        BY <1>1, <3>1 DEF Untouched
      <3>5. /\ page'.content[q].text = edit.text
            /\ NamesAt(page', q) = IF edit.fallback = NoFont THEN NamesAt(source, p)
                                   ELSE {FallbackResource(Len(edits) + 1)}
        BY <2>1, <2>6, <3>2 DEF Places
      <3>6. \A i \in DOMAIN edits' :
              edits'[i].occurrence = occurrence =>
                /\ page'.content[q].text = edits'[i].text
                /\ NamesAt(page', q) = IF edits'[i].fallback = NoFont THEN NamesAt(source, p)
                                       ELSE {FallbackResource(i)}
        BY <1>1, <3>3, <3>5
      <3> QED
        BY <2>0, <3>4, <3>6 DEF Alike
    <2> QED
      BY <2>5, <2>6
  <1> QED
    BY <1>3, <1>4 DEF WrittenSoFar

\* An edit more: what was restored before is restored still.
LEMMA EditAdded ==
  ASSUME WriteTypes, NEW edit \in Replacement, Untouched(edit.occurrence), Len(edits) < EditLimit,
         edits' = Append(edits, edit), UNCHANGED source
  PROVE  /\ Len(edits) \in Nat /\ DOMAIN edits = 1 .. Len(edits)
         /\ DOMAIN edits' = 1 .. Len(edits) + 1
         /\ \A i \in DOMAIN edits : edits'[i] = edits[i]
         /\ edits'[Len(edits) + 1] = edit
         /\ edits' \in Seq(Replacement) /\ Len(edits') <= EditLimit
         /\ \A i, j \in DOMAIN edits' : edits'[i].occurrence = edits'[j].occurrence => i = j
         /\ Restored' => Restored /\ RestoresItsFont(edit)
         /\ OwnNames' => OwnNames
  <1>1. /\ edits \in Seq(Replacement) /\ Len(edits) \in Nat /\ EditLimit \in Nat
        /\ \A i, j \in DOMAIN edits : edits[i].occurrence = edits[j].occurrence => i = j
    BY ContentAssumption DEF WriteTypes
  <1>2. /\ DOMAIN edits = 1 .. Len(edits)
        /\ DOMAIN edits' = 1 .. Len(edits) + 1
        /\ \A i \in DOMAIN edits : edits'[i] = edits[i]
        /\ edits'[Len(edits) + 1] = edit
        /\ edits' \in Seq(Replacement) /\ Len(edits') = Len(edits) + 1
    BY <1>1
  <1>3. \A i, j \in DOMAIN edits' : edits'[i].occurrence = edits'[j].occurrence => i = j
    <2>1. \A i \in DOMAIN edits : edits[i].occurrence # edit.occurrence
      BY DEF Untouched
    <2>2. \A i \in DOMAIN edits' : i \in DOMAIN edits \/ i = Len(edits) + 1
      BY <1>1, <1>2
    <2> QED
      BY <1>1, <1>2, <2>1, <2>2
  <1>4. OwnNames' => OwnNames
    BY DEF OwnNames
  <1>5. ASSUME NEW e PROVE RestoresItsFont(e)' <=> RestoresItsFont(e)
    BY DEF RestoresItsFont
  <1>6. Restored' => Restored /\ RestoresItsFont(edit)
    <2> SUFFICES ASSUME Restored' PROVE Restored /\ RestoresItsFont(edit)
      OBVIOUS
    <2>1. OwnNames' /\ \A i \in DOMAIN edits' : RestoresItsFont(edits'[i])
      BY <1>5 DEF Restored
    <2>2. DOMAIN edits \subseteq DOMAIN edits' /\ Len(edits) + 1 \in DOMAIN edits'
      BY <1>1, <1>2
    <2> QED
      BY <1>2, <1>4, <2>1, <2>2 DEF Restored
  <1> QED
    BY <1>1, <1>2, <1>3, <1>4, <1>6

\* d is c with other words at position.
Rewords(c, n, position, words, d) ==
  /\ IsOf(d, n) /\ d[position] = [op |-> "Show", text |-> words]
  /\ \A i \in 1 .. n : i # position => d[i] = c[i]

LEMMA TextReplaced ==
  ASSUME NEW n \in Nat, NEW c, IsOf(c, n), NEW position \in 1 .. n, NEW words,
         c[position] = [op |-> "Show", text |-> c[position].text],
         NEW d, d = [c EXCEPT ![position].text = words]
  PROVE  Rewords(c, n, position, words, d)
  <1>1. c = [i \in 1 .. n |-> c[i]] /\ DOMAIN c = 1 .. n
    BY DEF IsOf
  <1>2. PICK old : old = c[position]
    OBVIOUS
  <1>3. [old EXCEPT !.text = words] = [op |-> "Show", text |-> words]
    <2>1. old = [op |-> "Show", text |-> old.text]
      BY <1>2
    <2> QED
      BY <2>1
  <1>4. d = [c EXCEPT ![position] = [op |-> "Show", text |-> words]]
    BY <1>2, <1>3
  <1>5. d = [i \in 1 .. n |-> IF i = position THEN [op |-> "Show", text |-> words] ELSE c[i]]
    BY <1>1, <1>4
  <1> QED
    BY <1>5 DEF IsOf, Rewords

LEMMA ReplaceWordsStep ==
  ASSUME WriteInv, NEW edit \in Replacement, Untouched(edit.occurrence), Len(edits) < EditLimit,
         edits' = Append(edits, edit), UNCHANGED source,
         NEW position \in Position(page.content, edit.occurrence), ReplaceWords(edit, position)
  PROVE  WriteInv'
  <1>1. PICK c : c = page.content
    OBVIOUS
  <1>2. PICK n \in Nat : n = Len(c) /\ IsOf(c, n)
    BY <1>1 DEF WriteInv, WriteTypes, Written
  <1>3. DOMAIN c = 1 .. n /\ position \in 1 .. n /\ c[position].op = "Show"
    BY <1>1, <1>2, LengthOf DEF Position, Shows
  <1>4. c[position] = [op |-> "Show", text |-> c[position].text]
    BY <1>1, <1>3 DEF WriteInv, WriteTypes, Written
  <1>5. PICK d : d = [c EXCEPT ![position].text = edit.text]
    OBVIOUS
  <1>6. /\ IsOf(d, n)
        /\ d[position] = [op |-> "Show", text |-> edit.text]
        /\ \A i \in 1 .. n : i # position => d[i] = c[i]
    <2>1. Rewords(c, n, position, edit.text, d)
      BY <1>2, <1>3, <1>4, <1>5, TextReplaced
    <2> QED
      BY <2>1 DEF Rewords
  <1>7. page' = [content |-> d, fonts |-> page.fonts] /\ edit.fallback = NoFont
    BY <1>1, <1>5 DEF ReplaceWords, WriteInv, WriteTypes, Written
  <1>8. Len(d) = n /\ DOMAIN d = 1 .. n
    BY <1>6, LengthOf
  <1>9. /\ Len(edits) \in Nat /\ DOMAIN edits = 1 .. Len(edits)
        /\ DOMAIN edits' = 1 .. Len(edits) + 1
        /\ \A i \in DOMAIN edits : edits'[i] = edits[i]
        /\ edits'[Len(edits) + 1] = edit
        /\ edits' \in Seq(Replacement) /\ Len(edits') <= EditLimit
        /\ \A i, j \in DOMAIN edits' : edits'[i].occurrence = edits'[j].occurrence => i = j
        /\ Restored' => Restored /\ RestoresItsFont(edit)
        /\ OwnNames' => OwnNames
    BY EditAdded DEF WriteInv
  <1>10. WriteTypes'
    <2>1. \A i \in 1 .. n : d[i].op = "Show" => d[i] = [op |-> "Show", text |-> d[i].text]
      <3>1. \A i \in 1 .. n : c[i].op = "Show" => c[i] = [op |-> "Show", text |-> c[i].text]
        BY <1>1, <1>3 DEF WriteInv, WriteTypes, Written
      <3> QED
        BY <1>6, <3>1
    <2>2. Written(page)'
      BY <1>2, <1>6, <1>7, <1>8, <2>1 DEF Written
    <2>3. Written(source)' /\ source' \in SourcePage
      BY DEF Written, WriteInv, WriteTypes
    <2> QED
      BY <1>9, <2>2, <2>3 DEF WriteTypes
  <1>11. InstalledSoFar'
    <2>1. \A i \in DOMAIN edits' : edits'[i].fallback # NoFont => i \in DOMAIN edits /\ edits'[i] = edits[i]
      BY <1>7, <1>9
    <2>2. InstalledSoFar
      BY DEF WriteInv
    <2> QED
      BY <1>7, <1>9, <2>1, <2>2 DEF InstalledSoFar
  <1>12. ASSUME Restored' PROVE WrittenSoFar'
    <2>1. WriteTypes /\ WrittenSoFar
      BY <1>9, <1>12 DEF WriteInv
    <2>2. \A k \in 1 .. n : d[k].op = c[k].op /\ (c[k].op = "Tf" => d[k] = c[k])
      BY <1>3, <1>6
    <2>3. Shows(d) = Shows(c) /\ \A k \in Shows(c) : k \in 1 .. n
      BY <1>3, <1>8, <2>2 DEF Shows
    <2>4. \A k \in Shows(c) : /\ Occurrence(d, k) = Occurrence(c, k)
                              /\ Selected(d, LastSelection(d, k)) = Selected(c, LastSelection(c, k))
                              /\ Selected(d, InEffect(d, k)) = Selected(c, InEffect(c, k))
      BY <2>2, <2>3, Reworded
    <2>5. PICK f : f = [k \in Shows(c) |-> k]
      OBVIOUS
    <2>6. \A k \in Shows(c) : f[k] = k
      BY <2>5
    <2>7. position \in Shows(c)
      BY <1>1 DEF Position
    <2>8. page'.content = d /\ page.content = c
      BY <1>1, <1>7
    <2>9. \A k \in Shows(c) : /\ NamesAt(page', k) = NamesAt(page, k)
                              /\ LastNamesAt(page', k) = LastNamesAt(page, k)
      BY <2>4, <2>8 DEF NamesAt, LastNamesAt
    <2>10. \A k \in Shows(c) : k # position => d[k] = c[k]
      BY <1>6, <2>3
    <2>11. d[position].text = edit.text
      BY <1>6
    <2>12. Places(f, edit, position)
      BY <1>7, <2>3, <2>4, <2>6, <2>7, <2>8, <2>9, <2>10, <2>11 DEF Places
    <2> QED
      BY <2>1, <2>12, TextWritten
  <1> QED
    BY <1>10, <1>11, <1>12 DEF WriteInv

\* What is where, when a text is surrounded by two font selections.
LEMMA Surrounded ==
  ASSUME NEW n \in Nat, NEW shown, Len(shown) = n, NEW position \in 1 .. n, NEW resource, NEW restore,
         NEW d, d = InFallbackFont(shown, position, resource, restore)
  PROVE  /\ IsOf(d, n + 2)
         /\ d[position] = [op |-> "Tf", font |-> resource]
         /\ d[position + 1] = shown[position]
         /\ d[position + 2] = restore
         /\ \A i \in 1 .. position - 1 : d[i] = shown[i]
         /\ \A i \in position + 3 .. n + 2 : d[i] = shown[i - 2]
  <1> DEFINE At(i) == CASE i < position     -> shown[i]
                        [] i = position     -> Tf(resource)
                        [] i = position + 1 -> shown[position]
                        [] i = position + 2 -> restore
                        [] i > position + 2 -> shown[i - 2]
  <1>1. d = [i \in 1 .. n + 2 |-> At(i)]
    BY DEF InFallbackFont
  <1>2. /\ At(position) = Tf(resource)
        /\ At(position + 1) = shown[position]
        /\ At(position + 2) = restore
    OBVIOUS
  <1>3. \A i \in 1 .. position - 1 : At(i) = shown[i]
    OBVIOUS
  <1>4. \A i \in position + 3 .. n + 2 : At(i) = shown[i - 2]
    OBVIOUS
  <1> HIDE DEF At
  <1>5. \A i \in 1 .. n + 2 : d[i] = At(i)
    BY <1>1
  <1>6. IsOf(d, n + 2)
    BY <1>1 DEF IsOf
  <1>7. /\ position \in 1 .. n + 2 /\ position + 1 \in 1 .. n + 2 /\ position + 2 \in 1 .. n + 2
        /\ \A i \in 1 .. position - 1 : i \in 1 .. n + 2
        /\ \A i \in position + 3 .. n + 2 : i \in 1 .. n + 2
    OBVIOUS
  <1> QED
    BY <1>2, <1>3, <1>4, <1>5, <1>6, <1>7 DEF Tf

\* Every text of c has the shape of one.
ShownTexts(c, n) == \A i \in 1 .. n : c[i].op = "Show" => c[i] = [op |-> "Show", text |-> c[i].text]

LEMMA FontEmbedded ==
  ASSUME NEW n \in Nat, NEW c, IsOf(c, n), ShownTexts(c, n), NEW position \in 1 .. n, NEW words,
         NEW shown, Rewords(c, n, position, words, shown),
         c[position].op = "Show", NEW resource, NEW restore, restore.op = "Tf",
         NEW d, d = InFallbackFont(shown, position, resource, restore)
  PROVE  /\ Embeds(c, n, position, d)
         /\ d[position] = Tf(resource) /\ d[position + 1].text = words /\ d[position + 2] = restore
         /\ ShownTexts(d, n + 2)
  <1>1. Len(shown) = n
    BY LengthOf DEF Rewords
  <1>2. /\ shown[position] = [op |-> "Show", text |-> words]
        /\ \A i \in 1 .. n : i # position => shown[i] = c[i]
        /\ \A i \in 1 .. n : c[i].op = "Show" => c[i] = [op |-> "Show", text |-> c[i].text]
    BY DEF Rewords, ShownTexts
  <1>3. /\ IsOf(d, n + 2)
        /\ d[position] = [op |-> "Tf", font |-> resource]
        /\ d[position + 1] = shown[position]
        /\ d[position + 2] = restore
        /\ \A i \in 1 .. position - 1 : d[i] = shown[i]
        /\ \A i \in position + 3 .. n + 2 : d[i] = shown[i - 2]
    BY <1>1, Surrounded, SMTT(40)
  <1>4. ASSUME NEW i \in 1 .. n, i # position PROVE d[Moved(i, position)] = c[i]
    <2>1. CASE i < position
      <3>1. Moved(i, position) = i /\ i \in 1 .. position - 1
        BY <2>1 DEF Moved
      <3>2. d[i] = shown[i] /\ shown[i] = c[i]
        BY <1>2, <1>3, <1>4, <3>1
      <3> QED
        BY <3>1, <3>2
    <2>2. CASE i > position
      <3>1. Moved(i, position) = i + 2 /\ i + 2 \in position + 3 .. n + 2 /\ (i + 2) - 2 = i
        BY <2>2 DEF Moved
      <3>2. d[i + 2] = shown[i] /\ shown[i] = c[i]
        BY <1>2, <1>3, <1>4, <3>1
      <3> QED
        BY <3>1, <3>2
    <2> QED
      BY <1>4, <2>1, <2>2
  <1>5. /\ d[position].op = "Tf" /\ d[position + 1].op = "Show" /\ d[position + 2].op = "Tf"
        /\ d[position + 1] = [op |-> "Show", text |-> words]
    BY <1>2, <1>3
  <1>6. Embeds(c, n, position, d)
    BY <1>3, <1>4, <1>5 DEF Embeds
  <1>7. ASSUME NEW i \in 1 .. n + 2, d[i].op = "Show"
        PROVE  d[i] = [op |-> "Show", text |-> d[i].text]
    <2>1. i # position /\ i # position + 2
      BY <1>5, <1>7
    <2>2. PICK k \in 1 .. n : i = Moved(k, position)
      BY <2>1, MovedIs
    <2>3. CASE k = position
      <3>1. i = position + 1
        BY <2>2, <2>3, MovedIs
      <3> QED
        BY <1>5, <3>1
    <2>4. CASE k # position
      BY <1>2, <1>4, <1>7, <2>2, <2>4
    <2> QED
      BY <2>3, <2>4
  <1> QED
    BY <1>3, <1>5, <1>6, <1>7 DEF Tf, ShownTexts

\* What is selected again is what was in effect, by what is known of the source.
LEMMA RestoresAt ==
  ASSUME WrittenSoFar, NEW edit \in Replacement, edit.fallback # NoFont, RestoresItsFont(edit),
         Untouched(edit.occurrence), NEW position \in Position(page.content, edit.occurrence),
         NEW selection \in LastSelection(page.content, position), position \in Nat
  PROVE  /\ Selected(page.content, LastSelection(page.content, position)) = {page.content[selection].font}
         /\ Selected(page.content, InEffect(page.content, position)) = {page.content[selection].font}
  <1>1. position \in Shows(page.content) /\ Occurrence(page.content, position) = edit.occurrence
    BY DEF Position
  <1>2. LastSelection(page.content, position) = {selection}
    <2>1. ASSUME NEW k \in LastSelection(page.content, position) PROVE k = selection
      BY DEF LastSelection
    <2> QED
      BY <2>1
  <1>3. Selected(page.content, LastSelection(page.content, position)) = {page.content[selection].font}
    BY <1>2 DEF Selected
  <1>4. PICK p \in Shows(source.content) : Occurrence(source.content, p) = edit.occurrence
    <2>1. edit.occurrence \in Occurrences(source.content)
      BY <1>1 DEF WrittenSoFar, Occurrences
    <2> QED
      BY <2>1 DEF Occurrences
  <1>5. Alike(p, position)
    BY <1>1, <1>4 DEF WrittenSoFar
  <1>6. /\ NamesAt(page, position) = NamesAt(source, p)
        /\ LastNamesAt(page, position) = LastNamesAt(source, p)
    BY <1>4, <1>5 DEF Alike
  <1>7. LastNamesAt(source, p) = NamesAt(source, p)
    BY <1>4 DEF RestoresItsFont, Position, NamesAt, LastNamesAt
  <1> QED
    BY <1>3, <1>6, <1>7 DEF NamesAt, LastNamesAt

LEMMA ReplaceInFontStep ==
  ASSUME WriteInv, NEW edit \in Replacement, Untouched(edit.occurrence), Len(edits) < EditLimit,
         edits' = Append(edits, edit), UNCHANGED source, edit.fallback # NoFont,
         NEW position \in Position(page.content, edit.occurrence), ReplaceInFont(edit, position)
  PROVE  WriteInv'
  <1>1. PICK c : c = page.content
    OBVIOUS
  <1>2. PICK n \in Nat : n = Len(c) /\ IsOf(c, n)
    BY <1>1 DEF WriteInv, WriteTypes, Written
  <1>3. DOMAIN c = 1 .. n /\ position \in 1 .. n /\ position \in Nat /\ c[position].op = "Show"
    BY <1>1, <1>2, LengthOf DEF Position, Shows
  <1>4. ShownTexts(c, n) /\ c[position] = [op |-> "Show", text |-> c[position].text]
    BY <1>1, <1>3 DEF WriteInv, WriteTypes, Written, ShownTexts
  <1>5. PICK selection \in LastSelection(c, position) :
          page' = [content |-> InFallbackFont([c EXCEPT ![position].text = edit.text], position,
                                              FallbackResource(Len(edits) + 1), c[selection]),
                   fonts |-> InstallPageFont(page.fonts, FallbackResource(Len(edits) + 1), edit.fallback)]
    BY <1>1 DEF ReplaceInFont
  <1>6. PICK shown : shown = [c EXCEPT ![position].text = edit.text]
    OBVIOUS
  <1>7. PICK resource : resource = FallbackResource(Len(edits) + 1)
    OBVIOUS
  <1>8. PICK restore : restore = c[selection]
    OBVIOUS
  <1>9. PICK d : d = InFallbackFont(shown, position, resource, restore)
    OBVIOUS
  <1>10. PICK fonts : fonts = InstallPageFont(page.fonts, resource, edit.fallback)
    OBVIOUS
  <1>11. page' = [content |-> d, fonts |-> fonts]
    BY <1>5, <1>6, <1>7, <1>8, <1>9, <1>10
  <1>12. Rewords(c, n, position, edit.text, shown)
    BY <1>2, <1>3, <1>4, <1>6, TextReplaced
  <1>13. restore.op = "Tf"
    BY <1>8 DEF LastSelection
  <1>14. /\ Embeds(c, n, position, d)
         /\ d[position] = Tf(resource) /\ d[position + 1].text = edit.text /\ d[position + 2] = restore
         /\ ShownTexts(d, n + 2)
    BY <1>2, <1>3, <1>4, <1>9, <1>12, <1>13, FontEmbedded, SMTT(40)
  <1>15. Len(d) = n + 2 /\ DOMAIN d = 1 .. n + 2 /\ IsOf(d, n + 2)
    <2>1. n + 2 \in Nat /\ IsOf(d, n + 2)
      BY <1>14 DEF Embeds
    <2> QED
      BY <2>1, LengthOf
  <1>16. /\ Len(edits) \in Nat /\ DOMAIN edits = 1 .. Len(edits)
         /\ DOMAIN edits' = 1 .. Len(edits) + 1
         /\ \A i \in DOMAIN edits : edits'[i] = edits[i]
         /\ edits'[Len(edits) + 1] = edit
         /\ edits' \in Seq(Replacement) /\ Len(edits') <= EditLimit
         /\ \A i, j \in DOMAIN edits' : edits'[i].occurrence = edits'[j].occurrence => i = j
         /\ Restored' => Restored /\ RestoresItsFont(edit)
         /\ OwnNames' => OwnNames
    BY EditAdded DEF WriteInv
  <1>17. WriteTypes'
    <2>1. Written(page)'
      BY <1>11, <1>14, <1>15 DEF Written, ShownTexts
    <2>2. Written(source)' /\ source' \in SourcePage
      BY DEF Written, WriteInv, WriteTypes
    <2> QED
      BY <1>16, <2>1, <2>2 DEF WriteTypes
  <1>18. InstalledSoFar'
    <2>1. InstalledSoFar /\ source \in SourcePage
      BY DEF WriteInv, WriteTypes
    <2>2. /\ DOMAIN fonts = DOMAIN page.fonts \cup {resource}
          /\ fonts[resource] = edit.fallback
          /\ \A name \in DOMAIN page.fonts : name # resource => fonts[name] = page.fonts[name]
      BY <1>10 DEF InstallPageFont
    <2>3. \A i \in 1 .. Len(edits) : FallbackResource(i) # resource
      BY <1>7, <1>16 DEF FallbackResource
    <2>4. page'.fonts = fonts
      BY <1>11
    <2>5. DOMAIN source.fonts \subseteq DOMAIN page'.fonts
      BY <2>1, <2>2, <2>4 DEF InstalledSoFar
    <2>6. ASSUME OwnNames, NEW i \in DOMAIN source.content, source.content[i].op = "Tf"
          PROVE  page'.fonts[source.content[i].font] = source.fonts[source.content[i].font]
      <3>1. source.content[i].font \in DOMAIN page.fonts
        BY <2>1, <2>6, SourceIsWritten DEF InstalledSoFar
      <3>2. Len(edits) + 1 \in 1 .. EditLimit
        BY <1>16, ContentAssumption
      <3>3. source.content[i].font # resource
        BY <1>7, <2>6, <3>2 DEF OwnNames
      <3>4. page.fonts[source.content[i].font] = source.fonts[source.content[i].font]
        BY <2>1, <2>6 DEF InstalledSoFar
      <3> QED
        BY <2>2, <2>4, <3>1, <3>3, <3>4
    <2>7. ASSUME NEW i \in DOMAIN edits', edits'[i].fallback # NoFont
          PROVE  FallbackResource(i) \in DOMAIN page'.fonts
                 /\ page'.fonts[FallbackResource(i)] = edits'[i].fallback
      <3>1. CASE i \in DOMAIN edits
        <4>1. /\ FallbackResource(i) \in DOMAIN page.fonts
              /\ page.fonts[FallbackResource(i)] = edits[i].fallback
              /\ edits'[i] = edits[i]
          BY <1>16, <2>1, <2>7, <3>1 DEF InstalledSoFar
        <4>2. FallbackResource(i) # resource
          BY <1>16, <2>3, <3>1
        <4> QED
          BY <2>2, <2>4, <4>1, <4>2
      <3>2. CASE i = Len(edits) + 1
        BY <1>7, <1>16, <2>2, <2>4, <3>2
      <3> QED
        BY <1>16, <3>1, <3>2
    <2> QED
      BY <1>16, <2>5, <2>6, <2>7 DEF InstalledSoFar
  <1>19. ASSUME Restored' PROVE WrittenSoFar'
    <2>1. WriteTypes /\ WrittenSoFar /\ RestoresItsFont(edit)
      BY <1>16, <1>19 DEF WriteInv
    <2>2. page'.content = d /\ page.content = c
      BY <1>1, <1>11
    <2>3. Restores(c, position, d)
      <3>1. selection \in LastSelection(page.content, position)
        BY <1>1
      <3>2. /\ Selected(c, LastSelection(c, position)) = {c[selection].font}
            /\ Selected(c, InEffect(c, position)) = {c[selection].font}
        BY <1>1, <1>3, <2>1, <3>1, RestoresAt
      <3> QED
        BY <1>8, <1>14, <3>2 DEF Restores
    <2>4. \A k \in Shows(c) : k \in 1 .. n /\ c[k].op = "Show"
      BY <1>3 DEF Shows
    <2>5. PICK f : f = [k \in Shows(c) |-> Moved(k, position)]
      OBVIOUS
    <2>6. \A k \in Shows(c) : f[k] = Moved(k, position)
      BY <2>5
    <2>7. position \in Shows(c)
      BY <1>1 DEF Position
    <2>8. f[position] = position + 1
      BY <1>2, <1>3, <2>6, <2>7, MovedIs
    <2>9. ASSUME NEW q \in Shows(page'.content) PROVE \E k \in Shows(c) : q = f[k]
      <3>1. q \in 1 .. n + 2 /\ d[q].op = "Show"
        BY <1>15, <2>2 DEF Shows
      <3>2. q # position /\ q # position + 2
        BY <1>14, <3>1 DEF Embeds
      <3>3. PICK k \in 1 .. n : q = Moved(k, position)
        BY <1>2, <1>3, <3>1, <3>2, MovedIs
      <3>4. k \in Shows(c)
        <4>1. CASE k = position
          BY <2>7, <4>1
        <4>2. CASE k # position
          BY <1>3, <1>14, <3>1, <3>3, <4>2 DEF Embeds, Shows
        <4> QED
          BY <4>1, <4>2
      <3> QED
        BY <2>6, <3>3, <3>4
    <2>10. ASSUME NEW k \in Shows(c)
           PROVE  /\ f[k] \in Shows(page'.content)
                  /\ Occurrence(page'.content, f[k]) = Occurrence(page.content, k)
      <3>1. k \in 1 .. n /\ Moved(k, position) \in 1 .. n + 2
        BY <1>2, <1>3, <2>4, MovedIs
      <3>2. d[Moved(k, position)].op = "Show"
        <4>1. CASE k = position
          BY <1>2, <1>3, <1>14, <4>1, MovedIs DEF Embeds
        <4>2. CASE k # position
          BY <1>14, <2>4, <3>1, <4>2 DEF Embeds
        <4> QED
          BY <4>1, <4>2
      <3>3. Count(d, "Show", Moved(k, position)) = Count(c, "Show", k)
        <4>1. "Show" # "Tf"
          OBVIOUS
        <4> QED
          BY <1>14, <3>1, <4>1, CountMoves
      <3> QED
        BY <1>15, <2>2, <2>6, <3>1, <3>2, <3>3 DEF Shows, Occurrence
    <2>11. ASSUME NEW k \in Shows(c), k # position
           PROVE  /\ page'.content[f[k]] = page.content[k]
                  /\ NamesAt(page', f[k]) = NamesAt(page, k)
                  /\ LastNamesAt(page', f[k]) = LastNamesAt(page, k)
      <3>1. k \in 1 .. n /\ f[k] = Moved(k, position)
        BY <2>4, <2>6
      <3>2. /\ Selected(d, LastSelection(d, Moved(k, position))) = Selected(c, LastSelection(c, k))
            /\ Selected(d, InEffect(d, Moved(k, position))) = Selected(c, InEffect(c, k))
        BY <1>14, <2>3, <2>11, <3>1, SelectionsMove
      <3>3. d[Moved(k, position)] = c[k]
        BY <1>14, <2>11, <3>1 DEF Embeds
      <3> QED
        BY <2>2, <3>1, <3>2, <3>3 DEF NamesAt, LastNamesAt
    <2>12. page'.content[f[position]].text = edit.text /\ NamesAt(page', f[position]) = {resource}
      <3>1. Selected(d, InEffect(d, position + 1)) = {d[position].font}
        BY <1>14, OwnFontInEffect
      <3> QED
        BY <1>14, <2>2, <2>8, <3>1 DEF NamesAt, Tf
    <2>13. Places(f, edit, position)
      BY <1>7, <2>2, <2>9, <2>10, <2>11, <2>12 DEF Places
    <2> QED
      BY <2>1, <2>13, TextWritten
  <1> QED
    BY <1>17, <1>18, <1>19 DEF WriteInv

LEMMA NextWriteInv == WriteInv /\ [NextWrite]_writeVars => WriteInv'
  <1> SUFFICES ASSUME WriteInv, [NextWrite]_writeVars PROVE WriteInv'
    OBVIOUS
  <1>1. ASSUME NEW edit \in Replacement, ReplaceTextOccurrence(edit) PROVE WriteInv'
    <2>1. /\ Untouched(edit.occurrence) /\ Len(edits) < EditLimit
          /\ edits' = Append(edits, edit) /\ UNCHANGED source
      BY <1>1 DEF ReplaceTextOccurrence, Untouched
    <2>2. PICK position \in Position(page.content, edit.occurrence) :
            ReplaceWords(edit, position) \/ ReplaceInFont(edit, position)
      BY <1>1 DEF ReplaceTextOccurrence
    <2>3. CASE ReplaceWords(edit, position)
      BY <2>1, <2>3, ReplaceWordsStep
    <2>4. CASE ReplaceInFont(edit, position)
      <3>1. edit.fallback # NoFont
        BY <2>4, ContentAssumption DEF ReplaceInFont
      <3> QED
        BY <2>1, <2>4, <3>1, ReplaceInFontStep
    <2> QED
      BY <2>2, <2>3, <2>4
  <1>2. ASSUME UNCHANGED <<source, page, edits>> PROVE WriteInv'
    <2>1. source' = source /\ page' = page /\ edits' = edits
      BY <1>2
    <2>2. WriteTypes' <=> WriteTypes
      BY <2>1 DEF WriteTypes, Written
    <2>3. OwnNames' <=> OwnNames
      BY <2>1 DEF OwnNames
    <2>4. InstalledSoFar' <=> InstalledSoFar
      BY <2>1, <2>3 DEF InstalledSoFar
    <2>5. ASSUME NEW e PROVE RestoresItsFont(e)' <=> RestoresItsFont(e)
      BY <2>1 DEF RestoresItsFont
    <2>6. Restored' <=> Restored
      BY <2>1, <2>3, <2>5 DEF Restored
    <2>7. WrittenSoFar' <=> WrittenSoFar
      BY <2>1 DEF WrittenSoFar, Alike, Untouched, NamesAt, LastNamesAt
    <2> QED
      BY <2>2, <2>4, <2>6, <2>7 DEF WriteInv
  <1>3. ASSUME NEW edit \in Replacement, RefuseEdit(edit) PROVE WriteInv'
    BY <1>2, <1>3 DEF RefuseEdit
  <1>4. CASE UNCHANGED writeVars
    BY <1>2, <1>4 DEF writeVars
  <1> QED
    BY <1>1, <1>3, <1>4 DEF NextWrite

\* The names keep their fonts: what was shown in a font of the source is.
LEMMA FontsOfNames ==
  ASSUME WriteInv, OwnNames, NEW p \in Shows(source.content), NEW q, NamesAt(page, q) = NamesAt(source, p)
  PROVE  Fonts(page, q) = Fonts(source, p)
  <1>1. PICK names : names = NamesAt(source, p)
    OBVIOUS
  <1>2. \A name \in names : page.fonts[name] = source.fonts[name]
    <2>1. ASSUME NEW name \in names PROVE page.fonts[name] = source.fonts[name]
      <3>1. PICK i \in InEffect(source.content, p) : name = source.content[i].font
        BY <1>1, <2>1 DEF NamesAt, Selected
      <3>2. /\ Len(source.content) \in Nat /\ DOMAIN source.content = 1 .. Len(source.content)
        BY LengthOf DEF WriteInv, WriteTypes, Written
      <3>3. i \in DOMAIN source.content /\ source.content[i].op = "Tf"
        BY <3>2 DEF InEffect, Shows
      <3> QED
        BY <3>1, <3>3 DEF WriteInv, InstalledSoFar
    <2> QED
      BY <2>1
  <1>3. Fonts(source, p) = {source.fonts[name] : name \in names}
    BY <1>1 DEF Fonts, NamesAt
  <1>4. Fonts(page, q) = {page.fonts[name] : name \in names}
    BY <1>1 DEF Fonts, NamesAt
  <1> QED
    BY <1>2, <1>3, <1>4

\* The edit that was made of the text p, if there was one.
EditsOf(p) ==
  {edits[i] : i \in {j \in DOMAIN edits : edits[j].occurrence = Occurrence(source.content, p)}}

LEMMA WriteInvKeepsText == WriteInv => OnlyEditedTextChanges
  <1> SUFFICES ASSUME WriteInv, OwnNames, \A i \in DOMAIN edits : RestoresItsFont(edits[i])
               PROVE  OnlyEditedTextChanges
    BY DEF OnlyEditedTextChanges
  <1>1. WriteTypes /\ InstalledSoFar /\ WrittenSoFar
    BY DEF WriteInv, Restored
  <1>2. {Occurrence(page.content, q) : q \in Shows(page.content)} =
          {Occurrence(source.content, p) : p \in Shows(source.content)}
    BY <1>1 DEF WrittenSoFar, Occurrences
  <1>3. ASSUME NEW p \in Shows(source.content), NEW q \in Shows(page.content),
               Occurrence(page.content, q) = Occurrence(source.content, p)
        PROVE  /\ EditsOf(p) = {} => /\ page.content[q] = source.content[p]
                               /\ Fonts(page, q) = Fonts(source, p)
               /\ \A edit \in EditsOf(p) :
                    /\ page.content[q].text = edit.text
                    /\ Fonts(page, q) = IF edit.fallback = NoFont THEN Fonts(source, p)
                                        ELSE {edit.fallback}
    <2>1. Alike(p, q)
      BY <1>1, <1>3 DEF WrittenSoFar
    <2>2. ASSUME EditsOf(p) = {}
          PROVE  page.content[q] = source.content[p] /\ Fonts(page, q) = Fonts(source, p)
      <3>1. Untouched(Occurrence(source.content, p))
        BY <2>2 DEF EditsOf, Untouched
      <3>2. page.content[q] = source.content[p] /\ NamesAt(page, q) = NamesAt(source, p)
        BY <2>1, <3>1 DEF Alike
      <3> QED
        BY <3>2, FontsOfNames
    <2>3. ASSUME NEW edit \in EditsOf(p)
          PROVE  /\ page.content[q].text = edit.text
                 /\ Fonts(page, q) = IF edit.fallback = NoFont THEN Fonts(source, p) ELSE {edit.fallback}
      <3>1. PICK i \in DOMAIN edits : edits[i].occurrence = Occurrence(source.content, p) /\ edit = edits[i]
        BY <2>3 DEF EditsOf
      <3>2. /\ page.content[q].text = edits[i].text
            /\ NamesAt(page, q) = IF edits[i].fallback = NoFont THEN NamesAt(source, p)
                                  ELSE {FallbackResource(i)}
        BY <2>1, <3>1 DEF Alike
      <3>3. CASE edit.fallback = NoFont
        <4>1. NamesAt(page, q) = NamesAt(source, p)
          BY <3>1, <3>2, <3>3
        <4>2. Fonts(page, q) = Fonts(source, p)
          BY <4>1, FontsOfNames
        <4> QED
          BY <3>1, <3>2, <3>3, <4>2
      <3>4. CASE edit.fallback # NoFont
        <4>1. NamesAt(page, q) = {FallbackResource(i)} /\ page.fonts[FallbackResource(i)] = edit.fallback
          BY <1>1, <3>1, <3>2, <3>4 DEF InstalledSoFar
        <4>2. Fonts(page, q) = {page.fonts[FallbackResource(i)]}
          BY <4>1 DEF Fonts, NamesAt
        <4> QED
          BY <3>1, <3>2, <3>4, <4>1, <4>2
      <3> QED
        BY <3>3, <3>4
    <2> QED
      BY <2>2, <2>3
  <1> QED
    BY <1>2, <1>3, Zenon DEF EditsOf, OnlyEditedTextChanges

\* A page is written with every edited text in its font and every other one
\* as it was, whatever the page, the edits and their order.
THEOREM TextsKeepTheirFonts == SpecWrite => []OnlyEditedTextChanges
  <1>1. SpecWrite => []WriteInv
    BY InitWriteInv, NextWriteInv, PTL DEF SpecWrite
  <1> QED
    BY <1>1, WriteInvKeepsText, PTL

-----------------------------------------------------------------------------
(* Texts.  Offsets grow with the characters, and the graphemes follow each *)
(* other from the start of a text to its end.                              *)

LEMMA OffsetIs ==
  ASSUME NEW t, NEW i \in Nat
  PROVE  Utf16Offset(t, i) \in Nat /\ (i = 0 => Utf16Offset(t, i) = 0)
  <1> DEFINE wide == {k \in 1 .. i : Units[t[k]] = 2}
  <1>1. IsFiniteSet(1 .. i) /\ wide \subseteq 1 .. i
    <2>1. IsFiniteSet(1 .. i)
      <3>1. 0 \in Int /\ i \in Int /\ 1 \in Int
        OBVIOUS
      <3> QED
        BY <3>1, FS_Interval, Zenon
    <2>2. wide \subseteq 1 .. i
      BY Zenon
    <2> QED
      BY <2>1, <2>2, Zenon
  <1>2. i = 0 => wide = {}
    OBVIOUS
  <1> HIDE DEF wide
  <1>3. IsFiniteSet(wide) /\ Cardinality(wide) \in Nat
    BY <1>1, FS_Subset, FS_CardinalityType
  <1>4. i = 0 => Cardinality(wide) = 0
    BY <1>2, FS_EmptySet
  <1> QED
    BY <1>3, <1>4 DEF Utf16Offset, wide

LEMMA OffsetsGrow ==
  ASSUME NEW t, NEW i \in Nat, NEW j \in Nat, i < j
  PROVE  Utf16Offset(t, i) < Utf16Offset(t, j)
  <1> DEFINE Wide(n) == {k \in 1 .. n : Units[t[k]] = 2}
  <1>1. IsFiniteSet(1 .. j) /\ Wide(j) \subseteq 1 .. j /\ Wide(i) \subseteq Wide(j)
    BY FS_Interval
  <1>2. Utf16Offset(t, i) = i + Cardinality(Wide(i)) /\ Utf16Offset(t, j) = j + Cardinality(Wide(j))
    BY DEF Utf16Offset
  <1> HIDE DEF Wide
  <1>3. IsFiniteSet(Wide(j)) /\ Cardinality(Wide(j)) \in Nat
    BY <1>1, FS_Subset, FS_CardinalityType
  <1>4. Cardinality(Wide(i)) \in Nat /\ Cardinality(Wide(i)) <= Cardinality(Wide(j))
    BY <1>1, <1>3, FS_Subset, FS_CardinalityType
  <1> QED
    BY <1>2, <1>3, <1>4

\* Ranges between two characters are valid.
LEMMA BetweenCharacters ==
  ASSUME NEW t, Len(t) \in Nat, NEW i \in 0 .. Len(t), NEW j \in 0 .. Len(t), i <= j
  PROVE  /\ ValidateUtf16Range(t, Span(Utf16Offset(t, i), Utf16Offset(t, j))) = "ok"
         /\ Utf16Offset(t, i) \in Nat /\ Utf16Offset(t, j) \in Nat
  <1> DEFINE At(n) == Utf16Offset(t, n)
  <1>1. At(i) \in Nat /\ At(j) \in Nat /\ At(Len(t)) \in Nat
    BY OffsetIs
  <1>2. At(i) <= At(j)
    BY <1>1, OffsetsGrow
  <1>3. At(j) <= At(Len(t))
    BY <1>1, OffsetsGrow
  <1>4. {At(i), At(j)} \subseteq Boundaries(t)
    BY DEF Boundaries
  <1> QED
    BY <1>1, <1>2, <1>3, <1>4 DEF ValidateUtf16Range, Span

\* Where a valid range begins and ends in characters.
LEMMA RangeIsFound ==
  ASSUME NEW t, NEW r, ValidateUtf16Range(t, r) = "ok"
  PROVE  /\ Utf16RangeToByteRange(t, r).start \in 0 .. Len(t)
         /\ Utf16RangeToByteRange(t, r).end \in 0 .. Len(t)
  <1>1. r.start \in Boundaries(t) /\ r.end \in Boundaries(t)
    BY DEF ValidateUtf16Range
  <1>2. /\ \E i \in 0 .. Len(t) : Utf16Offset(t, i) = r.start
        /\ \E i \in 0 .. Len(t) : Utf16Offset(t, i) = r.end
    BY <1>1 DEF Boundaries
  <1> QED
    BY <1>2 DEF Utf16RangeToByteRange, Span

\* The elements of a finite set of numbers below one of them.
LowerOnes(S, i) == {j \in S : j < i}

LEMMA LowerOnesAre ==
  ASSUME NEW S, NEW i
  PROVE  LowerOnes(S, i) \in SUBSET S
  <1>1. \A k \in LowerOnes(S, i) : k \in S
    BY DEF LowerOnes
  <1> QED
    BY <1>1

LEMMA LowerOnesGrow ==
  ASSUME NEW S, S \subseteq Nat, NEW i \in Nat, NEW j \in Nat, i <= j
  PROVE  /\ LowerOnes(S, i) \in SUBSET LowerOnes(S, j)
         /\ i \notin LowerOnes(S, i)
         /\ (i < j /\ i \in S) => i \in LowerOnes(S, j)
  <1>1. \A k \in LowerOnes(S, i) : k \in LowerOnes(S, j)
    <2> SUFFICES ASSUME NEW k \in S, k < i PROVE k < j
      BY DEF LowerOnes
    <2>1. k \in Nat
      OBVIOUS
    <2> QED
      BY <2>1
  <1>2. i \notin LowerOnes(S, i) /\ ((i < j /\ i \in S) => i \in LowerOnes(S, j))
    BY DEF LowerOnes
  <1> QED
    BY <1>1, <1>2

\* Each number is the n-th of a finite set for one n, and the n-th ones grow.
LEMMA NthOfSet ==
  ASSUME NEW S, S \subseteq Nat, IsFiniteSet(S)
  PROVE  /\ Cardinality(S) \in Nat
         /\ \A n \in 1 .. Cardinality(S) : Nth(S, n) \in S /\ Cardinality(LowerOnes(S, Nth(S, n))) = n - 1
  <1> DEFINE m == Cardinality(S)
             Before(i) == Cardinality(LowerOnes(S, i))
             T == 0 .. m - 1
             f == [i \in S |-> Before(i)]
  <1>1. m \in Nat
    BY FS_CardinalityType
  <1>2. ASSUME NEW i \in S
        PROVE  IsFiniteSet(LowerOnes(S, i)) /\ Before(i) \in T
    <2>1. LowerOnes(S, i) \in SUBSET S /\ i \notin LowerOnes(S, i)
      BY LowerOnesAre DEF LowerOnes
    <2>2. IsFiniteSet(LowerOnes(S, i)) /\ Before(i) \in Nat
      BY <2>1, FS_Subset, FS_CardinalityType
    <2>3. Before(i) <= m
      BY <2>1, FS_Subset
    <2>4. Before(i) # m
      BY <2>1, FS_Subset
    <2> QED
      BY <1>1, <2>2, <2>3, <2>4
  <1>3. ASSUME NEW i \in S, NEW j \in S, i < j
        PROVE  Before(i) < Before(j)
    <2>1. LowerOnes(S, i) \in SUBSET LowerOnes(S, j) /\ i \in LowerOnes(S, j) /\ i \notin LowerOnes(S, i)
      <3>1. i \in Nat /\ j \in Nat /\ i <= j
        BY <1>3
      <3> QED
        BY <1>3, <3>1, LowerOnesGrow
    <2>2. IsFiniteSet(LowerOnes(S, j)) /\ Before(i) \in T /\ Before(j) \in T
      BY <1>2
    <2>3. Before(i) <= Before(j)
      BY <2>1, <2>2, FS_Subset
    <2>4. Before(i) # Before(j)
      BY <2>1, <2>2, FS_Subset
    <2> QED
      BY <1>1, <2>2, <2>3, <2>4
  <1> HIDE DEF m
  <1>4. f \in Injection(S, T)
    <2>1. f \in [S -> T]
      BY <1>2
    <2>2. \A i, j \in S : f[i] = f[j] => i = j
      <3> SUFFICES ASSUME NEW i \in S, NEW j \in S, i # j PROVE Before(i) # Before(j)
        OBVIOUS
      <3>1. i \in Nat /\ j \in Nat /\ (i < j \/ j < i)
        OBVIOUS
      <3>2. Before(i) \in T /\ Before(j) \in T
        BY <1>2
      <3> HIDE DEF Before
      <3> QED
        BY <1>1, <1>3, <3>1, <3>2
    <2> HIDE DEF f
    <2> QED
      BY <2>1, <2>2 DEF Injection, IsInjective
  <1>5. IsFiniteSet(T) /\ Cardinality(T) = m
    BY <1>1, FS_Interval
  <1>6. f \in Surjection(S, T)
    <2> HIDE DEF f, T
    <2> QED
      BY <1>4, <1>5, FS_Injection DEF m
  <1>7. ASSUME NEW n \in 1 .. m
        PROVE  \E i \in S : Before(i) = n - 1
    <2>1. n - 1 \in T
      BY <1>1
    <2>2. PICK i \in S : f[i] = n - 1
      BY <1>6, <2>1 DEF Surjection
    <2> QED
      BY <2>2
  <1>8. ASSUME NEW n \in 1 .. m
        PROVE  Nth(S, n) \in S /\ Cardinality(LowerOnes(S, Nth(S, n))) = n - 1
    BY <1>7 DEF Nth, LowerOnes
  <1> QED
    BY <1>1, <1>8 DEF m

LEMMA NthOfEach ==
  ASSUME NEW S, S \subseteq Nat, IsFiniteSet(S), NEW i \in S
  PROVE  \E n \in 1 .. Cardinality(S) : Nth(S, n) = i
  <1> DEFINE below == LowerOnes(S, i)
             n == Cardinality(below) + 1
             j == Nth(S, n)
  <1>1. below \in SUBSET S /\ i \notin below
    BY LowerOnesAre DEF LowerOnes
  <1>2. Cardinality(S) \in Nat /\ IsFiniteSet(below) /\ Cardinality(below) \in Nat
    BY <1>1, FS_Subset, FS_CardinalityType
  <1>3. Cardinality(below) <= Cardinality(S)
    BY <1>1, FS_Subset
  <1>4. Cardinality(below) # Cardinality(S)
    BY <1>1, FS_Subset
  <1> HIDE DEF below
  <1>5. n \in 1 .. Cardinality(S) /\ n - 1 = Cardinality(below)
    BY <1>2, <1>3, <1>4
  <1>6. j \in S /\ Cardinality(LowerOnes(S, j)) = n - 1
    BY <1>5, NthOfSet
  <1> HIDE DEF n, j
  <1>7. i \in Nat /\ j \in Nat
    BY <1>6
  <1>8. ASSUME NEW a \in S, NEW b \in S, a < b
        PROVE  Cardinality(LowerOnes(S, a)) # Cardinality(LowerOnes(S, b))
    <2>1. a \in Nat /\ b \in Nat /\ a <= b
      BY <1>8
    <2>2. /\ LowerOnes(S, a) \in SUBSET LowerOnes(S, b) /\ LowerOnes(S, b) \in SUBSET S
          /\ a \notin LowerOnes(S, a) /\ a \in LowerOnes(S, b)
      BY <1>8, <2>1, LowerOnesGrow, LowerOnesAre
    <2>3. IsFiniteSet(LowerOnes(S, b))
      BY <2>2, FS_Subset
    <2> QED
      BY <2>2, <2>3, FS_Subset
  <1>9. j = i
    BY <1>5, <1>6, <1>7, <1>8 DEF below
  <1> QED
    BY <1>5, <1>9 DEF j

LEMMA NthGrows ==
  ASSUME NEW S, S \subseteq Nat, IsFiniteSet(S), NEW n \in 1 .. Cardinality(S), n + 1 <= Cardinality(S)
  PROVE  Nth(S, n) < Nth(S, n + 1)
  <1> DEFINE i == Nth(S, n)
             j == Nth(S, n + 1)
  <1>1. /\ i \in S /\ Cardinality(LowerOnes(S, i)) = n - 1
        /\ j \in S /\ Cardinality(LowerOnes(S, j)) = n
        /\ n \in Nat /\ i \in Nat /\ j \in Nat
    <2>1. Cardinality(S) \in Nat
      BY FS_CardinalityType
    <2>2. n \in Nat /\ n + 1 \in 1 .. Cardinality(S) /\ (n + 1) - 1 = n
      BY <2>1
    <2>3. i \in S /\ Cardinality(LowerOnes(S, i)) = n - 1
      BY NthOfSet
    <2>4. j \in S /\ Cardinality(LowerOnes(S, j)) = (n + 1) - 1
      BY <2>2, NthOfSet
    <2> HIDE DEF i, j
    <2> QED
      BY <2>2, <2>3, <2>4
  <1> HIDE DEF i, j
  <1>2. ASSUME j <= i PROVE FALSE
    <2>1. LowerOnes(S, j) \in SUBSET LowerOnes(S, i) /\ LowerOnes(S, i) \in SUBSET S
      BY <1>1, <1>2, LowerOnesGrow, LowerOnesAre
    <2>2. IsFiniteSet(LowerOnes(S, i))
      BY <2>1, FS_Subset
    <2>3. Cardinality(LowerOnes(S, j)) <= Cardinality(LowerOnes(S, i))
      BY <2>1, <2>2, FS_Subset
    <2> QED
      BY <1>1, <2>3
  <1> QED
    BY <1>1, <1>2 DEF i, j

\* A set that holds 0 has it first.
LEMMA NthFirst ==
  ASSUME NEW S, S \subseteq Nat, IsFiniteSet(S), 0 \in S
  PROVE  Cardinality(S) \in Nat \ {0} /\ Nth(S, 1) = 0
  <1>1. Cardinality(S) \in Nat \ {0}
    BY FS_CardinalityType, FS_EmptySet
  <1>2. Nth(S, 1) \in S /\ Cardinality(LowerOnes(S, Nth(S, 1))) = 0
    <2>1. 1 \in 1 .. Cardinality(S) /\ 1 - 1 = 0
      BY <1>1
    <2>2. Nth(S, 1) \in S /\ Cardinality(LowerOnes(S, Nth(S, 1))) = 1 - 1
      BY <2>1, NthOfSet
    <2> QED
      BY <2>1, <2>2
  <1>3. IsFiniteSet(LowerOnes(S, Nth(S, 1)))
    <2>1. LowerOnes(S, Nth(S, 1)) \in SUBSET S
      BY LowerOnesAre
    <2> QED
      BY <2>1, FS_Subset
  <1>4. LowerOnes(S, Nth(S, 1)) = {}
    BY <1>2, <1>3, FS_EmptySet
  <1>5. Nth(S, 1) \in Nat /\ ~(0 < Nth(S, 1))
    BY <1>2, <1>4 DEF LowerOnes
  <1> QED
    BY <1>1, <1>5

LEMMA StartsAre ==
  ASSUME NEW t \in Seq(Char)
  PROVE  /\ GraphemeStarts(t) \subseteq 0 .. Len(t) - 1 /\ GraphemeStarts(t) \subseteq Nat
         /\ IsFiniteSet(GraphemeStarts(t))
         /\ t # <<>> => 0 \in GraphemeStarts(t)
  <1>1. Len(t) \in Nat /\ (t # <<>> => Len(t) # 0)
    OBVIOUS
  <1>2. GraphemeStarts(t) \subseteq 0 .. Len(t) - 1
    BY DEF GraphemeStarts
  <1>3. IsFiniteSet(0 .. Len(t) - 1)
    BY <1>1, FS_Interval
  <1>4. IsFiniteSet(GraphemeStarts(t))
    BY <1>2, <1>3, FS_Subset
  <1>5. t # <<>> => 0 \in GraphemeStarts(t)
    BY <1>1 DEF GraphemeStarts
  <1> QED
    BY <1>1, <1>2, <1>4, <1>5

\* The graphemes are as many as their starts; each begins where the one before
\* ends, and the last ends with the text.
LEMMA GraphemesAre ==
  ASSUME NEW t \in Seq(Char)
  PROVE  LET all == Graphemes(t)
             n   == Len(all)
         IN /\ n \in Nat /\ DOMAIN all = 1 .. n /\ (t # <<>> <=> n # 0)
            /\ \A g \in 1 .. n :
                 /\ all[g] = Span(all[g].start, all[g].end)
                 /\ all[g].start \in GraphemeStarts(t)
                 /\ all[g].start < all[g].end /\ all[g].end \in 0 .. Len(t)
                 /\ all[g].start = IF g = 1 THEN 0 ELSE all[g - 1].end
                 /\ all[g].end = Len(t) \/ all[g].end \in GraphemeStarts(t)
            /\ n # 0 => all[n].end = Len(t)
  <1> DEFINE S == GraphemeStarts(t)
             n == Cardinality(S)
             all == [g \in 1 .. n |-> Span(Nth(S, g), IF g < n THEN Nth(S, g + 1) ELSE Len(t))]
  <1>1. S \subseteq 0 .. Len(t) - 1 /\ S \subseteq Nat /\ IsFiniteSet(S) /\ (t # <<>> => 0 \in S)
    BY StartsAre
  <1>2. n \in Nat
    BY <1>1, FS_CardinalityType
  <1>3. Graphemes(t) = all
    BY DEF Graphemes
  <1>4. Len(t) \in Nat
    OBVIOUS
  <1> HIDE DEF S, n
  <1>5. \A g \in 1 .. n : Nth(S, g) \in S /\ Nth(S, g) \in 0 .. Len(t) - 1
    BY <1>1, NthOfSet DEF n
  <1>6. \A g \in 1 .. n : g < n => Nth(S, g) < Nth(S, g + 1) /\ Nth(S, g + 1) \in S /\ g + 1 \in 1 .. n
    <2> SUFFICES ASSUME NEW g \in 1 .. n, g < n
                 PROVE  Nth(S, g) < Nth(S, g + 1) /\ Nth(S, g + 1) \in S /\ g + 1 \in 1 .. n
      OBVIOUS
    <2>1. g + 1 \in 1 .. n
      BY <1>2
    <2>2. g \in 1 .. Cardinality(S) /\ g + 1 <= Cardinality(S)
      BY <1>2, <2>1 DEF n
    <2>3. Nth(S, g) < Nth(S, g + 1)
      BY <1>1, <2>2, NthGrows
    <2> QED
      BY <1>5, <2>1, <2>3
  <1>7. t # <<>> => n # 0 /\ Nth(S, 1) = 0
    BY <1>1, NthFirst DEF n
  <1>8. t = <<>> => n = 0
    <2> SUFFICES ASSUME t = <<>> PROVE n = 0
      OBVIOUS
    <2>1. Len(t) = 0
      OBVIOUS
    <2>2. S = {}
      BY <1>1, <2>1
    <2> QED
      BY <2>2, FS_EmptySet DEF n
  <1>9. Len(all) = n /\ DOMAIN all = 1 .. n
    <2> DEFINE R == {all[g] : g \in 1 .. n}
    <2>1. all \in [1 .. n -> R] /\ DOMAIN all = 1 .. n
      OBVIOUS
    <2> HIDE DEF all, R
    <2>2. all \in Seq(R)
      BY <1>2, <2>1, SeqDef
    <2> QED
      BY <1>2, <2>1, <2>2
  <1>10. ASSUME NEW g \in 1 .. n
         PROVE  /\ all[g] = Span(all[g].start, all[g].end)
                /\ all[g].start \in S
                /\ all[g].start < all[g].end /\ all[g].end \in 0 .. Len(t)
                /\ all[g].start = IF g = 1 THEN 0 ELSE all[g - 1].end
                /\ all[g].end = Len(t) \/ all[g].end \in S
    <2>1. all[g] = Span(Nth(S, g), IF g < n THEN Nth(S, g + 1) ELSE Len(t))
      OBVIOUS
    <2>2. g # 1 => g - 1 \in 1 .. n /\ g - 1 < n /\ (g - 1) + 1 = g
      BY <1>2
    <2>3. g # 1 => all[g - 1].end = Nth(S, g)
      BY <2>2 DEF Span
    <2>4. t # <<>>
      BY <1>2, <1>8
    <2>5. all[g].start = IF g = 1 THEN 0 ELSE all[g - 1].end
      BY <1>7, <2>1, <2>3, <2>4 DEF Span
    <2>6. /\ all[g].start = Nth(S, g)
          /\ all[g].end = IF g < n THEN Nth(S, g + 1) ELSE Len(t)
      BY <2>1 DEF Span
    <2> HIDE DEF all
    <2>7. /\ all[g].start < all[g].end /\ all[g].end \in 0 .. Len(t)
          /\ all[g].end = Len(t) \/ all[g].end \in S
      BY <1>1, <1>4, <1>5, <1>6, <2>6
    <2> QED
      BY <1>5, <2>1, <2>5, <2>6, <2>7
  <1>11. n # 0 => all[n].end = Len(t)
    BY <1>2 DEF Span
  <1> HIDE DEF all
  <1> QED
    BY <1>2, <1>3, <1>7, <1>8, <1>9, <1>10, <1>11 DEF S

LEMMA FunctionIsSequence ==
  ASSUME NEW n \in Nat, NEW s, s = [i \in 1 .. n |-> s[i]]
  PROVE  Len(s) = n /\ DOMAIN s = 1 .. n /\ (s = <<>> <=> n = 0)
  <1> DEFINE R == {s[i] : i \in 1 .. n}
  <1>1. s \in [1 .. n -> R] /\ DOMAIN s = 1 .. n
    OBVIOUS
  <1> HIDE DEF R
  <1>2. s \in Seq(R)
    BY <1>1, SeqDef
  <1> QED
    BY <1>1, <1>2

\* The boxes of the graphemes tile their text.
LEMMA BoxesTile ==
  ASSUME NEW t \in Seq(Char)
  PROVE  LET boxes == ReflowCharacterBoxes(t)
         IN /\ Len(boxes) = Len(Graphemes(t)) /\ Len(boxes) \in Nat
            /\ boxes = <<>> <=> t = <<>>
            /\ Tiles(boxes, t)
            /\ \A i \in DOMAIN boxes : /\ boxes[i].start < boxes[i].end
                                       /\ {boxes[i].start, boxes[i].end} \subseteq GraphemeBoundaries(t)
  <1> DEFINE all == Graphemes(t)
             n == Len(all)
             At(i) == Utf16Offset(t, i)
             boxes == [g \in 1 .. n |-> Span(At(all[g].start), At(all[g].end))]
  <1>1. /\ n \in Nat /\ DOMAIN all = 1 .. n /\ (t # <<>> <=> n # 0)
        /\ n # 0 => all[n].end = Len(t)
    BY GraphemesAre
  <1>2. ASSUME NEW g \in 1 .. n
        PROVE  /\ all[g].start \in GraphemeStarts(t)
               /\ all[g].start < all[g].end /\ all[g].end \in 0 .. Len(t)
               /\ all[g].start = IF g = 1 THEN 0 ELSE all[g - 1].end
               /\ all[g].end = Len(t) \/ all[g].end \in GraphemeStarts(t)
    BY <1>2, GraphemesAre
  <1>3. ReflowCharacterBoxes(t) = boxes
    BY <1>1 DEF ReflowCharacterBoxes
  <1>4. Len(t) \in Nat /\ GraphemeStarts(t) \subseteq 0 .. Len(t) - 1
    BY StartsAre
  <1>5. \A i \in GraphemeStarts(t) : At(i) \in GraphemeBoundaries(t)
    <2> SUFFICES ASSUME NEW i \in GraphemeStarts(t) PROVE At(i) \in GraphemeBoundaries(t)
      OBVIOUS
    <2>1. PICK g \in 1 .. n : i = all[g].start
      <3> DEFINE S == GraphemeStarts(t)
                 m == Cardinality(S)
                 g == Cardinality(LowerOnes(S, i)) + 1
      <3>1. S \subseteq Nat /\ IsFiniteSet(S)
        BY StartsAre
      <3>2. m = n
        <4>1. m \in Nat
          BY <3>1, FS_CardinalityType
        <4> DEFINE f == Graphemes(t)
        <4>2. f = [h \in 1 .. m |-> f[h]]
          BY DEF Graphemes
        <4> HIDE DEF f, m
        <4> QED
          BY <4>1, <4>2, FunctionIsSequence DEF f
      <3>3. \E h \in 1 .. m : Nth(S, h) = i
        BY <3>1, NthOfEach
      <3>4. PICK h \in 1 .. m : Nth(S, h) = i
        BY <3>3
      <3>5. all[h].start = Nth(S, h)
        BY <3>4 DEF Graphemes, Span
      <3> QED
        BY <3>2, <3>4, <3>5
    <2> QED
      BY <1>1, <2>1 DEF GraphemeBoundaries
  <1>6. At(Len(t)) \in GraphemeBoundaries(t)
    BY DEF GraphemeBoundaries, Utf16Length
  <1>7. At(0) = 0
    BY OffsetIs
  <1> HIDE DEF all, n, At
  <1>8. /\ Len(boxes) = n /\ DOMAIN boxes = 1 .. n /\ (boxes = <<>> <=> n = 0)
        /\ \A g \in 1 .. n : boxes[g].start = At(all[g].start) /\ boxes[g].end = At(all[g].end)
        /\ \A g \in 1 .. n : boxes[g] = Span(At(all[g].start), At(all[g].end))
    <2>1. boxes = [g \in 1 .. n |-> boxes[g]]
      OBVIOUS
    <2>2. \A g \in 1 .. n : boxes[g] = Span(At(all[g].start), At(all[g].end))
      OBVIOUS
    <2> HIDE DEF boxes
    <2> QED
      BY <1>1, <2>1, <2>2, FunctionIsSequence DEF Span
  <1> HIDE DEF boxes
  <1>9. ASSUME NEW g \in 1 .. n
        PROVE  /\ boxes[g].start = IF g = 1 THEN 0 ELSE boxes[g - 1].end
               /\ ValidateUtf16Range(t, boxes[g]) = "ok"
               /\ boxes[g].start < boxes[g].end
               /\ {boxes[g].start, boxes[g].end} \subseteq GraphemeBoundaries(t)
    <2>1. /\ all[g].start \in 0 .. Len(t) /\ all[g].end \in 0 .. Len(t)
          /\ all[g].start < all[g].end /\ all[g].start <= all[g].end
          /\ all[g].start \in Nat /\ all[g].end \in Nat
      BY <1>2, <1>4
    <2>2. At(all[g].start) < At(all[g].end)
      BY <2>1, OffsetsGrow DEF At
    <2>3. ValidateUtf16Range(t, Span(At(all[g].start), At(all[g].end))) = "ok"
      BY <1>4, <2>1, BetweenCharacters DEF At
    <2>4. g # 1 => g - 1 \in 1 .. n
      BY <1>1
    <2>5. boxes[g].start = IF g = 1 THEN 0 ELSE boxes[g - 1].end
      BY <1>2, <1>7, <1>8, <2>4
    <2>6. {boxes[g].start, boxes[g].end} \subseteq GraphemeBoundaries(t)
      BY <1>2, <1>5, <1>6, <1>8
    <2> QED
      BY <1>8, <2>2, <2>3, <2>5, <2>6
  <1>10. (IF boxes = <<>> THEN 0 ELSE Last(boxes).end) = Utf16Length(t)
    <2>1. CASE n = 0
      <3>1. Len(t) = 0
        BY <1>1, <2>1
      <3> QED
        BY <1>7, <1>8, <2>1, <3>1 DEF Utf16Length, At
    <2>2. CASE n # 0
      <3>1. n \in 1 .. n
        BY <1>1, <2>2
      <3> QED
        BY <1>1, <1>8, <2>2, <3>1 DEF Last, Utf16Length, At
    <2> QED
      BY <2>1, <2>2
  <1>11. Tiles(boxes, t)
    BY <1>8, <1>9, <1>10 DEF Tiles
  <1>12. Len(boxes) = Len(Graphemes(t)) /\ Len(boxes) \in Nat /\ (boxes = <<>> <=> t = <<>>)
    BY <1>1, <1>8 DEF n, all
  <1> QED
    BY <1>3, <1>8, <1>9, <1>11, <1>12

-----------------------------------------------------------------------------
(* Runs.  Cutting one into its parts leaves a chain that covers what it    *)
(* covered, and so does cutting all of a chain.                            *)

LEMMA LargerOfTwo ==
  ASSUME NEW a \in Int, NEW b \in Int
  PROVE  /\ Max({a, b}) \in Int /\ Max({a, b}) = (IF a >= b THEN a ELSE b)
         /\ Min({a, b}) \in Int /\ Min({a, b}) = (IF a <= b THEN a ELSE b)
  <1> DEFINE large == IF a >= b THEN a ELSE b
             small == IF a <= b THEN a ELSE b
  <1>1. \E x \in {a, b} : \A y \in {a, b} : x >= y
    <2>1. large \in {a, b} /\ \A y \in {a, b} : large >= y
      OBVIOUS
    <2> QED
      BY <2>1
  <1>2. \E x \in {a, b} : \A y \in {a, b} : x <= y
    <2>1. small \in {a, b} /\ \A y \in {a, b} : small <= y
      OBVIOUS
    <2> QED
      BY <2>1
  <1>3. Max({a, b}) \in {a, b} /\ \A y \in {a, b} : Max({a, b}) >= y
    BY <1>1 DEF Max
  <1>4. Min({a, b}) \in {a, b} /\ \A y \in {a, b} : Min({a, b}) <= y
    BY <1>2 DEF Min
  <1> QED
    BY <1>3, <1>4

\* The fonts that a run may be set in.
Families ==
  {NoFace} \cup {b.font : b \in SourceBlock}
    \cup {c.approval.font : c \in {d \in ObjectCommand : d.kind = "replace"}}
    \cup {c.style.family : c \in {d \in ObjectCommand : d.kind = "style"}}

StyledRun == [range : [start : Nat, end : Nat], style : [size : Nat \ {0}, family : Families]]

\* Runs of t side by side.
Chain(laid, t, from, to) ==
  /\ laid \in Seq(StyledRun) /\ laid # <<>>
  /\ laid[1].range.start = from /\ laid[Len(laid)].range.end = to
  /\ \A i \in 1 .. Len(laid) : /\ ValidateUtf16Range(t, laid[i].range) = "ok"
                               /\ i > 1 => laid[i].range.start = laid[i - 1].range.end

LEMMA ChainIs ==
  ASSUME NEW t, NEW a, NEW b, NEW laid, Chain(laid, t, a, b)
  PROVE  /\ laid \in Seq(StyledRun) /\ laid # <<>>
         /\ Len(laid) \in Nat \ {0} /\ DOMAIN laid = 1 .. Len(laid)
         /\ laid[1].range.start = a /\ laid[Len(laid)].range.end = b
         /\ \A i \in 1 .. Len(laid) : laid[i] \in StyledRun
         /\ \A i \in 1 .. Len(laid) : ValidateUtf16Range(t, laid[i].range) = "ok"
         /\ \A i \in 1 .. Len(laid) : i > 1 => laid[i].range.start = laid[i - 1].range.end
  <1>1. laid \in Seq(StyledRun) /\ laid # <<>>
    BY Zenon DEF Chain
  <1>2. laid[1].range.start = a /\ laid[Len(laid)].range.end = b
    BY Zenon DEF Chain
  <1>3. \A i \in 1 .. Len(laid) : ValidateUtf16Range(t, laid[i].range) = "ok"
    BY Zenon DEF Chain
  <1>4. \A i \in 1 .. Len(laid) : i > 1 => laid[i].range.start = laid[i - 1].range.end
    BY Zenon DEF Chain
  <1>5. Len(laid) \in Nat \ {0} /\ DOMAIN laid = 1 .. Len(laid)
    BY <1>1
  <1>6. \A i \in 1 .. Len(laid) : laid[i] \in StyledRun
    BY <1>1
  <1> QED
    BY <1>1, <1>2, <1>3, <1>4, <1>5, <1>6, Zenon

LEMMA ChainOfOne ==
  ASSUME NEW t, NEW run \in StyledRun, ValidateUtf16Range(t, run.range) = "ok"
  PROVE  Chain(<<run>>, t, run.range.start, run.range.end)
  BY DEF Chain

LEMMA ChainsJoin ==
  ASSUME NEW t, NEW a, NEW b, NEW c, NEW first, NEW second, Chain(first, t, a, b), Chain(second, t, b, c)
  PROVE  Chain(first \o second, t, a, c)
  <1> DEFINE both == first \o second
             n == Len(first)
             m == Len(second)
             Valid(run) == ValidateUtf16Range(t, run.range) = "ok"
             Meet(run, next) == next.range.start = run.range.end
  <1>1. /\ first \in Seq(StyledRun) /\ first # <<>> /\ n \in Nat \ {0}
        /\ first[1].range.start = a /\ first[n].range.end = b
        /\ \A i \in 1 .. n : Valid(first[i]) /\ (i > 1 => Meet(first[i - 1], first[i]))
    <2> HIDE DEF both, m
    <2> QED
      BY ChainIs
  <1>2. /\ second \in Seq(StyledRun) /\ second # <<>> /\ m \in Nat \ {0}
        /\ second[1].range.start = b /\ second[m].range.end = c
        /\ \A i \in 1 .. m : Valid(second[i]) /\ (i > 1 => Meet(second[i - 1], second[i]))
    <2> HIDE DEF both, n
    <2> QED
      BY ChainIs
  <1>3. /\ both \in Seq(StyledRun) /\ Len(both) = n + m
        /\ \A i \in 1 .. n + m : both[i] = IF i <= n THEN first[i] ELSE second[i - n]
    <2> HIDE DEF Valid, Meet
    <2> QED
      BY <1>1, <1>2, ConcatProperties
  <1>4. Meet(first[n], second[1])
    BY <1>1, <1>2
  <1> HIDE DEF both, n, m, Valid, Meet
  <1>5. both # <<>> /\ both[1].range.start = a /\ both[Len(both)].range.end = c
    <2>1. n + m # 0 /\ 1 \in 1 .. n + m /\ n + m \in 1 .. n + m /\ 1 <= n /\ ~(n + m <= n) /\ (n + m) - n = m
      BY <1>1, <1>2
    <2>2. both[1] = first[1] /\ both[n + m] = second[m]
      BY <1>3, <2>1
    <2> QED
      BY <1>1, <1>2, <1>3, <2>1, <2>2
  <1>6. ASSUME NEW i \in 1 .. n + m
        PROVE  Valid(both[i]) /\ (i > 1 => Meet(both[i - 1], both[i]))
    <2>1. CASE i <= n
      <3>1. i \in 1 .. n /\ both[i] = first[i] /\ (i > 1 => both[i - 1] = first[i - 1])
        BY <1>1, <1>2, <1>3, <2>1
      <3> QED
        BY <1>1, <3>1
    <2>2. CASE i = n + 1
      <3>1. both[i] = second[1] /\ both[i - 1] = first[n] /\ 1 \in 1 .. m
        BY <1>1, <1>2, <1>3, <2>2
      <3> QED
        BY <1>2, <1>4, <3>1
    <2>3. CASE i > n + 1
      <3>1. /\ i - n \in 1 .. m /\ i - n > 1 /\ (i - 1) - n = (i - n) - 1
            /\ i - 1 \in 1 .. n + m /\ ~(i <= n) /\ ~(i - 1 <= n)
        BY <1>1, <1>2, <2>3
      <3>2. both[i] = second[i - n] /\ both[i - 1] = second[(i - n) - 1]
        BY <1>3, <3>1
      <3> QED
        BY <1>2, <3>1, <3>2
    <2> QED
      BY <1>1, <1>2, <2>1, <2>2, <2>3
  <1> DEFINE total == Len(both)
  <1>7. total = n + m
    BY <1>3
  <1>8. \A i \in 1 .. total : Valid(both[i]) /\ (i > 1 => Meet(both[i - 1], both[i]))
    BY <1>6, <1>7
  <1> QED
    BY <1>3, <1>5, <1>8 DEF Chain, both, Valid, Meet

\* A range between ends of valid ranges is valid.
LEMMA BetweenEnds ==
  ASSUME NEW t \in Seq(Char), NEW a \in Nat, NEW b \in Nat, a <= b, b <= Utf16Offset(t, Len(t)),
         {a, b} \subseteq Boundaries(t)
  PROVE  ValidateUtf16Range(t, Span(a, b)) = "ok"
  <1>1. Utf16Offset(t, Len(t)) \in Nat
    BY OffsetIs
  <1> QED
    BY <1>1 DEF ValidateUtf16Range, Span

LEMMA ValidRange ==
  ASSUME NEW t \in Seq(Char), NEW r, r.start \in Nat, r.end \in Nat, ValidateUtf16Range(t, r) = "ok"
  PROVE  r.start <= r.end /\ r.end <= Utf16Offset(t, Len(t)) /\ {r.start, r.end} \subseteq Boundaries(t)
  <1>1. Utf16Offset(t, Len(t)) \in Nat
    BY OffsetIs
  <1> QED
    BY <1>1 DEF ValidateUtf16Range

\* The parts of a run cover it.
LEMMA PartsCover ==
  ASSUME NEW t \in Seq(Char), NEW run \in StyledRun, ValidateUtf16Range(t, run.range) = "ok",
         NEW r, r.start \in Nat, r.end \in Nat, r.start # r.end, ValidateUtf16Range(t, r) = "ok",
         NEW style \in [size : Nat \ {0}, family : Families]
  PROVE  Chain(SplitRun(run, r, style), t, run.range.start, run.range.end)
  <1> DEFINE from == run.range.start
             to == run.range.end
             lower == Max({from, r.start})
             upper == Min({to, r.end})
             before == [run EXCEPT !.range.end = r.start]
             inside == [range |-> Span(lower, upper), style |-> style]
             after == [run EXCEPT !.range.start = r.end]
             total == Utf16Offset(t, Len(t))
  <1>1. from \in Nat /\ to \in Nat /\ run.range = Span(from, to)
    BY DEF StyledRun, Span
  <1>2. /\ from <= to /\ to <= total /\ {from, to} \subseteq Boundaries(t)
        /\ r.start < r.end /\ r.end <= total /\ {r.start, r.end} \subseteq Boundaries(t)
        /\ total \in Nat
    <2>1. from <= to /\ to <= total /\ {from, to} \subseteq Boundaries(t)
      BY <1>1, ValidRange
    <2>2. r.start <= r.end /\ r.end <= total /\ {r.start, r.end} \subseteq Boundaries(t)
      BY ValidRange
    <2>3. total \in Nat
      BY OffsetIs
    <2> QED
      BY <2>1, <2>2, <2>3
  <1>3. /\ before \in StyledRun /\ before.range = Span(from, r.start)
        /\ after \in StyledRun /\ after.range = Span(r.end, to)
    BY DEF StyledRun, Span
  <1>4. /\ lower = IF from >= r.start THEN from ELSE r.start
        /\ upper = IF to <= r.end THEN to ELSE r.end
    <2>1. from \in Int /\ to \in Int /\ r.start \in Int /\ r.end \in Int
      BY <1>1
    <2>2. \A a, b \in Int : /\ Max({a, b}) = IF a >= b THEN a ELSE b
                            /\ Min({a, b}) = IF a <= b THEN a ELSE b
      BY LargerOfTwo
    <2> HIDE DEF from, to
    <2> QED
      BY <2>1, <2>2
  <1> HIDE DEF from, to, lower, upper, before, after, total
  <1>5. CASE to <= r.start \/ from >= r.end
    <2>1. SplitRun(run, r, style) = <<run>>
      BY <1>5 DEF SplitRun, from, to
    <2> QED
      BY <2>1, ChainOfOne DEF from, to
  <1>6. CASE ~(to <= r.start \/ from >= r.end)
    <2>1. lower \in Nat /\ upper \in Nat /\ lower <= upper /\ upper <= total /\ {lower, upper} \subseteq Boundaries(t)
      BY <1>1, <1>2, <1>4, <1>6
    <2>2. inside \in StyledRun /\ inside.range = Span(lower, upper)
      BY <2>1 DEF StyledRun, Span
    <2>3. Chain(<<inside>>, t, lower, upper)
      <3>1. ValidateUtf16Range(t, inside.range) = "ok"
        BY <1>2, <2>1, <2>2, BetweenEnds DEF total
      <3>2. Chain(<<inside>>, t, inside.range.start, inside.range.end)
        BY <2>2, <3>1, ChainOfOne
      <3> QED
        BY <2>2, <3>2 DEF Span
    <2>4. from < r.start => Chain(<<before>>, t, from, lower)
      <3> SUFFICES ASSUME from < r.start PROVE Chain(<<before>>, t, from, r.start) /\ lower = r.start
        OBVIOUS
      <3>1. r.start <= total
        BY <1>2
      <3>2. ValidateUtf16Range(t, before.range) = "ok"
        BY <1>1, <1>2, <1>3, <3>1, BetweenEnds DEF total
      <3>3. Chain(<<before>>, t, before.range.start, before.range.end)
        BY <1>3, <3>2, ChainOfOne
      <3> QED
        BY <1>1, <1>3, <1>4, <3>3 DEF Span
    <2>5. to > r.end => Chain(<<after>>, t, upper, to)
      <3> SUFFICES ASSUME to > r.end PROVE Chain(<<after>>, t, r.end, to) /\ upper = r.end
        OBVIOUS
      <3>1. ValidateUtf16Range(t, after.range) = "ok"
        BY <1>1, <1>2, <1>3, BetweenEnds DEF total
      <3>2. Chain(<<after>>, t, after.range.start, after.range.end)
        BY <1>3, <3>1, ChainOfOne
      <3> QED
        BY <1>1, <1>3, <1>4, <3>2 DEF Span
    <2> HIDE DEF inside
    <2>6. SplitRun(run, r, style) = (IF from < r.start THEN <<before>> ELSE <<>>) \o <<inside>>
                                    \o (IF to > r.end THEN <<after>> ELSE <<>>)
      BY <1>6 DEF SplitRun, from, to, before, after, inside, lower, upper
    <2>7. Chain((IF from < r.start THEN <<before>> ELSE <<>>) \o <<inside>>, t, from, upper)
      <3>1. CASE from < r.start
        BY <2>3, <2>4, <3>1, ChainsJoin
      <3>2. CASE ~(from < r.start)
        <4>1. <<>> \o <<inside>> = <<inside>> /\ lower = from
          BY <1>1, <1>4, <3>2
        <4> QED
          BY <2>3, <3>2, <4>1
      <3> QED
        BY <3>1, <3>2
    <2> DEFINE some == (IF from < r.start THEN <<before>> ELSE <<>>) \o <<inside>>
    <2> HIDE DEF some
    <2>8. Chain(some \o (IF to > r.end THEN <<after>> ELSE <<>>), t, from, to)
      <3>1. CASE to > r.end
        BY <2>5, <2>7, <3>1, ChainsJoin DEF some
      <3>2. CASE ~(to > r.end)
        <4>1. some \o <<>> = some /\ upper = to
          BY <1>1, <1>4, <2>7, <3>2 DEF some, Chain
        <4> QED
          BY <2>7, <3>2, <4>1 DEF some
      <3> QED
        BY <3>1, <3>2
    <2> QED
      BY <2>6, <2>8 DEF some, from, to
  <1> QED
    BY <1>5, <1>6

FlatOf(of, seqs, n) == of = [i \in 1 .. n |-> IF i = 1 THEN seqs[i] ELSE of[i - 1] \o seqs[i]]

LEMMA FlatOfExists ==
  ASSUME NEW seqs, NEW n \in Nat
  PROVE  \E of : FlatOf(of, seqs, n)
  <1> DEFINE S == {k \in Nat : \E of : FlatOf(of, seqs, k)}
  <1>1. 0 \in S
    <2> DEFINE of == [i \in 1 .. 0 |-> <<>>]
    <2>1. FlatOf(of, seqs, 0)
      BY DEF FlatOf
    <2> QED
      BY <2>1
  <1>2. ASSUME NEW k \in Nat, k \in S PROVE k + 1 \in S
    <2>1. PICK of : FlatOf(of, seqs, k)
      BY <1>2
    <2> DEFINE Next1 == IF k = 0 THEN seqs[1] ELSE of[k] \o seqs[k + 1]
               more == [i \in 1 .. k + 1 |-> IF i <= k THEN of[i] ELSE Next1]
    <2>2. \A i \in 1 .. k : of[i] = IF i = 1 THEN seqs[i] ELSE of[i - 1] \o seqs[i]
      BY <2>1, Zenon DEF FlatOf
    <2>3. \A i \in 1 .. k + 1 : more[i] = IF i = 1 THEN seqs[i] ELSE more[i - 1] \o seqs[i]
      <3> SUFFICES ASSUME NEW i \in 1 .. k + 1
                   PROVE  more[i] = IF i = 1 THEN seqs[i] ELSE more[i - 1] \o seqs[i]
        OBVIOUS
      <3>1. CASE i <= k
        <4>1. i \in 1 .. k /\ more[i] = of[i] /\ (i # 1 => more[i - 1] = of[i - 1])
          BY <3>1
        <4> QED
          BY <2>2, <4>1
      <3>2. CASE i = k + 1
        <4>1. more[i] = Next1 /\ (i # 1 => more[i - 1] = of[k]) /\ (i = 1 <=> k = 0)
          BY <3>2
        <4> HIDE DEF more
        <4> QED
          BY <3>2, <4>1
      <3> QED
        BY <3>1, <3>2
    <2>4. more = [i \in 1 .. k + 1 |-> more[i]]
      OBVIOUS
    <2> HIDE DEF more
    <2>5. FlatOf(more, seqs, k + 1)
      BY <2>3, <2>4 DEF FlatOf
    <2> QED
      BY <2>5
  <1> HIDE DEF S
  <1>3. Nat \subseteq S
    BY <1>1, <1>2, SetInduction
  <1> QED
    BY <1>3 DEF S

\* Restyling a valid range of a chain leaves a chain.
LEMMA SplitRunsCover ==
  ASSUME NEW t \in Seq(Char), NEW to, NEW laid, Chain(laid, t, 0, to),
         NEW r, r.start \in Nat, r.end \in Nat, r.start # r.end, ValidateUtf16Range(t, r) = "ok",
         NEW style \in [size : Nat \ {0}, family : Families]
  PROVE  Chain(SplitTextRuns(laid, r, style), t, 0, to)
  <1> DEFINE n == Len(laid)
             seqs == [i \in DOMAIN laid |-> SplitRun(laid[i], r, style)]
             of == CHOOSE of : FlatOf(of, seqs, n)
             S == {k \in Nat : k \in 1 .. n => Chain(of[k], t, 0, laid[k].range.end)}
  <1>1. /\ n \in Nat \ {0} /\ DOMAIN laid = 1 .. n /\ laid[n].range.end = to /\ laid[1].range.start = 0
        /\ \A i \in 1 .. n : laid[i] \in StyledRun
        /\ \A i \in 1 .. n : ValidateUtf16Range(t, laid[i].range) = "ok"
        /\ \A i \in 1 .. n : i > 1 => laid[i].range.start = laid[i - 1].range.end
    BY ChainIs
  <1>2. \A i \in 1 .. n : Chain(seqs[i], t, laid[i].range.start, laid[i].range.end)
    BY <1>1, PartsCover
  <1>3. seqs = [i \in 1 .. n |-> seqs[i]]
    BY <1>1
  <1> HIDE DEF n, seqs
  <1>4. Len(seqs) = n
    BY <1>1, <1>3, FunctionIsSequence
  <1>5. FlattenSeq(seqs) = of[n]
    <2>1. Len(seqs) # 0
      BY <1>1, <1>4
    <2>2. FlattenSeq(seqs) = (CHOOSE flatten : FlatOf(flatten, seqs, Len(seqs)))[Len(seqs)]
      BY <2>1, Zenon DEF FlattenSeq, FlatOf
    <2> QED
      BY <1>4, <2>2
  <1>6. FlatOf(of, seqs, n)
    BY <1>1, FlatOfExists
  <1> HIDE DEF of
  <1>7. \A i \in 1 .. n : of[i] = IF i = 1 THEN seqs[i] ELSE of[i - 1] \o seqs[i]
    BY <1>6, Zenon DEF FlatOf
  <1>8. 0 \in S
    OBVIOUS
  <1>9. ASSUME NEW k \in Nat, k \in S PROVE k + 1 \in S
    <2> SUFFICES ASSUME k + 1 \in 1 .. n PROVE Chain(of[k + 1], t, 0, laid[k + 1].range.end)
      BY <1>1
    <2>1. CASE k = 0
      <3>1. of[1] = seqs[1] /\ 1 \in 1 .. n
        BY <1>1, <1>7
      <3>2. Chain(seqs[1], t, 0, laid[1].range.end)
        BY <1>1, <1>2, <3>1
      <3> QED
        BY <2>1, <3>1, <3>2
    <2>2. CASE k # 0
      <3>1. k \in 1 .. n /\ k + 1 > 1 /\ (k + 1) - 1 = k
        BY <1>1, <2>2
      <3>2. of[k + 1] = of[k] \o seqs[k + 1]
        <4>1. of[k + 1] = IF k + 1 = 1 THEN seqs[k + 1] ELSE of[(k + 1) - 1] \o seqs[k + 1]
          BY <1>7
        <4>2. k + 1 # 1 /\ of[(k + 1) - 1] = of[k]
          BY <3>1
        <4> QED
          BY <4>1, <4>2, Zenon
      <3>3. Chain(of[k], t, 0, laid[k].range.end)
        BY <1>9, <3>1
      <3>4. laid[k + 1].range.start = laid[k].range.end
        <4>1. \A i \in 1 .. n : i > 1 => laid[i].range.start = laid[i - 1].range.end
          BY <1>1
        <4> QED
          BY <3>1, <4>1
      <3>5. Chain(seqs[k + 1], t, laid[k].range.end, laid[k + 1].range.end)
        BY <1>2, <3>4
      <3> QED
        BY <3>2, <3>3, <3>5, ChainsJoin
    <2> QED
      BY <2>1, <2>2
  <1> HIDE DEF S
  <1>10. Nat \subseteq S
    BY <1>8, <1>9, SetInduction
  <1>11. Chain(of[n], t, 0, laid[n].range.end)
    BY <1>1, <1>10 DEF S
  <1> QED
    BY <1>1, <1>5, <1>11 DEF SplitTextRuns, seqs

\* A chain from the start of a text to its end is what validation asks of runs.
LEMMA ChainTiles ==
  ASSUME NEW t \in Seq(Char), NEW laid, Chain(laid, t, 0, Utf16Length(t))
  PROVE  /\ laid # <<>> /\ Tiles([i \in DOMAIN laid |-> laid[i].range], t)
         /\ \A i \in DOMAIN laid : laid[i].style.size > 0
  <1>0. /\ laid \in Seq(StyledRun) /\ laid # <<>>
        /\ Len(laid) \in Nat \ {0} /\ DOMAIN laid = 1 .. Len(laid)
        /\ laid[1].range.start = 0 /\ laid[Len(laid)].range.end = Utf16Length(t)
        /\ \A i \in 1 .. Len(laid) : laid[i] \in StyledRun
        /\ \A i \in 1 .. Len(laid) : ValidateUtf16Range(t, laid[i].range) = "ok"
        /\ \A i \in 1 .. Len(laid) : i > 1 => laid[i].range.start = laid[i - 1].range.end
    BY ChainIs
  <1> DEFINE n == Len(laid)
             ranges == [i \in DOMAIN laid |-> laid[i].range]
  <1>1. /\ n \in Nat \ {0} /\ DOMAIN laid = 1 .. n /\ laid # <<>>
        /\ laid[1].range.start = 0 /\ laid[n].range.end = Utf16Length(t)
        /\ \A i \in 1 .. n : laid[i] \in StyledRun
        /\ \A i \in 1 .. n : ValidateUtf16Range(t, laid[i].range) = "ok"
        /\ \A i \in 1 .. n : i > 1 => laid[i].range.start = laid[i - 1].range.end
    <2>1. n \in Nat \ {0} /\ DOMAIN laid = 1 .. n /\ laid # <<>>
      BY <1>0, Zenon
    <2>2. laid[1].range.start = 0 /\ laid[n].range.end = Utf16Length(t)
      BY <1>0, Zenon
    <2>3. \A i \in 1 .. n : laid[i] \in StyledRun
      BY <1>0, Zenon
    <2>4. \A i \in 1 .. n : ValidateUtf16Range(t, laid[i].range) = "ok"
      BY <1>0, Zenon
    <2>5. \A i \in 1 .. n : i > 1 => laid[i].range.start = laid[i - 1].range.end
      BY <1>0, Zenon
    <2> QED
      BY <2>1, <2>2, <2>3, <2>4, <2>5, Zenon
  <1>2. ranges = [i \in 1 .. n |-> ranges[i]] /\ \A i \in 1 .. n : ranges[i] = laid[i].range
    BY <1>1
  <1> HIDE DEF n, ranges
  <1>3. Len(ranges) = n /\ DOMAIN ranges = 1 .. n /\ ranges # <<>>
    BY <1>1, <1>2, FunctionIsSequence
  <1>4. \A i \in 1 .. n : /\ ranges[i].start = IF i = 1 THEN 0 ELSE ranges[i - 1].end
                          /\ ValidateUtf16Range(t, ranges[i]) = "ok"
    <2> SUFFICES ASSUME NEW i \in 1 .. n
                 PROVE  /\ ranges[i].start = IF i = 1 THEN 0 ELSE ranges[i - 1].end
                        /\ ValidateUtf16Range(t, ranges[i]) = "ok"
      OBVIOUS
    <2>1. i # 1 => i - 1 \in 1 .. n /\ i > 1
      BY <1>1
    <2> QED
      BY <1>1, <1>2, <2>1
  <1>5. Last(ranges).end = Utf16Length(t)
    BY <1>1, <1>2, <1>3 DEF Last
  <1>6. \A i \in 1 .. n : laid[i].style.size > 0
    BY <1>1 DEF StyledRun
  <1> QED
    BY <1>1, <1>3, <1>4, <1>5, <1>6 DEF Tiles, ranges

-----------------------------------------------------------------------------
(* Blocks.  What import makes of a block and every command leaves of it.   *)

BlockFields ==
  {"text", "runs", "font", "glyphs", "overflow", "spacing", "boxes", "capacity", "extent",
   "transform", "editable", "reason", "binding"}

SoundBlock(b) ==
  /\ DOMAIN b = BlockFields /\ b.text \in Seq(Char) /\ b.editable /\ b.binding \in {"import", "live"}
  /\ Chain(b.runs, b.text, 0, Utf16Length(b.text))
  /\ b.spacing \in Nat \ {0}
  /\ \/ b.boxes = ReflowCharacterBoxes(b.text)
     \/ b.boxes = <<>> /\ b.capacity = 0 /\ b.binding = "live"
  /\ b.capacity \in Nat /\ (b.capacity = 0 \/ Len(ReflowCharacterBoxes(b.text)) <= b.capacity)
  /\ DOMAIN b.extent = {"along", "across"} /\ b.extent.along \in Int
  /\ b.binding = "import" => b.font # NoFace /\ b.glyphs # {}
  /\ (b.font # NoFace /\ b.glyphs # {}) => ToSet(b.text) \subseteq b.glyphs

\* Nothing is asked of a sound block that it does not have.
LEMMA SoundBlocksAreValid ==
  ASSUME NEW b, SoundBlock(b)
  PROVE  ValidateTextBlock(b) = "ok"
  <1> DEFINE boxes == ReflowCharacterBoxes(b.text)
             ranges == [i \in DOMAIN b.runs |-> b.runs[i].range]
  <1>1. b.text \in Seq(Char)
    BY DEF SoundBlock
  <1>2. /\ Len(boxes) \in Nat /\ (boxes = <<>> <=> b.text = <<>>) /\ Tiles(boxes, b.text)
        /\ \A i \in DOMAIN boxes : /\ boxes[i].start < boxes[i].end
                                   /\ {boxes[i].start, boxes[i].end} \subseteq GraphemeBoundaries(b.text)
    BY <1>1, BoxesTile
  <1>3. b.runs # <<>> /\ Tiles(ranges, b.text) /\ \A i \in DOMAIN b.runs : b.runs[i].style.size > 0
    BY <1>1, ChainTiles DEF SoundBlock
  <1>4. \A i \in DOMAIN b.runs : ~(b.runs[i].style.size <= 0)
    <2> SUFFICES ASSUME NEW i \in DOMAIN b.runs PROVE ~(b.runs[i].style.size <= 0)
      OBVIOUS
    <2>1. b.runs \in Seq(StyledRun)
      BY ChainIs DEF SoundBlock
    <2>2. b.runs[i] \in StyledRun
      BY <2>1
    <2>3. b.runs[i].style.size \in Nat \ {0}
      BY <2>2 DEF StyledRun
    <2> QED
      BY <2>3
  <1> HIDE DEF boxes, ranges
  <1>5. /\ \/ b.boxes = boxes
           \/ b.boxes = <<>> /\ b.capacity = 0 /\ b.binding = "live"
        /\ b.spacing \in Nat \ {0} /\ b.editable /\ b.binding \in {"import", "live"}
        /\ b.capacity = 0 \/ Len(boxes) <= b.capacity
        /\ b.binding = "import" => b.font # NoFace /\ b.glyphs # {}
    BY DEF SoundBlock, boxes
  <1>6. ~(b.spacing <= 0)
    BY <1>5
  <1>7. b.boxes # <<>> => /\ b.capacity = 0 \/ Len(b.boxes) <= b.capacity
                          /\ Tiles(b.boxes, b.text)
                          /\ \A i \in DOMAIN b.boxes :
                               /\ b.boxes[i].start < b.boxes[i].end
                               /\ {b.boxes[i].start, b.boxes[i].end} \subseteq GraphemeBoundaries(b.text)
    BY <1>2, <1>5
  <1>8. \/ b.binding = "live"
        \/ b.font # NoFace /\ b.glyphs # {} /\ (b.text = <<>> \/ b.boxes # <<>>)
    BY <1>2, <1>5
  <1> QED
    BY <1>3, <1>4, <1>5, <1>6, <1>7, <1>8 DEF ValidateTextBlock, ranges

\* One run over a whole text.
LEMMA WholeRun ==
  ASSUME NEW t \in Seq(Char), NEW style \in [size : Nat \ {0}, family : Families]
  PROVE  Chain(<<[range |-> Span(0, Utf16Length(t)), style |-> style]>>, t, 0, Utf16Length(t))
  <1> DEFINE run == [range |-> Span(0, Utf16Length(t)), style |-> style]
  <1>1. Len(t) \in Nat /\ 0 \in 0 .. Len(t) /\ Len(t) \in 0 .. Len(t)
    OBVIOUS
  <1>2. Utf16Offset(t, 0) = 0 /\ Utf16Length(t) = Utf16Offset(t, Len(t)) /\ Utf16Length(t) \in Nat
    BY <1>1, OffsetIs DEF Utf16Length
  <1>3. ValidateUtf16Range(t, Span(0, Utf16Length(t))) = "ok"
    <2>1. ValidateUtf16Range(t, Span(Utf16Offset(t, 0), Utf16Offset(t, Len(t)))) = "ok"
      BY <1>1, BetweenCharacters
    <2> QED
      BY <1>2, <2>1
  <1>4. run \in StyledRun
    BY <1>2 DEF StyledRun, Span
  <1>5. run.range = Span(0, Utf16Length(t)) /\ run.range.start = 0 /\ run.range.end = Utf16Length(t)
    BY DEF Span
  <1> HIDE DEF run
  <1>6. Chain(<<run>>, t, run.range.start, run.range.end)
    BY <1>3, <1>4, <1>5, ChainOfOne
  <1> QED
    BY <1>5, <1>6 DEF run

LEMMA SourceBlocksAreSound ==
  ASSUME NEW b \in SourceBlock
  PROVE  SoundBlock(b)
  <1> DEFINE t == b.text
             live == LiveBlock(t, b.extent, TRUE)
             plain == PlainBlock(t, b.extent)
             brought == ImportedBlock(t, b.extent, b.font, b.glyphs)
             style == [PlainStyle EXCEPT !.family = b.font]
  <1>1. /\ t \in Seq(Char) /\ b.extent = [along |-> b.extent.along, across |-> b.extent.across]
        /\ b.extent.along \in Int
        /\ \/ /\ b = [brought EXCEPT !.overflow = b.overflow]
              /\ b.font # NoFace /\ b.glyphs # {} /\ ToSet(t) \subseteq b.glyphs
           \/ b = live
    BY ObjectAssumption
  <1>2. DOMAIN b.extent = {"along", "across"}
    <2> DEFINE e == b.extent
    <2>1. e = [along |-> e.along, across |-> e.across]
      BY <1>1
    <2>2. DOMAIN [along |-> e.along, across |-> e.across] = {"along", "across"}
      OBVIOUS
    <2> QED
      BY <2>1, <2>2
  <1>3. Len(ReflowCharacterBoxes(t)) = Len(Graphemes(t)) /\ Len(Graphemes(t)) \in Nat
    BY <1>1, BoxesTile
  <1>4. PlainStyle \in [size : Nat \ {0}, family : Families] /\ style \in [size : Nat \ {0}, family : Families]
    BY DEF PlainStyle, Families
  <1>5. CASE b = live
    <2>1. /\ DOMAIN b = BlockFields /\ b.editable /\ b.binding = "live" /\ b.spacing = 1
          /\ b.runs = <<[range |-> Span(0, Utf16Length(t)), style |-> PlainStyle]>>
          /\ b.boxes = <<>> /\ b.capacity = 0 /\ b.font = NoFace
      BY <1>5 DEF LiveBlock, PlainBlock, BlockFields
    <2>2. Chain(b.runs, t, 0, Utf16Length(t))
      BY <1>1, <1>4, <2>1, WholeRun
    <2> QED
      BY <1>1, <1>2, <2>1, <2>2 DEF SoundBlock
  <1>6. CASE b = [brought EXCEPT !.overflow = b.overflow] /\ b.font # NoFace /\ b.glyphs # {} /\ ToSet(t) \subseteq b.glyphs
    <2>1. /\ DOMAIN plain = BlockFields /\ plain.editable /\ plain.spacing = 1
      BY DEF PlainBlock, BlockFields
    <2> HIDE DEF plain
    <2>2. /\ DOMAIN brought = BlockFields /\ brought.editable /\ brought.binding = "import" /\ brought.spacing = 1
          /\ brought.runs = <<[range |-> Span(0, Utf16Length(t)), style |-> style]>>
          /\ brought.boxes = ReflowCharacterBoxes(t) /\ brought.capacity = Len(Graphemes(t))
      BY <2>1 DEF ImportedBlock, plain, BlockFields
    <2> HIDE DEF brought
    <2>3. /\ DOMAIN b = BlockFields /\ b.editable /\ b.binding = "import" /\ b.spacing = 1
          /\ b.runs = <<[range |-> Span(0, Utf16Length(t)), style |-> style]>>
          /\ b.boxes = ReflowCharacterBoxes(t) /\ b.capacity = Len(Graphemes(t))
      BY <1>6, <2>2 DEF BlockFields
    <2>4. Chain(b.runs, t, 0, Utf16Length(t))
      BY <1>1, <1>4, <2>3, WholeRun
    <2> QED
      BY <1>1, <1>2, <1>3, <1>6, <2>3, <2>4 DEF SoundBlock
  <1> QED
    BY <1>1, <1>5, <1>6

-----------------------------------------------------------------------------
(* Commands                                                                *)

\* The splice of a valid range is a text.
LEMMA SpliceIsText ==
  ASSUME NEW t \in Seq(Char), NEW r, ValidateUtf16Range(t, r) = "ok", NEW replacement \in Seq(Char)
  PROVE  Splice(t, Utf16RangeToByteRange(t, r), replacement) \in Seq(Char)
  <1> DEFINE s == Utf16RangeToByteRange(t, r)
  <1>1. s.start \in 0 .. Len(t) /\ s.end \in 0 .. Len(t)
    BY RangeIsFound
  <1> HIDE DEF s
  <1>2. SubSeq(t, 1, s.start) \in Seq(Char) /\ SubSeq(t, s.end + 1, Len(t)) \in Seq(Char)
    BY <1>1
  <1>3. SubSeq(t, 1, s.start) \o replacement \in Seq(Char)
    BY <1>2
  <1> QED
    BY <1>2, <1>3 DEF Splice, s

LEMMA ReplaceTextKeepsBlocksSound ==
  ASSUME NEW b, SoundBlock(b), NEW c \in ObjectCommand, c.kind = "replace", ReplaceText(b, c).ok
  PROVE  SoundBlock(ReplaceText(b, c).block)
  <1> DEFINE candidate == Splice(b.text, Utf16RangeToByteRange(b.text, c.range), c.replacement)
             fonted == WithFallback(b, c.approval)
             required == Len(Graphemes(candidate))
             overflows == b.capacity > 0 /\ required > b.capacity
             style == fonted.runs[1].style
             new == [fonted EXCEPT
                       !.text = candidate,
                       !.boxes = ReflowCharacterBoxes(candidate),
                       !.runs = <<[range |-> Span(0, Utf16Length(candidate)), style |-> style]>>,
                       !.capacity = IF overflows THEN required ELSE @,
                       !.extent = IF overflows THEN ExpandTextBounds(@, required, b.capacity) ELSE @]
  <1>1. /\ ValidateUtf16Range(b.text, c.range) = "ok"
        /\ ApprovalCovers(c.approval, candidate)
        /\ ~(fonted.font # NoFace /\ fonted.glyphs # {} /\ ~Covers(fonted.glyphs, candidate))
        /\ ReplaceText(b, c) = Done(new)
    BY DEF ReplaceText, Deny
  <1>2. ReplaceText(b, c).block = new
    BY <1>1 DEF Done
  <1>3. /\ c.replacement \in Seq(Char) /\ c.approval.font \in Families
        /\ c.approval = NoApproval \/ c.approval.font # NoFace
    BY ObjectAssumption DEF Families
  <1>4. candidate \in Seq(Char)
    <2>1. b.text \in Seq(Char)
      BY DEF SoundBlock
    <2> QED
      BY <1>1, <1>3, <2>1, SpliceIsText
  <1>5. Len(ReflowCharacterBoxes(candidate)) = required /\ required \in Nat
    BY <1>4, BoxesTile
  <1>6. /\ DOMAIN b = BlockFields /\ b.runs \in Seq(StyledRun) /\ 1 \in DOMAIN b.runs
        /\ b.runs[1] \in StyledRun
    BY DEF SoundBlock, Chain
  <1>7. /\ DOMAIN fonted = BlockFields
        /\ fonted.capacity = b.capacity /\ fonted.extent = b.extent /\ fonted.spacing = b.spacing
        /\ fonted.editable = b.editable /\ fonted.binding = b.binding
        /\ style \in [size : Nat \ {0}, family : Families]
        /\ b.binding = "import" => fonted.font # NoFace /\ fonted.glyphs # {}
    <2>1. CASE c.approval = NoApproval
      <3>1. fonted = b
        BY <2>1 DEF WithFallback
      <3>2. b.runs[1].style \in [size : Nat \ {0}, family : Families]
        BY <1>6 DEF StyledRun
      <3> QED
        BY <1>6, <3>1, <3>2 DEF SoundBlock
    <2>2. CASE c.approval # NoApproval
      <3> DEFINE laid == [i \in DOMAIN b.runs |-> [b.runs[i] EXCEPT !.style.family = c.approval.font]]
      <3>1. fonted = [b EXCEPT !.font = c.approval.font, !.glyphs = c.approval.glyphs, !.runs = laid]
        BY <2>2 DEF WithFallback
      <3>2. laid[1].style \in [size : Nat \ {0}, family : Families]
        BY <1>3, <1>6 DEF StyledRun
      <3>3. c.approval.glyphs # {}
        BY <1>1, <2>2 DEF ApprovalCovers
      <3> HIDE DEF laid, fonted
      <3>4. /\ DOMAIN fonted = BlockFields /\ fonted.runs = laid
            /\ fonted.capacity = b.capacity /\ fonted.extent = b.extent /\ fonted.spacing = b.spacing
            /\ fonted.editable = b.editable /\ fonted.binding = b.binding
            /\ fonted.font = c.approval.font /\ fonted.glyphs = c.approval.glyphs
        BY <1>6, <3>1 DEF BlockFields
      <3> QED
        BY <1>3, <2>2, <3>2, <3>3, <3>4
    <2> QED
      BY <2>1, <2>2
  <1> HIDE DEF candidate, fonted, required, style
  <1>8. /\ b.capacity \in Nat /\ DOMAIN b.extent = {"along", "across"} /\ b.extent.along \in Int
        /\ b.spacing \in Nat \ {0} /\ b.editable /\ b.binding \in {"import", "live"}
    BY DEF SoundBlock
  <1> DEFINE capacity == IF overflows THEN required ELSE b.capacity
             extent == IF overflows THEN ExpandTextBounds(b.extent, required, b.capacity) ELSE b.extent
  <1>9. capacity \in Nat /\ (capacity = 0 \/ required <= capacity)
    BY <1>5, <1>8
  <1>10. DOMAIN extent = {"along", "across"} /\ extent.along \in Int
    <2>1. CASE overflows
      <3>1. (b.extent.along * required) \div b.capacity \in Int
        BY <1>5, <1>8, <2>1
      <3>2. extent = [b.extent EXCEPT !.along = (@ * required) \div b.capacity]
        BY <2>1 DEF ExpandTextBounds
      <3> QED
        BY <1>8, <3>1, <3>2
    <2>2. CASE ~overflows
      BY <1>8, <2>2
    <2> QED
      BY <2>1, <2>2
  <1>11. /\ DOMAIN new = BlockFields
         /\ new.text = candidate /\ new.boxes = ReflowCharacterBoxes(candidate)
         /\ new.runs = <<[range |-> Span(0, Utf16Length(candidate)), style |-> style]>>
         /\ new.capacity = capacity /\ new.extent = extent /\ new.spacing = b.spacing
         /\ new.editable = b.editable /\ new.binding = b.binding
         /\ new.font = fonted.font /\ new.glyphs = fonted.glyphs
    BY <1>7 DEF BlockFields
  <1>12. Chain(new.runs, candidate, 0, Utf16Length(candidate))
    BY <1>4, <1>7, <1>11, WholeRun
  <1>13. (new.font # NoFace /\ new.glyphs # {}) => ToSet(candidate) \subseteq new.glyphs
    BY <1>1, <1>11 DEF Covers
  <1> HIDE DEF new, capacity, extent, overflows
  <1>14. SoundBlock(new)
    BY <1>4, <1>5, <1>7, <1>8, <1>9, <1>10, <1>11, <1>12, <1>13 DEF SoundBlock
  <1> QED
    BY <1>2, <1>14

LEMMA SetTextStyleKeepsBlocksSound ==
  ASSUME NEW b, SoundBlock(b), NEW c \in ObjectCommand, c.kind = "style", SetTextStyle(b, c).ok
  PROVE  SoundBlock(SetTextStyle(b, c).block)
  <1> DEFINE laid == SplitTextRuns(b.runs, c.range, c.style)
             new == [b EXCEPT !.runs = laid]
  <1>1. /\ ValidateUtf16Range(b.text, c.range) = "ok" /\ c.range.start # c.range.end
        /\ SetTextStyle(b, c) = Done(new)
    BY DEF SetTextStyle, Deny
  <1>2. SetTextStyle(b, c).block = new
    BY <1>1 DEF Done
  <1>3. c.range.start \in Nat /\ c.range.end \in Nat /\ c.style \in [size : Nat \ {0}, family : Families]
    <2>1. /\ c.range.start \in Nat /\ c.range.end \in Nat
          /\ c.style = [size |-> c.style.size, family |-> c.style.family] /\ c.style.size \in Nat \ {0}
      BY ObjectAssumption
    <2>2. c.style.family \in Families
      BY DEF Families
    <2> QED
      BY <2>1, <2>2
  <1>4. /\ b.text \in Seq(Char) /\ Chain(b.runs, b.text, 0, Utf16Length(b.text)) /\ DOMAIN b = BlockFields
    BY DEF SoundBlock
  <1>5. Chain(laid, b.text, 0, Utf16Length(b.text))
    BY <1>1, <1>3, <1>4, SplitRunsCover
  <1> HIDE DEF laid
  <1>6. /\ DOMAIN new = BlockFields /\ new.text = b.text /\ new.runs = laid
        /\ new.boxes = b.boxes /\ new.capacity = b.capacity /\ new.extent = b.extent
        /\ new.spacing = b.spacing /\ new.editable = b.editable /\ new.binding = b.binding
        /\ new.font = b.font /\ new.glyphs = b.glyphs
    BY <1>4 DEF BlockFields
  <1> HIDE DEF new
  <1> QED
    BY <1>2, <1>5, <1>6 DEF SoundBlock

LEMMA SetParagraphStyleKeepsBlocksSound ==
  ASSUME NEW b, SoundBlock(b), NEW c \in ObjectCommand, c.kind = "paragraph", SetParagraphStyle(b, c).ok
  PROVE  SoundBlock(SetParagraphStyle(b, c).block)
  <1> DEFINE new == [b EXCEPT !.spacing = c.spacing]
  <1>1. ~(c.spacing <= 0) /\ SetParagraphStyle(b, c).block = new /\ c.spacing \in Int
    BY ObjectAssumption DEF SetParagraphStyle, Deny, Done
  <1>2. DOMAIN b = BlockFields
    BY DEF SoundBlock
  <1>3. /\ DOMAIN new = BlockFields /\ new.text = b.text /\ new.runs = b.runs
        /\ new.boxes = b.boxes /\ new.capacity = b.capacity /\ new.extent = b.extent
        /\ new.spacing = c.spacing /\ new.editable = b.editable /\ new.binding = b.binding
        /\ new.font = b.font /\ new.glyphs = b.glyphs
    BY <1>2 DEF BlockFields
  <1> HIDE DEF new
  <1>4. new.spacing \in Nat \ {0}
    BY <1>1, <1>3
  <1> QED
    BY <1>1, <1>3, <1>4 DEF SoundBlock

\* A block that is moved or rotated keeps its text.
LEMMA TransformsKeepBlocksSound ==
  ASSUME NEW b, SoundBlock(b), NEW moved
  PROVE  SoundBlock([b EXCEPT !.transform = moved])
  <1> DEFINE new == [b EXCEPT !.transform = moved]
  <1>1. DOMAIN b = BlockFields
    BY DEF SoundBlock
  <1>2. /\ DOMAIN new = BlockFields /\ new.text = b.text /\ new.runs = b.runs
        /\ new.boxes = b.boxes /\ new.capacity = b.capacity /\ new.extent = b.extent
        /\ new.spacing = b.spacing /\ new.editable = b.editable /\ new.binding = b.binding
        /\ new.font = b.font /\ new.glyphs = b.glyphs
    BY <1>1 DEF BlockFields
  <1> HIDE DEF new
  <1>3. SoundBlock(new)
    BY <1>2 DEF SoundBlock
  <1> QED
    BY <1>3 DEF new

LEMMA ResizeObjectKeepsBlocksSound ==
  ASSUME NEW b, SoundBlock(b), NEW c \in ObjectCommand, c.kind = "resize", ResizeObject(b, c).ok
  PROVE  SoundBlock(ResizeObject(b, c).block)
  <1> DEFINE boxes == ReflowCharacterBoxes(b.text)
             capacity == ResizedCapacity(b, c.extent)
             moved == IF c.extent = b.extent THEN b.transform ELSE Append(b.transform, <<b.extent, c.extent>>)
             new == [b EXCEPT !.transform = moved, !.extent = c.extent, !.capacity = capacity, !.boxes = boxes]
  <1>1. /\ ~(b.extent.along <= 0) /\ ResizeObject(b, c).block = new
    BY DEF ResizeObject, Deny, Done
  <1>2. DOMAIN c.extent = {"along", "across"} /\ c.extent.along \in Int
    <2> DEFINE e == c.extent
    <2>1. e = [along |-> e.along, across |-> e.across] /\ e.along \in Int
      BY ObjectAssumption
    <2>2. DOMAIN [along |-> e.along, across |-> e.across] = {"along", "across"}
      OBVIOUS
    <2> HIDE DEF e
    <2>3. DOMAIN e = {"along", "across"} /\ e.along \in Int
      BY <2>1, <2>2, Zenon
    <2> QED
      BY <2>3 DEF e
  <1>3. /\ DOMAIN b = BlockFields /\ b.text \in Seq(Char) /\ b.capacity \in Nat /\ b.extent.along \in Int
        /\ \/ b.boxes = boxes
           \/ b.boxes = <<>> /\ b.capacity = 0
    BY DEF SoundBlock
  <1>4. Len(boxes) \in Nat /\ Len(b.boxes) \in Nat
    <2>1. Len(boxes) \in Nat
      BY <1>3, BoxesTile
    <2>2. Len(<<>>) = 0
      OBVIOUS
    <2> HIDE DEF boxes
    <2> QED
      BY <1>3, <2>1, <2>2
  <1>5. capacity \in Nat /\ (capacity = 0 \/ Len(boxes) <= capacity)
    <2> DEFINE room == IF b.capacity = 0 THEN Len(b.boxes) ELSE b.capacity
               fitting == (room * c.extent.along) \div b.extent.along
    <2>1. room \in Nat
      BY <1>3, <1>4
    <2>2. capacity = IF room = 0 THEN b.capacity ELSE Max({fitting, Len(b.boxes)})
      BY DEF ResizedCapacity
    <2>3. CASE room = 0
      <3>1. b.capacity = 0
        BY <1>3, <1>4, <2>3
      <3> QED
        BY <2>2, <2>3, <3>1
    <2>4. CASE room # 0
      <3> HIDE DEF room, boxes, capacity
      <3>1. room * c.extent.along \in Int
        BY <1>2, <2>1
      <3> DEFINE product == room * c.extent.along
                 over == b.extent.along
      <3>2. product \in Int /\ over \in Int /\ over > 0
        BY <1>1, <1>3, <3>1
      <3> HIDE DEF product, over
      <3>3. product \div over \in Int
        BY <3>2
      <3>4. fitting \in Int
        BY <3>3 DEF product, over
      <3> HIDE DEF fitting
      <3>5. capacity = Max({fitting, Len(b.boxes)})
        BY <2>2, <2>4
      <3> DEFINE held == Len(b.boxes)
      <3>6. held \in Int /\ capacity = Max({fitting, held})
        BY <1>4, <3>5
      <3> HIDE DEF held
      <3>7. capacity = IF fitting >= held THEN fitting ELSE held
        BY <3>4, <3>6, LargerOfTwo
      <3>8. capacity \in Nat /\ Len(b.boxes) <= capacity
        BY <1>4, <3>4, <3>7 DEF held
      <3>9. b.boxes = boxes
        <4> SUFFICES ASSUME b.boxes = <<>>, b.capacity = 0 PROVE FALSE
          BY <1>3
        <4> QED
          BY <2>4 DEF room
      <3> QED
        BY <3>8, <3>9
    <2> QED
      BY <2>3, <2>4
  <1> HIDE DEF boxes, capacity, moved
  <1>6. /\ DOMAIN new = BlockFields /\ new.text = b.text /\ new.runs = b.runs
        /\ new.boxes = boxes /\ new.capacity = capacity /\ new.extent = c.extent
        /\ new.spacing = b.spacing /\ new.editable = b.editable /\ new.binding = b.binding
        /\ new.font = b.font /\ new.glyphs = b.glyphs
    BY <1>3 DEF BlockFields
  <1> HIDE DEF new
  <1>7. SoundBlock(new)
    BY <1>2, <1>5, <1>6 DEF SoundBlock, boxes
  <1> QED
    BY <1>1, <1>7

LEMMA CommandsKeepBlocksSound ==
  ASSUME NEW b, SoundBlock(b), NEW c \in ObjectCommand, ApplyObjectCommand(b, c).ok
  PROVE  SoundBlock(ApplyObjectCommand(b, c).block)
  <1>1. b.editable /\ c.kind \in {"replace", "style", "paragraph", "move", "resize", "rotate"}
    BY ObjectAssumption DEF SoundBlock
  <1>2. CASE c.kind = "replace"
    <2>1. ApplyObjectCommand(b, c) = ReplaceText(b, c)
      BY <1>1, <1>2 DEF ApplyObjectCommand
    <2> QED
      BY <1>2, <2>1, ReplaceTextKeepsBlocksSound
  <1>3. CASE c.kind = "style"
    <2>1. ApplyObjectCommand(b, c) = SetTextStyle(b, c)
      BY <1>1, <1>3 DEF ApplyObjectCommand
    <2> QED
      BY <1>3, <2>1, SetTextStyleKeepsBlocksSound
  <1>4. CASE c.kind = "paragraph"
    <2>1. ApplyObjectCommand(b, c) = SetParagraphStyle(b, c)
      BY <1>1, <1>4 DEF ApplyObjectCommand
    <2> QED
      BY <1>4, <2>1, SetParagraphStyleKeepsBlocksSound
  <1>5. CASE c.kind = "resize"
    <2>1. ApplyObjectCommand(b, c) = ResizeObject(b, c)
      BY <1>1, <1>5 DEF ApplyObjectCommand
    <2> QED
      BY <1>5, <2>1, ResizeObjectKeepsBlocksSound
  <1>6. CASE c.kind = "move"
    <2>1. ApplyObjectCommand(b, c).block = [b EXCEPT !.transform = c.transform]
      BY <1>1, <1>6 DEF ApplyObjectCommand, Done
    <2> QED
      BY <2>1, TransformsKeepBlocksSound
  <1>7. CASE c.kind = "rotate"
    <2>1. ApplyObjectCommand(b, c).block = [b EXCEPT !.transform = Append(b.transform, "rotated")]
      BY <1>1, <1>7 DEF ApplyObjectCommand, Done, Deny
    <2> QED
      BY <2>1, TransformsKeepBlocksSound
  <1> QED
    BY <1>1, <1>2, <1>3, <1>4, <1>5, <1>6, <1>7

-----------------------------------------------------------------------------
(* What an edit is described by                                            *)

\* A patch carries every part it may name.
LEMMA PatchCarries ==
  ASSUME NEW before, NEW after
  PROVE  LET shown == Patched(before, ObjectPatch(before, after)) IN
         /\ \A part \in PatchParts \ {"font"} : shown[part] = after[part]
         /\ after.font # NoFace => shown.font = after.font
  <1> DEFINE patch == ObjectPatch(before, after)
             shown == Patched(before, patch)
  <1>1. /\ DOMAIN patch = {p \in PatchParts : before[p] # after[p] /\ (p = "font" => after.font # NoFace)}
        /\ \A part \in DOMAIN patch : patch[part] = after[part]
    BY DEF ObjectPatch
  <1> HIDE DEF patch
  <1>2. \A part \in PatchParts : shown[part] = IF part \in DOMAIN patch THEN patch[part] ELSE before[part]
    BY DEF Patched
  <1> HIDE DEF shown
  <1>3. ASSUME NEW part \in PatchParts, part = "font" => after.font # NoFace
        PROVE  shown[part] = after[part]
    BY <1>1, <1>2, <1>3
  <1>4. "font" \in PatchParts
    BY DEF PatchParts
  <1> QED
    BY <1>3, <1>4 DEF shown, patch

PerformedOf(of, physical, operations, n) ==
  of = [i \in 0 .. n |-> IF i = 0 THEN physical ELSE Perform(of[i - 1], operations[i])]

\* What up to two operations make of an object.
LEMMA PerformedAre ==
  ASSUME NEW physical, NEW operations, Len(operations) \in 0 .. 2
  PROVE  Performed(physical, operations) =
           IF Len(operations) = 0 THEN physical
           ELSE IF Len(operations) = 1 THEN Perform(physical, operations[1])
           ELSE Perform(Perform(physical, operations[1]), operations[2])
  <1> DEFINE n == Len(operations)
             one == Perform(physical, operations[1])
             two == Perform(one, operations[2])
             all == [i \in 0 .. n |-> IF i = 0 THEN physical ELSE IF i = 1 THEN one ELSE two]
             of == CHOOSE of : PerformedOf(of, physical, operations, n)
  <1>1. n \in 0 .. 2
    OBVIOUS
  <1>2. Performed(physical, operations) = of[n]
    BY Zenon DEF Performed, PerformedOf
  <1> HIDE DEF n
  <1>3. \E f : PerformedOf(f, physical, operations, n)
    <2>1. \A i \in 0 .. n : all[i] = IF i = 0 THEN physical ELSE Perform(all[i - 1], operations[i])
      <3> SUFFICES ASSUME NEW i \in 0 .. n, i # 0 PROVE all[i] = Perform(all[i - 1], operations[i])
        OBVIOUS
      <3>1. CASE i = 1
        <4>1. all[i] = one /\ all[i - 1] = physical
          BY <1>1, <3>1
        <4> QED
          BY <3>1, <4>1
      <3>2. CASE i = 2
        <4>1. all[i] = two /\ all[i - 1] = one
          BY <1>1, <3>2
        <4> QED
          BY <3>2, <4>1
      <3> QED
        BY <1>1, <3>1, <3>2
    <2>2. all = [i \in 0 .. n |-> all[i]]
      OBVIOUS
    <2> HIDE DEF all
    <2>3. PerformedOf(all, physical, operations, n)
      BY <2>1, <2>2 DEF PerformedOf
    <2> QED
      BY <2>3
  <1>4. PerformedOf(of, physical, operations, n)
    BY <1>3
  <1> HIDE DEF of
  <1>5. \A i \in 0 .. n : of[i] = IF i = 0 THEN physical ELSE Perform(of[i - 1], operations[i])
    BY <1>4, Zenon DEF PerformedOf
  <1>6. of[0] = physical
    BY <1>1, <1>5
  <1>7. n \in {1, 2} => of[1] = one
    <2> SUFFICES ASSUME n \in {1, 2} PROVE of[1] = one
      OBVIOUS
    <2>1. 1 \in 0 .. n /\ 1 - 1 = 0
      OBVIOUS
    <2>2. of[1] = Perform(of[1 - 1], operations[1])
      BY <1>5, <2>1
    <2> QED
      BY <1>6, <2>1, <2>2
  <1>8. n = 2 => of[2] = two
    <2> SUFFICES ASSUME n = 2 PROVE of[2] = two
      OBVIOUS
    <2>1. 2 \in 0 .. n /\ 2 - 1 = 1
      OBVIOUS
    <2>2. of[2] = Perform(of[2 - 1], operations[2])
      BY <1>5, <2>1
    <2> QED
      BY <1>7, <2>1, <2>2
  <1> HIDE DEF one, two
  <1>9. Performed(physical, operations) = IF n = 0 THEN physical ELSE IF n = 1 THEN one ELSE two
    <2>1. CASE n = 0
      BY <1>2, <1>6, <2>1
    <2>2. CASE n = 1
      BY <1>2, <1>7, <2>2
    <2>3. CASE n = 2
      BY <1>2, <1>8, <2>3
    <2> QED
      BY <1>1, <2>1, <2>2, <2>3
  <1> QED
    BY <1>9 DEF n, one, two

LEMMA TwoInARow ==
  ASSUME NEW a, NEW b
  PROVE  /\ <<a>> \o <<b>> = <<a, b>> /\ <<a>> \o <<>> = <<a>>
         /\ <<>> \o <<b>> = <<b>> /\ <<>> \o <<>> = <<>>
  <1> DEFINE S == {a, b}
             both == <<a>> \o <<b>>
  <1>1. <<a>> \in Seq(S) /\ <<b>> \in Seq(S) /\ <<>> \in Seq(S) /\ <<a, b>> \in Seq(S)
    OBVIOUS
  <1>2. /\ both \in Seq(S) /\ Len(both) = 2
        /\ \A i \in 1 .. 2 : both[i] = IF i <= 1 THEN <<a>>[i] ELSE <<b>>[i - 1]
    BY <1>1, ConcatProperties
  <1>3. both = <<a, b>>
    <2>1. both[1] = a /\ both[2] = b
      BY <1>2
    <2> HIDE DEF both, S
    <2>2. \A i \in 1 .. Len(both) : both[i] = <<a, b>>[i]
      BY <1>2, <2>1
    <2> QED
      BY <1>1, <1>2, <2>2, SeqEqual
  <1> QED
    BY <1>1, <1>3, ConcatEmptySeq

\* The operations of an edit make of what was what is, and need not be there
\* only when it is the same.
LEMMA OperationsReach ==
  ASSUME NEW before, NEW after
  PROVE  /\ Performed(Physical(before), Operations(before, after)) = Physical(after)
         /\ Operations(before, after) = <<>> => Physical(before) = Physical(after)
  <1> DEFINE textStep == TextOperation(before, after)
             moveStep == TransformOperation(before, after)
             texts == before.text # after.text
             places == before.transform # after.transform \/ before.extent # after.extent
             was == Physical(before)
             middle == [failed |-> FALSE, text |-> after.text,
                        transform |-> before.transform, extent |-> before.extent]
             ops == Operations(before, after)
  <1>1. ops = IF texts THEN IF places THEN <<textStep, moveStep>> ELSE <<textStep>>
              ELSE IF places THEN <<moveStep>> ELSE <<>>
    <2>1. /\ <<textStep>> \o <<moveStep>> = <<textStep, moveStep>> /\ <<textStep>> \o <<>> = <<textStep>>
          /\ <<>> \o <<moveStep>> = <<moveStep>> /\ <<>> \o <<>> = <<>>
      BY TwoInARow
    <2> HIDE DEF textStep, moveStep, texts, places
    <2>2. ops = (IF texts THEN <<textStep>> ELSE <<>>) \o (IF places THEN <<moveStep>> ELSE <<>>)
      BY DEF Operations, texts, places, textStep, moveStep
    <2> QED
      BY <2>1, <2>2
  <1>2. Perform(was, textStep) = middle
    <2>1. /\ was.failed = FALSE /\ was.text = before.text /\ textStep.expected = before.text
          /\ textStep.kind = "replace_text" /\ textStep.text = after.text
      BY DEF Physical, TextOperation
    <2>2. [was EXCEPT !.failed = FALSE, !.text = after.text] = middle
      <3> DEFINE F == {"failed", "text", "transform", "extent"}
                 changed == [was EXCEPT !.failed = FALSE, !.text = after.text]
                 new == middle
      <3>1. DOMAIN was = F /\ was.transform = before.transform /\ was.extent = before.extent
        BY DEF Physical
      <3>2. new = [x \in F |-> new[x]] /\ new.failed = FALSE
            /\ new.text = after.text /\ new.transform = before.transform /\ new.extent = before.extent
        BY DEF Physical
      <3> HIDE DEF was, middle, new
      <3>3. changed = [x \in F |-> changed[x]] /\ changed.failed = FALSE
            /\ changed.text = after.text /\ changed.transform = before.transform /\ changed.extent = before.extent
        BY <3>1
      <3> HIDE DEF changed
      <3>4. \A x \in F : changed[x] = new[x]
        <4>1. changed["failed"] = new["failed"]
          BY <3>2, <3>3
        <4> QED
          BY <3>2, <3>3, <4>1
      <3> HIDE DEF F
      <3>5. changed = new
        BY <3>2, <3>3, <3>4
      <3> QED
        BY <3>5 DEF changed, new
    <2> HIDE DEF was, textStep, middle
    <2>3. Perform(was, textStep) = [was EXCEPT !.failed = FALSE, !.text = after.text]
      BY <2>1 DEF Perform
    <2> QED
      BY <2>2, <2>3
  <1>3. Perform(middle, moveStep) = Physical(after)
    <2>1. /\ middle.failed = FALSE /\ middle.transform = before.transform /\ middle.extent = before.extent
          /\ moveStep.expected = before.transform /\ moveStep.old = before.extent
          /\ moveStep.kind = "set_transform" /\ moveStep.transform = after.transform
          /\ moveStep.new = after.extent
      BY DEF TransformOperation
    <2>2. [middle EXCEPT !.failed = FALSE, !.transform = after.transform, !.extent = after.extent] = Physical(after)
      <3> DEFINE F == {"failed", "text", "transform", "extent"}
                 changed == [middle EXCEPT !.failed = FALSE, !.transform = after.transform, !.extent = after.extent]
                 new == Physical(after)
      <3>1. DOMAIN middle = F /\ middle.text = after.text
        BY DEF Physical
      <3>2. new = [x \in F |-> new[x]] /\ new.failed = FALSE
            /\ new.text = after.text /\ new.transform = after.transform /\ new.extent = after.extent
        BY DEF Physical
      <3> HIDE DEF was, middle, new
      <3>3. changed = [x \in F |-> changed[x]] /\ changed.failed = FALSE
            /\ changed.text = after.text /\ changed.transform = after.transform /\ changed.extent = after.extent
        BY <3>1
      <3> HIDE DEF changed
      <3>4. \A x \in F : changed[x] = new[x]
        <4>1. changed["failed"] = new["failed"]
          BY <3>2, <3>3
        <4> QED
          BY <3>2, <3>3, <4>1
      <3> HIDE DEF F
      <3>5. changed = new
        BY <3>2, <3>3, <3>4
      <3> QED
        BY <3>5 DEF changed, new
    <2> HIDE DEF middle, moveStep
    <2>3. Perform(middle, moveStep)
            = [middle EXCEPT !.failed = FALSE, !.transform = after.transform, !.extent = after.extent]
      BY <2>1 DEF Perform
    <2> QED
      BY <2>2, <2>3
  <1>4. ~texts => was = middle
    BY DEF Physical
  <1>5. ~places => middle = Physical(after)
    BY DEF Physical
  <1> HIDE DEF textStep, moveStep, texts, places, was, middle, ops
  <1>6. Len(ops) \in 0 .. 2 /\ (ops = <<>> <=> ~texts /\ ~places)
    BY <1>1
  <1>7. Performed(was, ops) =
          IF Len(ops) = 0 THEN was ELSE IF Len(ops) = 1 THEN Perform(was, ops[1])
          ELSE Perform(Perform(was, ops[1]), ops[2])
    BY <1>6, PerformedAre
  <1>8. CASE texts /\ places
    <2>1. Len(ops) = 2 /\ ops[1] = textStep /\ ops[2] = moveStep
      BY <1>1, <1>8
    <2>2. Performed(was, ops) = Perform(Perform(was, textStep), moveStep)
      BY <1>7, <2>1
    <2> QED
      BY <1>2, <1>3, <1>6, <1>8, <2>2 DEF was, ops
  <1>9. CASE texts /\ ~places
    <2>1. Len(ops) = 1 /\ ops[1] = textStep
      BY <1>1, <1>9
    <2>2. Performed(was, ops) = Perform(was, textStep)
      BY <1>7, <2>1
    <2> QED
      BY <1>2, <1>5, <1>6, <1>9, <2>2 DEF was, ops
  <1>10. CASE ~texts /\ places
    <2>1. Len(ops) = 1 /\ ops[1] = moveStep
      BY <1>1, <1>10
    <2>2. Performed(was, ops) = Perform(was, moveStep)
      BY <1>7, <2>1
    <2> QED
      BY <1>3, <1>4, <1>6, <1>10, <2>2 DEF was, ops
  <1>11. CASE ~texts /\ ~places
    <2>1. Len(ops) = 0
      BY <1>1, <1>11
    <2>2. Performed(was, ops) = was
      BY <1>7, <2>1
    <2> QED
      BY <1>4, <1>5, <1>11, <2>2 DEF was, ops
  <1> QED
    BY <1>8, <1>9, <1>10, <1>11

-----------------------------------------------------------------------------
(* Every block that commands make of an imported one is whole.             *)

ObjectInv == SoundBlock(imported) /\ SoundBlock(block)

LEMMA ObjectInit == InitObject => ObjectInv
  BY SourceBlocksAreSound DEF InitObject, ObjectInv

LEMMA ObjectNext == ObjectInv /\ [NextObject]_objectVars => ObjectInv'
  <1> SUFFICES ASSUME ObjectInv, [NextObject]_objectVars PROVE ObjectInv'
    OBVIOUS
  <1>1. ASSUME NEW c \in ObjectCommand, EditObject(c) PROVE ObjectInv'
    <2>1. /\ ApplyObjectCommand(block, c).ok /\ block' = ApplyObjectCommand(block, c).block
          /\ imported' = imported
      BY <1>1 DEF EditObject
    <2>2. SoundBlock(ApplyObjectCommand(block, c).block)
      BY <2>1, CommandsKeepBlocksSound DEF ObjectInv
    <2> QED
      BY <2>1, <2>2 DEF ObjectInv
  <1>2. CASE UNCHANGED objectVars
    BY <1>2 DEF ObjectInv, objectVars
  <1> QED
    BY <1>1, <1>2 DEF NextObject

LEMMA SoundBlocksAreWhole ==
  ASSUME ObjectInv
  PROVE  EditsAreWhole
  <1>1. EditedBlocksStayValid
    BY SoundBlocksAreValid DEF ObjectInv, EditedBlocksStayValid
  <1>2. EditedTextHasGlyphs
    BY DEF ObjectInv, SoundBlock, EditedTextHasGlyphs
  <1>3. PatchesCarryTheEdit
    <2> DEFINE Carried(pair) ==
                 LET shown == Patched(pair[1], ObjectPatch(pair[1], pair[2])) IN
                 /\ \A part \in PatchParts \ {"font"} : shown[part] = pair[2][part]
                 /\ pair[2].font # NoFace => shown.font = pair[2].font
    <2>1. ASSUME NEW before, NEW after PROVE Carried(<<before, after>>)
      <3> DEFINE pair == <<before, after>>
      <3>1. pair[1] = before /\ pair[2] = after
        OBVIOUS
      <3> HIDE DEF pair
      <3>2. Carried(pair)
        BY <3>1, PatchCarries
      <3> QED
        BY <3>2 DEF pair
    <2>2. Carried(<<imported, block>>) /\ Carried(<<block, imported>>)
      BY <2>1
    <2>3. PatchesCarryTheEdit <=> \A pair \in {<<imported, block>>, <<block, imported>>} : Carried(pair)
      BY Zenon DEF PatchesCarryTheEdit
    <2> HIDE DEF Carried
    <2> QED
      BY <2>2, <2>3
  <1>4. PlansReachTheEdit
    <2> DEFINE there == Operations(imported, block)
               back == Operations(block, imported)
    <2> SUFFICES ASSUME block.binding # "none"
                 PROVE  LET plan == PhysicalPlan(imported, block) IN
                        /\ Performed(Physical(imported), plan.operations) = Physical(block)
                        /\ Performed(Physical(block), plan.inverse) = Physical(imported)
      BY DEF PlansReachTheEdit
    <2>1. /\ PhysicalPlan(imported, block).operations = there
          /\ PhysicalPlan(imported, block).inverse = IF there = <<>> THEN <<>> ELSE back
      BY DEF PhysicalPlan
    <2>2. /\ Performed(Physical(imported), there) = Physical(block)
          /\ there = <<>> => Physical(imported) = Physical(block)
          /\ Performed(Physical(block), back) = Physical(imported)
      BY OperationsReach
    <2>3. Performed(Physical(block), <<>>) = Physical(block)
      <3>1. Len(<<>>) = 0
        OBVIOUS
      <3> QED
        BY <3>1, PerformedAre
    <2> HIDE DEF there, back
    <2> QED
      BY <2>1, <2>2, <2>3
  <1> QED
    BY <1>1, <1>2, <1>3, <1>4 DEF EditsAreWhole

\* However many commands are given, to whichever block import brings: what
\* becomes of the block is valid, has a glyph for every character, and is what
\* the scene and the live PDF are told (session.rs, apply_object_command).
THEOREM EditedBlocksAreWhole == SpecObject => []EditsAreWhole
  <1>1. ObjectInv => EditsAreWhole
    BY SoundBlocksAreWhole
  <1> QED
    BY ObjectInit, ObjectNext, <1>1, PTL DEF SpecObject
=============================================================================
