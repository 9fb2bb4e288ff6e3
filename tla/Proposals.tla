-------------------------------- MODULE Proposals --------------------------------
(***************************************************************************)
(* The store of change proposals: a rewrite of selected text is shown,     *)
(* approved under a token that is bound to what was shown, rejected, or    *)
(* rebased on a newer revision (proposal.rs).                              *)
(*                                                                         *)
(* Data abstraction: one selected text of one document.  A digest is what  *)
(* it is taken of.  The gateway is the editing session: it commits a       *)
(* rewrite at the revision of its selection when the selected text is      *)
(* still the quote (tools.rs, selection.rs).                               *)
(***************************************************************************)
EXTENDS Integers, FiniteSets

CONSTANTS
  ToolCall,
  Content,              \* what the selected text may be
  ProposalLimit,        \* bound: number of proposals
  RevisionLimit         \* bound: revisions of the document

ASSUME ProposalAssumption == ProposalLimit \in Nat /\ RevisionLimit \in Nat \ {0}

VARIABLES
  proposals,            \* proposal id -> proposal, its token's parts included
  text, revision,       \* of the document behind the gateway
  executed              \* the rewrites that were committed: proposal -> what was replaced

proposalVars == <<proposals, text, revision, executed>>

ProposalIds == DOMAIN proposals

\* What the token of a proposal is checked against: its base revision and a
\* digest of everything that was shown.
TokenOf(p) == [id |-> p, base |-> proposals[p].base,
               digest |-> <<p, proposals[p].call, proposals[p].base,
                            proposals[p].quote, proposals[p].replacement>>]

\* A token as it was given out, or with another digest or base.
Tokens == {TokenOf(p) : p \in ProposalIds} \cup
          {[TokenOf(p) EXCEPT !.digest = <<"forged">>] : p \in ProposalIds} \cup
          {[TokenOf(p) EXCEPT !.base = revision] : p \in ProposalIds}

ValidateToken(token) == token = TokenOf(token.id)

InitProposals ==
  /\ proposals = << >>
  /\ text \in Content
  /\ revision = 1
  /\ executed = << >>

Awaiting(p) == proposals[p].status = "AwaitingApproval"

Proposal(call, base, quote, replacement) ==
  [call |-> call, base |-> base, quote |-> quote, replacement |-> replacement,
   status |-> "AwaitingApproval"]

NextProposal == Cardinality(ProposalIds) + 1

\* A new proposal beside those there are.
Filed(new, others) ==
  [p \in DOMAIN others \cup {NextProposal} |-> IF p = NextProposal THEN new ELSE others[p]]

\* A tool call proposes a rewrite of what it was shown at some revision.
RequestApproval(call, replacement) ==
  /\ NextProposal <= ProposalLimit
  /\ \A p \in ProposalIds : proposals[p].call # call
  /\ proposals' = Filed(Proposal(call, revision, text, replacement), proposals)
  /\ UNCHANGED <<text, revision, executed>>

\* The gateway's check of a selection.
GatewayAccepts(base, quote) == base = revision /\ quote = text

\* The caller says what it takes for the current revision.
Approve(token, current) ==
  LET p == token.id  proposal == proposals[p] IN
  /\ ValidateToken(token)
  /\ Awaiting(p)
  /\ current = proposal.base
  /\ GatewayAccepts(proposal.base, proposal.quote)
  /\ revision < RevisionLimit
  /\ proposals' = [proposals EXCEPT ![p].status = "Approved"]
  /\ text' = proposal.replacement
  /\ revision' = revision + 1
  /\ executed' = [q \in DOMAIN executed \cup {p} |-> IF q = p THEN text ELSE executed[q]]

Reject(token) ==
  /\ ValidateToken(token)
  /\ Awaiting(token.id)
  /\ proposals' = [proposals EXCEPT ![token.id].status = "Rejected"]
  /\ UNCHANGED <<text, revision, executed>>

\* Leaves the old proposal open.
RebaseBeside(token, current) ==
  LET old == proposals[token.id] IN
  /\ ValidateToken(token)
  /\ Awaiting(token.id)
  /\ GatewayAccepts(current, old.quote)
  /\ NextProposal <= ProposalLimit
  /\ proposals' = Filed(Proposal(old.call, current, old.quote, old.replacement), proposals)
  /\ UNCHANGED <<text, revision, executed>>

\* The same rewrite at the revision that the caller takes for the current one,
\* if a preview accepts it.
Rebase(token, current) ==
  LET old == proposals[token.id] IN
  /\ ValidateToken(token)
  /\ Awaiting(token.id)
  /\ GatewayAccepts(current, old.quote)
  /\ NextProposal <= ProposalLimit
  /\ proposals' = Filed(Proposal(old.call, current, old.quote, old.replacement),
                        [proposals EXCEPT ![token.id].status = "Superseded"])
  /\ UNCHANGED <<text, revision, executed>>

\* Someone else commits, here or elsewhere in the document.
OthersEdit ==
  /\ revision < RevisionLimit
  /\ text' \in Content
  /\ revision' = revision + 1
  /\ UNCHANGED <<proposals, executed>>

NextProposals ==
  \/ \E call \in ToolCall, replacement \in Content : RequestApproval(call, replacement)
  \/ \E token \in Tokens, current \in 1 .. RevisionLimit :
       Approve(token, current) \/ Rebase(token, current)
  \/ \E token \in Tokens : Reject(token)
  \/ OthersEdit

SpecProposals == InitProposals /\ [][NextProposals]_proposalVars

-----------------------------------------------------------------------------
(* Properties                                                              *)

\* A tool call is executed at most once, however often it is rebased and
\* though the text may return to what was selected (rebase, ensure_awaiting).
CallsRunOnce ==
  \A p, q \in DOMAIN executed : proposals[p].call = proposals[q].call => p = q

\* What is committed was shown: a proposal that people approved, and the text
\* it replaced is the one they saw; what was rejected or superseded is never
\* executed.
ExecutedAsShown ==
  \A p \in ProposalIds :
    p \in DOMAIN executed =>
      /\ proposals[p].status = "Approved"
      /\ executed[p] = proposals[p].quote

\* A change that people approved is made once, on the text they were shown
\* (proposal.rs, approve and rebase).
ApprovedChangesAreMade == CallsRunOnce /\ ExecutedAsShown
=============================================================================
