------------------------------ MODULE ToolPolicy ------------------------------
(***************************************************************************)
(* Which tools the model of a run may call, how a call is checked, and     *)
(* whether people are asked before it is executed (tool_registry.rs,       *)
(* policy.rs, and the proposals and requests that run.rs makes of a call). *)
(*                                                                         *)
(* Data abstraction: of the arguments of a call there is the document it   *)
(* names, whether the rest has the keys, types and limits of its schema    *)
(* (wellFormed), and the ranges of its edits, one for each edit.  A        *)
(* replacement or a style is left to whoever executes the call.            *)
(***************************************************************************)
EXTENDS TextSelection

CONSTANT NoSelection  \* a run that was started without a selection

Manifest(risk, approval) == [risk |-> risk, approval |-> approval]

Manifests ==
  [inspect_selection    |-> Manifest("ReadOnly", "Automatic"),
   inspect_text_object  |-> Manifest("ReadOnly", "Automatic"),
   search_text          |-> Manifest("ReadOnly", "Automatic"),
   propose_text_rewrite |-> Manifest("Preview", "Automatic"),
   replace_text_range   |-> Manifest("LocalMutation", "Conditional"),
   preview_replace_all  |-> Manifest("Preview", "Automatic"),
   commit_replace_all   |-> Manifest("BulkMutation", "Required"),
   apply_text_style     |-> Manifest("LocalMutation", "Conditional"),
   preview_transaction  |-> Manifest("Preview", "Automatic"),
   undo                 |-> Manifest("HistoryMutation", "Required"),
   redo                 |-> Manifest("HistoryMutation", "Required"),
   request_save         |-> Manifest("ExplicitSave", "ExplicitUiAction")]

Tools == DOMAIN Manifests
OnSelection == {"inspect_selection", "propose_text_rewrite", "replace_text_range", "apply_text_style"}

\* The selection of a run is that of its context: checked and in one form.
RunSelection(doc, ranges) ==
  IF ranges = <<>> THEN NoSelection
  ELSE SelectionContext(doc, ranges, 0, 1, 1).ranges

\* The selection of a run is given the revision of the run whenever a call
\* is checked, so it is never stale here; the gateway compares the quotes.
ActiveSelection(context) == context.selection

ValidDocument(document, context) ==
  document = context.document /\ document \in context.allowed

\* parse_transaction_edits: every edit has a range of its own.
ParseTransactionEdits(edits) == edits # <<>> /\ \A i \in DOMAIN edits : edits[i].start < edits[i].end

Objects(ranges) == {ranges[i].object : i \in DOMAIN ranges}

AffectedScope(tool, ranges) ==
  CASE tool \in OnSelection \ {"inspect_selection"} ->
         [ranges |-> Len(ranges), objects |-> Cardinality(Objects(ranges)), bulk |-> FALSE]
    [] tool = "commit_replace_all"  -> [ranges |-> 2, objects |-> 2, bulk |-> TRUE]
    [] tool = "preview_transaction" ->
         [ranges |-> Len(ranges), objects |-> Cardinality(Objects(ranges)), bulk |-> TRUE]
    [] OTHER -> [ranges |-> 0, objects |-> 0, bulk |-> FALSE]

\* A call the registry knows and whose arguments are right, or its error.
ValidateCall(call, context) ==
  CASE call.tool \notin Tools -> [error |-> "unknown_tool"]
    [] call.tool \in Tools /\ ~ValidDocument(call.document, context) -> [error |-> "document_not_allowed"]
    [] OTHER ->
         LET ranges == CASE call.tool \in OnSelection -> ActiveSelection(context)
                         [] call.tool = "preview_transaction" -> call.edits
                         [] OTHER -> <<>>
         IN IF \/ ~call.wellFormed
               \/ call.tool \in OnSelection /\ ranges = NoSelection
               \/ call.tool = "preview_transaction" /\ ~ParseTransactionEdits(ranges)
            THEN [error |-> "invalid_tool_arguments"]
            ELSE [tool |-> call.tool, manifest |-> Manifests[call.tool], ranges |-> ranges,
                  affected |-> AffectedScope(call.tool, ranges)]

\* Mutant: several ranges of one object are as local as one.
DecideByObject(call) ==
  CASE call.manifest.risk \in {"ReadOnly", "Preview"} -> "Automatic"
    [] call.manifest.risk = "LocalMutation" ->
         IF call.affected.objects = 1 /\ ~call.affected.bulk THEN "Automatic" ELSE "ApprovalRequired"
    [] call.manifest.risk \in {"BulkMutation", "HistoryMutation"} -> "ApprovalRequired"
    [] call.manifest.risk = "ExplicitSave" -> "ExplicitUiAction"

\* PermissionPolicy::decide
Decide(call) ==
  CASE call.manifest.risk \in {"ReadOnly", "Preview"} -> "Automatic"
    [] call.manifest.risk = "LocalMutation" ->
         IF call.affected = [ranges |-> 1, objects |-> 1, bulk |-> FALSE]
         THEN "Automatic" ELSE "ApprovalRequired"
    [] call.manifest.risk \in {"BulkMutation", "HistoryMutation"} -> "ApprovalRequired"
    [] call.manifest.risk = "ExplicitSave" -> "ExplicitUiAction"

\* proposal_view: the ranges people are shown, each with what it becomes.
ProposalTargets(call) ==
  IF call.tool \in {"replace_text_range", "apply_text_style"} THEN call.ranges ELSE <<>>

\* execute and invoke_tool: the ranges that are written, the last one first;
\* the selection is brought into its form once more.
Execute(doc, call) ==
  CASE call.tool \in {"replace_text_range", "apply_text_style"} ->
         ReplacementEdits(ValidateTextSelection(doc, call.ranges, 1))
    [] OTHER -> <<>>
=============================================================================
