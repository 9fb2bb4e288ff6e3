---------------------------- MODULE TextSelection ----------------------------
(***************************************************************************)
(* What a selection of the user or of an agent becomes: checked against    *)
(* the document and brought into one form (selection.rs), described for    *)
(* the agent (selection_context.rs), and replaced (tools.rs).              *)
(*                                                                         *)
(* A document is a function from its objects to [kind, page, text, boxes]; *)
(* an object is a number, in the order of its id, and boxes are the spans  *)
(* that the importer gave the characters of the text.  Geometry, fonts     *)
(* and styles are left out, and a range names the page of its object.      *)
(***************************************************************************)
EXTENDS TextSearch

CONSTANT MaxRanges  \* ContextLimits::max_ranges

-----------------------------------------------------------------------------
(* One form for a selection                                                *)

ValidateTextRange(doc, r) ==
  CASE r.object \notin DOMAIN doc -> "object_not_found"
    [] r.object \in DOMAIN doc /\ doc[r.object].kind # "text" -> "wrong_object_kind"
    [] OTHER ->
         LET t == doc[r.object].text
             u == Span(r.start, r.end)
         IN IF ValidateUtf16Range(t, u) # "ok" THEN "invalid_text_boundary"
            ELSE IF u.start = u.end \/ Slice(t, Utf16RangeToByteRange(t, u)) # r.quote
            THEN "selection_quote_mismatch"
            ELSE "ok"

\* page_number, object_id, start_utf16, end_utf16: in this order.
Precedes(doc, a, b) ==
  LET Key(r) == <<doc[r.object].page, r.object, r.start, r.end>>
      differ == {i \in 1 .. 4 : Key(a)[i] # Key(b)[i]}
      first  == CHOOSE i \in differ : \A j \in differ : i <= j
  IN differ # {} /\ Key(a)[first] < Key(b)[first]

RefreshQuote(doc, r) ==
  LET t == doc[r.object].text
  IN [r EXCEPT !.quote = Slice(t, Utf16RangeToByteRange(t, Span(r.start, r.end)))]

\* Mutant: the end of the later range is taken.
MergeToLater(doc, merged, r) ==
  LET previous == Last(merged)
  IN IF merged # <<>> /\ previous.object = r.object /\ r.start <= previous.end
     THEN Append(Front(merged), RefreshQuote(doc, [previous EXCEPT !.end = r.end]))
     ELSE Append(merged, r)

\* Ranges of one object that overlap or touch become one, quoted anew.
Merge(doc, merged, r) ==
  LET previous == Last(merged)
  IN IF merged # <<>> /\ previous.object = r.object /\ r.start <= previous.end
     THEN Append(Front(merged),
                 RefreshQuote(doc, [previous EXCEPT !.end = IF r.end > @ THEN r.end ELSE @]))
     ELSE Append(merged, r)

\* The result, or the code of the first range refused; the primary range of
\* a selection that has one is the first.
ValidateTextSelection(doc, ranges, primary) ==
  LET refused == SelectInSeq(ranges, LAMBDA r : ValidateTextRange(doc, r) # "ok")
  IN IF ranges = <<>> THEN [error |-> "invalid_command"]
     ELSE IF refused # 0 THEN [error |-> ValidateTextRange(doc, ranges[refused])]
     ELSE [ranges |-> FoldLeft(LAMBDA merged, r : Merge(doc, merged, r), <<>>,
                               SortSeq(ranges, LAMBDA a, b : Precedes(doc, a, b))),
           primary |-> IF primary = 0 THEN 0 ELSE 1]

ValidateObjectSelection(doc, ids, primary) ==
  CASE ids = <<>> -> [error |-> "invalid_command"]
    [] \E i \in DOMAIN ids : ids[i] \notin DOMAIN doc -> [error |-> "object_not_found"]
    [] OTHER -> [objects |-> SetToSortSeq(ToSet(ids), <), primary |-> IF primary = 0 THEN 0 ELSE 1]

-----------------------------------------------------------------------------
(* The context of a text selection                                         *)

\* The first i characters are within the limit.
Fits(t, i, limit) == Utf16Offset(t, i) <= limit

Utf16Prefix(t, limit) ==
  LET whole == {i \in 1 .. Len(t) : Fits(t, i, limit)}
  IN SubSeq(t, 1, Cardinality(whole))

Utf16Suffix(t, limit) == Reverse(Utf16Prefix(Reverse(t), limit))

\* The text around the primary range, else around the first.
PrimaryNearbyText(doc, selection, before, after) ==
  LET r == selection.ranges[1]
      t == doc[r.object].text
      b == Utf16RangeToByteRange(t, Span(r.start, r.end))
  IN [before |-> Utf16Suffix(SubSeq(t, 1, b.start), before),
      after  |-> Utf16Prefix(SubSeq(t, b.end + 1, Len(t)), after)]

Clip(box, r) ==
  Span(IF box.start > r.start THEN box.start ELSE r.start,
       IF box.end < r.end THEN box.end ELSE r.end)

\* The character boxes that the range meets, cut to it.
CollectTextRange(doc, r) ==
  LET met == SelectSeq(doc[r.object].boxes, LAMBDA box : box.start < r.end /\ box.end > r.start)
  IN [q \in 1 .. Len(met) |-> [object |-> r.object] @@ Clip(met[q], r)]

IsError(result) == "error" \in DOMAIN result

SelectionContext(doc, ranges, primary, before, after) ==
  LET selection == ValidateTextSelection(doc, ranges, primary) IN
  CASE IsError(selection) -> selection
    [] ~IsError(selection) /\ Len(selection.ranges) > MaxRanges ->
         [error |-> "selection_limit_exceeded"]
    [] OTHER ->
         [ranges |-> selection.ranges,
          quads  |-> FoldLeft(LAMBDA out, r : out \o CollectTextRange(doc, r), <<>>, selection.ranges),
          nearby |-> PrimaryNearbyText(doc, selection, before, after)]

-----------------------------------------------------------------------------
(* Replacing a selection                                                   *)

ReplacementEdits(selection) == Reverse(selection.ranges)
=============================================================================
