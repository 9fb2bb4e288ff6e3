---------------------------- MODULE MCAlgorithms ----------------------------
(***************************************************************************)
(* The smaller parts on bounded inputs.  A step picks one input of one of  *)
(* the pure algorithms, and each property compares what the algorithm      *)
(* makes of it with a definition of its own; or it picks one of the parts  *)
(* that have steps of their own, which follow.                             *)
(***************************************************************************)
EXTENDS ToolPolicy, ProviderStream, ContentEdit, Retrieval, MCDocuments,
        Conversations, PatchCache, Proposals

CONSTANTS
  MaxText,            \* characters of a text
  MaxSelected,        \* ranges of a selection
  MaxOperators        \* operators of a content

-----------------------------------------------------------------------------
(* Alphabets.  ff is the ligature, acute a combining accent, pair a        *)
(* character of two code units.                                            *)

MCChar == {"a", "A", "f", "ff", "e", "acute", "eacute", "pair", "-"}
MCUnits == [c \in MCChar |-> IF c = "pair" THEN 2 ELSE 1]
MCWordChar == {"a", "A", "f", "ff", "e", "eacute"}
MCLower == [c \in MCChar |-> IF c = "A" THEN <<"a">> ELSE <<c>>]
MCCompat == [c \in MCChar |-> IF c = "ff" THEN <<"f", "f">> ELSE <<c>>]
MCComposed == (<<"e", "acute">> :> "eacute")

SearchTexts == SeqOf({"a", "A", "f", "ff", "e", "acute", "pair"}, MaxText)
Queries == {<<"a">>, <<"f">>, <<"f", "f">>, <<"a", "a">>, <<"f", "a">>,
            <<"acute">>, <<"eacute">>, <<"e", "acute">>}

\* Object 1 has the text that is searched.
EntriesOf(t) == <<[object |-> 1, text |-> t], [object |-> 2, text |-> <<"f", "a">>]>>

\* Object 2 is on the first page, 1 and 3 are on the second.
Fixed ==
  [o \in 1 .. 3 |->
     [kind |-> IF o = 3 THEN "annotation" ELSE "text",
      page |-> IF o = 2 THEN 1 ELSE 2,
      text |-> IF o = 1 THEN <<"a", "e", "acute", "pair">> ELSE <<"f", "a">>,
      boxes |-> IF o = 1 THEN <<Span(0, 1), Span(1, 3), Span(3, 5)>>
                ELSE <<Span(0, 1), Span(1, 2)>>]]

True(o, i, j) == Match(o, Fixed[o].text, Span(i, j))

RefusedRanges ==
  {[object |-> 1, start |-> 3, end |-> 4, quote |-> <<"pair">>],
   [object |-> 1, start |-> 0, end |-> 1, quote |-> <<"f">>],
   [object |-> 3, start |-> 0, end |-> 1, quote |-> <<"f">>]}

Ranges ==
  {True(1, i, j) : i \in 0 .. 3, j \in 1 .. 4} \cup {True(2, 0, 1), True(2, 1, 2), True(2, 0, 2)}
    \cup RefusedRanges

Spanned == {r \in Ranges : r.start < r.end}

MCValidJson == {<<"open", "close">>}

\* Two calls and two ids; a frame that opens a call may bring a first piece.
MCFrame ==
  {[kind |-> "call", index |-> i, id |-> d, name |-> "n", piece |-> p] :
     i \in 0 .. 1, d \in {"x", "y"}, p \in {NoPiece, "open"}} \cup
  {[kind |-> "call", index |-> i, id |-> NoPiece, name |-> NoPiece, piece |-> p] :
     i \in 0 .. 1, p \in {"open", "close"}} \cup
  {[kind |-> "text", piece |-> "t"], [kind |-> "done"], [kind |-> "malformed"]}

Operators ==
  {[op |-> "Tf", font |-> f] : f \in {<<"Source", 1>>, <<"Source", 2>>}} \cup
  {[op |-> "Show", text |-> "source"], [op |-> "q"], [op |-> "Q"]}

MCSourcePage ==
  {[content |-> content, fonts |-> (<<"Source", 1>> :> "Helvetica") @@ (<<"Source", 2>> :> "Times")] :
     content \in SeqOf(Operators, MaxOperators)}

MCReplacement == [occurrence : 1 .. 2, text : {"new"}, fallback : {NoFont, "B1", "B2"}]

MCCanEmbed == {"B1", "B2"} \X {"new"}

Chunk(id, content) == [id |-> id, text |-> <<"text", content>>]

\* Two fingerprints that share the file names; lists that differ in an id, in
\* a text, in both, or in their lengths.
MCDocument ==
  [fingerprint : {"fp", "other"},
   chunks : {<<Chunk(1, 1)>>, <<Chunk(1, 2)>>, <<Chunk(2, 2)>>, <<Chunk(1, 1), Chunk(2, 2)>>}]

\* One conversation with a legacy history, its second import with another
\* one, and a new one; the last message of the first is compacted.
Told(sequence, role, compacted) ==
  [sequence |-> sequence, external |-> <<"id", sequence>>, role |-> role,
   content |-> <<"told", sequence>>, compacted |-> compacted]

MCImports ==
  {[conversation |-> "uuid1", legacy |-> "legacy1",
    messages |-> <<Told(1, "user", TRUE), Told(2, "assistant", FALSE)>>],
   [conversation |-> "uuid1", legacy |-> "legacy1", messages |-> <<Told(1, "user", FALSE)>>],
   [conversation |-> "uuid2", legacy |-> "legacy2", messages |-> <<>>]}

MCSizeOf == (72 :> 2) @@ (144 :> 3)

-----------------------------------------------------------------------------
(* The inputs                                                              *)

Search ==
  /\ case = Ask("search")
  /\ \E t \in SearchTexts, q \in Queries, mode \in {"Exact", "CaseFolded", "Normalized"},
        wholeWord \in BOOLEAN :
       LET request == [query |-> q, mode |-> mode, wholeWord |-> wholeWord, limit |-> 1] IN
       /\ ValidRequest(request)
       /\ Take([kind |-> "search", text |-> t, request |-> request,
                matches |-> AllMatches(EntriesOf(t), request)])

Select ==
  /\ case = Ask("select")
  /\ \E ranges \in SeqOf(Spanned, MaxSelected), primary \in 0 .. 1 :
       Take([kind |-> "select", ranges |-> ranges, primary |-> primary])

\* A call of a run that was started with these ranges selected.
Judge ==
  /\ case = Ask("judge")
  /\ \E ranges \in SeqOf(Spanned, 2), spans \in SeqOf({True(1, 0, 1), True(2, 0, 2)}, 2),
        tool \in Tools \cup {"unknown"}, document \in {"this", "other"}, wellFormed \in BOOLEAN :
       /\ ranges = <<>> \/ ~IsError(SelectionContext(Fixed, ranges, 0, 1, 1))
       /\ LET context == [document |-> "this", allowed |-> {"this"},
                          selection |-> RunSelection(Fixed, ranges)]
          IN Take([kind |-> "judge", context |-> context,
                   call |-> ValidateCall([tool |-> tool, document |-> document,
                                          wellFormed |-> wellFormed, edits |-> spans], context)])

Stores == {"conversations", "patches", "proposals", "stream", "index"}

Topics == {"search", "select", "judge", "annotate", "compose"}

SomeSize == CHOOSE most \in ChunkSizes : TRUE

SomePage == CHOOSE sourcePage \in SourcePage : TRUE

SomeBlock == CHOOSE sourceBlock \in SourceBlock : TRUE

\* Only to cut a page into chunks they may be of any size, only to edit a page
\* it may be any page, and only to command a block it may be any block.
AnySize == source = SomePage /\ imported = SomeBlock

AnyPage == size = SomeSize /\ imported = SomeBlock

AnyBlock == size = SomeSize /\ source = SomePage

\* An algorithm that is to get an input, or a part that has steps of its own.
TakeTopic ==
  /\ case = Start
  /\ \/ /\ AnySize /\ AnyPage
        /\ \/ \E topic \in Topics : Take(Ask(topic))
           \/ \E store \in Stores : Take([kind |-> store])
     \/ AnySize /\ Take([kind |-> "split"])
     \/ AnyPage /\ Take([kind |-> "write"])
     \/ AnyBlock /\ Take([kind |-> "block"])

Init ==
  /\ case = Start
  /\ InitConversations
  /\ InitCache
  /\ InitProposals
  /\ text = CHOOSE content \in Content : TRUE
  /\ InitStream
  /\ InitIndex
  /\ InitSplit
  /\ InitWrite
  /\ InitObject
  /\ AnySize \/ AnyPage \/ AnyBlock

storeVars == <<conversationVars, cacheVars, proposalVars>>

partVars == <<streamVars, splitVars, indexVars, writeVars, objectVars>>

vars == <<case, storeVars, partVars>>

Next ==
  \/ /\ \/ TakeTopic \/ DocumentInput
        \/ Search \/ Select \/ Judge
     /\ UNCHANGED <<storeVars, partVars>>
  \/ /\ case.kind = "conversations"
     /\ NextConversations
     /\ UNCHANGED <<case, cacheVars, proposalVars, partVars>>
  \/ /\ case.kind = "patches"
     /\ NextCache
     /\ UNCHANGED <<case, conversationVars, proposalVars, partVars>>
  \/ /\ case.kind = "proposals"
     /\ NextProposals
     /\ UNCHANGED <<case, conversationVars, cacheVars, partVars>>
  \/ /\ case.kind = "stream"
     /\ NextStream
     /\ UNCHANGED <<case, storeVars, splitVars, indexVars, writeVars, objectVars>>
  \/ /\ case.kind = "split"
     /\ NextSplit
     /\ UNCHANGED <<case, storeVars, streamVars, indexVars, writeVars, objectVars>>
  \/ /\ case.kind = "index"
     /\ NextIndex
     /\ UNCHANGED <<case, storeVars, streamVars, splitVars, writeVars, objectVars>>
  \/ /\ case.kind = "write"
     /\ NextWrite
     /\ UNCHANGED <<case, storeVars, streamVars, splitVars, indexVars, objectVars>>
  \/ /\ case.kind = "block"
     /\ NextObject
     /\ UNCHANGED <<case, storeVars, streamVars, splitVars, indexVars, writeVars>>

Spec == Init /\ [][Next]_vars

-----------------------------------------------------------------------------
(* What was found                                                          *)

TextOf(o) == EntriesOf(case.text)[o].text

Matches == case.matches

Wanted == Transform(case.request.mode, case.request.query)

\* Every match is a selection that the document of the same revision accepts:
\* its UTF-16 offsets are boundaries and its quote is the text between them
\* (search.rs, all_matches; selection.rs, validate_text_range).
MatchesAreSelections ==
  case.kind = "search" =>
    LET doc == [o \in 1 .. 2 |-> [kind |-> "text", page |-> 1, text |-> TextOf(o)]]
    IN \A match \in ToSet(Matches) : ValidateTextRange(doc, match) = "ok"

\* A match holds what was asked for, also when its graphemes were composed,
\* decomposed or folded on the way (TransformedText::source_range).
MatchesHoldTheQuery ==
  case.kind = "search" =>
    \A match \in ToSet(Matches) :
      FindRanges(Transform(case.request.mode, match.quote), Wanted) # <<>>

\* Nothing is missed: graphemes that become the query overlap a match.
NothingIsMissed ==
  (case.kind = "search" /\ ~case.request.wholeWord) =>
    LET matches == ToSet(Matches)
        wanted  == Wanted IN
    \A o \in 1 .. 2 :
      LET graphemes == Graphemes(TextOf(o)) IN
      \A first, last \in DOMAIN graphemes :
        LET here == Span(graphemes[first].start, graphemes[last].end) IN
        (first <= last /\ Transform(case.request.mode, Slice(TextOf(o), here)) = wanted) =>
          \E match \in matches :
            /\ match.object = o
            /\ match.start < Utf16Offset(TextOf(o), here.end)
            /\ Utf16Offset(TextOf(o), here.start) < match.end

\* The pages that a caller reads by adding what it got to its offset are all
\* the matches, each once, whatever the page's size.
PagesJoinToAllMatches ==
  case.kind = "search" =>
    LET matches == Matches IN
    \A limit \in 1 .. MaxLimit :
      LET pages == [p \in 1 .. Len(matches) + 1 |-> SearchPage(matches, (p - 1) * limit, limit)]
      IN /\ FlattenSeq([p \in DOMAIN pages |-> pages[p].matches]) = matches
         /\ \A p \in DOMAIN pages : pages[p].total = Len(matches)

\* The text with every given range replaced at once.
ReplacedAtOnce(t, ranges, replacement) ==
  LET Covered(i) == {r \in ranges : Utf16RangeToByteRange(t, r).start < i /\
                                    i <= Utf16RangeToByteRange(t, r).end}
      Opens(i) == \E r \in ranges : Utf16RangeToByteRange(t, r).start = i - 1
  IN FoldLeft(LAMBDA out, i :
                out \o (IF Opens(i) THEN replacement ELSE <<>>)
                    \o (IF Covered(i) = {} THEN <<t[i]>> ELSE <<>>),
              <<>>, [i \in DOMAIN t |-> i])

RangesOf(ranges, o) ==
  {Span(ranges[i].start, ranges[i].end) : i \in {j \in DOMAIN ranges : ranges[j].object = o}}

Replacements == {<<>>, <<"a">>, <<"-", "-", "-">>}

\* Replacing all exact matches one after the other gives what replacing them
\* at once gives, whatever the lengths (prepare_replace_all).
ReplaceAllIsSimultaneous ==
  (case.kind = "search" /\ case.request.mode = "Exact") =>
    LET matches == Matches IN
    \A replacement \in Replacements :
      LET done == ApplyEdits([o \in 1 .. 2 |-> TextOf(o)], ReplaceEdits(matches), replacement) IN
      /\ done.ok
      /\ \A o \in 1 .. 2 :
           done.texts[o] = ReplacedAtOnce(TextOf(o), RangesOf(matches, o), replacement)

\* Search finds all of what was asked for and nothing else, pages of results
\* lose none of it, and replacing it replaces just that (search.rs,
\* prepare_replace_all).
SearchIsExact ==
  /\ MatchesAreSelections
  /\ MatchesHoldTheQuery
  /\ NothingIsMissed
  /\ PagesJoinToAllMatches
  /\ ReplaceAllIsSimultaneous

-----------------------------------------------------------------------------
(* What was selected                                                       *)

Selection == ValidateTextSelection(Fixed, case.ranges, case.primary)

WasSelected == case.kind = "select" /\ ~IsError(Selection)

UnitsOf(ranges) ==
  UNION {{<<ranges[i].object, u>> : u \in ranges[i].start .. ranges[i].end - 1} : i \in DOMAIN ranges}

\* The validated selection covers what was selected and nothing else, in
\* reading order, and two ranges of one object neither overlap nor touch.
SelectionCoversWhatWasSelected ==
  WasSelected =>
    /\ UnitsOf(Selection.ranges) = UnitsOf(case.ranges)
    /\ \A i, j \in DOMAIN Selection.ranges : i < j =>
         LET a == Selection.ranges[i]  b == Selection.ranges[j] IN
         /\ Fixed[a.object].page <= Fixed[b.object].page
         /\ a.object = b.object => a.end < b.start

\* A validated selection is accepted again as it is, of text and of objects:
\* tools validate what the context, a proposal and a transaction preview have
\* validated before (selection.rs, validate_selection).
ValidatedSelectionIsStable ==
  WasSelected =>
    LET objects == ValidateObjectSelection(Fixed, [i \in DOMAIN case.ranges |-> case.ranges[i].object],
                                           case.primary) IN
    /\ ValidateTextSelection(Fixed, Selection.ranges, Selection.primary) = Selection
    /\ ValidateObjectSelection(Fixed, objects.objects, objects.primary) = objects

\* Replacing a selection replaces what it covers, whatever the lengths.
ReplacingASelection ==
  WasSelected =>
    \A replacement \in Replacements :
      LET done == ApplyEdits([o \in 1 .. 2 |-> Fixed[o].text],
                             ReplacementEdits(Selection), replacement) IN
      /\ done.ok
      /\ \A o \in 1 .. 2 :
           done.texts[o] = ReplacedAtOnce(Fixed[o].text, RangesOf(Selection.ranges, o), replacement)

\* The text shown around a selection is the text next to it, within the limit,
\* and as much of it as the limit allows; no pair is split.
NearbyTextIsAdjacent ==
  WasSelected =>
    \A before, after \in 0 .. 3 :
      LET first  == Selection.ranges[1]
          t      == Fixed[first.object].text
          nearby == PrimaryNearbyText(Fixed, Selection, before, after)
          around == nearby.before \o first.quote \o nearby.after
          Width(s) == Utf16Offset(s, Len(s))
      IN \E skipped \in 0 .. Len(t) :
           LET end == skipped + Len(around) IN
           /\ end <= Len(t)
           /\ SubSeq(t, skipped + 1, end) = around
           /\ Utf16Offset(t, skipped) + Width(nearby.before) = first.start
           /\ Width(nearby.before) <= before
           /\ Width(nearby.after) <= after
           /\ skipped > 0 => Width(nearby.before) + Units[t[skipped]] > before
           /\ end < Len(t) => Width(nearby.after) + Units[t[end + 1]] > after

\* The quads of a context cover the selection and nothing beside it, also
\* where it begins or ends inside a character box.
QuadsCoverSelection ==
  WasSelected =>
    LET context == SelectionContext(Fixed, case.ranges, case.primary, 1, 1)
    IN ~IsError(context) => UnitsOf(context.quads) = UnitsOf(Selection.ranges)

\* A selection keeps its text from the user to the agent and back: validated,
\* described with its surroundings and its quads, and replaced (selection.rs,
\* selection_context.rs, tools.rs).
SelectionsKeepTheirText ==
  /\ SelectionCoversWhatWasSelected
  /\ ValidatedSelectionIsStable
  /\ ReplacingASelection
  /\ NearbyTextIsAdjacent
  /\ QuadsCoverSelection

-----------------------------------------------------------------------------
(* What was called                                                         *)

Accepted == case.kind = "judge" /\ ~IsError(case.call)

\* The units of text that a sequence of ranges covers, one range at a time.
Spots(ranges) == {UnitsOf(<<ranges[i]>>) : i \in DOMAIN ranges}

\* What is written without asking is one range of one object that was
\* selected; what the manifest calls Required or ExplicitUiAction is never
\* done without people, what it calls Automatic changes nothing.
UnaskedCallsAreLocal ==
  Accepted =>
    LET written == Execute(Fixed, case.call)
        asked   == Decide(case.call) IN
    /\ asked = "Automatic" =>
         /\ Len(written) <= 1
         /\ \A i \in DOMAIN written : written[i] \in ToSet(case.context.selection)
    /\ case.call.manifest.approval = "Automatic" => asked = "Automatic" /\ written = <<>>
    /\ case.call.manifest.approval = "Required" => asked = "ApprovalRequired"
    /\ asked = "ExplicitUiAction" => written = <<>>

\* What people are shown before they approve is what is written: the same
\* ranges, though the selection is merged again when the call is executed.
ProposalsShowWhatIsWritten ==
  Accepted => Spots(ProposalTargets(case.call)) = Spots(Execute(Fixed, case.call))

\* A tool call reaches the document as people saw it: written unasked only
\* where it is local, and otherwise written as shown (policy.rs, run.rs).
CallsAreWrittenAsShown ==
  /\ UnaskedCallsAreLocal
  /\ ProposalsShowWhatIsWritten
=============================================================================
