------------------------------ MODULE TextSearch ------------------------------
(***************************************************************************)
(* Texts and what is found in them (text.rs, search.rs), and the           *)
(* replace-all that session.rs builds from the matches.                    *)
(*                                                                         *)
(* Data abstraction: a text is a sequence of characters, a byte position   *)
(* is the number of characters before it.  What the properties tell apart  *)
(* of a character is its width in UTF-16 code units, whether it extends    *)
(* the grapheme before it, whether it is part of a word, and what lower    *)
(* case and NFKC make of it (the crates unicode_segmentation and           *)
(* unicode_normalization).  Regex search is left out: its engine gives     *)
(* disjoint nonempty ranges in order, as Exact does.                       *)
(***************************************************************************)
EXTENDS Integers, Sequences, FiniteSets, SequencesExt

CONSTANTS
  Char,      \* the characters
  Units,     \* Units[c]: width in UTF-16 code units, 1 or 2
  Extending, \* characters that extend the grapheme before them
  WordChar,  \* alphanumeric characters and the underscore
  Lower,     \* Lower[c]: the characters of to_lowercase
  Compat,    \* Compat[c]: the compatibility decomposition of c
  Composed,  \* the canonical compositions, from pairs of characters
  MaxLimit   \* the largest page of results

ASSUME TextAssumption ==
  /\ Units \in [Char -> {1, 2}]
  /\ Extending \subseteq Char
  /\ WordChar \subseteq Char
  /\ MaxLimit \in Nat \ {0}

Span(start, end) == [start |-> start, end |-> end]

-----------------------------------------------------------------------------
(* Offsets                                                                 *)

\* The UTF-16 offset after i characters: one unit each, one more when wide.
Utf16Offset(t, i) == i + Cardinality({k \in 1 .. i : Units[t[k]] = 2})

Boundaries(t) == {Utf16Offset(t, i) : i \in 0 .. Len(t)}

ValidateUtf16Range(t, r) ==
  IF r.end < r.start THEN "reversed"
  ELSE IF r.end > Utf16Offset(t, Len(t)) THEN "out_of_bounds"
  ELSE IF ~({r.start, r.end} \subseteq Boundaries(t)) THEN "splits_surrogate_pair"
  ELSE "ok"

\* Where the characters of a valid UTF-16 range begin and end.
Utf16RangeToByteRange(t, r) ==
  LET At(offset) == CHOOSE i \in 0 .. Len(t) : Utf16Offset(t, i) = offset
  IN Span(At(r.start), At(r.end))

Slice(t, r) == SubSeq(t, r.start + 1, r.end)

\* One ReplaceTextRange of the block's text: the splice of replace_range.
Splice(t, r, replacement) ==
  SubSeq(t, 1, r.start) \o replacement \o SubSeq(t, r.end + 1, Len(t))

\* Where the graphemes of t start.
GraphemeStarts(t) == {i \in 0 .. Len(t) - 1 : i = 0 \/ t[i + 1] \notin Extending}

\* The n-th of these positions.
Nth(positions, n) == CHOOSE i \in positions : Cardinality({j \in positions : j < i}) = n - 1

\* The graphemes of t, as ranges in order.
Graphemes(t) ==
  LET starts == GraphemeStarts(t)
      count  == Cardinality(starts)
  IN [g \in 1 .. count |->
        Span(Nth(starts, g), IF g < count THEN Nth(starts, g + 1) ELSE Len(t))]

-----------------------------------------------------------------------------
(* The index                                                               *)

Each(f, s) == FoldLeft(LAMBDA out, c : out \o f[c], <<>>, s)

Compose(s) ==
  FoldLeft(LAMBDA out, c :
             IF out # <<>> /\ <<Last(out), c>> \in DOMAIN Composed
             THEN Append(Front(out), Composed[<<Last(out), c>>])
             ELSE Append(out, c), <<>>, s)

Transform(mode, s) ==
  CASE mode = "Exact"      -> s
    [] mode = "CaseFolded" -> Each(Lower, s)
    [] mode = "Normalized" -> Each(Lower, Compose(Each(Compat, s)))

\* match_indices: the occurrences of q, leftmost first, none overlapping.
FindRanges(t, q) ==
  LET Occurs(i) == i + Len(q) <= Len(t) /\ SubSeq(t, i + 1, i + Len(q)) = q
      starts == FoldLeft(LAMBDA found, i :
                           IF Occurs(i) /\ (found = <<>> \/ i >= Last(found) + Len(q))
                           THEN Append(found, i) ELSE found,
                         <<>>, [i \in 1 .. Len(t) |-> i - 1])
  IN [m \in 1 .. Len(starts) |-> Span(starts[m], starts[m] + Len(q))]

\* Every grapheme that the transformation leaves something of: where that
\* is in the transformed text, and where the grapheme is in the source.
TransformedWithSourceRanges(t, mode) ==
  FoldLeft(LAMBDA out, g :
             LET part == Transform(mode, Slice(t, g))
                 from == Len(out.value)
             IN [value |-> out.value \o part,
                 segments |-> IF part = <<>> THEN out.segments
                              ELSE Append(out.segments,
                                     [made |-> Span(from, from + Len(part)), source |-> g])],
           [value |-> <<>>, segments |-> <<>>], Graphemes(t))

\* Mutant: the last grapheme is the one that holds the start of the match.
SourceRangeOfStart(segments, r) ==
  LET first == SelectInSeq(segments, LAMBDA s : s.made.start <= r.start /\ r.start < s.made.end)
  IN Span(segments[first].source.start, segments[first].source.end)

\* A match covers whole graphemes of the source.
SourceRange(segments, r) ==
  LET first == SelectInSeq(segments, LAMBDA s : s.made.start <= r.start /\ r.start < s.made.end)
      last  == SelectLastInSeq(segments, LAMBDA s : s.made.start < r.end /\ r.end <= s.made.end)
  IN Span(segments[first].source.start, segments[last].source.end)

FindMappedRanges(t, q, mode) ==
  LET mapped == TransformedWithSourceRanges(t, mode)
      found  == FindRanges(mapped.value, q)
  IN [m \in 1 .. Len(found) |-> SourceRange(mapped.segments, found[m])]

IsWholeWord(t, r) ==
  /\ r.start > 0 => t[r.start] \notin WordChar
  /\ r.end < Len(t) => t[r.end + 1] \notin WordChar

ValidRequest(request) == request.query # <<>> /\ request.limit \in 1 .. MaxLimit

\* TextRangeRef: a match as the caller gets it.
Match(object, t, r) ==
  [object |-> object, start |-> Utf16Offset(t, r.start), end |-> Utf16Offset(t, r.end),
   quote |-> Slice(t, r)]

\* The matches in the texts of a document, a sequence of [object, text].
AllMatches(entries, request) ==
  LET query == Transform(request.mode, request.query)
      Found(t) == IF request.mode = "Exact" THEN FindRanges(t, query)
                  ELSE FindMappedRanges(t, query, request.mode)
      Kept(t) == SelectSeq(Found(t), LAMBDA r : request.wholeWord => IsWholeWord(t, r))
  IN FoldLeft(LAMBDA out, entry :
                out \o [m \in 1 .. Len(Kept(entry.text)) |->
                          Match(entry.object, entry.text, Kept(entry.text)[m])],
              <<>>, entries)

\* One page of results; offset counts matches.
SearchPage(matches, offset, limit) ==
  LET end == IF offset + limit < Len(matches) THEN offset + limit ELSE Len(matches)
  IN [matches |-> IF offset >= Len(matches) THEN <<>> ELSE SubSeq(matches, offset + 1, end),
      total |-> Len(matches)]

-----------------------------------------------------------------------------
(* Editing what was found                                                  *)

\* The edits of one transaction, in order, on a function of texts; a range
\* that is no longer one refuses the whole transaction.
ApplyEdits(texts, edits, replacement) ==
  FoldLeft(LAMBDA done, edit :
             LET t == done.texts[edit.object]
                 r == Span(edit.start, edit.end)
             IN IF ~done.ok \/ ValidateUtf16Range(t, r) # "ok"
                THEN [done EXCEPT !.ok = FALSE]
                ELSE [done EXCEPT !.texts[edit.object] =
                        Splice(t, Utf16RangeToByteRange(t, r), replacement)],
           [ok |-> TRUE, texts |-> texts], edits)

\* The last match is replaced first, so that the offsets of the others stay.
ReplaceEdits(matches) == Reverse(matches)
=============================================================================
