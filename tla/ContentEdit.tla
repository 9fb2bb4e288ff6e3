----------------------------- MODULE ContentEdit -----------------------------
(***************************************************************************)
(* How the edited texts of a page are written into its content stream      *)
(* (materializer.rs): the n-th text-showing operator shows the new text,   *)
(* in an embedded font when one was approved for it.                       *)
(*                                                                         *)
(* Data abstraction: a content is a sequence of [op |-> "Tf", font],       *)
(* [op |-> "Show", text], [op |-> "q"] and [op |-> "Q"]; "Show" stands for *)
(* Tj, TJ, ' and ".  A page has a content and font resources, a function   *)
(* from names to fonts, where every selected font is found.  Sizes, widths *)
(* and encodings are left out; whether a font can be embedded for a text   *)
(* is CanEmbed.  The pages of a document are written one by one and share  *)
(* nothing that is changed: one page is modelled.                          *)
(***************************************************************************)
EXTENDS Integers, Sequences, FiniteSets

CONSTANTS
  NoFont,       \* no approved fallback
  CanEmbed,     \* <<font, text>>: the asset is unchanged, embeddable and encodes the text
  SourcePage,   \* pages as they are read
  Replacement,  \* edits of a text: the occurrence, its text, its fallback font
  EditLimit     \* bound: edits of a page

ASSUME ContentAssumption ==
  /\ \A pair \in CanEmbed : pair[1] # NoFont
  /\ \A sourcePage \in SourcePage :
       /\ sourcePage = [content |-> sourcePage.content, fonts |-> sourcePage.fonts]
       /\ Len(sourcePage.content) \in Nat
       /\ sourcePage.content = [i \in 1 .. Len(sourcePage.content) |-> sourcePage.content[i]]
       /\ \A i \in DOMAIN sourcePage.content :
            LET operator == sourcePage.content[i] IN
            /\ operator.op = "Show" => operator = [op |-> "Show", text |-> operator.text]
            /\ operator.op = "Tf" => operator.font \in DOMAIN sourcePage.fonts
  /\ EditLimit \in Nat

VARIABLES
  source,     \* the page as it was read,
  page,       \* and as it will be written
  edits,      \* the edits made, in their order
  refused     \* the save ends with an error

writeVars == <<source, page, edits, refused>>

InitWrite ==
  /\ source \in SourcePage
  /\ page = source
  /\ edits = <<>>
  /\ refused = FALSE

\* How many operators op there are up to i.
Count(content, op, i) == Cardinality({k \in 1 .. i : content[k].op = op})

Shows(content) == {i \in DOMAIN content : content[i].op = "Show"}

\* The text that is shown at i is the n-th one.
Occurrence(content, i) == Count(content, "Show", i)

\* Where the font is selected that comes last before i in the stream.
LastSelection(content, i) ==
  {k \in 1 .. i - 1 : content[k].op = "Tf" /\ \A j \in k + 1 .. i - 1 : content[j].op # "Tf"}

\* embed_fallback_font: the page gets a font resource of a new name.
FallbackResource(serial) == <<"ClarixFallback", serial>>

InstallPageFont(fonts, name, font) ==
  [n \in DOMAIN fonts \cup {name} |-> IF n = name THEN font ELSE fonts[n]]

Tf(name) == [op |-> "Tf", font |-> name]

\* Mutant: the source font is not selected again.
InFallbackFontOnly(content, position, resource, restore) ==
  [i \in 1 .. Len(content) + 1 |->
     CASE i < position -> content[i]
       [] i = position -> Tf(resource)
       [] i > position -> content[i - 1]]

\* The font is selected before the text, and the one selected last before
\* it again after it.
InFallbackFont(content, position, resource, restore) ==
  [i \in 1 .. Len(content) + 2 |->
     CASE i < position     -> content[i]
       [] i = position     -> Tf(resource)
       [] i = position + 1 -> content[position]
       [] i = position + 2 -> restore
       [] i > position + 2 -> content[i - 2]]

\* The text of that occurrence, if there is one.
Position(content, occurrence) == {i \in Shows(content) : Occurrence(content, i) = occurrence}

\* The text alone.
ReplaceWords(edit, position) ==
  /\ edit.fallback = NoFont
  /\ page' = [page EXCEPT !.content[position].text = edit.text]

\* The text and its font.
ReplaceInFont(edit, position) ==
  \E selection \in LastSelection(page.content, position) :
    LET resource == FallbackResource(Len(edits) + 1)
        shown    == [page.content EXCEPT ![position].text = edit.text]
    IN /\ <<edit.fallback, edit.text>> \in CanEmbed
       /\ page' = [content |-> InFallbackFont(shown, position, resource, page.content[selection]),
                   fonts |-> InstallPageFont(page.fonts, resource, edit.fallback)]

\* replace_text_occurrence, once for every edited object of the page; each
\* object has an occurrence of its own.
ReplaceTextOccurrence(edit) ==
  /\ ~refused
  /\ Len(edits) < EditLimit
  /\ \A i \in DOMAIN edits : edits[i].occurrence # edit.occurrence
  /\ \E position \in Position(page.content, edit.occurrence) :
       ReplaceWords(edit, position) \/ ReplaceInFont(edit, position)
  /\ edits' = Append(edits, edit)
  /\ UNCHANGED <<source, refused>>

\* No such text, a font that cannot be embedded, or none to go back to: one
\* edit refused refuses all.
RefuseEdit(edit) ==
  /\ ~refused
  /\ Len(edits) < EditLimit
  /\ \A i \in DOMAIN edits : edits[i].occurrence # edit.occurrence
  /\ \/ Position(page.content, edit.occurrence) = {}
     \/ /\ edit.fallback # NoFont
        /\ \/ <<edit.fallback, edit.text>> \notin CanEmbed
           \/ \A position \in Position(page.content, edit.occurrence) :
                LastSelection(page.content, position) = {}
  /\ refused' = TRUE
  /\ UNCHANGED <<source, page, edits>>

NextWrite == \E edit \in Replacement : ReplaceTextOccurrence(edit) \/ RefuseEdit(edit)

SpecWrite == InitWrite /\ [][NextWrite]_writeVars

-----------------------------------------------------------------------------
(* Properties                                                              *)

\* How deep the graphics states are nested after i.
Depth(content, i) == Count(content, "q", i) - Count(content, "Q", i)

\* What is selected at i is not undone by a "Q" before p.
Lasts(content, i, p) == \A k \in i .. p - 1 : Depth(content, k) >= Depth(content, i)

\* Where the font is selected that a text at p is shown in.
InEffect(content, p) ==
  {i \in 1 .. p - 1 :
     /\ content[i].op = "Tf"
     /\ Lasts(content, i, p)
     /\ \A j \in i + 1 .. p - 1 : content[j].op = "Tf" => ~Lasts(content, j, p)}

Selected(content, positions) == {content[i].font : i \in positions}

Fonts(of, p) == {of.fonts[name] : name \in Selected(of.content, InEffect(of.content, p))}

\* No font of the page has a name that the embedded ones get.
OwnNames ==
  \A i \in DOMAIN source.content :
    source.content[i].op = "Tf" => \A n \in 1 .. EditLimit : source.content[i].font # FallbackResource(n)

\* The font that is selected again after an edited text is the one that was
\* in effect before it.
RestoresItsFont(edit) ==
  edit.fallback # NoFont =>
    \A p \in Position(source.content, edit.occurrence) :
      Selected(source.content, LastSelection(source.content, p)) =
        Selected(source.content, InEffect(source.content, p))

\* A written page shows every edited text in its font and every other one as
\* before: two fallback fonts of a page do not meet, and a fallback ends with
\* the text it was approved for.  That is where the last font in the stream
\* before such a text is the one in effect there, no "q" and "Q" between them
\* (replace_text_occurrence, embed_fallback_font).
OnlyEditedTextChanges ==
  (~refused /\ OwnNames /\ \A i \in DOMAIN edits : RestoresItsFont(edits[i])) =>
    /\ {Occurrence(page.content, q) : q \in Shows(page.content)} =
         {Occurrence(source.content, p) : p \in Shows(source.content)}
    /\ \A p \in Shows(source.content), q \in Shows(page.content) :
         Occurrence(page.content, q) = Occurrence(source.content, p) =>
           LET made == {edits[i] : i \in {j \in DOMAIN edits :
                                            edits[j].occurrence = Occurrence(source.content, p)}}
           IN /\ made = {} => /\ page.content[q] = source.content[p]
                              /\ Fonts(page, q) = Fonts(source, p)
              /\ \A edit \in made :
                   /\ page.content[q].text = edit.text
                   /\ Fonts(page, q) = IF edit.fallback = NoFont THEN Fonts(source, p)
                                       ELSE {edit.fallback}
=============================================================================
