------------------------------ MODULE TextObject ------------------------------
(***************************************************************************)
(* A block of text and the commands on it: what import makes, what each    *)
(* object command makes of it, what validation asks of it before a model   *)
(* is restored, and the patch and the physical plan that describe an edit  *)
(* to the scene and to the live PDF (model.rs, session.rs).                *)
(*                                                                         *)
(* Data abstraction: a font is a name, its glyphs the characters they      *)
(* stand for, a box the UTF-16 range of its grapheme.  Bounds are the      *)
(* lengths along and across the writing direction, in a unit in which the  *)
(* explored ones are whole; a transform is what was done, in order.        *)
(***************************************************************************)
EXTENDS TextSearch

CONSTANTS
  NoFace,         \* no font
  NoApproval,     \* a replacement without a font that was approved for it
  SourceBlock,    \* blocks as they come into a model
  ObjectCommand,  \* what may be asked of a block
  MaxCommands     \* bound: commands on one block

VARIABLES
  imported,       \* the block as it came in,
  block,          \* and as it is,
  commands        \* after so many commands

objectVars == <<imported, block, commands>>

Utf16Length(t) == Utf16Offset(t, Len(t))

PlainStyle == [size |-> 12, family |-> NoFace]

PlainBlock(t, extent) ==
  [text |-> t, runs |-> <<[range |-> Span(0, Utf16Length(t)), style |-> PlainStyle]>>,
   font |-> NoFace, glyphs |-> {}, overflow |-> "Reject", spacing |-> 1,
   boxes |-> <<>>, capacity |-> 0, extent |-> extent, transform |-> <<>>,
   editable |-> TRUE, reason |-> FALSE, binding |-> "none"]

\* A box for each character instead of one for each grapheme.
ReflowByCharacter(t) == [i \in DOMAIN t |-> Span(Utf16Offset(t, i - 1), Utf16Offset(t, i))]

\* One box for each grapheme, side by side.
ReflowCharacterBoxes(t) ==
  [g \in DOMAIN Graphemes(t) |->
     Span(Utf16Offset(t, Graphemes(t)[g].start), Utf16Offset(t, Graphemes(t)[g].end))]

\* A qualified span of a page, and an object of a live page.
ImportedBlock(t, extent, font, glyphs) ==
  [PlainBlock(t, extent) EXCEPT
     !.binding = "import", !.font = font, !.glyphs = glyphs,
     !.boxes = ReflowCharacterBoxes(t), !.capacity = Len(Graphemes(t)),
     !.runs = <<[range |-> Span(0, Utf16Length(t)), style |-> [PlainStyle EXCEPT !.family = font]]>>]

LiveBlock(t, extent, editable) ==
  [PlainBlock(t, extent) EXCEPT !.binding = "live", !.editable = editable]

\* A span qualifies with a font that has a glyph for each of its characters; a
\* style has a size (text_style), and lengths are whole numbers.
ASSUME ObjectAssumption ==
  /\ \A b \in SourceBlock :
       /\ b.text \in Seq(Char)
       /\ b.extent = [along |-> b.extent.along, across |-> b.extent.across] /\ b.extent.along \in Int
       /\ \/ /\ b = [ImportedBlock(b.text, b.extent, b.font, b.glyphs) EXCEPT !.overflow = b.overflow]
             /\ b.font # NoFace /\ b.glyphs # {} /\ ToSet(b.text) \subseteq b.glyphs
          \/ b = LiveBlock(b.text, b.extent, TRUE)
  /\ \A c \in ObjectCommand :
       /\ c.kind \in {"replace", "style", "paragraph", "move", "resize", "rotate"}
       /\ c.kind \in {"replace", "style"} => {c.range.start, c.range.end} \subseteq Nat
       /\ c.kind = "replace" => /\ c.replacement \in Seq(Char)
                                /\ c.approval = NoApproval \/ c.approval.font # NoFace
       /\ c.kind = "style" => c.style = [size |-> c.style.size, family |-> c.style.family]
       /\ c.kind = "style" => c.style.size \in Nat \ {0}
       /\ c.kind = "paragraph" => c.spacing \in Int
       /\ c.kind = "resize" => /\ c.extent = [along |-> c.extent.along, across |-> c.extent.across]
                               /\ c.extent.along \in Int
  /\ MaxCommands \in Nat

-----------------------------------------------------------------------------
(* Validation                                                              *)

GraphemeBoundaries(t) ==
  {0, Utf16Length(t)} \cup {Utf16Offset(t, Graphemes(t)[g].start) : g \in DOMAIN Graphemes(t)}

\* Ranges that cover the text from its start to its end without a gap.
Tiles(ranges, t) ==
  /\ \A i \in DOMAIN ranges :
       /\ ranges[i].start = IF i = 1 THEN 0 ELSE ranges[i - 1].end
       /\ ValidateUtf16Range(t, ranges[i]) = "ok"
  /\ (IF ranges = <<>> THEN 0 ELSE Last(ranges).end) = Utf16Length(t)

ValidateTextBlock(b) ==
  LET ranges == [i \in DOMAIN b.runs |-> b.runs[i].range]
      complete ==
        \/ b.binding = "live"
        \/ /\ b.font # NoFace
           /\ b.glyphs # {}
           /\ b.text = <<>> \/ b.boxes # <<>>
      tiled ==
        /\ b.capacity = 0 \/ Len(b.boxes) <= b.capacity
        /\ Tiles(b.boxes, b.text)
        /\ \A i \in DOMAIN b.boxes :
             /\ b.boxes[i].start < b.boxes[i].end
             /\ {b.boxes[i].start, b.boxes[i].end} \subseteq GraphemeBoundaries(b.text)
  IN IF b.spacing <= 0 THEN "invalid_text_layout"
     ELSE IF \/ b.runs = <<>> \/ ~Tiles(ranges, b.text)
             \/ \E i \in DOMAIN b.runs : b.runs[i].style.size <= 0
     THEN "invalid_text_runs"
     ELSE IF b.boxes # <<>> /\ ~tiled THEN "invalid_character_geometry"
     ELSE IF b.binding # "none" /\ b.editable /\ ~complete THEN "incomplete_editable_text"
     ELSE IF ~b.editable /\ ~b.reason THEN "missing_capability_reason"
     ELSE "ok"

-----------------------------------------------------------------------------
(* The object commands                                                     *)

Deny(code) == [ok |-> FALSE, code |-> code]

Done(b) == [ok |-> TRUE, block |-> b]

Covers(glyphs, t) == ToSet(t) \subseteq glyphs

\* The approved font takes the place of the block's own, in every run.
WithFallback(b, approval) ==
  IF approval = NoApproval THEN b
  ELSE [b EXCEPT !.font = approval.font, !.glyphs = approval.glyphs,
                 !.runs = [i \in DOMAIN b.runs |-> [b.runs[i] EXCEPT !.style.family = approval.font]]]

ExpandTextBounds(extent, required, capacity) ==
  [extent EXCEPT !.along = (@ * required) \div capacity]

ApprovalCovers(approval, candidate) ==
  approval = NoApproval \/ (approval.sound /\ approval.glyphs # {} /\ Covers(approval.glyphs, candidate))

ReplaceText(b, c) ==
  IF ValidateUtf16Range(b.text, c.range) # "ok" THEN Deny("invalid_text_boundary") ELSE
  LET candidate == Splice(b.text, Utf16RangeToByteRange(b.text, c.range), c.replacement)
      fonted    == WithFallback(b, c.approval)
      required  == Len(Graphemes(candidate))
      overflows == b.capacity > 0 /\ required > b.capacity
  IN IF ~ApprovalCovers(c.approval, candidate) THEN Deny("invalid_command")
     ELSE IF fonted.font # NoFace /\ fonted.glyphs # {} /\ ~Covers(fonted.glyphs, candidate)
     THEN Deny("font_fallback_required")
     ELSE IF overflows /\ b.overflow = "Reject" THEN Deny("text_overflow")
     ELSE Done([fonted EXCEPT
              !.text = candidate,
              !.boxes = ReflowCharacterBoxes(candidate),
              !.runs = <<[range |-> Span(0, Utf16Length(candidate)), style |-> fonted.runs[1].style]>>,
              !.capacity = IF overflows THEN required ELSE @,
              !.extent = IF overflows THEN ExpandTextBounds(@, required, b.capacity) ELSE @])

\* The parts of a run before, inside and after the range.
SplitRun(run, r, style) ==
  IF run.range.end <= r.start \/ run.range.start >= r.end THEN <<run>>
  ELSE (IF run.range.start < r.start
        THEN <<[run EXCEPT !.range.end = r.start]>> ELSE <<>>)
       \o <<[range |-> Span(Max({run.range.start, r.start}), Min({run.range.end, r.end})),
             style |-> style]>>
       \o (IF run.range.end > r.end
           THEN <<[run EXCEPT !.range.start = r.end]>> ELSE <<>>)

SplitTextRuns(runs, r, style) == FlattenSeq([i \in DOMAIN runs |-> SplitRun(runs[i], r, style)])

SetTextStyle(b, c) ==
  IF ValidateUtf16Range(b.text, c.range) # "ok" THEN Deny("invalid_text_boundary")
  ELSE IF c.range.start = c.range.end THEN Deny("invalid_command")
  ELSE Done([b EXCEPT !.runs = SplitTextRuns(@, c.range, c.style)])

SetParagraphStyle(b, c) ==
  IF c.spacing <= 0 THEN Deny("invalid_command") ELSE Done([b EXCEPT !.spacing = c.spacing])

\* What fits into the new bounds, and never less than what is there.
ResizedCapacity(b, extent) ==
  LET current == IF b.capacity = 0 THEN Len(b.boxes) ELSE b.capacity
  IN IF current = 0 THEN b.capacity
     ELSE Max({(current * extent.along) \div b.extent.along, Len(b.boxes)})

ResizeObject(b, c) ==
  IF \E e \in {b.extent, c.extent} : e.along <= 0 \/ e.across <= 0 THEN Deny("invalid_command")
  ELSE Done([b EXCEPT
         !.transform = IF c.extent = b.extent THEN @ ELSE Append(@, <<b.extent, c.extent>>),
         !.extent = c.extent,
         !.capacity = ResizedCapacity(b, c.extent),
         !.boxes = ReflowCharacterBoxes(b.text)])

ApplyObjectCommand(b, c) ==
  IF ~b.editable THEN Deny("read_only") ELSE
  CASE c.kind = "replace"   -> ReplaceText(b, c)
    [] c.kind = "style"     -> SetTextStyle(b, c)
    [] c.kind = "paragraph" -> SetParagraphStyle(b, c)
    [] c.kind = "move"      -> Done([b EXCEPT !.transform = c.transform])
    [] c.kind = "resize"    -> ResizeObject(b, c)
    [] c.kind = "rotate"    -> IF c.finite THEN Done([b EXCEPT !.transform = Append(@, "rotated")])
                               ELSE Deny("invalid_command")

InitObject ==
  /\ imported \in SourceBlock
  /\ block = imported
  /\ commands = 0

EditObject(c) ==
  LET done == ApplyObjectCommand(block, c) IN
  /\ commands < MaxCommands
  /\ done.ok
  /\ block' = done.block
  /\ commands' = commands + 1
  /\ UNCHANGED imported

NextObject == \E c \in ObjectCommand : EditObject(c)

SpecObject == InitObject /\ [][NextObject]_objectVars

-----------------------------------------------------------------------------
(* What an edit is described by                                            *)

PatchParts == {"text", "runs", "boxes", "font", "extent", "transform"}

\* What the scene is told: the parts that differ, and never that a font is gone.
ObjectPatch(before, after) ==
  [part \in {p \in PatchParts : before[p] # after[p] /\ (p = "font" => after.font # NoFace)} |-> after[part]]

TextOperation(before, after) ==
  [kind |-> "replace_text", expected |-> before.text, text |-> after.text]

TransformOperation(before, after) ==
  [kind |-> "set_transform", expected |-> before.transform, transform |-> after.transform,
   old |-> before.extent, new |-> after.extent]

Operations(before, after) ==
  (IF before.text # after.text THEN <<TextOperation(before, after)>> ELSE <<>>)
    \o (IF before.transform # after.transform \/ before.extent # after.extent
        THEN <<TransformOperation(before, after)>> ELSE <<>>)

\* What the live PDF is told, and what takes it back.
PhysicalPlan(before, after) ==
  IF after.binding = "none" THEN [operations |-> <<>>, inverse |-> <<>>]
  ELSE [operations |-> Operations(before, after),
        inverse    |-> IF Operations(before, after) = <<>> THEN <<>> ELSE Operations(after, before)]

-----------------------------------------------------------------------------
(* Properties                                                              *)

\* A block that import made valid stays valid under every sequence of
\* commands: its runs and boxes tile the text at grapheme boundaries and fit
\* its capacity, so that a snapshot of it can be restored
\* (model.rs, validate_text_block).
EditedBlocksStayValid == ValidateTextBlock(block) = "ok"

\* Text that was edited can be drawn: a font whose glyphs are known has one
\* for every character, also for those that were there before
\* (session.rs, the candidate of ReplaceText).
EditedTextHasGlyphs ==
  (block.font # NoFace /\ block.glyphs # {}) => ToSet(block.text) \subseteq block.glyphs

Patched(b, patch) ==
  [part \in PatchParts |-> IF part \in DOMAIN patch THEN patch[part] ELSE b[part]]

\* Who has a block and applies the patch of an edit shows the edited block,
\* and the patch of its undo brings the block back, but for a font that the
\* block did not have.
PatchesCarryTheEdit ==
  \A pair \in {<<imported, block>>, <<block, imported>>} :
    LET shown == Patched(pair[1], ObjectPatch(pair[1], pair[2])) IN
    /\ \A part \in PatchParts \ {"font"} : shown[part] = pair[2][part]
    /\ pair[2].font # NoFace => shown.font = pair[2].font

\* An object of the live PDF after an operation, which must find what it
\* expects, and after several.
Perform(p, o) ==
  CASE p.failed -> p
    [] ~p.failed /\ o.kind = "replace_text" ->
         [p EXCEPT !.failed = o.expected # p.text, !.text = o.text]
    [] ~p.failed /\ o.kind = "set_transform" ->
         [p EXCEPT !.failed = o.expected # p.transform \/ o.old # p.extent,
                   !.transform = o.transform, !.extent = o.new]

Performed(physical, operations) ==
  LET after[n \in 0 .. Len(operations)] ==
        IF n = 0 THEN physical ELSE Perform(after[n - 1], operations[n])
  IN after[Len(operations)]

Physical(b) ==
  [failed |-> FALSE, text |-> b.text, transform |-> b.transform, extent |-> b.extent]

\* The plan of an edit takes the live object from what the block was to what
\* it is, its inverse takes it back, and no operation of them meets an object
\* it does not expect.
PlansReachTheEdit ==
  block.binding # "none" =>
    LET plan == PhysicalPlan(imported, block) IN
    /\ Performed(Physical(imported), plan.operations) = Physical(block)
    /\ Performed(Physical(block), plan.inverse) = Physical(imported)

\* An edited block is a whole one: valid, with a glyph for every character,
\* and what it became is what the scene and the live PDF are told
\* (session.rs, apply_object_command).
EditsAreWhole ==
  /\ EditedBlocksStayValid
  /\ EditedTextHasGlyphs
  /\ PatchesCarryTheEdit
  /\ PlansReachTheEdit
=============================================================================
