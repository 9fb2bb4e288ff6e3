---------------------------- MODULE PdfAnnotations ----------------------------
(***************************************************************************)
(* Bookmarks and highlights of a PDF: how they are read from its outline   *)
(* and its annotation lists, and how a save merges a request into them     *)
(* (pdf_annotations.rs).                                                   *)
(*                                                                         *)
(* Data abstraction: a document has an outline root, outline nodes and     *)
(* annotations by their object id; a reference always resolves.  A quad is *)
(* the box it fills.  Dash for a missing reference or name; page 0 for a   *)
(* node without a title or a destination on a page.                        *)
(***************************************************************************)
EXTENDS Integers, SequencesExt, FiniteSetsExt

CONSTANT Dash

NoRoot == [first |-> Dash, last |-> Dash, exists |-> FALSE]

Denied(code) == [ok |-> FALSE, code |-> code]

Accept(doc) == [ok |-> TRUE, doc |-> doc]

-----------------------------------------------------------------------------
(* Reading                                                                 *)

\* The nodes of an outline in document order; a node met before ends its chain.
RECURSIVE CollectOutlineChain(_, _, _)
CollectOutlineChain(nodes, id, seen) ==
  IF id = Dash \/ id \in ToSet(seen) THEN seen
  ELSE CollectOutlineChain(nodes, nodes[id].next,
                           CollectOutlineChain(nodes, nodes[id].first, Append(seen, id)))

OutlineNodes(doc) == CollectOutlineChain(doc.nodes, doc.root.first, <<>>)

NameOf(name, native, id) == IF name = Dash THEN <<native, id>> ELSE name

ReadBookmarks(doc) ==
  LET shown == SelectSeq(OutlineNodes(doc), LAMBDA id : doc.nodes[id].page # 0)
  IN [k \in DOMAIN shown |->
        [id    |-> NameOf(doc.nodes[shown[k]].name, "native-outline", shown[k]),
         title |-> doc.nodes[shown[k]].title,
         page  |-> doc.nodes[shown[k]].page]]

\* The highlights of a page: of a list that is in the page itself.
PageHighlights(doc, page) ==
  IF doc.annots[page].indirect THEN <<>>
  ELSE SelectSeq(doc.annots[page].items, LAMBDA id : doc.objects[id].subtype = "Highlight")

ReadHighlights(doc) ==
  FlattenSeq([page \in DOMAIN doc.annots |->
    LET ids == PageHighlights(doc, page)
    IN [k \in DOMAIN ids |->
          [id   |-> NameOf(doc.objects[ids[k]].name, "native-highlight", ids[k]),
           page |-> page,
           look |-> doc.objects[ids[k]].look]]])

-----------------------------------------------------------------------------
(* Saving                                                                  *)

\* The node, or the highlight, of that name; the last one of several.
Bearing(ids, table, name) ==
  LET of == SelectSeq(ids, LAMBDA id : table[id].name = name)
  IN IF of = <<>> THEN Dash ELSE Last(of)

NewId(table) == Max(DOMAIN table \cup {0}) + 1

EnsureOutlinesRoot(doc) ==
  IF doc.root.exists THEN doc ELSE [doc EXCEPT !.root = [NoRoot EXCEPT !.exists = TRUE]]

\* A new node after the last one of the outline; the first one where the root
\* does not say which is the last.
AppendBookmark(doc, bookmark) ==
  LET id   == NewId(doc.nodes)
      node == [name |-> bookmark.id, title |-> bookmark.title, page |-> bookmark.page,
               first |-> Dash, next |-> Dash]
      last == doc.root.last
      added == [doc EXCEPT !.nodes = (id :> node) @@ @, !.root.last = id]
  IN IF last = Dash THEN [added EXCEPT !.root.first = id]
     ELSE [added EXCEPT !.nodes[last].next = id]

MergeBookmarks(doc, bookmarks) ==
  LET Existing(b) == Bearing(OutlineNodes(doc), doc.nodes, b.id)
      Update(d, b) ==
        IF Existing(b) = Dash THEN d
        ELSE [d EXCEPT !.nodes[Existing(b)].title = b.title, !.nodes[Existing(b)].page = b.page]
      additions == SelectSeq(bookmarks, LAMBDA b : Existing(b) = Dash)
      updated   == FoldLeft(Update, doc, bookmarks)
  IN IF \E i \in DOMAIN bookmarks : bookmarks[i].page \notin DOMAIN doc.annots
     THEN Denied("bookmark_page")
     ELSE Accept(IF additions = <<>> THEN updated
                ELSE FoldLeft(AppendBookmark, EnsureOutlinesRoot(updated), additions))

Hull(boxes) ==
  [left |-> Min({b.left : b \in boxes}), right |-> Max({b.right : b \in boxes})]

\* Quads from the box where there are none, and the box around the quads.
SetHighlightGeometry(look) ==
  LET quads == IF look.quads = <<>> THEN <<look.box>> ELSE look.quads
  IN [look EXCEPT !.quads = quads, !.box = Hull(ToSet(quads))]

AppendHighlight(doc, h) ==
  LET id  == NewId(doc.objects)
      new == [subtype |-> "Highlight", name |-> h.id, look |-> SetHighlightGeometry(h.look)]
      list == doc.annots[h.page]
  IN [doc EXCEPT
        !.objects = (id :> new) @@ @,
        !.annots[h.page] =
          [indirect |-> FALSE, items |-> IF list.indirect THEN <<id>> ELSE Append(list.items, id)]]

\* The highlight of that name gets the new look and stays where it is.
MergeHighlights(doc, highlights) ==
  LET ids == FlattenSeq([page \in DOMAIN doc.annots |-> PageHighlights(doc, page)])
      Existing(h) == Bearing(ids, doc.objects, h.id)
      Merge(r, h) ==
        IF ~r.ok THEN r
        ELSE IF Existing(h) # Dash
        THEN Accept([r.doc EXCEPT !.objects[Existing(h)].look = SetHighlightGeometry(h.look)])
        ELSE IF h.page \notin DOMAIN doc.annots THEN Denied("highlight_page")
        ELSE Accept(AppendHighlight(r.doc, h))
  IN FoldLeft(Merge, Accept(doc), highlights)

SaveAnnotations(doc, request) ==
  IF doc.encrypted THEN Denied("encrypted") ELSE
  LET merged == MergeBookmarks(doc, request.bookmarks)
  IN IF ~merged.ok THEN merged ELSE MergeHighlights(merged.doc, request.highlights)
=============================================================================
