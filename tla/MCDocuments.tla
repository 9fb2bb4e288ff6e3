------------------------------ MODULE MCDocuments ------------------------------
(***************************************************************************)
(* What is made of a document outside a session, on bounded inputs: a step *)
(* picks an input, and each property compares what the code makes of it    *)
(* with a definition of its own.  And blocks of text with the commands on  *)
(* them, whose steps are those of TextObject.                              *)
(***************************************************************************)
EXTENDS TextObject, PdfAnnotations, PdfCompose

VARIABLE case

Start == [kind |-> "start"]

\* What the next input is of.
Ask(topic) == [kind |-> "ask", topic |-> topic]

Take(input) == case' = input

-----------------------------------------------------------------------------
(* Blocks and commands                                                     *)

BlockTexts == SeqOf({"a", "acute", "pair"}, 2)

Small == [along |-> 60, across |-> 10]

Large == [along |-> 120, across |-> 10]

AllGlyphs == {"a", "e", "acute", "pair"}

MCSourceBlock ==
  {[ImportedBlock(t, Small, "F", ToSet(t) \cup {"a"}) EXCEPT !.overflow = o] :
     t \in BlockTexts, o \in {"Reject", "IncreaseBounds"}} \cup
  {LiveBlock(t, Small, TRUE) : t \in BlockTexts}

Approvals ==
  {NoApproval} \cup [font : {"G"}, glyphs : {AllGlyphs, {"a"}}, sound : BOOLEAN]

\* Two characters of two units and the longest replacement.
Spans == {Span(i, j) : i, j \in 0 .. 7}

MCObjectCommand ==
  [kind : {"replace"}, range : Spans, approval : Approvals,
   replacement : {<<>>, <<"a">>, <<"acute">>, <<"e", "pair">>}] \cup
  [kind : {"style"}, range : Spans, style : {[size |-> 20, family |-> NoFace]}] \cup
  [kind : {"paragraph"}, spacing : 0 .. 2] \cup
  [kind : {"move"}, transform : {<<"moved">>}] \cup
  [kind : {"resize"}, extent : {Small, Large, [along |-> 20, across |-> 5], [along |-> 0, across |-> 5]}] \cup
  [kind : {"rotate"}, finite : BOOLEAN]

-----------------------------------------------------------------------------
(* Annotations                                                             *)

Quad(l, r) == [left |-> l, right |-> r]

Looks == {[box |-> Quad(1, 2), quads |-> <<>>],
          [box |-> Quad(1, 2), quads |-> <<Quad(3, 4), Quad(1, 2)>>]}

OutlineNode(name, page, first, next) ==
  [name |-> name, title |-> "old", page |-> page, first |-> first, next |-> next]

Root(first, last) == [first |-> first, last |-> last, exists |-> TRUE]

\* Without an outline, a flat one, and one with a child; the second node is
\* without a name or without a page.
Outlines ==
  {[root |-> NoRoot, nodes |-> << >>]} \cup
  {[root |-> Root(1, shape.last),
    nodes |-> <<OutlineNode(<<"b", 1>>, 1, shape.first, shape.next),
                OutlineNode(second.name, second.page, Dash, Dash)>>] :
     shape \in {[first |-> 2, next |-> Dash, last |-> 1], [first |-> Dash, next |-> 2, last |-> 2]},
     second \in {[name |-> <<"b", 2>>, page |-> 2], [name |-> Dash, page |-> 2],
                 [name |-> Dash, page |-> 0]}}

AnnotationObjects ==
  <<[subtype |-> "Highlight", name |-> <<"h", 1>>, look |-> [box |-> Quad(5, 6), quads |-> <<Quad(5, 6)>>]],
    [subtype |-> "Link", name |-> Dash, look |-> [box |-> Quad(7, 8), quads |-> <<>>]]>>

Annots ==
  {<<[indirect |-> i, items |-> s], [indirect |-> FALSE, items |-> <<>>]>> :
     i \in BOOLEAN, s \in {<<1, 2>>, <<2>>, <<>>}}

Documents ==
  {[root |-> o.root, nodes |-> o.nodes, annots |-> a, objects |-> AnnotationObjects, encrypted |-> FALSE] :
     o \in Outlines, a \in Annots}

RequestedBookmarks ==
  {s \in SeqOf([id : {<<"b", 1>>, <<"b", 2>>, <<"b", 3>>}, title : {"new"}, page : 1 .. 3], 2) :
     IsInjective([i \in DOMAIN s |-> s[i].id])}

\* A highlight of the request stays on the page it was made on.
RequestedHighlights ==
  {s \in SeqOf({[id |-> <<"h", i>>, page |-> i, look |-> look] : i \in 1 .. 3, look \in Looks}, 2) :
     IsInjective([i \in DOMAIN s |-> s[i].id])}

Annotate ==
  /\ case = Ask("annotate")
  /\ \E doc \in Documents, bookmarks \in RequestedBookmarks, highlights \in RequestedHighlights :
       Take([kind |-> "annotate", doc |-> doc,
             request |-> [bookmarks |-> bookmarks, highlights |-> highlights]])

Saved == SaveAnnotations(case.doc, case.request)

\* The items of a list with those of a request in the place of the ones they
\* name, and the other ones of the request after them.
Overlaid(items, request, Shown(_)) ==
  LET Requested(id) == {i \in DOMAIN request : request[i].id = id}
      Kept(id) == \E i \in DOMAIN items : items[i].id = id
  IN [i \in DOMAIN items |-> IF Requested(items[i].id) = {} THEN items[i]
                             ELSE Shown(request[CHOOSE k \in Requested(items[i].id) : TRUE])]
     \o LET new == SelectSeq(request, LAMBDA r : ~Kept(r.id))
        IN [i \in DOMAIN new |-> Shown(new[i])]

OnPage(items, page) == SelectSeq(items, LAMBDA h : h.page = page)

\* Reading a saved document gives what was read before with the request laid
\* over it: nothing twice, nothing reordered, children and unnamed nodes kept,
\* quads and their box in agreement; and saving it again changes nothing.
SavedAnnotationsReadBack ==
  (case.kind = "annotate" /\ Saved.ok) =>
    LET doc  == Saved.doc
        AsIs(b) == b
        Drawn(h) == [h EXCEPT !.look = SetHighlightGeometry(@)]
    IN /\ ReadBookmarks(doc) = Overlaid(ReadBookmarks(case.doc), case.request.bookmarks, AsIs)
       /\ \A page \in DOMAIN doc.annots :
            OnPage(ReadHighlights(doc), page) =
              Overlaid(OnPage(ReadHighlights(case.doc), page),
                       OnPage(case.request.highlights, page), Drawn)
       /\ SaveAnnotations(doc, case.request) = Saved

\* Everything on a page's annotation list is still on it after a save.
UnrelatedAnnotationsSurvive ==
  (case.kind = "annotate" /\ Saved.ok) =>
    \A page \in DOMAIN case.doc.annots :
      ToSet(case.doc.annots[page].items) \subseteq ToSet(Saved.doc.annots[page].items)

-----------------------------------------------------------------------------
(* Composition                                                             *)

\* Three pages of a tree with an inner node: the first has its own size, the
\* second inherits from the inner node, the third from the root.
OwnOf(size, rotate) == [size |-> size, rotate |-> rotate]

Tree(tag) ==
  [encrypted |-> FALSE, pages |-> <<4, 7, 6>>,
   objects |-> (1 :> Node(Absent, OwnOf(10, 11), Absent)) @@
               (3 :> Node(1, OwnOf(12, Absent), Absent)) @@
               (4 :> Node(3, OwnOf(13, Absent), 14)) @@
               (6 :> Node(1, OwnOf(Absent, Absent), 15)) @@
               (7 :> Node(3, OwnOf(Absent, Absent), 15)) @@
               [id \in 10 .. 15 |-> Payload(<<tag, id>>)]]

Single(tag) ==
  [encrypted |-> FALSE, pages |-> <<2>>,
   objects |-> (1 :> Node(Absent, OwnOf(Absent, Absent), Absent)) @@ (2 :> Node(1, OwnOf(3, Absent), 4)) @@
               [id \in 3 .. 4 |-> Payload(<<tag, id>>)]]

Disk ==
  [files |-> (<<"a">> :> Tree("a")) @@ (<<"b">> :> Single("b")) @@
             (<<"c">> :> [Single("c") EXCEPT !.encrypted = TRUE]) @@
             (<<"out">> :> Single("out")),
   links |-> (<<"link">> :> <<"a">>)]

SourcePaths == {<<"a">>, <<"b">>, <<"c">>, <<"link">>, <<"out", "partial">>}

PageNumbers == {<<>>, <<1>>, <<3, 2>>, <<2, 2>>, <<4>>}

ComposeRequests ==
  [sources : SeqOf([path : SourcePaths, numbers : PageNumbers], 2) \cup
             {<<[path |-> <<"b">>, numbers |-> <<1>>], [path |-> <<"a">>, numbers |-> <<3, 2>>],
                [path |-> <<"link">>, numbers |-> <<>>]>>},
   output : {<<"new">>, <<"out">>, <<"a">>, <<"link">>}]

Combine ==
  /\ case = Ask("compose")
  /\ \E request \in ComposeRequests, fault \in {"none", "save", "rename"} :
       Take([kind |-> "compose", request |-> request, fault |-> fault])

Combined == ComposePdfs(Disk, case.request, case.fault)

\* What is seen of a page: the values it has or inherits, and its content.
LookOfPage(doc, page) ==
  LET ValueOf(id) == IF id = Absent THEN Absent ELSE doc.objects[id].value IN
  [content |-> ValueOf(doc.objects[page].content),
   attributes |-> [key \in Attribute |-> ValueOf(InheritedPageAttribute(doc.objects, page, key))]]

\* A composed document shows the requested pages of its sources in the order
\* of the request, each as it looks in its source: with the size and the
\* rotation it inherited there, and whatever ids the objects had.
ComposedPagesLookTheSame ==
  (case.kind = "compose" /\ Combined.ok) =>
    LET result == Combined.disk.files[case.request.output]
        PagesOf(source) ==
          LET doc == Opened(Disk)[source.path]
              numbers == RequestedPages(doc, source.numbers)
          IN [i \in 1 .. Len(numbers) |-> LookOfPage(doc, doc.pages[numbers[i]])]
    IN [i \in 1 .. Len(result.pages) |-> LookOfPage(result, result.pages[i])] =
         FoldLeft(LAMBDA looks, source : looks \o PagesOf(source), <<>>, case.request.sources)

\* Composing changes no source, by whatever name it is given, and a failure
\* changes nothing that a path leads to but a partial output.
SourcesStayAsTheyAre ==
  case.kind = "compose" =>
    LET before == Opened(Disk)
        after  == Opened(Combined.disk)
        sources == {case.request.sources[i].path : i \in DOMAIN case.request.sources}
    IN \A path \in DOMAIN before :
         (path \in sources \/ ~Combined.ok) =>
           path \in DOMAIN after /\ after[path] = before[path]

\* A file that is written holds what was asked for, read back or looked at,
\* and no other file is changed (pdf_annotations.rs, pdf_compose.rs).
WrittenFilesReadBack ==
  /\ SavedAnnotationsReadBack
  /\ ComposedPagesLookTheSame
  /\ SourcesStayAsTheyAre

DocumentInput == Annotate \/ Combine
=============================================================================
