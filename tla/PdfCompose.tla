------------------------------ MODULE PdfCompose ------------------------------
(***************************************************************************)
(* Pages of several PDFs put together in a new one (pdf_compose.rs).       *)
(*                                                                         *)
(* Data abstraction: a document has objects by id.  A page has a parent,   *)
(* its own attributes and a content, a node of the page tree a parent and  *)
(* attributes to inherit; attributes and contents are ids of objects with  *)
(* a value.  A path stands for the document or, as a link, for another     *)
(* path.  A path is a sequence of names, its partial file has one more.     *)
(***************************************************************************)
EXTENDS Integers, SequencesExt, FiniteSetsExt

CONSTANTS Attribute, Absent

\* Attributes are told from the absence of one.
ASSUME AbsentAssumption == IsFiniteSet(Attribute) /\ Absent \notin Attribute

Node(parent, own, content) == [parent |-> parent, own |-> own, content |-> content, value |-> Absent]

NoAttributes == [key \in Attribute |-> Absent]

Payload(value) == [parent |-> Absent, own |-> NoAttributes, content |-> Absent, value |-> value]

MaxId(objects) == Max(DOMAIN objects \cup {0})

Undone(code) == [ok |-> FALSE, code |-> code]

-----------------------------------------------------------------------------
(* One source                                                              *)

\* Gives every source the ids from 1 on.
RenumberFromOne(doc, start) == doc

\* The objects under ids from start on, in the order of their old ids.
RenumberObjectsWith(doc, start) ==
  LET New(id) == IF id = Absent THEN Absent
                 ELSE start + Cardinality({other \in DOMAIN doc.objects : other < id})
      Old == [id \in {New(o) : o \in DOMAIN doc.objects} |->
                CHOOSE o \in DOMAIN doc.objects : New(o) = id]
  IN [doc EXCEPT
        !.pages = [i \in DOMAIN doc.pages |-> New(doc.pages[i])],
        !.objects = [id \in DOMAIN Old |->
                       LET object == doc.objects[Old[id]]
                       IN [object EXCEPT !.parent = New(@), !.content = New(@),
                                         !.own = [key \in Attribute |-> New(@[key])]]]]

\* The nearest value on the way up the page tree; a cycle ends the way.
RECURSIVE InheritedFrom(_, _, _, _)
InheritedFrom(objects, id, key, visited) ==
  IF id = Absent \/ id \in visited THEN Absent
  ELSE IF objects[id].own[key] # Absent THEN objects[id].own[key]
  ELSE InheritedFrom(objects, objects[id].parent, key, visited \cup {id})

InheritedPageAttribute(objects, page, key) == InheritedFrom(objects, page, key, {})

\* The selected pages get what they inherit as their own.
MaterializeInheritedPageAttributes(objects, pages) ==
  [id \in DOMAIN objects |->
     IF id \notin pages THEN objects[id]
     ELSE [objects[id] EXCEPT !.own = [key \in Attribute |-> InheritedPageAttribute(objects, id, key)]]]

RequestedPages(doc, numbers) ==
  IF numbers = <<>> THEN [i \in DOMAIN doc.pages |-> i] ELSE numbers

\* The objects and the selected pages of a source join those of the others.
AddSource(files, done, source) ==
  IF ~done.ok THEN done
  ELSE IF source.path \notin DOMAIN files THEN Undone("open")
  ELSE IF files[source.path].encrypted THEN Undone("encrypted") ELSE
  LET doc     == RenumberObjectsWith(files[source.path], done.next)
      numbers == RequestedPages(doc, source.numbers)
      pages   == [i \in DOMAIN numbers |-> doc.pages[numbers[i]]]
  IN IF doc.pages = <<>> THEN Undone("no_pages")
     ELSE IF ~IsInjective(numbers) THEN Undone("selected_twice")
     ELSE IF ~(ToSet(numbers) \subseteq DOMAIN doc.pages) THEN Undone("outside")
     ELSE [done EXCEPT
             !.next = MaxId(doc.objects) + 1,
             !.selected = @ \o pages,
             !.objects = MaterializeInheritedPageAttributes(doc.objects, ToSet(pages)) @@ @]

-----------------------------------------------------------------------------
(* The whole                                                               *)

\* A page tree of one node over the selected pages, and a catalog.
UnderOneNode(done) ==
  LET root == MaxId(done.objects) + 1
      kids == ToSet(done.selected)
  IN [pages |-> done.selected, encrypted |-> FALSE,
      objects |-> (root :> Node(Absent, NoAttributes, Absent)) @@ (root + 1 :> Payload("catalog")) @@
                  [id \in DOMAIN done.objects |->
                     IF id \in kids THEN [done.objects[id] EXCEPT !.parent = root]
                     ELSE done.objects[id]]]

\* The file that a path leads to.
Canonical(disk, path) == IF path \in DOMAIN disk.links THEN disk.links[path] ELSE path

Opened(disk) ==
  [path \in {p \in DOMAIN disk.files \cup DOMAIN disk.links : Canonical(disk, p) \in DOMAIN disk.files} |->
     disk.files[Canonical(disk, path)]]

PathsReferToSameFile(disk, a, b) ==
  \/ a = b
  \/ /\ {a, b} \subseteq DOMAIN Opened(disk)
     /\ Canonical(disk, a) = Canonical(disk, b)

Without(f, key) == [k \in DOMAIN f \ {key} |-> f[k]]

Unlink(disk, path) == [files |-> Without(disk.files, path), links |-> Without(disk.links, path)]

\* The result is written beside the output and takes its name.
ComposePdfs(disk, request, fault) ==
  LET partial == Append(request.output, "partial")
      done == FoldLeft(LAMBDA d, s : AddSource(Opened(disk), d, s),
                       [ok |-> TRUE, next |-> 1, selected |-> <<>>, objects |-> << >>],
                       request.sources)
      Failed(code, after) == [ok |-> FALSE, code |-> code, disk |-> after]
      cleared == Unlink(disk, partial)
  IN IF request.sources = <<>> THEN Failed("no_source", disk)
     ELSE IF \E i \in DOMAIN request.sources : \E path \in {request.output, partial} :
               PathsReferToSameFile(disk, request.sources[i].path, path)
     THEN Failed("same_file", disk)
     ELSE IF ~done.ok THEN Failed(done.code, disk)
     ELSE IF fault # "none" THEN Failed(fault, cleared)
     ELSE [ok |-> TRUE, disk |->
             [cleared EXCEPT !.files = (request.output :> UnderOneNode(done)) @@ @,
                             !.links = Without(@, request.output)]]
=============================================================================
