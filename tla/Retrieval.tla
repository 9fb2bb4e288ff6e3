------------------------------ MODULE Retrieval ------------------------------
(***************************************************************************)
(* Local retrieval: a page's text cut into chunks (lib.rs), and the vector *)
(* index of a document's chunks, an index file and a manifest that are     *)
(* replaced one after the other (rag.rs, api.rs).                          *)
(*                                                                         *)
(* Data abstraction: the letters of a page are numbered, so that a chunk   *)
(* is a sequence of numbers and spaces; the vector of a chunk is its text. *)
(* One document is built by one call at a time (the retriever of the app), *)
(* documents that share the file names (safe_file_stem) at once.  Versions,*)
(* dimensions and metric never change within one program; the embedding    *)
(* model is external, and a query reads both files in one step.            *)
(***************************************************************************)
EXTENDS Integers, Sequences, FiniteSets

CONSTANTS
  Space,        \* the separator of the words of a chunk
  ChunkSizes,   \* max_chars_per_chunk, as it is asked for
  MaxWord,      \* bound: letters of a word
  MaxWords,     \* bound: words of a page
  Document,     \* what is indexed: a fingerprint and chunks
  NoFile        \* an index or a manifest that does not exist or cannot be read

ASSUME RetrievalAssumption ==
  /\ Space \notin Nat
  /\ ChunkSizes \subseteq Nat \ {0}
  /\ MaxWord \in Nat /\ MaxWords \in Nat
  /\ \A document \in Document :
       /\ Len(document.chunks) \in Nat
       /\ DOMAIN document.chunks = 1 .. Len(document.chunks)
  /\ NoFile \notin Document

-----------------------------------------------------------------------------
(* Chunks                                                                  *)

VARIABLES
  size,         \* max_chars_per_chunk
  letters,      \* how many were read,
  wordEnds,     \* and which of them end a word
  closed,       \* chunks,
  current       \* and the one that is still open

splitVars == <<size, letters, wordEnds, closed, current>>

InitSplit ==
  /\ size \in ChunkSizes
  /\ letters = 0
  /\ wordEnds = {}
  /\ closed = <<>>
  /\ current = <<>>

\* The letters from..to.
Run(from, to) == [i \in 1 .. to - from + 1 |-> from + i - 1]

\* What split_text_chunks returns if the page ends here.
Chunks == IF current = <<>> THEN closed ELSE Append(closed, current)

\* The pieces of a word longer than a chunk; what is left of it stays open.
Pieces(length) == [i \in 1 .. length \div size |-> Run(letters + (i - 1) * size + 1, letters + i * size)]

Rest(length) == Run(letters + (length \div size) * size + 1, letters + length)

HasRoom(length) == Len(current) + 1 + length <= size

\* One round of split_text_chunks, for a word of that length.
AddWord(length) ==
  /\ Cardinality(wordEnds) < MaxWords
  /\ CASE current # <<>> /\ HasRoom(length) ->
            /\ current' = current \o <<Space>> \o Run(letters + 1, letters + length)
            /\ UNCHANGED closed
       [] (current = <<>> \/ ~HasRoom(length)) /\ length > size ->
            /\ closed' = Chunks \o Pieces(length)
            /\ current' = Rest(length)
       [] OTHER ->
            /\ closed' = Chunks
            /\ current' = Run(letters + 1, letters + length)
  /\ letters' = letters + length
  /\ wordEnds' = wordEnds \cup {letters + length}
  /\ UNCHANGED size

NextSplit == \E length \in 1 .. MaxWord : AddWord(length)

SpecSplit == InitSplit /\ [][NextSplit]_splitVars

-----------------------------------------------------------------------------
(* The index                                                               *)

VARIABLES
  files,        \* the index and the manifest of the file names
  building,     \* the builds under way: which documents, and how many files they have replaced
  indexed,      \* the document whose vectors were written last,
  finished      \* and the one whose build came to its end last

indexVars == <<files, building, indexed, finished>>

Ids(document) == [i \in DOMAIN document.chunks |-> document.chunks[i].id]

TextsOf(document) == [i \in DOMAIN document.chunks |-> document.chunks[i].text]

RagManifest(document) == [fingerprint |-> document.fingerprint, ids |-> Ids(document)]

InitIndex ==
  /\ files = [index |-> NoFile, manifest |-> NoFile]
  /\ building = [document \in {} |-> 0]
  /\ indexed = NoFile
  /\ finished = NoFile

\* validate_manifest and validate_index: the ids one by one, the vectors by
\* their number only.
ValidateExisting(document) ==
  /\ files.manifest # NoFile
  /\ files.manifest = RagManifest(document)
  /\ files.index # NoFile
  /\ Len(files.index) = Len(Ids(document))

\* local_rag_index: what is there is loaded when it is valid, and built anew
\* otherwise; the vectors are computed before a file is touched.
LocalRagIndex(document) ==
  /\ \A other \in DOMAIN building : other.fingerprint # document.fingerprint
  /\ ~ValidateExisting(document)
  /\ document.chunks # <<>>
  /\ building' = [d \in DOMAIN building \cup {document} |-> IF d = document THEN 0 ELSE building[d]]
  /\ UNCHANGED <<files, indexed, finished>>

StillBuilding(document) == [d \in DOMAIN building \ {document} |-> building[d]]

\* Mutant: the manifest is replaced before the index.
ManifestFirst == <<"manifest", "index">>

\* The files in the order in which they are renamed into place.
FileOrder == <<"index", "manifest">>

ReplaceFile(document) ==
  LET file == FileOrder[building[document] + 1] IN
  /\ document \in DOMAIN building
  /\ files' = [files EXCEPT ![file] = IF file = "index" THEN TextsOf(document) ELSE RagManifest(document)]
  /\ indexed' = IF file = "index" THEN document ELSE indexed
  /\ IF building[document] = 0
     THEN /\ building' = [building EXCEPT ![document] = 1]
          /\ UNCHANGED finished
     ELSE /\ building' = StillBuilding(document)
          /\ finished' = document

\* An error, or the end of the process.
BuildStops(document) ==
  /\ document \in DOMAIN building
  /\ building' = StillBuilding(document)
  /\ UNCHANGED <<files, indexed, finished>>

\* A file is deleted or damaged.
LoseFile(file) ==
  /\ files' = [files EXCEPT ![file] = NoFile]
  /\ UNCHANGED <<building, indexed, finished>>

NextIndex ==
  \/ \E document \in Document : LocalRagIndex(document) \/ ReplaceFile(document) \/ BuildStops(document)
  \/ \E file \in {"index", "manifest"} : LoseFile(file)

SpecIndex == InitIndex /\ [][NextIndex]_indexVars

\* local_rag_query: the ids of the chunks whose vector is nearest, here the
\* query's own text; no answer when the files are not those of the ids.
LocalRagQuery(document, query) ==
  IF ValidateExisting(document)
  THEN {files.manifest.ids[key] : key \in {k \in DOMAIN files.index : files.index[k] = query}}
  ELSE {}

-----------------------------------------------------------------------------
(* Properties                                                              *)

\* The chunk begins and ends with a letter and is no longer than asked for;
\* inside it every letter is followed by the next one of the page, after one
\* space where a word ends and without it elsewhere.
HoldsItsLetters(chunk) ==
  /\ Len(chunk) \in 1 .. size
  /\ \A i \in DOMAIN chunk :
       IF chunk[i] = Space
       THEN /\ i - 1 \in DOMAIN chunk /\ i + 1 \in DOMAIN chunk
            /\ chunk[i - 1] \in wordEnds
            /\ chunk[i + 1] = chunk[i - 1] + 1
       ELSE i + 1 \in DOMAIN chunk =>
              IF chunk[i] \in wordEnds THEN chunk[i + 1] = Space ELSE chunk[i + 1] = chunk[i] + 1

LastLetter(chunk) == chunk[Len(chunk)]

\* The chunks of a page are its text, nothing lost, repeated or reordered,
\* wherever the page ends, and a word is cut only where it is longer than a
\* chunk: into pieces of the full size (lib.rs, split_text_chunks).
ChunksKeepTheText ==
  /\ \A i \in DOMAIN Chunks :
       /\ HoldsItsLetters(Chunks[i])
       /\ Chunks[i][1] = IF i = 1 THEN 1 ELSE LastLetter(Chunks[i - 1]) + 1
       /\ LastLetter(Chunks[i]) \in wordEnds \/ Len(Chunks[i]) = size
  /\ letters = IF Chunks = <<>> THEN 0 ELSE LastLetter(Chunks[Len(Chunks)])

\* The chunks of a document that have this text.
TheirChunks(document, query) ==
  {document.chunks[i].id : i \in {j \in DOMAIN document.chunks : document.chunks[j].text = query}}

\* A query is answered only for the ids of the build that finished last,
\* wherever others have stopped and whichever ran at once.  Where the vectors
\* are of the document that is asked for, and always after a build that nobody
\* disturbed, the answers are the chunks of that text (rag.rs, build, query).
AnswersAreTheirChunks ==
  \A document \in Document :
    \A query \in {TextsOf(document)[i] : i \in DOMAIN document.chunks} :
      LET answers == LocalRagQuery(document, query) IN
      /\ answers # {} => finished # NoFile /\ RagManifest(document) = RagManifest(finished)
      /\ document = indexed => answers \subseteq TheirChunks(document, query)
      /\ (document = indexed /\ document = finished /\ NoFile \notin {files.index, files.manifest}) =>
            answers = TheirChunks(document, query)

\* Retrieval answers with text of the document: nothing is lost when a page is
\* cut, nothing is mistaken when a chunk is found (lib.rs, rag.rs).
RetrievalKeepsTheText == ChunksKeepTheText /\ AnswersAreTheirChunks
=============================================================================
