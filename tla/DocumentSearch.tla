--------------------------- MODULE DocumentSearch ---------------------------
(***************************************************************************)
(* What an import writes to the vector index, chunk by chunk, and what a   *)
(* chat request gets out of it.  StoreDocumentCommandHandler goes through  *)
(* the pages of a document, splits each into paragraphs, numbers the       *)
(* chunks through the whole document, and upserts all of them; a search,   *)
(* at any time, returns up to Limit points of the documents it asks for.   *)
(*                                                                         *)
(* ImportPipeline knows how often a document is stored; this module knows  *)
(* what is stored.  The text itself is left out: a paragraph is its place  *)
(* in the document.  Scores depend on the text, so which of the matching   *)
(* points a search returns is left open.  A search changes nothing, so it  *)
(* is an operator, and the properties quantify over every search.          *)
(***************************************************************************)
EXTENDS Integers, Sequences, FiniteSets

CONSTANTS
    Docs,           \* documents, by the UniqueId of their ImportJob
    Importers,      \* runs of the background service, on several hosts
    NoDoc,          \* "this run is storing no document"
    Limit,          \* points a search returns at most, 5 in the code
    MaxEntries,     \* bound: entries of a document's text between blank lines
    MaxParagraphs,  \* bound: paragraphs the chunker makes of a page
    MaxText,        \* bound: paragraphs of all documents together
    MaxFailures     \* bound: imports that throw

ASSUME DocsAssumption == IsFiniteSet(Docs) /\ NoDoc \notin Docs
ASSUME BoundsAssumption ==
    /\ Limit \in Nat \ {0} /\ MaxEntries \in Nat /\ MaxParagraphs \in Nat
    /\ MaxText \in Nat /\ MaxFailures \in Nat

Blank == -1

VARIABLES
    entries,    \* a document's text, split at blank lines: the number of paragraphs in
                \* each entry, or Blank; an input that never changes
    doc,        \* doc[h]: the document that h is storing
    copy,       \* copy[h]: stands for the fresh Guids of the chunks of this import
    pageIndex,  \* pageIndex[h]: pages the loop is through with
    bookIndex,  \* bookIndex[h]: the running number of the next chunk
    chunks,     \* chunks[h]: the chunks made; while upserting, those not yet stored
    pc,         \* pc[h]: "idle", "chunking" or "upserting"
    points,     \* Qdrant: the points of the collection
    stray,      \* chunks of upserts that threw, which Qdrant may still store
    succeeded,  \* documents whose status Succeeded is committed
    imports,    \* imports begun so far
    failures,   \* imports that have thrown
    disturbed   \* history: documents of which an import threw, or two ran at once

importVars == <<doc, copy, pageIndex, bookIndex, chunks, pc>>
storeVars == <<points, stray, succeeded>>
vars == <<entries, importVars, storeVars, imports, failures, disturbed>>

Chunks == [doc : Docs, copy : Nat, page : Nat, index : Nat, paragraph : Nat]

TypeOK ==
    /\ entries \in [Docs -> Seq(Blank..MaxParagraphs)]
    /\ doc \in [Importers -> Docs \cup {NoDoc}]
    /\ copy \in [Importers -> Nat]
    /\ pageIndex \in [Importers -> Nat]
    /\ bookIndex \in [Importers -> Nat]
    /\ \A h \in Importers : chunks[h] \subseteq Chunks
    /\ pc \in [Importers -> {"idle", "chunking", "upserting"}]
    /\ points \subseteq Chunks /\ stray \subseteq Chunks
    /\ succeeded \subseteq Docs
    /\ imports \in Nat /\ failures \in 0..MaxFailures
    /\ disturbed \subseteq Docs

Paragraphs(e) ==
    {t \in Docs \X (1..MaxEntries) \X (1..MaxParagraphs) :
        t[2] <= Len(e[t[1]]) /\ t[3] <= e[t[1]][t[2]]}

Init ==
    /\ entries \in [Docs -> UNION {[1..n -> Blank..MaxParagraphs] : n \in 0..MaxEntries}]
    /\ Cardinality(Paragraphs(entries)) <= MaxText
    /\ doc = [h \in Importers |-> NoDoc]
    /\ copy = [h \in Importers |-> 0]
    /\ pageIndex = [h \in Importers |-> 0]
    /\ bookIndex = [h \in Importers |-> 0]
    /\ chunks = [h \in Importers |-> {}]
    /\ pc = [h \in Importers |-> "idle"]
    /\ points = {} /\ stray = {} /\ succeeded = {}
    /\ imports = 0 /\ failures = 0
    /\ disturbed = {}

(***************************************************************************)
(* The import.                                                             *)
(***************************************************************************)

\* Split with RemoveEmptyEntries goes through the entries e; after i of them it has kept:
KeptEntries(e) ==
    LET kept[i \in 0..Len(e)] ==
            IF i = 0 THEN <<>>
            ELSE IF e[i] = Blank THEN kept[i - 1]
            ELSE Append(kept[i - 1], e[i])
    IN  kept

\* DocxTextExtractionStrategy: the text split at blank lines, without empty entries.
Pages(d) == KeptEntries(entries[d])[Len(entries[d])]

\* Mutant of Listed: the status of the job is not checked.
ListedOnce(d) == imports < 3

\* ProcessImportJobCommandHandler refuses a job that is not Created any more.
Listed(d) == d \notin succeeded

BeginImport(h, d) ==
    /\ pc[h] = "idle"
    /\ Listed(d)
    /\ imports' = imports + 1
    /\ disturbed' = disturbed \cup {e \in {d} : \E g \in Importers : doc[g] = e}
    /\ doc' = [doc EXCEPT ![h] = d]
    /\ copy' = [copy EXCEPT ![h] = imports']
    /\ pageIndex' = [pageIndex EXCEPT ![h] = 0]
    /\ bookIndex' = [bookIndex EXCEPT ![h] = 0]
    /\ chunks' = [chunks EXCEPT ![h] = {}]
    /\ pc' = [pc EXCEPT ![h] = "chunking"]
    /\ UNCHANGED <<entries, storeVars, failures>>

\* Mutants of PageChunks: numbered within the page; the number taken off by one.
PageChunksFromZero(h) ==
    {[doc |-> doc[h], copy |-> copy[h], page |-> pageIndex[h] + 1,
      index |-> k - 1, paragraph |-> k] : k \in 1..Pages(doc[h])[pageIndex[h] + 1]}

PageChunksOffByOne(h) ==
    {[doc |-> doc[h], copy |-> copy[h], page |-> pageIndex[h] + 1,
      index |-> bookIndex[h] + k - 2, paragraph |-> k] :
        k \in 1..Pages(doc[h])[pageIndex[h] + 1]}

\* The chunks of the next page, numbered on from the page before.
PageChunks(h) ==
    {[doc |-> doc[h], copy |-> copy[h], page |-> pageIndex[h] + 1,
      index |-> bookIndex[h] + k - 1, paragraph |-> k] :
        k \in 1..Pages(doc[h])[pageIndex[h] + 1]}

\* One turn of the foreach: its paragraphs are embedded by one call.
ChunkPage(h) ==
    /\ pc[h] = "chunking"
    /\ pageIndex[h] < Len(Pages(doc[h]))
    /\ chunks' = [chunks EXCEPT ![h] = @ \cup PageChunks(h)]
    /\ bookIndex' = [bookIndex EXCEPT ![h] = @ + Cardinality(PageChunks(h))]
    /\ pageIndex' = [pageIndex EXCEPT ![h] = @ + 1]
    /\ UNCHANGED <<entries, doc, copy, pc, storeVars, imports, failures, disturbed>>

\* Mutant of Upsert: inside the loop.
UpsertInLoop(h) ==
    /\ pc[h] = "chunking"
    /\ pc' = [pc EXCEPT ![h] = "upserting"]
    /\ UNCHANGED <<entries, doc, copy, pageIndex, bookIndex, chunks, storeVars,
                   imports, failures, disturbed>>

\* One call with the chunks of all pages.
Upsert(h) ==
    /\ pc[h] = "chunking"
    /\ pageIndex[h] = Len(Pages(doc[h]))
    /\ pc' = [pc EXCEPT ![h] = "upserting"]
    /\ UNCHANGED <<entries, doc, copy, pageIndex, bookIndex, chunks, storeVars,
                   imports, failures, disturbed>>

\* Qdrant makes the points of a call visible one after another.
Land(h) ==
    /\ pc[h] = "upserting"
    /\ \E c \in chunks[h] :
          /\ points' = points \cup {c}
          /\ chunks' = [chunks EXCEPT ![h] = @ \ {c}]
    /\ UNCHANGED <<entries, doc, copy, pageIndex, bookIndex, pc, stray, succeeded,
                   imports, failures, disturbed>>

LeaveImport(h) ==
    /\ doc' = [doc EXCEPT ![h] = NoDoc]
    /\ chunks' = [chunks EXCEPT ![h] = {}]
    /\ pc' = [pc EXCEPT ![h] = "idle"]

\* Mutant of FinishImport: the upsert is not awaited.
FinishImportUnawaited(h) ==
    /\ pc[h] = "upserting"
    /\ succeeded' = succeeded \cup {doc[h]}
    /\ LeaveImport(h)
    /\ UNCHANGED <<entries, copy, pageIndex, bookIndex, points, stray, imports, failures,
                   disturbed>>

\* The call returns when all points are stored; SetAsSucceeded and the commit follow.
FinishImport(h) ==
    /\ pc[h] = "upserting"
    /\ chunks[h] = {}
    /\ succeeded' = succeeded \cup {doc[h]}
    /\ LeaveImport(h)
    /\ UNCHANGED <<entries, copy, pageIndex, bookIndex, points, stray, imports, failures,
                   disturbed>>

\* The embedding, the upsert or the commit throws, or the process dies.  What has
\* landed by then stays, what is on its way may land later, and the commit may have
\* been done.
ImportThrows(h) ==
    /\ pc[h] # "idle"
    /\ failures < MaxFailures
    /\ failures' = failures + 1
    /\ disturbed' = disturbed \cup {doc[h]}
    /\ \/ UNCHANGED succeeded
       \/ /\ pc[h] = "upserting" /\ chunks[h] = {}
          /\ succeeded' = succeeded \cup {doc[h]}
    /\ stray' = stray \cup {c \in chunks[h] : pc[h] = "upserting"}
    /\ LeaveImport(h)
    /\ UNCHANGED <<entries, copy, pageIndex, bookIndex, points, imports>>

\* Qdrant has got a call whose sender gave it up, or died, and stores a point of it.
LandStray ==
    /\ \E c \in stray : points' = points \cup {c} /\ stray' = stray \ {c}
    /\ UNCHANGED <<entries, importVars, succeeded, imports, failures, disturbed>>

Import(h) ==
    \/ \E d \in Docs : BeginImport(h, d)
    \/ ChunkPage(h) \/ Upsert(h) \/ Land(h) \/ FinishImport(h) \/ ImportThrows(h)

Next == LandStray \/ \E h \in Importers : Import(h)

Spec == Init /\ [][Next]_vars

(***************************************************************************)
(* The chat request.                                                       *)
(***************************************************************************)

\* Mutant of Matching: a single document is taken for none.
MatchingSeveral(D) == {p \in points : Cardinality(D) > 1 => p.doc \in D}

\* Without DocumentIds there is no condition, and every document is searched.
Matching(D) == {p \in points : D # {} => p.doc \in D}

\* The Limit points with the best scores, or all of them if fewer.
BestOf(S) ==
    {R \in SUBSET S : \/ Cardinality(R) = Limit
                      \/ R = S /\ Cardinality(S) < Limit}

SearchVectorStore(D) == BestOf(Matching(D))

\* The prompt asks for an answer from the texts of the points, whatever else they carry.
Contexts(R) == {<<p.doc, <<p.page, p.paragraph>>>> : p \in R}

\* Without points there is no prompt: the answer is "No results".
NoResults == {}

\* What the model may be asked to answer from, when a request names the documents D.
ChatDocument(D) ==
    {IF R = {} THEN NoResults ELSE Contexts(R) : R \in SearchVectorStore(D)}

-----------------------------------------------------------------------------
(***************************************************************************)
(* What must hold.                                                         *)
(***************************************************************************)

\* The text of a document, by reference: the paragraphs of the entries that are not
\* blank, each with the number of its page.
PageOf(d, i) == Cardinality({j \in 1..i : entries[d][j] # Blank})
Text(d) ==
    UNION {{<<PageOf(d, i), k>> : k \in 1..entries[d][i]} : i \in DOMAIN entries[d]}

Before(s, t) == s[1] < t[1] \/ (s[1] = t[1] /\ s[2] < t[2])

\* The text of d that copy c has in the index.
Stored(d, c) == {<<p.page, p.paragraph>> : p \in {q \in points : q.doc = d /\ q.copy = c}}

\* Every point is a paragraph of its document, and its Index is the number of
\* paragraphs before it: sorting by Index gives the text back, across pages.
ReadingOrder ==
    \A p \in points :
        LET here == <<p.page, p.paragraph>> IN
          /\ here \in Text(p.doc)
          /\ p.index = Cardinality({s \in Text(p.doc) : Before(s, here)})

\* What a search can find of a document: its whole copies.  An empty document has
\* nothing to be found.
WholeCopies(d) ==
    IF Text(d) = {} THEN 1 ELSE Cardinality({c \in 1..imports : Stored(d, c) = Text(d)})

Service ==
    INSTANCE ImportService WITH
        Jobs <- Docs,
        answered <- {},
        status <- [d \in Docs |-> IF d \in succeeded THEN "Succeeded" ELSE "Created"],
        copies <- [d \in Docs |-> WholeCopies(d)]

\* Chunk by chunk, with runs that break off anywhere, an import does what ImportService
\* says of an accepted job: copies come one at a time and stay, a status turns to
\* Succeeded only when one import has stored all of the text, and never turns back.
ImplementsImport == [][Service!Next]_(Service!vars)

\* Only an import that is under way or one that threw can leave a part of a document
\* in the index: searches see it, and nothing ever removes it.
PartsAreDisturbed ==
    \A p \in points :
        \/ Stored(p.doc, p.copy) = Text(p.doc)
        \/ \E h \in Importers : doc[h] = p.doc /\ copy[h] = p.copy
        \/ p.doc \in disturbed

\* An answer repeats a paragraph only if an import of its document threw or two of
\* them ran at once.
RepeatsAreDisturbed ==
    \A D \in SUBSET Docs : \A R \in SearchVectorStore(D) : \A p, q \in R :
        p # q /\ p.doc = q.doc /\ p.page = q.page /\ p.paragraph = q.paragraph
            => p.doc \in disturbed

\* A chat about a document that was imported undisturbed is as good as it can be: the
\* prompt has Limit different paragraphs of it and of no other, or all it has, and
\* "No results" is the answer only if it has no text.
CleanChatIsFull ==
    \A d \in succeeded \ disturbed : \A C \in ChatDocument({d}) :
        LET all == {<<d, s>> : s \in Text(d)} IN
            C = all \/ (C \subseteq all /\ Cardinality(C) = Limit)
=============================================================================
