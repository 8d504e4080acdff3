------------------------------- MODULE Ingest -------------------------------
(***************************************************************************)
(* sap-automate-ingest: the crawl of a directory, and IngestionPipeline    *)
(* filling the in-memory store (crawler.rs, pipeline.rs, store.rs), run    *)
(* again and again as the pages change.  A document is its file stem, the  *)
(* id the crawler gives it, and the texts of its chunks; the hash of a     *)
(* text is the text.                                                       *)
(***************************************************************************)
EXTENDS Naturals, Sequences, FiniteSets, SequencesExt, FiniteSetsExt

CONSTANTS
    Sites,        \* states of the directory: sets of files
    BatchSize,    \* IngestionPipeline::batch_size
    MaxRuns       \* bound: ingestions

ASSUME IngestAssumption ==
    /\ BatchSize \in Nat \ {0}
    /\ \A site \in Sites : IsFiniteSet(site) /\ \A f \in site : f.texts \in Seq(STRING)

VARIABLES
    ipc,          \* what the pipeline does next
    runs,         \* ingestions begun
    todo,         \* documents not yet taken
    doc,          \* the document in work
    offset,       \* chunks of doc handed to the embedder
    embedded,     \* chunks of doc that have an embedding: their ordinals
    documents,    \* InMemoryKb::documents, the texts by id
    chunks,       \* InMemoryKb::chunks, the text by <<id, ordinal>>
    hashes,       \* InMemoryKb::content_hashes
    shorted       \* history: ids stored with too few embeddings

storeVars == <<documents, chunks, hashes>>
ivars == <<ipc, runs, todo, doc, offset, embedded, storeVars, shorted>>

NoDoc == [stem |-> "none", texts |-> <<>>]

IngestInit ==
    /\ ipc = "idle" /\ runs = 0
    /\ todo = <<>> /\ doc = NoDoc /\ offset = 0 /\ embedded = <<>>
    /\ documents = [i \in {} |-> <<>>]
    /\ chunks = [k \in {} |-> "none"]
    /\ hashes = [k \in {} |-> "none"]
    /\ shorted = {}

\* crawl_directory: the pages that are HTML and can be parsed, in whatever
\* order the directory lists them; an I/O error ends the run.
Crawl(site) ==
    /\ ipc = "idle" /\ runs < MaxRuns
    /\ runs' = runs + 1
    /\ \/ LET pages == {[stem |-> f.stem, texts |-> f.texts] : f \in {f \in site : f.page}}
          IN todo' \in SetToSeqs(pages) /\ ipc' = "next"
       \/ UNCHANGED <<todo, ipc>>
    /\ UNCHANGED <<doc, offset, embedded, storeVars, shorted>>

\* The next document; one without chunks is skipped.
TakeDocument ==
    /\ ipc = "next" /\ todo # <<>>
    /\ todo' = Tail(todo)
    /\ offset' = 0 /\ embedded' = <<>>
    /\ IF Head(todo).texts = <<>> THEN UNCHANGED <<doc, ipc>>
       ELSE doc' = Head(todo) /\ ipc' = "embedding"
    /\ UNCHANGED <<runs, storeVars, shorted>>

IngestEnds ==
    /\ ipc = "next" /\ todo = <<>>
    /\ ipc' = "idle" /\ doc' = NoDoc
    /\ UNCHANGED <<runs, todo, offset, embedded, storeVars, shorted>>

\* The ordinals of the next batch.
Batch == (offset + 1)..Min({offset + BatchSize, Len(doc.texts)})

\* One call of the embedder: a vector for every text, fewer (the rest of the
\* batch is dropped by zip), or an error, which ends the ingestion.
EmbedBatch ==
    /\ ipc = "embedding" /\ offset < Len(doc.texts)
    /\ \/ \E n \in 0..Cardinality(Batch) :
            /\ embedded' = embedded \o [k \in 1..n |-> offset + k]
            /\ offset' = Min({offset + BatchSize, Len(doc.texts)})
            /\ UNCHANGED <<ipc, todo, doc>>
       \/ /\ ipc' = "idle" /\ todo' = <<>> /\ doc' = NoDoc
          /\ UNCHANGED <<embedded, offset>>
    /\ UNCHANGED <<runs, storeVars, shorted>>

\* upsert: insert_document
InsertDocument ==
    /\ ipc = "embedding" /\ offset = Len(doc.texts)
    /\ ipc' = "inserting"
    /\ documents' = [i \in DOMAIN documents \cup {doc.stem} |->
                       IF i = doc.stem THEN doc.texts ELSE documents[i]]
    /\ shorted' = IF Len(embedded) < Len(doc.texts) THEN shorted \cup {doc.stem}
                  ELSE shorted \ {doc.stem}
    /\ UNCHANGED <<runs, todo, doc, offset, embedded, chunks, hashes>>

\* Mutant: a chunk that is there is not looked at again.
KnownById(key, body) == key \in DOMAIN hashes

\* The chunk is stored with this very text.
Known(key, body) == key \in DOMAIN hashes /\ hashes[key] = body

Put(map, key, body) == [k \in DOMAIN map \cup {key} |-> IF k = key THEN body ELSE map[k]]

\* upsert: insert_chunk, one by one.
InsertChunk ==
    /\ ipc = "inserting" /\ embedded # <<>>
    /\ LET key == <<doc.stem, Head(embedded)>>
           body == doc.texts[Head(embedded)]
       IN IF Known(key, body) THEN UNCHANGED <<hashes, chunks>>
          ELSE hashes' = Put(hashes, key, body) /\ chunks' = Put(chunks, key, body)
    /\ embedded' = Tail(embedded)
    /\ UNCHANGED <<ipc, runs, todo, doc, offset, documents, shorted>>

UpsertEnds ==
    /\ ipc = "inserting" /\ embedded = <<>>
    /\ ipc' = "next"
    /\ UNCHANGED <<runs, todo, doc, offset, embedded, storeVars, shorted>>

IngestStops == ipc = "idle" /\ runs = MaxRuns /\ UNCHANGED ivars

IngestNext ==
    \/ \E site \in Sites : Crawl(site)
    \/ TakeDocument \/ EmbedBatch \/ InsertDocument \/ InsertChunk
    \/ UpsertEnds \/ IngestEnds \/ IngestStops

IngestSpec == IngestInit /\ [][IngestNext]_ivars

-----------------------------------------------------------------------------

\* Whatever was ingested before, in whatever order, and wherever an earlier
\* run broke off: outside an upsert each stored document has all its chunks,
\* with the text the document has now, unless the embedder left vectors out
\* (pipeline.rs:55-88, store.rs:157-183).
StoredIsWhole ==
    \A i \in DOMAIN documents :
      (ipc # "inserting" \/ doc.stem # i) /\ i \notin shorted =>
        \A k \in DOMAIN documents[i] :
          <<i, k>> \in DOMAIN chunks /\ chunks[<<i, k>>] = documents[i][k]
=============================================================================
