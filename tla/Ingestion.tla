------------------------------ MODULE Ingestion ------------------------------
(***************************************************************************)
(* Ingestion of documents into the knowledge base: the pipeline            *)
(* (crates/oracle-automate-ingest/src/pipeline.rs), the chunker that cuts a *)
(* body into overlapping segments (chunker.rs), an embedding service, and  *)
(* the two stores (crates/oracle-automate-kb/src/store.rs, qdrant.rs).     *)
(* One run of the ingest program handles one corpus; the in-memory store   *)
(* dies with the process, Qdrant keeps its points.                         *)
(*                                                                         *)
(* A body is a sequence of bytes, of which only these are told apart: a    *)
(* blank, the end mark of a sentence, the first byte of any other character *)
(* (2, 3, ...) and its continuation bytes (negative).  Offsets count from 0 *)
(* as in Rust.  The crawler rejects a page without text, so the pipeline's  *)
(* skip of a document without chunks (pipeline.rs:64) is never taken.       *)
(*                                                                         *)
(* Operators named Bad... are mutants, plausible bugs of the definition    *)
(* that follows them, and no part of the specification.                    *)
(***************************************************************************)
EXTENDS Integers, Sequences, FiniteSets

CONSTANTS
  Ids,           \* document ids
  Corpora,       \* what one run may find: sequences of [id, body], each body
                 \* words joined by single blanks, as the crawler leaves it
  Configs,       \* chunker configurations: [target, overlap]
  Lookback,      \* how far back from the target a cut may move (200 in the code)
  ContextLimit,  \* bytes of the body put before every chunk (280 in the code)
  BatchSize,     \* chunks per call of the embedding service (32 in the code)
  MaxRuns        \* bound: runs of the ingest program

Space == 0
Stop == 1

ASSUME IngestionAssumption ==
  /\ Lookback \in Nat \ {0} /\ ContextLimit \in Nat
  /\ BatchSize \in Nat \ {0} /\ MaxRuns \in Nat \ {0}
  /\ \A c \in Configs : c \in [target : Nat, overlap : Nat] /\ Lookback < c.target
  /\ \A corpus \in Corpora :
       /\ corpus \in Seq([id : Ids, body : Seq(Int)])
       /\ \A n \in 1..Len(corpus) : corpus[n].body # <<>> /\ corpus[n].body[1] >= 0

VARIABLES
  config,     \* ChunkerConfig
  backend,    \* "memory" or "qdrant"
  runs,       \* runs started
  queue,      \* documents the crawler found, not yet begun
  doc,        \* the document in the works
  pc,         \* stage of the pipeline
  start,      \* split_text's cursor
  segs,       \* segments found so far: [from, to]
  batched,    \* segments sent to the embedding service
  embedded,   \* segments that came back with a vector
  report,     \* IngestionReport
  documents,  \* document id -> body
  chunks,     \* <<document id, ordinal>> -> text
  hashes,     \* <<document id, ordinal>> -> content hash, here the text itself
  stats,      \* UpsertStats
  whole,      \* history: document id -> body last stored with all its segments
  short       \* history: has this run met an answer with vectors missing?

pipeline == <<queue, doc, pc, start, segs, batched, embedded, report, short>>
store == <<documents, chunks, hashes, stats, whole>>
vars == <<config, backend, runs, pipeline, store>>

Empty == [x \in {} |-> 0]
NoDocument == [body |-> <<>>]
NothingWritten == [documents |-> 0, written |-> 0, skipped |-> 0]
NothingReported == [documents |-> 0, chunks |-> 0]

Init ==
  /\ config \in Configs
  /\ backend \in {"memory", "qdrant"}
  /\ runs = 1 /\ queue \in Corpora
  /\ doc = NoDocument /\ pc = "next"
  /\ start = 0 /\ segs = <<>> /\ batched = 0 /\ embedded = {}
  /\ report = NothingReported /\ short = FALSE
  /\ documents = Empty /\ chunks = Empty /\ hashes = Empty
  /\ stats = NothingWritten /\ whole = Empty

-----------------------------------------------------------------------------
(* The chunker.                                                            *)

IsLast(i, S) == i \in S /\ \A j \in S : j <= i
IsFirst(i, S) == i \in S /\ \A j \in S : i <= j

\* is_char_boundary: offset i is the end or no continuation byte follows it.
IsBoundary(body, i) == i = Len(body) \/ body[i + 1] >= 0
IsBoundaryFrom(body, i, from) ==
  IsFirst(i, {j \in from..Len(body) : IsBoundary(body, j)})

SentenceEnds(body, from, to) ==
  {i \in (from + 2)..to : body[i - 1] = Stop /\ body[i] = Space}
Spaces(body, to) == {i \in 1..to : to - i <= Lookback /\ body[i] = Space}

\* The offset a segment that begins at s should end at: the end of the body,
\* or the last sentence end, or the last space, or the target itself.
EndsAt(body, s, e) ==
  LET reach == s + config.target
      ends == SentenceEnds(body, IF reach - Lookback < s + config.target \div 2
                                 THEN s + config.target \div 2 ELSE reach - Lookback, reach)
      spaces == Spaces(body, reach)
  IN  IF reach >= Len(body)
      THEN e = Len(body)
      ELSE \/ IsLast(e, ends)
           \/ ends = {} /\ IsLast(e, spaces)
           \/ ends = {} /\ spaces = {} /\ e = reach

\* The next segment begins `overlap` before this one ends, and advances at least one byte.
BadAdvance(s, e) == e - s + 1
Advance(s, e) == IF config.overlap < e - s THEN e - s - config.overlap ELSE 1

HasText(body, s, e) == \E p \in (s + 1)..e : body[p] # Space

\* One iteration of split_text.
Cut ==
  /\ pc = "cut"
  /\ \E e \in 0..Len(doc.body), end \in 0..Len(doc.body) :
       /\ EndsAt(doc.body, start, e)
       /\ IsBoundaryFrom(doc.body, end, e)
       /\ segs' = IF HasText(doc.body, start, end)
                  THEN Append(segs, [from |-> start, to |-> end]) ELSE segs
       /\ IF end = Len(doc.body)
          THEN /\ pc' = "embed" /\ start' = start
               /\ report' = [documents |-> report.documents + 1,
                             chunks |-> report.chunks + Len(segs')]
          ELSE /\ UNCHANGED <<pc, report>>
               /\ \E next \in 0..Len(doc.body) :
                    /\ IsBoundaryFrom(doc.body, next, start + Advance(start, end))
                    /\ start' = next
  /\ UNCHANGED <<config, backend, runs, queue, doc, batched, embedded, short, store>>

\* The body from offset s to offset e without blanks at its ends.
Trim(body, s, e) ==
  LET words == {p \in (s + 1)..e : body[p] # Space}
  IN  SubSeq(body, CHOOSE p \in words : IsFirst(p, words), CHOOSE p \in words : IsLast(p, words))

\* document_context: whole characters, up to the second sentence end or the limit.
Context(body) ==
  LET stops(i) == \/ i = Len(body) \/ i >= ContextLimit
                  \/ Cardinality({j \in 1..i : body[j] = Stop}) >= 2
      ends == {i \in 1..Len(body) : IsBoundary(body, i) /\ stops(i)}
  IN  Trim(body, 0, CHOOSE i \in ends : IsFirst(i, ends))

\* The text of the k-th chunk of the document in the works.
ChunkText(k) ==
  [context |-> Context(doc.body), words |-> Trim(doc.body, segs[k].from, segs[k].to)]

\* Ordinals begin with 0.
ChunkId(k) == <<doc.id, k - 1>>

-----------------------------------------------------------------------------
(* The pipeline.                                                           *)

BeginDocument ==
  /\ pc = "next"
  /\ queue # <<>>
  /\ doc' = Head(queue) /\ queue' = Tail(queue)
  /\ pc' = "cut"
  /\ start' = 0 /\ segs' = <<>> /\ batched' = 0 /\ embedded' = {}
  /\ UNCHANGED <<config, backend, runs, report, short, store>>

UncappedBatchEnd == batched + BatchSize
BatchEnd == IF batched + BatchSize < Len(segs) THEN batched + BatchSize ELSE Len(segs)

\* chunks(batch_size): the last batch may be smaller.
ExactBatch == IF batched + BatchSize <= Len(segs) THEN (batched + 1)..BatchEnd ELSE {}
Batch == (batched + 1)..BatchEnd

\* embed() answers with vectors, which zip pairs with the first chunks of the
\* batch; a chunk left without a vector is dropped.
EmbedBatch ==
  /\ pc = "embed"
  /\ batched < Len(segs)
  /\ \E n \in 0..Cardinality(Batch) :
       /\ embedded' = embedded \cup ((batched + 1)..(batched + n))
       /\ short' = (short \/ n < Cardinality(Batch))
  /\ batched' = BatchEnd
  /\ UNCHANGED <<config, backend, runs, queue, doc, pc, start, segs, report, store>>

\* The first error ends the run.
EmbedFails ==
  /\ pc = "embed"
  /\ batched < Len(segs)
  /\ pc' = "failed"
  /\ UNCHANGED <<config, backend, runs, queue, doc, start, segs, batched, embedded,
                 report, short, store>>

Update(f, g) ==
  [x \in DOMAIN f \cup DOMAIN g |-> IF x \in DOMAIN g THEN g[x] ELSE f[x]]
TextsOf(K) == [c \in {ChunkId(k) : k \in K} |-> ChunkText(c[2] + 1)]
WholeAfter == Update([d \in DOMAIN whole \ {doc.id} |-> whole[d]],
                     IF embedded = 1..Len(segs) THEN [d \in {doc.id} |-> doc.body] ELSE Empty)

\* insert_chunk: a chunk is skipped when its id already has this content hash.
BadIsDuplicate(k) == ChunkId(k) \in DOMAIN hashes
IsDuplicate(k) == ChunkId(k) \in DOMAIN hashes /\ hashes[ChunkId(k)] = ChunkText(k)

Remember(K) == Update(hashes, TextsOf(K))

StoreInMemory ==
  /\ pc = "embed" /\ batched = Len(segs)
  /\ backend = "memory"
  /\ LET fresh == {k \in embedded : ~IsDuplicate(k)}
     IN  /\ documents' = Update(documents, [d \in {doc.id} |-> doc.body])
         /\ hashes' = Remember(fresh)
         /\ chunks' = Update(chunks, TextsOf(fresh))
         /\ stats' = [documents |-> stats.documents + 1,
                      written |-> stats.written + Cardinality(fresh),
                      skipped |-> stats.skipped + Cardinality(embedded \ fresh)]
  /\ whole' = WholeAfter
  /\ pc' = "next"
  /\ UNCHANGED <<config, backend, runs, queue, doc, start, segs, batched, embedded,
                 report, short>>

\* The document is kept in the process; its points travel in one request,
\* which may fail before or after it took effect.
StoreInQdrant ==
  /\ pc = "embed" /\ batched = Len(segs)
  /\ backend = "qdrant"
  /\ documents' = Update(documents, [d \in {doc.id} |-> doc.body])
  /\ \E outcome \in {"stored", "refused", "answer lost"} :
       /\ embedded = {} => outcome = "stored"
       /\ pc' = IF outcome = "stored" THEN "next" ELSE "failed"
       /\ IF outcome = "refused"
          THEN UNCHANGED <<chunks, whole>>
          ELSE chunks' = Update(chunks, TextsOf(embedded)) /\ whole' = WholeAfter
  /\ UNCHANGED <<config, backend, runs, queue, doc, start, segs, batched, embedded,
                 report, short, hashes, stats>>

Finish ==
  /\ pc = "next" /\ queue = <<>>
  /\ pc' = "done"
  /\ UNCHANGED <<config, backend, runs, queue, doc, start, segs, batched, embedded,
                 report, short, store>>

\* The program ends, or dies at any point, and is run again.  Qdrant is all
\* that survives a process.
RunAgain ==
  /\ runs < MaxRuns
  /\ runs' = runs + 1
  /\ queue' \in Corpora /\ doc' = NoDocument /\ pc' = "next"
  /\ start' = 0 /\ segs' = <<>> /\ batched' = 0 /\ embedded' = {}
  /\ report' = NothingReported /\ short' = FALSE
  /\ documents' = Empty /\ hashes' = Empty /\ stats' = NothingWritten
  /\ IF backend = "memory"
     THEN chunks' = Empty /\ whole' = Empty
     ELSE UNCHANGED <<chunks, whole>>
  /\ UNCHANGED <<config, backend>>

Next ==
  \/ BeginDocument \/ Cut \/ EmbedBatch \/ EmbedFails
  \/ StoreInMemory \/ StoreInQdrant \/ Finish \/ RunAgain

Spec == Init /\ [][Next]_vars

-----------------------------------------------------------------------------
(* Properties.                                                             *)

\* Types; and a body is never cut into more segments than it has bytes.
TypeOK ==
  /\ config \in Configs /\ backend \in {"memory", "qdrant"} /\ runs \in 1..MaxRuns
  /\ queue \in Seq([id : Ids, body : Seq(Int)])
  /\ pc \in {"next", "cut", "embed", "done", "failed"}
  /\ pc \in {"cut", "embed"} => doc \in [id : Ids, body : Seq(Int)]
  /\ doc.body \in Seq(Int) /\ start \in 0..Len(doc.body)
  /\ segs \in Seq([from : 0..Len(doc.body), to : 0..Len(doc.body)])
  /\ Len(segs) <= Len(doc.body)
  /\ batched \in 0..Len(segs) /\ embedded \subseteq 1..Len(segs)
  /\ report \in [documents : Nat, chunks : Nat]
  /\ stats \in [documents : Nat, written : Nat, skipped : Nat]
  /\ DOMAIN documents \subseteq Ids /\ DOMAIN whole \subseteq Ids
  /\ DOMAIN chunks \subseteq Ids \X Nat /\ DOMAIN hashes \subseteq DOMAIN chunks
  /\ short \in BOOLEAN

\* The segments cover the body: between overlapping windows, backed-up cuts
\* and moves to character boundaries no text is lost, and no segment begins
\* or ends inside a character (where slicing would panic).
SegmentsCoverBody ==
  /\ pc = "embed" =>
       \A p \in 1..Len(doc.body) : doc.body[p] # Space =>
         \E k \in 1..Len(segs) : segs[k].from < p /\ p <= segs[k].to
  /\ \A k \in 1..Len(segs) :
       /\ segs[k].from < segs[k].to
       /\ IsBoundary(doc.body, segs[k].from) /\ IsBoundary(doc.body, segs[k].to)

\* A document last stored with all its segments can be found by any of its
\* text, after deduplication against earlier versions, failed runs in between
\* and restarts of the program.
IngestedTextIsStored ==
  \A d \in DOMAIN whole : \A p \in 1..Len(whole[d]) : whole[d][p] # Space =>
    \E c \in DOMAIN chunks :
      c[1] = d /\ \E i \in 1..Len(chunks[c].words) : chunks[c].words[i] = whole[d][p]

\* The content hash of a chunk id is that of the text stored under it, so a
\* chunk is skipped only if it is stored as it is, whatever versions of its
\* document went before.
SkippedMeansStored ==
  backend = "memory" => hashes = chunks

\* What the pipeline reports is what the store counted, unless the embedding
\* service left vectors out.
ReportIsTrue ==
  backend = "memory" /\ pc = "done" /\ ~short =>
    /\ report.documents = stats.documents
    /\ report.chunks = stats.written + stats.skipped
=============================================================================
