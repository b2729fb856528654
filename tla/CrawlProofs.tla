------------------------------ MODULE CrawlProofs ------------------------------
(***************************************************************************)
(* Proofs about ingestion and about the crawls that feed it.  First        *)
(* Ingestion, for every corpus, every chunker configuration with a target  *)
(* beyond the lookback, and any number of runs.  Then Crawl implements     *)
(* Ingestion: what its pages and files parse to is what Ingestion's        *)
(* assumption asks of a body, so that the theorems about Ingestion hold of *)
(* a crawl of every site.  Last what only a crawl promises: slots keep     *)
(* their distance, every page fetched is a document, and the robots file   *)
(* is followed, of which the parser of robots files is the larger part.    *)
(***************************************************************************)
EXTENDS Crawl, FiniteSetTheorems, WellFoundedInduction, SequenceTheorems, TLAPS

-----------------------------------------------------------------------------
(* The chunker.                                                            *)

\* The segments found so far hold all text before offset n.
Covered(n) ==
  \A p \in 1..n : doc.body[p] # Space =>
    \E k \in 1..Len(segs) : segs[k].from < p /\ p <= segs[k].to

WellFormed(d) == d.body \in Seq(Int) /\ (d.body # <<>> => d.body[1] >= 0)
HasBody(d) == WellFormed(d) /\ d.body # <<>>

Inputs ==
  /\ config \in Configs
  /\ queue \in Seq([id : Ids, body : Seq(Int)])
  /\ \A n \in 1..Len(queue) : HasBody(queue[n])
  /\ WellFormed(doc)
  /\ pc \in {"cut", "embed"} => doc \in [id : Ids, body : Seq(Int)]

Offsets ==
  /\ start \in 0..Len(doc.body)
  /\ segs \in Seq([from : 0..Len(doc.body), to : 0..Len(doc.body)])
  /\ Len(segs) <= Len(doc.body)

CursorInv ==
  /\ pc = "cut" => /\ start < Len(doc.body) /\ IsBoundary(doc.body, start)
                   /\ Len(segs) <= start
                   /\ Covered(start)
  /\ pc = "embed" => Covered(Len(doc.body))

AtBoundaries ==
  \A k \in 1..Len(segs) :
    /\ segs[k].from < segs[k].to
    /\ IsBoundary(doc.body, segs[k].from) /\ IsBoundary(doc.body, segs[k].to)

CutInv == Inputs /\ Offsets /\ CursorInv /\ AtBoundaries

\* A cut moves forward, however far it is backed up.
LEMMA CutsAdvance ==
  ASSUME config \in Configs, NEW body \in Seq(Int),
         NEW s \in 0..Len(body), s < Len(body), NEW e \in 0..Len(body), EndsAt(body, s, e)
  PROVE  s < e
<1> DEFINE reach == s + config.target
           half == config.target \div 2
           low == IF reach - Lookback < s + half THEN s + half ELSE reach - Lookback
<1>1. config.target \in Nat /\ Lookback \in Nat \ {0} /\ Lookback < config.target
  BY IngestionAssumption
<1>2. low \in Nat /\ low >= s /\ reach \in Nat
  <2>1. half \in Nat /\ s \in Nat
    BY <1>1
  <2> HIDE DEF half
  <2> QED
    BY <1>1, <2>1
<1>3. CASE reach >= Len(body)
  BY <1>3 DEF EndsAt
<1>4. CASE ~(reach >= Len(body)) /\ IsLast(e, SentenceEnds(body, low, reach))
  <2>1. e \in (low + 2)..reach
    BY <1>4 DEF IsLast, SentenceEnds
  <2> QED
    BY <1>2, <2>1
<1>5. CASE ~(reach >= Len(body)) /\ IsLast(e, Spaces(body, reach))
  <2>1. reach - e <= Lookback
    BY <1>5 DEF IsLast, Spaces
  <2> QED
    BY <1>1, <2>1
<1>6. CASE e = reach
  BY <1>1, <1>6
<1> QED
  BY <1>3, <1>4, <1>5, <1>6 DEF EndsAt

LEMMA AdvanceBounds ==
  ASSUME config \in Configs, NEW s \in Nat, NEW e \in Nat, s < e
  PROVE  Advance(s, e) \in Nat /\ 1 <= Advance(s, e) /\ s + Advance(s, e) <= e
  BY IngestionAssumption DEF Advance

\* One more segment, from the cursor to end: what is covered grows up to end.
LEMMA CutCovers ==
  ASSUME CutInv, pc = "cut", NEW end \in 0..Len(doc.body), start < end,
         IsBoundary(doc.body, end), UNCHANGED <<doc>>,
         segs' = IF HasText(doc.body, start, end)
                 THEN Append(segs, [from |-> start, to |-> end]) ELSE segs
  PROVE  /\ segs' \in Seq([from : 0..Len(doc.body), to : 0..Len(doc.body)])
         /\ Len(segs') <= start + 1
         /\ \A p \in 1..end : doc.body[p] # Space =>
              \E k \in 1..Len(segs') : segs'[k].from < p /\ p <= segs'[k].to
         /\ \A k \in 1..Len(segs') :
              /\ segs'[k].from < segs'[k].to
              /\ IsBoundary(doc.body, segs'[k].from) /\ IsBoundary(doc.body, segs'[k].to)
<1> DEFINE seg == [from |-> start, to |-> end]
           Seg == [from : 0..Len(doc.body), to : 0..Len(doc.body)]
<1>1. /\ segs \in Seq(Seg) /\ Len(segs) \in Nat /\ Len(segs) <= start
      /\ start \in Nat /\ end \in Nat /\ seg \in Seg /\ seg.from = start /\ seg.to = end
  BY DEF CutInv, Inputs, WellFormed, Offsets, CursorInv
<1> HIDE DEF seg
<1>2. CASE HasText(doc.body, start, end)
  <2>1. segs' = Append(segs, seg)
    BY <1>2 DEF seg
  <2>2. /\ segs' \in Seq(Seg) /\ Len(segs') = Len(segs) + 1
        /\ \A k \in 1..Len(segs) : segs'[k] = segs[k]
        /\ segs'[Len(segs) + 1] = seg
    <3> HIDE DEF Seg
    <3> QED
      BY <1>1, <2>1
  <2>3. ASSUME NEW p \in 1..end, doc.body[p] # Space
        PROVE  \E k \in 1..Len(segs') : segs'[k].from < p /\ p <= segs'[k].to
    <3>1. CASE p <= start
      BY <1>1, <2>2, <2>3, <3>1 DEF CutInv, CursorInv, Covered
    <3>2. CASE start < p
      BY <1>1, <2>2, <3>2
    <3> QED
      BY <1>1, <3>1, <3>2
  <2>4. \A k \in 1..Len(segs') :
              /\ segs'[k].from < segs'[k].to
              /\ IsBoundary(doc.body, segs'[k].from) /\ IsBoundary(doc.body, segs'[k].to)
    <3>1. \A k \in 1..Len(segs') : k \in 1..Len(segs) \/ k = Len(segs) + 1
      BY <1>1, <2>2
    <3>2. \A k \in 1..Len(segs) :
              /\ segs'[k].from < segs'[k].to
              /\ IsBoundary(doc.body, segs'[k].from) /\ IsBoundary(doc.body, segs'[k].to)
      BY <2>2 DEF CutInv, AtBoundaries
    <3>3. IsBoundary(doc.body, start)
      BY DEF CutInv, CursorInv
    <3> QED
      BY <1>1, <2>2, <3>1, <3>2, <3>3
  <2> QED
    BY <1>1, <2>2, <2>3, <2>4
<1>3. CASE ~HasText(doc.body, start, end)
  <2>1. segs' = segs
    BY <1>3
  <2>2. ASSUME NEW p \in 1..end, doc.body[p] # Space PROVE p \in 1..start
    BY <1>1, <1>3, <2>2 DEF HasText
  <2> QED
    BY <1>1, <2>1, <2>2 DEF CutInv, CursorInv, AtBoundaries, Covered
<1> QED
  BY <1>2, <1>3

LEMMA CutKeeps == ASSUME CutInv, Cut PROVE CutInv'
<1>1. PICK e \in 0..Len(doc.body), end \in 0..Len(doc.body) :
        /\ EndsAt(doc.body, start, e)
        /\ IsBoundaryFrom(doc.body, end, e)
        /\ segs' = IF HasText(doc.body, start, end)
                   THEN Append(segs, [from |-> start, to |-> end]) ELSE segs
        /\ IF end = Len(doc.body)
           THEN pc' = "embed" /\ start' = start
           ELSE /\ pc' = pc
                /\ \E next \in 0..Len(doc.body) :
                     /\ IsBoundaryFrom(doc.body, next, start + Advance(start, end))
                     /\ start' = next
  BY DEF Cut
<1>2. /\ pc = "cut" /\ UNCHANGED <<config, queue, doc>>
      /\ doc.body \in Seq(Int) /\ start \in 0..Len(doc.body) /\ start < Len(doc.body)
  BY DEF Cut, CutInv, Inputs, Offsets, CursorInv, WellFormed
<1>3. start < end /\ IsBoundary(doc.body, end)
  <2>1. start < e
    BY <1>1, <1>2, CutsAdvance DEF CutInv, Inputs
  <2>2. end \in e..Len(doc.body) /\ IsBoundary(doc.body, end)
    BY <1>1 DEF IsBoundaryFrom, IsFirst
  <2> QED
    BY <1>2, <2>1, <2>2
<1>4. /\ segs' \in Seq([from : 0..Len(doc.body), to : 0..Len(doc.body)])
      /\ Len(segs') <= start + 1
      /\ \A p \in 1..end : doc.body[p] # Space =>
           \E k \in 1..Len(segs') : segs'[k].from < p /\ p <= segs'[k].to
      /\ \A k \in 1..Len(segs') :
           /\ segs'[k].from < segs'[k].to
           /\ IsBoundary(doc.body, segs'[k].from) /\ IsBoundary(doc.body, segs'[k].to)
  BY <1>1, <1>2, <1>3, CutCovers
<1>5. Len(segs') \in Nat /\ Len(doc.body) \in Nat
  BY <1>2, <1>4
<1>6. Inputs' /\ AtBoundaries'
  BY <1>1, <1>2, <1>4 DEF CutInv, Inputs, AtBoundaries, WellFormed, IsBoundary
<1>7. CASE end = Len(doc.body)
  <2>1. pc' = "embed" /\ start' = start
    BY <1>1, <1>7
  <2>2. Offsets'
    BY <1>2, <1>4, <1>5, <2>1 DEF Offsets
  <2>3. CursorInv'
    BY <1>2, <1>4, <1>7, <2>1 DEF CursorInv, Covered
  <2> QED
    BY <1>6, <2>2, <2>3 DEF CutInv
<1>8. CASE end # Len(doc.body)
  <2>1. PICK next \in 0..Len(doc.body) :
          /\ IsBoundaryFrom(doc.body, next, start + Advance(start, end)) /\ start' = next
    BY <1>1, <1>8
  <2>2. /\ Advance(start, end) \in Nat /\ 1 <= Advance(start, end)
        /\ start + Advance(start, end) <= end
    BY <1>2, <1>3, AdvanceBounds DEF CutInv, Inputs
  <2>3. start + 1 <= next /\ next <= end /\ IsBoundary(doc.body, next)
    <3>1. end \in {j \in (start + Advance(start, end))..Len(doc.body) : IsBoundary(doc.body, j)}
      BY <1>2, <1>3, <2>2
    <3>2. /\ next \in (start + Advance(start, end))..Len(doc.body)
          /\ IsBoundary(doc.body, next) /\ next <= end
      BY <2>1, <3>1 DEF IsBoundaryFrom, IsFirst
    <3> QED
      BY <1>2, <2>2, <3>2
  <2>4. next \in Nat /\ end \in Nat /\ next < Len(doc.body) /\ pc' = "cut"
    BY <1>1, <1>2, <1>8, <2>3
  <2>5. Offsets'
    BY <1>2, <1>4, <1>5, <2>1, <2>3, <2>4 DEF Offsets
  <2>6. Covered(start)'
    <3>1. \A p \in 1..next : p \in 1..end
      BY <2>3, <2>4
    <3> QED
      BY <1>2, <1>4, <2>1, <3>1 DEF Covered
  <2>7. CursorInv'
    <3>1. IsBoundary(doc.body, start)'
      BY <1>2, <2>1, <2>3 DEF IsBoundary
    <3>2. Len(segs') <= start'
      BY <1>2, <1>4, <1>5, <2>1, <2>3, <2>4
    <3> QED
      BY <1>2, <2>1, <2>4, <2>6, <3>1, <3>2 DEF CursorInv
  <2> QED
    BY <1>6, <2>5, <2>7 DEF CutInv
<1> QED
  BY <1>7, <1>8

-----------------------------------------------------------------------------
(* The other actions, and the theorem.                                     *)

LEMMA CorporaWellFormed ==
  ASSUME NEW corpus \in Corpora
  PROVE  /\ corpus \in Seq([id : Ids, body : Seq(Int)])
         /\ \A n \in 1..Len(corpus) : HasBody(corpus[n])
<1> DEFINE Docs == [id : Ids, body : Seq(Int)]
<1>1. /\ corpus \in Seq(Docs)
      /\ \A n \in 1..Len(corpus) : corpus[n].body # <<>> /\ corpus[n].body[1] >= 0
  BY IngestionAssumption
<1>2. ASSUME NEW n \in 1..Len(corpus) PROVE corpus[n] \in Docs
  <2> HIDE DEF Docs
  <2> QED
    BY <1>1
<1>3. ASSUME NEW n \in 1..Len(corpus) PROVE corpus[n].body \in Seq(Int)
  BY <1>2
<1> QED
  BY <1>1, <1>3 DEF WellFormed, HasBody

LEMMA InitCutInv == ASSUME Init PROVE CutInv
<1>1. config \in Configs /\ queue \in Corpora /\ pc = "next" /\ start = 0 /\ segs = <<>>
  BY DEF Init
<1>2. doc.body = <<>>
  BY DEF Init, NoDocument
<1>3. Inputs
  <2>1. WellFormed(doc)
    BY <1>2 DEF WellFormed
  <2> QED
    BY <1>1, <2>1, CorporaWellFormed DEF Inputs
<1>4. Offsets /\ CursorInv /\ AtBoundaries
  BY <1>1, <1>2 DEF Offsets, CursorInv, AtBoundaries
<1> QED
  BY <1>3, <1>4 DEF CutInv

\* Taking a document from the head of the queue leaves well-formed documents.
LEMMA HeadAndTail ==
  ASSUME Inputs, queue # <<>>
  PROVE  /\ Head(queue) \in [id : Ids, body : Seq(Int)] /\ HasBody(Head(queue))
         /\ Tail(queue) \in Seq([id : Ids, body : Seq(Int)])
         /\ \A n \in 1..Len(Tail(queue)) : HasBody(Tail(queue)[n])
<1> DEFINE Docs == [id : Ids, body : Seq(Int)]
<1>1. queue \in Seq(Docs) /\ \A n \in 1..Len(queue) : HasBody(queue[n])
  BY DEF Inputs
<1> HIDE DEF Docs
<1>2. /\ Len(queue) \in Nat \ {0} /\ Head(queue) = queue[1] /\ Head(queue) \in Docs
      /\ Tail(queue) \in Seq(Docs) /\ Len(Tail(queue)) = Len(queue) - 1
      /\ \A n \in 1..Len(Tail(queue)) : Tail(queue)[n] = queue[n + 1]
  BY <1>1
<1>3. HasBody(queue[1]) /\ \A n \in 1..Len(Tail(queue)) : HasBody(queue[n + 1])
  BY <1>1, <1>2
<1> QED
  BY <1>2, <1>3 DEF Docs

LEMMA BeginKeeps == ASSUME CutInv, BeginDocument PROVE CutInv'
<1>1. /\ queue # <<>> /\ doc' = Head(queue) /\ queue' = Tail(queue)
      /\ pc' = "cut" /\ start' = 0 /\ segs' = <<>> /\ config' = config
  BY DEF BeginDocument
<1>2. Inputs'
  BY <1>1, HeadAndTail DEF CutInv, Inputs, HasBody
<1>3. doc'.body \in Seq(Int) /\ doc'.body # <<>> /\ doc'.body[1] >= 0
  BY <1>1, HeadAndTail DEF CutInv, HasBody, WellFormed
<1>4. Len(doc'.body) \in Nat \ {0}
  BY <1>3
<1>5. Offsets' /\ AtBoundaries'
  BY <1>1, <1>4 DEF Offsets, AtBoundaries
<1>6. CursorInv'
  <2>1. IsBoundary(doc.body, 0)'
    BY <1>3 DEF IsBoundary
  <2>2. Covered(0)'
    BY DEF Covered
  <2> QED
    BY <1>1, <1>4, <2>1, <2>2 DEF CursorInv
<1> QED
  BY <1>2, <1>5, <1>6 DEF CutInv

LEMMA RunAgainKeeps == ASSUME CutInv, RunAgain PROVE CutInv'
<1>1. /\ config' = config /\ queue' \in Corpora /\ pc' = "next" /\ start' = 0 /\ segs' = <<>>
      /\ doc' = NoDocument
  BY DEF RunAgain
<1>2. doc'.body = <<>>
  BY <1>1 DEF NoDocument
<1>3. Inputs'
  <2>1. WellFormed(doc)'
    BY <1>2 DEF WellFormed
  <2> QED
    BY <1>1, <2>1, CorporaWellFormed DEF CutInv, Inputs
<1>4. Offsets' /\ CursorInv' /\ AtBoundaries'
  BY <1>1, <1>2 DEF Offsets, CursorInv, AtBoundaries
<1> QED
  BY <1>3, <1>4 DEF CutInv

\* What leaves the cursor, the segments and the document alone and does not
\* enter the cutting stage.
LEMMA OthersKeep ==
  ASSUME CutInv, UNCHANGED <<config, queue, doc, start, segs>>,
         pc' \in {"next", "done", "failed", pc}
  PROVE  CutInv'
<1>1. Inputs'
  BY DEF CutInv, Inputs, WellFormed
<1>2. Offsets' /\ AtBoundaries'
  BY DEF CutInv, Offsets, AtBoundaries
<1>3. CursorInv'
  <2>1. CASE pc' = pc
    BY <2>1 DEF CutInv, CursorInv, Covered, IsBoundary
  <2>2. CASE pc' # pc
    BY <2>2 DEF CursorInv
  <2> QED
    BY <2>1, <2>2
<1> QED
  BY <1>1, <1>2, <1>3 DEF CutInv

LEMMA StepCutInv == ASSUME CutInv, [Next]_vars PROVE CutInv'
<1>2. CASE BeginDocument
  BY <1>2, BeginKeeps
<1>3. CASE Cut
  BY <1>3, CutKeeps
<1>4. CASE EmbedBatch
  BY <1>4, OthersKeep DEF EmbedBatch
<1>5. CASE EmbedFails
  BY <1>5, OthersKeep DEF EmbedFails
<1>6. CASE StoreInMemory
  BY <1>6, OthersKeep DEF StoreInMemory
<1>7. CASE StoreInQdrant
  BY <1>7, OthersKeep DEF StoreInQdrant
<1>8. CASE Finish
  BY <1>8, OthersKeep DEF Finish
<1>9. CASE RunAgain
  BY <1>9, RunAgainKeeps
<1>10. CASE UNCHANGED vars
  BY <1>10, OthersKeep DEF vars, pipeline
<1> QED
  BY <1>2, <1>3, <1>4, <1>5, <1>6, <1>7, <1>8, <1>9, <1>10 DEF Next

\* split_text loses no text of any body, whatever its spaces, full stops and
\* multi-byte characters and whatever the overlap: before the embedding
\* service is called every byte that is no space lies in a segment, and every
\* segment is a non-empty slice between character boundaries.
THEOREM SegmentsCoverBodyHolds == Spec => []SegmentsCoverBody
<1>1. CutInv => SegmentsCoverBody
  BY DEF CutInv, CursorInv, AtBoundaries, Covered, SegmentsCoverBody
<1> QED
  BY <1>1, InitCutInv, StepCutInv, PTL DEF Spec

-----------------------------------------------------------------------------
(* What is stored.                                                         *)

LEMMA FirstExists ==
  ASSUME NEW S, S \subseteq Nat, S # {}
  PROVE  \E i \in S : IsFirst(i, S)
<1>1. PICK i \in S : \A j \in S : <<j, i>> \notin OpToRel(<, Nat)
  BY NatLessThanWellFounded, WFMin
<1>2. \A j \in S : ~(j < i)
  BY <1>1 DEF OpToRel
<1> QED
  BY <1>2 DEF IsFirst

LEMMA LastExists ==
  ASSUME NEW n \in Nat, NEW S, S \subseteq 1..n, S # {}
  PROVE  \E i \in S : IsLast(i, S)
<1> DEFINE T == {n - i : i \in S}
<1>1. T \subseteq Nat /\ T # {}
  <2>1. ASSUME NEW i \in S PROVE n - i \in Nat
    <3>1. i \in 1..n
      OBVIOUS
    <3> QED
      BY <3>1
  <2> QED
    BY <2>1, Zenon
<1>2. PICK t \in T : IsFirst(t, T)
  BY <1>1, FirstExists
<1>3. PICK i \in S : t = n - i
  BY <1>2
<1>4. ASSUME NEW j \in S PROVE j <= i
  <2>1. t <= n - j
    BY <1>2 DEF IsFirst
  <2> QED
    BY <1>3, <2>1
<1> QED
  BY <1>4 DEF IsLast

\* Trimming a segment takes no text away.
LEMMA TrimKeepsText ==
  ASSUME NEW body \in Seq(Int), NEW from \in 0..Len(body), NEW to \in 0..Len(body),
         NEW q \in (from + 1)..to, body[q] # Space
  PROVE  \E i \in 1..Len(Trim(body, from, to)) : Trim(body, from, to)[i] = body[q]
<1> DEFINE words == {p \in (from + 1)..to : body[p] # Space}
           first == CHOOSE p \in words : IsFirst(p, words)
           last == CHOOSE p \in words : IsLast(p, words)
<1>1. Len(body) \in Nat /\ words \subseteq 1..Len(body) /\ words \subseteq Nat /\ q \in words
  OBVIOUS
<1>2. first \in words /\ IsFirst(first, words)
  BY <1>1, FirstExists
<1>3. last \in words /\ IsLast(last, words)
  BY <1>1, LastExists
<1>4. first <= q /\ q <= last /\ first \in 1..Len(body) /\ last \in 1..Len(body)
  BY <1>1, <1>2, <1>3 DEF IsFirst, IsLast
<1>5. Trim(body, from, to) = SubSeq(body, first, last)
  BY DEF Trim
<1> HIDE DEF first, last, words
<1>6. Len(SubSeq(body, first, last)) = last - first + 1
  BY <1>4
<1>7. SubSeq(body, first, last)[q - first + 1] = body[q]
  BY <1>4
<1>8. q - first + 1 \in 1..Len(SubSeq(body, first, last))
  BY <1>4, <1>6
<1> QED
  BY <1>5, <1>7, <1>8

HashInv == backend = "memory" => hashes = chunks

\* The body of document d can be found in the chunks by any of its text.
Findable(d, ch, body) ==
  \A p \in 1..Len(body) : body[p] # Space =>
    \E c \in DOMAIN ch : c[1] = d /\ \E i \in 1..Len(ch[c].words) : ch[c].words[i] = body[p]

StoredInv ==
  /\ CutInv /\ HashInv
  /\ batched \in Nat /\ embedded \subseteq Nat
  /\ \A d \in DOMAIN whole : Findable(d, chunks, whole[d])

LEMMA UpdateIs ==
  ASSUME NEW f, NEW g
  PROVE  /\ DOMAIN Update(f, g) = DOMAIN f \cup DOMAIN g
         /\ \A x \in DOMAIN g : Update(f, g)[x] = g[x]
         /\ \A x \in DOMAIN f : x \notin DOMAIN g => Update(f, g)[x] = f[x]
  BY DEF Update

LEMMA TextsAre ==
  ASSUME NEW K, K \subseteq Nat
  PROVE  /\ \A c \in DOMAIN TextsOf(K) : c[1] = doc.id
         /\ \A k \in K : ChunkId(k) \in DOMAIN TextsOf(K) /\ TextsOf(K)[ChunkId(k)] = ChunkText(k)
<1>1. DOMAIN TextsOf(K) = {ChunkId(k) : k \in K}
  BY DEF TextsOf
<1>2. \A k \in K : ChunkId(k)[1] = doc.id /\ ChunkId(k)[2] + 1 = k
  BY DEF ChunkId
<1>3. \A k \in K : TextsOf(K)[ChunkId(k)] = ChunkText(ChunkId(k)[2] + 1)
  BY DEF TextsOf
<1> QED
  BY <1>1, <1>2, <1>3

\* When every segment is stored under its chunk id, the body can be found.
LEMMA WholeIsFindable ==
  ASSUME CutInv, pc = "embed", NEW ch,
         \A k \in 1..Len(segs) : ChunkId(k) \in DOMAIN ch /\ ch[ChunkId(k)] = ChunkText(k)
  PROVE  Findable(doc.id, ch, doc.body)
<1>1. doc.body \in Seq(Int) /\ Covered(Len(doc.body))
  BY DEF CutInv, Inputs, CursorInv, WellFormed
<1>2. SUFFICES ASSUME NEW p \in 1..Len(doc.body), doc.body[p] # Space
               PROVE  \E c \in DOMAIN ch : c[1] = doc.id /\
                        \E i \in 1..Len(ch[c].words) : ch[c].words[i] = doc.body[p]
  BY DEF Findable
<1>3. PICK k \in 1..Len(segs) : segs[k].from < p /\ p <= segs[k].to
  BY <1>1, <1>2 DEF Covered
<1> DEFINE from == segs[k].from
           to == segs[k].to
<1>4. from \in 0..Len(doc.body) /\ to \in 0..Len(doc.body)
  <2> DEFINE Seg == [from : 0..Len(doc.body), to : 0..Len(doc.body)]
  <2>1. segs \in Seq(Seg)
    BY DEF CutInv, Offsets
  <2>2. segs[k] \in Seg
    <3> HIDE DEF Seg
    <3> QED
      BY <2>1
  <2> QED
    BY <2>2
<1> HIDE DEF from, to
<1>5. p \in (from + 1)..to
  BY <1>1, <1>3, <1>4 DEF from, to
<1>6. PICK i \in 1..Len(Trim(doc.body, from, to)) : Trim(doc.body, from, to)[i] = doc.body[p]
  BY <1>1, <1>2, <1>4, <1>5, TrimKeepsText
<1>7. ChunkText(k).words = Trim(doc.body, from, to) /\ ChunkId(k)[1] = doc.id
  BY DEF ChunkText, ChunkId, from, to
<1> QED
  BY <1>6, <1>7

\* Storing chunks of one document disturbs no other document, and if all its
\* segments are among them the document can be found.
LEMMA StoreKeeps ==
  ASSUME StoredInv, pc = "embed", NEW K, K \subseteq embedded, embedded \subseteq Nat,
         chunks' = Update(chunks, TextsOf(K)), whole' = WholeAfter,
         \A k \in embedded \ K : ChunkId(k) \in DOMAIN chunks /\ chunks[ChunkId(k)] = ChunkText(k)
  PROVE  \A d \in DOMAIN whole' : Findable(d, chunks', whole'[d])
<1> DEFINE others == [d \in DOMAIN whole \ {doc.id} |-> whole[d]]
           this == IF embedded = 1..Len(segs) THEN [d \in {doc.id} |-> doc.body] ELSE Empty
<1>1. /\ \A c \in DOMAIN TextsOf(K) : c[1] = doc.id
      /\ \A k \in K : ChunkId(k) \in DOMAIN TextsOf(K) /\ TextsOf(K)[ChunkId(k)] = ChunkText(k)
  BY TextsAre
<1>2. /\ DOMAIN chunks' = DOMAIN chunks \cup DOMAIN TextsOf(K)
      /\ \A x \in DOMAIN TextsOf(K) : chunks'[x] = TextsOf(K)[x]
      /\ \A x \in DOMAIN chunks : x \notin DOMAIN TextsOf(K) => chunks'[x] = chunks[x]
  <2>1. /\ DOMAIN Update(chunks, TextsOf(K)) = DOMAIN chunks \cup DOMAIN TextsOf(K)
        /\ \A x \in DOMAIN TextsOf(K) : Update(chunks, TextsOf(K))[x] = TextsOf(K)[x]
        /\ \A x \in DOMAIN chunks :
             x \notin DOMAIN TextsOf(K) => Update(chunks, TextsOf(K))[x] = chunks[x]
    BY UpdateIs
  <2> QED
    BY <2>1
<1>3. /\ DOMAIN whole' = DOMAIN others \cup DOMAIN this
      /\ \A d \in DOMAIN this : whole'[d] = this[d]
      /\ \A d \in DOMAIN others : d \notin DOMAIN this => whole'[d] = others[d]
  <2>1. whole' = Update(others, this)
    BY DEF WholeAfter
  <2> HIDE DEF others, this
  <2>2. /\ DOMAIN Update(others, this) = DOMAIN others \cup DOMAIN this
        /\ \A d \in DOMAIN this : Update(others, this)[d] = this[d]
        /\ \A d \in DOMAIN others : d \notin DOMAIN this => Update(others, this)[d] = others[d]
    BY UpdateIs
  <2> QED
    BY <2>1, <2>2
<1>4. ASSUME NEW d \in DOMAIN whole', d # doc.id PROVE Findable(d, chunks', whole'[d])
  <2>1. d \in DOMAIN whole /\ whole'[d] = whole[d]
    <3>1. DOMAIN others = DOMAIN whole \ {doc.id} /\ DOMAIN this \subseteq {doc.id}
      BY DEF Empty
    <3>2. \A x \in DOMAIN others : others[x] = whole[x]
      OBVIOUS
    <3> HIDE DEF others, this
    <3> QED
      BY <1>3, <1>4, <3>1, <3>2
  <2>2. Findable(d, chunks, whole[d])
    BY <2>1 DEF StoredInv
  <2>3. ASSUME NEW c \in DOMAIN chunks, c[1] = d PROVE c \in DOMAIN chunks' /\ chunks'[c] = chunks[c]
    <3>1. c \notin DOMAIN TextsOf(K)
      BY <1>1, <1>4, <2>3
    <3> QED
      BY <1>2, <3>1
  <2>4. Findable(d, chunks', whole[d])
    <3>1. SUFFICES ASSUME NEW p \in 1..Len(whole[d]), whole[d][p] # Space
                   PROVE  \E c \in DOMAIN chunks' : c[1] = d /\
                            \E i \in 1..Len(chunks'[c].words) : chunks'[c].words[i] = whole[d][p]
      BY DEF Findable
    <3>2. PICK c \in DOMAIN chunks :
            c[1] = d /\ \E i \in 1..Len(chunks[c].words) : chunks[c].words[i] = whole[d][p]
      BY <2>2, <3>1 DEF Findable
    <3> QED
      BY <2>3, <3>2
  <2> QED
    BY <2>1, <2>4
<1>5. ASSUME doc.id \in DOMAIN whole' PROVE Findable(doc.id, chunks', whole'[doc.id])
  <2>1. doc.id \in DOMAIN this
    BY <1>3, <1>5
  <2>2. embedded = 1..Len(segs)
    BY <2>1 DEF Empty
  <2>3. whole'[doc.id] = doc.body
    <3>1. whole'[doc.id] = this[doc.id]
      BY <1>3, <2>1
    <3> QED
      BY <2>2, <3>1
  <2>4. ASSUME NEW k \in 1..Len(segs)
        PROVE  ChunkId(k) \in DOMAIN chunks' /\ chunks'[ChunkId(k)] = ChunkText(k)
    <3>1. CASE k \in K
      BY <1>1, <1>2, <3>1
    <3>2. CASE k \notin K /\ ChunkId(k) \notin DOMAIN TextsOf(K)
      BY <1>2, <2>2, <3>2
    <3>3. CASE k \notin K /\ ChunkId(k) \in DOMAIN TextsOf(K)
      <4>1. PICK j \in K : ChunkId(k) = ChunkId(j)
        BY <3>3 DEF TextsOf
      <4>2. k - 1 = j - 1
        BY <4>1 DEF ChunkId
      <4> QED
        BY <2>2, <3>3, <4>1, <4>2
    <3> QED
      BY <3>1, <3>2, <3>3
  <2>5. Findable(doc.id, chunks', doc.body)
    BY <2>4, WholeIsFindable DEF StoredInv
  <2> QED
    BY <2>3, <2>5
<1> QED
  BY <1>4, <1>5

LEMMA InitStoredInv == ASSUME Init PROVE StoredInv
  BY InitCutInv DEF Init, StoredInv, HashInv, Empty

\* What leaves the stores and the embedding's progress alone.
LEMMA OthersKeepStored ==
  ASSUME StoredInv, CutInv', UNCHANGED <<backend, batched, embedded, store>>
  PROVE  StoredInv'
  BY DEF StoredInv, HashInv, Findable, store

LEMMA EmbedKeepsStored == ASSUME StoredInv, CutInv', EmbedBatch PROVE StoredInv'
<1>1. UNCHANGED <<backend, store>> /\ batched' = BatchEnd
  BY DEF EmbedBatch
<1>2. segs \in Seq([from : 0..Len(doc.body), to : 0..Len(doc.body)])
  BY DEF StoredInv, CutInv, Offsets
<1>3. Len(segs) \in Nat /\ batched \in Nat
  BY <1>2 DEF StoredInv
<1>4. batched' \in Nat
  BY <1>1, <1>3, IngestionAssumption DEF BatchEnd
<1>5. embedded' \subseteq Nat
  <2>1. PICK n \in 0..Cardinality(Batch) : embedded' = embedded \cup ((batched + 1)..(batched + n))
    BY DEF EmbedBatch
  <2>2. (batched + 1)..(batched + n) \subseteq Nat
    BY <1>3
  <2> QED
    BY <2>1, <2>2 DEF StoredInv
<1> QED
  BY <1>1, <1>4, <1>5 DEF StoredInv, HashInv, Findable, store

LEMMA MemoryKeepsStored == ASSUME StoredInv, CutInv', StoreInMemory PROVE StoredInv'
<1> DEFINE fresh == {k \in embedded : ~IsDuplicate(k)}
<1>1. /\ pc = "embed" /\ backend = "memory" /\ UNCHANGED <<backend, batched, embedded>>
      /\ hashes' = Update(hashes, TextsOf(fresh))
      /\ chunks' = Update(chunks, TextsOf(fresh))
      /\ whole' = WholeAfter
  BY DEF StoreInMemory, Remember
<1>2. hashes = chunks /\ embedded \subseteq Nat
  BY <1>1 DEF StoredInv, HashInv
<1>3. HashInv'
  BY <1>1, <1>2 DEF HashInv
<1>4. ASSUME NEW k \in embedded \ fresh
      PROVE  ChunkId(k) \in DOMAIN chunks /\ chunks[ChunkId(k)] = ChunkText(k)
  BY <1>2, <1>4 DEF IsDuplicate
<1>5. fresh \subseteq embedded
  OBVIOUS
<1> HIDE DEF fresh
<1>6. \A d \in DOMAIN whole' : Findable(d, chunks', whole'[d])
  BY <1>1, <1>2, <1>4, <1>5, StoreKeeps
<1> QED
  BY <1>1, <1>3, <1>6 DEF StoredInv, Findable

LEMMA QdrantKeepsStored == ASSUME StoredInv, CutInv', StoreInQdrant PROVE StoredInv'
<1>1. /\ pc = "embed" /\ UNCHANGED <<backend, batched, embedded, hashes>> /\ backend = "qdrant"
      /\ \/ UNCHANGED <<chunks, whole>>
         \/ chunks' = Update(chunks, TextsOf(embedded)) /\ whole' = WholeAfter
  BY DEF StoreInQdrant
<1>2. HashInv' /\ embedded \subseteq Nat
  BY <1>1 DEF StoredInv, HashInv
<1>3. \A d \in DOMAIN whole' : Findable(d, chunks', whole'[d])
  <2>1. CASE UNCHANGED <<chunks, whole>>
    BY <2>1 DEF StoredInv
  <2>2. CASE chunks' = Update(chunks, TextsOf(embedded)) /\ whole' = WholeAfter
    BY <1>1, <1>2, <2>2, StoreKeeps
  <2> QED
    BY <1>1, <2>1, <2>2
<1> QED
  BY <1>1, <1>2, <1>3 DEF StoredInv, Findable

LEMMA RunAgainKeepsStored == ASSUME StoredInv, CutInv', RunAgain PROVE StoredInv'
<1>1. /\ UNCHANGED backend /\ batched' = 0 /\ embedded' = {} /\ hashes' = Empty
      /\ IF backend = "memory" THEN chunks' = Empty /\ whole' = Empty
                               ELSE UNCHANGED <<chunks, whole>>
  BY DEF RunAgain
<1>2. HashInv'
  BY <1>1 DEF HashInv
<1>3. \A d \in DOMAIN whole' : Findable(d, chunks', whole'[d])
  BY <1>1 DEF StoredInv, Empty
<1> QED
  BY <1>1, <1>2, <1>3 DEF StoredInv, Findable

LEMMA StepStoredInv == ASSUME StoredInv, [Next]_vars PROVE StoredInv'
<1>1. CutInv'
  BY StepCutInv DEF StoredInv
<1>3. CASE BeginDocument
  <2>1. UNCHANGED <<backend, store>> /\ batched' = 0 /\ embedded' = {}
    BY <1>3 DEF BeginDocument
  <2> QED
    BY <1>1, <2>1 DEF StoredInv, HashInv, Findable, store
<1>4. CASE Cut
  BY <1>1, <1>4, OthersKeepStored DEF Cut
<1>5. CASE EmbedBatch
  BY <1>1, <1>5, EmbedKeepsStored
<1>6. CASE EmbedFails
  BY <1>1, <1>6, OthersKeepStored DEF EmbedFails
<1>7. CASE StoreInMemory
  BY <1>1, <1>7, MemoryKeepsStored
<1>8. CASE StoreInQdrant
  BY <1>1, <1>8, QdrantKeepsStored
<1>9. CASE Finish
  BY <1>1, <1>9, OthersKeepStored DEF Finish
<1>10. CASE RunAgain
  BY <1>1, <1>10, RunAgainKeepsStored
<1>11. CASE UNCHANGED vars
  BY <1>1, <1>11, OthersKeepStored DEF vars, pipeline
<1> QED
  BY <1>3, <1>4, <1>5, <1>6, <1>7, <1>8, <1>9, <1>10, <1>11 DEF Next

\* No sequence of versions, batches, failed runs and restarts makes a stored
\* document unfindable: if all its segments came back with vectors when it
\* was last stored, any of its text is in some chunk of it, under whatever
\* content hashes earlier versions left.
THEOREM IngestedTextIsStoredHolds == Spec => []IngestedTextIsStored
<1>1. StoredInv => IngestedTextIsStored
  BY DEF StoredInv, Findable, IngestedTextIsStored
<1> QED
  BY <1>1, InitStoredInv, StepStoredInv, PTL DEF Spec

\* The in-memory store never skips a chunk it does not hold as it is.
THEOREM SkippedMeansStoredHolds == Spec => []SkippedMeansStored
<1>1. StoredInv => SkippedMeansStored
  BY DEF StoredInv, HashInv, SkippedMeansStored
<1> QED
  BY <1>1, InitStoredInv, StepStoredInv, PTL DEF Spec

-----------------------------------------------------------------------------
(* What the pipeline reports and what the in-memory store counts.           *)

Progress ==
  /\ report \in [documents : Nat, chunks : Nat]
  /\ stats \in [documents : Nat, written : Nat, skipped : Nat]
  /\ short \in BOOLEAN
  /\ batched \in 0..Len(segs)
  /\ embedded \subseteq 1..batched

\* Unless vectors are missing, what was sent to the embedding service came
\* back, and the report is ahead of the store by the document in the works.
Complete == ~short => embedded = 1..batched

Ahead == backend = "memory" /\ ~short /\ pc # "failed" =>
  /\ report.documents = stats.documents + (IF pc = "embed" THEN 1 ELSE 0)
  /\ report.chunks = stats.written + stats.skipped + (IF pc = "embed" THEN Len(segs) ELSE 0)

ReportInv == CutInv /\ Progress /\ Complete /\ Ahead

LEMMA SegsHaveLength == ASSUME CutInv PROVE Len(segs) \in Nat
<1>1. segs \in Seq([from : 0..Len(doc.body), to : 0..Len(doc.body)])
  BY DEF CutInv, Offsets
<1> QED
  BY <1>1

LEMMA InitReportInv == ASSUME Init PROVE ReportInv
<1>1. CutInv
  BY InitCutInv
<1>2. /\ pc = "next" /\ segs = <<>> /\ batched = 0 /\ embedded = {} /\ short = FALSE
      /\ report = [documents |-> 0, chunks |-> 0]
      /\ stats = [documents |-> 0, written |-> 0, skipped |-> 0]
  BY DEF Init, NothingReported, NothingWritten
<1>3. 0 \in 0..Len(segs) /\ 1..0 = {}
  BY <1>2
<1>4. Progress /\ Complete
  BY <1>2, <1>3 DEF Progress, Complete
<1>5. Ahead
  BY <1>2 DEF Ahead
<1> QED
  BY <1>1, <1>4, <1>5 DEF ReportInv

\* A cut counts its document when it is the last one.
LEMMA CutKeepsReport == ASSUME ReportInv, CutInv', Cut PROVE ReportInv'
<1>1. PICK end \in 0..Len(doc.body) :
        /\ segs' = IF HasText(doc.body, start, end)
                   THEN Append(segs, [from |-> start, to |-> end]) ELSE segs
        /\ IF end = Len(doc.body)
           THEN /\ pc' = "embed"
                /\ report' = [documents |-> report.documents + 1,
                              chunks |-> report.chunks + Len(segs')]
           ELSE UNCHANGED <<pc, report>>
  BY DEF Cut
<1>2. pc = "cut" /\ UNCHANGED <<backend, batched, embedded, short, store>>
  BY DEF Cut
<1>3. Len(segs) \in Nat /\ Len(segs') \in Nat
  <2>1. segs' \in Seq([from : 0..Len(doc'.body), to : 0..Len(doc'.body)])
    BY DEF CutInv, Offsets
  <2> QED
    BY <2>1, SegsHaveLength DEF ReportInv
<1>4. Len(segs) <= Len(segs')
  <2>1. segs \in Seq([from : 0..Len(doc.body), to : 0..Len(doc.body)])
    BY DEF ReportInv, CutInv, Offsets
  <2> QED
    BY <1>1, <1>3, <2>1
<1> HIDE DEF CutInv
<1>5. Progress'
  BY <1>1, <1>2, <1>3, <1>4 DEF ReportInv, Progress, store
<1>6. Complete'
  BY <1>2 DEF ReportInv, Complete
<1>7. Ahead'
  BY <1>1, <1>2, <1>3 DEF ReportInv, Progress, Ahead, store
<1> QED
  BY <1>5, <1>6, <1>7 DEF ReportInv

LEMMA BatchIs ==
  ASSUME ReportInv, batched < Len(segs)
  PROVE  /\ BatchEnd \in (batched + 1)..Len(segs)
         /\ Cardinality(Batch) = BatchEnd - batched
<1>1. Len(segs) \in Nat /\ batched \in Nat
  BY SegsHaveLength DEF ReportInv, Progress
<1>2. BatchEnd \in (batched + 1)..Len(segs)
  BY <1>1, IngestionAssumption DEF BatchEnd
<1>3. batched + 1 \in Int /\ BatchEnd \in Int
  BY <1>1, <1>2
<1>4. Cardinality(Batch) = IF batched + 1 > BatchEnd THEN 0 ELSE BatchEnd - (batched + 1) + 1
  BY <1>3, FS_Interval DEF Batch
<1> QED
  BY <1>1, <1>2, <1>4

LEMMA EmbedKeepsReport == ASSUME ReportInv, CutInv', EmbedBatch PROVE ReportInv'
<1>1. PICK n \in 0..Cardinality(Batch) :
        /\ embedded' = embedded \cup ((batched + 1)..(batched + n))
        /\ short' = (short \/ n < Cardinality(Batch))
  BY DEF EmbedBatch
<1>2. /\ batched' = BatchEnd /\ batched < Len(segs) /\ pc = "embed"
      /\ UNCHANGED <<backend, pc, segs, report, store>>
  BY DEF EmbedBatch
<1>3. BatchEnd \in (batched + 1)..Len(segs) /\ Cardinality(Batch) = BatchEnd - batched
  BY <1>2, BatchIs
<1>4. Len(segs) \in Nat /\ batched \in Nat
  BY SegsHaveLength DEF ReportInv, Progress
<1>5. n \in 0..(BatchEnd - batched)
  BY <1>1, <1>3
<1> HIDE DEF BatchEnd, Batch, CutInv
<1>6. embedded' \subseteq 1..batched'
  BY <1>1, <1>2, <1>3, <1>4, <1>5 DEF ReportInv, Progress
<1>7. short' \in BOOLEAN /\ (~short' => ~short /\ n = BatchEnd - batched)
  <2>1. short \in BOOLEAN /\ (n < Cardinality(Batch) \/ n = BatchEnd - batched)
    BY <1>3, <1>4, <1>5 DEF ReportInv, Progress
  <2> QED
    BY <1>1, <2>1
<1>8. Progress'
  BY <1>2, <1>3, <1>4, <1>6, <1>7 DEF ReportInv, Progress, store
<1>9. Complete'
  <2> SUFFICES ASSUME ~short' PROVE embedded' = 1..batched'
    BY DEF Complete
  <2>1. embedded = 1..batched /\ n = BatchEnd - batched
    BY <1>7 DEF ReportInv, Complete
  <2> QED
    BY <1>1, <1>2, <1>3, <1>4, <2>1
<1>10. Ahead'
  BY <1>2, <1>7 DEF ReportInv, Ahead, store
<1> QED
  BY <1>8, <1>9, <1>10 DEF ReportInv

\* Written and skipped chunks are the chunks embedded, each once.
LEMMA MemoryKeepsReport == ASSUME ReportInv, CutInv', StoreInMemory PROVE ReportInv'
<1> DEFINE fresh == {k \in embedded : ~IsDuplicate(k)}
           w == Cardinality(fresh)
           d == Cardinality(embedded \ fresh)
<1>1. /\ pc = "embed" /\ batched = Len(segs) /\ pc' = "next" /\ backend = "memory"
      /\ UNCHANGED <<backend, segs, batched, embedded, report, short>>
      /\ stats' = [documents |-> stats.documents + 1, written |-> stats.written + w,
                   skipped |-> stats.skipped + d]
  BY DEF StoreInMemory
<1>2. Len(segs) \in Nat /\ batched \in Nat
  BY SegsHaveLength DEF ReportInv, Progress
<1>3. IsFiniteSet(1..batched) /\ Cardinality(1..batched) = batched
  <2>1. /\ IsFiniteSet(1..batched)
        /\ Cardinality(1..batched) = IF 1 > batched THEN 0 ELSE batched - 1 + 1
    BY <1>2, FS_Interval
  <2> QED
    BY <1>2, <2>1
<1>4. IsFiniteSet(embedded)
  BY <1>3, FS_Subset DEF ReportInv, Progress
<1>5. fresh \subseteq embedded
  OBVIOUS
<1> HIDE DEF fresh, w, d
<1>6. IsFiniteSet(fresh) /\ Cardinality(embedded \cap fresh) = w
  <2>1. embedded \cap fresh = fresh
    BY <1>5
  <2> QED
    BY <1>4, <1>5, <2>1, FS_Subset DEF w
<1>7. IsFiniteSet(embedded \ fresh) /\ d = Cardinality(embedded) - w
  BY <1>4, <1>6, FS_Difference DEF d
<1>8. w \in Nat /\ d \in Nat /\ Cardinality(embedded) \in Nat
  BY <1>4, <1>6, <1>7, FS_CardinalityType DEF w, d
<1> HIDE DEF CutInv
<1>9. Progress' /\ Complete'
  BY <1>1, <1>8 DEF ReportInv, Progress, Complete
<1>10. Ahead'
  <2> SUFFICES ASSUME ~short
               PROVE  /\ report.documents = stats.documents + 1
                      /\ report.chunks = (stats.written + w) + (stats.skipped + d)
    <3>1. /\ stats'.documents = stats.documents + 1
          /\ stats'.written = stats.written + w /\ stats'.skipped = stats.skipped + d
      BY <1>1
    <3>2. stats'.documents \in Nat /\ stats'.written \in Nat /\ stats'.skipped \in Nat
      BY <1>9 DEF Progress
    <3> QED
      BY <1>1, <3>1, <3>2 DEF Ahead
  <2>1. Cardinality(embedded) = Len(segs)
    BY <1>1, <1>3 DEF ReportInv, Complete
  <2>2. /\ report.documents = stats.documents + 1
        /\ report.chunks = stats.written + stats.skipped + Len(segs)
    BY <1>1 DEF ReportInv, Ahead
  <2>3. stats.written \in Nat /\ stats.skipped \in Nat
    BY DEF ReportInv, Progress
  <2>4. Len(segs) = w + d
    BY <1>7, <1>8, <2>1
  <2> QED
    BY <1>8, <2>2, <2>3, <2>4
<1> QED
  BY <1>9, <1>10 DEF ReportInv

LEMMA RunAgainKeepsReport == ASSUME CutInv', RunAgain PROVE ReportInv'
<1>1. /\ pc' = "next" /\ segs' = <<>> /\ batched' = 0 /\ embedded' = {} /\ short' = FALSE
      /\ report' = NothingReported /\ stats' = NothingWritten
  BY DEF RunAgain
<1>2. batched' \in 0..Len(segs') /\ embedded' \subseteq 1..batched' /\ embedded' = 1..batched'
  BY <1>1
<1>3. report' \in [documents : Nat, chunks : Nat]
      /\ stats' \in [documents : Nat, written : Nat, skipped : Nat]
  BY <1>1 DEF NothingReported, NothingWritten
<1>4. Progress' /\ Complete'
  BY <1>1, <1>2, <1>3 DEF Progress, Complete
<1>5. Ahead'
  BY <1>1 DEF Ahead, NothingReported, NothingWritten
<1> QED
  BY <1>4, <1>5 DEF ReportInv

LEMMA StepReportInv == ASSUME ReportInv, [Next]_vars PROVE ReportInv'
<1>1. CutInv'
  BY StepCutInv DEF ReportInv
<1> USE <1>1 DEF ReportInv, Progress, Complete, Ahead, store
<1> HIDE DEF CutInv
<1>2. CASE BeginDocument
  <2>1. pc = "next" /\ pc' = "cut" /\ segs' = <<>> /\ batched' = 0 /\ embedded' = {}
        /\ UNCHANGED <<backend, report, short, stats>>
    BY <1>2 DEF BeginDocument
  <2>2. 0 \in 0..Len(segs') /\ 1..0 = {}
    BY <2>1
  <2> QED
    BY <2>1, <2>2
<1>3. CASE Cut
  BY <1>3, CutKeepsReport
<1>4. CASE EmbedBatch
  BY <1>4, EmbedKeepsReport
<1>5. CASE EmbedFails
  BY <1>5 DEF EmbedFails
<1>6. CASE StoreInMemory
  BY <1>6, MemoryKeepsReport
<1>7. CASE StoreInQdrant
  BY <1>7 DEF StoreInQdrant
<1>8. CASE Finish
  BY <1>8 DEF Finish
<1>9. CASE RunAgain
  BY <1>9, RunAgainKeepsReport
<1>10. CASE UNCHANGED vars
  BY <1>10 DEF vars, pipeline
<1> QED
  BY <1>2, <1>3, <1>4, <1>5, <1>6, <1>7, <1>8, <1>9, <1>10 DEF Next

\* However a body is cut and batched, and whatever is skipped as a duplicate,
\* the report of a run whose embedding service answered in full agrees with
\* what the in-memory store counted (IngestionReport and UpsertStats).
THEOREM ReportIsTrueHolds == Spec => []ReportIsTrue
<1>1. ReportInv => ReportIsTrue
  BY DEF ReportInv, Progress, Ahead, ReportIsTrue
<1> QED
  BY <1>1, InitReportInv, StepReportInv, PTL DEF Spec

-----------------------------------------------------------------------------
(* The types, of which those of the pipeline follow from the above.         *)

Stages == {"next", "cut", "embed", "done", "failed"}

StoreOK ==
  /\ pc \in Stages
  /\ backend \in {"memory", "qdrant"} /\ runs \in 1..MaxRuns
  /\ DOMAIN documents \subseteq Ids /\ DOMAIN whole \subseteq Ids
  /\ DOMAIN chunks \subseteq Ids \X Nat /\ DOMAIN hashes \subseteq DOMAIN chunks

\* What a store may add: texts of embedded chunks of the document.
LEMMA TextsHaveIds ==
  ASSUME ReportInv, pc = "embed", NEW K, K \subseteq embedded
  PROVE  doc.id \in Ids /\ DOMAIN TextsOf(K) \subseteq Ids \X Nat
<1>1. doc.id \in Ids
  BY DEF ReportInv, CutInv, Inputs
<1>2. ASSUME NEW k \in K PROVE ChunkId(k) \in Ids \X Nat
  <2>1. batched \in Nat /\ k \in 1..batched
    BY SegsHaveLength DEF ReportInv, Progress
  <2>2. k - 1 \in Nat
    BY <2>1
  <2> QED
    BY <1>1, <2>2 DEF ChunkId
<1>3. DOMAIN TextsOf(K) = {ChunkId(k) : k \in K}
  BY DEF TextsOf
<1> QED
  BY <1>1, <1>2, <1>3

LEMMA WholeHasIds ==
  ASSUME StoreOK, doc.id \in Ids, whole' = WholeAfter
  PROVE  DOMAIN whole' \subseteq Ids
<1> DEFINE others == [d \in DOMAIN whole \ {doc.id} |-> whole[d]]
           this == IF embedded = 1..Len(segs) THEN [d \in {doc.id} |-> doc.body] ELSE Empty
<1>1. DOMAIN others \subseteq Ids /\ DOMAIN this \subseteq Ids
  BY DEF StoreOK, Empty
<1>2. whole' = Update(others, this)
  BY DEF WholeAfter
<1> HIDE DEF others, this
<1>3. DOMAIN Update(others, this) = DOMAIN others \cup DOMAIN this
  BY UpdateIs
<1> QED
  BY <1>1, <1>2, <1>3

LEMMA StoreInMemoryOK == ASSUME StoreOK, ReportInv, StoreInMemory PROVE StoreOK'
<1> DEFINE fresh == {k \in embedded : ~IsDuplicate(k)}
           now == [d \in {doc.id} |-> doc.body]
<1>1. /\ pc = "embed" /\ pc' \in Stages /\ UNCHANGED <<backend, runs>> /\ whole' = WholeAfter
      /\ documents' = Update(documents, now)
      /\ hashes' = Update(hashes, TextsOf(fresh)) /\ chunks' = Update(chunks, TextsOf(fresh))
  BY DEF StoreInMemory, Remember, Stages
<1>2. fresh \subseteq embedded
  OBVIOUS
<1> HIDE DEF fresh
<1>3. doc.id \in Ids /\ DOMAIN TextsOf(fresh) \subseteq Ids \X Nat
  BY <1>1, <1>2, TextsHaveIds
<1>4. DOMAIN now \subseteq Ids
  BY <1>3
<1> HIDE DEF now
<1>5. /\ DOMAIN documents' = DOMAIN documents \cup DOMAIN now
      /\ DOMAIN hashes' = DOMAIN hashes \cup DOMAIN TextsOf(fresh)
      /\ DOMAIN chunks' = DOMAIN chunks \cup DOMAIN TextsOf(fresh)
  BY <1>1, UpdateIs
<1>6. DOMAIN whole' \subseteq Ids
  BY <1>1, <1>3, WholeHasIds
<1> QED
  BY <1>1, <1>3, <1>4, <1>5, <1>6 DEF StoreOK

LEMMA StoreInQdrantOK == ASSUME StoreOK, ReportInv, StoreInQdrant PROVE StoreOK'
<1> DEFINE now == [d \in {doc.id} |-> doc.body]
<1>1. /\ pc = "embed" /\ pc' \in Stages /\ UNCHANGED <<backend, runs, hashes>>
      /\ documents' = Update(documents, now)
      /\ \/ UNCHANGED <<chunks, whole>>
         \/ chunks' = Update(chunks, TextsOf(embedded)) /\ whole' = WholeAfter
  BY DEF StoreInQdrant, Stages
<1>2. doc.id \in Ids /\ DOMAIN TextsOf(embedded) \subseteq Ids \X Nat
  BY <1>1, TextsHaveIds
<1>3. DOMAIN now \subseteq Ids
  BY <1>2
<1> HIDE DEF now
<1>4. DOMAIN documents' = DOMAIN documents \cup DOMAIN now
  BY <1>1, UpdateIs
<1>5. CASE UNCHANGED <<chunks, whole>>
  BY <1>1, <1>3, <1>4, <1>5 DEF StoreOK
<1>6. CASE chunks' = Update(chunks, TextsOf(embedded)) /\ whole' = WholeAfter
  <2>1. DOMAIN chunks' = DOMAIN chunks \cup DOMAIN TextsOf(embedded)
    BY <1>6, UpdateIs
  <2>2. DOMAIN whole' \subseteq Ids
    BY <1>2, <1>6, WholeHasIds
  <2> QED
    BY <1>1, <1>2, <1>3, <1>4, <2>1, <2>2 DEF StoreOK
<1> QED
  BY <1>1, <1>5, <1>6

LEMMA StepStoreOK == ASSUME StoreOK, ReportInv, [Next]_vars PROVE StoreOK'
<1>1. CASE UNCHANGED <<backend, runs, store>> /\ pc' \in Stages
  BY <1>1 DEF StoreOK, store
<1>2. CASE BeginDocument \/ Cut \/ EmbedBatch \/ EmbedFails \/ Finish
  <2>1. pc' \in Stages
    BY <1>2 DEF BeginDocument, Cut, EmbedBatch, EmbedFails, Finish, StoreOK, Stages
  <2> QED
    BY <1>1, <1>2, <2>1 DEF BeginDocument, Cut, EmbedBatch, EmbedFails, Finish
<1>3. CASE StoreInMemory
  BY <1>3, StoreInMemoryOK
<1>4. CASE StoreInQdrant
  BY <1>4, StoreInQdrantOK
<1>5. CASE RunAgain
  <2>1. /\ runs < MaxRuns /\ runs' = runs + 1 /\ UNCHANGED backend /\ pc' \in Stages
        /\ documents' = Empty /\ hashes' = Empty
        /\ (chunks' = Empty /\ whole' = Empty) \/ UNCHANGED <<chunks, whole>>
    BY <1>5 DEF RunAgain, Stages
  <2>2. runs' \in 1..MaxRuns
    BY <2>1, IngestionAssumption DEF StoreOK
  <2>3. DOMAIN Empty = {}
    BY DEF Empty
  <2> QED
    BY <2>1, <2>2, <2>3 DEF StoreOK
<1>6. CASE UNCHANGED vars
  BY <1>1, <1>6 DEF vars, pipeline, StoreOK
<1> QED
  BY <1>2, <1>3, <1>4, <1>5, <1>6 DEF Next

\* Types; and a body is never cut into more segments than it has bytes.
THEOREM TypeCorrectness == Spec => []TypeOK
<1>1. Init => ReportInv /\ StoreOK
  <2> SUFFICES ASSUME Init PROVE ReportInv /\ StoreOK
    OBVIOUS
  <2>1. DOMAIN Empty = {}
    BY DEF Empty
  <2>2. StoreOK
    BY <2>1, IngestionAssumption DEF Init, StoreOK, Stages
  <2> QED
    BY <2>2, InitReportInv
<1>2. (ReportInv /\ StoreOK) /\ [Next]_vars => (ReportInv /\ StoreOK)'
  BY StepReportInv, StepStoreOK
<1>3. ReportInv /\ StoreOK => TypeOK
  <2> SUFFICES ASSUME ReportInv, StoreOK PROVE TypeOK
    OBVIOUS
  <2>1. /\ config \in Configs /\ queue \in Seq([id : Ids, body : Seq(Int)])
        /\ doc.body \in Seq(Int)
        /\ pc \in {"cut", "embed"} => doc \in [id : Ids, body : Seq(Int)]
    BY DEF ReportInv, CutInv, Inputs, WellFormed
  <2>2. Offsets /\ Progress
    BY DEF ReportInv, CutInv
  <2>3. embedded \subseteq 1..Len(segs)
    BY <2>2, SegsHaveLength DEF ReportInv, Progress
  <2> QED
    BY <2>1, <2>2, <2>3 DEF TypeOK, StoreOK, Stages, Offsets, Progress
<1> QED
  BY <1>1, <1>2, <1>3, PTL DEF Spec

-----------------------------------------------------------------------------
(* What is parsed from a page is a body that the chunker may be given.      *)

\* The members of a finite set of numbers have the ranks 1, 2, ... in it.
LEMMA RanksAreAll ==
  ASSUME NEW n \in Nat, NEW K, K \subseteq 1..n
  PROVE  /\ Cardinality(K) \in Nat
         /\ K # {} => Cardinality(K) > 0
         /\ \A r \in 1..Cardinality(K) : \E i \in K : Cardinality({j \in K : j <= i}) = r
<1> DEFINE UpTo(i) == {j \in K : j <= i}
           rank == [i \in K |-> Cardinality(UpTo(i))]
<1>1. IsFiniteSet(K) /\ Cardinality(K) \in Nat
  <2>1. IsFiniteSet(1..n)
    BY FS_Interval
  <2> QED
    BY <2>1, FS_Subset, FS_CardinalityType
<1>2. ASSUME NEW i \in K
      PROVE  IsFiniteSet(UpTo(i)) /\ Cardinality(UpTo(i)) \in 1..Cardinality(K)
  <2>1. UpTo(i) \subseteq K
    OBVIOUS
  <2>2. IsFiniteSet(UpTo(i)) /\ Cardinality(UpTo(i)) <= Cardinality(K)
    BY <1>1, <2>1, FS_Subset
  <2>3. i \in UpTo(i)
    OBVIOUS
  <2>4. Cardinality(UpTo(i)) \in Nat /\ Cardinality(UpTo(i)) # 0
    BY <2>2, <2>3, FS_CardinalityType, FS_EmptySet
  <2> HIDE DEF UpTo
  <2> QED
    BY <1>1, <2>2, <2>4
<1>3. ASSUME NEW i \in K, NEW j \in K, i < j PROVE rank[i] < rank[j]
  <2>1. UpTo(i) \subseteq UpTo(j) /\ UpTo(i) # UpTo(j)
    <3>1. i \in Nat /\ j \in Nat /\ K \subseteq Nat
      OBVIOUS
    <3>2. j \in UpTo(j) /\ j \notin UpTo(i)
      BY <1>3, <3>1
    <3>3. ASSUME NEW k \in UpTo(i) PROVE k \in UpTo(j)
      <4>1. k \in Nat /\ k <= i
        BY <3>1
      <4> QED
        BY <1>3, <3>1, <4>1
    <3> QED
      BY <3>2, <3>3
  <2>2. Cardinality(UpTo(i)) < Cardinality(UpTo(j))
    BY <1>2, <2>1, FS_Subset
  <2> QED
    BY <2>2
<1>4. rank \in Injection(K, 1..Cardinality(K))
  <2>1. rank \in [K -> 1..Cardinality(K)]
    BY <1>2
  <2>2. ASSUME NEW i \in K, NEW j \in K, rank[i] = rank[j] PROVE i = j
    <3>1. i \in Nat /\ j \in Nat /\ rank[i] \in Nat /\ rank[j] \in Nat
      BY <1>1, <1>2
    <3>2. ~(i < j) /\ ~(j < i)
      BY <1>3, <2>2, <3>1
    <3> QED
      BY <3>1, <3>2
  <2> HIDE DEF rank
  <2> QED
    BY <2>1, <2>2 DEF Injection, IsInjective
<1>5. rank \in Surjection(K, 1..Cardinality(K))
  <2>1. IsFiniteSet(1..Cardinality(K)) /\ Cardinality(1..Cardinality(K)) = Cardinality(K)
    BY <1>1, FS_Interval
  <2> HIDE DEF rank
  <2> QED
    BY <1>4, <2>1, FS_Injection
<1>6. \A r \in 1..Cardinality(K) : \E i \in K : rank[i] = r
  <2> HIDE DEF rank
  <2> QED
    BY <1>5 DEF Surjection
<1>7. K # {} => Cardinality(K) > 0
  BY <1>1, FS_EmptySet
<1>8. \A r \in 1..Cardinality(K) : \E i \in K : Cardinality(UpTo(i)) = r
  BY <1>6
<1> QED
  BY <1>1, <1>7, <1>8
\* Joining the words of a text with any gives a body for the chunker.
LEMMA JoinedIsBody ==
  ASSUME NEW text, IsText(text), HasWords(text)
  PROVE  Joined(text) \in Seq(Int) /\ Joined(text) # <<>> /\ Joined(text)[1] >= 0
<1> DEFINE kept == {i \in DOMAIN text : \/ text[i] # Space
                                       \/ /\ i > 1 /\ text[i - 1] # Space
                                          /\ \E j \in i..Len(text) : text[j] # Space}
           RankIs(i, n) == Cardinality({j \in kept : j <= i}) = n
           C == Cardinality(kept)
           nth(n) == CHOOSE i \in kept : RankIs(i, n)
<1>1. /\ text \in Seq(Int) /\ Len(text) \in Nat /\ DOMAIN text = 1..Len(text)
      /\ \A i \in 1..Len(text) : text[i] \in Int
      /\ \A i \in 1..Len(text) : text[i] < 0 => i > 1 /\ text[i - 1] # Space
  BY DEF IsText
<1>2. kept \subseteq 1..Len(text) /\ kept # {}
  BY <1>1 DEF HasWords
<1>3. Joined(text) = [n \in 1..C |-> text[nth(n)]]
  BY DEF Joined
<1>4. ASSUME NEW i \in kept, \A j \in kept : ~(j < i) PROVE text[i] >= 0
  <2>1. CASE text[i] = Space
    BY <2>1 DEF Space
  <2>2. CASE text[i] # Space
    <3> SUFFICES ASSUME text[i] < 0 PROVE FALSE
      BY <1>1, <1>2
    <3>1. i > 1 /\ text[i - 1] # Space
      BY <1>1, <1>2
    <3>2. i - 1 \in kept /\ i - 1 < i
      BY <1>1, <1>2, <3>1
    <3> QED
      BY <1>4, <3>2
  <2> QED
    BY <2>1, <2>2
<1> HIDE DEF kept
<1>5. C \in Nat /\ C > 0 /\ \A n \in 1..C : \E i \in kept : RankIs(i, n)
  BY <1>1, <1>2, RanksAreAll
<1>6. ASSUME NEW n \in 1..C PROVE nth(n) \in kept /\ RankIs(nth(n), n)
  BY <1>5
<1>7. ASSUME NEW n \in 1..C PROVE text[nth(n)] \in Int
  BY <1>1, <1>2, <1>6
<1>11. nth(1) \in kept /\ RankIs(nth(1), 1)
  <2>1. 1 \in 1..C
    BY <1>5
  <2> HIDE DEF nth, RankIs, C
  <2> QED
    BY <1>6, <2>1
<1> HIDE DEF nth
<1>8. ASSUME NEW j \in kept PROVE ~(j < nth(1))
  <2> DEFINE U == {k \in kept : k <= nth(1)}
  <2>1. nth(1) \in kept /\ Cardinality(U) = 1
    BY <1>11
  <2>2. IsFiniteSet(U)
    <3>1. U \subseteq 1..Len(text)
      BY <1>2
    <3>2. IsFiniteSet(1..Len(text))
      BY <1>1, FS_Interval
    <3> QED
      BY <3>1, <3>2, FS_Subset
  <2>3. PICK x : U = {x}
    <3> HIDE DEF U
    <3> QED
      BY <2>1, <2>2, FS_Singleton
  <2>4. nth(1) \in 1..Len(text) /\ j \in 1..Len(text)
    BY <1>2, <2>1, Zenon
  <2> QED
    <3>1. \A k \in 1..Len(text) : k <= k
      OBVIOUS
    <3>2. nth(1) \in U
      BY <2>1, <2>4, <3>1
    <3>3. j < nth(1) => j \in U
      BY <1>1, <2>4
    <3>4. j \in U => j = nth(1)
      BY <2>3, <3>2, Zenon
    <3> QED
      BY <1>1, <2>4, <3>3, <3>4
<1>9. text[nth(1)] >= 0
  BY <1>4, <1>11, <1>8
<1> HIDE DEF C
<1>10. Joined(text) \in Seq(Int) /\ Len(Joined(text)) = C /\ Joined(text)[1] = text[nth(1)]
  BY <1>3, <1>5, <1>7
<1> QED
  BY <1>5, <1>9, <1>10

LEMMA PickedHasWords ==
  ASSUME NEW page, IsPage(page), NEW list \in Seq(Selectors), HasWords(PickText(page, list))
  PROVE  IsText(PickText(page, list))
<1> DEFINE hits == {i \in DOMAIN list : HasWords(page[list[i]])}
           first == CHOOSE i \in hits : IsFirst(i, hits)
<1>1. hits # {} /\ PickText(page, list) = page[list[first]]
  <2>1. ~HasWords(<<>>)
    BY DEF HasWords
  <2> QED
    BY <2>1 DEF PickText
<1>2. first \in hits
  <2>1. hits \subseteq Nat
    OBVIOUS
  <2> QED
    BY <1>1, <2>1, FirstExists
<1>3. list[first] \in Selectors
  BY <1>2
<1> QED
  BY <1>1, <1>3 DEF IsPage

\* The document of a page that parses is one the pipeline may be given.
LEMMA DocumentIsGood ==
  ASSUME NEW page, IsPage(page), ParsePage(page).ok, NEW id \in Ids
  PROVE  Document(id, page) \in [id : Ids, body : Seq(Int)] /\ HasBody(Document(id, page))
<1> DEFINE list == <<"main", "article", "content", "body">>
           body == Joined(PickText(page, list))
<1>1. list \in Seq(Selectors)
  BY DEF Selectors
<1>2. HasWords(PickText(page, list)) /\ Document(id, page) = [id |-> id, body |-> body]
  BY DEF ParsePage, Document
<1>3. body \in Seq(Int) /\ body # <<>> /\ body[1] >= 0
  <2> HIDE DEF list
  <2> QED
    BY <1>1, <1>2, PickedHasWords, JoinedIsBody
<1> HIDE DEF body
<1> QED
  BY <1>2, <1>3 DEF HasBody, WellFormed
-----------------------------------------------------------------------------
(* What the crawl hands to the pipeline keeps the pipeline's invariants.    *)

IngestionInv == StoredInv /\ ReportInv /\ StoreOK

Good(docs) == docs \in Seq([id : Ids, body : Seq(Int)]) /\ \A n \in 1..Len(docs) : HasBody(docs[n])

\* Before a document is begun the queue may be exchanged for another.
LEMMA QueueIsFree ==
  ASSUME IngestionInv, pc = "next", pc' \in {"next", "failed"}, Good(queue'),
         UNCHANGED <<config, backend, runs, doc, start, segs, batched, embedded, report, short, store>>
  PROVE  IngestionInv'
<1>1. CutInv /\ Progress /\ Complete /\ Ahead /\ HashInv
  BY DEF IngestionInv, ReportInv, StoredInv
<1>2. CutInv'
  <2>1. Inputs'
    BY <1>1 DEF CutInv, Inputs, Good, WellFormed
  <2>2. Offsets' /\ AtBoundaries'
    BY <1>1 DEF CutInv, Offsets, AtBoundaries
  <2>3. CursorInv'
    BY DEF CursorInv
  <2> QED
    BY <2>1, <2>2, <2>3 DEF CutInv
<1>3. StoredInv'
  BY <1>2, OthersKeepStored DEF IngestionInv
<1>4. ReportInv'
  BY <1>1, <1>2 DEF ReportInv, Progress, Complete, Ahead, store
<1>5. StoreOK'
  BY DEF IngestionInv, StoreOK, Stages, store
<1> QED
  BY <1>3, <1>4, <1>5 DEF IngestionInv

LEMMA InitIngestion == ASSUME Init PROVE IngestionInv
<1>1. DOMAIN Empty = {}
  BY DEF Empty
<1>2. StoreOK
  BY <1>1, IngestionAssumption DEF Init, StoreOK, Stages
<1> QED
  BY <1>2, InitStoredInv, InitReportInv DEF IngestionInv

LEMMA StepIngestion == ASSUME IngestionInv, [Next]_vars PROVE IngestionInv'
  BY StepStoredInv, StepReportInv, StepStoreOK DEF IngestionInv

-----------------------------------------------------------------------------
(* The crawl.                                                              *)

CrawlOK ==
  /\ site \in Sites
  /\ stack \in Seq(site.files)
  /\ Good(found)
  /\ frontier \subseteq site.urls
  /\ fetcher = [f \in Fetchers |-> fetcher[f]]
  /\ \A f \in Fetchers : fetcher[f].at = "sleeping" => fetcher[f].url \in site.urls
  /\ at # "over" => pc = "next" /\ documents = Empty

LEMMA GoodGrows ==
  ASSUME NEW docs, Good(docs), NEW d \in [id : Ids, body : Seq(Int)], HasBody(d)
  PROVE  Good(Append(docs, d))
<1> DEFINE Docs == [id : Ids, body : Seq(Int)]
<1>1. docs \in Seq(Docs) /\ \A n \in 1..Len(docs) : HasBody(docs[n])
  BY DEF Good
<1> HIDE DEF Docs
<1>2. /\ Append(docs, d) \in Seq(Docs) /\ Len(docs) \in Nat /\ Len(Append(docs, d)) = Len(docs) + 1
      /\ \A n \in 1..Len(docs) : Append(docs, d)[n] = docs[n]
      /\ Append(docs, d)[Len(docs) + 1] = d
  BY <1>1 DEF Docs
<1>3. ASSUME NEW n \in 1..(Len(docs) + 1) PROVE HasBody(Append(docs, d)[n])
  BY <1>1, <1>2
<1> QED
  BY <1>2, <1>3 DEF Good, Docs

\* The order in which a directory is read is a sequence of its entries.
LEMMA OrderIsSeq ==
  ASSUME NEW S, IsFiniteSet(S), NEW order \in SetToSeqs(S)
  PROVE  /\ order \in Seq(S)
         /\ S = {order[i] : i \in 1..Len(order)}
<1> DEFINE C == Cardinality(S)
<1>1. C \in Nat /\ order \in [1..C -> S] /\ \A i, j \in 1..C : i # j => order[i] # order[j]
  BY FS_CardinalityType DEF SetToSeqs
<1> HIDE DEF C
<1>2. order \in Seq(S) /\ Len(order) = C
  BY <1>1
<1>3. order \in Surjection(1..C, S)
  <2>1. IsFiniteSet(1..C) /\ Cardinality(1..C) = C
    BY <1>1, FS_Interval
  <2>2. order \in Injection(1..C, S)
    BY <1>1 DEF Injection, IsInjective
  <2> QED
    BY <2>1, <2>2, FS_Injection DEF C
<1> QED
  BY <1>2, <1>3 DEF Surjection

LEMMA StartOK ==
  ASSUME NEW s \in Sites, StartCrawl(s), pc' = "next", documents' = Empty
  PROVE  CrawlOK'
<1>1. /\ site' = s /\ found' = <<>> /\ frontier' = s.urls /\ fetcher' = [f \in Fetchers |-> Idle]
      /\ stack' = <<s.root>> \/ stack' = <<>>
  BY DEF StartCrawl
<1>2. stack' \in Seq(s.files)
  <2> DEFINE S == s.files
             r == s.root
  <2>1. r \in S
    BY CrawlAssumption
  <2>2. stack' = <<r>> \/ stack' = <<>>
    BY <1>1
  <2> HIDE DEF S, r
  <2>4. <<r>> \in Seq(S) /\ <<>> \in Seq(S)
    BY <2>1
  <2>3. stack' \in Seq(S)
    BY <2>2, <2>4, Zenon
  <2> QED
    BY <2>3 DEF S
<1>3. Good(found')
  BY <1>1 DEF Good
<1>4. /\ fetcher' = [f \in Fetchers |-> fetcher'[f]]
      /\ \A f \in Fetchers : fetcher'[f].at = "idle"
  BY <1>1 DEF Idle
<1> QED
  BY <1>1, <1>2, <1>3, <1>4 DEF CrawlOK

LEMMA VisitOK ==
  ASSUME CrawlOK, Visit
  PROVE  CrawlOK'
<1> DEFINE entry == Last(stack)
<1>1. PICK order \in SetToSeqs(Listing(entry)) :
        /\ stack' = Front(stack) \o order
        /\ found' = IF entry.kind # "html" THEN found
                    ELSE IF ParsePage(entry.page).ok
                    THEN Append(found, Document(entry.name, entry.page)) ELSE AfterBadPage
  BY DEF Visit
<1>2. /\ UNCHANGED <<site, at, frontier, fetcher, pc, documents>> /\ stack # <<>>
      /\ site \in Sites /\ stack \in Seq(site.files) /\ Good(found)
  BY DEF Visit, CrawlOK, vars, pipeline, store, web
<1>3. entry \in site.files /\ Front(stack) \in Seq(site.files)
  <2> DEFINE S == site.files
  <2>1. stack \in Seq(S) /\ stack # <<>>
    BY <1>2
  <2> HIDE DEF S
  <2>2. Len(stack) \in Nat \ {0} /\ stack[Len(stack)] \in S /\ SubSeq(stack, 1, Len(stack) - 1) \in Seq(S)
    BY <2>1
  <2> QED
    BY <2>2 DEF Last, Front, S
<1> HIDE DEF entry
<1>4. /\ IsFiniteSet(Listing(entry)) /\ Listing(entry) \subseteq site.files
      /\ entry.kind = "html" => entry.name \in Ids /\ IsPage(entry.page)
  BY <1>2, <1>3, CrawlAssumption
<1>5. order \in Seq(site.files)
  BY <1>1, <1>4, OrderIsSeq
<1>6. Good(found')
  <2>1. CASE entry.kind = "html" /\ ParsePage(entry.page).ok
    BY <1>1, <1>2, <1>4, <2>1, DocumentIsGood, GoodGrows
  <2>2. CASE ~(entry.kind = "html" /\ ParsePage(entry.page).ok)
    BY <1>1, <1>2, <2>2 DEF AfterBadPage
  <2> QED
    BY <2>1, <2>2
<1>7. stack' \in Seq(site.files)
  BY <1>1, <1>3, <1>5
<1> QED
  BY <1>2, <1>6, <1>7 DEF CrawlOK
LEMMA TakeOK ==
  ASSUME CrawlOK, NEW f \in Fetchers, NEW url, Take(f, url)
  PROVE  CrawlOK'
<1>1. /\ url \in frontier /\ frontier' = frontier \ {url}
      /\ UNCHANGED <<site, at, stack, found, pc, documents>>
      /\ \/ UNCHANGED fetcher
         \/ \E t : fetcher' = [fetcher EXCEPT ![f] = [at |-> "sleeping", url |-> url, wakes |-> t]]
  BY DEF Take, vars, pipeline, store
<1>2. CASE UNCHANGED fetcher
  BY <1>1, <1>2 DEF CrawlOK, Good
<1>3. ASSUME NEW t, fetcher' = [fetcher EXCEPT ![f] = [at |-> "sleeping", url |-> url, wakes |-> t]]
      PROVE  CrawlOK'
  <2>1. \A g \in Fetchers : fetcher'[g] = IF g = f THEN [at |-> "sleeping", url |-> url, wakes |-> t]
                                          ELSE fetcher[g]
    BY <1>3 DEF CrawlOK
  <2>2. url \in site.urls
    BY <1>1 DEF CrawlOK
  <2>3. \A g \in Fetchers : fetcher'[g].at = "sleeping" => fetcher'[g].url \in site.urls
    BY <2>1, <2>2 DEF CrawlOK
  <2>4. fetcher' = [g \in Fetchers |-> fetcher'[g]]
    BY <1>3 DEF CrawlOK
  <2> QED
    BY <1>1, <2>3, <2>4 DEF CrawlOK, Good
<1> QED
  BY <1>1, <1>2, <1>3

LEMMA FetchOK ==
  ASSUME CrawlOK, NEW f \in Fetchers, Fetch(f)
  PROVE  CrawlOK'
<1> DEFINE url == fetcher[f].url
<1>1. /\ fetcher[f].at = "sleeping" /\ fetcher' = [fetcher EXCEPT ![f] = Idle]
      /\ UNCHANGED <<site, at, stack, frontier, pc, documents>>
      /\ \/ found' = found
         \/ ParsePage(url.page).ok /\ found' = Append(found, Document(DeriveId(url.path), url.page))
  BY DEF Fetch, vars, pipeline, store
<1>2. DeriveId(url.path) \in Ids /\ IsPage(url.page)
  BY <1>1, CrawlAssumption DEF CrawlOK
<1> HIDE DEF url
<1>3. Good(found')
  <2>1. Good(found)
    BY DEF CrawlOK
  <2> QED
    BY <1>1, <1>2, <2>1, DocumentIsGood, GoodGrows
<1>4. /\ fetcher' = [g \in Fetchers |-> fetcher'[g]]
      /\ \A g \in Fetchers : fetcher'[g].at = "sleeping" => fetcher'[g] = fetcher[g]
  BY <1>1 DEF CrawlOK, Idle
<1> QED
  BY <1>1, <1>3, <1>4 DEF CrawlOK

LEMMA HandOverOK ==
  ASSUME CrawlOK, HandOver
  PROVE  CrawlOK'
<1>1. /\ at' = "over" /\ stack' = <<>> /\ found' = <<>> /\ frontier' = {}
      /\ fetcher' = [f \in Fetchers |-> Idle] /\ UNCHANGED site
  BY DEF HandOver
<1>2. Good(found') /\ stack' \in Seq(site.files)
  BY <1>1 DEF Good
<1> QED
  BY <1>1, <1>2 DEF CrawlOK, Idle

\* The pipeline runs when the crawl is over, and never before.
LEMMA StepCrawlOK == ASSUME CrawlOK, [CrawlNext]_allVars PROVE CrawlOK'
<1>1. CASE BeginCrawl
  BY <1>1, StartOK DEF BeginCrawl, CrawlOK, vars, pipeline, store
<1>2. CASE Visit
  BY <1>2, VisitOK
<1>3. CASE VisitFails
  <2>1. /\ at' = "over" /\ stack' = <<>> /\ found' = <<>> /\ UNCHANGED <<site, frontier, fetcher>>
    BY <1>3 DEF VisitFails, web
  <2>2. Good(found') /\ stack' \in Seq(site.files)
    BY <2>1 DEF Good
  <2> QED
    BY <2>1, <2>2 DEF CrawlOK
<1>4. CASE HandOver
  BY <1>4, HandOverOK
<1>5. CASE PipelineStep
  BY <1>5 DEF PipelineStep, CrawlOK, crawl, web, Good
<1>6. CASE CrawlAgain
  <2>1. PICK s \in Sites : StartCrawl(s)
    BY <1>6 DEF CrawlAgain
  <2>2. pc' = "next" /\ documents' = Empty
    BY <1>6 DEF CrawlAgain, RunAgain
  <2> QED
    BY <2>1, <2>2, StartOK
<1>7. ASSUME UNCHANGED <<site, at, stack, found, frontier, fetcher, pc, documents>> PROVE CrawlOK'
  BY <1>7 DEF CrawlOK, Good
<1>8. CASE Tick \/ UNCHANGED allVars
  BY <1>7, <1>8 DEF Tick, allVars, crawl, web, vars, pipeline, store
<1>9. ASSUME NEW host, ReadRobots(host) \/ Override(host) PROVE CrawlOK'
  BY <1>7, <1>9 DEF ReadRobots, Override, vars, pipeline, store
<1>10. ASSUME NEW f \in Fetchers, Fetch(f) PROVE CrawlOK'
  BY <1>10, FetchOK
<1>11. ASSUME NEW f \in Fetchers, NEW url \in frontier, Take(f, url) PROVE CrawlOK'
  BY <1>11, TakeOK
<1> QED
  BY <1>1, <1>2, <1>3, <1>4, <1>5, <1>6, <1>8, <1>9, <1>10, <1>11 DEF CrawlNext, ProgramStep

\* Everything that is checked of the pipeline on its own holds behind a crawl.
LEMMA StepBoth ==
  ASSUME CrawlOK, IngestionInv, [CrawlNext]_allVars PROVE CrawlOK' /\ IngestionInv'
<1>1. CrawlOK'
  BY StepCrawlOK
<1>2. CASE [Next]_vars
  BY <1>1, <1>2, StepIngestion
<1>3. CASE VisitFails
  <2>1. /\ pc = "next" /\ pc' = "failed"
        /\ UNCHANGED <<config, backend, runs, queue, doc, start, segs, batched, embedded, report, short, store>>
    BY <1>3 DEF VisitFails, CrawlOK
  <2>2. Good(queue)
    BY DEF IngestionInv, StoredInv, CutInv, Inputs, Good
  <2> QED
    BY <1>1, <2>1, <2>2, QueueIsFree
<1>4. CASE HandOver
  <2>1. /\ pc = "next" /\ pc' = "next" /\ queue' = found /\ Good(found)
        /\ UNCHANGED <<config, backend, runs, doc, start, segs, batched, embedded, report, short, store>>
    BY <1>4 DEF HandOver, CrawlOK
  <2> QED
    BY <1>1, <2>1, QueueIsFree
<1>5. [Next]_vars \/ VisitFails \/ HandOver
  <2>1. CASE PipelineStep \/ CrawlAgain
    BY <2>1 DEF PipelineStep, CrawlAgain, Next
  <2>2. CASE BeginCrawl \/ Visit \/ Tick \/ UNCHANGED allVars
    BY <2>2 DEF BeginCrawl, Visit, Tick, allVars
  <2>3. ASSUME NEW host, ReadRobots(host) \/ Override(host) PROVE UNCHANGED vars
    BY <2>3 DEF ReadRobots, Override
  <2>4. ASSUME NEW f, Fetch(f) PROVE UNCHANGED vars
    BY <2>4 DEF Fetch
  <2>5. ASSUME NEW f, NEW url, Take(f, url) PROVE UNCHANGED vars
    BY <2>5 DEF Take
  <2> QED
    BY <2>1, <2>2, <2>3, <2>4, <2>5 DEF CrawlNext, ProgramStep
<1> QED
  BY <1>1, <1>2, <1>3, <1>4, <1>5

LEMMA CrawlInvariant == CrawlSpec => [](CrawlOK /\ IngestionInv)
<1>1. CrawlInit => CrawlOK /\ IngestionInv
  <2> SUFFICES ASSUME CrawlInit PROVE CrawlOK /\ IngestionInv
    OBVIOUS
  <2>1. Init /\ NoCrawl /\ site \in Sites
    BY DEF CrawlInit
  <2>2. Good(found) /\ stack \in Seq(site.files)
    BY <2>1 DEF NoCrawl, Good
  <2> QED
    BY <2>1, <2>2, InitIngestion DEF CrawlOK, NoCrawl, Init, Idle
<1>2. (CrawlOK /\ IngestionInv) /\ [CrawlNext]_allVars => (CrawlOK /\ IngestionInv)'
  BY StepBoth
<1> QED
  BY <1>1, <1>2, PTL DEF CrawlSpec

\* Behind a crawl of any site the chunker loses no text.
THEOREM CrawledSegmentsCoverBody == CrawlSpec => []SegmentsCoverBody
<1>1. IngestionInv => SegmentsCoverBody
  BY DEF IngestionInv, StoredInv, CutInv, CursorInv, AtBoundaries, Covered, SegmentsCoverBody
<1> QED
  BY <1>1, CrawlInvariant, PTL

\* No text of a document that was crawled and stored whole is lost.
THEOREM CrawledTextIsStored == CrawlSpec => []IngestedTextIsStored
<1>1. IngestionInv => IngestedTextIsStored
  BY DEF IngestionInv, StoredInv, Findable, IngestedTextIsStored
<1> QED
  BY <1>1, CrawlInvariant, PTL

\* The report of a run on what was crawled is what the store counted.
THEOREM CrawlReportIsTrue == CrawlSpec => []ReportIsTrue
<1>1. IngestionInv => ReportIsTrue
  BY DEF IngestionInv, ReportInv, Progress, Ahead, ReportIsTrue
<1> QED
  BY <1>1, CrawlInvariant, PTL

-----------------------------------------------------------------------------
(* The rate limiter.                                                       *)

\* The bucket of a host is ready when the interval of its last slot is over.
Reserved(host) ==
  LET last == granted[host][Len(granted[host])]
  IN  buckets[host].ready = last.slot + last.interval

LimiterOK ==
  /\ clock \in Nat
  /\ \A h \in DOMAIN buckets : buckets[h] \in [ready : Nat, interval : Nat]
  /\ \A h \in DOMAIN granted :
       /\ h \in DOMAIN buckets
       /\ granted[h] \in Seq([asked : Nat, slot : Nat, interval : Nat]) /\ granted[h] # <<>>
       /\ Reserved(h)
  /\ SlotsKeepTheirDistance

\* A slot of a host's sequence of grants follows the one before it.
Follows(grants, n) ==
  LET due == grants[n - 1].slot + grants[n - 1].interval
  IN  grants[n].slot = (IF grants[n].asked > due THEN grants[n].asked ELSE due)

LEMMA IntervalKeeps ==
  ASSUME LimiterOK, NEW host, NEW interval \in Nat, SetInterval(host, interval),
         UNCHANGED <<clock, granted>>
  PROVE  LimiterOK'
<1>1. /\ DOMAIN buckets' = DOMAIN buckets \cup {host}
      /\ \A h \in DOMAIN buckets : h # host => buckets'[h] = buckets[h]
      /\ buckets'[host] = [Bucket(host, interval) EXCEPT !.interval = interval]
  BY DEF SetInterval, WithBucket
<1>2. Bucket(host, interval) \in [ready : Nat, interval : Nat]
  BY DEF Bucket, LimiterOK
<1>3. /\ buckets'[host] \in [ready : Nat, interval : Nat]
      /\ buckets'[host].ready = Bucket(host, interval).ready
  BY <1>1, <1>2
<1>4. host \in DOMAIN granted => buckets'[host].ready = buckets[host].ready
  BY <1>3 DEF Bucket, LimiterOK
<1>5. \A h \in DOMAIN granted : Reserved(h)'
  BY <1>1, <1>4 DEF LimiterOK, Reserved
<1>6. \A h \in DOMAIN buckets' : buckets'[h] \in [ready : Nat, interval : Nat]
  BY <1>1, <1>3 DEF LimiterOK
<1> QED
  BY <1>1, <1>5, <1>6 DEF LimiterOK, SlotsKeepTheirDistance

LEMMA SlotKeeps ==
  ASSUME LimiterOK, NEW host, AcquireSlot(host), UNCHANGED clock
  PROVE  LimiterOK'
<1> DEFINE bucket == Bucket(host, DefaultInterval)
           grant == [asked |-> clock, slot |-> Slot(bucket), interval |-> bucket.interval]
           before == IF host \in DOMAIN granted THEN granted[host] ELSE <<>>
           Grants == [asked : Nat, slot : Nat, interval : Nat]
<1>1. /\ DOMAIN buckets' = DOMAIN buckets \cup {host}
      /\ \A h \in DOMAIN buckets : h # host => buckets'[h] = buckets[h]
      /\ buckets'[host] = [bucket EXCEPT !.ready = NextReady(bucket)]
      /\ DOMAIN granted' = DOMAIN granted \cup {host}
      /\ \A h \in DOMAIN granted : h # host => granted'[h] = granted[h]
      /\ granted'[host] = Append(before, grant)
  BY DEF AcquireSlot, WithBucket
<1>2. bucket \in [ready : Nat, interval : Nat] /\ clock \in Nat
  BY CrawlAssumption DEF Bucket, LimiterOK
<1>3. host \in DOMAIN granted => /\ bucket = buckets[host] /\ Reserved(host)
                                 /\ before \in Seq(Grants) /\ before # <<>>
  BY DEF Bucket, LimiterOK
<1>4. before \in Seq(Grants)
  BY <1>3
<1> HIDE DEF bucket
<1>5. /\ Slot(bucket) \in Nat /\ NextReady(bucket) = Slot(bucket) + bucket.interval
      /\ Slot(bucket) = IF clock > bucket.ready THEN clock ELSE bucket.ready
  BY <1>2 DEF Slot, NextReady, Later
<1>6. /\ buckets'[host] \in [ready : Nat, interval : Nat]
      /\ buckets'[host].ready = Slot(bucket) + bucket.interval
  BY <1>1, <1>2, <1>5
<1>7. /\ grant \in Grants /\ grant.asked = clock /\ grant.slot = Slot(bucket)
      /\ grant.interval = bucket.interval
  BY <1>2, <1>5
<1> HIDE DEF grant, Grants
<1>8. /\ Append(before, grant) \in Seq(Grants) /\ Append(before, grant) # <<>>
      /\ Len(before) \in Nat /\ Len(Append(before, grant)) = Len(before) + 1
      /\ Append(before, grant)[Len(before) + 1] = grant
      /\ \A n \in 1..Len(before) : Append(before, grant)[n] = before[n]
  <2> HIDE DEF before
  <2> QED
    BY <1>4, <1>7
<1>9. Reserved(host)'
  BY <1>1, <1>6, <1>7, <1>8 DEF Reserved
<1>10. \A n \in 2..(Len(before) + 1) : Follows(Append(before, grant), n)
  <2>1. ASSUME NEW n \in 2..(Len(before) + 1), n # Len(before) + 1
        PROVE  Follows(Append(before, grant), n)
    <3>1. n \in 1..Len(before) /\ n - 1 \in 1..Len(before) /\ n \in 2..Len(before)
      BY <1>8, <2>1
    <3>2. host \in DOMAIN granted
      BY <3>1
    <3>3. Follows(before, n)
      BY <3>1, <3>2 DEF LimiterOK, SlotsKeepTheirDistance, Follows
    <3> QED
      BY <1>8, <3>1, <3>3 DEF Follows
  <2>2. ASSUME Len(before) + 1 \in 2..(Len(before) + 1)
        PROVE  Follows(Append(before, grant), Len(before) + 1)
    <3>1. Len(before) \in 1..Len(before) /\ (Len(before) + 1) - 1 = Len(before)
      BY <1>8, <2>2
    <3>2. host \in DOMAIN granted
      BY <3>1
    <3>3. bucket.ready = before[Len(before)].slot + before[Len(before)].interval
      BY <1>3, <3>2 DEF Reserved
    <3>4. bucket.ready \in Nat
      BY <1>2
    <3> HIDE DEF before
    <3> QED
      BY <1>2, <1>5, <1>7, <1>8, <3>1, <3>3, <3>4 DEF Follows
  <2> QED
    BY <2>1, <2>2
<1>11. SlotsKeepTheirDistance'
  <2>1. ASSUME NEW h \in DOMAIN granted', NEW n \in 2..Len(granted'[h])
        PROVE  Follows(granted'[h], n)
    <3>1. CASE h = host
      BY <1>1, <1>8, <1>10, <2>1, <3>1
    <3>2. CASE h # host
      <4>1. h \in DOMAIN granted /\ granted'[h] = granted[h]
        BY <1>1, <2>1, <3>2
      <4>2. \A k \in 2..Len(granted[h]) : Follows(granted[h], k)
        BY <4>1 DEF LimiterOK, SlotsKeepTheirDistance, Follows
      <4> QED
        BY <2>1, <4>1, <4>2
    <3> QED
      BY <3>1, <3>2
  <2> QED
    BY <2>1 DEF SlotsKeepTheirDistance, Follows
<1>12. ASSUME NEW h \in DOMAIN granted'
       PROVE  /\ h \in DOMAIN buckets' /\ Reserved(h)'
              /\ granted'[h] \in Seq(Grants) /\ granted'[h] # <<>>
  <2>1. CASE h = host
    BY <1>1, <1>8, <1>9, <2>1
  <2>2. CASE h # host
    BY <1>1, <2>2 DEF LimiterOK, Reserved, Grants
  <2> QED
    BY <2>1, <2>2
<1>13. \A h \in DOMAIN buckets' : buckets'[h] \in [ready : Nat, interval : Nat]
  BY <1>1, <1>6 DEF LimiterOK
<1> QED
  BY <1>2, <1>11, <1>12, <1>13 DEF LimiterOK, Grants

LEMMA NoSlots == ASSUME clock = 0, buckets = Empty, granted = Empty PROVE LimiterOK
<1>1. DOMAIN Empty = {}
  BY DEF Empty
<1> QED
  BY <1>1 DEF LimiterOK, SlotsKeepTheirDistance

LEMMA StepLimiterOK == ASSUME LimiterOK, [CrawlNext]_allVars PROVE LimiterOK'
<1>1. CASE UNCHANGED <<buckets, granted>> /\ clock' \in Nat
  BY <1>1 DEF LimiterOK, Reserved, SlotsKeepTheirDistance
<1>2. CASE clock' = 0 /\ buckets' = Empty /\ granted' = Empty
  <2>1. DOMAIN Empty = {}
    BY DEF Empty
  <2> QED
    BY <1>2, <2>1 DEF LimiterOK, SlotsKeepTheirDistance
<1>3. clock \in Nat
  BY DEF LimiterOK
<1>4. CASE BeginCrawl \/ CrawlAgain \/ HandOver
  BY <1>2, <1>4 DEF BeginCrawl, CrawlAgain, HandOver, StartCrawl
<1>5. CASE Visit \/ VisitFails \/ PipelineStep \/ UNCHANGED allVars
  BY <1>1, <1>3, <1>5 DEF Visit, VisitFails, PipelineStep, allVars, crawl, web, limiter
<1>6. CASE Tick
  BY <1>1, <1>3, <1>6 DEF Tick
<1>7. ASSUME NEW host, ReadRobots(host) PROVE LimiterOK'
  BY <1>1, <1>3, <1>7, IntervalKeeps DEF ReadRobots
<1>8. ASSUME NEW host, Override(host) PROVE LimiterOK'
  BY <1>8, IntervalKeeps, CrawlAssumption DEF Override
<1>9. ASSUME NEW f, Fetch(f) PROVE LimiterOK'
  BY <1>1, <1>3, <1>9 DEF Fetch, limiter
<1>10. ASSUME NEW f, NEW url, Take(f, url) PROVE LimiterOK'
  <2>1. clock' = clock /\ (AcquireSlot(url.host) \/ UNCHANGED <<buckets, granted>>)
    BY <1>10 DEF Take
  <2> QED
    BY <1>1, <1>3, <2>1, SlotKeeps
<1> QED
  BY <1>4, <1>5, <1>6, <1>7, <1>8, <1>9, <1>10 DEF CrawlNext, ProgramStep

\* Slots of a host lie its interval apart, for any number of fetchers and
\* hosts and however often the interval changes.
THEOREM SlotsKeepTheirDistanceHolds == CrawlSpec => []SlotsKeepTheirDistance
<1>1. CrawlInit => LimiterOK
  BY NoSlots DEF CrawlInit, NoCrawl
<1>2. LimiterOK /\ [CrawlNext]_allVars => LimiterOK'
  BY StepLimiterOK
<1>3. LimiterOK => SlotsKeepTheirDistance
  BY DEF LimiterOK
<1> QED
  BY <1>1, <1>2, <1>3, PTL DEF CrawlSpec
-----------------------------------------------------------------------------
(* The walk of a directory.                                                *)

Members(seq) == {seq[i] : i \in 1..Len(seq)}

LEMMA MembersOfConcat ==
  ASSUME NEW T, NEW s \in Seq(T), NEW t \in Seq(T)
  PROVE  Members(s \o t) = Members(s) \cup Members(t)
<1>1. /\ Len(s) \in Nat /\ Len(t) \in Nat /\ Len(s \o t) = Len(s) + Len(t)
      /\ \A i \in 1..Len(s) : (s \o t)[i] = s[i]
      /\ \A i \in 1..Len(t) : (s \o t)[Len(s) + i] = t[i]
  OBVIOUS
<1>2. ASSUME NEW i \in 1..Len(s \o t) PROVE (s \o t)[i] \in Members(s) \cup Members(t)
  <2>1. CASE i \in 1..Len(s)
    BY <1>1, <2>1 DEF Members
  <2>2. CASE i \notin 1..Len(s)
    <3>1. i - Len(s) \in 1..Len(t) /\ Len(s) + (i - Len(s)) = i
      BY <1>1, <2>2
    <3> QED
      BY <1>1, <3>1 DEF Members
  <2> QED
    BY <2>1, <2>2
<1>3. ASSUME NEW i \in 1..Len(s) PROVE s[i] \in Members(s \o t)
  <2>1. i \in 1..Len(s \o t)
    BY <1>1
  <2> QED
    BY <1>1, <2>1 DEF Members
<1>4. ASSUME NEW i \in 1..Len(t) PROVE t[i] \in Members(s \o t)
  <2>1. Len(s) + i \in 1..Len(s \o t)
    BY <1>1
  <2> QED
    BY <1>1, <2>1 DEF Members
<1> QED
  BY <1>2, <1>3, <1>4 DEF Members

LEMMA MembersOfAppend ==
  ASSUME NEW T, NEW s \in Seq(T), NEW e
  PROVE  Members(Append(s, e)) = Members(s) \cup {e}
<1>1. /\ Len(s) \in Nat /\ Len(Append(s, e)) = Len(s) + 1
      /\ \A i \in 1..Len(s) : Append(s, e)[i] = s[i]
      /\ Append(s, e)[Len(s) + 1] = e
  OBVIOUS
<1>2. 1..(Len(s) + 1) = (1..Len(s)) \cup {Len(s) + 1}
  BY <1>1
<1> QED
  BY <1>1, <1>2 DEF Members

LEMMA MembersOfEnds ==
  ASSUME NEW T, NEW s \in Seq(T), s # <<>>
  PROVE  /\ Members(s) = Members(Front(s)) \cup {Last(s)}
         /\ Members(s) = Members(Tail(s)) \cup {Head(s)}
         /\ Members(s) \subseteq T
<1>1. /\ Len(s) \in Nat \ {0} /\ Front(s) \in Seq(T) /\ Last(s) \in T
      /\ s = Append(Front(s), Last(s))
  BY DEF Front, Last
<1>2. /\ Len(Tail(s)) = Len(s) - 1 /\ \A i \in 1..(Len(s) - 1) : Tail(s)[i] = s[i + 1]
      /\ Head(s) = s[1]
  OBVIOUS
<1>3. Members(s) = Members(Tail(s)) \cup {Head(s)}
  <2>1. ASSUME NEW i \in 1..Len(s), i # 1 PROVE s[i] \in Members(Tail(s))
    <3>1. i - 1 \in 1..Len(Tail(s)) /\ Tail(s)[i - 1] = s[i]
      BY <1>1, <1>2, <2>1
    <3> QED
      BY <3>1 DEF Members
  <2>2. ASSUME NEW i \in 1..Len(Tail(s)) PROVE Tail(s)[i] \in Members(s)
    <3>1. i + 1 \in 1..Len(s) /\ Tail(s)[i] = s[i + 1]
      BY <1>1, <1>2
    <3> QED
      BY <3>1 DEF Members
  <2>3. Head(s) \in Members(s)
    BY <1>1, <1>2 DEF Members
  <2> QED
    BY <1>2, <2>1, <2>2, <2>3 DEF Members
<1>4. Members(s) \subseteq T
  BY DEF Members
<1>5. Members(s) = Members(Front(s)) \cup {Last(s)}
  BY <1>1, MembersOfAppend
<1> QED
  BY <1>3, <1>4, <1>5

Closed(S) == \A d \in S : Listing(d) \subseteq S

\* What lies beneath some entries is the least closed set that holds them.
LEMMA BeneathIsLeast ==
  ASSUME NEW files, Closed(files), NEW R, R \subseteq files
  PROVE  /\ R \subseteq Beneath(files, R) /\ Beneath(files, R) \subseteq files
         /\ Closed(Beneath(files, R))
         /\ \A S \in SUBSET files : R \subseteq S /\ Closed(S) => Beneath(files, R) \subseteq S
  BY DEF Beneath, Closed

\* An entry and what lies beneath it: itself, and what lies beneath its listing.
LEMMA BeneathOne ==
  ASSUME NEW files, Closed(files), NEW R, R \subseteq files, NEW e, e \in files,
         NEW before, before = R \cup {e}, NEW after, after = R \cup Listing(e)
  PROVE  Beneath(files, before) = {e} \cup Beneath(files, after)
<1> DEFINE whole1 == Beneath(files, before)
           rest == Beneath(files, after)
<1>1. Listing(e) \subseteq files
  BY DEF Closed
<1>2. /\ R \cup {e} \subseteq whole1 /\ whole1 \subseteq files /\ Closed(whole1)
      /\ \A S \in SUBSET files : R \cup {e} \subseteq S /\ Closed(S) => whole1 \subseteq S
  BY BeneathIsLeast
<1>3. /\ R \cup Listing(e) \subseteq rest /\ rest \subseteq files /\ Closed(rest)
      /\ \A S \in SUBSET files : R \cup Listing(e) \subseteq S /\ Closed(S) => rest \subseteq S
  BY <1>1, BeneathIsLeast
<1> HIDE DEF whole1, rest
<1>4. Closed({e} \cup rest)
  BY <1>3 DEF Closed
<1>5. whole1 \subseteq {e} \cup rest
  BY <1>2, <1>3, <1>4
<1>6. R \cup Listing(e) \subseteq whole1
  BY <1>2 DEF Closed
<1>7. {e} \cup rest \subseteq whole1
  BY <1>2, <1>3, <1>6
<1> QED
  BY <1>5, <1>7 DEF whole1, rest

LEMMA BeneathNone == ASSUME NEW files PROVE Beneath(files, {}) = {}
<1>1. Closed({}) /\ Closed({} \cap files) /\ {} \in SUBSET files /\ {} \subseteq {}
  BY DEF Closed
<1>2. ASSUME NEW e \in Beneath(files, {}) PROVE FALSE
  BY <1>1 DEF Beneath, Closed
<1> QED
  BY <1>2

LEMMA SiteIsClosed ==
  ASSUME NEW s \in Sites
  PROVE  s.root \in s.files /\ Closed(s.files) /\ \A e \in s.files : IsFiniteSet(Listing(e))
  BY CrawlAssumption DEF Closed

-----------------------------------------------------------------------------
(* Every page is a document.                                               *)

\* The documents of a run that are still on their way to the store.
Underway == Members(queue) \cup (IF pc \in {"cut", "embed"} THEN {doc} ELSE {})

\* The pages of the tree are those found and those still to be visited.
PagesAhead == Pages = Members(found) \cup PagesOf(Beneath(site.files, Members(stack)))

\* Each page is in the store or underway, under its id, and nothing else is.
PagesKept ==
  /\ {p.id : p \in Pages} = DOMAIN documents \cup {p.id : p \in Underway}
  /\ Underway \subseteq Pages
  /\ \A d \in DOMAIN documents : [id |-> d, body |-> documents[d]] \in Pages
  /\ pc = "done" => queue = <<>>

WalkOK ==
  site.mode = "directory" =>
    /\ at = "crawling" => PagesAhead
    /\ at = "over" /\ pc # "failed" => PagesKept

LEMMA PagesOfUnion ==
  ASSUME NEW S, NEW T
  PROVE  PagesOf(S \cup T) = PagesOf(S) \cup PagesOf(T)
  BY DEF PagesOf

LEMMA StartWalk ==
  ASSUME NEW s \in Sites, StartCrawl(s)
  PROVE  WalkOK'
<1> SUFFICES ASSUME s.mode = "directory" PROVE PagesAhead'
  BY DEF StartCrawl, WalkOK
<1>1. site' = s /\ stack' = <<s.root>> /\ found' = <<>>
  BY DEF StartCrawl
<1>2. Members(<<s.root>>) = {s.root} /\ Members(<<>>) = {}
  BY DEF Members
<1> QED
  BY <1>1, <1>2 DEF PagesAhead, Pages

LEMMA VisitWalk ==
  ASSUME CrawlOK, WalkOK, Visit
  PROVE  WalkOK'
<1> SUFFICES ASSUME site.mode = "directory" PROVE PagesAhead'
  BY DEF Visit, WalkOK
<1> DEFINE entry == Last(stack)
           page == Document(entry.name, entry.page)
           parses == entry.kind = "html" /\ ParsePage(entry.page).ok
           F == site.files
           B == Beneath(F, Members(stack'))
<1>1. PICK order \in SetToSeqs(Listing(entry)) :
        stack' = Front(stack) \o order /\ found' = IF parses THEN Append(found, page) ELSE found
  BY DEF Visit, AfterBadPage
<1>2. /\ UNCHANGED site /\ stack # <<>> /\ stack \in Seq(F) /\ Good(found) /\ PagesAhead
      /\ Closed(F) /\ \A e \in F : IsFiniteSet(Listing(e))
  BY SiteIsClosed DEF Visit, CrawlOK, WalkOK
<1> HIDE DEF F
<1>3. /\ Members(stack) = Members(Front(stack)) \cup {entry} /\ Members(stack) \subseteq F
      /\ Front(stack) \in Seq(F)
  BY <1>2, MembersOfEnds DEF Front
<1>4. entry \in F /\ Listing(entry) \subseteq F
  BY <1>2, <1>3 DEF Closed
<1> HIDE DEF entry
<1>5. order \in Seq(F) /\ Members(order) = Listing(entry)
  BY <1>2, <1>4, OrderIsSeq DEF Members
<1>6. Members(stack') = Members(Front(stack)) \cup Listing(entry)
  BY <1>1, <1>3, <1>5, MembersOfConcat
<1>7. Beneath(F, Members(stack)) = {entry} \cup B
  <2> DEFINE R == Members(Front(stack))
  <2>1. R \subseteq F /\ entry \in F /\ Closed(F)
    BY <1>2, <1>3, <1>4
  <2>2. Members(stack) = R \cup {entry} /\ Members(stack') = R \cup Listing(entry)
    BY <1>3, <1>6
  <2> HIDE DEF R
  <2> QED
    BY <2>1, <2>2, BeneathOne
<1>8. PagesOf({entry} \cup B) = PagesOf({entry}) \cup PagesOf(B)
  BY PagesOfUnion
<1>9. PagesOf({entry}) = IF parses THEN {page} ELSE {}
  BY DEF PagesOf
<1>10. Members(found') = Members(found) \cup PagesOf({entry})
  BY <1>1, <1>2, <1>9, MembersOfAppend DEF Good
<1>11. Pages = Members(found) \cup PagesOf(Beneath(F, Members(stack)))
  BY <1>2 DEF PagesAhead, F
<1>12. Pages = Members(found') \cup PagesOf(B)
  BY <1>7, <1>8, <1>10, <1>11
<1> QED
  BY <1>2, <1>12 DEF PagesAhead, Pages, F

LEMMA HandOverWalk ==
  ASSUME CrawlOK, WalkOK, HandOver
  PROVE  WalkOK'
<1> SUFFICES ASSUME site.mode = "directory" PROVE PagesKept'
  BY DEF HandOver, WalkOK
<1>1. /\ at = "crawling" /\ pc = "next" /\ stack = <<>> /\ documents = Empty
      /\ queue' = found /\ UNCHANGED <<site, pc, documents>> /\ PagesAhead
  BY DEF HandOver, CrawlOK, WalkOK, store
<1>2. Members(<<>>) = {} /\ PagesOf({}) = {} /\ DOMAIN Empty = {}
  BY DEF Members, PagesOf, Empty
<1>3. Pages = Members(found)
  BY <1>1, <1>2, BeneathNone DEF PagesAhead
<1>4. Underway' = Pages /\ Pages' = Pages /\ DOMAIN documents' = {}
  BY <1>1, <1>2, <1>3 DEF Underway, Pages
<1> QED
  BY <1>1, <1>4 DEF PagesKept

\* What the pipeline takes from the queue it stores.
LEMMA PipelineWalk ==
  ASSUME WalkOK, PipelineStep, queue \in Seq([id : Ids, body : Seq(Int)])
  PROVE  WalkOK'
<1> SUFFICES ASSUME site.mode = "directory", pc' # "failed" PROVE PagesKept'
  BY DEF PipelineStep, crawl, WalkOK
<1>1. Pages' = Pages /\ at = "over" /\ (pc # "failed" => PagesKept)
  BY DEF PipelineStep, crawl, Pages, WalkOK
<1>2. CASE BeginDocument
  <2>1. /\ pc = "next" /\ pc' = "cut" /\ queue # <<>> /\ UNCHANGED documents
        /\ doc' = Head(queue) /\ queue' = Tail(queue)
    BY <1>2 DEF BeginDocument, store
  <2>2. Members(queue) = Members(Tail(queue)) \cup {Head(queue)}
    BY <2>1, MembersOfEnds
  <2>3. Underway' = Underway
    BY <2>1, <2>2 DEF Underway
  <2> QED
    BY <1>1, <2>1, <2>3 DEF PagesKept
<1>3. CASE Cut \/ EmbedBatch \/ Finish
  <2>1. /\ pc # "failed" /\ UNCHANGED <<documents, queue, doc>>
        /\ pc \in {"cut", "embed"} <=> pc' \in {"cut", "embed"}
        /\ pc' = "done" => queue = <<>>
    BY <1>3 DEF Cut, EmbedBatch, Finish, store
  <2>2. Underway' = Underway
    BY <2>1 DEF Underway
  <2> QED
    BY <1>1, <2>1, <2>2 DEF PagesKept
<1>4. CASE EmbedFails
  BY <1>4 DEF EmbedFails
<1>5. CASE StoreInMemory \/ StoreInQdrant
  <2>1. /\ pc = "embed" /\ pc' = "next" /\ UNCHANGED <<queue, doc>>
        /\ documents' = Update(documents, [d \in {doc.id} |-> doc.body])
    BY <1>5 DEF StoreInMemory, StoreInQdrant
  <2>2. /\ DOMAIN documents' = DOMAIN documents \cup {doc.id}
        /\ \A d \in DOMAIN documents' :
             documents'[d] = IF d = doc.id THEN doc.body ELSE documents[d]
    BY <2>1 DEF Update
  <2>3. Underway = Underway' \cup {doc} /\ PagesKept
    BY <1>1, <2>1 DEF Underway
  <2>4. doc \in Pages /\ doc = [id |-> doc.id, body |-> doc.body]
    <3>1. doc \in Pages
      BY <2>3 DEF PagesKept
    <3>2. PICK e : doc = [id |-> e.name, body |-> ParsePage(e.page).body]
      BY <3>1 DEF Pages, PagesOf, Document
    <3> QED
      BY <3>1, <3>2
  <2> QED
    BY <1>1, <2>1, <2>2, <2>3, <2>4 DEF PagesKept
<1> QED
  BY <1>2, <1>3, <1>4, <1>5 DEF PipelineStep

LEMMA StepWalk ==
  ASSUME CrawlOK, IngestionInv, WalkOK, [CrawlNext]_allVars PROVE WalkOK'
<1>1. ASSUME UNCHANGED <<site, at, stack, found, pc, queue, doc, documents>> PROVE WalkOK'
  BY <1>1 DEF WalkOK, PagesAhead, PagesKept, Underway, Pages
<1>2. ASSUME Crawling, UNCHANGED site PROVE WalkOK'
  BY <1>2 DEF Crawling, WalkOK
<1>3. CASE BeginCrawl
  <2>1. StartCrawl(site) /\ site \in Sites
    BY <1>3 DEF BeginCrawl, CrawlOK
  <2> QED
    BY <2>1, StartWalk
<1>4. CASE CrawlAgain
  BY <1>4, StartWalk DEF CrawlAgain
<1>5. CASE Visit
  BY <1>5, VisitWalk
<1>6. CASE VisitFails
  BY <1>6 DEF VisitFails, WalkOK
<1>7. CASE HandOver
  BY <1>7, HandOverWalk
<1>8. CASE PipelineStep
  BY <1>8, PipelineWalk DEF IngestionInv, StoredInv, CutInv, Inputs
<1>9. CASE Tick
  BY <1>2, <1>9 DEF Tick
<1>10. ASSUME NEW host, ReadRobots(host) \/ Override(host) PROVE WalkOK'
  BY <1>2, <1>10 DEF ReadRobots, Override
<1>11. ASSUME NEW f, Fetch(f) PROVE WalkOK'
  BY <1>2, <1>11 DEF Fetch
<1>12. ASSUME NEW f, NEW url, Take(f, url) PROVE WalkOK'
  BY <1>2, <1>12 DEF Take
<1>13. CASE UNCHANGED allVars
  BY <1>1, <1>13 DEF allVars, crawl, vars, pipeline, store
<1> QED
  BY <1>3, <1>4, <1>5, <1>6, <1>7, <1>8, <1>9, <1>10, <1>11, <1>12, <1>13
     DEF CrawlNext, ProgramStep

\* A run over any directory tree that has ended well has stored every page of
\* it that parses, and nothing that is none.
THEOREM EveryPageIsADocumentHolds == CrawlSpec => []EveryPageIsADocument
<1>1. CrawlInit => WalkOK
  BY DEF CrawlInit, WalkOK
<1>2. CrawlOK /\ IngestionInv /\ WalkOK /\ [CrawlNext]_allVars => WalkOK'
  BY StepWalk
<1>3. CrawlOK /\ WalkOK => EveryPageIsADocument
  <2> SUFFICES ASSUME CrawlOK, WalkOK, pc = "done", site.mode = "directory"
               PROVE  /\ {p.id : p \in Pages} = DOMAIN documents
                      /\ \A d \in DOMAIN documents : [id |-> d, body |-> documents[d]] \in Pages
    BY DEF EveryPageIsADocument
  <2>1. PagesKept /\ queue = <<>>
    BY DEF CrawlOK, WalkOK, PagesKept
  <2>2. Underway = {}
    BY <2>1 DEF Underway, Members
  <2> QED
    BY <2>1, <2>2 DEF PagesKept
<1> QED
  BY <1>1, <1>2, <1>3, CrawlInvariant, PTL DEF CrawlSpec

-----------------------------------------------------------------------------
(* robots.txt.                                                             *)

Lines == Seq([key : STRING, value : Seq(STRING), secs : Int])

LEMMA ParsingIs ==
  ASSUME NEW lines \in Lines
  PROVE  /\ Len(lines) \in Nat
         /\ Parsing(lines)[0] = [agents |-> {}, rule |-> FALSE, groups |-> [a \in {} |-> NoGroup]]
         /\ \A n \in 1..Len(lines) : Parsing(lines)[n] = ReadRobotsLine(Parsing(lines)[n - 1], lines[n])
<1> DEFINE base == [agents |-> {}, rule |-> FALSE, groups |-> [a \in {} |-> NoGroup]]
           Reads(g, m) == g = [n \in 0..m |-> IF n = 0 THEN base
                                              ELSE ReadRobotsLine(g[n - 1], lines[n])]
           S == {m \in Nat : ~\E g : Reads(g, m)}
<1>1. Len(lines) \in Nat
  BY DEF Lines
<1>2. S = {}
  <2> SUFFICES ASSUME S # {} PROVE FALSE
    OBVIOUS
  <2>1. PICK m \in S : IsFirst(m, S)
    BY FirstExists
  <2>2. m # 0
    <3>1. Reads([n \in 0..0 |-> base], 0)
      OBVIOUS
    <3> QED
      BY <2>1, <3>1
  <2>3. m \in Nat /\ m - 1 \in Nat
    BY <2>1, <2>2
  <2>4. m - 1 \notin S
    <3>1. ~(m <= m - 1)
      BY <2>3
    <3> QED
      BY <2>1, <3>1 DEF IsFirst
  <2>5. PICK g : Reads(g, m - 1)
    BY <2>3, <2>4
  <2> DEFINE h == [n \in 0..m |-> IF n < m THEN g[n] ELSE ReadRobotsLine(g[m - 1], lines[m])]
  <2> HIDE DEF base
  <2>6. ASSUME NEW n \in 0..m
        PROVE  h[n] = IF n = 0 THEN base ELSE ReadRobotsLine(h[n - 1], lines[n])
    <3>1. CASE n = m
      <4>1. m - 1 \in 0..m /\ m - 1 < m /\ ~(n < m) /\ n # 0
        BY <2>3, <2>2, <3>1
      <4> QED
        BY <3>1, <4>1
    <3>2. CASE n # m /\ n # 0
      <4>1. n \in 0..(m - 1) /\ n < m /\ n - 1 \in 0..m /\ n - 1 < m
        BY <2>3, <3>2
      <4>2. g[n] = ReadRobotsLine(g[n - 1], lines[n])
        BY <2>5, <3>2, <4>1
      <4> QED
        BY <3>2, <4>1, <4>2
    <3>3. CASE n = 0
      <4>1. n \in 0..(m - 1) /\ n < m
        BY <2>3, <3>3
      <4> QED
        BY <2>5, <3>3, <4>1
    <3> QED
      BY <3>1, <3>2, <3>3
  <2>7. Reads(h, m)
    <3>1. h = [n \in 0..m |-> h[n]]
      OBVIOUS
    <3> HIDE DEF h
    <3> QED
      BY <2>6, <3>1
  <2> HIDE DEF h
  <2> QED
    BY <2>1, <2>7
<1>3. Reads(Parsing(lines), Len(lines))
  <2>1. \E g : Reads(g, Len(lines))
    BY <1>1, <1>2
  <2>2. Parsing(lines) = CHOOSE g : Reads(g, Len(lines))
    BY DEF Parsing
  <2> HIDE DEF Reads
  <2> QED
    BY <2>1, <2>2
<1> HIDE DEF base
<1>4. /\ 0 \in 0..Len(lines)
      /\ \A n \in 1..Len(lines) : n \in 0..Len(lines) /\ n # 0
  BY <1>1
<1>5. Parsing(lines)[0] = base
  BY <1>3, <1>4
<1>6. \A n \in 1..Len(lines) : Parsing(lines)[n] = ReadRobotsLine(Parsing(lines)[n - 1], lines[n])
  BY <1>3, <1>4
<1> QED
  BY <1>1, <1>5, <1>6 DEF base

IsAgent(line) == line.key = "user-agent"

\* The user-agent lines among the first n that a rule on line n + 1 belongs to.
Open(lines, n) ==
  {j \in 1..n : /\ IsAgent(lines[j])
                /\ ~\E r, k \in j..n : r < k /\ IsRule(lines[r]) /\ IsAgent(lines[k])}

\* The rules of the first n lines for an agent.
RulesFor(lines, n, key, a) ==
  {lines[i].value : i \in {i \in 1..n : /\ lines[i].key = key /\ lines[i].value # <<>>
                                        /\ \E j \in DOMAIN lines : Belongs(lines, j, i)
                                                                   /\ lines[j].value = a}}
Named(lines, n) ==
  {lines[j].value : j \in {k \in DOMAIN lines : \E i \in 1..n : Belongs(lines, k, i)}}

\* What the parser knows after n lines.
ReadOK(lines, n, st) ==
  /\ st = [agents |-> st.agents, rule |-> st.rule, groups |-> st.groups]
  /\ st.agents = {lines[j].value : j \in Open(lines, n)}
  /\ st.rule \in BOOLEAN
  /\ st.rule <=> \E r \in 1..n : IsRule(lines[r]) /\ \A k \in r..n : ~IsAgent(lines[k])
  /\ DOMAIN st.groups = Named(lines, n)
  /\ \A a \in DOMAIN st.groups :
       /\ st.groups[a] = [allow |-> RulesFor(lines, n, "allow", a),
                          disallow |-> RulesFor(lines, n, "disallow", a),
                          delay |-> st.groups[a].delay]

LEMMA NoLines ==
  ASSUME NEW lines \in Lines
  PROVE  ReadOK(lines, 0, [agents |-> {}, rule |-> FALSE, groups |-> [a \in {} |-> NoGroup]])
<1>1. Open(lines, 0) = {} /\ Named(lines, 0) = {}
  BY DEF Open, Named
<1> QED
  BY <1>1 DEF ReadOK

LEMMA ExtendedIs ==
  ASSUME NEW A, NEW D, NEW delay, NEW line
  PROVE  LET new == Extended([allow |-> A, disallow |-> D, delay |-> delay], line)
         IN  new = [allow |-> A \cup (IF line.key = "allow" /\ line.value # <<>>
                                      THEN {line.value} ELSE {}),
                    disallow |-> D \cup (IF line.key = "disallow" /\ line.value # <<>>
                                         THEN {line.value} ELSE {}),
                    delay |-> new.delay]
<1>1. CASE line.key = "allow"
  BY <1>1 DEF Extended
<1>2. CASE line.key = "disallow"
  BY <1>2 DEF Extended
<1>3. CASE line.key \notin {"allow", "disallow"}
  BY <1>3 DEF Extended
<1> QED
  BY <1>1, <1>2, <1>3

LEMMA OneLine ==
  ASSUME NEW lines \in Lines, NEW n \in Nat, n + 1 \in 1..Len(lines),
         NEW st, ReadOK(lines, n, st)
  PROVE  ReadOK(lines, n + 1, ReadRobotsLine(st, lines[n + 1]))
<1> DEFINE line == lines[n + 1]
           new == ReadRobotsLine(st, line)
<1>1. /\ Len(lines) \in Nat /\ DOMAIN lines = 1..Len(lines)
      /\ 1..(n + 1) = (1..n) \cup {n + 1} /\ n + 1 \notin 1..n
      /\ \A j \in 1..n : j..(n + 1) = (j..n) \cup {n + 1}
  BY DEF Lines
<1>2. ~(IsAgent(line) /\ IsRule(line))
  BY DEF IsAgent, IsRule
\* A rule belongs to the open lines, in whatever file they stand.
<1>3. IsRule(line) => \A j \in DOMAIN lines : Belongs(lines, j, n + 1) <=> j \in Open(lines, n)
  BY <1>1, <1>2 DEF Belongs, Open, IsAgent
<1>4. ~IsRule(line) => \A j \in DOMAIN lines : ~Belongs(lines, j, n + 1)
  BY DEF Belongs
<1> DEFINE Rule(m) == \E r \in 1..m : IsRule(lines[r]) /\ \A k \in r..m : ~IsAgent(lines[k])
<1>6. ~IsAgent(line) => Open(lines, n + 1) = Open(lines, n)
  BY <1>1 DEF Open
<1>7. IsAgent(line) => Open(lines, n + 1) = {n + 1} \cup (IF st.rule THEN {} ELSE Open(lines, n))
  <2> SUFFICES ASSUME IsAgent(line)
               PROVE  Open(lines, n + 1) = {n + 1} \cup (IF st.rule THEN {} ELSE Open(lines, n))
    OBVIOUS
  <2>1. n + 1 \in Open(lines, n + 1)
    BY <1>1 DEF Open
  <2>2. ASSUME Rule(n), NEW j \in 1..n PROVE j \notin Open(lines, n + 1)
    <3> SUFFICES ASSUME IsAgent(lines[j]) PROVE j \notin Open(lines, n + 1)
      BY DEF Open
    <3>1. PICK r \in 1..n : IsRule(lines[r]) /\ \A k \in r..n : ~IsAgent(lines[k])
      BY <2>2
    <3>2. j < r
      BY <3>1
    <3>3. r \in j..(n + 1) /\ n + 1 \in j..(n + 1) /\ r < n + 1
      BY <3>2
    <3> QED
      BY <3>1, <3>3 DEF Open
  <2>3. ASSUME ~Rule(n), NEW j \in 1..n PROVE j \in Open(lines, n + 1) <=> j \in Open(lines, n)
    <3>1. ASSUME NEW r \in j..n, IsRule(lines[r])
          PROVE  \E k \in j..n : r < k /\ IsAgent(lines[k])
      <4>1. PICK k \in r..n : IsAgent(lines[k])
        BY <2>3, <3>1
      <4>2. k # r
        BY <3>1, <4>1 DEF IsAgent, IsRule
      <4> QED
        BY <4>1, <4>2
    <3> QED
      BY <1>1, <2>3, <3>1 DEF Open
  <2>4. st.rule <=> Rule(n)
    BY DEF ReadOK
  <2> QED
    BY <1>1, <2>1, <2>2, <2>3, <2>4 DEF Open
<1>8. Rule(n + 1) <=> IF IsAgent(line) THEN FALSE ELSE IsRule(line) \/ Rule(n)
  OBVIOUS
<1> HIDE DEF Rule
<1>9. ~IsRule(line) => Named(lines, n + 1) = Named(lines, n)
  BY <1>1, <1>4 DEF Named
<1>10. IsRule(line) => Named(lines, n + 1) = Named(lines, n) \cup st.agents
  BY <1>1, <1>3 DEF Named, ReadOK, Open
<1>11. ASSUME NEW key \in {"allow", "disallow"}, NEW a
       PROVE  RulesFor(lines, n + 1, key, a) =
                RulesFor(lines, n, key, a) \cup
                  (IF line.key = key /\ line.value # <<>> /\ a \in st.agents
                   THEN {line.value} ELSE {})
  <2>1. line.key = key => IsRule(line)
    BY DEF IsRule
  <2>2. line.key = key => (a \in st.agents <=> \E j \in DOMAIN lines : Belongs(lines, j, n + 1)
                                                                  /\ lines[j].value = a)
    BY <1>1, <1>3, <2>1 DEF ReadOK, Open
  <2> QED
    BY <1>1, <2>2 DEF RulesFor
<1>12. ASSUME NEW a, a \notin Named(lines, n), NEW key PROVE RulesFor(lines, n, key, a) = {}
  BY <1>12 DEF RulesFor, Named
<1>13. st.rule <=> Rule(n)
  BY DEF ReadOK, Rule
<1>14. SUFFICES /\ new = [agents |-> new.agents, rule |-> new.rule, groups |-> new.groups]
                /\ new.agents = {lines[j].value : j \in Open(lines, n + 1)}
                /\ new.rule \in BOOLEAN /\ (new.rule <=> Rule(n + 1))
                /\ DOMAIN new.groups = Named(lines, n + 1)
                /\ \A a \in DOMAIN new.groups :
                     new.groups[a] = [allow |-> RulesFor(lines, n + 1, "allow", a),
                                      disallow |-> RulesFor(lines, n + 1, "disallow", a),
                                      delay |-> new.groups[a].delay]
  BY DEF ReadOK, Rule
<1>18. ASSUME ~IsRule(line), NEW a
       PROVE  /\ RulesFor(lines, n + 1, "allow", a) = RulesFor(lines, n, "allow", a)
              /\ RulesFor(lines, n + 1, "disallow", a) = RulesFor(lines, n, "disallow", a)
  <2>1. line.key # "allow" /\ line.key # "disallow"
    BY <1>18 DEF IsRule
  <2> QED
    BY <1>11, <2>1
<1>15. CASE IsAgent(line)
  <2>1. /\ ~IsRule(line)
        /\ new = [agents |-> AgentsAfter(st, line), rule |-> FALSE, groups |-> st.groups]
    BY <1>2, <1>15 DEF ReadRobotsLine, IsAgent, ReadOK
  <2>2. AgentsAfter(st, line) = {lines[j].value : j \in Open(lines, n + 1)}
    BY <1>7, <1>15 DEF AgentsAfter, ReadOK
  <2>3. /\ DOMAIN st.groups = Named(lines, n + 1)
        /\ \A a \in DOMAIN st.groups :
             st.groups[a] = [allow |-> RulesFor(lines, n + 1, "allow", a),
                             disallow |-> RulesFor(lines, n + 1, "disallow", a),
                             delay |-> st.groups[a].delay]
    BY <1>9, <1>18, <2>1 DEF ReadOK
  <2> HIDE DEF new, line
  <2> QED
    BY <1>8, <1>15, <2>1, <2>2, <2>3
<1>16. CASE IsRule(line)
  <2> DEFINE old(a) == IF a \in DOMAIN st.groups THEN st.groups[a] ELSE NoGroup
             groups == [a \in DOMAIN st.groups \cup st.agents |->
                          IF a \in st.agents THEN Extended(old(a), line) ELSE old(a)]
  <2>1. ~IsAgent(line) /\ new = [agents |-> st.agents, rule |-> TRUE, groups |-> groups]
    BY <1>2, <1>16 DEF ReadRobotsLine, IsAgent, ReadOK
  <2>2. ASSUME NEW a PROVE old(a) = [allow |-> RulesFor(lines, n, "allow", a),
                                     disallow |-> RulesFor(lines, n, "disallow", a),
                                     delay |-> old(a).delay]
    BY <1>12 DEF ReadOK, NoGroup
  <2> HIDE DEF old
  <2>6. ASSUME NEW a
        PROVE  /\ RulesFor(lines, n + 1, "allow", a) = RulesFor(lines, n, "allow", a) \cup
                    (IF line.key = "allow" /\ line.value # <<>> /\ a \in st.agents
                     THEN {line.value} ELSE {})
               /\ RulesFor(lines, n + 1, "disallow", a) = RulesFor(lines, n, "disallow", a) \cup
                    (IF line.key = "disallow" /\ line.value # <<>> /\ a \in st.agents
                     THEN {line.value} ELSE {})
    BY <1>11
  <2>3. ASSUME NEW a \in DOMAIN groups
        PROVE  groups[a] = [allow |-> RulesFor(lines, n + 1, "allow", a),
                            disallow |-> RulesFor(lines, n + 1, "disallow", a),
                            delay |-> groups[a].delay]
    <3>1. CASE a \in st.agents
      <4>1. groups[a] = Extended(old(a), line)
        BY <3>1
      <4>2. old(a) = [allow |-> RulesFor(lines, n, "allow", a),
                      disallow |-> RulesFor(lines, n, "disallow", a),
                      delay |-> old(a).delay]
        BY <2>2
      <4> DEFINE A == RulesFor(lines, n, "allow", a)
                 Dis == RulesFor(lines, n, "disallow", a)
                 extended == Extended([allow |-> A, disallow |-> Dis, delay |-> old(a).delay], line)
      <4>3. groups[a] = extended
        BY <4>1, <4>2
      <4> HIDE DEF A, Dis
      <4>4. extended = [allow |-> A \cup (IF line.key = "allow" /\ line.value # <<>>
                                          THEN {line.value} ELSE {}),
                        disallow |-> Dis \cup (IF line.key = "disallow" /\ line.value # <<>>
                                               THEN {line.value} ELSE {}),
                        delay |-> extended.delay]
        BY ExtendedIs
      <4> HIDE DEF groups, line, extended
      <4> QED
        BY <2>6, <3>1, <4>3, <4>4 DEF A, Dis
    <3>2. CASE a \notin st.agents
      <4>1. groups[a] = old(a)
        BY <3>2
      <4> HIDE DEF groups
      <4> QED
        BY <2>2, <2>6, <3>2, <4>1
    <3> QED
      BY <3>1, <3>2
  <2>4. DOMAIN groups = Named(lines, n + 1)
    BY <1>10, <1>16 DEF ReadOK
  <2> HIDE DEF groups
  <2>5. st.agents = {lines[j].value : j \in Open(lines, n + 1)}
    BY <1>6, <2>1 DEF ReadOK
  <2> QED
    BY <1>8, <1>16, <2>1, <2>3, <2>4, <2>5
<1>17. CASE ~IsAgent(line) /\ ~IsRule(line)
  <2>1. new = st
    BY <1>17 DEF ReadRobotsLine, IsAgent
  <2> QED
    BY <1>6, <1>8, <1>9, <1>13, <1>17, <1>18, <2>1 DEF ReadOK
<1> QED
  BY <1>15, <1>16, <1>17

LEMMA ParsedIs ==
  ASSUME NEW lines \in Lines
  PROVE  ReadOK(lines, Len(lines), Parsing(lines)[Len(lines)])
<1> DEFINE S == {n \in 0..Len(lines) : ~ReadOK(lines, n, Parsing(lines)[n])}
<1> SUFFICES ASSUME S # {} PROVE FALSE
  BY ParsingIs
<1>1. PICK n \in S : IsFirst(n, S)
  <2>1. S \subseteq Nat
    BY ParsingIs
  <2> HIDE DEF S
  <2> QED
    BY <2>1, FirstExists
<1>2. n # 0
  BY <1>1, NoLines, ParsingIs
<1>3. n - 1 \in Nat /\ n - 1 \in 0..Len(lines) /\ n \in 1..Len(lines) /\ (n - 1) + 1 = n
  BY <1>2, ParsingIs
<1>4. ReadOK(lines, n - 1, Parsing(lines)[n - 1])
  BY <1>1, <1>3 DEF IsFirst
<1>5. ReadOK(lines, n, ReadRobotsLine(Parsing(lines)[n - 1], lines[n]))
  BY <1>3, <1>4, OneLine
<1> QED
  BY <1>1, <1>3, <1>5, ParsingIs

LEMMA PrefixIs ==
  ASSUME NEW s \in Seq(STRING), NEW t \in Seq(STRING)
  PROVE  IsPrefix(s, t) <=> Len(s) <= Len(t) /\ \A i \in 1..Len(s) : s[i] = t[i]
<1> DEFINE a == SubSeq(s, 1, Len(s))
           b == SubSeq(t, 1, Len(s))
<1>1. Len(s) \in Nat /\ Len(t) \in Nat
  OBVIOUS
<1>2. CASE Len(s) <= Len(t)
  <2>1. /\ a \in Seq(STRING) /\ b \in Seq(STRING) /\ Len(a) = Len(s) /\ Len(b) = Len(s)
        /\ \A i \in 1..Len(s) : a[i] = s[i] /\ b[i] = t[i]
    <3>1. a \in Seq(STRING) /\ Len(a) = Len(s)
      BY <1>1
    <3>2. \A i \in 1..Len(s) : a[i] = s[i]
      BY <1>1
    <3>3. b \in Seq(STRING) /\ Len(b) = Len(s)
      BY <1>1, <1>2
    <3>4. \A i \in 1..Len(s) : b[i] = t[i]
      BY <1>1, <1>2
    <3> HIDE DEF a, b
    <3> QED
      BY <3>1, <3>2, <3>3, <3>4
  <2> HIDE DEF a, b
  <2>2. a = b <=> \A i \in 1..Len(s) : s[i] = t[i]
    <3>1. ASSUME a = b
          PROVE  \A i \in 1..Len(s) : s[i] = t[i]
      BY <2>1, <3>1
    <3>2. ASSUME \A i \in 1..Len(s) : s[i] = t[i]
          PROVE  a = b
      BY <2>1, <3>2, SeqEqual
    <3> QED
      BY <3>1, <3>2
  <2> QED
    BY <1>2, <2>2 DEF IsPrefix, a, b
<1> QED
  BY <1>2 DEF IsPrefix

\* Of two prefixes of one sequence the shorter is a prefix of the longer.
LEMMA PrefixesNest ==
  ASSUME NEW s \in Seq(STRING), NEW t \in Seq(STRING), NEW u \in Seq(STRING),
         IsPrefix(s, u), IsPrefix(t, u), Len(s) <= Len(t)
  PROVE  IsPrefix(s, t) /\ (Len(s) = Len(t) => s = t)
<1>1. Len(s) \in Nat /\ Len(t) \in Nat
  OBVIOUS
<1>2. /\ \A i \in 1..Len(s) : s[i] = u[i]
      /\ \A i \in 1..Len(t) : t[i] = u[i]
  BY PrefixIs
<1>3. \A i \in 1..Len(s) : s[i] = t[i]
  BY <1>1, <1>2
<1>4. IsPrefix(s, t)
  BY <1>3, PrefixIs
<1>5. Len(s) = Len(t) => s = t
  BY <1>1, <1>3
<1> QED
  BY <1>4, <1>5

\* Of some prefixes of a sequence one is the longest.
LEMMA LongestExists ==
  ASSUME NEW u \in Seq(STRING), NEW P, P # {}, P \subseteq Seq(STRING), \A p \in P : IsPrefix(p, u)
  PROVE  \E p \in P : \A q \in P : Len(q) <= Len(p)
<1> DEFINE S == {Len(u) - Len(p) : p \in P}
<1>1. \A p \in P : p \in Seq(STRING) /\ Len(p) \in Nat /\ Len(u) \in Nat /\ Len(p) <= Len(u)
  BY PrefixIs
<1>2. S \subseteq Nat /\ S # {}
  BY <1>1
<1>3. PICK m \in S : \A k \in S : m <= k
  <2> HIDE DEF S
  <2> QED
    BY <1>2, FirstExists DEF IsFirst
<1>4. PICK p \in P : m = Len(u) - Len(p)
  BY <1>3
<1>5. ASSUME NEW q \in P PROVE Len(q) <= Len(p)
  <2>1. m <= Len(u) - Len(q)
    BY <1>3
  <2> QED
    BY <1>1, <1>4, <2>1
<1> QED
  BY <1>5

LEMMA LongestMatchIs ==
  ASSUME NEW rules, rules \subseteq Seq(STRING), NEW path \in Seq(STRING)
  PROVE  LET hits == {q \in rules : IsPrefix(q, path)}
         IN  /\ LongestMatch(rules, path) \in Int
             /\ hits = {} => LongestMatch(rules, path) = -1
             /\ hits # {} => \E q \in hits : LongestMatch(rules, path) = Len(q)
             /\ \A q \in hits : Len(q) <= LongestMatch(rules, path)
<1> DEFINE hits == {q \in rules : IsPrefix(q, path)}
           lens == {Len(r) : r \in hits}
           longest == CHOOSE n \in lens : \A k \in lens : k <= n
<1>1. LongestMatch(rules, path) = IF lens = {} THEN -1 ELSE longest
  BY DEF LongestMatch
<1>2. lens = {} <=> hits = {}
  OBVIOUS
<1>3. hits # {} => longest \in lens /\ \A k \in lens : k <= longest
  <2> SUFFICES ASSUME hits # {} PROVE \E n \in lens : \A k \in lens : k <= n
    OBVIOUS
  <2>1. PICK p \in hits : \A q \in hits : Len(q) <= Len(p)
    BY LongestExists
  <2> QED
    BY <2>1
<1>4. \A q \in hits : Len(q) \in Nat
  OBVIOUS
<1> HIDE DEF longest
<1> QED
  BY <1>1, <1>2, <1>3, <1>4

\* The longest rule counts, and allow in a tie.
LEMMA DecisionIs ==
  ASSUME NEW A, A \subseteq Seq(STRING), NEW D, D \subseteq Seq(STRING), NEW path \in Seq(STRING)
  PROVE  LongestMatch(A, path) >= LongestMatch(D, path) <=>
           ~\E d \in {q \in D : IsPrefix(q, path)} :
               \A a \in {q \in A : IsPrefix(q, path)} : Len(a) < Len(d)
<1> DEFINE HitsA == {q \in A : IsPrefix(q, path)}
           HitsD == {q \in D : IsPrefix(q, path)}
           m == LongestMatch(A, path)
           n == LongestMatch(D, path)
<1>1. /\ m \in Int /\ (HitsA = {} => m = -1) /\ (HitsA # {} => \E q \in HitsA : m = Len(q))
      /\ \A q \in HitsA : Len(q) <= m
  BY LongestMatchIs
<1>2. /\ n \in Int /\ (HitsD = {} => n = -1) /\ (HitsD # {} => \E q \in HitsD : n = Len(q))
      /\ \A q \in HitsD : Len(q) <= n
  BY LongestMatchIs
<1>3. /\ \A q \in HitsA : Len(q) \in Nat
      /\ \A q \in HitsD : Len(q) \in Nat
  OBVIOUS
<1> HIDE DEF HitsA, HitsD, m, n
<1>4. ASSUME m >= n, NEW d \in HitsD PROVE \E a \in HitsA : ~(Len(a) < Len(d))
  <2>1. Len(d) <= n /\ Len(d) \in Nat
    BY <1>2, <1>3
  <2>2. HitsA # {}
    BY <1>1, <1>2, <1>4, <2>1
  <2>3. PICK a \in HitsA : m = Len(a)
    BY <1>1, <2>2
  <2> QED
    BY <1>1, <1>2, <1>4, <2>1, <2>3
<1>5. ASSUME ~(m >= n) PROVE \E d \in HitsD : \A a \in HitsA : Len(a) < Len(d)
  <2>1. n # -1
    <3>1. m >= -1
      BY <1>1, <1>3
    <3> QED
      BY <1>1, <1>2, <1>5, <3>1
  <2>2. PICK d \in HitsD : n = Len(d)
    BY <1>2, <2>1
  <2>3. \A a \in HitsA : Len(a) < Len(d)
    BY <1>1, <1>2, <1>3, <1>5, <2>2
  <2> QED
    BY <2>3
<1> QED
  BY <1>4, <1>5 DEF HitsA, HitsD, m, n

LEMMA LinesAre ==
  ASSUME NEW lines \in Lines
  PROVE  /\ Len(lines) \in Nat /\ DOMAIN lines = 1..Len(lines)
         /\ \A i \in 1..Len(lines) : lines[i].value \in Seq(STRING)
<1> DEFINE T == [key : STRING, value : Seq(STRING), secs : Int]
<1>1. lines \in Seq(T)
  BY DEF Lines
<1>2. \A x \in T : x.value \in Seq(STRING)
  OBVIOUS
<1> HIDE DEF T
<1> QED
  BY <1>1, <1>2

\* The parser and the matcher say of a path what the lines of the file say.
LEMMA ParserIsRight ==
  ASSUME NEW lines \in Lines, NEW path \in Seq(STRING)
  PROVE  IsAllowed(ParseRobots(lines), path) <=> ~Forbidden(lines, path)
<1> DEFINE N == Len(lines)
           groups == ParseRobots(lines)
           named == {lines[j].value : j \in {n \in DOMAIN lines :
                                             \E i \in DOMAIN lines : Belongs(lines, n, i)}}
           closest == {a \in named \ {Anybody} : IsPrefix(a, Agent)}
           Speaks(a) == IF closest = {} THEN a = Anybody
                        ELSE a \in closest /\ \A b \in closest : IsPrefix(b, a)
           RulesOf(key) == {lines[i].value : i \in {n \in DOMAIN lines :
                              /\ lines[n].key = key /\ lines[n].value # <<>>
                              /\ IsPrefix(lines[n].value, path)
                              /\ \E j \in DOMAIN lines : Belongs(lines, j, n) /\ Speaks(lines[j].value)}}
           group == MatchingGroup(groups)
           Hits(rules) == {q \in rules : IsPrefix(q, path)}
<1>1. /\ N \in Nat /\ DOMAIN lines = 1..N
      /\ \A i \in 1..N : lines[i].value \in Seq(STRING)
  BY LinesAre
<1>2. /\ DOMAIN groups = named
      /\ \A a \in named : /\ groups[a].allow = RulesFor(lines, N, "allow", a)
                          /\ groups[a].disallow = RulesFor(lines, N, "disallow", a)
  <2>1. ReadOK(lines, N, Parsing(lines)[N]) /\ groups = Parsing(lines)[N].groups
    BY ParsedIs DEF ParseRobots
  <2> HIDE DEF groups
  <2>2. DOMAIN groups = named
    BY <1>1, <2>1 DEF ReadOK, Named
  <2>3. ASSUME NEW a \in named
        PROVE  groups[a] = [allow |-> RulesFor(lines, N, "allow", a),
                            disallow |-> RulesFor(lines, N, "disallow", a),
                            delay |-> groups[a].delay]
    <3> HIDE DEF named
    <3> QED
      BY <2>1, <2>2 DEF ReadOK
  <2> HIDE DEF named
  <2> QED
    BY <2>2, <2>3
<1>3. named \subseteq Seq(STRING)
  BY <1>1
<1>4. \A key, a : RulesFor(lines, N, key, a) \subseteq Seq(STRING)
  BY <1>1 DEF RulesFor
<1> HIDE DEF groups
<1>5. ASSUME NEW a, \A b \in named : Speaks(b) <=> b = a, NEW key
      PROVE  RulesOf(key) = Hits(RulesFor(lines, N, key, a))
  <2>1. \A j, n \in DOMAIN lines : Belongs(lines, j, n) => (Speaks(lines[j].value) <=> lines[j].value = a)
    <3> HIDE DEF Speaks
    <3> QED
      BY <1>5
  <2> HIDE DEF Speaks
  <2> QED
    BY <1>1, <2>1 DEF RulesFor
<1>6. \E a : /\ \A b \in named : Speaks(b) <=> b = a
             /\ group.allow = RulesFor(lines, N, "allow", a)
             /\ group.disallow = RulesFor(lines, N, "disallow", a)
  <2>1. CASE closest # {}
    <3> DEFINE best == CHOOSE a \in closest : \A b \in closest : Len(b) <= Len(a)
    <3> HIDE DEF named
    <3>1. best \in closest /\ \A b \in closest : Len(b) <= Len(best)
      <4>1. \E p \in closest : \A q \in closest : Len(q) <= Len(p)
        BY <1>3, <2>1, LongestExists, CrawlAssumption
      <4> QED
        BY <4>1
    <3>2. group = groups[best]
      BY <1>2, <2>1 DEF MatchingGroup
    <3> HIDE DEF best
    <3>3. ASSUME NEW b \in closest PROVE IsPrefix(b, best) /\ (IsPrefix(best, b) => b = best)
      <4>1. /\ b \in Seq(STRING) /\ best \in Seq(STRING) /\ Len(b) <= Len(best)
            /\ Len(b) \in Nat /\ Len(best) \in Nat
            /\ Agent \in Seq(STRING) /\ IsPrefix(b, Agent) /\ IsPrefix(best, Agent)
        BY <1>3, <3>1, CrawlAssumption
      <4>2. IsPrefix(b, best) /\ (Len(b) = Len(best) => b = best)
        BY <4>1, PrefixesNest
      <4>3. IsPrefix(best, b) => Len(best) <= Len(b)
        BY DEF IsPrefix
      <4> QED
        BY <4>1, <4>2, <4>3
    <3>4. \A b \in named : Speaks(b) <=> b = best
      BY <2>1, <3>1, <3>3
    <3>5. best \in named
      BY <3>1
    <3> QED
      BY <1>2, <3>2, <3>4, <3>5
  <2>2. CASE closest = {}
    <3>1. \A b \in named : Speaks(b) <=> b = Anybody
      BY <2>2
    <3>2. group = IF Anybody \in named THEN groups[Anybody] ELSE NoGroup
      <4> HIDE DEF named
      <4> QED
        BY <1>2, <2>2 DEF MatchingGroup
    <3>3. ASSUME Anybody \notin named, NEW key PROVE RulesFor(lines, N, key, Anybody) = {}
      BY <1>1, <3>3 DEF RulesFor
    <3> HIDE DEF named, Speaks, group, closest
    <3>4. /\ group.allow = RulesFor(lines, N, "allow", Anybody)
          /\ group.disallow = RulesFor(lines, N, "disallow", Anybody)
      BY <1>2, <3>2, <3>3 DEF NoGroup
    <3> QED
      BY <3>1, <3>4
  <2> QED
    BY <2>1, <2>2
<1>7. /\ RulesOf("allow") = Hits(group.allow) /\ RulesOf("disallow") = Hits(group.disallow)
      /\ group.allow \subseteq Seq(STRING) /\ group.disallow \subseteq Seq(STRING)
  <2> HIDE DEF RulesOf, Hits, Speaks, named, group
  <2> QED
    BY <1>4, <1>5, <1>6
<1>8. Forbidden(lines, path) <=>
        \E d \in RulesOf("disallow") : \A a \in RulesOf("allow") : Len(a) < Len(d)
  BY DEF Forbidden
<1>9. IsAllowed(groups, path) <=>
        LongestMatch(group.allow, path) >= LongestMatch(group.disallow, path)
  BY DEF IsAllowed
<1> HIDE DEF RulesOf, group
<1> QED
  BY <1>7, <1>8, <1>9, DecisionIs DEF groups

\* What the host's robots.txt says of a page of the site.
Allowed(url) == IsAllowed(ParseRobots(site.robots[url.host]), url.path)

\* The pages that fetchers wait for.
Awaited == {fetcher[f].url : f \in {g \in Fetchers : fetcher[g].at = "sleeping"}}

RobotsOK ==
  /\ \A url \in visited \cup Awaited : url \in site.urls /\ Allowed(url)
  /\ at = "crawling" =>
       \A url \in site.urls : url \in frontier \cup Awaited \cup visited \/ ~Allowed(url)

LEMMA NobodyWaits ==
  ASSUME visited = {}, fetcher = [f \in Fetchers |-> Idle]
  PROVE  visited \cup Awaited = {}
  BY DEF Awaited, Idle

LEMMA StepRobotsOK == ASSUME CrawlOK, RobotsOK, [CrawlNext]_allVars PROVE RobotsOK'
<1>1. ASSUME UNCHANGED <<site, at, frontier, fetcher, visited>> PROVE RobotsOK'
  BY <1>1 DEF RobotsOK, Awaited, Allowed
<1>2. ASSUME NEW s, StartCrawl(s) PROVE RobotsOK'
  <2>1. site' = s /\ frontier' = s.urls /\ visited' = {} /\ Awaited' = {}
    BY <1>2 DEF StartCrawl, Awaited, Idle
  <2> QED
    BY <2>1 DEF RobotsOK
<1>3. CASE BeginCrawl \/ CrawlAgain
  BY <1>2, <1>3 DEF BeginCrawl, CrawlAgain
<1>4. CASE VisitFails
  BY <1>4 DEF VisitFails, web, RobotsOK, Awaited, Allowed
<1>5. CASE HandOver
  <2>1. at' = "over" /\ visited' = {} /\ Awaited' = {}
    BY <1>5 DEF HandOver, Awaited, Idle
  <2> QED
    BY <2>1 DEF RobotsOK
<1>6. CASE Visit \/ PipelineStep \/ Tick \/ UNCHANGED allVars
  BY <1>1, <1>6 DEF Visit, PipelineStep, Tick, allVars, crawl, web
<1>7. ASSUME NEW host, ReadRobots(host) \/ Override(host) PROVE RobotsOK'
  BY <1>1, <1>7 DEF ReadRobots, Override
<1>8. ASSUME NEW f \in Fetchers, Fetch(f) PROVE RobotsOK'
  <2>1. /\ fetcher[f].at = "sleeping" /\ visited' = visited \cup {fetcher[f].url}
        /\ fetcher' = [fetcher EXCEPT ![f] = Idle] /\ UNCHANGED <<site, at, frontier>>
    BY <1>8 DEF Fetch
  <2>2. /\ fetcher' = [g \in Fetchers |-> fetcher'[g]] /\ fetcher'[f].at = "idle"
        /\ \A g \in Fetchers : g # f => fetcher'[g] = fetcher[g]
    BY <2>1 DEF CrawlOK, Idle
  <2>3. visited' \cup Awaited' = visited \cup Awaited
    BY <2>1, <2>2 DEF Awaited
  <2> QED
    BY <2>1, <2>3 DEF RobotsOK, Allowed
<1>9. ASSUME NEW f \in Fetchers, NEW url \in frontier, Take(f, url) PROVE RobotsOK'
  <2>1. /\ fetcher[f].at = "idle" /\ frontier' = frontier \ {url} /\ url \in site.urls
        /\ UNCHANGED <<site, at, visited>>
    BY <1>9 DEF Take, CrawlOK
  <2>2. CASE Allowed(url)
    <3>1. fetcher' = [fetcher EXCEPT ![f] = [at |-> "sleeping", url |-> url,
                        wakes |-> Slot(Bucket(url.host, DefaultInterval))]]
      BY <1>9, <2>2 DEF Take, Allowed
    <3>2. /\ fetcher'[f].at = "sleeping" /\ fetcher'[f].url = url
          /\ \A g \in Fetchers : g # f => fetcher'[g] = fetcher[g]
      BY <3>1 DEF CrawlOK
    <3>3. Awaited' = Awaited \cup {url}
      BY <2>1, <3>2 DEF Awaited
    <3> QED
      BY <2>1, <2>2, <3>3 DEF RobotsOK, Allowed
  <2>3. CASE ~Allowed(url)
    <3>1. Awaited' = Awaited
      BY <1>9, <2>3 DEF Take, Allowed, Awaited
    <3> QED
      BY <2>1, <2>3, <3>1 DEF RobotsOK, Allowed
  <2> QED
    BY <2>2, <2>3
<1> QED
  BY <1>3, <1>4, <1>5, <1>6, <1>7, <1>8, <1>9 DEF CrawlNext, ProgramStep

\* For every robots.txt and every order in which fetchers take and wait: no
\* page is asked for that the file forbids, and none is left that it allows.
THEOREM RobotsAreFollowedHolds == CrawlSpec => []RobotsAreFollowed
<1>1. CrawlInit => RobotsOK
  <2> SUFFICES ASSUME CrawlInit PROVE RobotsOK
    OBVIOUS
  <2>1. visited \cup Awaited = {} /\ at = "starting"
    BY NobodyWaits DEF CrawlInit, NoCrawl
  <2> QED
    BY <2>1 DEF RobotsOK
<1>2. CrawlOK /\ IngestionInv /\ RobotsOK /\ [CrawlNext]_allVars => RobotsOK'
  BY StepRobotsOK
<1>3. CrawlOK /\ RobotsOK => RobotsAreFollowed
  <2> SUFFICES ASSUME CrawlOK, RobotsOK PROVE RobotsAreFollowed
    OBVIOUS
  <2>1. ASSUME NEW url \in site.urls
        PROVE  Allowed(url) <=> ~Forbidden(site.robots[url.host], url.path)
    <3>1. site.robots[url.host] \in Lines /\ url.path \in Seq(STRING)
      BY CrawlAssumption DEF CrawlOK, Lines
    <3> QED
      BY <3>1, ParserIsRight DEF Allowed
  <2>2. RobotsAreObeyed
    BY <2>1 DEF RobotsOK, RobotsAreObeyed
  <2>3. Awaited \subseteq {fetcher[f].url : f \in Fetchers}
    BY DEF Awaited
  <2>4. TakenUnlessForbidden
    BY <2>1, <2>3 DEF RobotsOK, TakenUnlessForbidden
  <2> QED
    BY <2>2, <2>4 DEF RobotsAreFollowed
<1> QED
  BY <1>1, <1>2, <1>3, CrawlInvariant, PTL DEF CrawlSpec
=============================================================================
