------------------------------- MODULE Retrieval -------------------------------
(***************************************************************************)
(* Search in the knowledge base: the rankings of the two stores            *)
(* (crates/oracle-automate-kb, store.rs and qdrant.rs), their fusion       *)
(* (crates/oracle-automate-rag, lib.rs) and the rerankers (rerank.rs).     *)
(*                                                                         *)
(* A store maps the ids of chunks to [doc, domain, terms, dim]: the terms  *)
(* its text holds, and the dimension of its embedding, 0 without one.      *)
(* BM25 and cosine scores are not computed: hits may be ranked in any      *)
(* order.  Fused scores are, scaled to integers.                           *)
(*                                                                         *)
(* Operators named Bad... are mutants, plausible bugs of the definition    *)
(* that follows them, and no part of the specification.                    *)
(***************************************************************************)
EXTENDS Integers, SequencesExt, FiniteSetsExt

CONSTANT CandidatePool   \* 40 in the code

Ok(v) == [ok |-> TRUE, value |-> v]
Err(e) == [ok |-> FALSE, error |-> e]

Domains == {"OracleHelp", "Integration", "Bpmn", "AppCatalog"}

\* no domain means every domain
SearchQuery(terms, domains, dim, topK) ==
  [terms |-> terms, domains |-> domains, dim |-> dim, topK |-> topK]
Wants(q, c) == q.domains = {} \/ c.domain \in q.domains

Truncated(seq, n) == IF Len(seq) <= n THEN seq ELSE SubSeq(seq, 1, n)
Rankings(S, n) == {Truncated(s, n) : s \in SetToSeqs(S)}

-----------------------------------------------------------------------------
(* The stores.                                                             *)

\* Another dimension cannot be compared with the query's.
DenseSearch(store, q) ==
  Rankings({i \in DOMAIN store : Wants(q, store[i]) /\ store[i].dim > 0 /\ store[i].dim = q.dim}, q.topK)

\* The inverse document frequency is above zero: a chunk scores iff it has a
\* term of the query.
Bm25Search(store, q) ==
  Rankings({i \in DOMAIN store : Wants(q, store[i]) /\ store[i].terms \cap q.terms # {}}, q.topK)

InMemorySearch(store, q) == IF q.dim > 0 THEN DenseSearch(store, q) ELSE Bm25Search(store, q)
InMemoryHybrid(store, q) ==
  {Ok([dense |-> d, sparse |-> s]) :
     d \in IF q.dim > 0 THEN DenseSearch(store, q) ELSE {<<>>}, s \in Bm25Search(store, q)}

(* Qdrant, external, answers for the collection of one domain with a       *)
(* ranking, an error status, which leaves the domain out, or a body the    *)
(* client cannot take apart, which ends the search.                        *)
QdrantSearch(store, q, answers) ==
  LET targets == IF q.domains = {} THEN Domains ELSE q.domains
      answered == {d \in targets : answers[d] = "ranking"}
  IN IF q.dim = 0 THEN {Err("search requires an embedding")}
     ELSE IF \E d \in targets : answers[d] = "malformed" THEN {Err("malformed")}
     ELSE {Ok(r) : r \in Rankings({i \in DOMAIN store : store[i].domain \in answered}, q.topK)}
\* hybrid_search is the trait's default: no sparse ranking.
QdrantHybrid(store, q, answers) ==
  {IF r.ok THEN Ok([dense |-> r.value, sparse |-> <<>>]) ELSE r : r \in QdrantSearch(store, q, answers)}

-----------------------------------------------------------------------------
(* Reciprocal rank fusion.                                                 *)

RrfK == 60
Scale == 100000

\* 1 / (k + rank + 1), with ranks from 0 in the code and from 1 here; a
\* ranking holds a chunk at most once.
Contribution(ranking, i) ==
  IF i \in ToSet(ranking) THEN Scale \div (RrfK + CHOOSE r \in DOMAIN ranking : ranking[r] = i) ELSE 0
BadFusedScore(dense, sparse, i) ==
  IF i \in ToSet(sparse) THEN Contribution(sparse, i) ELSE Contribution(dense, i)
FusedScore(dense, sparse, i) == Contribution(dense, i) + Contribution(sparse, i)

\* Equal scores come in any order: out of a hash map.
ReciprocalRankFusion(dense, sparse, cap) ==
  LET score == [i \in ToSet(dense) \cup ToSet(sparse) |-> FusedScore(dense, sparse, i)]
  IN {Truncated(s, cap) :
        s \in {q \in SetToSeqs(DOMAIN score) : \A k \in 1..Len(q) - 1 : score[q[k]] >= score[q[k + 1]]}}

RankOverlap(dense, sparse) == Cardinality(ToSet(dense) \cap ToSet(sparse))

-----------------------------------------------------------------------------
(* Rerankers: each orders the positions 1..n of its candidates by score,   *)
(* equal scores as they were.  ByScore holds the one order there is.       *)

ByScore(score) ==
  {q \in SetToSeqs(DOMAIN score) :
     \A k \in 1..Len(q) - 1 : \/ score[q[k]] > score[q[k + 1]]
                              \/ score[q[k]] = score[q[k + 1]] /\ q[k] < q[k + 1]}

\* Terms shared with the query, one half more for an identifier among them,
\* and a bonus that falls with the position; the base score counts a tenth.
MockRerank(store, q, identifiers, candidates, base) ==
  ByScore([i \in DOMAIN candidates |->
             LET shared == store[candidates[i]].terms \cap q.terms
             IN Scale * Cardinality(shared) + (Scale \div 2) * Cardinality(shared \cap identifiers)
                  + base[i] \div 10 + (20 * Scale) \div (19 + i)])

(* The endpoint's answer is "failed", whatever failed, or a sequence of    *)
(* [index, score] that need not be complete, nor within the candidates.    *)
Scored(base, answer) ==
  [i \in DOMAIN base |->
     LET given == {k \in DOMAIN answer : answer[k].index = i}
     IN IF given = {} THEN base[i] ELSE answer[Max(given)].score]
HttpRerank(base, answer) ==
  IF answer = "failed" THEN {[i \in DOMAIN base |-> i]} ELSE ByScore(Scored(base, answer))

-----------------------------------------------------------------------------
(* RagEngine::hybrid_search.  A reranker is [kind |-> "none"],             *)
(* [kind |-> "mock", store, query, identifiers] or [kind |-> "http",       *)
(* answer].                                                                *)
Order(reranker, candidates, base) ==
  CASE reranker.kind = "none" -> {[i \in DOMAIN candidates |-> i]}
    [] reranker.kind = "mock" ->
         MockRerank(reranker.store, reranker.query, reranker.identifiers, candidates, base)
    [] reranker.kind = "http" -> HttpRerank(base, reranker.answer)

Searched(dense, sparse, topK, reranker) ==
  LET base(fused) == [k \in DOMAIN fused |-> FusedScore(dense, sparse, fused[k])]
      answer(fused, reranked) ==
        [dense |-> dense, sparse |-> sparse, fused |-> fused, hits |-> Truncated(reranked, topK),
         overlap |-> RankOverlap(dense, sparse), truncated |-> Len(reranked) > topK]
  IN UNION {{answer(fused, [k \in DOMAIN p |-> fused[p[k]]]) : p \in Order(reranker, fused, base(fused))}
              : fused \in ReciprocalRankFusion(dense, sparse, CandidatePool)}

-----------------------------------------------------------------------------
(* Fusion keeps every hit of the two rankings once, as many as the pool    *)
(* takes.  A hit that is in both rankings comes before one, and is kept if *)
(* one is, that is in a single ranking, at no better a rank.               *)
ConsensusFirst(dense, sparse, fused) ==
  LET rank(ranking, i) == {r \in DOMAIN ranking : ranking[r] = i}
      best(i) == Min(rank(dense, i) \cup rank(sparse, i))
      found == ToSet(dense) \cup ToSet(sparse)
      both == ToSet(dense) \cap ToSet(sparse)
  IN /\ IsInjective(fused) /\ ToSet(fused) \subseteq found
     /\ Len(fused) = Min({CandidatePool, Cardinality(found)})
     /\ \A i \in both, b \in DOMAIN fused :
          fused[b] \notin both /\ best(i) <= best(fused[b]) => \E a \in DOMAIN fused : fused[a] = i /\ a < b

(* Whatever the reranker is told, no candidate is lost or doubled: there   *)
(* are as many hits as were asked for and found, each a candidate.         *)
RerankingKeepsCandidates(reply, topK) ==
  /\ IsInjective(reply.hits) /\ ToSet(reply.hits) \subseteq ToSet(reply.fused)
  /\ Len(reply.hits) = Min({topK, Len(reply.fused)})
===============================================================================
