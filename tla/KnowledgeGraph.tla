---------------------------- MODULE KnowledgeGraph ----------------------------
(***************************************************************************)
(* The knowledge graph of crates/oracle-automate-graph and the engine over *)
(* it, crates/oracle-automate-rag/src/graph_layer.rs.  GraphEngine::new    *)
(* runs detect_communities, one node per step here, and then answers       *)
(* queries, which change nothing: their answers are operators.             *)
(*                                                                         *)
(* A node is named by its id.  Weights are doubled (the graph has one and  *)
(* a half), so that they are integers, and gains are scaled by 2m*2m/2,    *)
(* which keeps their sign and their order.  A score of the page rank is    *)
(* not computed: nodes may be ranked in any order.                         *)
(*                                                                         *)
(* Operators named Bad... are mutants, plausible bugs of the definition    *)
(* that follows them, and no part of the specification.                    *)
(***************************************************************************)
EXTENDS Integers, SequencesExt, FiniteSetsExt

CONSTANTS Graphs,      \* the graphs to be detected, by name
          MaxPasses,   \* 8 in the code
          U32Max       \* stands for u32::MAX; above every distance

\* Every end of an edge is an entity of the graph, and every entity is there
\* once: the detection looks the ends up in the map of the entities.
ASSUME GraphAssumption ==
  /\ MaxPasses \in Nat /\ U32Max \in Nat
  /\ \A name \in DOMAIN Graphs :
       LET g == Graphs[name]
       IN  /\ g.order \in Seq(DOMAIN g.links) /\ ToSet(g.order) = DOMAIN g.links
           /\ IsInjective(g.order)
           /\ \A n \in DOMAIN g.links : DOMAIN g.links[n] \subseteq DOMAIN g.links

VARIABLES graph,       \* the name of the graph
          phase,       \* "detecting" | "edgeless" | "serving"
          membership,  \* node |-> community id
          visiting,    \* the position of the node to be visited next
          pass,        \* passes begun
          moved,       \* some node has moved in this pass
          communities  \* the communities, in the order of their ids

graphVars == <<graph, phase, membership, visiting, pass, moved, communities>>

-----------------------------------------------------------------------------
(* The store.                                                              *)

\* module is the first "module:" tag; label and text hold the words, out of
\* those that are searched for, of the label and of all the texts together.
Entity(id, module, label, text) == [id |-> id, module |-> module, label |-> label, text |-> text]
LinksOf(n, edges) ==
  LET touching == {e \in edges : n \in {e[1], e[2]}}
      other(e) == IF e[1] = n THEN e[2] ELSE e[1]
      \* an edge from n to n is met twice
      times(e) == IF e[1] = e[2] THEN 2 ELSE 1
  IN [o \in {other(e) : e \in touching} |->
        SumSet({0}) + MapThenSumSet(LAMBDA e : times(e) * e[3], {e \in touching : other(e) = o})]
Graph(entities, edges) ==
  LET ids == {entities[i].id : i \in DOMAIN entities}
  IN [order |-> [i \in DOMAIN entities |-> entities[i].id],
      entity |-> [n \in ids |-> CHOOSE e \in ToSet(entities) : e.id = n],
      links |-> [n \in ids |-> LinksOf(n, edges)]]

J == <<"journal">>
R == <<"receiving">>
DemoEntities == \* in the order of their full ids
  << Entity("FS_08823", "other", <<>>, <<>>), Entity("FS_12001", "other", <<>>, <<>>),
     Entity("journal_entry", "FIN", J, J), Entity("period_close", "FIN", <<>>, <<>>),
     Entity("receiving", "SCM", R, R \o R), Entity("GL_period_close", "FIN", <<>>, <<>>),
     Entity("INV_receiving", "SCM", R, R \o R), Entity("COMPANY_XREF", "other", <<>>, <<>>),
     Entity("FUSION_ERP_REST", "other", <<>>, <<>>), Entity("GL_JOURNAL_IMPORT", "FIN", J, J \o J \o J),
     Entity("INVOICE_HOLD_RULE", "FIN", <<>>, <<>>), Entity("PO_RECEIPT_SYNC", "SCM", <<>>, R),
     Entity("DOO_HEADERS_ALL", "SCM", <<>>, <<>>), Entity("EGP_SYSTEM_ITEMS_B", "SCM", <<>>, <<>>),
     Entity("GL_JE_LINES", "FIN", <<>>, J), Entity("GL_LEDGERS", "FIN", <<>>, <<>>),
     Entity("GL_PERIOD_STATUSES", "FIN", <<>>, <<>>), Entity("XLA_AE_LINES", "FIN", <<>>, <<>>),
     Entity("O2C_002", "other", <<>>, <<>>), Entity("P2P_001", "other", <<>>, R),
     Entity("itemsV2", "SCM", <<>>, <<>>), Entity("journalEntries", "FIN", J, J \o J),
     Entity("receivingReceiptRequests", "SCM", R, R \o R), Entity("salesOrders", "SCM", <<>>, <<>>) >>
From(a, targets) == {<<a, t[1], t[2]>> : t \in targets}
DemoEdges ==
  From("GL_JOURNAL_IMPORT", {<<"journalEntries", 4>>, <<"FUSION_ERP_REST", 2>>, <<"COMPANY_XREF", 2>>})
  \cup From("PO_RECEIPT_SYNC", {<<"receivingReceiptRequests", 2>>, <<"FUSION_ERP_REST", 2>>})
  \cup From("journalEntries", {<<"GL_LEDGERS", 2>>, <<"GL_PERIOD_STATUSES", 2>>, <<"GL_JE_LINES", 2>>,
                               <<"XLA_AE_LINES", 2>>})
  \cup From("itemsV2", {<<"EGP_SYSTEM_ITEMS_B", 2>>})
  \cup From("salesOrders", {<<"DOO_HEADERS_ALL", 2>>})
  \cup From("receivingReceiptRequests", {<<"XLA_AE_LINES", 2>>})
  \cup From("P2P_001", {<<"receivingReceiptRequests", 2>>, <<"journalEntries", 2>>})
  \cup From("O2C_002", {<<"salesOrders", 2>>, <<"journalEntries", 2>>})
  \cup From("FS_12001", {<<"GL_JE_LINES", 2>>, <<"XLA_AE_LINES", 2>>, <<"GL_LEDGERS", 2>>})
  \cup From("FS_08823", {<<"DOO_HEADERS_ALL", 2>>})
  \cup From("period_close", {<<"GL_period_close", 4>>, <<"GL_PERIOD_STATUSES", 4>>, <<"GL_JE_LINES", 3>>,
                             <<"FS_12001", 2>>})
  \cup From("journal_entry", {<<"journalEntries", 4>>, <<"GL_JE_LINES", 3>>, <<"GL_JOURNAL_IMPORT", 3>>})
  \cup From("receiving", {<<"INV_receiving", 4>>, <<"receivingReceiptRequests", 4>>, <<"PO_RECEIPT_SYNC", 2>>})
  \cup From("GL_period_close", {<<"GL_PERIOD_STATUSES", 2>>, <<"GL_JE_LINES", 2>>})
  \cup From("INV_receiving", {<<"receivingReceiptRequests", 2>>})
DemoCorpus == Graph(DemoEntities, DemoEdges)

G == Graphs[graph]
Nodes == ToSet(G.order)
Neighbours(n) == DOMAIN G.links[n]

\* find_seeds: terms of two letters and more; equal scores in any order.
Count(words, terms) == Len(SelectSeq(words, LAMBDA w : w \in terms))
FindSeeds(terms, maxSeeds) ==
  LET score == [n \in Nodes |-> Count(G.entity[n].text, terms)]
      hits == {n \in Nodes : score[n] > 0}
      size == IF maxSeeds < Cardinality(hits) THEN maxSeeds ELSE Cardinality(hits)
  IN {S \in kSubset(size, hits) : \A s \in S, n \in hits \ S : score[s] >= score[n]}

-----------------------------------------------------------------------------
(* Detection of communities.                                               *)

Degree(n) == MapThenSumSet(LAMBDA o : G.links[n][o], Neighbours(n))
TotalDegree == MapThenSumSet(Degree, Nodes)   \* 2m

Init ==
  /\ graph \in DOMAIN Graphs
  /\ membership = [n \in Nodes |-> CHOOSE i \in DOMAIN G.order : G.order[i] = n]
  /\ phase = (IF TotalDegree = 0 THEN "edgeless" ELSE "detecting")
  /\ visiting = 1 /\ pass = 1 /\ moved = FALSE
  /\ communities = <<>>

\* The community of highest gain among the neighbours', the first of equals;
\* the node's own, when none has a gain above zero.
Gain(n, c) ==
  TotalDegree * MapThenSumSet(LAMBDA o : G.links[n][o], {o \in Neighbours(n) : membership[o] = c})
    - Degree(n) * MapThenSumSet(Degree, {o \in Nodes \ {n} : membership[o] = c})
BestCommunity(n) ==
  LET candidates == {membership[o] : o \in Neighbours(n)} \ {membership[n]}
      gain == [c \in candidates |-> Gain(n, c)]
      best == {c \in candidates : gain[c] > 0 /\ \A d \in candidates : gain[d] <= gain[c]}
  IN IF best = {} THEN membership[n] ELSE Min(best)

Visit ==
  /\ phase = "detecting" /\ visiting <= Len(G.order)
  /\ LET n == G.order[visiting]
     IN /\ membership' = [membership EXCEPT ![n] = BestCommunity(n)]
        /\ moved' = (moved \/ BestCommunity(n) # membership[n])
  /\ visiting' = visiting + 1
  /\ UNCHANGED <<graph, phase, pass, communities>>

PassOver == phase = "detecting" /\ visiting > Len(G.order)
AnotherPass == moved /\ pass < MaxPasses
PassAfter(p) == p + 1

NextPass ==
  /\ PassOver /\ AnotherPass
  /\ visiting' = 1 /\ pass' = PassAfter(pass) /\ moved' = FALSE
  /\ UNCHANGED <<graph, phase, membership, communities>>

\* Communities come out of a hash map; renumber sorts them by size, which
\* leaves equal sizes in any order, and renames them in membership too.
Groups == {{n \in Nodes : membership[n] = c} : c \in {membership[n] : n \in Nodes}}
SortedBySize(S) ==
  {q \in SetToSeqs(S) : \A i \in 1..Len(q) - 1 : Cardinality(q[i]) >= Cardinality(q[i + 1])}
BadRenamed(seq) == membership
Renamed(seq) == [n \in Nodes |-> CHOOSE i \in DOMAIN seq : n \in seq[i]]

Finish ==
  /\ PassOver /\ ~AnotherPass
  /\ communities' \in SortedBySize(Groups)
  /\ membership' = Renamed(communities')
  /\ phase' = "serving"
  /\ UNCHANGED <<graph, visiting, pass, moved>>

\* Without an edge every node is a community and keeps its number.
FinishEdgeless ==
  /\ phase = "edgeless"
  /\ communities' = [i \in DOMAIN G.order |-> {G.order[i]}]
  /\ phase' = "serving"
  /\ UNCHANGED <<graph, membership, visiting, pass, moved>>

Detect == Visit \/ NextPass \/ Finish \/ FinishEdgeless

ForNode(n) == communities[membership[n]]

-----------------------------------------------------------------------------
(* Queries.                                                                *)

Around(links, S) == UNION {DOMAIN links[n] : n \in S}

\* bfs_hops: hops and frontier at every depth up to the budget; the nodes not
\* met keep u32::MAX, and an empty frontier changes nothing any more.
Bfs(links, seeds, maxHops) ==
  LET after[d \in 0..maxHops] ==
        IF d = 0
        THEN [hops |-> [n \in DOMAIN links |-> IF n \in seeds THEN 0 ELSE U32Max], frontier |-> seeds]
        ELSE LET last == after[d - 1]
                 next == {j \in Around(links, last.frontier) : last.hops[j] = U32Max}
             IN  [hops |-> [j \in DOMAIN links |-> IF j \in next THEN d ELSE last.hops[j]], frontier |-> next]
  IN  after
Hops(seeds, maxHops) == Bfs(G.links, seeds, maxHops)[maxHops].hops

\* personalised_pagerank ranks every node; its callers keep those within the
\* budget and then the first topK of them, which are any topK of them.
FirstOf(k, S) == kSubset(IF k < Cardinality(S) THEN k ELSE Cardinality(S), S)
BadSurfaced(hops, maxHops, topK) ==
  {{n \in T : hops[n] <= maxHops} : T \in FirstOf(topK, Nodes)}
Surfaced(hops, maxHops, topK) == FirstOf(topK, {n \in Nodes : hops[n] <= maxHops})

\* The answers of a search from seeds: sets of hits, with their hops.
Walk(seeds, maxHops, topK) ==
  LET known == seeds \cap Nodes
      hops == Hops(known, maxHops)
  IN IF known = {} THEN {<<>>}
     ELSE {[n \in H |-> hops[n]] : H \in Surfaced(hops, maxHops, topK)}

MultiHop(terms, maxHops, topK, maxSeeds) ==
  UNION {{[seeds |-> S, hits |-> h] : h \in Walk(S, maxHops, topK)} : S \in FindSeeds(terms, maxSeeds)}
Neighborhood(seeds, maxHops, topK) ==
  {[seeds |-> seeds, hits |-> h] : h \in Walk(seeds, maxHops, topK)}

\* A community's summary is the labels of its members.
CommunityQuery(terms, topK) ==
  LET overlap(i) == MapThenSumSet(LAMBDA n : Count(G.entity[n].label, terms), communities[i])
      hits == {i \in DOMAIN communities : overlap(i) > 0}
  IN {S \in FirstOf(topK, hits) : \A s \in S, o \in hits \ S : overlap(s) >= overlap(o)}

\* build_raptor_tree: the entities, the communities, the modules.
RaptorLevel(level) ==
  CASE level = 0 -> {{n} : n \in Nodes}
    [] level = 1 -> ToSet(communities)
    [] level = 2 -> {{n \in Nodes : G.entity[n].module = m} : m \in {G.entity[n].module : n \in Nodes}}
    [] OTHER -> {}
RaptorSummary(level, topK) == FirstOf(topK, RaptorLevel(level))

\* route: the layers for a query, by the keywords found in it.
Route(keywords, globalHint) ==
  LET global == globalHint \/ "global" \in keywords
      multiHop == "multi-hop" \in keywords
  IN CASE multiHop -> <<"L4">>
       [] global /\ ~multiHop -> <<"L3", "L5">>
       [] OTHER -> <<"L2">>

-----------------------------------------------------------------------------
(* When the engine serves, its communities split the nodes, the greatest   *)
(* first, and each node's community id is the position of the community    *)
(* that holds it: renumber changed both.                                   *)
CommunitiesPartition ==
  phase = "serving" =>
    /\ \A i \in 1..Len(communities) - 1 : Cardinality(communities[i]) >= Cardinality(communities[i + 1])
    /\ \A n \in Nodes : {i \in DOMAIN communities : n \in communities[i]} = {membership[n]}

(* The nodes near the seeds: those in reach with each number of hops.      *)
Within(links, seeds, maxHops) ==
  LET near[d \in 0..maxHops] ==
        IF d = 0 THEN seeds ELSE LET last == near[d - 1] IN last \cup Around(links, last)
  IN  near

(* A search answers with nodes within its budget of hops, each at its true *)
(* distance from the seeds, and with all of them when there is room.  The  *)
(* budget u32::MAX is left out: unreached nodes then pass as well.         *)
HitsAreWithinReach(reply, maxHops, topK) ==
  LET near == Within(G.links, reply.seeds \cap Nodes, maxHops)
      hits == DOMAIN reply.hits
  IN maxHops < U32Max =>
       /\ \A n \in hits : /\ reply.hits[n] \in 0..maxHops
                          /\ n \in near[reply.hits[n]]
                          /\ reply.hits[n] > 0 => n \notin near[reply.hits[n] - 1]
       /\ Cardinality(hits) < topK => hits = near[maxHops]

===============================================================================
