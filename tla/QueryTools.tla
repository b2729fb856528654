------------------------------- MODULE QueryTools -------------------------------
(***************************************************************************)
(* The tools of apps/oracle-automate-server/src/tools.rs that only read:   *)
(* one action per handler, on the clients and engines it calls.  The       *)
(* server first builds its graph engine (KnowledgeGraph), then answers one *)
(* call after the other; reply holds the call and its result until it is   *)
(* sent.  Calls do not affect each other, so one at a time shows all.      *)
(*                                                                         *)
(* Arguments that do not fit a handler's type end the call with an error   *)
(* before anything is asked; the published schema is not checked against.  *)
(***************************************************************************)
EXTENDS KnowledgeGraph

CONSTANTS Documents,     \* the bodies of the documents
          Chunks,        \* the chunks of the knowledge base, by chunk id
          Dim,           \* the dimension of the server's embedder
          CandidatePool, \* as in Retrieval
          Queries,       \* what is asked for: sets of terms
          Sizes,         \* how many results, or seeds, are asked for
          Budgets        \* how many hops

Erp == INSTANCE ErpCatalog
Oic == INSTANCE OicRepository
Kb == INSTANCE Retrieval
Tree == INSTANCE DocTree

ASSUME QueryAssumption ==
  /\ IsFiniteSet(DOMAIN Chunks) /\ Sizes \subseteq Nat /\ Budgets \subseteq Nat
  /\ Documents \subseteq Seq(Tree!Lines)
  /\ CandidatePool \in 1..(Kb!Scale - Kb!RrfK)

VARIABLE reply
vars == <<graph, phase, membership, visiting, pass, moved, communities, reply>>

NoReply == [tool |-> "none"]
Error(e) == [ok |-> FALSE, error |-> e]
Rendered(v) == [ok |-> TRUE, value |-> v]   \* render_json

QueryInit == Init /\ reply = NoReply

Idle == phase = "serving" /\ reply = NoReply
Answer(tool, args, result) ==
  /\ Idle
  /\ reply' = [tool |-> tool, args |-> args, result |-> result]
  /\ UNCHANGED graphVars
AnyAnswer(tool, args, results) == \E r \in results : Answer(tool, args, r)

\* What the service behind an HTTP client does: external.
Replies(statuses, bodies) ==
  [transport : {"unreachable"}, status : {0}, json : {FALSE}, items : {<<>>}]
    \cup [transport : {"answered"}, status : statuses, json : {TRUE}, items : bodies]
    \cup [transport : {"answered"}, status : statuses, json : {FALSE}, items : {<<>>}]

-----------------------------------------------------------------------------
(* Knowledge base: sap_help.search and its like, oracle.docs.search,       *)
(* oracle.kb.navigate.                                                     *)

\* A failed embedding leaves the query without a vector.
Dims == {0, Dim}
PartialRerank == << [index |-> 2, score |-> 9999], [index |-> 7, score |-> 1] >>
SearchResults(terms, domains, dim, topK, kind) ==
  LET q == Kb!SearchQuery(terms, domains, dim, CandidatePool)
      rerankers ==
        CASE kind = "none" -> {[kind |-> "none"]}
          [] kind = "mock" -> {[kind |-> "mock", store |-> Chunks, query |-> q, identifiers |-> {"je_lines"}]}
          [] kind = "http" -> [kind : {"http"}, answer : {"failed", PartialRerank}]
  IN UNION {Kb!Searched(h.value.dense, h.value.sparse, topK, r) : h \in Kb!InMemoryHybrid(Chunks, q), r \in rerankers}

RagSearch ==
  Idle /\ \E terms \in Queries, domain \in Kb!Domains, dim \in Dims, topK \in Sizes, reranker \in {"none", "mock", "http"} :
    \E s \in SearchResults(terms, {domain}, dim, topK, reranker) :
      Answer("rag.search", [topK |-> topK, domains |-> {domain}], Rendered(s))

DocsDomains == [all |-> {}, sap_help |-> {"OracleHelp"}, abap |-> {"Integration"}, bpmn |-> {"Bpmn"},
                leanix |-> {"AppCatalog"}]
DocsSearch ==
  \/ Idle /\ \E terms \in Queries, name \in DOMAIN DocsDomains, dim \in Dims, topK \in Sizes :
       \E s \in SearchResults(terms, DocsDomains[name], dim, topK, "mock") :
         Answer("oracle.docs.search", [topK |-> topK, domains |-> DocsDomains[name]], Rendered(s))
  \/ Answer("oracle.docs.search", [name |-> "other"], Error("unknown domain"))

\* A server on Qdrant asks it for the dense ranking and has no other.
QdrantAnswers == {[d \in Kb!Domains |-> a] : a \in {"ranking", "error"}}
                   \cup {[d \in Kb!Domains |-> IF d = "Bpmn" THEN a ELSE "ranking"] : a \in {"error", "malformed"}}
QdrantSearches ==
  Idle /\ \E dim \in Dims, answers \in QdrantAnswers :
    \E h \in Kb!QdrantHybrid(Chunks, Kb!SearchQuery({"period"}, {}, dim, CandidatePool), answers) :
      Answer("rag.search on qdrant", [dim |-> dim], h)

KbNavigate ==
  Idle /\ \E d \in Documents, path \in {<<>>, <<1>>, <<1, 1>>, <<2>>}, depth \in {0, 1} :
    Answer("oracle.kb.navigate", [document |-> d, path |-> path, depth |-> depth],
           Tree!Navigate(d, path, depth))
KbNavigateUnknown == Answer("navigate an unknown document", "unknown", Error("document not found"))

-----------------------------------------------------------------------------
(* Graph: kb.multi_hop, kb.global_query, kb.summarise, kb.graph_neighborhood. *)

KbMultiHop ==
  Idle /\ \E terms \in Queries, maxHops \in Budgets, topK \in Sizes, maxSeeds \in Sizes :
    \E r \in MultiHop(terms, maxHops, topK, maxSeeds) :
      Answer("kb.multi_hop", [maxHops |-> maxHops, topK |-> topK], Rendered(r))
KbGraphNeighborhood ==
  Idle /\ \E seed \in {G.order[1], Last(G.order), "unknown"}, maxHops \in Budgets, topK \in Sizes :
    \E r \in Neighborhood({seed}, maxHops, topK) :
      Answer("kb.graph_neighborhood", [maxHops |-> maxHops, topK |-> topK], Rendered(r))
KbNeighborhoodOfNothing == Answer("kb.graph_neighborhood", [seeds |-> {}], Error("seeds must not be empty"))
KbGlobalQuery ==
  Idle /\ \E terms \in Queries, topK \in Sizes :
    \E r \in CommunityQuery(terms, topK) : Answer("kb.global_query", [terms |-> terms], Rendered(r))
KbSummarise ==
  Idle /\ \E level \in 0..3, topK \in Sizes :
    \E r \in RaptorSummary(level, topK) :
      Answer("kb.summarise", [level |-> level, topK |-> topK], Rendered(r))

-----------------------------------------------------------------------------
(* ERP: oracle.system.info, oracle.rest.search, metadata, bulk_metadata,   *)
(* oracle.object.read, structure, oracle.party.search, get; and the client *)
(* calls under oracle.rest.call, whose handler is in ErpWrite.             *)

SystemInfo == Answer("oracle.system.info", "", Rendered("identity"))
RestSearch ==
  Idle /\ \E terms \in {<<"journal">>, <<"item", "product">>, <<"nothing">>}, limit \in {0, 1, 20} :
    AnyAnswer("oracle.rest.search", [limit |-> limit], Erp!SearchOperations(terms, limit))
RestMetadata ==
  Idle /\ \E f \in {"itemsV2", "deleteItem"} : Answer("oracle.rest.metadata", f, Erp!OperationMetadata(f))
RestBulkMetadata ==
  \/ Answer("oracle.rest.bulk_metadata", [names |-> "none, or more than 100"], Error("provide 1..=100"))
  \/ Idle /\ \E names \in {<<"itemsV2">>, <<"ledgers", "itemsV2">>} :
       Answer("oracle.rest.bulk_metadata", [names |-> names], Rendered(Erp!BulkMetadata(names)))

MockCalls ==
  Idle /\ \E f \in Erp!Listed \cup {"deleteItem"}, readOnly \in BOOLEAN,
     params \in {Erp!Parameters("null", {}), Erp!Parameters("object", {"ITEM_NUMBER"}),
                 Erp!Parameters("object", {"JOURNAL_ENTRY"}), Erp!Parameters("scalar", {})} :
    Answer("call on the mock", [function |-> f, readOnly |-> readOnly], Erp!MockCall(f, params, readOnly))
FusionCalls ==
  Idle /\ \E f \in Erp!Listed \cup DOMAIN Erp!Unlisted, readOnly \in BOOLEAN, http \in Replies({200, 500}, {<<>>}) :
    Answer("call on Fusion", [function |-> f, readOnly |-> readOnly], Erp!FusionCall(f, readOnly, http))

RowCounts == {0, 1, 1000, 1001}   \* about the limit of 1000
Patterns == { <<"g">>, <<"g", "%">>, <<"%", "u", "%">>, <<"%", "g", "p", "%">>, <<"g", "_">>, <<"%", "p">>, <<"%">> }
ObjectRead ==
  Idle /\ \E fields \in {<<>>, <<"NAME">>, <<"NO_SUCH">>}, maxRows \in RowCounts, table \in {"GL_LEDGERS", "NO_SUCH"},
     op \in {"=", "LIKE", "<>", "= with LIKE inside"}, pattern \in Patterns :
    LET clause == Erp!Clause("NAME", op, pattern) IN
    Answer("oracle.object.read", [table |-> table, maxRows |-> maxRows, fields |-> fields, clause |-> clause],
           Erp!ReadTable(table, fields, <<clause>>, maxRows, "client"))
ObjectStructure ==
  Idle /\ \E t \in {"GL_LEDGERS", "NO_SUCH"} : Answer("oracle.object.structure", t, Erp!TableStructure(t))

Item(s, p, n) == [supplierId |-> s, partyId |-> p, name |-> n]
PartyBodies == { <<>>, << Item("1", "none", "ACME"), Item("none", "none", "x") >>, << Item("none", "2", "") >> }
NoPartyClient == \E t \in {"oracle.party.search", "oracle.party.get"} : Answer(t, "", Error("backend disabled"))
PartySearch ==
  Idle /\ \E http \in Replies({200, 404, 500}, PartyBodies) : Answer("oracle.party.search", "", Erp!SearchParties(http))
PartyGet ==
  Idle /\ \E http \in Replies({200, 404, 500}, {b \in PartyBodies : Len(b) <= 1}) : Answer("oracle.party.get", "1", Erp!GetParty("1", http))

-----------------------------------------------------------------------------
(* OIC: oracle.oic.get_..., search, where_used, preview_data, activate.    *)

Givens(names) == {Oic!Given(n, c) : n \in names, c \in Oic!Cases}
OicGet ==
  Idle /\ \E kind \in Oic!Kinds \ {"EssJob", "Project"}, given \in Givens(DOMAIN Oic!Objects) :
    Answer("oracle.oic.get", [kind |-> kind, given |-> given], Oic!GetObject(kind, given))
OicGetEssJob ==
  Idle /\ \E given \in Givens({"JournalImportLauncher", "GT_ITEM_DEFAULTING"}), group \in Givens({"GL", "AP"}) :
    Answer("oracle.oic.get_ess_job", [given |-> given, group |-> group], Oic!GetEssJob(group, given))
OicGetProjectContents ==
  Idle /\ \E given \in Givens(DOMAIN Oic!Projects \cup {"NO_SUCH"}) :
    Answer("oracle.oic.get_project_contents", given, Oic!GetProjectContents(given))
OicSearch ==
  Idle /\ \E terms \in {<<"journal">>, <<"finance", "gl">>}, kind \in {"any", "Integration"}, max \in {0, 2, 25} :
    AnyAnswer("oracle.oic.search", [kind |-> kind, max |-> max], Oic!Search(terms, kind, max))
OicWhereUsed ==
  Idle /\ \E given \in Givens(DOMAIN Oic!UsedBy), kind \in {"Connection", "Lookup"} :
    Answer("oracle.oic.where_used", [given |-> given, kind |-> kind], Oic!WhereUsed(given, kind))
OicPreviewData ==
  Idle /\ \E given \in Givens({"GL_LEDGERS", "XLA_AE_LINES", "NO_SUCH"}), rows \in RowCounts :
    Answer("oracle.oic.preview_data", [given |-> given, rows |-> rows], Oic!PreviewData(given, rows))
OicActivate ==
  Idle /\ \E readOnly \in BOOLEAN :
    Answer("oracle.oic.activate", [readOnly |-> readOnly, accepted |-> ~readOnly], Oic!Activate("x", readOnly))

\* The same tools on the client over HTTP.
OicStatuses == {200, 401, 403, 404, 500}
OicBodies == { <<>>, << [named |-> FALSE, n |-> 1], [named |-> TRUE, n |-> 2] >> }
OicOverHttp ==
  Idle /\ \E http \in Replies(OicStatuses, OicBodies), readOnly \in BOOLEAN :
    \/ \E active \in {"yes", "no", "missing"} :
         Answer("http get", http, Oic!HttpArtifact("x", [active |-> active] @@ http))
    \/ \E max \in {0, 1, 25} : Answer("http search", http, Oic!HttpSearch(max, http))
    \/ Answer("http where_used", http, Oic!HttpWhereUsed(http))
    \/ Answer("oracle.oic.activate",
              [readOnly |-> readOnly, accepted |-> ~readOnly /\ http.status \in 200..299],
              Oic!HttpActivate("x", readOnly, http))
OicPreviewOverHttp == Idle /\ \E rows \in RowCounts : Answer("http preview", rows, Oic!HttpPreviewData(rows))

-----------------------------------------------------------------------------
InvalidArguments == Answer("any tool", "invalid", Error("invalid arguments"))

SendReply == reply # NoReply /\ reply' = NoReply /\ UNCHANGED graphVars

Building == Detect /\ UNCHANGED reply

QueryNext ==
  \/ Building \/ SendReply \/ InvalidArguments
  \/ RagSearch \/ DocsSearch \/ QdrantSearches \/ KbNavigate \/ KbNavigateUnknown
  \/ KbMultiHop \/ KbGraphNeighborhood \/ KbNeighborhoodOfNothing \/ KbGlobalQuery \/ KbSummarise
  \/ SystemInfo \/ RestSearch \/ RestMetadata \/ RestBulkMetadata \/ MockCalls \/ FusionCalls
  \/ ObjectRead \/ ObjectStructure \/ NoPartyClient \/ PartySearch \/ PartyGet
  \/ OicGet \/ OicGetEssJob \/ OicGetProjectContents \/ OicSearch \/ OicWhereUsed \/ OicPreviewData
  \/ OicActivate \/ OicOverHttp \/ OicPreviewOverHttp

\* Construction runs to its end before the server reads its first request.
QuerySpec == QueryInit /\ [][QueryNext]_vars

-----------------------------------------------------------------------------
(* What a graph tool answers lies within the budget of hops, at its true   *)
(* distance, and nothing within the budget is missing when there is room.  *)
GraphAnswersAreWithinReach ==
  reply.tool \in {"kb.multi_hop", "kb.graph_neighborhood"} /\ reply.result.ok =>
    HitsAreWithinReach(reply.result.value, reply.args.maxHops, reply.args.topK)

(* A search of the knowledge base stays in its domains, ranks what both    *)
(* rankings agree on first, and loses or doubles nothing on its way        *)
(* through fusion and reranker, whatever the reranker's endpoint answers.  *)
SearchesKeepTheirHits ==
  reply.tool \in {"rag.search", "oracle.docs.search"} /\ reply.result.ok =>
    LET s == reply.result.value
    IN /\ Kb!ConsensusFirst(s.dense, s.sparse, s.fused)
       /\ Kb!RerankingKeepsCandidates(s, reply.args.topK)
       /\ reply.args.domains # {} => \A i \in ToSet(s.hits) : Chunks[i].domain \in reply.args.domains

(* The tree a caller navigates is the nesting of the document's headings,  *)
(* and each answer shows of it what was asked for: the node at the path,   *)
(* or an error when there is none, and what it encloses down to the depth. *)
NavigationIsFaithful ==
  reply.tool = "oracle.kb.navigate" =>
    LET a == reply.args
    IN /\ Tree!TreeIsFaithful(a.document)
       /\ Tree!AnswerIsFaithful(a.document, a.path, a.depth, reply.result)

(* Where the name came from, a project's contents, a search or a where-    *)
(* used list, and in whatever letters it is given: the getter of its kind  *)
(* finds the object.  Jobs are asked for by their exact names.             *)
Fetchable(n, case) ==
  LET o == Oic!Objects[n]
  IN IF o.kind = "EssJob" THEN Oic!GetEssJob(Oic!Given(o.group, case), Oic!Given(n, "own")).ok
     ELSE Oic!GetObject(o.kind, Oic!Given(n, case)).ok
RepositoryIsReachable ==
  /\ reply.tool \in {"oracle.oic.get_project_contents", "oracle.oic.where_used"} /\ reply.result.ok =>
       \A n \in reply.result.value, c \in Oic!Cases : Fetchable(n, c)
  /\ reply.tool = "oracle.oic.search" =>
       \A n \in ToSet(reply.result.value), c \in Oic!Cases : Fetchable(n, c)
  /\ reply.tool = "oracle.oic.where_used" =>
       reply.result = Oic!WhereUsed(Oic!Given(reply.args.given.name, "own"), reply.args.kind)

(* On a read-only server neither ERP client lets a modifying operation     *)
(* through: what is sent to Fusion is a GET of an operation that is listed *)
(* as reading.  No artifact is activated, and one is said to be activated  *)
(* only when the service accepted it.                                      *)
ReadOnlyModifiesNothing ==
  /\ reply.tool = "call on Fusion" /\ reply.args.readOnly /\ reply.result.ok =>
       reply.result.value.sent = "GET" /\ Erp!OperationMetadata(reply.args.function).ok
                                      /\ Erp!Catalogue[reply.args.function].readOnly
  /\ reply.tool = "call on the mock" /\ reply.args.readOnly /\ reply.result.ok =>
       Erp!Catalogue[reply.args.function].readOnly
  /\ reply.tool = "oracle.oic.activate" /\ reply.result.ok =>
       ~reply.args.readOnly /\ (reply.result.value.activated => reply.args.accepted)
=================================================================================
