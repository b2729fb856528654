# Verification of oracle-automate

TLA+ models of oracle-automate: the stdio session between an MCP client and an
MCP server, the server application with its tools, its audit and its metrics, the
gate in front of ERP writes, the metadata cache, the circuit breaker with its
retry loop, the scheduler, the gateway that routes chat messages and jobs, crawl
and ingestion into the knowledge base, and the searches over it. Small instances
are model-checked with TLC; every safety property among those checked is also
proved with TLAPS, for every value of the constants. All definitions are read off
the Rust code; `PROJECT.json` names, for each of them, the lines it stands for.

    tlc -workers 2 -config StdioServer.cfg StdioServer.tla     # check an instance
    tlc -workers 2 -config Gateway.cfg MCGateway.tla
    tlapm ErpProofs.tla                                        # check the proofs

## 1. The system

oracle-automate is a Rust workspace: a library of crates, a server that exposes
Oracle ERP operations as MCP tools, a gateway that starts that server as a child
process and serves chat channels and scheduled jobs through it, an ingest program
that fills the knowledge base, and a few demonstration programs.

| Component | Source | State it keeps | Operations | Talks to |
|---|---|---|---|---|
| stdio server session | `mcp-server/src/server.rs`, `elicit.rs`, `mcp-transport/src/stdio.rs` | two bounded channels, the pending-question map, one task per request | reader, main loop, writer, `elicit`, `deliver_response` | the client over two pipes; the tools |
| MCP client | `mcp-client/src/lib.rs` | outbox channel, pending-call map, handler tasks | `call`, `notify`, reader, writer, `handle_server_request` | the server over two pipes |
| server application | `oracle-automate-server/src/*.rs`, `mcp-server/src/registry.rs`, `mcp-transport/src/http.rs` | configuration, log level, event subscribers | start, dispatch, listing and call under the exposure policy, HTTP, shutdown | all clients below; the user, by elicitation |
| elicited workflows | `tools.rs` | questions in progress | purchase order, customer, sandbox publish | elicitation handle, audit |
| audit and metrics | `audit.rs`, `oracle-automate-observability` | rows; counters and histograms | record, redact, render | the tools, `/metrics` |
| credential chain | `credentials.rs` | none | environment, file, static, layered | the start of the server |
| transactional write gate | `oracle-automate-erp/src/transaction.rs`, `erp_result.rs`, `fusion.rs`, `tools.rs` (`oracle.rest.call`) | none of its own; audit log, and the ERP's current transaction, which all calls share | call, verify, commit, roll back, audit | the ERP client, the audit sink |
| metadata cache and pool | `metadata_cache.rs`, `pool.rs` | entries and counters under two locks; permits | lookup, bulk lookup, store, invalidate | the ERP client |
| retry and breaker | `retry.rs`, `error.rs` | breaker state, counter, time of opening | `call`, `tick`, `retry_with_backoff` | any operation |
| ERP and OIC clients | `client.rs`, `fusion.rs`, `oracle-automate-adt` | fixtures, mock repository | calls, table reads, lookups, activation | Oracle's services |
| gateway and channels | `oracle-automate-gw`, `oracle-automate-channels` | the CLI's log, job list | route, fire jobs, post, close | the MCP client, memory |
| skills | `oracle-automate-skills` | the skills found at start | discover, render | server prompts |
| memory tiers | `oracle-automate-memory/src/lib.rs` | ring of turns; episodes and a tag index under two locks | append, recent, record, by_tag, assemble | gateway |
| scheduler | `oracle-automate-scheduler/src/lib.rs` | jobs, counters | `next_in`, `fire_once`, `fire_all_now` | an executor that calls a tool |
| ingestion | `oracle-automate-ingest/src/*.rs`, the ingest program | documents and chunks in progress, report; rate limiter | crawl, chunk, embed, ingest | embedding service, knowledge base |
| knowledge base | `oracle-automate-kb/src/*.rs` | documents, chunks and hashes under three locks; document tree | upsert, search, navigate | ingestion, retrieval |
| knowledge graph, retrieval | `oracle-automate-graph`, `oracle-automate-rag` | entities, edges, communities; none | detect, walk, rank, fuse, rerank | server tools |
| connectors, front ends, mock pods, samples | see `PROJECT.json` | start-up data | | |

Interaction. The gateway (or `sample-client`) owns an MCP client whose two pipes
are the stdin and stdout of the server process. A tool may, in the middle of its
call, ask the user a question back through the same pipes (elicitation), so both
sides are client and server at once. A tool that writes goes through the write
gate, which calls the ERP client, under which sits the connection pool; metadata
lookups go through the cache. The scheduler's jobs call tools through the
gateway's client, as do messages: a message that matches a skill asks the server's
prompts for it, any other becomes a search, and both turns go to working memory.
The ingest program crawls, and hands the documents to the pipeline, which writes
the store the server's search tools read.

What is hard here:

* *Deadlock of a full duplex session.* Two bounded channels in the server, one in
  the client, two pipes, and tools that wait for an answer that travels behind
  other requests. That it works hangs on neither loop ever waiting for a tool, a
  handler or a user.
* *Who still holds a sender.* All loops end when their channel closes, a channel
  closes when its last sender is dropped, and the senders are cloned into
  handles, tasks and maps. Two endings never happen because of it (section 6).
* *Late and repeated answers* to a map of waiters whose ids are handed out by a
  counter, while waiters are removed by answers, by failed sends and at end of
  file.
* *Partial failure of a write.* The operation, its commit, its rollback or their
  replies may be lost at any point, as may the process.
* *A shared transaction.* All calls have one client, and a commit or a rollback names
  no transaction: it finishes whatever the current one holds, of other calls too.
* *Stale reads around locks.* The cache, the breaker, the knowledge base and the
  episodic memory take a lock, release it, and take it or another one again.
* *Agreement of records with what happened.* Audit rows, metrics, job reports and
  memory are written beside the deed, by handlers that fail, are declined or lose
  their client half way.
* *Configuration.* Five variables, a file, two switches and a policy decide which
  pod is written to, as whom, and whether at all.
* *Hand-written parsers and walks*: robots files, front matter, conditions,
  heading trees built with raw pointers, hop budgets.
* *Boundary arithmetic* in the cadence of the scheduler, and in the chunker, whose
  cuts are backed up to sentences and blanks, moved to character boundaries and
  overlapped.
* *Versions of a document* that are ingested over each other, skipped chunk by chunk
  by their hashes, interrupted and repeated.

What makes each component correct is stated with the properties below; the
hazards, each at its line and with the properties that would catch it, are in
`PROJECT.json`.

## 2. Modules

| Module | Models | State and actions in the code |
|---|---|---|
| `StdioServer` | `run_stdio`, the elicitation handle, a tool that asks up to `MaxElicits` questions, and any peer | `inbound`/`outbound` are the two mpsc channels, `reader`/`writer`/`main` the three loops, `task[r]` the task of a request, `pending` and `nextId` the handle's fields, `heard` a oneshot. One action per iteration of a loop and per await of a task. |
| `McpClient` | `spawn_with_halves`, `call`, `handle_server_request`, and any server | `outbox`, `cPending`, `nextCall` are the client's fields, `phase`/`reply` a caller and its oneshot, `handling` the spawned handlers. |
| `McpSession` | both, joined by the two pipes | the peers of the two modules are replaced by each other (`INSTANCE`); the kill of the child process is an action. |
| `RemoteCall` | what a session promises, abstractly | call, execute at most once, return only what was executed, fail. |
| `ErpWrite` | `oracle.rest.call`, `execute_write_bapi`, `rollback`, the audit record; the ERP is external | `pc[w]` is the await the call is at; `luw`, `db` are the ERP's, the open changes and the persisted ones, and a commit or rollback finishes the sender's open change with any set of the others (`Current`); `crossed` records whose finish another call came before; a server's `read_only` flag is `ReadOnly`, the set of calls that reach such a server. |
| `MetadataCache` | the cache, and the pool under it | `entries`, `stats` are the two locked fields, `stage`, `toFetch`, `fetched`, `got` a lookup, `waited` the ticks since its begin; one action per lock held or await. What a lookup holds ages with the cache. |
| `CircuitBreaker` | `CircuitBreaker::call` and `state`, inside `retry_with_backoff` | `state`, `failures`, `age` (since `opened_at`) are the breaker; `loop`, `attempt`, `result` a retry loop. |
| `Scheduler` | `next_in` (as operators), `fire_once` and its counters | the sleeping loop around them is the deployment's and marked external. |
| `Ingestion` | `ingest`, `split_text` and the functions it calls, the embedding call, `upsert` of the in-memory store and of Qdrant, and the program around them | `start`, `segs` are `split_text`'s variables, `batched`/`embedded`/`report` those of `ingest`; `documents`, `chunks`, `hashes`, `stats` are the store's fields. One action per document, per iteration of `split_text`, per batch and per upsert; `RunAgain` is the next process. |
| `Crawl` | the crawl in front of the pipeline: `crawl_directory`, `parse_help_portal_html`, `robots.rs`, `rate_limit.rs`, `fetch_url` | `stack`, `found` are `crawl_directory`'s variables, `buckets` the limiter's map; fetchers, clock and operator of a crawl over HTTP are external. Extends `Ingestion`; `HandOver` is the call of `ingest`. |
| `ToolServer` | the server application: start from an environment, dispatch, exposure, workflows, audit, metrics, HTTP and shutdown | `server` is what `main` builds, `call[c]` a request at the await its handler is at, `audit`, `metrics`, `events`, `logLevel` the shared objects. |
| `ErpCatalog` | both ERP clients and the credential providers | operators: the answer, or the possible answers, of each call. |
| `OicRepository` | both OIC clients and the destinations | operators, as above. |
| `KnowledgeGraph` | graph store, community detection, hops and seeds, graph engine | `membership`, `visiting`, `pass`, `moved` are `detect_communities`' variables, one action per node visited; `Bfs` is `bfs_hops`, the hops and the frontier at each depth; queries are operators. |
| `DocTree` | `build_document_tree` and navigation | operators; `path` names the place a raw pointer of the builder points to. |
| `Retrieval` | searches of both stores, rank fusion, rerankers | operators; a score that is not computed is any order. `FusedScore` counts in units of 1/`Scale`. |
| `QueryTools` | the handlers of the reading tools in `tools.rs` | one action per tool: parse, call the modules above, reply. |
| `Skills` | discovery, front matter, rendering | operators. |
| `Memory` | working rings, episodic store, `assemble` | `working`, `entries`, `byTag` are the locked fields; one action per lock held. |
| `Gateway` | the gateway: jobs, routes, channels, the end | `main` is where `main` is, `route[m]` a message, `sent` the CLI channel's log; of the MCP client, `reading` is its reader task and `waiting` its map of waiters, by caller, `late` the callers that came when the reader had stopped. A call is two actions, its begin and its return. |
| `MCCrawl`, `MCToolServer`, `MCQueryTools`, `MCGateway` | the instances for TLC | |
| `MCScheduler` | the finite set of schedules and starting times for TLC | |
| `StdioServerProofs`, `McpClientProofs`, `McpSessionProofs` | the proofs about the module of that name | section 5 |
| `CrawlProofs` | the proofs about `Ingestion`, and on them those about `Crawl` | section 5 |
| `ErpProofs` | the proofs about `ErpWrite`, `MetadataCache` and `CircuitBreaker`, what stands between a tool and the ERP | section 5 |
| `ToolServerProofs` | the proofs about `ToolServer` | section 5 |
| `QueryProofs` | the proofs about `QueryTools`, with the modules it composes | section 5 |
| `GatewayProofs` | the proofs about `Gateway` with `Memory`, and about `Scheduler` | section 5 |

`McpSession` composes `StdioServer` and `McpClient`, `Crawl` comes before
`Ingestion`, `ToolServer` uses `ErpCatalog`, `QueryTools` composes `KnowledgeGraph`,
`Retrieval`, `DocTree`, `ErpCatalog` and `OicRepository`, and `Gateway` composes
`Memory` and `Skills`; to it a call is what `McpClient` makes of it: a reply, or an
error once the reader has stopped, but nothing at all for a call that begins then.
Operators named `Bad…` (and `StuckTicked`, `UncappedBatchEnd`, `ExactBatch`) are plausible bugs of the definition that follows them. They
are no part of a specification: putting one in the place of its definition must
violate the property `PROJECT.json` lists with it, which shows that the property
can see that part of the code.

Abstractions, all of them in the data: a message is its kind and id; what a
request asks for, what a tool computes and what a user answers are left out; a
return stack is empty, clean or failing; a table of operations is four kinds of
operation; time is ticks (breaker, cache) or seconds (scheduler); a body is bytes of four
classes (blank, end mark, first byte of a character, continuation byte), a content
hash is the text it is taken of (collisions are left out), a vector is that a chunk
has one; BM25, cosine and page-rank scores are any order; texts that are matched by
pattern are sequences of letters or words, others are names; an environment is
which variables are set; a JSON value is the leaves of its tree, each at its path of
keys and indices; a site is the set of its files and of what lies in its
directories, at any depth. `Ingestion` has contextual enrichment on, as the ingest program does.

## 3. Runs

Modules that a proof module combines name their specification after themselves
(`BreakerSpec`, `CacheSpec`, `SchedulerSpec`); the others say `Spec`. What the code
computes in a loop over a list, and a proof speaks of, is a recursive function of how
much of the list has been read (`Parsing` of a robots file, `Taken` by a lookup of
episodes).

Each configuration holds the constants of one instance. Invariants, action
properties and liveness of a module are checked in one run under its fair
specification.

| Run | Instance | What it shows |
|---|---|---|
| `StdioServer` | 2 requests, 2 questions each, channels and pipes of 1, one repeated answer | Answers reach the question they were given for, however late, repeated or reordered (`AnswersMatchQuestions`); the pending map holds exactly the open questions (`WaitersAreExact`); replies still leave after end of input (`RepliesSurviveEof`); no lock-up (`EveryRequestAnswered`). |
| `McpClient` | 2 callers, 2 questions, outbox of 1, pipes of 2 | Own reply or transport failure (`RepliesReachTheirCaller`), and every call in progress comes back (`CallsInFlightReturn`). |
| `McpSession` | 3 callers, 1 question each, everything of size 1, a kill at any point | The session implements `RemoteCall` although the ids of both directions coincide, and takes no request up twice (`ImplementsRemoteCall`); every call succeeds unless the server is killed (`CallsSucceedUnlessKilled`). |
| `ToolServer` | 2 calls of 5 tools, 12 environments, stdio and HTTP, one event stream | One row per ended workflow or commit, saying what the user confirmed and what happened, without secrets (`AuditTellsTheTruth`); variables set in part stop the start (`NoDemoIdentityOnAPod`); a read-only server asks, writes and records nothing (`ReadOnlyServerIsReadOnly`); a render of the metrics in the middle is consistent, and exact at the end (`MetricsAgree`); over HTTP calls are answered and a stop ends (`HttpServerSettles`). |
| `QueryTools` | 7 graphs with the demo corpus, about 360 bodies of headings, 4 chunks, the catalogue | Communities partition the nodes (`CommunitiesPartition`); graph answers are the nodes within the hops, at their distance (`GraphAnswersAreWithinReach`); fusion and reranking lose no hit and invent none (`SearchesKeepTheirHits`); the tree is the nesting of the headings, siblings in the order of the source, and an answer shows the node at its path with what lies below it to the depth asked for (`NavigationIsFaithful`); what is listed can be fetched (`RepositoryIsReachable`); read-only clients send only reads (`ReadOnlyModifiesNothing`). |
| `Gateway` | 2 messages over 2 channels with 2 users, 4 jobs, 2 skill folders, rings of 3; or 3 recorders of 3 episodes and a limit of 2 | Replies go to their own address only (`RepliesGoHome`); skill prompts have no open hole (`SkillRepliesAreWhole`); working memory is the tail of the conversation (`MemoryIsTheLatestTurns`); an episode is found by its tags and tenant, also while others are recorded (`EpisodesAreFound`); every message is answered or fails, unless its call began too late (`MessagesAreSettled`). |
| `ErpWrite` | 2 calls on writable servers, 1 on a read-only one, one transaction, deferred commits | What is persisted was verified, unless another call finished the transaction between the operation and its finish or the call left its change open (`PersistedOnlyIfVerified`); a confirmed report is true but for such a crossing (`ConfirmedReportsAreTrue`); one row per ended call, with its outcome (`AuditTellsTheOutcome`). |
| `ErpWrite_fusion` | 2 calls, an ERP that persists with the request | `CommittedMeansPersisted` is violated (finding 4). |
| `MetadataCache` | 2 lookups of 1 or 2 keys, TTL 1, latency 1, pool of 1, unlimited time, of which 2 ticks of a lookup are counted | What a lookup returns is no older than TTL, latency and the lookup itself (`StalenessIsBounded`), and every lookup returns (`EveryLookupReturns`). |
| `CircuitBreaker` | 2 callers, threshold 2, open for 2 ticks, 2 attempts | `OpenLastsItsTime`, `EveryCallEnds`, `BreakerRecovers`. |
| `Scheduler` | 2 jobs, 12 schedules, 40-odd starting times around slots, 2 firings | `JobsAreDueOnTheirSlot`. |
| `Ingestion` | 5 directory trees and 2 web sites, 2 fetchers, 2 chunker configurations, both stores, batches of 3, 2 runs of the program | Every page that parses becomes a document (`EveryPageIsADocument`); no text is lost between windows (`SegmentsCoverBody`) nor by deduplication, failures and re-runs (`IngestedTextIsStored`); the report agrees with the store (`ReportIsTrue`); every run over a directory ends (`EveryCrawlEnds`); slots lie the interval apart and nobody waits longer (`SlotsKeepTheirDistance`); robots files are followed as RFC 9309 reads them (`RobotsAreFollowed`). |

### Bounds

* Channels and pipes of one message: every full-channel situation of the code's 64
  arises, with fewer messages. Two requests, or three callers, are the fewest that
  can be confused or can block each other behind a third.
* `MaxElicits = 2`: the second question of a tool is where a late answer to the
  first could go wrong. `MaxRepeats = 1`: one duplicate suffices for that.
* `Requests`, `Callers`, `Questions` are used once each; ids are never reused by
  the code (its counters are 64 bits wide), so a longer session repeats the same
  situations with higher ids.
* `ErpWrite`: the calls meet in the current transaction, where a request to finish may
  take along any set of the others' changes. Of two writable calls either can be
  crossed, or leave its change to the other; a third is crossed no differently, and
  the proofs have any number. Crashes and lost replies can hit each.
* `MetadataCache`: ages saturate one tick above the largest value that tells anything,
  so the run covers unlimited time; after `MaxWait` ticks of one lookup its bound is no
  longer compared (two show a hit that outlives the time to live; the proof has any
  number). A lookup runs once; a third would find
  the cache in a state that two and an invalidation already produce. `Latency` is
  an assumption about the ERP: how long an answer may be on its way into the cache.
* `CircuitBreaker`: `MaxFailures` (threshold + 1) is where the failure counter
  saturates; above the threshold its value is not read any more.
* `Scheduler`: the starting times lie around slots, midnight, the quarter hours and
  the change of the week, the arguments inside and outside their range. The
  arithmetic itself is proved for every time (section 5).
* `Ingestion`: with a target of 6, a lookback of 3 and bodies of 8 to 10 bytes every
  branch of `split_text` is taken: sentence end, blank, neither, a cut and an
  overlap inside a two-byte character, an overlap larger than a segment. Four or
  more chunks in batches of 3 give a full and a short batch. `MaxRuns = 2` gives
  one re-run after every prefix of the first; the proofs need none of these bounds.
  The crawl adds a clock of 2 (`MaxTime`), in which three slots of one host are
  granted, an override included; web pages are brief and need one configuration
  (`MCInit`).
* `ToolServer`: two calls are what overlaps in audit and metrics; `Latencies = {2}`
  falls between two buckets; the environments differ from the plain one in one or
  two things each. `MaxSubscriptions = 1`: the bus treats every stream alike.
* `QueryTools`: requests do not share state, so one at a time suffices; detection is
  run to its end first, as `GraphEngine::new` does. The graphs have every shape over
  four nodes that the algorithm tells apart, and the demo corpus; the bodies are all
  of up to three lines of seven kinds and 27 of five. `CandidatePool` is 3 (40 in the
  code), so that the four chunks can overflow it; `Sizes` asks for one result and for more
  than there are; `Budgets` holds no hop, one, more than any distance, and `U32Max`, the
  largest there is.
* `Gateway`: `MCInit` takes apart what does not meet: the recorders of episodes run
  beside a gateway without messages and skills, the jobs beside one conversation. Three
  recorders and a limit of 2 are the fewest with which a lookup finds several episodes
  and still has to cut one off; the tags of an episode are different ones, since
  `record` would index an entry twice under a tag it is given twice, and `by_tag`
  return it twice. A ring of 3
  overflows with the second answer. The server finds no skills, or the repository's with
  files that are none and an older copy that they replace.

`CHECK_DEADLOCK FALSE` is set where the system may stop for good: a peer that
falls silent, an application that makes no further call, calls that have all
ended, loops at `MaxFires`, a program that is not run again.

## 4. Fairness

* `StdioServer`, `McpClient`, `McpSession`: weak fairness of each loop and each
  task, which is what a tokio runtime gives a task that is woken. A bounded channel
  is modelled by its room: two senders competing for the last place are each
  served eventually since every loop that drains a channel keeps running. The peer
  is only assumed to read what arrives, to answer what it read and, for a server,
  to exit at end of input; sending, repeating and leaving are never forced. A tool
  ends because `MaxElicits` bounds its questions.
* `MetadataCache`: weak fairness of a lookup's steps and strong fairness of
  `Acquire`, since tokio's semaphore serves its waiters in order. An inner call
  ends: the HTTP client has a timeout.
* `CircuitBreaker`: weak fairness of the callers and of the clock. `BreakerRecovers`
  further assumes, as part of the property, that callers keep coming and that an
  ERP that is up does not answer with permanent errors for ever: without either,
  nobody would ever close the breaker, in the code as in the model.
* `Ingestion`: weak fairness of the walk and of the pipeline; both network calls have
  a timeout (60 s and 30 s). Dying and running again are never forced, and of the
  fetchers of a crawl over HTTP, which are external, nothing is assumed.
* `ToolServer`: weak fairness of a backend's answer (every request has a timeout), of
  the record that follows a dispatch, and of the exit. No client and no user owes
  anything.
* `Gateway`: weak fairness of `main`, of each route and of the end of the client's
  reader. A server that lives answers, one that died drops the waiters that are there
  when the reader stops; a call registered after that is not forced to return, and
  never does.
* `QueryTools`, `ErpWrite`, `Scheduler`: safety only.

## 5. Proofs

Every theorem is `Spec => []P`, `Spec => [][A]_vars` or, for the session, the
implementation of another specification, for all values of the constants under the
module's assumption.

* `StdioServerProofs`, under `ServerAssumption`. That a tool hears the answer to its
  own question depends on what is in flight: `AllCurrent` says of every question and
  answer, in a channel, in a pipe or known to the peer, that if some call is waiting
  on its number then it is about that call's present question. With `IdsAreTheirs`
  (two calls never share a number, numbers are below `nextId`) and `WaiterOf` (the
  pending map and the calls' own view agree) this is inductive, because a number is
  never handed out twice. `RequestInv` adds where a request can be: in the pipe, in
  the channel or with its task, and in one of them only.
* `McpClientProofs`, under `ClientAssumption`. `ClientInv` says that ids are distinct
  and counted (`IdsAreDistinct`, `IdsAreCounted`: the counter is the number of calls
  begun), and that the oneshot under an id is its caller's (`WaitersAreTheirs`).
  `ClientInvKept` needs the client's steps alone and nothing of what comes out of the
  pipe, so it holds of any server. The types of channels and pipes are proved on top
  of it (`WiresStayOK`): an id in transit is one that was drawn.
* `McpSessionProofs`, under `SessionAssumption`: the refinement. The client's half
  of `SessionInv` is `ClientInv`, whose lemmas are used through `INSTANCE`. The other
  half says where a message can be: a request is in the outbox, the pipe or the
  server's channel, in one of them and there once (`RequestsInOnePlace`), and has not
  been taken up while it is (`RequestsAreNew`); a reply, in the pipe or the oneshot,
  is that of a task that began (`RepliesAreOfTasks`). `StepImplements` maps every step
  to a step of `RemoteCall` or a stutter: registering is the call, `MainSpawns` the
  execution, the return of the oneshot the result. At most one execution
  (`RunsOnce`) follows from `RequestsAreNew`.
* `ErpProofs` on the cache, under `CacheAssumption`. `StalenessIsBounded` is about what
  lookups hold; what makes it inductive is an order of two ages (`EntriesAreRecent`):
  of an entry, what the ERP said is at most `Latency` older than its store, and both
  age together until the entry is too old to be served. A hit then ages with its lookup,
  tick by tick (`TickInv`), so it stays within `waited` of what it was allowed to be. `PoolOK` carries that the
  holders of permits are finitely many, since any number of lookups may wait.
* `ErpProofs` on the write gate, under `ErpAssumption`. None of the four invariants is
  inductive: `ConfirmedReportsAreTrue`, say, speaks of a call that has reported and
  follows from what its operation did three awaits earlier, and from what other calls
  did to its change since. `IInv` is `TypeOK` with `Stage(w)`, what is known of a call in
  each phase (a call that is committing has a verified return stack, and its change in
  the transaction unless it was crossed), and `Past(w)`, what stays true for ever.
  `StepChanges` says what the step of one call can do to the change of another:
  nothing, unless it finishes the transaction, and then every other call that is
  between its operation and its finish is in `crossed` (`Committing`, `RollingBack`).
  `OwnStep` shows that a call's own steps preserve both parts, `OthersUntouched`, from
  `StepChanges`, that other calls' steps do. `AuditIsExact` adds `AuditInv`.
  `UnverifiedOnlyIfLeftOpen` is the theorem of `PersistedOnlyIfVerified`; that nothing
  unverified is ever persisted is no theorem, since the code does not do it (finding 5).
* `ErpProofs` on the breaker, under `BreakerAssumption`. `IInv` adds to the invariants
  that a sleeping caller has retries left and that a recorded result is one an
  operation can have; `OpenLastsItsTime` is proved as an action property from it.
* `GatewayProofs` on the scheduler, under `SchedulerAssumption`. The work is in the arithmetic:
  `AheadInRange`, the division lemmas, and one lemma per kind of schedule
  (`HourlySlot`, `DailySlot`, `WeeklySlot`), from every second since the epoch and
  for every argument. The invariant then carries `DueOnSlot` and the types through the steps;
  `Firing` says that a firing under way is within the bound.
* `CrawlProofs` on the pipeline, under `IngestionAssumption`. `CutInv` carries `Covered(start)`, that
  the segments so far hold all text before the cursor: a cut always ends beyond the
  cursor (`CutsAdvance`, which needs the target to exceed the lookback), the cursor
  moves forward and not beyond that end (`AdvanceBounds`), so `CutCovers` extends the
  coverage without a gap. `StoredInv` then says that a document stored whole is
  `Findable`: `StoreKeeps` shows that storing one document leaves the others alone,
  and that a chunk skipped by its hash is stored already (`HashInv`). `ReportInv`
  follows the two counts: while a document is embedded the report is ahead of the
  store by that document and its segments (`Ahead`), and the batches sent so far have
  all their vectors unless the service left some out (`Complete`).

* `CrawlProofs` on the crawl, under `CrawlAssumption` and `IngestionAssumption`, of which the first
  asks of a page only that its texts are UTF-8 (a character does not begin inside
  another). A crawl implements an ingestion: what `parse_help_portal_html` makes of
  any page is a body the chunker's theorems hold of (`JoinedIsBody`), so `CrawlOK` (the
  documents found and queued have such bodies) and the invariant of the pipeline
  are inductive together (`StepBoth`), and the three theorems about the store hold behind
  any crawl. On top of that:
  `SlotsKeepTheirDistance` is inductive only with `LimiterOK`: the last slot granted for a
  host and the time reserved for it agree with its bucket, which a change of the
  interval between two requests must not lose (`IntervalKeeps`, `SlotKeeps`).
  `EveryPageIsADocument` follows from `WalkOK`: the pages of a site are those already
  found and those beneath what is still on the stack; `Beneath` is the least set closed
  under listing (`BeneathIsLeast`), so popping a directory and pushing its entries
  leaves it as it is (`VisitWalk`). `RobotsAreFollowed` is the parser: `ReadOK` says which
  rules the groups hold after each line, by induction over the lines (`OneLine`,
  `ParsedIs`); the longest prefix that matches is unique because two prefixes of a path
  nest (`PrefixesNest`), and so `ParserIsRight`: the decision of `is_allowed` is
  the one the property reads off the lines.
* `ToolServerProofs`, under `ToolServerAssumption`. `IInv` is `Down`, or `Up`: what
  the server is after its start in any environment (`ServerOK`), where a call can be and
  what it then knows (`CallOK`), that a call has exactly the row it owes from its end on
  (`AuditOK`), and that a counter is the number of calls past the update that increments
  it (`MetricsOK`). One lemma per handler (`ToolsCallKeeps`, `UserAnswersKeeps`,
  `UpstreamAnswersKeeps`, `ClientLeavesKeeps`, `RecordKeeps`) shows that each ends with its row or
  without owing one; the four properties are read off `IInv`. `IdentityIsReal` is the
  layering of the credential providers, `RedactedHasNoSecret` that `redact` leaves no
  sensitive key, at any depth of the arguments, with its value.
* `GatewayProofs` on the gateway, under `GatewayAssumption`. `RepliesOK` counts, for each
  message and each job, its posts in the log (`PostsOK`): none before the route replies,
  one after. `TurnsOK` ties the ring of a conversation to all its turns: it
  `IsTail` of them, which pushing and dropping the oldest preserves
  (`TailIsPushed`); `UserFirst` needs that a route in progress has said its user's turn.
  `EpisodesOK` is about two locks that are never held together: `RecordersOK` says which index
  each recorder was given, `IndexOK` that the indices of a tag are those of the recorders
  that are done, in no particular order, and `LookupOK` what the indices read by a lookup
  cover when the entries are read later. `TakenIs` turns the loop of `by_tag` into a
  statement about which entries it can have taken.

  `SkillRepliesAreWhole` is proved under `SkillsAssumption`: of the files in a folder that
  declare a name the router knows, the last one visited is the repository's. That is what
  the sentence "the server has the repository's skills" means for `scan_paths`, which lets
  a later file replace an earlier one without a word; any other files, and any order
  that respects this, are allowed, and so is a folder without those skills. The state part
  is small (`SkillsOK`: a message that asks for a skill has a rule that applies, and no
  message was told anything but texts). The rest is data: `OneIsParsed` and `TwoAreParsed`
  follow the parser over the lines of a file, `Answers` says that the skill of a file needs
  certain arguments and no others, `RepositoryAnswers` that the eight files do,
  `RulesAre` which arguments the rules give, `LastStays` which file is kept, and
  `RenderIsWhole` that each round of `render` leaves the tokens of `Left`, from which one
  hole after the other is gone.

* `QueryProofs`, under `GraphAssumption` (the ends of edges are entities, each listed
  once) and `QueryAssumption` (the pool is not so large that the last rank in it would
  round to no score at all, it is 40 in the code; and documents are sequences of
  lines). `QInv` says of the graph that it is still
  undivided or well divided (`GraphOK`), and of a reply that it tells the truth (`Told`), a
  predicate of the graph and the reply alone. The work is in the lemmas below it.
  `GroupsSplit`: whatever the visits did to `membership`, sorting its groups and renaming
  them splits the nodes. `BfsMeasures`: after each round a node carries the number of
  the first round that meets it, and the frontier is what was met last, so
  `WalkIsWithinReach`. `ConsensusScores`: a chunk in both rankings scores more
  than one in a single ranking at no better a rank, so
  `FusionKeepsConsensus`, also where the pool cuts; `OrderIs`: every reranker returns a
  permutation, so `SearchResultsAre`. `ReadingIsGet` and `ObjectsAreFetchable` go through the
  catalogue and the repository. A handler whose reply none of the properties mentions
  is an `OtherAnswer`; the others have a lemma each.

  `NavigationIsFaithful` rests on what the loop over the headings keeps
  (`AssembledIsWellBuilt`). After each heading the sections are `Placed`: the parent's
  path is the path of the nearest earlier heading of smaller rank, and the last number
  counts the siblings placed so far. And they are `Chained`: the stack holds the
  ancestors of the last heading and that heading itself, outermost first, each of a
  smaller rank than the next and with a path as long as its place on the stack. So what
  is on top after popping is the nearest earlier heading of smaller rank
  (`PoppedToParent`), the parent to which the code then pushes is there (no dangling
  pointer), and its path is the stack's. At the end the sections of a document are cut
  at the next heading of no greater rank (`SectionsCut`). A section's number is how many
  of its siblings come before it in the source (`Elder`), which is what `PlacedIsFaithful`
  turns into the first half of the property. For the other half `Nested` keeps of the
  tree that a path names one node and that the front of a section's path names what
  encloses it; so the prefixes by which a view is cut out are the ancestors (`PrefixGrows`),
  a view shows what is enclosed by what it shows in full (`ViewIs`), and an answer is the
  view of the node at the path or an error (`NavigatedIsAnswered`).

Some of these theorems state invariants that no run lists, since the proof covers
every instance: the types, `NoRequestDroppedAtEof`,
`ReadOnlyNeverWrites`, `ClosedIffBelowThreshold`, `OpenAdmitsNobody`,
`RetriesAreBounded` and `SkippedMeansStored`.

Only model-checked: all liveness, since the prover has neither fairness nor ENABLED
(`EveryRequestAnswered`, `RepliesSurviveEof`, `CallsInFlightReturn`,
`CallsSucceedUnlessKilled`, `EveryLookupReturns`, `EveryCallEnds`, `BreakerRecovers`,
`EveryCrawlEnds`, `HttpServerSettles`, `MessagesAreSettled`).

The prover cannot instantiate the library's theorem of induction over data either, since
it takes an operator. Where a theorem is about what a recursive function computes, the
proof takes the least counterexample of that one function, by well-foundedness of the
numbers: `RecursionExists` for the breadth-first search, `AssembledIsWellBuilt` for the
headings of a document, `RenderIs`, `ParsedLinesAre` and `FlattenIs` for the loops of the
skills.

## 6. Where the code and its documents differ

Each refuted by TLC or visible in a run:

1. *The server does not exit at end of input.* `run_stdio` keeps a sender of its
   outbound channel in `elicit_handle` (`server.rs:324`) while it waits for the
   writer to see the channel closed (`:379`). `ServerExitsAfterEof` of `StdioServer`.
2. *Dropping the client does not close the server's stdin*: the reader task keeps a
   sender of the outbox (`mcp-client/src/lib.rs:97`), so the gateway
   (`main.rs:151`) and `sample-client` (`:190`) wait for a server that waits for them.
3. *A late call hangs.* `call()` registers its waiter without asking whether the
   reader has drained the map for the last time (`mcp-client/src/lib.rs:391`).
   `EveryCallReturns` of `McpClient`. In `Gateway` it is the tool call after a failed
   `get_prompt`, or the call of the next job (`late`).
4. *A Fusion write is reported as rolled back.* Fusion commits with the request and
   returns no return stack, so every write takes the fail-closed branch, whose
   rollback does not exist there (`transaction.rs:131`). Run `ErpWrite_fusion`.
5. *An unverified change can be persisted* (`transaction.rs:4`, "never persist an
   unverified change"). An operation that fails after it took effect is returned by `?`
   without a rollback (`:111`), as is a failed commit (`:148`); a rollback may fail
   (`:54`); and `commit_req` (`:173`) names no transaction, so that the next commit of
   any call persists what is open, even between the operation of another call and its
   rollback. The EBS client this concerns is not in the repository; what is, shares one
   client and speaks of "the current" transaction (`client.rs:971`).
   `NeverPersistsUnverified` of `ErpWrite`.
6. *A weekly job moves to another time of day* when the target day is ahead but its
   time of day is already past (`scheduler/src/lib.rs:115`). `WeeklyAtItsTime` of
   `Scheduler`.
7. *Not every invocation of a write tool has an audit row* (`audit.rs:3`): not
   `oracle.oic.activate`, not one with invalid arguments, not one whose HTTP client
   leaves in the middle.
8. *Conversations of two channels share a ring* if their ids are equal
   (`gw/src/main.rs:167` against `channels/src/lib.rs:69`).
9. *Pages of one file name are one document*, wherever they lie (`crawler.rs:167`).
10. *Community detection does not converge* on the demo corpus; it is cut off after
   eight passes (`community.rs:43`).
11. *Tool schemas advertise kinds their handlers refuse* (`tools.rs:1404`).

1, 3, 5 and 6 can be repeated by listing the property named in a configuration of its
module (for 1 without questions, for 3 with two callers, for 5 in that of `ErpWrite`).

Met while reading, and contained in the models:

* session: a tool that waits for the user when the client leaves waits for ever
  (`elicit.rs:140` against `:86`); the server asks clients that never advertised
  elicitation (`server.rs:324` against `elicit.rs:17`).
* writes and cache: a plain call may name the commit or the rollback operation, which
  the transactional path refuses (`tools.rs:850` against `transaction.rs:101`); a mutating `oracle.rest.call` without `commit` is not audited
  (`tools.rs:850` against `SECURITY.md:23`); misses do not serialise
  (`metadata_cache.rs:148` against `:15`); an answer fetched before `invalidate_all`
  is stored after it (`metadata_cache.rs:149` against `tools.rs:502`).
* server: the documented start commands set some of the five Fusion variables
  (`docker-compose.yml:65`, `docs/PRODUCTION_READINESS.md:175`) and the server then
  refuses to start without a credentials file; with file credentials and no Fusion
  variables audit rows name the file's host while the backend is the mock
  (`main.rs:300`); calls of hidden write tools are not counted as denied
  (`metrics.rs:45`); `publish_sandbox` passes the phrase check with both fields
  missing (`tools.rs:2029`); subscribers of the event bus are kept for ever
  (`http.rs:198`).
* reading tools: an error body of a party yields a nameless party (`fusion.rs:368`);
  verbs other than post, patch and delete are sent as GET (`fusion.rs:164`); `%x`
  acts as contains and `_` never matches (`client.rs:656`); the budget `u32::MAX`
  lets unreached nodes pass (`ppr.rs:199`); the SAFETY comment of `doc_tree.rs:207`
  does not hold, harmlessly.
* gateway and skills: a job whose tool answers `is_error` is reported ok;
  `assemble` filters episodes by tenant but not the working tier; list items
  indented by four spaces after the first are swallowed (`skills/src/lib.rs:248`);
  `requires_tools` is never validated; a missing required placeholder becomes
  `<MISSING x>` against the comment that it stays visible (`:82`).
* ingestion: a document that shrank keeps the chunks of its longer version
  (`kb/src/store.rs:180` against `:29`); an embedding answer with vectors missing
  drops chunks without an error (`pipeline.rs:76`); a crawled body is one block, not
  the blocks `fit_markdown.rs:13` expects; the paths `/a/b` and `/a_b`, and equal paths of
  two hosts, are one document (`crawler.rs:232`). A chunker target not above the
  lookback of 200 bytes could cut backwards (`chunker.rs:102`); no caller configures
  one, and the assumption of `Ingestion` excludes it.

## 7. Not modelled, and what could come next

Left out for good: the serialisation of JSON-RPC and the wording of prompts,
resources and seeded texts (data without control); page-rank, BM25 and cosine
scores (floating point); the connectors, the front ends, the sample programs, the
benchmark and the mock pods (presentation, static data and test doubles);
`fit_markdown`, which nothing calls; the tracing set-up; `run_single_actor` and the
legacy client loop, whose only hazard (a line half read when its future is dropped)
lies below the level of a message. What the ERP, the OIC service, the embedding and
reranking services and a user do is external throughout: the models take every
answer the code can receive.

External, modelled from how `src/` uses it: concurrent routes of several messages
and recorders of episodes (the gateway's `main` sends one message and the crates
are written for many), the fetchers of a crawl over HTTP, the loop that sleeps
between two firings of a job.

What a proof could add next is liveness, by a chain of lemmas `P ~> Q` for each of the
properties above, with a prover that has ENABLED.
