------------------------------ MODULE ToolServer ------------------------------
(***************************************************************************)
(* The server application of apps/oracle-automate-server: how it is put    *)
(* together from its environment (main.rs), what it answers to each method *)
(* (mcp-server/src/server.rs), the requests that reach it over HTTP        *)
(* (mcp-transport/src/http.rs), the workflow tools that ask the user       *)
(* (tools.rs), the audit of writes and the metrics of calls.               *)
(*                                                                         *)
(* A call is handled in steps: between two awaits of its handler nothing   *)
(* else of the same call happens, but other calls do.  Over stdio the      *)
(* delivery of a question and its answer is StdioServer's subject; here a  *)
(* question is simply answered, or cancelled.  What a read-only tool       *)
(* answers is QueryTools', and how a write is committed ErpWrite's.        *)
(*                                                                         *)
(* Operators named Bad... are mutants, plausible bugs of the definition    *)
(* that follows them, and no part of the specification.                    *)
(***************************************************************************)
EXTENDS Integers, SequencesExt, FiniteSetsExt

CONSTANTS Calls,            \* the requests the server receives
          Environments,     \* what the server may be started with
          CalledTools,      \* the tools that are called
          Arguments,        \* the arguments of a transactional write
          Latencies,        \* the buckets a call's latency may fall into
          MaxSubscriptions  \* bound on the event streams ever opened

ASSUME ToolServerAssumption ==
  /\ IsFiniteSet(Calls) /\ Latencies \subseteq 1..3 /\ "none" \notin CalledTools
  /\ \A e \in Environments : e.file \in {"none", "unreadable", "malformed", "complete"}
  /\ \A v \in Arguments : DOMAIN v \subseteq Seq(STRING)

VARIABLES server, call, audit, metrics, events, logLevel
vars == <<server, call, audit, metrics, events, logLevel>>

Erp == INSTANCE ErpCatalog

-----------------------------------------------------------------------------
(* The tools.                                                              *)

RagTools == {"integration.search", "bpmn.find_process", "eam.search_apps", "oracle.help.search", "oracle.kb.navigate"}
SapTools == {"oracle.system.info", "oracle.system.health", "oracle.system.cache_stats", "oracle.system.cache_invalidate",
             "oracle.rest.search", "oracle.rest.metadata", "oracle.rest.bulk_metadata", "oracle.rest.call",
             "oracle.object.read", "oracle.object.structure", "oracle.docs.search", "oracle.rest.parse_result",
             "oracle.party.search", "oracle.party.get"}
AdtTools == {"oracle.oic.get_integration", "oracle.oic.get_groovy_script", "oracle.oic.get_ess_job",
             "oracle.oic.get_connection", "oracle.oic.get_lookup", "oracle.oic.get_project_contents",
             "oracle.oic.get_bip_report", "oracle.oic.search", "oracle.oic.where_used", "oracle.oic.preview_data",
             "oracle.oic.activate"}
GraphTools == {"oracle.kb.multi_hop", "oracle.kb.global_query", "oracle.kb.summarise", "oracle.kb.graph_neighborhood"}
PurchaseOrder == "oracle.workflow.create_purchase_order"
CustomerMaster == "oracle.workflow.maintain_customer_master"
PublishSandbox == "oracle.workflow.publish_sandbox"
WorkflowTools == {PurchaseOrder, CustomerMaster, PublishSandbox}
AllTools == RagTools \cup SapTools \cup AdtTools \cup GraphTools \cup WorkflowTools
WriteTools == WorkflowTools \cup {"oracle.oic.activate"}   \* with_writes

\* The tools a server has at all: tools/list and tools/call see the same.
BadExposed(readOnly) == AllTools
Exposed(readOnly) == IF readOnly THEN AllTools \ WriteTools ELSE AllTools

-----------------------------------------------------------------------------
(* Startup.                                                                *)

(* An environment: which of the ORACLE_FUSION_ variables are set, and not  *)
(* empty; the credentials file; the two switches for writes; transport,    *)
(* address, OIC destination, bearer token, allowed origins, AGENTS.md.     *)
ReadOnly(e) == ~e.enableWrites /\ e.writesVar # "1"
Credentials(e) ==
  Erp!Layered((IF e.file = "none" THEN <<>> ELSE <<Erp!FileFetch(e.file)>>)
                \o <<Erp!EnvFetch(e.vars), Erp!Ok("static")>>)
FusionFromEnv(e) == "BASE_URL" \in e.vars
\* The system named in the audit: the configured pod, else the host of the
\* credentials.
AuditedSystem(e, identity) ==
  IF FusionFromEnv(e) THEN "pod" ELSE IF identity = "file" THEN "the file's host" ELSE "mock"
BuildAdtClient(e) ==
  CASE e.destination \in {"none", "auth = mock"} -> Erp!Ok("mock")
    [] e.destination = "live" -> Erp!Ok("http")
    [] OTHER -> Erp!Err("not loaded")

CannotStart(e) ==
  \/ ~Credentials(e).ok
  \/ ~BuildAdtClient(e).ok
  \/ e.transport \notin {"stdio", "http"}
  \/ e.transport = "http" /\ e.bind # "free"

Configured(e) ==
  LET identity == Credentials(e).value
  IN [phase |-> "serving", readOnly |-> ReadOnly(e), transport |-> e.transport, identity |-> identity,
      erp |-> IF FusionFromEnv(e) THEN "fusion" ELSE "mock",
      party |-> FusionFromEnv(e), oic |-> BuildAdtClient(e).value,
      system |-> AuditedSystem(e, identity),
      bearer |-> e.bearer, origins |-> e.origins, guardrails |-> e.agentsMd]

StartFails == /\ server.phase = "starting"
              /\ \E e \in Environments : CannotStart(e)
              /\ server' = [phase |-> "exited"]
              /\ UNCHANGED <<call, audit, metrics, events, logLevel>>
Start == /\ server.phase = "starting"
         /\ \E e \in Environments : ~CannotStart(e) /\ server' = Configured(e)
         /\ UNCHANGED <<call, audit, metrics, events, logLevel>>

-----------------------------------------------------------------------------
(* The audit.                                                              *)

(* A JSON value is the leaves of its tree: a function from their paths,    *)
(* sequences of keys and of indices of arrays.  Redacting replaces the     *)
(* whole value of a sensitive key: no path goes on beyond the first one.   *)
Sensitive == {"password", "token"}
SecretsOn(path) == {i \in DOMAIN path : path[i] \in Sensitive}
Cut(path) ==
  IF SecretsOn(path) = {} THEN path
  ELSE SubSeq(path, 1, CHOOSE i \in SecretsOn(path) : \A j \in SecretsOn(path) : i <= j)
Redact(v) ==
  [path \in {Cut(p) : p \in DOMAIN v} |-> IF SecretsOn(path) # {} THEN "***" ELSE v[path]]

\* record_write_audit and AuditLog::record: the sink writes at once.
Audit(c, k, outcome) ==
  audit' = Append(audit, [call |-> c, tool |-> k.tool, outcome |-> outcome, system |-> server.system,
                          arguments |-> Redact(k.arguments)])
NoAudit == UNCHANGED audit

-----------------------------------------------------------------------------
(* Calls.                                                                  *)

Reply(ok, why) == [ok |-> ok, why |-> why]
NoReply == Reply(FALSE, "none")
NoArguments == [path \in {<<>>} |-> "{}"]
Idle == [phase |-> "idle", tool |-> "none", request |-> "none", arguments |-> NoArguments, answers |-> <<>>,
         happened |-> "nothing", metric |-> 0, reply |-> NoReply]

\* The dispatch closure of the HTTP transport records the call before it is
\* answered; over stdio nothing is recorded.
Returned(k, reply) ==
  [k EXCEPT !.reply = reply, !.phase = IF server.transport = "http" THEN "recording" ELSE "answered",
            !.metric = IF server.transport = "http" THEN 1 ELSE 0]

\* HTTP dispatches without a channel for questions: each is declined at once.
BadElicitationEnabled == TRUE
ElicitationEnabled == server.transport = "stdio"
Answer(action, sandbox, phrase) == [action |-> action, sandbox |-> sandbox, phrase |-> phrase]
Declined == Answer("Decline", "", "")

\* The phrase is compared with the sandbox as the form returned them; a field
\* that is missing reads as empty.
BadConfirmed(a) == a.sandbox # ""
Confirmed(a) == a.sandbox = a.phrase
Forms(tool) == IF tool = CustomerMaster THEN 2 ELSE 1

\* What a workflow does with its latest answer: another question, or its end.
Verdict(tool, answers) ==
  LET a == Last(answers)
      first == Len(answers) < Forms(tool)
      End(ok, why, outcome) == [more |-> FALSE, reply |-> Reply(ok, why), outcome |-> outcome]
  IN CASE a.action = "Accept" /\ first -> [more |-> TRUE]
       [] a.action # "Accept" /\ first -> End(FALSE, "cancelled at scope selection", "declined")
       [] a.action = "Accept" /\ ~first /\ tool = PublishSandbox /\ ~Confirmed(a) ->
            End(FALSE, "phrase mismatch", "denied")
       [] a.action = "Accept" /\ ~first /\ (tool # PublishSandbox \/ Confirmed(a)) -> End(TRUE, "confirmed", "ok")
       [] a.action = "Decline" /\ ~first -> End(TRUE, "declined", "declined")
       [] a.action = "Cancel" /\ ~first -> End(FALSE, "cancelled", "denied")

Continue(c, k) ==
  LET v == Verdict(k.tool, k.answers)
  IN IF v.more THEN call' = [call EXCEPT ![c] = [k EXCEPT !.phase = "asking"]] /\ NoAudit
     ELSE call' = [call EXCEPT ![c] = Returned(k, v.reply)] /\ Audit(c, k, v.outcome)

Requests(tool) == {"invalid"} \cup (IF tool = "oracle.rest.call" THEN {"read", "modify", "commit"} ELSE {"plain"})

\* tools/call up to the first thing it waits for.
ToolsCall(c) ==
  \E tool \in CalledTools : \E request \in Requests(tool),
     arguments \in IF tool = "oracle.rest.call" THEN Arguments ELSE {NoArguments} :
    LET k == [Idle EXCEPT !.tool = tool, !.request = request, !.arguments = arguments]
        Fail(why) == call' = [call EXCEPT ![c] = Returned(k, Reply(FALSE, why))] /\ NoAudit
    IN /\ CASE tool \notin Exposed(server.readOnly) -> Fail("UnknownTool")
            [] tool \in Exposed(server.readOnly) /\ request = "invalid" -> Fail("invalid arguments")
            [] OTHER ->
                 CASE tool \in WorkflowTools /\ ElicitationEnabled ->
                        call' = [call EXCEPT ![c] = [k EXCEPT !.phase = "asking"]] /\ NoAudit
                   [] tool \in WorkflowTools /\ ~ElicitationEnabled ->
                        Continue(c, [k EXCEPT !.answers = <<Declined>>])
                   [] OTHER -> call' = [call EXCEPT ![c] = [k EXCEPT !.phase = "upstream"]] /\ NoAudit
       /\ UNCHANGED <<server, metrics, events, logLevel>>

UserAnswers(c) ==
  LET k == call[c] IN
  /\ k.phase = "asking" /\ server.phase = "serving" /\ server.transport = "stdio"
  /\ \E a \in {Declined, Answer("Cancel", "", "")} \cup
              (IF k.tool = PublishSandbox THEN [action : {"Accept"}, sandbox : {"", "x"}, phrase : {"", "x"}]
               ELSE {Answer("Accept", "", "")}) :
       Continue(c, [k EXCEPT !.answers = Append(k.answers, a)])
  /\ UNCHANGED <<server, metrics, events, logLevel>>

\* The client behind the tool answers.  On a read-only server its gate
\* refuses what modifies; a commit is audited whatever became of it.
UpstreamAnswers(c) ==
  LET k == call[c]
      denied == server.readOnly /\ k.request \in {"modify", "commit"}
      End(ok, why, happened) ==
        call' = [call EXCEPT ![c] = Returned([k EXCEPT !.happened = happened], Reply(ok, why))]
  IN /\ k.phase = "upstream"
     /\ \/ denied /\ End(FALSE, "denied", "nothing")
                  /\ IF k.request = "commit" THEN Audit(c, k, "denied") ELSE NoAudit
        \/ ~denied /\ k.request = "commit"
           /\ \/ End(TRUE, "committed", "written") /\ Audit(c, k, "ok")
              \/ End(TRUE, "not committed", "rolled back") /\ Audit(c, k, "failed")
              \/ End(FALSE, "failed", "unknown") /\ Audit(c, k, "failed")
        \/ ~denied /\ k.request # "commit" /\ NoAudit
           /\ \/ End(TRUE, "result", IF k.request = "modify" \/ k.tool \in WriteTools THEN "written" ELSE "read")
              \/ End(FALSE, "failed", "unknown")
     /\ UNCHANGED <<server, metrics, events, logLevel>>

\* A client that closes its connection takes the handler with it, wherever
\* it waits.
ClientLeaves(c) ==
  /\ call[c].phase = "upstream" /\ server.transport = "http"
  /\ call' = [call EXCEPT ![c].phase = "dropped"]
  /\ UNCHANGED <<server, audit, metrics, events, logLevel>>

-----------------------------------------------------------------------------
(* The other methods answer at once.                                       *)

SelectProtocolVersion(client) == "2025-06-18"
LogLevels == {"error"}   \* the initial level is info; the ranks are all alike
Resources == {"oracle-erp://info", "oracle-object://{name}/structure", "oracle-rest://{name}", "oic-connection://info",
              "oracle-cache://stats"} \cup (IF server.guardrails THEN {"agents://guardrails"} ELSE {})
BuiltInPrompts == {"oracle.review-rest-call", "oracle.sandbox-impact-analysis", "oracle.review-where-used"}
Prompts == BuiltInPrompts \cup {"a skill"}
\* Completions by first letter; none for a resource or an unknown argument.
Completers == ("security_sod_audit.scope" :> {"user", "role", "system"})
                @@ ("custom_code_review.kind" :> {"integration", "groovy_script", "connection", "bip_report"})
MaxCompletions == 100
Complete(argument, matching) ==
  LET all == IF argument \in DOMAIN Completers THEN Completers[argument] \cap matching ELSE {}
  IN [total |-> Cardinality(all), hasMore |-> Cardinality(all) > MaxCompletions]

Found(name, names) == IF name \in names THEN Reply(TRUE, "result") ELSE Reply(FALSE, "InvalidParams")
Completed(c) == Reply(TRUE, IF c.total = 0 THEN "no completions" ELSE IF c.hasMore THEN "the first" ELSE "all completions")
MethodReplies ==
  {Reply(TRUE, SelectProtocolVersion("any")), Reply(TRUE, "ping or list"), Reply(TRUE, "202, no reply to a notification or a response")}
    \cup {Found(uri, Resources) : uri \in {"oracle-erp://info", "agents://guardrails"}}
    \cup {Reply(FALSE, "InternalError")}    \* the backend behind a resource
    \cup {Found(p, Prompts) : p \in {"a skill", "unknown"}}
    \cup {Reply(FALSE, "MethodNotFound"), Reply(FALSE, "InvalidParams")}
    \cup {Completed(Complete(a, {"user"})) : a \in {"security_sod_audit.scope", "unknown"}}

\* Only tools/call is recorded.
OtherMethod(c) ==
  \/ /\ \E r \in MethodReplies : call' = [call EXCEPT ![c] = [Idle EXCEPT !.phase = "answered", !.reply = r]]
     /\ UNCHANGED <<server, audit, metrics, events, logLevel>>
  \/ /\ \E l \in LogLevels : logLevel' = l
     /\ call' = [call EXCEPT ![c] = [Idle EXCEPT !.phase = "answered", !.reply = Reply(TRUE, "setLevel")]]
     /\ UNCHANGED <<server, audit, metrics, events>>

Dispatch(c) == ToolsCall(c) \/ OtherMethod(c)

ReadLine(c) == server.phase = "serving" /\ server.transport = "stdio" /\ call[c] = Idle /\ Dispatch(c)

\* Over HTTP a request carries an origin and a token, or lacks them.
CheckOrigin(origin) == server.origins = {} \/ origin \in server.origins
CheckAuth(token) == server.bearer = "none" \/ token = server.bearer
Post(c) ==
  /\ server.phase = "serving" /\ server.transport = "http" /\ call[c] = Idle
  /\ \E origin \in {"none", "app", "other"}, token \in {"none", "right", "wrong"}, wellFormed \in BOOLEAN :
       LET Refuse(status) == /\ call' = [call EXCEPT ![c] = [Idle EXCEPT !.phase = "answered", !.reply = Reply(FALSE, status)]]
                             /\ UNCHANGED <<server, audit, metrics, events, logLevel>>
       IN CASE ~CheckOrigin(origin) -> Refuse("403")
            [] CheckOrigin(origin) /\ ~CheckAuth(token) -> Refuse("401")
            [] CheckOrigin(origin) /\ CheckAuth(token) /\ ~wellFormed -> Refuse("400")
            [] OTHER -> Dispatch(c)

-----------------------------------------------------------------------------
(* Metrics: one series per tool; each update takes the registry's lock by  *)
(* itself, and /metrics may be rendered between two of them.               *)

Buckets == 1..3   \* the last is +Inf; the code has more, all alike
NoMetrics == [calls |-> [t \in CalledTools |-> 0], latency |-> [t \in CalledTools |-> [b \in Buckets |-> 0]],
              errors |-> [t \in CalledTools |-> 0], denied |-> [t \in CalledTools |-> 0]]
IncCounter(name, tool) == metrics' = [metrics EXCEPT ![name][tool] = @ + 1]
\* Cumulative: the observation's own bucket and all above it.
ObserveHistogram(tool, first) ==
  metrics' = [metrics EXCEPT !.latency[tool] = [b \in Buckets |-> IF b >= first THEN @[b] + 1 ELSE @[b]]]

ResponseDenied(reply) == reply.why = "denied"
BadRecordOrder == <<"errors", "calls", "latency", "denied">>
RecordOrder == <<"calls", "latency", "errors", "denied">>
Record(c) ==
  LET k == call[c]
      name == RecordOrder[k.metric]
      counted == /\ name \in {"errors", "denied"} => ~k.reply.ok
                 /\ name = "denied" => ResponseDenied(k.reply)
  IN /\ k.phase = "recording"
     /\ CASE ~counted -> UNCHANGED metrics
          [] name = "latency" -> \E b \in Latencies : ObserveHistogram(k.tool, b)
          [] OTHER -> IncCounter(name, k.tool)
     /\ call' = [call EXCEPT ![c] = IF k.metric = Len(RecordOrder)
                                    THEN [k EXCEPT !.phase = "answered", !.metric = 0]
                                    ELSE [k EXCEPT !.metric = @ + 1]]
     /\ UNCHANGED <<server, audit, events, logLevel>>

-----------------------------------------------------------------------------
(* Event streams and shutdown.  The bus keeps the sender of every stream   *)
(* ever opened, and nothing is ever sent on it.                            *)

Subscribe ==
  /\ server.phase = "serving" /\ server.transport = "http" /\ events.bus < MaxSubscriptions
  /\ \E origin \in {"none", "app"}, token \in {"none", "right"} : CheckOrigin(origin) /\ CheckAuth(token)
  /\ events' = [bus |-> events.bus + 1, open |-> events.open + 1]
  /\ UNCHANGED <<server, call, audit, metrics, logLevel>>
SubscriberLeaves ==
  /\ events.open > 0 /\ events' = [events EXCEPT !.open = @ - 1]
  /\ UNCHANGED <<server, call, audit, metrics, logLevel>>

\* Ctrl-C: no new requests, those in flight are answered.
Interrupt ==
  /\ server.phase = "serving" /\ server.transport = "http"
  /\ server' = [server EXCEPT !.phase = "stopping"]
  /\ UNCHANGED <<call, audit, metrics, events, logLevel>>
InFlight(c) == call[c].phase \in {"asking", "upstream", "recording"}
Exit ==
  /\ server.phase = "stopping" /\ events.open = 0 /\ \A c \in Calls : ~InFlight(c)
  /\ server' = [server EXCEPT !.phase = "exited"]
  /\ UNCHANGED <<call, audit, metrics, events, logLevel>>

-----------------------------------------------------------------------------
Init ==
  /\ server = [phase |-> "starting"]
  /\ call = [c \in Calls |-> Idle]
  /\ audit = <<>>
  /\ metrics = NoMetrics
  /\ events = [bus |-> 0, open |-> 0]
  /\ logLevel = "info"

Next ==
  \/ Start \/ StartFails \/ Subscribe \/ SubscriberLeaves \/ Interrupt \/ Exit
  \/ \E c \in Calls :
       ReadLine(c) \/ Post(c) \/ UserAnswers(c) \/ UpstreamAnswers(c) \/ ClientLeaves(c) \/ Record(c)

(* Tasks run, every backend request has a timeout, and the server exits    *)
(* when it can.  No client and no user owes anything.                      *)
Fairness ==
  /\ WF_vars(Exit)
  /\ \A c \in Calls : WF_vars(UpstreamAnswers(c)) /\ WF_vars(Record(c))
Spec == Init /\ [][Next]_vars /\ Fairness

-----------------------------------------------------------------------------
(* A value with a secret in it, however deep: under a sensitive key lies   *)
(* anything but the stars.                                                 *)
HasSecret(v) ==
  \E path \in DOMAIN v : \E i \in DOMAIN path :
    path[i] \in Sensitive /\ (i < Len(path) \/ v[path] # "***")

Audited(k) == k.tool \in WorkflowTools \/ k.request = "commit"
Agreed(k) ==
  IF k.tool \in WorkflowTools
  THEN /\ Len(k.answers) = Forms(k.tool)
       /\ \A i \in DOMAIN k.answers : k.answers[i].action = "Accept"
       /\ k.tool = PublishSandbox => Last(k.answers).sandbox = Last(k.answers).phrase
  ELSE k.happened = "written"
Ended(k) == k.phase \in {"recording", "answered"} /\ k.reply.why \notin {"UnknownTool", "invalid arguments"}

(* The audit tells the truth: a call has a row just when its handler ended *)
(* a workflow or a commit; the row says ok exactly when the user confirmed *)
(* every form, the sandbox by its own name, or the write was committed;    *)
(* the caller is told a failure when the write's fate is unknown; and no   *)
(* row holds a secret.                                                     *)
AuditTellsTheTruth ==
  /\ \A c \in Calls :
       LET rows == {i \in DOMAIN audit : audit[i].call = c}
       IN IF Ended(call[c]) /\ Audited(call[c])
          THEN \E i \in rows :
                 /\ rows = {i}
                 /\ audit[i].tool = call[c].tool
                 /\ audit[i].outcome = "ok" <=> Agreed(call[c])
                 /\ audit[i].outcome = "denied" \/ call[c].happened = "unknown" => ~call[c].reply.ok
          ELSE rows = {}
  /\ \A i \in DOMAIN audit : ~HasSecret(audit[i].arguments)

(* A server on a live pod never presents the built-in demo identity, and   *)
(* its audit names the pod: incomplete variables stop the start.           *)
NoDemoIdentityOnAPod ==
  server.phase = "serving" /\ server.erp = "fusion" => server.identity # "static" /\ server.system = "pod"

(* On a read-only server nothing is written, no user is asked to confirm a *)
(* write, and no row claims one; the write tools are as good as unknown.   *)
ReadOnlyServerIsReadOnly ==
  server.phase \in {"serving", "stopping"} /\ server.readOnly =>
    /\ \A c \in Calls : call[c].phase # "asking" /\ call[c].answers = <<>> /\ call[c].happened # "written"
    /\ \A i \in DOMAIN audit : audit[i].outcome = "denied" /\ audit[i].tool \notin WriteTools

(* Whenever /\metrics is rendered, each tool's counters are consistent:    *)
(* no more denials than errors, errors than latencies, latencies than      *)
(* calls, and buckets that grow; once all calls are answered they are the  *)
(* true numbers.                                                           *)
Recorded(t) == {c \in Calls : server.transport = "http" /\ call[c].tool = t /\ call[c].phase = "answered"}
MetricsAgree ==
  server.phase \in {"serving", "stopping"} =>
  \A t \in CalledTools :
    /\ metrics.denied[t] <= metrics.errors[t]
    /\ metrics.errors[t] <= metrics.latency[t][3]
    /\ metrics.latency[t][3] <= metrics.calls[t]
    /\ metrics.latency[t][1] <= metrics.latency[t][2] /\ metrics.latency[t][2] <= metrics.latency[t][3]
    /\ (\A c \in Calls : call[c].phase # "recording") =>
         /\ metrics.calls[t] = Cardinality(Recorded(t)) /\ metrics.latency[t][3] = metrics.calls[t]
         /\ metrics.errors[t] = Cardinality({c \in Recorded(t) : ~call[c].reply.ok})

(* Over HTTP every call is answered unless its client left: no handler     *)
(* waits for a question nobody can be asked, also when the server is told  *)
(* to stop; and told to stop it exits, as soon as no event stream is open. *)
HttpServerSettles ==
  /\ \A c \in Calls : server.phase = "serving" /\ server.transport = "http" /\ InFlight(c) ~> ~InFlight(c)
  /\ server.phase = "stopping" ~> server.phase = "exited" \/ events.open > 0
=============================================================================
