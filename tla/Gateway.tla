------------------------------- MODULE Gateway --------------------------------
(***************************************************************************)
(* The multi-channel gateway (apps/oracle-automate-gw/src/main.rs) with    *)
(* its channels (crates/oracle-automate-channels), memory tiers and job    *)
(* executor, and the server's skills as it sees them.                      *)
(*                                                                         *)
(* main starts the server, fires the scheduled jobs once, routes one       *)
(* simulated message and waits for the server to end.  route() and the     *)
(* registry are shared (Arc), and the module's documentation has adapters  *)
(* route messages of their own; those, and the recorders of episodes, are  *)
(* threads beside main here.  The server may die at any time, and a call   *)
(* ends as the client of McpClient ends it: the waiters that are there     *)
(* when its reader stops are dropped, a later one is never served.         *)
(*                                                                         *)
(* Operators named Bad... are mutants, plausible bugs of the definition    *)
(* that follows them, and no part of the specification.                    *)
(***************************************************************************)
EXTENDS Memory, Skills, FiniteSets

CONSTANTS
  Messages,     \* the messages that may come
  Simulated,    \* the one of --simulate-query, which main routes
  Inboxes,      \* what the messages may be: functions from Messages
  JobLists,     \* the jobs of the scheduler's configuration, sequences
  Folders,      \* the skill files of the server, in the order it visits them
  Episodes      \* what a recorder may record

\* Who calls the server: a message's route(), or main for itself and its jobs.
Main == "main"
Callers == Messages \cup {Main}

\* The sender of a post is a message or the name of a job, never both.
ASSUME GatewayAssumption ==
  /\ Simulated \in Messages /\ Main \notin Messages
  /\ Inboxes \subseteq [Messages -> [channel : STRING, conversation : Seq(STRING), user : STRING,
                                     words : SUBSET STRING]]
  /\ JobLists \subseteq Seq([name : STRING, enabled : BOOLEAN, channel : Seq(STRING)])
  /\ \A list \in JobLists : \A i \in DOMAIN list : list[i].name \notin Messages

VARIABLES
  inbox,        \* message -> its channel, conversation, user and keywords
  jobs,         \* the jobs of the configuration
  prompts,      \* the skills the server loaded, by name
  connected,    \* schemes with an adapter in the registry
  up,           \* is the server process alive?
  reading,      \* does the client's reader task still run?
  waiting,      \* the callers whose waiter is in the client's map
  late,         \* those that registered after the reader stopped (a record of the past)
  main,         \* where main is
  job,          \* index of the job main is at
  invoking,     \* is that job's call under way?
  reports,      \* the reports of fire_all_now, with what the call returned
  route,        \* message -> where its route() is, and the skill or tool it took
  turns,        \* conversation -> every turn ever appended (a record of the past)
  sent          \* the log of the CLI channel

client == <<reading, waiting, late>>
gateway == <<jobs, prompts, inbox, connected, up, client, main, job, invoking, reports, route, turns, sent>>
vars == <<memory, gateway>>

-----------------------------------------------------------------------------
(* Channels.  An address is split at its colons.                           *)

Address(m) == <<inbox[m].channel>> \o inbox[m].conversation

\* The scheme is what comes before the first colon.
BadScheme(address) == IF Len(address) = 1 THEN address[1] ELSE address[Len(address) - 1]
Scheme(address) == address[1]

\* registry.send: the adapters other than the CLI's are not connected yet.
SendResult(address) ==
  IF Scheme(address) \notin connected THEN "unknown"
  ELSE IF Scheme(address) = "cli" THEN "ok" ELSE "not connected"

Logged(address, from) ==
  IF SendResult(address) = "ok" THEN Append(sent, [address |-> address, from |-> from]) ELSE sent

-----------------------------------------------------------------------------
(* Intents.  A message is the set of the router's keywords its text has.   *)

Rule(all, skill, args) == [all |-> all, skill |-> skill, args |-> args]

Two(a, x, b, y) == [k \in {a, b} |-> IF k = a THEN x ELSE y]
One(a, x) == [k \in {a} |-> x]

\* match_skill(): the rules in their order; a rule asks for a keyword of each set.
BadAuditArguments == One("user_or_role", "target")
AuditArguments == Two("user_or_role", "target", "scope", "user")

Rules == <<
  Rule({{"sod", "segregation of duties", "authorisation audit"}, {"audit", "review", "sod"}},
       "security_sod_audit", AuditArguments),
  Rule({{"analytics", "otbi", "bicc", "oac", "bi publisher"}, {"moderniz", "migrat"}},
       "analytics_migration", One("source_object", "*")),
  Rule({{"period close", "closing"}, {"period close", "gl"}},
       "period_close_investigation", One("ledger", "Primary Ledger")),
  Rule({{"code review", "review"}, {"code review", "groovy", "integration", "oic"}},
       "custom_code_review", Two("object_name", "GT_RULE", "kind", "groovy_script")),
  Rule({{"rest", "service"}, {"design", "expose", "proxy"}},
       "rest_service_design", One("service_name", "purchaseOrders")),
  Rule({{"sandbox"}, {"impact", "publish", "analyze"}},
       "sandbox_impact_analysis", One("sandbox", "GT_FIX")),
  Rule({{"extensibility", "clean core"}}, "extensibility_audit", One("project", "GT_FINANCE")),
  Rule({{"guideline", "how should i think", "preflight"}}, "karpathy_guidelines",
       One("task", "investigate")) >>

Applies(rule, words) == \A alternatives \in rule.all : words \cap alternatives # {}
Matching(words) == {i \in DOMAIN Rules : Applies(Rules[i], words)}
MatchSkill(words) == Rules[Min(Matching(words))]

\* A skill the rules name is the repository's, whatever other files the server
\* finds: the last file that declares the name is the one that stays.
ASSUME SkillsAssumption ==
  \A files \in Folders :
    /\ files \in Seq(SkillFiles)
    /\ \A i \in DOMAIN Rules :
         LET those == Declaring(files, Rules[i].skill)
         IN  those # {} => files[Max(those)] \in Range(RepositorySkills)

\* The skills the server may have loaded.
Loaded == {ScanPaths(files).skills : files \in Folders}

Tool(words) ==
  IF words \cap {"sod", "access control"} # {} THEN "oracle.docs.search"
  ELSE IF words \cap {"impact", "where used", "depends"} # {} THEN "kb.multi_hop"
  ELSE "oracle.docs.search"

-----------------------------------------------------------------------------

NoMessage == [channel |-> "none", conversation |-> <<>>, user |-> "none", words |-> {}]
Fresh == [at |-> "idle", via |-> "none", text |-> <<>>]

Init ==
  /\ MemoryInit(Episodes)
  /\ inbox \in Inboxes /\ jobs \in JobLists
  /\ prompts \in Loaded
  /\ connected \in {{"cli"}, {"cli", "teams"}}
  /\ up = TRUE /\ reading = TRUE /\ waiting = {} /\ late = {}
  /\ main = "starting" /\ job = 1 /\ invoking = FALSE
  /\ reports = <<>> /\ sent = <<>>
  /\ route = [m \in Messages |-> Fresh]
  /\ turns = [m \in {} |-> <<>>]

Over == main \in {"exited", "failed"}
Waiting == main = "closing"

-----------------------------------------------------------------------------
(* The client's calls.                                                     *)

\* call() registers a waiter and queues its request, whether or not a reader is
\* left; once a write to a dead server has failed, the outbox is closed to it.
Begins(c) ==
  \/ /\ waiting' = waiting \cup {c}
     /\ late' = IF reading THEN late ELSE late \cup {c}
     /\ UNCHANGED reading
  \/ ~up /\ UNCHANGED client

\* The server's reply, a result or an error, takes the waiter out of the map.
Replied(c) == up /\ c \in waiting /\ waiting' = waiting \ {c} /\ UNCHANGED <<reading, late>>

\* The sender was dropped, or there never was one: TransportClosed.
Closed(c) == c \notin waiting /\ UNCHANGED client

ServerDies ==
  /\ up /\ ~Over
  /\ up' = FALSE
  /\ UNCHANGED <<memory, inbox, jobs, prompts, connected, client, main, job, invoking, reports,
                 route, turns, sent>>

\* End of the server's output: the reader empties the map and stops.
ReaderEnds ==
  /\ reading /\ ~up /\ ~Over
  /\ reading' = FALSE
  /\ waiting' = {}
  /\ UNCHANGED <<memory, inbox, jobs, prompts, connected, up, late, main, job, invoking, reports,
                 route, turns, sent>>

-----------------------------------------------------------------------------
(* main, and the executor of its jobs.                                     *)

Connect ==
  /\ main = "starting"
  /\ main' = "initializing"
  /\ Begins(Main)
  /\ UNCHANGED <<memory, inbox, jobs, prompts, connected, up, job, invoking, reports, route,
                 turns, sent>>

Initialize ==
  /\ main = "initializing"
  /\ \/ Replied(Main) /\ main' \in {"jobs", "failed"}
     \/ Closed(Main) /\ main' = "failed"
  /\ UNCHANGED <<memory, inbox, jobs, prompts, connected, up, job, invoking, reports, route,
                 turns, sent>>

\* fire_once of a disabled job reports nothing.
SkipJob ==
  /\ main = "jobs" /\ job <= Len(jobs) /\ ~jobs[job].enabled
  /\ job' = job + 1
  /\ UNCHANGED <<memory, inbox, jobs, prompts, connected, up, client, main, invoking, reports, route,
                 turns, sent>>

InvokeJob ==
  /\ main = "jobs" /\ job <= Len(jobs) /\ jobs[job].enabled /\ ~invoking
  /\ invoking' = TRUE
  /\ Begins(Main)
  /\ UNCHANGED <<memory, inbox, jobs, prompts, connected, up, main, job, reports, route, turns,
                 sent>>

\* The result of the post is ignored, a result that says isError is a result.
JobOk(call, posted) == call # "error"

ReportJob(call) ==
  LET address == jobs[job].channel
      posts   == call # "error" /\ address # <<>>
  IN  /\ main = "jobs" /\ invoking
      /\ Replied(Main) \/ (Closed(Main) /\ call = "error")
      /\ sent' = IF posts THEN Logged(address, jobs[job].name) ELSE sent
      /\ reports' = Append(reports,
           [job |-> jobs[job].name, call |-> call,
            ok |-> JobOk(call, posts => SendResult(address) = "ok")])
      /\ invoking' = FALSE
      /\ job' = job + 1
      /\ UNCHANGED <<memory, inbox, jobs, prompts, connected, up, main, route, turns>>

JobsDone ==
  /\ main = "jobs" /\ job > Len(jobs)
  /\ main' = IF inbox[Simulated] = NoMessage THEN "closing" ELSE "message"
  /\ UNCHANGED <<memory, inbox, jobs, prompts, connected, up, client, job, invoking, reports, route,
                 turns, sent>>

\* The `?` after route and after send end the program; otherwise it drops its
\* client, which keeps the server's stdin open, and waits for the server.
MessageDone ==
  /\ main = "message" /\ route[Simulated].at \in {"replied", "failed"}
  /\ main' = IF route[Simulated].at = "replied" THEN "closing" ELSE "failed"
  /\ UNCHANGED <<memory, inbox, jobs, prompts, connected, up, client, job, invoking, reports, route,
                 turns, sent>>

ServerEnded ==
  /\ Waiting /\ ~up
  /\ main' = "exited"
  /\ UNCHANGED <<memory, inbox, jobs, prompts, connected, up, client, job, invoking, reports, route,
                 turns, sent>>

MainStep ==
  \/ Connect \/ Initialize \/ SkipJob \/ InvokeJob \/ JobsDone \/ MessageDone \/ ServerEnded
  \/ \E call \in {"ok", "isError", "error"} : ReportJob(call)

-----------------------------------------------------------------------------
(* route(), and the send after it.                                         *)

Say(m, entry) ==
  LET c == inbox[m].conversation
  IN  /\ working' = Appended(c, entry)
      /\ turns' = [k \in DOMAIN turns \cup {c} |->
                     IF k # c THEN turns[k]
                     ELSE IF c \in DOMAIN turns THEN Append(turns[c], entry) ELSE <<entry>>]

Turn(kind, m) == [key |-> kind, tenant |-> inbox[m].user, message |-> m]

Rest == <<episodic, inbox, jobs, prompts, connected, up, main, job, invoking, reports>>
RestOfCall == <<Rest, working, turns, sent>>

\* The user's turn, and the choice of a skill or a tool.
Receive(m) ==
  /\ ~Over /\ route[m].at = "idle" /\ inbox[m] # NoMessage
  /\ m = Simulated => main = "message"
  /\ main \notin {"starting", "initializing"}
  /\ Say(m, Turn("user_turn", m))
  /\ route' = [route EXCEPT ![m].at = IF Matching(inbox[m].words) # {} THEN "skill" ELSE "tool"]
  /\ UNCHANGED <<Rest, client, sent>>

GetPrompt(m) ==
  /\ ~Over /\ route[m].at = "skill"
  /\ route' = [route EXCEPT ![m].at = "prompting"]
  /\ Begins(m) /\ UNCHANGED RestOfCall

\* get_prompt answers: the rendered skill.
PromptAnswers(m) ==
  LET rule == MatchSkill(inbox[m].words)
  IN  /\ ~Over /\ route[m].at = "prompting"
      /\ Replied(m) /\ rule.skill \in DOMAIN prompts
      /\ Say(m, Turn("agent_turn", m))
      /\ route' = [route EXCEPT ![m] = [at |-> "answered", via |-> rule.skill,
                                        text |-> Render(prompts[rule.skill], rule.args)]]
      /\ UNCHANGED <<Rest, sent>>

\* Any error of get_prompt: on to the tools.
BadAfterPromptError == "skill"
AfterPromptError == "tool"
PromptFails(m) ==
  /\ ~Over /\ route[m].at = "prompting"
  /\ Closed(m) \/ (Replied(m) /\ MatchSkill(inbox[m].words).skill \notin DOMAIN prompts)
  /\ route' = [route EXCEPT ![m].at = AfterPromptError]
  /\ UNCHANGED RestOfCall

CallTool(m) ==
  /\ ~Over /\ route[m].at = "tool"
  /\ route' = [route EXCEPT ![m].at = "calling"]
  /\ Begins(m) /\ UNCHANGED RestOfCall

\* call_tool returns the tool's result, which may say isError.
ToolAnswers(m) ==
  /\ ~Over /\ route[m].at = "calling" /\ Replied(m)
  /\ Say(m, Turn("agent_turn", m))
  /\ route' = [route EXCEPT ![m] = [at |-> "answered", via |-> Tool(inbox[m].words),
                                    text |-> <<>>]]
  /\ UNCHANGED <<Rest, sent>>

\* An error of call_tool, the server's or the client's own, leaves the user's
\* turn without an answer.
ToolFails(m) ==
  /\ ~Over /\ route[m].at = "calling"
  /\ Replied(m) \/ Closed(m)
  /\ route' = [route EXCEPT ![m].at = "failed"]
  /\ UNCHANGED RestOfCall

Reply(m) ==
  /\ ~Over /\ route[m].at = "answered"
  /\ sent' = Logged(Address(m), m)
  /\ route' = [route EXCEPT ![m].at = IF SendResult(Address(m)) = "ok" THEN "replied" ELSE "failed"]
  /\ UNCHANGED <<Rest, client, working, turns>>

RouteStep(m) == Receive(m) \/ GetPrompt(m) \/ PromptAnswers(m) \/ PromptFails(m)
                \/ CallTool(m) \/ ToolAnswers(m) \/ ToolFails(m) \/ Reply(m)

Remember == ~Over /\ EpisodicStep /\ UNCHANGED gateway

Next == \/ MainStep \/ (\E m \in Messages : RouteStep(m))
        \/ ServerDies \/ ReaderEnds \/ Remember

Spec == Init /\ [][Next]_vars

\* The runtime polls main, every route and the client's reader; a live server
\* answers.  Nothing makes a late call return.
Fairness == /\ WF_vars(MainStep) /\ WF_vars(ReaderEnds)
            /\ \A m \in Messages : WF_vars(RouteStep(m))
FairSpec == Spec /\ Fairness

-----------------------------------------------------------------------------
(* Properties.                                                             *)

\* A reply is posted where its message came from and nowhere else: the CLI
\* channel logs exactly the answered messages and posts of its own scheme,
\* once each, though conversation ids contain colons and the names of other
\* schemes; a message of an adapter that is not connected is not answered.
RepliesGoHome ==
  LET Posts(from) == {i \in DOMAIN sent : sent[i].from = from}
  IN  /\ \A i \in DOMAIN sent : sent[i].address[1] = "cli"
      /\ \A m \in Messages :
           /\ Cardinality(Posts(m)) = (IF route[m].at = "replied" THEN 1 ELSE 0)
           /\ \A i \in Posts(m) : sent[i].address = Address(m)
           /\ route[m].at = "replied" => inbox[m].channel = "cli"

\* A message routed to a skill is answered with all of the skill: the router
\* gives every required argument under the name the repository's skill declares,
\* and no hole is left open, whatever else the server's folders hold short of a
\* later file that takes a routed skill's name (SkillsAssumption).
SkillRepliesAreWhole ==
  \A m \in Messages : route[m].at \in {"answered", "replied"} =>
    \A i \in DOMAIN route[m].text : route[m].text[i].kind = "text"

\* Working memory is the tail of the conversation, whoever takes turns in it:
\* the ring keeps the newest turns in their order, and no agent's turn comes
\* before the user's turn it answers.
MemoryIsTheLatestTurns ==
  \A c \in DOMAIN turns :
    LET said == turns[c]
    IN  /\ working[c] = SubSeq(said, Len(said) - Len(working[c]) + 1, Len(said))
        /\ Len(working[c]) = (IF Len(said) < Capacity THEN Len(said) ELSE Capacity)
        /\ \A i \in DOMAIN said : said[i].key = "agent_turn" =>
             \E j \in 1..i - 1 : said[j] = [said[i] EXCEPT !.key = "user_turn"]

\* A message that was taken up is answered or fails, and main comes to wait
\* for its server or to an end, whether the server lives or dies during a call:
\* only a call that was begun after the client's reader had stopped is never
\* heard of again.
MessagesAreSettled ==
  /\ \A m \in Messages :
       route[m].at # "idle" ~> route[m].at \in {"replied", "failed"} \/ Over \/ m \in late
  /\ <>(Waiting \/ Over \/ Main \in late \/ Simulated \in late)
=============================================================================
