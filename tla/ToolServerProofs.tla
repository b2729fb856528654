--------------------------- MODULE ToolServerProofs ---------------------------
(***************************************************************************)
(* What holds of every server application, whatever calls reach it, in any *)
(* number: a live pod is never presented with the demo's identity; a       *)
(* read-only server writes nothing; the audit tells the truth and holds no *)
(* secret; and the metrics of a tool agree with one another and with the   *)
(* calls.  The invariant says where a handler can be and what it then      *)
(* knows, that a call owes its row exactly from its end, and that each     *)
(* counter is the number of calls past the update that increments it.      *)
(***************************************************************************)
EXTENDS ToolServer, FiniteSetTheorems, WellFoundedInduction, TLAPS

-----------------------------------------------------------------------------
(* Startup.                                                                *)

LEMMA ConcatIs ==
  ASSUME NEW T, NEW s \in Seq(T), NEW t \in Seq(T)
  PROVE  /\ s \o t \in Seq(T) /\ Len(s \o t) = Len(s) + Len(t)
         /\ \A i \in 1..Len(s) : (s \o t)[i] = s[i]
         /\ \A i \in 1..Len(t) : (s \o t)[Len(s) + i] = t[i]
  OBVIOUS

LEMMA OneBeforeTwo ==
  ASSUME NEW a, NEW b, NEW c
  PROVE  /\ DOMAIN (<<a>> \o <<b, c>>) = 1..3
         /\ (<<a>> \o <<b, c>>)[1] = a /\ (<<a>> \o <<b, c>>)[2] = b
<1> DEFINE s == <<a>>
           t == <<b, c>>
<1>1. s \in Seq({a, b, c}) /\ t \in Seq({a, b, c}) /\ Len(s) = 1 /\ Len(t) = 2
      /\ s[1] = a /\ t[1] = b
  OBVIOUS
<1> HIDE DEF s, t
<1> DEFINE T == {a, b, c}
<1> HIDE DEF T
<1>2. /\ s \o t \in Seq(T) /\ Len(s \o t) = Len(s) + Len(t)
      /\ \A i \in 1..Len(s) : (s \o t)[i] = s[i]
      /\ \A i \in 1..Len(t) : (s \o t)[Len(s) + i] = t[i]
  BY <1>1, ConcatIs DEF T
<1>3. Len(s \o t) = 3 /\ (s \o t)[1] = a /\ (s \o t)[2] = b /\ DOMAIN (s \o t) = 1..3
  <2>1. 1 \in 1..Len(s) /\ 1 \in 1..Len(t) /\ Len(s) + 1 = 2
    BY <1>1
  <2> QED
    BY <1>1, <1>2, <2>1
<1> QED
  BY <1>3 DEF s, t

\* Whatever identity a server takes next to a pod's address is not the demo's.
LEMMA IdentityIsReal ==
  ASSUME NEW e \in Environments, Credentials(e).ok, FusionFromEnv(e)
  PROVE  Credentials(e).value # "static"
<1> DEFINE file == IF e.file = "none" THEN <<>> ELSE <<Erp!FileFetch(e.file)>>
           env == Erp!EnvFetch(e.vars)
           answers == file \o <<env, Erp!Ok("static")>>
           given == {i \in DOMAIN answers : answers[i] # Erp!None}
           first == CHOOSE i \in given : \A j \in given : i <= j
<1>1. env \in {Erp!Ok("env"), Erp!Err("AuthFailed")} /\ env # Erp!None
  BY DEF FusionFromEnv, Erp!EnvFetch, Erp!EnvNeeded, Erp!None, Erp!Ok, Erp!Err
<1>2. Credentials(e) = IF given = {} THEN Erp!None ELSE answers[first]
  BY DEF Credentials, Erp!Layered
<1> HIDE DEF env
<1>3. CASE e.file = "none"
  <2>1. answers = <<env, Erp!Ok("static")>>
    BY <1>3
  <2>2. DOMAIN answers = 1..2 /\ answers[1] = env
    BY <2>1
  <2>3. 1 \in given /\ \A i \in given : 1 <= i
    BY <1>1, <2>2
  <2>4. first = 1
    BY <2>3, <2>2
  <2> HIDE DEF given, answers, first
  <2>5. Credentials(e) = env
    BY <1>2, <2>2, <2>3, <2>4
  <2> QED
    BY <1>1, <2>5 DEF Erp!Ok, Erp!Err
<1>4. CASE e.file # "none"
  <2> DEFINE f == Erp!FileFetch(e.file)
  <2>1. f \in {Erp!None, Erp!Err("AuthFailed"), Erp!Ok("file")}
    BY <1>4, ToolServerAssumption DEF Erp!FileFetch
  <2> HIDE DEF f
  <2>2. answers = <<f>> \o <<env, Erp!Ok("static")>>
    BY <1>4 DEF f
  <2>3. DOMAIN answers = 1..3 /\ answers[1] = f /\ answers[2] = env
    <3> HIDE DEF answers
    <3> QED
      BY <2>2, OneBeforeTwo
  <2>4. 2 \in given /\ \A i \in given : i \in 1..3
    BY <1>1, <2>3
  <2>5. 1 \in given <=> f # Erp!None
    BY <2>3
  <2> HIDE DEF given, answers
  <2>6. first = IF f # Erp!None THEN 1 ELSE 2
    BY <2>4, <2>5
  <2> QED
    BY <1>1, <1>2, <2>1, <2>3, <2>4, <2>6 DEF Erp!Ok, Erp!Err
<1> QED
  BY <1>3, <1>4

-----------------------------------------------------------------------------
(* The audit.                                                              *)

LEMMA LeastExists ==
  ASSUME NEW S, S \subseteq Nat, S # {}
  PROVE  \E i \in S : \A j \in S : i <= j
<1>1. PICK i \in S : \A j \in S : <<j, i>> \notin OpToRel(<, Nat)
  BY NatLessThanWellFounded, WFMin
<1>2. \A j \in S : ~(j < i)
  BY <1>1 DEF OpToRel
<1> QED
  BY <1>2

\* Redacting leaves no secret in a value, however deep it lay.
LEMMA RedactedHasNoSecret ==
  ASSUME NEW v, DOMAIN v \subseteq Seq(STRING)
  PROVE  ~HasSecret(Redact(v))
<1>1. ASSUME NEW p \in Seq(STRING)
      PROVE  \A i \in SecretsOn(Cut(p)) : i = Len(Cut(p)) /\ Cut(p)[i] \in Sensitive
  <2>1. CASE SecretsOn(p) = {}
    BY <2>1 DEF Cut
  <2>2. CASE SecretsOn(p) # {}
    <3> DEFINE S == SecretsOn(p)
               n == CHOOSE i \in S : \A j \in S : i <= j
    <3>1. S \subseteq 1..Len(p) /\ Len(p) \in Nat
      BY DEF SecretsOn
    <3>2. n \in S /\ \A j \in S : n <= j
      <4>1. \E i \in S : \A j \in S : i <= j
        <5>1. S \subseteq Nat /\ S # {}
          BY <2>2, <3>1
        <5> HIDE DEF S
        <5> QED
          BY <5>1, LeastExists
      <4> QED
        BY <4>1
    <3>3. Cut(p) = SubSeq(p, 1, n)
      BY <2>2 DEF Cut
    <3> HIDE DEF n, S
    <3>4. n \in 1..Len(p)
      BY <3>1, <3>2
    <3>5. Len(Cut(p)) = n /\ DOMAIN Cut(p) = 1..n /\ \A i \in 1..n : Cut(p)[i] = p[i]
      BY <3>1, <3>3, <3>4
    <3>6. ASSUME NEW i \in SecretsOn(Cut(p)) PROVE i = n
      <4>1. i \in 1..n /\ p[i] \in Sensitive
        BY <3>5 DEF SecretsOn
      <4>2. i \in S
        BY <3>4, <4>1 DEF S, SecretsOn
      <4> QED
        BY <3>1, <3>2, <3>4, <4>1, <4>2
    <3> QED
      BY <3>5, <3>6 DEF SecretsOn
  <2> QED
    BY <2>1, <2>2
<1>2. DOMAIN Redact(v) = {Cut(p) : p \in DOMAIN v}
      /\ \A path \in DOMAIN Redact(v) : SecretsOn(path) # {} => Redact(v)[path] = "***"
  BY DEF Redact
<1>3. ASSUME NEW path \in DOMAIN Redact(v), NEW i \in DOMAIN path, path[i] \in Sensitive
      PROVE  i = Len(path) /\ Redact(v)[path] = "***"
  <2>1. PICK p \in DOMAIN v : path = Cut(p)
    BY <1>2
  <2>2. i \in SecretsOn(path)
    BY <1>3 DEF SecretsOn
  <2>3. i = Len(path)
    BY <1>1, <2>1, <2>2
  <2> QED
    BY <1>2, <2>2, <2>3
<1>4. ASSUME NEW path \in DOMAIN Redact(v), NEW i \in DOMAIN path, path[i] \in Sensitive
      PROVE  ~(i < Len(path))
  <2>1. PICK p \in Seq(STRING) : path = Cut(p)
    BY <1>2
  <2>2. Len(path) \in Nat
    <3>1. \A n \in Nat : n <= Len(p) => Len(SubSeq(p, 1, n)) \in Nat
      BY <2>1
    <3> QED
      BY <1>2, <2>1, <1>3, <1>4 DEF SecretsOn
  <2> QED
    BY <1>3, <1>4, <2>2
<1> QED
  BY <1>3, <1>4 DEF HasSecret

-----------------------------------------------------------------------------
(* The inductive invariant.  A server that has not started has done        *)
(* nothing; one that has is configured, each of its calls is where its     *)
(* handler can be, the audit holds the row each ended call owes, and each  *)
(* counter of the metrics is the number of calls that are past it.         *)

AnswerType == [action : {"Accept", "Decline", "Cancel"}, sandbox : {"", "x"}, phrase : {"", "x"}]
Outcomes == {"ok", "denied", "declined", "failed"}
Whys == {"none", "UnknownTool", "invalid arguments", "cancelled at scope selection", "phrase mismatch", "confirmed",
         "declined", "cancelled", "denied", "committed", "not committed", "failed", "result", "400", "401", "403",
         "setLevel", "2025-06-18", "ping or list", "202, no reply to a notification or a response", "InvalidParams",
         "InternalError", "MethodNotFound", "no completions", "the first", "all completions"}
Fates == {"nothing", "read", "written", "rolled back", "unknown"}
Replies == [ok : BOOLEAN, why : Whys]
CallType == [phase : {"idle", "asking", "upstream", "dropped", "recording", "answered"},
             tool : CalledTools \cup {"none"}, 
             request : {"none", "invalid", "plain", "read", "modify", "commit"},
             arguments : Arguments \cup {NoArguments}, answers : Seq(AnswerType),
             
             happened : Fates,
             metric : 0..4, reply : Replies]
Systems == {"pod", "the file's host", "mock"}
Row == [call : Calls, tool : CalledTools, outcome : Outcomes, system : Systems,
        arguments : {Redact(v) : v \in Arguments \cup {NoArguments}}]

Fields == {"phase", "readOnly", "transport", "identity", "erp", "party", "oic", "system",
           "bearer", "origins", "guardrails"}
ServerOK ==
  /\ DOMAIN server = Fields
  /\ server.phase \in {"serving", "stopping", "exited"}
  /\ server.transport \in {"stdio", "http"} /\ server.readOnly \in BOOLEAN
  /\ server.system \in Systems
  /\ server.erp = "fusion" => server.identity # "static" /\ server.system = "pod"

CallOK(k, transport, readOnly) ==
  /\ k.phase = "asking" =>
       /\ transport = "stdio" /\ k.tool \in WorkflowTools \cap Exposed(readOnly)
       /\ k.happened = "nothing" /\ Len(k.answers) < Forms(k.tool)
       /\ \A i \in DOMAIN k.answers : k.answers[i].action = "Accept"
  /\ k.phase = "upstream" =>
       /\ k.tool \in Exposed(readOnly) \ WorkflowTools /\ k.tool # "none"
       /\ k.answers = <<>> /\ k.happened = "nothing"
  /\ k.phase = "recording" => transport = "http" /\ k.metric \in 1..4 /\ k.tool \in CalledTools
  /\ readOnly => k.phase # "asking" /\ k.answers = <<>> /\ k.happened # "written"

Owes(k) == Ended(k) /\ Audited(k)
Fits(r, k) ==
  /\ r.tool = k.tool
  /\ r.outcome = "ok" <=> Agreed(k)
  /\ r.outcome = "denied" \/ k.happened = "unknown" => ~k.reply.ok
RowsOf(c) == {i \in DOMAIN audit : audit[i].call = c}
AuditOK(c) ==
  IF Owes(call[c]) THEN \E i \in RowsOf(c) : RowsOf(c) = {i} /\ Fits(audit[i], call[c]) ELSE RowsOf(c) = {}
RowOK(r) == r.outcome = "denied" /\ r.tool \notin WriteTools

\* A call that has been through the n-th of the four updates, and the ones
\* that update counts.
Past(k, n, t) ==
  /\ server.transport = "http" /\ k.tool = t
  /\ k.phase = "answered" \/ (k.phase = "recording" /\ k.metric > n)
Counts(k, n) == (n \in {3, 4} => ~k.reply.ok) /\ (n = 4 => ResponseDenied(k.reply))
Counted(n, t) == {c \in Calls : Past(call[c], n, t) /\ Counts(call[c], n)}
MetricsOK(t) ==
  /\ metrics.calls[t] = Cardinality(Counted(1, t))
  /\ metrics.latency[t] \in [Buckets -> Nat]
  /\ metrics.latency[t][1] <= metrics.latency[t][2] /\ metrics.latency[t][2] <= metrics.latency[t][3]
  /\ metrics.latency[t][3] = Cardinality(Counted(2, t))
  /\ metrics.errors[t] = Cardinality(Counted(3, t))
  /\ metrics.denied[t] = Cardinality(Counted(4, t))
MetricsType ==
  /\ DOMAIN metrics = {"calls", "latency", "errors", "denied"}
  /\ \A name \in DOMAIN metrics : DOMAIN metrics[name] = CalledTools

Down ==
  /\ server \in {[phase |-> "starting"], [phase |-> "exited"]}
  /\ call = [c \in Calls |-> Idle] /\ audit = <<>> /\ metrics = NoMetrics
Up ==
  /\ ServerOK
  /\ call \in [Calls -> CallType] /\ audit \in Seq(Row) /\ MetricsType
  /\ \A c \in Calls : CallOK(call[c], server.transport, server.readOnly)
  /\ \A c \in Calls : AuditOK(c)
  /\ server.readOnly => \A i \in DOMAIN audit : RowOK(audit[i])
  /\ \A t \in CalledTools : MetricsOK(t)
IInv == Down \/ Up

-----------------------------------------------------------------------------
(* One call takes a step, and may leave a row behind.                      *)

LEMMA AppendRow ==
  ASSUME NEW T, NEW s \in Seq(T), NEW r \in T
  PROVE  /\ Append(s, r) \in Seq(T) /\ DOMAIN Append(s, r) = DOMAIN s \cup {Len(s) + 1}
         /\ Len(s) + 1 \notin DOMAIN s /\ Append(s, r)[Len(s) + 1] = r
         /\ \A i \in DOMAIN s : Append(s, r)[i] = s[i]
  OBVIOUS

NoRow(k) == UNCHANGED audit /\ ~Owes(k)
OneRow(c, k, r) == /\ audit' = Append(audit, r) /\ r \in Row /\ r.call = c
                   /\ Owes(k) /\ Fits(r, k) /\ (server.readOnly => RowOK(r))
\* A call the metrics take no notice of.
Unseen(k) == \A n \in 1..4, t \in CalledTools : ~Past(k, n, t)

LEMMA RowsAfter ==
  ASSUME Up, NEW c \in Calls, NEW k \in CallType, ~Owes(call[c]), call' = [call EXCEPT ![c] = k],
         NoRow(k) \/ \E r : OneRow(c, k, r)
  PROVE  /\ audit' \in Seq(Row) /\ \A d \in Calls : AuditOK(d)'
         /\ server.readOnly => \A i \in DOMAIN audit' : RowOK(audit'[i])
<1> USE DEF AuditOK
<1>1. call \in [Calls -> CallType] /\ audit \in Seq(Row) /\ RowsOf(c) = {}
      /\ (\A d \in Calls : AuditOK(d)) /\ (server.readOnly => \A i \in DOMAIN audit : RowOK(audit[i]))
  BY DEF Up
<1>2. call'[c] = k /\ \A d \in Calls \ {c} : call'[d] = call[d]
  BY <1>1
<1>3. CASE NoRow(k)
  <2>1. audit' = audit
    BY <1>3 DEF NoRow
  <2>2. \A d \in Calls : RowsOf(d)' = RowsOf(d)
    BY <2>1 DEF RowsOf
  <2>3. ASSUME NEW d \in Calls PROVE AuditOK(d)'
    <3>1. CASE d = c
      BY <1>1, <1>2, <1>3, <2>2, <3>1 DEF NoRow
    <3>2. CASE d # c
      BY <1>1, <1>2, <2>1, <2>2, <3>2
    <3> QED
      BY <3>1, <3>2
  <2> QED
    BY <1>1, <2>1, <2>3
<1>4. ASSUME NEW r, OneRow(c, k, r)
      PROVE  /\ audit' \in Seq(Row) /\ \A d \in Calls : AuditOK(d)'
             /\ server.readOnly => \A i \in DOMAIN audit' : RowOK(audit'[i])
  <2> DEFINE n == Len(audit) + 1
  <2>1. /\ audit' \in Seq(Row) /\ DOMAIN audit' = DOMAIN audit \cup {n} /\ n \notin DOMAIN audit
        /\ audit'[n] = r /\ \A i \in DOMAIN audit : audit'[i] = audit[i]
    BY <1>1, <1>4, AppendRow DEF OneRow
  <2> HIDE DEF n
  <2>2. r.call = c /\ Owes(k) /\ Fits(r, k) /\ (server.readOnly => RowOK(r))
    BY <1>4 DEF OneRow
  <2>3. RowsOf(c)' = {n}
    BY <1>1, <2>1, <2>2 DEF RowsOf
  <2>4. \A d \in Calls \ {c} : RowsOf(d)' = RowsOf(d)
    BY <2>1, <2>2 DEF RowsOf
  <2>5. ASSUME NEW d \in Calls PROVE AuditOK(d)'
    <3>1. CASE d = c
      BY <1>2, <2>1, <2>2, <2>3, <3>1
    <3>2. CASE d # c
      <4>1. \A i \in RowsOf(d) : audit'[i] = audit[i]
        BY <2>1 DEF RowsOf
      <4> QED
        BY <1>1, <1>2, <2>4, <3>2, <4>1
    <3> QED
      BY <3>1, <3>2
  <2>6. server.readOnly => \A i \in DOMAIN audit' : RowOK(audit'[i])
    BY <1>1, <2>1, <2>2
  <2> QED
    BY <2>1, <2>5, <2>6
<1> QED
  BY <1>3, <1>4

LEMMA OneCall ==
  ASSUME Up, NEW c \in Calls, NEW k \in CallType, UNCHANGED <<server, metrics>>,
         call' = [call EXCEPT ![c] = k], CallOK(k, server.transport, server.readOnly),
         Unseen(call[c]), Unseen(k), ~Owes(call[c]), NoRow(k) \/ \E r : OneRow(c, k, r)
  PROVE  IInv'
<1>1. server' = server /\ metrics' = metrics /\ ServerOK' /\ MetricsType'
  BY DEF Up, ServerOK, MetricsType
<1>2. call' \in [Calls -> CallType] /\ call'[c] = k /\ \A d \in Calls \ {c} : call'[d] = call[d]
  BY DEF Up
<1>3. \A d \in Calls : CallOK(call'[d], server.transport, server.readOnly)
  BY <1>2 DEF Up
<1>4. ASSUME NEW t \in CalledTools, NEW n \in 1..4 PROVE Counted(n, t)' = Counted(n, t)
  <2>1. \A d \in Calls : Past(call[d], n, t)' <=> Past(call[d], n, t)
    BY <1>1, <1>2 DEF Unseen, Past
  <2>2. \A d \in Calls : Past(call[d], n, t) => call'[d] = call[d]
    BY <1>2 DEF Unseen
  <2> QED
    BY <2>1, <2>2 DEF Counted, Counts
<1>5. \A t \in CalledTools : MetricsOK(t)'
  BY <1>1, <1>4 DEF Up, MetricsOK
<1>6. Up'
  BY <1>1, <1>2, <1>3, <1>5, RowsAfter DEF Up
<1> QED
  BY <1>6 DEF IInv

-----------------------------------------------------------------------------
(* Workflows.                                                              *)

LEMMA ReplyIs ==
  ASSUME NEW why \in Whys
  PROVE  /\ Reply(TRUE, why) \in Replies /\ Reply(TRUE, why).ok /\ Reply(TRUE, why).why = why
         /\ Reply(FALSE, why) \in Replies /\ ~Reply(FALSE, why).ok /\ Reply(FALSE, why).why = why
  BY DEF Reply, Replies

Accepted(answers) == \A i \in DOMAIN answers : answers[i].action = "Accept"
\* The user agreed to every form, to the sandbox by its own name.
Confirms(tool, answers) ==
  /\ Len(answers) = Forms(tool) /\ Accepted(answers)
  /\ tool = PublishSandbox => Last(answers).sandbox = Last(answers).phrase
\* A verdict that ends the workflow.
EndsWith(v, tool, answers) ==
  \E reply \in Replies, outcome \in Outcomes :
    /\ v = [more |-> FALSE, reply |-> reply, outcome |-> outcome]
    /\ reply.why \notin {"UnknownTool", "invalid arguments"} /\ (outcome = "denied" => ~reply.ok)
    /\ outcome = "ok" <=> Confirms(tool, answers)

\* What a workflow does with its latest answer, when those before it were
\* all accepted.
LEMMA VerdictIs ==
  ASSUME NEW tool, NEW answers \in Seq(AnswerType), answers # <<>>, Len(answers) <= Forms(tool),
         \A i \in 1..Len(answers) - 1 : answers[i].action = "Accept", NEW v, v = Verdict(tool, answers)
  PROVE  \/ v.more /\ Len(answers) < Forms(tool) /\ Accepted(answers)
         \/ EndsWith(v, tool, answers)
<1> DEFINE a == Last(answers)
           n == Len(answers)
           first == n < Forms(tool)
           End(ok, why, outcome) == [more |-> FALSE, reply |-> Reply(ok, why), outcome |-> outcome]
<1>1. n \in Nat \ {0} /\ DOMAIN answers = 1..n /\ a = answers[n] /\ a \in AnswerType
  BY DEF Last
<1>2. Forms(tool) \in 1..2
  BY DEF Forms
<1>3. a.action \in {"Accept", "Decline", "Cancel"}
  BY <1>1 DEF AnswerType
<1>4. Accepted(answers) <=> a.action = "Accept"
  BY <1>1 DEF Accepted
<1>5. ~first <=> n = Forms(tool)
  BY <1>1, <1>2
<1>6. v = CASE a.action = "Accept" /\ first -> [more |-> TRUE]
            [] a.action # "Accept" /\ first -> End(FALSE, "cancelled at scope selection", "declined")
            [] a.action = "Accept" /\ ~first /\ tool = PublishSandbox /\ ~Confirmed(a) ->
                 End(FALSE, "phrase mismatch", "denied")
            [] a.action = "Accept" /\ ~first /\ (tool # PublishSandbox \/ Confirmed(a)) -> End(TRUE, "confirmed", "ok")
            [] a.action = "Decline" /\ ~first -> End(TRUE, "declined", "declined")
            [] a.action = "Cancel" /\ ~first -> End(FALSE, "cancelled", "denied")
  BY DEF Verdict
<1> HIDE DEF a, n, first, End
<1>a. CASE a.action = "Accept" /\ first
  <2>1. v = [more |-> TRUE]
    BY <1>6, <1>a
  <2>2. v.more
    BY <2>1
  <2>3. n < Forms(tool) /\ Accepted(answers)
    BY <1>4, <1>a DEF first
  <2> QED
    BY <2>2, <2>3 DEF n
<1> DEFINE IsOk == Confirms(tool, answers)
<1>7. ASSUME NEW reply \in Replies, NEW outcome \in Outcomes,
             v = [more |-> FALSE, reply |-> reply, outcome |-> outcome],
             reply.why \notin {"UnknownTool", "invalid arguments"}, outcome = "denied" => ~reply.ok,
             outcome = "ok" <=> IsOk
      PROVE  EndsWith(v, tool, answers)
  BY <1>7 DEF EndsWith
<1> HIDE DEF IsOk
<1>8. \/ ~first /\ a.action = "Accept" /\ (tool # PublishSandbox \/ Confirmed(a)) /\ IsOk
      \/ first /\ ~IsOk
      \/ a.action # "Accept" /\ ~IsOk
      \/ tool = PublishSandbox /\ ~Confirmed(a) /\ ~IsOk
  BY <1>4, <1>5 DEF IsOk, Confirms, Confirmed, first, n, a
<1>b. CASE a.action # "Accept" /\ first
  <2>1. v = End(FALSE, "cancelled at scope selection", "declined")
    BY <1>6, <1>b
  <2> DEFINE reply == Reply(FALSE, "cancelled at scope selection")
  <2>2. reply \in Replies /\ ~reply.ok /\ reply.why = "cancelled at scope selection"
    BY ReplyIs DEF Whys
  <2>3. v = [more |-> FALSE, reply |-> reply, outcome |-> "declined"] /\ "declined" \in Outcomes
    BY <2>1 DEF End, Outcomes
  <2> HIDE DEF reply
  <2> QED
    BY <1>7, <1>8, <1>b, <2>2, <2>3
<1>c. CASE a.action = "Accept" /\ ~first /\ tool = PublishSandbox /\ ~Confirmed(a)
  <2>1. v = End(FALSE, "phrase mismatch", "denied")
    BY <1>6, <1>c
  <2> DEFINE reply == Reply(FALSE, "phrase mismatch")
  <2>2. reply \in Replies /\ ~reply.ok /\ reply.why = "phrase mismatch"
    BY ReplyIs DEF Whys
  <2>3. v = [more |-> FALSE, reply |-> reply, outcome |-> "denied"] /\ "denied" \in Outcomes
    BY <2>1 DEF End, Outcomes
  <2> HIDE DEF reply
  <2> QED
    BY <1>7, <1>8, <1>c, <2>2, <2>3
<1>d. CASE a.action = "Accept" /\ ~first /\ (tool # PublishSandbox \/ Confirmed(a))
  <2>1. v = End(TRUE, "confirmed", "ok")
    BY <1>6, <1>d
  <2> DEFINE reply == Reply(TRUE, "confirmed")
  <2>2. reply \in Replies /\ reply.ok /\ reply.why = "confirmed"
    BY ReplyIs DEF Whys
  <2>3. v = [more |-> FALSE, reply |-> reply, outcome |-> "ok"] /\ "ok" \in Outcomes
    BY <2>1 DEF End, Outcomes
  <2> HIDE DEF reply
  <2> QED
    BY <1>7, <1>8, <1>d, <2>2, <2>3
<1>e. CASE a.action = "Decline" /\ ~first
  <2>1. v = End(TRUE, "declined", "declined")
    BY <1>6, <1>e
  <2> DEFINE reply == Reply(TRUE, "declined")
  <2>2. reply \in Replies /\ reply.ok /\ reply.why = "declined"
    BY ReplyIs DEF Whys
  <2>3. v = [more |-> FALSE, reply |-> reply, outcome |-> "declined"] /\ "declined" \in Outcomes
    BY <2>1 DEF End, Outcomes
  <2> HIDE DEF reply
  <2> QED
    BY <1>7, <1>8, <1>e, <2>2, <2>3
<1>f. CASE a.action = "Cancel" /\ ~first
  <2>1. v = End(FALSE, "cancelled", "denied")
    BY <1>6, <1>f
  <2> DEFINE reply == Reply(FALSE, "cancelled")
  <2>2. reply \in Replies /\ ~reply.ok /\ reply.why = "cancelled"
    BY ReplyIs DEF Whys
  <2>3. v = [more |-> FALSE, reply |-> reply, outcome |-> "denied"] /\ "denied" \in Outcomes
    BY <2>1 DEF End, Outcomes
  <2> HIDE DEF reply
  <2> QED
    BY <1>7, <1>8, <1>f, <2>2, <2>3
<1> QED
  BY <1>3, <1>a, <1>b, <1>c, <1>d, <1>e, <1>f

LEMMA ReturnedIs ==
  ASSUME NEW k \in CallType, NEW reply \in Replies, ServerOK
  PROVE  LET r == Returned(k, reply) IN
         /\ r \in CallType /\ Unseen(r)
         /\ r.tool = k.tool /\ r.request = k.request /\ r.arguments = k.arguments
         /\ r.answers = k.answers /\ r.happened = k.happened /\ r.reply = reply
         /\ \/ server.transport = "http" /\ r.phase = "recording" /\ r.metric = 1
            \/ server.transport = "stdio" /\ r.phase = "answered"
<1> DEFINE r == Returned(k, reply)
<1>2. server.transport \in {"stdio", "http"}
  BY DEF ServerOK
<1>3. /\ r.tool = k.tool /\ r.request = k.request /\ r.arguments = k.arguments
      /\ r.answers = k.answers /\ r.happened = k.happened /\ r.reply = reply
      /\ r.phase = IF server.transport = "http" THEN "recording" ELSE "answered"
      /\ r.metric = IF server.transport = "http" THEN 1 ELSE 0
  BY DEF Returned, CallType
<1>4. r \in CallType
  <2> DEFINE phase == IF server.transport = "http" THEN "recording" ELSE "answered"
             metric == IF server.transport = "http" THEN 1 ELSE 0
  <2>1. r = [k EXCEPT !.reply = reply, !.phase = phase, !.metric = metric]
    BY DEF Returned
  <2>2. reply \in Replies /\ phase \in {"recording", "answered"} /\ metric \in 0..4
    OBVIOUS
  <2> HIDE DEF phase, metric, r
  <2> QED
    BY <2>1, <2>2 DEF CallType
<1>5. Unseen(r)
  BY <1>2, <1>3 DEF Unseen, Past
<1> QED
  BY <1>2, <1>3, <1>4, <1>5

\* The row of a call.
LEMMA RowIs ==
  ASSUME ServerOK, NEW c \in Calls, NEW k \in CallType, k.tool \in CalledTools, NEW outcome \in Outcomes, Audit(c, k, outcome)
  PROVE  \E r \in Row : audit' = Append(audit, r) /\ r.call = c /\ r.tool = k.tool /\ r.outcome = outcome
<1> DEFINE r == [call |-> c, tool |-> k.tool, outcome |-> outcome, system |-> server.system,
                 arguments |-> Redact(k.arguments)]
<1>1. k.arguments \in Arguments \cup {NoArguments}
  BY DEF CallType
<1>2. Redact(k.arguments) \in {Redact(v) : v \in Arguments \cup {NoArguments}}
  BY <1>1
<1>3. server.system \in Systems
  BY DEF ServerOK
<1> HIDE DEF CallType
<1>4. r \in Row
  BY <1>2, <1>3 DEF Row
<1> QED
  BY <1>4 DEF Audit

LEMMA ToolsAre ==
  /\ WorkflowTools \subseteq WriteTools
  /\ "oracle.rest.call" \notin WorkflowTools /\ "none" \notin WorkflowTools
  /\ \A readOnly \in BOOLEAN : readOnly => Exposed(readOnly) \cap WriteTools = {}
  BY DEF WriteTools, WorkflowTools, PurchaseOrder, CustomerMaster, PublishSandbox, Exposed

\* A call whose handler is done is where it can be.
LEMMA DoneIsOK ==
  ASSUME NEW k, NEW transport, NEW readOnly, k.phase # "asking", k.phase # "upstream",
         k.phase = "recording" => transport = "http" /\ k.metric = 1 /\ k.tool \in CalledTools,
         readOnly => k.answers = <<>> /\ k.happened # "written"
  PROVE  CallOK(k, transport, readOnly)
  BY DEF CallOK

LEMMA ContinueKeeps ==
  ASSUME Up, NEW c \in Calls, NEW k \in CallType, UNCHANGED <<server, metrics>>, Continue(c, k),
         Unseen(call[c]), ~Owes(call[c]),
         k.tool \in WorkflowTools \cap Exposed(server.readOnly), k.happened = "nothing", k.answers # <<>>,
         Len(k.answers) <= Forms(k.tool), \A i \in 1..Len(k.answers) - 1 : k.answers[i].action = "Accept",
         k.tool \in CalledTools, server.transport = "http" => k.answers[1].action # "Accept"
  PROVE  IInv'
<1> DEFINE v == Verdict(k.tool, k.answers)
<1>1. ServerOK /\ server.transport \in {"stdio", "http"} /\ server.readOnly \in BOOLEAN
  BY DEF Up, ServerOK
<1>2. ~server.readOnly
  BY <1>1, ToolsAre
<1>3. k.answers \in Seq(AnswerType) /\ Len(k.answers) \in Nat \ {0}
  <2>1. k.answers \in Seq(AnswerType)
    BY DEF CallType
  <2> QED
    BY <2>1
<1>4. CASE v.more /\ Len(k.answers) < Forms(k.tool) /\ Accepted(k.answers)
  <2> DEFINE m == [k EXCEPT !.phase = "asking"]
  <2>1. call' = [call EXCEPT ![c] = m] /\ audit' = audit
    BY <1>4 DEF Continue, NoAudit
  <2>2. m \in CallType /\ m.phase = "asking" /\ m.tool = k.tool /\ m.answers = k.answers /\ m.happened = k.happened
    BY DEF CallType
  <2> HIDE DEF m
  <2>3. server.transport = "stdio"
    BY <1>1, <1>3, <1>4 DEF Accepted
  <2>4. CallOK(m, server.transport, server.readOnly)
    BY <1>2, <1>4, <2>2, <2>3 DEF CallOK, Accepted
  <2>5. Unseen(m) /\ NoRow(m)
    BY <2>1, <2>2 DEF Unseen, Past, NoRow, Owes, Ended
  <2> QED
    BY <2>1, <2>2, <2>4, <2>5, OneCall
<1>5. ASSUME NEW reply \in Replies, NEW outcome \in Outcomes,
             v = [more |-> FALSE, reply |-> reply, outcome |-> outcome],
             reply.why \notin {"UnknownTool", "invalid arguments"}, outcome = "denied" => ~reply.ok,
             outcome = "ok" <=> Confirms(k.tool, k.answers)
      PROVE  IInv'
  <2> DEFINE m == Returned(k, reply)
  <2>1. call' = [call EXCEPT ![c] = m] /\ Audit(c, k, outcome)
    <3>0. v = [more |-> FALSE, reply |-> reply, outcome |-> outcome]
      BY <1>5
    <3>1. ~v.more /\ v.reply = reply /\ v.outcome = outcome
      <4> HIDE DEF v
      <4> QED
        BY <3>0
    <3>2. ~v.more => call' = [call EXCEPT ![c] = Returned(k, v.reply)] /\ Audit(c, k, v.outcome)
      BY DEF Continue
    <3> HIDE DEF v
    <3> QED
      BY <3>1, <3>2
  <2>2. /\ m \in CallType /\ Unseen(m) /\ m.tool = k.tool /\ m.request = k.request
        /\ m.answers = k.answers /\ m.happened = k.happened /\ m.reply = reply
        /\ \/ server.transport = "http" /\ m.phase = "recording" /\ m.metric = 1
           \/ server.transport = "stdio" /\ m.phase = "answered"
    BY <1>1, ReturnedIs
  <2> HIDE DEF m
  <2>4. PICK r \in Row : audit' = Append(audit, r) /\ r.call = c /\ r.tool = k.tool /\ r.outcome = outcome
    BY <1>1, <2>1, RowIs
  <2>5. Owes(m)
    BY <1>5, <2>2 DEF Owes, Ended, Audited
  <2>6. Fits(r, m)
    <3>1. outcome = "ok" <=> Agreed(m)
      BY <1>5, <2>2 DEF Agreed, Confirms, Accepted
    <3>2. m.happened = "nothing"
      BY <2>2
    <3> QED
      BY <1>5, <2>2, <2>4, <3>1, <3>2 DEF Fits
  <2>7. CallOK(m, server.transport, server.readOnly)
    <3>1. m.phase # "asking" /\ m.phase # "upstream"
          /\ (m.phase = "recording" => server.transport = "http" /\ m.metric = 1 /\ m.tool \in CalledTools)
      BY <2>2
    <3> QED
      BY <1>2, <3>1, DoneIsOK
  <2> QED
    BY <1>2, <2>1, <2>2, <2>4, <2>5, <2>6, <2>7, OneCall DEF OneRow
<1> QED
  <2> HIDE DEF v
  <2>1. (v.more /\ Len(k.answers) < Forms(k.tool) /\ Accepted(k.answers)) \/ EndsWith(v, k.tool, k.answers)
    BY <1>3, VerdictIs DEF v
  <2> QED
    BY <1>4, <1>5, <2>1 DEF EndsWith

-----------------------------------------------------------------------------
(* The handlers.                                                           *)

LEMMA IdleIs ==
  /\ Idle \in CallType /\ Unseen(Idle) /\ ~Owes(Idle)
  /\ Idle.tool = "none" /\ Idle.answers = <<>> /\ Idle.happened = "nothing" /\ Idle.phase = "idle"
<1>1. NoReply \in Replies
  BY DEF NoReply, Reply, Replies, Whys
<1>2. NoArguments \in Arguments \cup {NoArguments} /\ <<>> \in Seq(AnswerType)
  OBVIOUS
<1> HIDE DEF NoArguments
<1>3. Idle \in CallType
  <2>1. "nothing" \in Fates
    BY DEF Fates
  <2> QED
    BY <1>1, <1>2, <2>1 DEF Idle, CallType
<1>4. Idle.tool = "none" /\ Idle.phase = "idle" /\ Idle.answers = <<>> /\ Idle.happened = "nothing"
  BY DEF Idle
<1>5. Unseen(Idle) /\ ~Owes(Idle)
  BY <1>4 DEF Unseen, Past, Owes, Ended
<1> QED
  BY <1>3, <1>4, <1>5

\* A call that ends without a row.
LEMMA FailKeeps ==
  ASSUME Up, NEW c \in Calls, UNCHANGED <<server, metrics>>, NEW k \in CallType, NEW reply \in Replies,
         call' = [call EXCEPT ![c] = Returned(k, reply)], UNCHANGED audit,
         Unseen(call[c]), ~Owes(call[c]), k.tool \in CalledTools,
         server.readOnly => k.answers = <<>> /\ k.happened # "written",
         reply.why \in {"UnknownTool", "invalid arguments"} \/ ~Audited(k)
  PROVE  IInv'
<1> DEFINE m == Returned(k, reply)
<1>1. /\ m \in CallType /\ Unseen(m) /\ m.tool = k.tool /\ m.request = k.request
      /\ m.answers = k.answers /\ m.happened = k.happened /\ m.reply = reply
      /\ \/ server.transport = "http" /\ m.phase = "recording" /\ m.metric = 1
         \/ server.transport = "stdio" /\ m.phase = "answered"
  BY ReturnedIs DEF Up
<1>2. call' = [call EXCEPT ![c] = m]
  OBVIOUS
<1> HIDE DEF m
<1>3. ~Owes(m)
  BY <1>1 DEF Owes, Ended, Audited
<1>4. CallOK(m, server.transport, server.readOnly)
  <2>1. /\ m.phase # "asking" /\ m.phase # "upstream"
        /\ m.phase = "recording" => server.transport = "http" /\ m.metric = 1 /\ m.tool \in CalledTools
        /\ server.readOnly => m.answers = <<>> /\ m.happened # "written"
    BY <1>1
  <2> QED
    BY <2>1, DoneIsOK
<1> QED
  BY <1>1, <1>2, <1>3, <1>4, OneCall DEF NoRow

LEMMA AskKeeps ==
  ASSUME Up, NEW c \in Calls, UNCHANGED <<server, metrics>>, NEW k \in CallType,
         call' = [call EXCEPT ![c] = k], UNCHANGED audit, Unseen(call[c]), ~Owes(call[c]),
         k.tool \in CalledTools, k.answers = <<>>, k.happened = "nothing", k.tool \in Exposed(server.readOnly),
         \/ k.phase = "asking" /\ k.tool \in WorkflowTools /\ server.transport = "stdio"
         \/ k.phase = "upstream" /\ k.tool \notin WorkflowTools
  PROVE  IInv'
<1>1. server.readOnly \in BOOLEAN
  BY DEF Up, ServerOK
<1>2. Unseen(k) /\ ~Owes(k)
  BY DEF Unseen, Past, Owes, Ended
<1>3. CASE k.phase = "upstream" /\ k.tool \notin WorkflowTools
  <2>1. k.tool # "none"
    BY ToolServerAssumption
  <2>2. CallOK(k, server.transport, server.readOnly)
    BY <1>3, <2>1 DEF CallOK
  <2> QED
    BY <1>2, <2>2, OneCall DEF NoRow
<1>4. CASE k.phase = "asking" /\ k.tool \in WorkflowTools /\ server.transport = "stdio"
  <2>1. ~server.readOnly
    BY <1>1, <1>4, ToolsAre
  <2>2. Len(k.answers) = 0 /\ DOMAIN k.answers = {} /\ 0 < Forms(k.tool)
    BY DEF Forms
  <2>3. CallOK(k, server.transport, server.readOnly)
    BY <1>4, <2>1, <2>2 DEF CallOK
  <2> QED
    BY <1>2, <2>3, OneCall DEF NoRow
<1> QED
  BY <1>3, <1>4

LEMMA ToolsCallKeeps ==
  ASSUME Up, NEW c \in Calls, call[c] = Idle, ToolsCall(c)
  PROVE  IInv'
<1>1. UNCHANGED <<server, metrics>>
  BY DEF ToolsCall
<1>2. Unseen(call[c]) /\ ~Owes(call[c])
  BY IdleIs
<1>3. PICK tool \in CalledTools :
        \E request \in Requests(tool), arguments \in IF tool = "oracle.rest.call" THEN Arguments ELSE {NoArguments} :
    LET k == [Idle EXCEPT !.tool = tool, !.request = request, !.arguments = arguments]
        Fail(why) == call' = [call EXCEPT ![c] = Returned(k, Reply(FALSE, why))] /\ NoAudit
    IN /\ CASE tool \notin Exposed(server.readOnly) -> Fail("UnknownTool")
            [] tool \in Exposed(server.readOnly) /\ request = "invalid" -> Fail("invalid arguments")
            [] OTHER ->
                 CASE tool \in WorkflowTools /\ ElicitationEnabled ->
                        call' = [call EXCEPT ![c] = [k EXCEPT !.phase = "asking"]] /\ NoAudit
                   [] tool \in WorkflowTools /\ ~ElicitationEnabled ->
                        Continue(c, [k EXCEPT !.answers = <<Declined>>])
                   [] OTHER -> call' = [call EXCEPT ![c] = [k EXCEPT !.phase = "upstream"]] /\ NoAudit
       /\ UNCHANGED <<server, metrics, events, logLevel>>
  BY DEF ToolsCall
<1>p. PICK request \in Requests(tool), arguments \in IF tool = "oracle.rest.call" THEN Arguments ELSE {NoArguments} :
    LET k == [Idle EXCEPT !.tool = tool, !.request = request, !.arguments = arguments]
        Fail(why) == call' = [call EXCEPT ![c] = Returned(k, Reply(FALSE, why))] /\ NoAudit
    IN /\ CASE tool \notin Exposed(server.readOnly) -> Fail("UnknownTool")
            [] tool \in Exposed(server.readOnly) /\ request = "invalid" -> Fail("invalid arguments")
            [] OTHER ->
                 CASE tool \in WorkflowTools /\ ElicitationEnabled ->
                        call' = [call EXCEPT ![c] = [k EXCEPT !.phase = "asking"]] /\ NoAudit
                   [] tool \in WorkflowTools /\ ~ElicitationEnabled ->
                        Continue(c, [k EXCEPT !.answers = <<Declined>>])
                   [] OTHER -> call' = [call EXCEPT ![c] = [k EXCEPT !.phase = "upstream"]] /\ NoAudit
       /\ UNCHANGED <<server, metrics, events, logLevel>>
  BY <1>3
<1> DEFINE k == [Idle EXCEPT !.tool = tool, !.request = request, !.arguments = arguments]
           Fail(why) == call' = [call EXCEPT ![c] = Returned(k, Reply(FALSE, why))] /\ NoAudit
           exposed == tool \in Exposed(server.readOnly)
<1>4. k \in CallType /\ k.tool = tool /\ k.answers = <<>> /\ k.happened = "nothing"
  <2>1. request \in {"none", "invalid", "plain", "read", "modify", "commit"}
    BY DEF Requests
  <2>2. arguments \in Arguments \cup {NoArguments}
    OBVIOUS
  <2> QED
    BY IdleIs, <2>1, <2>2 DEF CallType
<1>5. \/ ~exposed /\ Fail("UnknownTool")
      \/ exposed /\ Fail("invalid arguments")
      \/ exposed /\ tool \in WorkflowTools /\ ElicitationEnabled
           /\ call' = [call EXCEPT ![c] = [k EXCEPT !.phase = "asking"]] /\ NoAudit
      \/ exposed /\ tool \in WorkflowTools /\ ~ElicitationEnabled /\ Continue(c, [k EXCEPT !.answers = <<Declined>>])
      \/ exposed /\ tool \notin WorkflowTools
           /\ call' = [call EXCEPT ![c] = [k EXCEPT !.phase = "upstream"]] /\ NoAudit
  BY <1>p
<1> HIDE DEF k
<1>6. ASSUME NEW why \in {"UnknownTool", "invalid arguments"}, Fail(why) PROVE IInv'
  <2> DEFINE reply == Reply(FALSE, why)
  <2>1. why \in Whys
    BY DEF Whys
  <2>2. reply \in Replies /\ reply.why = why
    BY <2>1, ReplyIs
  <2>3. call' = [call EXCEPT ![c] = Returned(k, reply)] /\ UNCHANGED audit
    BY <1>6 DEF NoAudit
  <2> HIDE DEF reply
  <2> QED
    BY <1>1, <1>2, <1>4, <2>2, <2>3, FailKeeps
<1>7. ASSUME exposed, NEW phase \in {"asking", "upstream"}, call' = [call EXCEPT ![c] = [k EXCEPT !.phase = phase]], NoAudit,
             IF phase = "asking" THEN tool \in WorkflowTools /\ ElicitationEnabled ELSE tool \notin WorkflowTools
      PROVE  IInv'
  <2> DEFINE m == [k EXCEPT !.phase = phase]
  <2>1. m \in CallType /\ m.phase = phase /\ m.tool = tool /\ m.answers = <<>> /\ m.happened = "nothing"
    BY <1>4 DEF CallType
  <2>2. call' = [call EXCEPT ![c] = m] /\ UNCHANGED audit
    BY <1>7 DEF NoAudit
  <2> HIDE DEF m
  <2> QED
    BY <1>1, <1>2, <1>7, <2>1, <2>2, AskKeeps DEF ElicitationEnabled
<1>8. ASSUME exposed, tool \in WorkflowTools, ~ElicitationEnabled, Continue(c, [k EXCEPT !.answers = <<Declined>>])
      PROVE  IInv'
  <2> DEFINE answers == <<Declined>>
             m == [k EXCEPT !.answers = answers]
  <2>1. Declined \in AnswerType /\ Declined.action = "Decline"
    BY DEF Declined, Answer, AnswerType
  <2>2. answers \in Seq(AnswerType) /\ Len(answers) = 1 /\ answers[1] = Declined /\ answers # <<>>
    <3> HIDE DEF Declined
    <3> QED
      BY <2>1
  <2>3. Continue(c, m)
    BY <1>8
  <2> HIDE DEF answers
  <2>4. m \in CallType /\ m.answers = answers /\ m.tool = tool /\ m.happened = "nothing"
    BY <1>4, <2>2 DEF CallType
  <2> HIDE DEF m
  <2>5. 1 <= Forms(tool)
    BY DEF Forms
  <2>6. \A i \in 1..Len(m.answers) - 1 : m.answers[i].action = "Accept"
    <3>1. Len(m.answers) = 1
      BY <2>2, <2>4
    <3>2. ASSUME NEW i \in 1..Len(m.answers) - 1 PROVE FALSE
      BY <3>1
    <3> QED
      BY <3>2
  <2>7. m.answers # <<>> /\ Len(m.answers) <= Forms(m.tool) /\ m.answers[1].action # "Accept"
    BY <2>1, <2>2, <2>4, <2>5
  <2> QED
    BY <1>1, <1>2, <1>8, <2>3, <2>4, <2>6, <2>7, ContinueKeeps
<1> QED
  BY <1>5, <1>6, <1>7, <1>8

With(k, happened) == [k EXCEPT !.happened = happened]

LEMMA OneMore ==
  ASSUME NEW T, NEW s \in Seq(T), NEW a \in T
  PROVE  /\ Append(s, a) \in Seq(T) /\ Len(Append(s, a)) = Len(s) + 1 /\ Append(s, a) # <<>>
         /\ \A i \in 1..Len(Append(s, a)) - 1 : Append(s, a)[i] = s[i] /\ i \in DOMAIN s
<1>1. Append(s, a) \in Seq(T) /\ Len(Append(s, a)) = Len(s) + 1 /\ Len(s) \in Nat
  OBVIOUS
<1>2. Append(s, a) # <<>>
  BY <1>1
<1>3. ASSUME NEW i \in 1..Len(Append(s, a)) - 1 PROVE Append(s, a)[i] = s[i] /\ i \in DOMAIN s
  <2>1. i \in 1..Len(s)
    BY <1>1
  <2> QED
    BY <2>1
<1> QED
  BY <1>1, <1>2, <1>3

LEMMA UserAnswersKeeps ==
  ASSUME Up, NEW c \in Calls, UserAnswers(c)
  PROVE  IInv'
<1>k. PICK k \in CallType : k = call[c]
  BY DEF Up
<1>1. k.phase = "asking" /\ UNCHANGED <<server, metrics>>
  BY <1>k DEF UserAnswers
<1>2. /\ server.transport = "stdio" /\ k.tool \in WorkflowTools \cap Exposed(server.readOnly)
      /\ k.happened = "nothing" /\ Len(k.answers) < Forms(k.tool)
      /\ \A i \in DOMAIN k.answers : k.answers[i].action = "Accept"
  BY <1>1, <1>k DEF Up, CallOK
<1>3. PICK a \in AnswerType : Continue(c, [k EXCEPT !.answers = Append(k.answers, a)])
  <2> DEFINE S == {Declined, Answer("Cancel", "", "")} \cup
                    (IF k.tool = PublishSandbox THEN [action : {"Accept"}, sandbox : {"", "x"}, phrase : {"", "x"}]
                     ELSE {Answer("Accept", "", "")})
  <2>1. \E a \in S : Continue(c, [k EXCEPT !.answers = Append(k.answers, a)])
    BY <1>k DEF UserAnswers
  <2>2. \A x, y \in {"", "x"}, w \in {"Accept", "Decline", "Cancel"} : Answer(w, x, y) \in AnswerType
    BY DEF Answer, AnswerType
  <2>3. {Declined, Answer("Cancel", "", "")} \cup {Answer("Accept", "", "")} \subseteq AnswerType
    BY <2>2 DEF Declined
  <2>4. [action : {"Accept"}, sandbox : {"", "x"}, phrase : {"", "x"}] \subseteq AnswerType
    BY DEF AnswerType
  <2>5. S \subseteq AnswerType
    BY <2>3, <2>4
  <2> HIDE DEF S
  <2> QED
    BY <2>1, <2>5
<1>4. a \in AnswerType
  OBVIOUS
<1>8. Unseen(k) /\ ~Owes(k)
  BY <1>1 DEF Unseen, Past, Owes, Ended
<1> DEFINE answers == Append(k.answers, a)
           m == [k EXCEPT !.answers = answers]
<1>9. Continue(c, m)
  BY <1>3
<1>5. k.answers \in Seq(AnswerType) /\ k.tool \in CalledTools \cup {"none"}
  BY <1>1 DEF CallType
<1>6. /\ answers \in Seq(AnswerType) /\ Len(answers) = Len(k.answers) + 1 /\ answers # <<>>
      /\ \A i \in 1..Len(answers) - 1 : answers[i] = k.answers[i] /\ i \in DOMAIN k.answers
  BY <1>4, <1>5, OneMore
<1>7. k.tool \in CalledTools
  BY <1>2, <1>5, ToolsAre
<1> HIDE DEF answers
<1>10. m \in CallType /\ m.answers = answers /\ m.tool = k.tool /\ m.happened = k.happened
  BY <1>1, <1>6 DEF CallType
<1> HIDE DEF m
<1>11. Len(m.answers) <= Forms(m.tool)
  <2>1. Len(k.answers) \in Nat /\ Forms(k.tool) \in Nat
    BY <1>5 DEF Forms
  <2> QED
    BY <1>2, <1>6, <1>10, <2>1
<1>12. \A i \in 1..Len(m.answers) - 1 : m.answers[i].action = "Accept"
  BY <1>2, <1>6, <1>10
<1> QED
  BY <1>1, <1>2, <1>6, <1>7, <1>8, <1>9, <1>10, <1>11, <1>12, <1>k, ContinueKeeps

LEMMA UpstreamAnswersKeeps ==
  ASSUME Up, NEW c \in Calls, UpstreamAnswers(c)
  PROVE  IInv'
<1>k. PICK k \in CallType : k = call[c]
  BY DEF Up
<1> DEFINE denied == server.readOnly /\ k.request \in {"modify", "commit"}
           End(o, w, h) == call' = [call EXCEPT ![c] = Returned(With(k, h), Reply(o, w))]
<1>1. k.phase = "upstream" /\ UNCHANGED <<server, metrics>> /\ server.readOnly \in BOOLEAN /\ ServerOK
  BY <1>k DEF Up, ServerOK, UpstreamAnswers
<1>2. /\ k.tool \in Exposed(server.readOnly) \ WorkflowTools /\ k.tool # "none"
      /\ k.answers = <<>> /\ k.happened = "nothing"
  BY <1>1, <1>k DEF Up, CallOK
<1>3. k.tool \in CalledTools /\ Unseen(k) /\ ~Owes(k)
  BY <1>1, <1>2 DEF Unseen, Past, Owes, Ended, CallType
<1>4. server.readOnly => k.tool \notin WriteTools
  BY <1>1, <1>2, ToolsAre
<1>5. ASSUME NEW happened \in Fates
      PROVE  /\ With(k, happened) \in CallType /\ With(k, happened).happened = happened /\ With(k, happened).tool = k.tool
             /\ With(k, happened).request = k.request /\ With(k, happened).answers = <<>>
  BY <1>1, <1>2 DEF CallType, With
<1>6. ASSUME NEW happened \in Fates, NEW reply \in Replies,
             call' = [call EXCEPT ![c] = Returned(With(k, happened), reply)], NoAudit, k.request # "commit",
             server.readOnly => happened # "written"
      PROVE  IInv'
  <2>1. ~Audited(With(k, happened))
    BY <1>2, <1>5, <1>6 DEF Audited
  <2> QED
    BY <1>1, <1>3, <1>5, <1>6, <2>1, FailKeeps, <1>k DEF NoAudit
<1>7. ASSUME NEW happened \in Fates, NEW reply \in Replies, NEW outcome \in Outcomes,
             call' = [call EXCEPT ![c] = Returned(With(k, happened), reply)], Audit(c, k, outcome), k.request = "commit",
             server.readOnly => happened # "written" /\ outcome = "denied",
             reply.why \notin {"UnknownTool", "invalid arguments"},
             outcome = "ok" <=> happened = "written", outcome = "denied" \/ happened = "unknown" => ~reply.ok
      PROVE  IInv'
  <2> DEFINE m == Returned(With(k, happened), reply)
  <2>1. /\ m \in CallType /\ Unseen(m) /\ m.tool = k.tool /\ m.request = k.request
        /\ m.answers = <<>> /\ m.happened = happened /\ m.reply = reply
        /\ \/ server.transport = "http" /\ m.phase = "recording" /\ m.metric = 1
           \/ server.transport = "stdio" /\ m.phase = "answered"
    BY <1>1, <1>5, ReturnedIs
  <2>2. call' = [call EXCEPT ![c] = m]
    BY <1>7
  <2> HIDE DEF m
  <2>3. PICK r \in Row : audit' = Append(audit, r) /\ r.call = c /\ r.tool = k.tool /\ r.outcome = outcome
    <3>1. Audit(c, k, outcome)
      BY <1>7
    <3> QED
      BY <1>1, <1>3, <3>1, RowIs
  <2>4. Owes(m)
    BY <1>7, <2>1 DEF Owes, Ended, Audited
  <2>5. Fits(r, m)
    <3>1. outcome = "ok" <=> Agreed(m)
      BY <1>2, <1>7, <2>1 DEF Agreed
    <3> QED
      BY <1>7, <2>1, <2>3, <3>1 DEF Fits
  <2>6. server.readOnly => RowOK(r)
    BY <1>4, <1>7, <2>3 DEF RowOK
  <2>7. CallOK(m, server.transport, server.readOnly)
    <3>1. /\ m.phase # "asking" /\ m.phase # "upstream"
          /\ m.phase = "recording" => server.transport = "http" /\ m.metric = 1 /\ m.tool \in CalledTools
          /\ server.readOnly => m.answers = <<>> /\ m.happened # "written"
      BY <1>3, <1>7, <2>1
    <3> QED
      BY <3>1, DoneIsOK
  <2>8. OneRow(c, m, r)
    BY <2>3, <2>4, <2>5, <2>6 DEF OneRow
  <2> QED
    BY <1>1, <1>3, <2>1, <2>2, <2>7, <2>8, OneCall, <1>k
<1>8. \/ /\ denied /\ End(FALSE, "denied", "nothing")
         /\ IF k.request = "commit" THEN Audit(c, k, "denied") ELSE NoAudit
      \/ /\ ~denied /\ k.request = "commit"
         /\ \/ End(TRUE, "committed", "written") /\ Audit(c, k, "ok")
            \/ End(TRUE, "not committed", "rolled back") /\ Audit(c, k, "failed")
            \/ End(FALSE, "failed", "unknown") /\ Audit(c, k, "failed")
      \/ /\ ~denied /\ k.request # "commit" /\ NoAudit
         /\ \/ End(TRUE, "result", IF k.request = "modify" \/ k.tool \in WriteTools THEN "written" ELSE "read")
            \/ End(FALSE, "failed", "unknown")
  BY <1>k DEF UpstreamAnswers, With
<1>9. /\ \A why \in {"denied", "committed", "not committed", "failed", "result"} : why \in Whys
      /\ "ok" \in Outcomes /\ "denied" \in Outcomes /\ "failed" \in Outcomes
      /\ \A h \in {"nothing", "read", "written", "rolled back", "unknown"} : h \in Fates
  BY DEF Whys, Outcomes, Fates
<1>r. \A w \in {"denied", "committed", "not committed", "failed", "result"} :
        /\ Reply(FALSE, w) \in Replies /\ Reply(FALSE, w).why = w /\ ~Reply(FALSE, w).ok
        /\ Reply(TRUE, w) \in Replies /\ Reply(TRUE, w).why = w
  BY <1>9, ReplyIs
<1>10. CASE denied /\ End(FALSE, "denied", "nothing") /\ k.request = "commit" /\ Audit(c, k, "denied")
  BY <1>7, <1>9, <1>r, <1>10
<1>11. CASE denied /\ End(FALSE, "denied", "nothing") /\ k.request # "commit" /\ NoAudit
  BY <1>6, <1>9, <1>r, <1>11
<1>12. CASE ~denied /\ k.request = "commit" /\ End(TRUE, "committed", "written") /\ Audit(c, k, "ok")
  BY <1>7, <1>9, <1>r, <1>12
<1>13. CASE ~denied /\ k.request = "commit" /\ End(TRUE, "not committed", "rolled back") /\ Audit(c, k, "failed")
  BY <1>1, <1>7, <1>9, <1>r, <1>13
<1>14. CASE ~denied /\ k.request = "commit" /\ End(FALSE, "failed", "unknown") /\ Audit(c, k, "failed")
  BY <1>7, <1>9, <1>r, <1>14
<1>15. CASE ~denied /\ k.request # "commit" /\ NoAudit
            /\ End(TRUE, "result", IF k.request = "modify" \/ k.tool \in WriteTools THEN "written" ELSE "read")
  BY <1>4, <1>6, <1>9, <1>r, <1>15
<1>16. CASE ~denied /\ k.request # "commit" /\ NoAudit /\ End(FALSE, "failed", "unknown")
  BY <1>6, <1>9, <1>r, <1>16
<1> QED
  BY <1>8, <1>10, <1>11, <1>12, <1>13, <1>14, <1>15, <1>16

LEMMA ClientLeavesKeeps ==
  ASSUME Up, NEW c \in Calls, ClientLeaves(c)
  PROVE  IInv'
<1>k. PICK k \in CallType : k = call[c]
  BY DEF Up
<1> DEFINE m == [k EXCEPT !.phase = "dropped"]
<1>1. /\ k.phase = "upstream" /\ UNCHANGED <<server, metrics, audit>>
      /\ call' = [call EXCEPT ![c] = m]
  BY <1>k DEF ClientLeaves
<1>2. m \in CallType /\ m.phase = "dropped" /\ m.answers = k.answers /\ m.happened = k.happened
  BY DEF CallType
<1> HIDE DEF m
<1>3. Unseen(k) /\ ~Owes(k) /\ Unseen(m) /\ ~Owes(m)
  BY <1>1, <1>2 DEF Unseen, Past, Owes, Ended
<1>4. CallOK(k, server.transport, server.readOnly)
  BY <1>k DEF Up
<1>5. server.readOnly => m.answers = <<>> /\ m.happened # "written"
  BY <1>2, <1>4 DEF CallOK
<1>6. CallOK(m, server.transport, server.readOnly)
  BY <1>2, <1>5, DoneIsOK
<1> QED
  BY <1>k, <1>1, <1>2, <1>3, <1>6, OneCall DEF NoRow

\* A request that is answered at once and leaves no trace.
LEMMA AnsweredKeeps ==
  ASSUME Up, NEW c \in Calls, call[c] = Idle, UNCHANGED <<server, metrics, audit>>, NEW reply \in Replies,
         call' = [call EXCEPT ![c] = [Idle EXCEPT !.phase = "answered", !.reply = reply]]
  PROVE  IInv'
<1> DEFINE m == [Idle EXCEPT !.phase = "answered", !.reply = reply]
<1>1. /\ m \in CallType /\ m.phase = "answered" /\ m.tool = "none" /\ m.request = "none"
      /\ m.answers = <<>> /\ m.happened = "nothing"
  <2>1. Idle.request = "none"
    BY DEF Idle
  <2> QED
    BY <2>1, IdleIs DEF CallType
<1>2. call' = [call EXCEPT ![c] = m]
  OBVIOUS
<1> HIDE DEF m
<1>3. Unseen(m) /\ ~Owes(m)
  <2>1. ~Owes(m)
    BY <1>1, ToolsAre DEF Owes, Audited
  <2>2. Unseen(m)
    BY <1>1, ToolServerAssumption DEF Unseen, Past
  <2> QED
    BY <2>1, <2>2
<1>4. CallOK(m, server.transport, server.readOnly)
  BY <1>1, DoneIsOK
<1> QED
  BY <1>1, <1>2, <1>3, <1>4, IdleIs, OneCall DEF NoRow

LEMMA MethodRepliesAre == MethodReplies \subseteq Replies
<1>1. \A w \in Whys : Reply(TRUE, w) \in Replies /\ Reply(FALSE, w) \in Replies
  BY ReplyIs
<1>2. /\ "2025-06-18" \in Whys /\ "ping or list" \in Whys /\ "202, no reply to a notification or a response" \in Whys
      /\ "InvalidParams" \in Whys /\ "InternalError" \in Whys /\ "MethodNotFound" \in Whys /\ "no completions" \in Whys
      /\ "the first" \in Whys /\ "all completions" \in Whys /\ "result" \in Whys
  BY DEF Whys
<1>3. \A n, names : Found(n, names) \in Replies
  BY <1>1, <1>2 DEF Found
<1>4. ASSUME NEW x PROVE Completed(x) \in Replies
  <2>1. (IF x.total = 0 THEN "no completions" ELSE IF x.hasMore THEN "the first" ELSE "all completions") \in Whys
    BY <1>2
  <2> QED
    BY <1>1, <2>1 DEF Completed
<1>5. \A w : SelectProtocolVersion(w) \in Whys
  BY <1>2 DEF SelectProtocolVersion
<1>6. {Reply(TRUE, SelectProtocolVersion("any")), Reply(TRUE, "ping or list"),
       Reply(TRUE, "202, no reply to a notification or a response")} \subseteq Replies
  BY <1>1, <1>2, <1>5
<1>7. {Found(uri, Resources) : uri \in {"oracle-erp://info", "agents://guardrails"}} \subseteq Replies
      /\ {Found(q, Prompts) : q \in {"a skill", "unknown"}} \subseteq Replies
  BY <1>3
<1>8. {Reply(FALSE, "InternalError")} \subseteq Replies /\ {Reply(FALSE, "MethodNotFound"), Reply(FALSE, "InvalidParams")} \subseteq Replies
  BY <1>1, <1>2
<1>9. {Completed(Complete(a, {"user"})) : a \in {"security_sod_audit.scope", "unknown"}} \subseteq Replies
  BY <1>4
<1> QED
  BY <1>6, <1>7, <1>8, <1>9, Zenon DEF MethodReplies

LEMMA DispatchKeeps ==
  ASSUME Up, NEW c \in Calls, call[c] = Idle, Dispatch(c)
  PROVE  IInv'
<1>1. CASE ToolsCall(c)
  BY <1>1, ToolsCallKeeps
<1>2. CASE OtherMethod(c)
  <2>1. Reply(TRUE, "setLevel") \in Replies
    <3>1. "setLevel" \in Whys
      BY DEF Whys
    <3> QED
      BY <3>1, ReplyIs
  <2>2. /\ UNCHANGED <<server, metrics, audit>>
        /\ \E reply \in Replies : call' = [call EXCEPT ![c] = [Idle EXCEPT !.phase = "answered", !.reply = reply]]
    BY <1>2, <2>1, MethodRepliesAre DEF OtherMethod
  <2> QED
    BY <2>2, AnsweredKeeps
<1> QED
  BY <1>1, <1>2 DEF Dispatch

LEMMA PostKeeps ==
  ASSUME Up, NEW c \in Calls, Post(c)
  PROVE  IInv'
<1>1. call[c] = Idle
  BY DEF Post
<1>2. ASSUME NEW status \in {"400", "401", "403"}, UNCHANGED <<server, metrics, audit>>,
             call' = [call EXCEPT ![c] = [Idle EXCEPT !.phase = "answered", !.reply = Reply(FALSE, status)]]
      PROVE  IInv'
  <2>1. Reply(FALSE, status) \in Replies
    <3>1. status \in Whys
      BY DEF Whys
    <3> QED
      BY <3>1, ReplyIs
  <2> QED
    BY <1>1, <1>2, <2>1, AnsweredKeeps
<1>3. \/ Dispatch(c)
      \/ \E status \in {"400", "401", "403"} :
           /\ UNCHANGED <<server, metrics, audit>>
           /\ call' = [call EXCEPT ![c] = [Idle EXCEPT !.phase = "answered", !.reply = Reply(FALSE, status)]]
  BY DEF Post
<1> QED
  BY <1>1, <1>2, <1>3, DispatchKeeps

-----------------------------------------------------------------------------
(* The metrics.                                                            *)

LEMMA NamesAre ==
  /\ RecordOrder[1] = "calls" /\ RecordOrder[2] = "latency" /\ RecordOrder[3] = "errors" /\ RecordOrder[4] = "denied"
  /\ Len(RecordOrder) = 4
  BY DEF RecordOrder

LEMMA CountedIsFinite ==
  ASSUME NEW n, NEW t
  PROVE  IsFiniteSet(Counted(n, t)) /\ Cardinality(Counted(n, t)) \in Nat
<1>1. Counted(n, t) \subseteq Calls
  BY DEF Counted
<1> QED
  BY <1>1, ToolServerAssumption, FS_Subset, FS_CardinalityType

LEMMA RecordKeeps ==
  ASSUME Up, NEW c \in Calls, Record(c)
  PROVE  IInv'
<1>k. PICK k \in CallType : k = call[c]
  BY DEF Up
<1> DEFINE n == k.metric
           t == k.tool
           name == RecordOrder[n]
           m == IF n = 4 THEN [k EXCEPT !.phase = "answered", !.metric = 0] ELSE [k EXCEPT !.metric = @ + 1]
           counted == Counts(k, n)
<1>1. /\ k.phase = "recording" /\ UNCHANGED <<server, audit>> /\ call' = [call EXCEPT ![c] = m]
  BY <1>k, NamesAre DEF Record
<1>2. server.transport = "http" /\ n \in 1..4 /\ t \in CalledTools
  BY <1>k, <1>1 DEF Up, CallOK
<1>3. name = CASE n = 1 -> "calls" [] n = 2 -> "latency" [] n = 3 -> "errors" [] n = 4 -> "denied"
  BY <1>2, NamesAre
<1>4. counted <=> /\ name \in {"errors", "denied"} => ~k.reply.ok
                  /\ name = "denied" => ResponseDenied(k.reply)
  BY <1>2, <1>3 DEF Counts
<1>5. /\ ~counted => UNCHANGED metrics
      /\ counted /\ name = "latency" => \E b \in Latencies : ObserveHistogram(t, b)
      /\ counted /\ name # "latency" => IncCounter(name, t)
  <2> HIDE DEF counted
  <2>1. CASE ~counted
    BY <1>k, <1>4, <2>1 DEF Record
  <2>2. CASE counted /\ name = "latency"
    BY <1>k, <1>4, <2>2 DEF Record
  <2>3. CASE counted /\ name # "latency"
    BY <1>k, <1>4, <2>3 DEF Record
  <2> QED
    BY <2>1, <2>2, <2>3
<1>6. /\ m \in CallType /\ m.tool = t /\ m.reply = k.reply /\ m.request = k.request /\ m.answers = k.answers
      /\ m.happened = k.happened
      /\ \/ n = 4 /\ m.phase = "answered"
         \/ n # 4 /\ m.phase = "recording" /\ m.metric = n + 1
  <2>1. CASE n = 4
    <3>1. m = [k EXCEPT !.phase = "answered", !.metric = 0]
      BY <2>1
    <3> HIDE DEF m, n
    <3>2. 0 \in 0..4
      OBVIOUS
    <3> QED
      BY <2>1, <3>1, <3>2 DEF CallType, t
  <2>2. CASE n # 4
    BY <1>1, <1>2, <2>2 DEF CallType
  <2> QED
    BY <2>1, <2>2
<1> HIDE DEF m, counted, name
<1>7. call' \in [Calls -> CallType] /\ call'[c] = m /\ \A d \in Calls \ {c} : call'[d] = call[d]
  BY <1>1, <1>6 DEF Up
<1>8. ASSUME NEW x \in 1..4, NEW u \in CalledTools
      PROVE  /\ x = n /\ u = t /\ counted => Counted(x, u)' = Counted(x, u) \cup {c} /\ c \notin Counted(x, u)
             /\ ~(x = n /\ u = t /\ counted) => Counted(x, u)' = Counted(x, u)
  <2>1. Past(m, x, u) <=> Past(k, x, u) \/ (x = n /\ u = t)
    <3>1. Past(m, x, u) <=> u = t /\ (n = 4 \/ n + 1 > x)
      <4>1. CASE n = 4
        <5>1. m.phase = "answered" /\ m.tool = t
          BY <1>6, <4>1
        <5> HIDE DEF n, t
        <5> QED
          BY <1>2, <4>1, <5>1 DEF Past
      <4>2. CASE n # 4
        <5>1. m.phase = "recording" /\ m.metric = n + 1 /\ m.tool = t
          BY <1>6, <4>2
        <5> HIDE DEF n, t
        <5> QED
          BY <1>2, <4>2, <5>1 DEF Past
      <4> QED
        BY <4>1, <4>2
    <3>2. Past(k, x, u) <=> u = t /\ n > x
      BY <1>1, <1>2 DEF Past
    <3> HIDE DEF n, t
    <3> QED
      BY <1>2, <3>1, <3>2
  <2>2. ~Past(k, n, t)
    BY <1>1, <1>2 DEF Past
  <2>3. Counts(m, x) <=> Counts(k, x)
    BY <1>6 DEF Counts
  <2>5. Counted(x, u)' = {d \in Calls : Past(call'[d], x, u) /\ Counts(call'[d], x)}
    BY <1>1 DEF Counted, Past, Counts
  <2>6. c \in Counted(x, u)' <=> Past(m, x, u) /\ Counts(m, x)
    BY <1>7, <2>5
  <2>7. \A d \in Calls \ {c} : d \in Counted(x, u)' <=> d \in Counted(x, u)
    BY <1>7, <2>5 DEF Counted
  <2>8. c \in Counted(x, u) <=> Past(k, x, u) /\ Counts(k, x)
    BY <1>k DEF Counted
  <2>9. Counted(x, u) \subseteq Calls /\ Counted(x, u)' \subseteq Calls
    BY <2>5 DEF Counted
  <2>10. CASE x = n /\ u = t /\ counted
    BY <2>1, <2>2, <2>3, <2>6, <2>7, <2>8, <2>9, <2>10 DEF counted
  <2>11. CASE ~(x = n /\ u = t /\ counted)
    BY <2>1, <2>2, <2>3, <2>6, <2>7, <2>8, <2>9, <2>11 DEF counted
  <2> QED
    BY <2>10, <2>11
<1>9. ASSUME NEW x \in 1..4, NEW u \in CalledTools
      PROVE  /\ Cardinality(Counted(x, u)) \in Nat
             /\ Cardinality(Counted(x, u)') = IF x = n /\ u = t /\ counted THEN Cardinality(Counted(x, u)) + 1
                                              ELSE Cardinality(Counted(x, u))
  <2>1. IsFiniteSet(Counted(x, u)) /\ Cardinality(Counted(x, u)) \in Nat
    BY CountedIsFinite
  <2>2. CASE x = n /\ u = t /\ counted
    BY <1>8, <2>1, <2>2, FS_AddElement
  <2>3. CASE ~(x = n /\ u = t /\ counted)
    BY <1>8, <2>1, <2>3
  <2> QED
    BY <2>2, <2>3
<1>10. MetricsType /\ \A u \in CalledTools : MetricsOK(u)
  BY DEF Up
<1>11. MetricsType' /\ \A u \in CalledTools : MetricsOK(u)'
  <2>1. CASE ~counted
    <3>1. metrics' = metrics
      BY <1>5, <2>1
    <3> QED
      BY <1>9, <1>10, <2>1, <3>1 DEF MetricsType, MetricsOK
  <2>2. CASE counted /\ name = "latency"
    <3>1. PICK b \in Latencies : ObserveHistogram(t, b)
      BY <1>5, <2>2
    <3>2. n = 2 /\ b \in 1..3
      BY <1>2, <1>3, <2>2, ToolServerAssumption
    <3> DEFINE old == metrics.latency[t]
               new == [i \in Buckets |-> IF i >= b THEN old[i] + 1 ELSE old[i]]
    <3>3. /\ DOMAIN metrics' = DOMAIN metrics /\ metrics'.calls = metrics.calls
          /\ metrics'.errors = metrics.errors /\ metrics'.denied = metrics.denied
          /\ DOMAIN metrics'.latency = CalledTools /\ metrics'.latency[t] = new
          /\ \A u \in CalledTools \ {t} : metrics'.latency[u] = metrics.latency[u]
      BY <1>2, <1>10, <3>1 DEF ObserveHistogram, MetricsType
    <3>4. MetricsType'
      BY <1>10, <3>3 DEF MetricsType
    <3>5. /\ old \in [Buckets -> Nat] /\ old[1] <= old[2] /\ old[2] <= old[3]
      BY <1>2, <1>10 DEF MetricsOK
    <3> HIDE DEF old
    <3>6. /\ new \in [Buckets -> Nat] /\ new[1] <= new[2] /\ new[2] <= new[3] /\ new[3] = old[3] + 1
      BY <3>2, <3>5 DEF Buckets
    <3> HIDE DEF new
    <3>7. ASSUME NEW u \in CalledTools PROVE MetricsOK(u)'
      <4>1. CASE u = t
        BY <1>9, <1>10, <2>2, <3>2, <3>3, <3>6, <4>1 DEF MetricsOK, old
      <4>2. CASE u # t
        BY <1>9, <1>10, <3>3, <4>2 DEF MetricsOK
      <4> QED
        BY <4>1, <4>2
    <3> QED
      BY <3>4, <3>7
  <2>3. CASE counted /\ name # "latency"
    <3>1. metrics' = [metrics EXCEPT ![name][t] = @ + 1]
      BY <1>5, <2>3 DEF IncCounter
    <3>2. name \in {"calls", "errors", "denied"} /\ n # 2
      BY <1>2, <1>3, <2>3
    <3>3. /\ DOMAIN metrics' = DOMAIN metrics /\ metrics'.latency = metrics.latency
          /\ DOMAIN metrics'[name] = CalledTools /\ metrics'[name][t] = metrics[name][t] + 1
          /\ \A u \in CalledTools \ {t} : metrics'[name][u] = metrics[name][u]
          /\ \A other \in DOMAIN metrics \ {name} : metrics'[other] = metrics[other]
      BY <1>2, <1>10, <3>1, <3>2 DEF MetricsType
    <3>4. MetricsType'
      BY <1>10, <3>3 DEF MetricsType
    <3>5. ASSUME NEW u \in CalledTools PROVE MetricsOK(u)'
      <4>1. MetricsOK(u) /\ DOMAIN metrics = {"calls", "latency", "errors", "denied"}
        BY <1>10 DEF MetricsType
      <4>2. CASE n = 1
        BY <1>3, <1>9, <2>3, <3>3, <4>1, <4>2 DEF MetricsOK
      <4>3. CASE n = 3
        BY <1>3, <1>9, <2>3, <3>3, <4>1, <4>3 DEF MetricsOK
      <4>4. CASE n = 4
        BY <1>3, <1>9, <2>3, <3>3, <4>1, <4>4 DEF MetricsOK
      <4> QED
        BY <1>2, <3>2, <4>2, <4>3, <4>4
    <3> QED
      BY <3>4, <3>5
  <2> QED
    BY <2>1, <2>2, <2>3
<1>12. ServerOK' /\ server' = server
  BY <1>1 DEF Up, ServerOK
<1>13. \A d \in Calls : CallOK(call'[d], server.transport, server.readOnly)
  <2>1. CallOK(k, server.transport, server.readOnly)
    BY <1>k DEF Up
  <2>2. CallOK(m, server.transport, server.readOnly)
    <3>1. /\ m.phase # "asking" /\ m.phase # "upstream"
          /\ m.phase = "recording" => m.metric \in 1..4
      BY <1>2, <1>6
    <3> QED
      BY <1>2, <1>6, <2>1, <3>1 DEF CallOK
  <2> QED
    BY <1>7, <2>2 DEF Up
<1>14. \A d \in Calls : AuditOK(d)'
  <2>1. /\ Owes(m) <=> Owes(k)
        /\ \A r : Fits(r, m) <=> Fits(r, k)
    <3>1. Agreed(m) <=> Agreed(k)
      BY <1>6 DEF Agreed
    <3>2. Owes(m) <=> Owes(k)
      BY <1>1, <1>6 DEF Owes, Ended, Audited
    <3> QED
      BY <1>6, <3>1, <3>2 DEF Fits
  <2>2. \A d \in Calls : RowsOf(d)' = RowsOf(d) /\ AuditOK(d)
    BY <1>1 DEF RowsOf, Up
  <2>3. ASSUME NEW d \in Calls PROVE AuditOK(d)'
    <3>1. CASE d = c
      BY <1>k, <1>1, <1>7, <2>1, <2>2, <3>1 DEF AuditOK
    <3>2. CASE d # c
      BY <1>1, <1>7, <2>2, <3>2 DEF AuditOK
    <3> QED
      BY <3>1, <3>2
  <2> QED
    BY <2>3
<1>15. audit' \in Seq(Row) /\ (server'.readOnly => \A i \in DOMAIN audit' : RowOK(audit'[i]))
  BY <1>1 DEF Up
<1> QED
  BY <1>7, <1>11, <1>12, <1>13, <1>14, <1>15 DEF IInv, Up

-----------------------------------------------------------------------------
(* The server, and the specification.                                      *)

LEMMA StartKeeps ==
  ASSUME Start, IInv
  PROVE  IInv'
<1>1. Down /\ server.phase = "starting"
  BY DEF Start, IInv, Up, ServerOK
<1>2. PICK e \in Environments : ~CannotStart(e) /\ server' = Configured(e)
  BY DEF Start
<1>3. UNCHANGED <<call, audit, metrics>> /\ call = [c \in Calls |-> Idle] /\ audit = <<>> /\ metrics = NoMetrics
  BY <1>1 DEF Start, Down
<1>4. /\ DOMAIN server' = Fields /\ server'.phase = "serving" /\ server'.transport = e.transport
      /\ server'.readOnly = ReadOnly(e) /\ server'.identity = Credentials(e).value
      /\ server'.erp = (IF FusionFromEnv(e) THEN "fusion" ELSE "mock")
      /\ server'.system = AuditedSystem(e, Credentials(e).value)
  BY <1>2 DEF Configured, Fields
<1>5. Credentials(e).ok /\ e.transport \in {"stdio", "http"}
  BY <1>2 DEF CannotStart
<1>6. ReadOnly(e) \in BOOLEAN
  BY DEF ReadOnly
<1>7. AuditedSystem(e, Credentials(e).value) \in Systems /\ (FusionFromEnv(e) => AuditedSystem(e, Credentials(e).value) = "pod")
  BY DEF AuditedSystem, Systems
<1>8. ServerOK'
  <2>1. server'.erp = "fusion" => server'.identity # "static" /\ server'.system = "pod"
    BY <1>4, <1>5, <1>7, IdentityIsReal
  <2>2. server'.system \in Systems
    BY <1>4, <1>7
  <2> QED
    BY <1>4, <1>5, <1>6, <2>1, <2>2 DEF ServerOK
<1>9. call' \in [Calls -> CallType] /\ audit' \in Seq(Row) /\ \A c \in Calls : call'[c] = Idle
  BY <1>3, IdleIs
<1>10. \A c \in Calls : CallOK(call'[c], server'.transport, server'.readOnly)
  BY <1>9, IdleIs, DoneIsOK
<1>11. \A c \in Calls : AuditOK(c)'
  <2>1. ~Owes(Idle)
    BY IdleIs
  <2>2. \A c \in Calls : RowsOf(c)' = {}
    BY <1>3 DEF RowsOf
  <2> QED
    BY <1>9, <2>1, <2>2 DEF AuditOK
<1>12. MetricsType' /\ \A t \in CalledTools : MetricsOK(t)'
  <2>1. ASSUME NEW n, NEW t \in CalledTools PROVE Cardinality(Counted(n, t)') = 0
    <3>1. t # "none"
      BY ToolServerAssumption
    <3>2. Counted(n, t)' = {}
      BY <1>9, <3>1, IdleIs DEF Counted, Past
    <3> QED
      BY <3>2, FS_EmptySet
  <2>2. MetricsType'
    BY <1>3 DEF MetricsType, NoMetrics
  <2>3. ASSUME NEW t \in CalledTools PROVE MetricsOK(t)'
    <3>1. /\ metrics'.calls[t] = 0 /\ metrics'.errors[t] = 0 /\ metrics'.denied[t] = 0
          /\ metrics'.latency[t] = [b \in Buckets |-> 0]
      BY <1>3 DEF NoMetrics
    <3>2. metrics'.latency[t] \in [Buckets -> Nat] /\ \A b \in 1..3 : metrics'.latency[t][b] = 0
      BY <3>1 DEF Buckets
    <3> QED
      BY <2>1, <3>1, <3>2 DEF MetricsOK
  <2> QED
    BY <2>2, <2>3
<1>13. \A i \in DOMAIN audit' : RowOK(audit'[i])
  BY <1>3
<1> QED
  BY <1>8, <1>9, <1>10, <1>11, <1>12, <1>13 DEF IInv, Up

\* The server changes its phase and nothing else.
LEMMA PhaseKeeps ==
  ASSUME Up, NEW phase \in {"stopping", "exited"}, server' = [server EXCEPT !.phase = phase],
         UNCHANGED <<call, audit, metrics>>
  PROVE  IInv'
<1>1. /\ DOMAIN server' = DOMAIN server /\ server'.phase = phase
      /\ \A f \in Fields \ {"phase"} : server'[f] = server[f]
  BY DEF Up, ServerOK, Fields
<1>2. /\ server'.transport = server.transport /\ server'.readOnly = server.readOnly
      /\ server'.system = server.system /\ server'.erp = server.erp /\ server'.identity = server.identity
  BY <1>1 DEF Fields
<1>3. ServerOK'
  BY <1>1, <1>2 DEF Up, ServerOK
<1>4. \A n, t : Counted(n, t)' = Counted(n, t)
  BY <1>2 DEF Counted, Past, Counts
<1>5. MetricsType' /\ \A t \in CalledTools : MetricsOK(t)'
  BY <1>4 DEF Up, MetricsOK, MetricsType
<1>6. \A c \in Calls : AuditOK(c)'
  BY DEF Up, AuditOK, RowsOf
<1> QED
  BY <1>2, <1>3, <1>5, <1>6 DEF IInv, Up

LEMMA Inductive == IInv /\ [Next]_vars => IInv'
<1> SUFFICES ASSUME IInv, [Next]_vars PROVE IInv'
  OBVIOUS
<1>1. CASE Start
  BY <1>1, StartKeeps
<1>2. CASE StartFails
  BY <1>2 DEF StartFails, IInv, Down, Up, ServerOK
<1>3. CASE Subscribe \/ SubscriberLeaves \/ UNCHANGED vars
  <2>1. UNCHANGED <<server, call, audit, metrics>>
    BY <1>3 DEF Subscribe, SubscriberLeaves, vars
  <2>2. \A n, t : Counted(n, t)' = Counted(n, t)
    BY <2>1 DEF Counted, Past, Counts
  <2>3. CASE Down
    BY <2>1, <2>3 DEF IInv, Down
  <2>4. CASE Up
    <3>1. ServerOK' /\ MetricsType' /\ \A t \in CalledTools : MetricsOK(t)'
      BY <2>1, <2>2, <2>4 DEF Up, ServerOK, MetricsType, MetricsOK
    <3>2. \A c \in Calls : AuditOK(c)'
      BY <2>1, <2>4 DEF Up, AuditOK, RowsOf
    <3> QED
      BY <2>1, <2>4, <3>1, <3>2 DEF IInv, Up
  <2> QED
    BY <2>3, <2>4 DEF IInv
<1>4. CASE Interrupt \/ Exit
  <2>1. Up
    BY <1>4 DEF Interrupt, Exit, IInv, Down
  <2> QED
    BY <1>4, <2>1, PhaseKeeps DEF Interrupt, Exit
<1>5. ASSUME NEW c \in Calls,
             ReadLine(c) \/ Post(c) \/ UserAnswers(c) \/ UpstreamAnswers(c) \/ ClientLeaves(c) \/ Record(c)
      PROVE  IInv'
  <2>1. Up
    <3>1. Down => server.phase \in {"starting", "exited"} /\ call[c].phase = "idle"
      BY IdleIs DEF Down
    <3>2. server.phase = "serving" \/ call[c].phase \in {"asking", "upstream", "recording"}
      BY <1>5 DEF ReadLine, Post, UserAnswers, UpstreamAnswers, ClientLeaves, Record
    <3> QED
      BY <3>1, <3>2 DEF IInv
  <2> QED
    BY <1>5, <2>1, DispatchKeeps, PostKeeps, UserAnswersKeeps, UpstreamAnswersKeeps, ClientLeavesKeeps, RecordKeeps DEF ReadLine
<1> QED
  BY <1>1, <1>2, <1>3, <1>4, <1>5 DEF Next

LEMMA InitInv == Init => IInv
  BY DEF Init, IInv, Down

LEMMA Invariant == Spec => []IInv
  BY InitInv, Inductive, PTL DEF Spec

-----------------------------------------------------------------------------
(* A server on a live pod never presents the built-in demo identity, and   *)
(* its audit names the pod.                                                *)
THEOREM NoDemoIdentityOnAPodHolds == Spec => []NoDemoIdentityOnAPod
<1>1. IInv => NoDemoIdentityOnAPod
  BY DEF IInv, Down, Up, ServerOK, NoDemoIdentityOnAPod
<1> QED
  BY <1>1, Invariant, PTL

(* A read-only server writes nothing, asks nobody to confirm a write, and  *)
(* its audit holds only denials.                                           *)
THEOREM ReadOnlyServerIsReadOnlyHolds == Spec => []ReadOnlyServerIsReadOnly
<1>1. IInv => ReadOnlyServerIsReadOnly
  <2>1. Down => ReadOnlyServerIsReadOnly
    BY DEF Down, ReadOnlyServerIsReadOnly
  <2>2. Up => ReadOnlyServerIsReadOnly
    BY DEF Up, CallOK, RowOK, ReadOnlyServerIsReadOnly
  <2> QED
    BY <2>1, <2>2 DEF IInv
<1> QED
  BY <1>1, Invariant, PTL

(* A call has a row just when its handler ended a workflow or a commit,    *)
(* and the row says what became of it, without a secret.                   *)
THEOREM AuditTellsTheTruthHolds == Spec => []AuditTellsTheTruth
<1>1. ASSUME Down PROVE AuditTellsTheTruth
  <2>1. DOMAIN audit = {}
    BY <1>1 DEF Down
  <2>2. \A c \in Calls : ~(Ended(call[c]) /\ Audited(call[c]))
    BY <1>1, IdleIs DEF Down, Owes
  <2> QED
    BY <2>1, <2>2 DEF AuditTellsTheTruth
<1>2. ASSUME Up PROVE AuditTellsTheTruth
  <2>1. \A i \in DOMAIN audit : ~HasSecret(audit[i].arguments)
    <3>1. ASSUME NEW v \in Arguments \cup {NoArguments} PROVE ~HasSecret(Redact(v))
      <4>1. DOMAIN NoArguments \subseteq Seq(STRING)
        <5>1. DOMAIN NoArguments = {<<>>}
          BY Zenon DEF NoArguments
        <5> QED
          BY <5>1
      <4>2. DOMAIN v \subseteq Seq(STRING)
        BY <4>1, ToolServerAssumption
      <4> QED
        BY <4>2, RedactedHasNoSecret
    <3>2. \A i \in DOMAIN audit : audit[i] \in Row
      BY <1>2 DEF Up
    <3>3. \A r \in Row : r.arguments \in {Redact(v) : v \in Arguments \cup {NoArguments}}
      BY DEF Row
    <3> QED
      BY <3>1, <3>2, <3>3
  <2>2. \A c \in Calls : AuditOK(c)
    BY <1>2 DEF Up
  <2> QED
    BY <2>1, <2>2 DEF AuditTellsTheTruth, AuditOK, Owes, RowsOf, Fits
<1> QED
  BY <1>1, <1>2, Invariant, PTL DEF IInv

(* Whenever the metrics are rendered, each tool's counters are consistent, *)
(* and once all calls are answered they are the true numbers.              *)
THEOREM MetricsAgreeHolds == Spec => []MetricsAgree
<1>1. ASSUME Up PROVE MetricsAgree
  <2> SUFFICES ASSUME NEW t \in CalledTools
               PROVE  /\ metrics.denied[t] <= metrics.errors[t]
                      /\ metrics.errors[t] <= metrics.latency[t][3]
                      /\ metrics.latency[t][3] <= metrics.calls[t]
                      /\ metrics.latency[t][1] <= metrics.latency[t][2] /\ metrics.latency[t][2] <= metrics.latency[t][3]
                      /\ (\A c \in Calls : call[c].phase # "recording") =>
                           /\ metrics.calls[t] = Cardinality(Recorded(t)) /\ metrics.latency[t][3] = metrics.calls[t]
                           /\ metrics.errors[t] = Cardinality({c \in Recorded(t) : ~call[c].reply.ok})
    BY DEF MetricsAgree
  <2>1. MetricsOK(t) /\ \A c \in Calls : call[c].metric \in 0..4
    BY <1>1 DEF Up, CallType
  <2>2. Counted(4, t) \subseteq Counted(3, t) /\ Counted(3, t) \subseteq Counted(2, t) /\ Counted(2, t) \subseteq Counted(1, t)
    BY <2>1 DEF Counted, Past, Counts
  <2>3. \A n \in 1..4 : IsFiniteSet(Counted(n, t)) /\ Cardinality(Counted(n, t)) \in Nat
    BY CountedIsFinite
  <2>4. /\ Cardinality(Counted(4, t)) <= Cardinality(Counted(3, t))
        /\ Cardinality(Counted(3, t)) <= Cardinality(Counted(2, t))
        /\ Cardinality(Counted(2, t)) <= Cardinality(Counted(1, t))
    BY <2>2, <2>3, FS_Subset
  <2>5. ASSUME \A c \in Calls : call[c].phase # "recording"
        PROVE  /\ Counted(1, t) = Recorded(t) /\ Counted(2, t) = Recorded(t)
               /\ Counted(3, t) = {c \in Recorded(t) : ~call[c].reply.ok}
    <3>1. \A n \in 1..4, c \in Calls : Past(call[c], n, t) <=> c \in Recorded(t)
      <4> SUFFICES ASSUME NEW n \in 1..4, NEW c \in Calls
                   PROVE  Past(call[c], n, t) <=> c \in Recorded(t)
        OBVIOUS
      <4>1. call[c].phase # "recording"
        BY <2>5
      <4> QED
        BY <4>1 DEF Past, Recorded
    <3>2. \A c \in Recorded(t) : c \in Calls
      BY DEF Recorded
    <3>3. Counted(1, t) = Recorded(t)
      BY <3>1, <3>2 DEF Counted, Counts
    <3>4. Counted(2, t) = Recorded(t)
      BY <3>1, <3>2 DEF Counted, Counts
    <3>5. Counted(3, t) = {c \in Recorded(t) : ~call[c].reply.ok}
      BY <3>1, <3>2 DEF Counted, Counts
    <3> QED
      BY <3>3, <3>4, <3>5
  <2> QED
    BY <2>1, <2>4, <2>5 DEF MetricsOK
<1>2. Down => MetricsAgree
  BY DEF Down, MetricsAgree
<1> QED
  BY <1>1, <1>2, Invariant, PTL DEF IInv
=============================================================================
