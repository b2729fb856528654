---------------------------- MODULE GatewayProofs ----------------------------
(***************************************************************************)
(* Proofs about the gateway and what it is built on, each for any size:    *)
(*                                                                         *)
(* Gateway, for any messages, conversations, jobs and skills: a reply is   *)
(* posted where its message came from and nowhere else.  The log is        *)
(* compared with the messages' routes, one post at a time.                 *)
(*                                                                         *)
(* Skills, for any files beside the repository's, in any order: a message  *)
(* routed to a skill is answered with texts only.  The files of the        *)
(* repository parse to skills whose bodies have holes for their arguments  *)
(* only, the rules give the required ones, and rendering takes the holes   *)
(* away one argument at a time.                                            *)
(*                                                                         *)
(* Memory, for any messages and any size of the ring: working memory is    *)
(* the tail of its conversation, and an agent's turn follows the user's    *)
(* turn it answers.  For any recorders and any limit: a lookup by tag      *)
(* finds what was recorded before it, for the indices of a tag are those   *)
(* of the recorders that are done, each once, at every moment.             *)
(*                                                                         *)
(* Scheduler: next_in hits the slot of an hourly or daily schedule and the *)
(* weekday of a weekly one, from every second since the epoch and for      *)
(* every argument, in range or not, and hence every job of every scheduler *)
(* is due on its slot.                                                     *)
(***************************************************************************)
EXTENDS Gateway, Scheduler, FiniteSetTheorems, WellFoundedInduction, TLAPS

-----------------------------------------------------------------------------
(* Replies.                                                                *)

IsRoute(r) == \E at, via, text : r = [at |-> at, via |-> via, text |-> text]

Typed ==
  /\ inbox \in Inboxes /\ jobs \in JobLists
  /\ route = [m \in Messages |-> route[m]]
  /\ \A m \in Messages : IsRoute(route[m])

\* The messages are typed, and an address begins with its scheme.
LEMMA InboxIs ==
  ASSUME Typed, NEW m \in Messages
  PROVE  /\ inbox[m].conversation \in Seq(STRING)
         /\ Address(m)[1] = inbox[m].channel
<1>1. inbox[m] \in [channel : STRING, conversation : Seq(STRING), user : STRING, words : SUBSET STRING]
  BY GatewayAssumption, Zenon DEF Typed
<1>2. inbox[m].conversation \in Seq(STRING)
  BY <1>1
<1> QED
  BY <1>2 DEF Address

\* A job's name is no message.
LEMMA JobIs ==
  ASSUME Typed, job \in Nat \ {0}, job <= Len(jobs)
  PROVE  jobs[job].name \notin Messages
<1>1. jobs \in Seq([name : STRING, enabled : BOOLEAN, channel : Seq(STRING)])
  BY GatewayAssumption, Zenon DEF Typed
<1>2. job \in DOMAIN jobs
  BY <1>1
<1> QED
  BY <1>2, GatewayAssumption DEF Typed

\* Only the CLI adapter takes a post.
LEMMA OnlyToTheCli ==
  ASSUME NEW address, SendResult(address) = "ok"
  PROVE  address[1] = "cli"
  BY Zenon DEF SendResult, Scheme

Posts(from) == {i \in DOMAIN sent : sent[i].from = from}

\* What the log says of a message.
PostsOK(m) ==
  /\ route[m].at # "replied" => Posts(m) = {}
  /\ route[m].at = "replied" => \E k \in DOMAIN sent : Posts(m) = {k} /\ sent[k].address = Address(m)

RepliesOK ==
  /\ Typed
  /\ job \in Nat \ {0} /\ (invoking => job <= Len(jobs) /\ jobs[job].enabled)
  /\ DOMAIN sent = 1..Len(sent) /\ Len(sent) \in Nat
  /\ \A i \in DOMAIN sent : sent[i].address[1] = "cli"
  /\ \A m \in Messages : PostsOK(m)

\* registry.send() logs a post at the end or not at all.
LEMMA LoggedIs ==
  ASSUME RepliesOK, NEW address, NEW from, sent' = Logged(address, from)
  PROVE  \/ SendResult(address) # "ok" /\ sent' = sent
         \/ /\ SendResult(address) = "ok"
            /\ Len(sent') = Len(sent) + 1 /\ DOMAIN sent' = 1..Len(sent')
            /\ \A i \in DOMAIN sent : sent'[i] = sent[i]
            /\ sent'[Len(sent) + 1] = [address |-> address, from |-> from]
            /\ address[1] = "cli"
<1>1. CASE SendResult(address) = "ok"
  <2>1. sent' = Append(sent, [address |-> address, from |-> from])
    BY <1>1, Zenon DEF Logged
  <2>2. address[1] = "cli"
    BY <1>1, OnlyToTheCli
  <2> HIDE DEF SendResult
  <2> QED
    BY <1>1, <2>1, <2>2 DEF RepliesOK
<1>2. CASE SendResult(address) # "ok"
  BY <1>2, Zenon DEF Logged
<1> QED
  BY <1>1, <1>2

\* route() replaces what it knows of a message, in whole or in part.
LEMMA Changed ==
  ASSUME NEW r, IsRoute(r), NEW at
  PROVE  IsRoute([r EXCEPT !.at = at]) /\ [r EXCEPT !.at = at].at = at
<1> PICK a, v, t : r = [at |-> a, via |-> v, text |-> t]
  BY DEF IsRoute
<1>1. [r EXCEPT !.at = at] = [at |-> at, via |-> v, text |-> t]
  OBVIOUS
<1> QED
  BY <1>1 DEF IsRoute

\* A step that touches neither the log nor the routes.
LEMMA PostsStay ==
  ASSUME RepliesOK, UNCHANGED <<inbox, jobs, route, sent>>, (job \in Nat \ {0})',
         (invoking => job <= Len(jobs) /\ jobs[job].enabled)'
  PROVE  RepliesOK'
<1>1. \A m \in Messages : Address(m)' = Address(m)
  BY DEF Address
<1>2. \A m \in Messages : PostsOK(m)'
  BY <1>1 DEF RepliesOK, PostsOK, Posts
<1> QED
  BY <1>2 DEF RepliesOK, Typed

LEMMA InitReplies == Init => RepliesOK
<1> SUFFICES ASSUME Init PROVE RepliesOK
  OBVIOUS
<1>1. sent = <<>> /\ route = [m \in Messages |-> Fresh] /\ job = 1 /\ ~invoking
      /\ inbox \in Inboxes /\ jobs \in JobLists
  BY Zenon DEF Init
<1>2. Len(sent) = 0 /\ DOMAIN sent = {} /\ 1..Len(sent) = {}
  BY <1>1
<1>3. \A m \in Messages : route[m].at = "idle"
  BY <1>1 DEF Fresh
<1>6. \A m \in Messages : IsRoute(route[m])
  <2>1. IsRoute(Fresh)
    BY DEF Fresh, IsRoute
  <2> QED
    BY <1>1, <2>1
<1>4. \A m \in Messages : PostsOK(m)
  BY <1>2, <1>3 DEF PostsOK, Posts
<1>5. route = [m \in Messages |-> route[m]]
  BY <1>1
<1> QED
  BY <1>1, <1>2, <1>4, <1>5, <1>6 DEF RepliesOK, Typed

\* The executor posts what no message sent.
LEMMA ReportReplies ==
  ASSUME RepliesOK, NEW call, ReportJob(call)
  PROVE  RepliesOK'
<1> DEFINE address == jobs[job].channel
           name == jobs[job].name
<1>1. UNCHANGED <<inbox, jobs, route>> /\ ~invoking' /\ job' = job + 1 /\ invoking
  BY DEF ReportJob
<1>2. sent' = sent \/ sent' = Logged(address, name)
  BY Zenon DEF ReportJob
<1>3. name \notin Messages
  BY <1>1, JobIs DEF RepliesOK
<1> HIDE DEF address, name
<1>4. job' \in Nat \ {0}
  BY <1>1 DEF RepliesOK
<1>5. CASE sent' = sent
  BY <1>1, <1>4, <1>5, PostsStay
<1>6. CASE sent' # sent
  <2>1. /\ Len(sent') = Len(sent) + 1 /\ DOMAIN sent' = 1..Len(sent')
        /\ \A i \in DOMAIN sent : sent'[i] = sent[i]
        /\ sent'[Len(sent) + 1] = [address |-> address, from |-> name]
        /\ address[1] = "cli"
    BY <1>2, <1>6, LoggedIs, Zenon
  <2>2. \A i \in DOMAIN sent' : i \in DOMAIN sent \/ i = Len(sent) + 1
    BY <2>1 DEF RepliesOK
  <2>3. \A i \in DOMAIN sent : i \in DOMAIN sent'
    BY <2>1 DEF RepliesOK
  <2>4. \A m \in Messages : Posts(m)' = Posts(m) /\ Address(m)' = Address(m)
    BY <1>1, <1>3, <2>1, <2>2, <2>3 DEF Posts, Address
  <2>5. \A m \in Messages : PostsOK(m)'
    BY <1>1, <2>1, <2>3, <2>4 DEF RepliesOK, PostsOK
  <2> QED
    BY <1>1, <1>4, <2>1, <2>2, <2>5 DEF RepliesOK, Typed
<1> QED
  BY <1>5, <1>6

\* A step of route() that posts nothing.
LEMMA QuietReplies ==
  ASSUME RepliesOK, NEW m \in Messages, NEW r,
         UNCHANGED <<inbox, jobs, job, invoking, sent>>,
         route' = [route EXCEPT ![m] = r], IsRoute(r),
         route[m].at # "replied", r.at # "replied"
  PROVE  RepliesOK'
<1>1. \A n \in Messages : Address(n)' = Address(n) /\ Posts(n)' = Posts(n)
  BY DEF Address, Posts
<1>2. route'[m] = r /\ \A n \in Messages \ {m} : route'[n] = route[n]
  BY DEF RepliesOK, Typed
<1>3. \A n \in Messages : PostsOK(n)'
  BY <1>1, <1>2 DEF RepliesOK, PostsOK
<1>4. route' = [n \in Messages |-> route'[n]] /\ \A n \in Messages : IsRoute(route'[n])
  BY <1>2 DEF RepliesOK, Typed
<1> QED
  BY <1>3, <1>4 DEF RepliesOK, Typed

\* The send after route(): the log and the route agree on what happened.
LEMMA ReplyReplies ==
  ASSUME RepliesOK, NEW m \in Messages, Reply(m)
  PROVE  RepliesOK'
<1> DEFINE address == Address(m)
           r == [route[m] EXCEPT !.at = IF SendResult(address) = "ok" THEN "replied" ELSE "failed"]
<1>1. /\ UNCHANGED <<inbox, jobs, job, invoking>> /\ sent' = Logged(address, m)
      /\ route[m].at = "answered" /\ route' = [route EXCEPT ![m] = r]
  BY Zenon DEF Reply, Rest
<1>2. r.at = (IF SendResult(address) = "ok" THEN "replied" ELSE "failed") /\ IsRoute(r)
  <2> DEFINE at == IF SendResult(address) = "ok" THEN "replied" ELSE "failed"
  <2>1. IsRoute(route[m])
    BY DEF RepliesOK, Typed
  <2> HIDE DEF at
  <2>2. IsRoute([route[m] EXCEPT !.at = at]) /\ [route[m] EXCEPT !.at = at].at = at
    BY <2>1, Changed
  <2> QED
    BY <2>2, Zenon DEF at
<1> HIDE DEF address, r
<1>3. CASE SendResult(address) # "ok"
  <2>1. sent' = sent
    BY <1>1, <1>3, LoggedIs, Zenon
  <2>2. r.at = "failed" /\ IsRoute(r)
    BY <1>2, <1>3, Zenon
  <2>3. UNCHANGED <<inbox, jobs, job, invoking, sent>> /\ route' = [route EXCEPT ![m] = r]
        /\ route[m].at # "replied" /\ r.at # "replied"
    BY <1>1, <2>1, <2>2
  <2> QED
    BY <2>2, <2>3, QuietReplies
<1>4. CASE SendResult(address) = "ok"
  <2>1. /\ Len(sent') = Len(sent) + 1 /\ DOMAIN sent' = 1..Len(sent')
        /\ \A i \in DOMAIN sent : sent'[i] = sent[i]
        /\ sent'[Len(sent) + 1] = [address |-> address, from |-> m]
        /\ address[1] = "cli"
    BY <1>1, <1>4, LoggedIs, Zenon
  <2>2. r.at = "replied"
    BY <1>2, <1>4, Zenon
  <2>3. DOMAIN sent' = DOMAIN sent \cup {Len(sent) + 1} /\ Len(sent) + 1 \notin DOMAIN sent
    BY <2>1 DEF RepliesOK
  <2>4. \A n \in Messages : Address(n)' = Address(n)
    BY <1>1 DEF Address
  <2>5. route'[m] = r /\ \A n \in Messages \ {m} : route'[n] = route[n]
    BY <1>1 DEF RepliesOK, Typed
  <2>6. \A n \in Messages \ {m} : Posts(n)' = Posts(n)
    <3>1. sent'[Len(sent) + 1].from = m
      BY <2>1
    <3> QED
      BY <2>1, <2>3, <3>1 DEF Posts
  <2>7. Posts(m) = {}
    BY <1>1 DEF RepliesOK, PostsOK
  <2>8. Posts(m)' = {Len(sent) + 1}
    <3>1. sent'[Len(sent) + 1].from = m
      BY <2>1
    <3> QED
      BY <2>1, <2>3, <2>7, <3>1 DEF Posts
  <2>9. PostsOK(m)'
    BY <2>1, <2>2, <2>3, <2>4, <2>5, <2>8 DEF PostsOK, address
  <2>10. \A n \in Messages \ {m} : PostsOK(n)'
    BY <2>1, <2>3, <2>4, <2>5, <2>6 DEF RepliesOK, PostsOK
  <2>11. route' = [n \in Messages |-> route'[n]] /\ \A n \in Messages : IsRoute(route'[n])
    BY <1>1, <1>2, <2>5 DEF RepliesOK, Typed
  <2> QED
    BY <1>1, <2>1, <2>3, <2>9, <2>10, <2>11 DEF RepliesOK, Typed
<1> QED
  BY <1>3, <1>4

LEMMA RouteReplies ==
  ASSUME RepliesOK, NEW m \in Messages, RouteStep(m)
  PROVE  RepliesOK'
<1> IsRoute(route[m])
  BY DEF RepliesOK, Typed
<1>1. ASSUME Receive(m) PROVE RepliesOK'
  <2>1. PICK at \in {"skill", "tool"} : route' = [route EXCEPT ![m] = [route[m] EXCEPT !.at = at]]
    BY <1>1, Zenon DEF Receive
  <2> DEFINE r == [route[m] EXCEPT !.at = at]
  <2>3. IsRoute(r) /\ r.at = at
    BY Changed
  <2> HIDE DEF r
  <2>2. UNCHANGED <<inbox, jobs, job, invoking, sent>> /\ route[m].at = "idle"
    BY <1>1, Zenon DEF Receive, Rest
  <2> QED
    BY <2>1, <2>2, <2>3, QuietReplies DEF r
<1>2. ASSUME PromptAnswers(m) PROVE RepliesOK'
  <2>1. PICK via, text : route' = [route EXCEPT ![m] = [at |-> "answered", via |-> via, text |-> text]]
    BY <1>2, Zenon DEF PromptAnswers
  <2>2. UNCHANGED <<inbox, jobs, job, invoking, sent>> /\ route[m].at = "prompting"
    BY <1>2, Zenon DEF PromptAnswers, Rest
  <2> DEFINE r == [at |-> "answered", via |-> via, text |-> text]
  <2>3. IsRoute(r) /\ r.at = "answered"
    BY DEF IsRoute
  <2> HIDE DEF r
  <2> QED
    BY <2>1, <2>2, <2>3, QuietReplies DEF r
<1>3. ASSUME PromptFails(m) PROVE RepliesOK'
  <2>1. UNCHANGED <<inbox, jobs, job, invoking, sent>> /\ route[m].at = "prompting"
        /\ route' = [route EXCEPT ![m] = [route[m] EXCEPT !.at = "tool"]]
    BY <1>3, Zenon DEF PromptFails, RestOfCall, Rest, AfterPromptError
  <2> DEFINE r == [route[m] EXCEPT !.at = "tool"]
  <2>3. IsRoute(r) /\ r.at = "tool"
    BY Changed
  <2> HIDE DEF r
  <2> QED
    BY <2>1, <2>3, QuietReplies DEF r
<1>4. ASSUME ToolAnswers(m) PROVE RepliesOK'
  <2>1. PICK via : route' = [route EXCEPT ![m] = [at |-> "answered", via |-> via, text |-> <<>>]]
    BY <1>4, Zenon DEF ToolAnswers
  <2>2. UNCHANGED <<inbox, jobs, job, invoking, sent>> /\ route[m].at = "calling"
    BY <1>4, Zenon DEF ToolAnswers, Rest
  <2> DEFINE r == [at |-> "answered", via |-> via, text |-> <<>>]
  <2>3. IsRoute(r) /\ r.at = "answered"
    BY DEF IsRoute
  <2> HIDE DEF r
  <2> QED
    BY <2>1, <2>2, <2>3, QuietReplies DEF r
<1>5. ASSUME ToolFails(m) PROVE RepliesOK'
  <2>1. UNCHANGED <<inbox, jobs, job, invoking, sent>> /\ route[m].at = "calling"
        /\ route' = [route EXCEPT ![m] = [route[m] EXCEPT !.at = "failed"]]
    BY <1>5, Zenon DEF ToolFails, RestOfCall, Rest
  <2> DEFINE r == [route[m] EXCEPT !.at = "failed"]
  <2>3. IsRoute(r) /\ r.at = "failed"
    BY Changed
  <2> HIDE DEF r
  <2> QED
    BY <2>1, <2>3, QuietReplies DEF r
<1>6. ASSUME GetPrompt(m) \/ CallTool(m) PROVE RepliesOK'
  <2>1. PICK at \in {"prompting", "calling"} : route' = [route EXCEPT ![m] = [route[m] EXCEPT !.at = at]]
    BY <1>6, Zenon DEF GetPrompt, CallTool
  <2>2. UNCHANGED <<inbox, jobs, job, invoking, sent>> /\ route[m].at \in {"skill", "tool"}
    BY <1>6, Zenon DEF GetPrompt, CallTool, RestOfCall, Rest
  <2> DEFINE r == [route[m] EXCEPT !.at = at]
  <2>3. IsRoute(r) /\ r.at = at
    BY Changed
  <2> HIDE DEF r
  <2> QED
    BY <2>1, <2>2, <2>3, QuietReplies DEF r
<1> QED
  BY <1>1, <1>2, <1>3, <1>4, <1>5, <1>6, ReplyReplies DEF RouteStep

LEMMA StepReplies == RepliesOK /\ [Next]_vars => RepliesOK'
<1> SUFFICES ASSUME RepliesOK, [Next]_vars PROVE RepliesOK'
  OBVIOUS
<1>1. ASSUME UNCHANGED vars PROVE RepliesOK'
  BY <1>1, PostsStay DEF vars, gateway, RepliesOK
<1>2. ASSUME MainStep PROVE RepliesOK'
  <2>1. ASSUME Connect \/ Initialize \/ JobsDone \/ MessageDone \/ ServerEnded PROVE RepliesOK'
    <3>1. UNCHANGED <<inbox, jobs, route, sent, job, invoking>>
      BY <2>1, Zenon DEF Connect, Initialize, JobsDone, MessageDone, ServerEnded
    <3> QED
      BY <3>1, PostsStay DEF RepliesOK
  <2>2. ASSUME SkipJob PROVE RepliesOK'
    BY <2>2, PostsStay DEF SkipJob, RepliesOK
  <2>3. ASSUME InvokeJob PROVE RepliesOK'
    BY <2>3, PostsStay DEF InvokeJob, RepliesOK
  <2> QED
    BY <1>2, <2>1, <2>2, <2>3, ReportReplies DEF MainStep
<1>3. ASSUME NEW m \in Messages, RouteStep(m) PROVE RepliesOK'
  BY <1>3, RouteReplies
<1>4. ASSUME ServerDies \/ ReaderEnds \/ Remember PROVE RepliesOK'
  <2>1. UNCHANGED <<inbox, jobs, route, sent, job, invoking>>
    BY <1>4, Zenon DEF ServerDies, ReaderEnds, Remember, gateway
  <2> QED
    BY <2>1, PostsStay DEF RepliesOK
<1> QED
  BY <1>1, <1>2, <1>3, <1>4 DEF Next

\* The CLI channel logs exactly the answered messages and the posts of jobs,
\* each at its own address (route, ChannelRegistry::send), for any messages,
\* jobs and addresses.
THEOREM RepliesGoHomeHolds == Spec => []RepliesGoHome
<1>1. ASSUME RepliesOK PROVE RepliesGoHome
  <2>1. \A i \in DOMAIN sent : sent[i].address[1] = "cli"
    BY <1>1 DEF RepliesOK
  <2>2. ASSUME NEW m \in Messages
        PROVE  /\ Cardinality(Posts(m)) = (IF route[m].at = "replied" THEN 1 ELSE 0)
               /\ \A i \in Posts(m) : sent[i].address = Address(m)
               /\ route[m].at = "replied" => inbox[m].channel = "cli"
    <3>1. PostsOK(m)
      BY <1>1 DEF RepliesOK
    <3>2. CASE route[m].at # "replied"
      BY <3>1, <3>2, FS_EmptySet DEF PostsOK
    <3>3. CASE route[m].at = "replied"
      <4>1. PICK k \in DOMAIN sent : Posts(m) = {k} /\ sent[k].address = Address(m)
        BY <3>1, <3>3 DEF PostsOK
      <4>2. Cardinality({k}) = 1
        BY FS_Singleton
      <4>3. Address(m)[1] = "cli"
        BY <2>1, <4>1
      <4> QED
        BY <1>1, <3>3, <4>1, <4>2, <4>3, InboxIs DEF RepliesOK
    <3> QED
      BY <3>2, <3>3
  <2> QED
    BY <2>1, <2>2 DEF RepliesGoHome, Posts
<1> QED
  BY <1>1, InitReplies, StepReplies, PTL DEF Spec

-----------------------------------------------------------------------------
(* Working memory.                                                         *)

Entry == [key : {"user_turn", "agent_turn"}, tenant : STRING, message : Messages]

\* A ring holds the newest of what was said, as many as it has room for.
IsTail(ring, said) ==
  /\ ring \in Seq(Entry)
  /\ Len(ring) = (IF Len(said) < Capacity THEN Len(said) ELSE Capacity)
  /\ \A i \in 1..Len(ring) : ring[i] = said[Len(said) - Len(ring) + i]

LEMMA CapacityIs == Capacity \in Nat \ {0}
  BY MemoryAssumption DEF Capacity

\* append(): pushing keeps the ring the tail of the conversation.
LEMMA TailIsPushed ==
  ASSUME NEW said \in Seq(Entry), NEW ring, IsTail(ring, said), NEW e \in Entry
  PROVE  IsTail(Pushed(ring, e), Append(said, e))
<1> DEFINE kept == IF Len(ring) = Capacity THEN Tail(ring) ELSE ring
           new == Append(said, e)
<1>0. ring \in Seq(Entry) /\ Len(ring) \in Nat /\ Len(said) \in Nat /\ Capacity \in Nat \ {0}
  BY CapacityIs DEF IsTail
<1>1. /\ ring \in Seq(Entry) /\ Len(ring) \in Nat /\ Len(said) \in Nat
      /\ Len(ring) = (IF Len(said) < Capacity THEN Len(said) ELSE Capacity)
      /\ \A i \in 1..Len(ring) : ring[i] = said[Len(said) - Len(ring) + i]
  BY <1>0, Zenon DEF IsTail
<1>2. Len(new) = Len(said) + 1 /\ new[Len(said) + 1] = e /\ \A i \in 1..Len(said) : new[i] = said[i]
  BY <1>1
<1>3. /\ kept \in Seq(Entry) /\ Len(kept) \in Nat
      /\ Len(kept) + 1 = (IF Len(said) + 1 < Capacity THEN Len(said) + 1 ELSE Capacity)
      /\ \A i \in 1..Len(kept) : kept[i] = said[Len(said) - Len(kept) + i]
  <2>1. CASE Len(ring) = Capacity
    <3>1. kept = Tail(ring) /\ ring # <<>> /\ Len(ring) > 0
      BY <1>0, <2>1
    <3>2. Len(kept) = Len(ring) - 1 /\ kept \in Seq(Entry) /\ \A i \in 1..Len(kept) : kept[i] = ring[i + 1]
      BY <1>1, <3>1
    <3>3. ASSUME NEW i \in 1..Len(kept) PROVE kept[i] = said[Len(said) - Len(kept) + i]
      <4>1. i + 1 \in 1..Len(ring) /\ Len(said) - Len(ring) + (i + 1) = Len(said) - Len(kept) + i
        <5> HIDE DEF kept
        <5> QED
          BY <1>0, <3>1, <3>2
      <4> QED
        BY <1>1, <3>2, <4>1
    <3>4. Len(kept) \in Nat /\ Len(kept) + 1 = Capacity /\ Capacity <= Len(said)
      BY <1>0, <1>1, <2>1, <3>2
    <3> HIDE DEF kept
    <3>5. Len(kept) + 1 = (IF Len(said) + 1 < Capacity THEN Len(said) + 1 ELSE Capacity)
      BY <1>0, <3>4
    <3> QED
      BY <3>2, <3>3, <3>4, <3>5, Zenon
  <2>2. CASE Len(ring) # Capacity
    <3>1. kept = ring /\ Len(ring) = Len(said) /\ Len(said) < Capacity
      BY <1>0, <1>1, <2>2
    <3> HIDE DEF kept
    <3> QED
      BY <1>0, <1>1, <3>1
  <2> QED
    BY <2>1, <2>2
<1>4. Pushed(ring, e) = Append(kept, e)
  BY DEF Pushed
<1> HIDE DEF kept
<1> DEFINE next == Append(kept, e)
<1>5. /\ next \in Seq(Entry) /\ Len(next) = Len(kept) + 1 /\ next[Len(kept) + 1] = e
      /\ \A i \in 1..Len(kept) : next[i] = kept[i]
  BY <1>3
<1> HIDE DEF next, new
<1>6. ASSUME NEW i \in 1..Len(next) PROVE next[i] = new[Len(new) - Len(next) + i]
  <2>1. CASE i = Len(kept) + 1
    <3>1. Len(new) - Len(next) + i = Len(said) + 1
      BY <1>0, <1>1, <1>2, <1>3, <1>5, <2>1
    <3> QED
      BY <1>2, <1>5, <2>1, <3>1
  <2>2. CASE i # Len(kept) + 1
    <3>1. /\ i \in 1..Len(kept) /\ Len(new) - Len(next) + i = Len(said) - Len(kept) + i
          /\ Len(said) - Len(kept) + i \in 1..Len(said)
      BY <1>0, <1>1, <1>2, <1>3, <1>5, <2>2
    <3> QED
      BY <1>2, <1>3, <1>5, <3>1
  <2> QED
    BY <2>1, <2>2
<1>7. IsTail(next, new)
  BY <1>0, <1>1, <1>2, <1>3, <1>5, <1>6 DEF IsTail
<1> QED
  BY <1>4, <1>7 DEF next, new

UserFirst(said) ==
  \A i \in 1..Len(said) : said[i].key = "agent_turn" =>
    \E j \in 1..i - 1 : said[j] = [said[i] EXCEPT !.key = "user_turn"]

\* Where a message is between its user's turn and the answer.
Underway == {"skill", "prompting", "tool", "calling"}

TurnsOK ==
  /\ DOMAIN working = DOMAIN turns
  /\ \A c \in DOMAIN turns :
       turns[c] \in Seq(Entry) /\ IsTail(working[c], turns[c]) /\ UserFirst(turns[c])
  /\ \A m \in Messages : route[m].at \in Underway =>
       /\ inbox[m].conversation \in DOMAIN turns
       /\ \E j \in DOMAIN turns[inbox[m].conversation] :
            turns[inbox[m].conversation][j] = Turn("user_turn", m)

\* What was said in a conversation before, if anything was.
Said(c) == IF c \in DOMAIN turns THEN turns[c] ELSE <<>>

LEMMA SaidIs ==
  ASSUME TurnsOK, NEW c
  PROVE  Said(c) \in Seq(Entry) /\ IsTail(SessionOf(c), Said(c)) /\ UserFirst(Said(c))
<1>1. CASE c \in DOMAIN turns
  BY <1>1 DEF TurnsOK, Said, SessionOf
<1>2. CASE c \notin DOMAIN turns
  <2>1. Said(c) = <<>> /\ SessionOf(c) = <<>>
    BY <1>2 DEF TurnsOK, Said, SessionOf
  <2>2. IsTail(<<>>, <<>>) /\ UserFirst(<<>>)
    BY CapacityIs DEF IsTail, UserFirst
  <2> QED
    BY <2>1, <2>2
<1> QED
  BY <1>1, <1>2

\* A turn is added to the conversation and to the ring.
LEMMA SayIs ==
  ASSUME TurnsOK, Typed, NEW m \in Messages, NEW e \in Entry, Say(m, e),
         e.key = "agent_turn" => \E j \in DOMAIN Said(inbox[m].conversation) :
                                   Said(inbox[m].conversation)[j] = [e EXCEPT !.key = "user_turn"]
  PROVE  /\ DOMAIN working' = DOMAIN turns' /\ DOMAIN turns \subseteq DOMAIN turns'
         /\ inbox[m].conversation \in DOMAIN turns'
         /\ \A c \in DOMAIN turns' : turns'[c] \in Seq(Entry) /\ IsTail(working'[c], turns'[c])
                                     /\ UserFirst(turns'[c])
         /\ \A c \in DOMAIN turns : \A j \in DOMAIN turns[c] :
              j \in DOMAIN turns'[c] /\ turns'[c][j] = turns[c][j]
         /\ \E j \in DOMAIN turns'[inbox[m].conversation] : turns'[inbox[m].conversation][j] = e
<1> DEFINE c == inbox[m].conversation
           new == Append(Said(c), e)
<1>1. /\ DOMAIN working' = DOMAIN working \cup {c} /\ working'[c] = Pushed(SessionOf(c), e)
      /\ \A k \in DOMAIN working \ {c} : working'[k] = working[k]
  BY DEF Say, Appended
<1>2. /\ DOMAIN turns' = DOMAIN turns \cup {c}
      /\ \A k \in DOMAIN turns \ {c} : turns'[k] = turns[k]
      /\ turns'[c] = IF c \in DOMAIN turns THEN Append(turns[c], e) ELSE <<e>>
  BY DEF Say
<1>3. Said(c) \in Seq(Entry) /\ IsTail(SessionOf(c), Said(c)) /\ UserFirst(Said(c))
  BY SaidIs
<1>4. turns'[c] = new
  <2>1. CASE c \in DOMAIN turns
    BY <1>2, <2>1 DEF Said
  <2>2. CASE c \notin DOMAIN turns
    <3>1. Append(<<>>, e) = <<e>>
      OBVIOUS
    <3> QED
      BY <1>2, <2>2, <3>1 DEF Said
  <2> QED
    BY <2>1, <2>2
<1>5. new \in Seq(Entry) /\ IsTail(Pushed(SessionOf(c), e), new)
  BY <1>3, TailIsPushed
<1> HIDE DEF c
<1>6. /\ Len(Said(c)) \in Nat /\ Len(new) = Len(Said(c)) + 1 /\ new[Len(new)] = e
      /\ \A j \in 1..Len(Said(c)) : new[j] = Said(c)[j]
  BY <1>3
<1> HIDE DEF new
<1>7. UserFirst(new)
  <2> SUFFICES ASSUME NEW i \in 1..Len(new), new[i].key = "agent_turn"
               PROVE  \E j \in 1..i - 1 : new[j] = [new[i] EXCEPT !.key = "user_turn"]
    BY DEF UserFirst
  <2>1. CASE i \in 1..Len(Said(c))
    <3>1. new[i] = Said(c)[i]
      BY <1>6, <2>1
    <3>2. PICK j \in 1..i - 1 : Said(c)[j] = [Said(c)[i] EXCEPT !.key = "user_turn"]
      BY <1>3, <2>1, <3>1 DEF UserFirst
    <3>3. j \in 1..Len(Said(c))
      BY <1>6, <2>1, <3>2
    <3> QED
      BY <1>6, <3>1, <3>2, <3>3
  <2>2. CASE i \notin 1..Len(Said(c))
    <3>1. i = Len(new)
      BY <1>6, <2>2
    <3>2. PICK j \in DOMAIN Said(c) : Said(c)[j] = [e EXCEPT !.key = "user_turn"]
      BY <1>6, <3>1 DEF c
    <3>3. j \in 1..Len(Said(c)) /\ j \in 1..i - 1
      BY <1>3, <1>6, <3>1
    <3> QED
      BY <1>6, <3>1, <3>2, <3>3
  <2> QED
    BY <2>1, <2>2
<1>8. \A k \in DOMAIN turns' : turns'[k] \in Seq(Entry) /\ IsTail(working'[k], turns'[k])
                               /\ UserFirst(turns'[k])
  BY <1>1, <1>2, <1>4, <1>5, <1>7 DEF TurnsOK
<1>9. \A k \in DOMAIN turns : \A j \in DOMAIN turns[k] :
        j \in DOMAIN turns'[k] /\ turns'[k][j] = turns[k][j]
  <2> SUFFICES ASSUME NEW k \in DOMAIN turns, NEW j \in DOMAIN turns[k]
               PROVE  j \in DOMAIN turns'[k] /\ turns'[k][j] = turns[k][j]
    OBVIOUS
  <2>1. CASE k = c
    <3>1. Said(c) = turns[c]
      BY <2>1 DEF Said
    <3>2. j \in 1..Len(Said(c)) /\ DOMAIN new = 1..Len(new)
      BY <1>3, <1>5, <2>1, <3>1
    <3>3. j \in 1..Len(new)
      BY <1>6, <3>2
    <3> QED
      BY <1>4, <1>6, <2>1, <3>1, <3>2, <3>3
  <2>2. CASE k # c
    BY <1>2, <2>2
  <2> QED
    BY <2>1, <2>2
<1>10. \E j \in DOMAIN turns'[c] : turns'[c][j] = e
  <2>1. Len(new) \in 1..Len(new) /\ DOMAIN new = 1..Len(new)
    BY <1>5, <1>6
  <2> QED
    BY <1>4, <1>6, <2>1
<1> QED
  BY <1>1, <1>2, <1>8, <1>9, <1>10 DEF TurnsOK, c

\* A step that says nothing; a message may leave the steps before its answer.
LEMMA TurnsStay ==
  ASSUME TurnsOK, UNCHANGED <<working, turns, inbox>>,
         \A m \in Messages : route'[m].at \in Underway
                               => route[m].at \in Underway
  PROVE  TurnsOK'
<1>1. \A m \in Messages : Turn("user_turn", m)' = Turn("user_turn", m)
  BY DEF Turn
<1> QED
  BY <1>1, Zenon DEF TurnsOK

LEMMA InitTurns == Init => TurnsOK
<1> SUFFICES ASSUME Init PROVE TurnsOK
  OBVIOUS
<1>1. working = [s \in {} |-> <<>>] /\ turns = [m \in {} |-> <<>>]
      /\ route = [m \in Messages |-> Fresh]
  BY Zenon DEF Init, MemoryInit
<1>2. DOMAIN working = {} /\ DOMAIN turns = {}
  BY <1>1
<1>3. \A m \in Messages : route[m].at = "idle"
  BY <1>1 DEF Fresh
<1> QED
  BY <1>2, <1>3 DEF TurnsOK, Underway

LEMMA TurnIs ==
  ASSUME Typed, NEW m \in Messages
  PROVE  /\ Turn("user_turn", m) \in Entry /\ Turn("agent_turn", m) \in Entry
         /\ Turn("user_turn", m).key # "agent_turn"
         /\ [Turn("agent_turn", m) EXCEPT !.key = "user_turn"] = Turn("user_turn", m)
<1>1. inbox[m] \in [channel : STRING, conversation : Seq(STRING), user : STRING, words : SUBSET STRING]
  BY GatewayAssumption, Zenon DEF Typed
<1>2. inbox[m].user \in STRING
  BY <1>1
<1> QED
  BY <1>2 DEF Turn, Entry

\* Every step of route() adds the turn it should or none.
LEMMA RouteTurns ==
  ASSUME TurnsOK, Typed, NEW m \in Messages, RouteStep(m)
  PROVE  TurnsOK'
<1> DEFINE c == inbox[m].conversation
           Answering == /\ route[m].at \in Underway /\ UNCHANGED inbox
                        /\ Say(m, Turn("agent_turn", m))
                        /\ \E r : r.at = "answered" /\ route' = [route EXCEPT ![m] = r]
<1> DEFINE Silent == /\ UNCHANGED <<working, turns, inbox>>
                     /\ \E r : /\ route' = [route EXCEPT ![m] = r]
                               /\ r.at \in Underway
                                    => route[m].at \in Underway
<1>1. ASSUME Receive(m) PROVE TurnsOK'
  <2>1. Say(m, Turn("user_turn", m)) /\ UNCHANGED inbox
    BY <1>1, Zenon DEF Receive, Rest
  <2>2. \A n \in Messages \ {m} : route'[n] = route[n]
    BY <1>1, Zenon DEF Receive, Typed
  <2>3. PICK e \in Entry : e = Turn("user_turn", m) /\ e.key # "agent_turn"
    BY TurnIs
  <2>4. Say(m, e)
    BY <2>1, <2>3
  <2>5. /\ DOMAIN working' = DOMAIN turns' /\ DOMAIN turns \subseteq DOMAIN turns'
        /\ c \in DOMAIN turns'
        /\ \A k \in DOMAIN turns' : turns'[k] \in Seq(Entry) /\ IsTail(working'[k], turns'[k])
                                     /\ UserFirst(turns'[k])
        /\ \A k \in DOMAIN turns : \A j \in DOMAIN turns[k] :
             j \in DOMAIN turns'[k] /\ turns'[k][j] = turns[k][j]
        /\ \E j \in DOMAIN turns'[c] : turns'[c][j] = e
    BY <2>3, <2>4, SayIs
  <2>6. \A n \in Messages : Turn("user_turn", n)' = Turn("user_turn", n)
    BY <2>1 DEF Turn
  <2> QED
    BY <2>1, <2>2, <2>3, <2>5, <2>6 DEF TurnsOK
<1>2. ASSUME Answering PROVE TurnsOK'
  <2>1. Say(m, Turn("agent_turn", m)) /\ UNCHANGED inbox
    BY <1>2
  <2>2. route'[m].at \notin Underway /\ \A n \in Messages \ {m} : route'[n] = route[n]
    BY <1>2 DEF Typed, Underway
  <2>3. PICK e \in Entry : e = Turn("agent_turn", m) /\ [e EXCEPT !.key = "user_turn"] = Turn("user_turn", m)
    BY TurnIs
  <2>4. \E j \in DOMAIN Said(c) : Said(c)[j] = [e EXCEPT !.key = "user_turn"]
    BY <1>2, <2>3 DEF TurnsOK, Said
  <2>5. Say(m, e)
    BY <2>1, <2>3
  <2>6. /\ DOMAIN working' = DOMAIN turns' /\ DOMAIN turns \subseteq DOMAIN turns'
        /\ \A k \in DOMAIN turns' : turns'[k] \in Seq(Entry) /\ IsTail(working'[k], turns'[k])
                                     /\ UserFirst(turns'[k])
        /\ \A k \in DOMAIN turns : \A j \in DOMAIN turns[k] :
             j \in DOMAIN turns'[k] /\ turns'[k][j] = turns[k][j]
    BY <2>4, <2>5, SayIs
  <2>7. \A n \in Messages : Turn("user_turn", n)' = Turn("user_turn", n)
    BY <2>1 DEF Turn
  <2> QED
    BY <2>1, <2>2, <2>6, <2>7 DEF TurnsOK
<1>3. ASSUME Silent PROVE TurnsOK'
  <2>1. \A n \in Messages : route'[n].at \in Underway
                               => route[n].at \in Underway
    BY <1>3 DEF Typed
  <2> QED
    BY <1>3, <2>1, TurnsStay
<1>4. ASSUME PromptAnswers(m) PROVE Answering
  <2>1. PICK via, text : route' = [route EXCEPT ![m] = [at |-> "answered", via |-> via, text |-> text]]
    BY <1>4, Zenon DEF PromptAnswers
  <2>2. route[m].at = "prompting" /\ UNCHANGED inbox /\ Say(m, Turn("agent_turn", m))
    BY <1>4, Zenon DEF PromptAnswers, Rest
  <2> QED
    BY <2>1, <2>2 DEF Underway
<1>5. ASSUME ToolAnswers(m) PROVE Answering
  <2>1. PICK via : route' = [route EXCEPT ![m] = [at |-> "answered", via |-> via, text |-> <<>>]]
    BY <1>5, Zenon DEF ToolAnswers
  <2>2. route[m].at = "calling" /\ UNCHANGED inbox /\ Say(m, Turn("agent_turn", m))
    BY <1>5, Zenon DEF ToolAnswers, Rest
  <2> QED
    BY <2>1, <2>2 DEF Underway
<1>6. ASSUME PromptFails(m) PROVE Silent
  <2>1. route' = [route EXCEPT ![m] = [route[m] EXCEPT !.at = "tool"]]
        /\ UNCHANGED <<working, turns, inbox>> /\ route[m].at = "prompting"
    BY <1>6, Zenon DEF PromptFails, RestOfCall, Rest, AfterPromptError
  <2> QED
    BY <2>1 DEF Underway
<1>7. ASSUME ToolFails(m) PROVE Silent
  <2>1. route' = [route EXCEPT ![m] = [route[m] EXCEPT !.at = "failed"]]
        /\ UNCHANGED <<working, turns, inbox>> /\ route[m].at = "calling"
    BY <1>7, Zenon DEF ToolFails, RestOfCall, Rest
  <2> QED
    BY <2>1 DEF Underway
<1>8. ASSUME Reply(m) PROVE Silent
  <2>1. PICK at \in {"replied", "failed"} : route' = [route EXCEPT ![m] = [route[m] EXCEPT !.at = at]]
    BY <1>8, Zenon DEF Reply
  <2>2. UNCHANGED <<working, turns, inbox>>
    BY <1>8, Zenon DEF Reply, Rest
  <2>3. IsRoute(route[m])
    BY DEF Typed
  <2>4. [route[m] EXCEPT !.at = at].at = at
    BY <2>3, Changed
  <2> QED
    BY <2>1, <2>2, <2>4 DEF Underway
<1>9. ASSUME GetPrompt(m) \/ CallTool(m) PROVE Silent
  <2>1. PICK at : route' = [route EXCEPT ![m] = [route[m] EXCEPT !.at = at]]
    BY <1>9, Zenon DEF GetPrompt, CallTool
  <2>2. UNCHANGED <<working, turns, inbox>> /\ route[m].at \in {"skill", "tool"}
    BY <1>9, Zenon DEF GetPrompt, CallTool, RestOfCall, Rest
  <2> QED
    BY <2>1, <2>2 DEF Underway
<1> QED
  BY <1>1, <1>2, <1>3, <1>4, <1>5, <1>6, <1>7, <1>8, <1>9 DEF RouteStep

LEMMA StepTurns == RepliesOK /\ TurnsOK /\ [Next]_vars => TurnsOK'
<1> SUFFICES ASSUME RepliesOK, TurnsOK, [Next]_vars PROVE TurnsOK'
  OBVIOUS
<1>1. ASSUME NEW m \in Messages, RouteStep(m) PROVE TurnsOK'
  BY <1>1, RouteTurns DEF RepliesOK
<1>2. ASSUME MainStep \/ ServerDies \/ ReaderEnds \/ Remember \/ UNCHANGED vars PROVE UNCHANGED <<working, turns, inbox, route>>
  <2>1. ASSUME Connect \/ Initialize \/ SkipJob \/ InvokeJob \/ JobsDone \/ MessageDone \/ ServerEnded
        PROVE  UNCHANGED <<working, turns, inbox, route>>
    BY <2>1, Zenon DEF Connect, Initialize, SkipJob, InvokeJob, JobsDone, MessageDone, ServerEnded, memory
  <2>2. ASSUME NEW call, ReportJob(call) PROVE UNCHANGED <<working, turns, inbox, route>>
    BY <2>2, Zenon DEF ReportJob, memory
  <2>3. ASSUME ServerDies \/ ReaderEnds PROVE UNCHANGED <<working, turns, inbox, route>>
    BY <2>3, Zenon DEF ServerDies, ReaderEnds, memory
  <2>4. ASSUME Remember PROVE UNCHANGED <<working, turns, inbox, route>>
    BY <2>4, Zenon DEF Remember, gateway, EpisodicStep, PushEntry, IndexEntry, ReadIndex, ReadEntries
  <2>5. ASSUME UNCHANGED vars PROVE UNCHANGED <<working, turns, inbox, route>>
    BY <2>5, Zenon DEF vars, gateway, memory
  <2> QED
    BY <1>2, <2>1, <2>2, <2>3, <2>4, <2>5 DEF MainStep
<1>3. ASSUME UNCHANGED <<working, turns, inbox, route>> PROVE TurnsOK'
  BY <1>3, TurnsStay
<1> QED
  BY <1>1, <1>2, <1>3 DEF Next

\* The ring of a conversation holds its newest turns in their order, and no
\* agent's turn comes before its user's (WorkingMemory::append, route), for
\* any ring and any number of messages in a conversation.
THEOREM MemoryIsTheLatestTurnsHolds == Spec => []MemoryIsTheLatestTurns
<1>1. ASSUME TurnsOK PROVE MemoryIsTheLatestTurns
  <2> SUFFICES ASSUME NEW c \in DOMAIN turns
               PROVE  LET said == turns[c]
                      IN  /\ working[c] = SubSeq(said, Len(said) - Len(working[c]) + 1, Len(said))
                          /\ Len(working[c]) = (IF Len(said) < Capacity THEN Len(said) ELSE Capacity)
                          /\ \A i \in DOMAIN said : said[i].key = "agent_turn" =>
                               \E j \in 1..i - 1 : said[j] = [said[i] EXCEPT !.key = "user_turn"]
    BY DEF MemoryIsTheLatestTurns
  <2>1. PICK said \in Seq(Entry) : said = turns[c]
    BY <1>1 DEF TurnsOK
  <2>2. PICK ring \in Seq(Entry) : ring = working[c]
    BY <1>1 DEF TurnsOK, IsTail
  <2>3. IsTail(ring, said) /\ UserFirst(said)
    BY <1>1, <2>1, <2>2 DEF TurnsOK
  <2>4. PICK cap \in Nat \ {0} : cap = Capacity
    BY CapacityIs
  <2>5. Len(ring) = (IF Len(said) < cap THEN Len(said) ELSE cap) /\ Len(said) \in Nat /\ Len(ring) \in Nat
    BY <2>3, <2>4 DEF IsTail
  <2>6. Len(ring) <= Len(said)
    BY <2>5
  <2>7. ring = SubSeq(said, Len(said) - Len(ring) + 1, Len(said))
    <3> DEFINE tail == SubSeq(said, Len(said) - Len(ring) + 1, Len(said))
    <3>1. /\ tail \in Seq(Entry) /\ Len(tail) = Len(ring)
          /\ \A i \in 1..Len(ring) : tail[i] = said[Len(said) - Len(ring) + i]
      <4>1. PICK n \in Nat, k \in Nat : n = Len(said) /\ k = Len(ring) /\ k <= n
        BY <2>5, <2>6
      <4>2. \A i \in 1..k : n - k + i \in 1..n
        BY <4>1
      <4>3. SubSeq(said, n - k + 1, n) \in Seq(Entry)
        BY <4>1
      <4>4. Len(SubSeq(said, n - k + 1, n)) = k
        BY <4>1
      <4>5. ASSUME NEW i \in 1..k PROVE SubSeq(said, n - k + 1, n)[i] = said[n - k + i]
        <5>0. n - k + 1 \in Nat
          BY <4>1
        <5>1. PICK a \in Nat : a = n - k + 1
          BY <5>0
        <5>2. a + i - 1 = n - k + i /\ i \in 1..(n - a + 1)
          BY <4>1, <5>1
        <5>3. SubSeq(said, a, n)[i] = said[a + i - 1]
          BY <4>1, <5>1, <5>2
        <5> QED
          BY <5>1, <5>2, <5>3
      <4> QED
        BY <4>1, <4>3, <4>4, <4>5
    <3>2. \A i \in 1..Len(ring) : ring[i] = tail[i]
      BY <2>3, <3>1 DEF IsTail
    <3> HIDE DEF tail
    <3>3. ring = tail
      BY <2>5, <3>1, <3>2
    <3> QED
      BY <3>3 DEF tail
  <2>8. DOMAIN said = 1..Len(said)
    BY <2>5
  <2> QED
    BY <2>1, <2>2, <2>3, <2>4, <2>5, <2>7, <2>8, Zenon DEF UserFirst
<1> QED
  BY <1>1, InitReplies, StepReplies, InitTurns, StepTurns, PTL DEF Spec

-----------------------------------------------------------------------------
(* Episodic memory.                                                        *)

LEMMA LeastExists ==
  ASSUME NEW S, S \subseteq Nat, S # {}
  PROVE  \E i \in S : \A j \in S : i <= j
<1>1. PICK i \in S : \A j \in S : <<j, i>> \notin OpToRel(<, Nat)
  BY NatLessThanWellFounded, WFMin
<1>2. \A j \in S : ~(j < i)
  BY <1>1 DEF OpToRel
<1> QED
  BY <1>2

Readable(i, tenant) == i \in DOMAIN entries /\ MayRead(tenant, entries[i])

\* What the loop of by_tag() makes of one more index.
TakeOne(i, tenant, found) ==
  IF Readable(i, tenant) /\ Len(found) < Limit THEN <<entries[i]>> \o found ELSE found

\* by_tag() takes the indices one by one, the newest first.
LEMMA TakenIs ==
  ASSUME NEW indices \in Seq(Nat), NEW tenant
  PROVE  /\ Len(indices) \in Nat
         /\ Taken(indices, tenant)[0] = <<>>
         /\ \A n \in 1..Len(indices) :
              Taken(indices, tenant)[n] =
                TakeOne(indices[Len(indices) - n + 1], tenant, Taken(indices, tenant)[n - 1])
<1> DEFINE one(n, found) == TakeOne(indices[Len(indices) - n + 1], tenant, found)
           Takes(g, m) == g = [n \in 0..m |-> IF n = 0 THEN <<>> ELSE one(n, g[n - 1])]
           S == {m \in Nat : ~\E g : Takes(g, m)}
<1>1. Len(indices) \in Nat
  OBVIOUS
<1>2. S = {}
  <2> SUFFICES ASSUME S # {} PROVE FALSE
    OBVIOUS
  <2>1. PICK m \in S : \A k \in S : m <= k
    BY LeastExists
  <2>2. m # 0
    <3>1. Takes([n \in 0..0 |-> <<>>], 0)
      OBVIOUS
    <3> QED
      BY <2>1, <3>1
  <2>3. m \in Nat /\ m - 1 \in Nat
    BY <2>1, <2>2
  <2>4. m - 1 \notin S
    <3>1. ~(m <= m - 1)
      BY <2>3
    <3> QED
      BY <2>1, <3>1
  <2>5. PICK g : Takes(g, m - 1)
    BY <2>3, <2>4
  <2> DEFINE h == [n \in 0..m |-> IF n < m THEN g[n] ELSE one(m, g[m - 1])]
  <2> HIDE DEF one
  <2>6. ASSUME NEW n \in 0..m
        PROVE  h[n] = IF n = 0 THEN <<>> ELSE one(n, h[n - 1])
    <3>1. CASE n = m
      <4>1. m - 1 \in 0..m /\ m - 1 < m /\ ~(n < m) /\ n # 0
        BY <2>3, <2>2, <3>1
      <4> QED
        BY <3>1, <4>1
    <3>2. CASE n # m /\ n # 0
      <4>1. n \in 0..(m - 1) /\ n < m /\ n - 1 \in 0..m /\ n - 1 < m
        BY <2>3, <3>2
      <4>2. g[n] = one(n, g[n - 1])
        BY <2>5, <3>2, <4>1
      <4> QED
        BY <3>2, <4>1, <4>2
    <3>3. CASE n = 0
      <4>1. n \in 0..(m - 1) /\ n < m
        BY <2>3, <2>2, <3>3
      <4> QED
        BY <2>5, <3>3, <4>1
    <3> QED
      BY <3>1, <3>2, <3>3, <2>2
  <2>7. Takes(h, m)
    <3>1. h = [n \in 0..m |-> h[n]]
      OBVIOUS
    <3> HIDE DEF h
    <3> QED
      BY <2>6, <3>1
  <2> HIDE DEF h
  <2> QED
    BY <2>1, <2>7
<1>3. Takes(Taken(indices, tenant), Len(indices))
  <2>1. \E g : Takes(g, Len(indices))
    BY <1>1, <1>2
  <2>2. ASSUME NEW g
        PROVE  Takes(g, Len(indices)) <=>
                 g = [n \in 0..Len(indices) |->
                        IF n = 0 THEN <<>>
                        ELSE LET i == indices[Len(indices) - n + 1]
                             IN  IF i \in DOMAIN entries /\ MayRead(tenant, entries[i]) /\ Len(g[n - 1]) < Limit
                                 THEN <<entries[i]>> \o g[n - 1] ELSE g[n - 1]]
    BY Zenon DEF TakeOne, Readable
  <2>3. Taken(indices, tenant) = CHOOSE g : Takes(g, Len(indices))
    BY <2>2, Zenon DEF Taken
  <2> HIDE DEF Takes
  <2> QED
    BY <2>1, <2>3
<1> HIDE DEF one
<1>4. /\ 0 \in 0..Len(indices)
      /\ \A n \in 1..Len(indices) : n \in 0..Len(indices) /\ n # 0
  BY <1>1
<1>5. Taken(indices, tenant)[0] = <<>>
  BY <1>3, <1>4
<1>6. \A n \in 1..Len(indices) : Taken(indices, tenant)[n] = one(n, Taken(indices, tenant)[n - 1])
  BY <1>3, <1>4
<1> QED
  BY <1>1, <1>5, <1>6 DEF one

Tenants == {e.tenant : e \in Episodes}
Episode == [by : Recorders, tenant : Tenants]

Distinct(s) == \A i, j \in 1..Len(s) : i # j => s[i] # s[j]

\* What the n newest indices give.
TakenOK(indices, tenant, n, found) ==
  /\ found \in Seq(Episode) /\ Len(found) <= Limit /\ Distinct(found)
  /\ \A i \in 1..Len(found) : \E k \in (Len(indices) - n + 1)..Len(indices) :
       Readable(indices[k], tenant) /\ found[i] = entries[indices[k]]
  /\ Len(found) < Limit =>
       \A k \in (Len(indices) - n + 1)..Len(indices) : Readable(indices[k], tenant) =>
         \E i \in 1..Len(found) : found[i] = entries[indices[k]]

\* One more index adds its entry or none, and the rest stays as it was.
LEMMA TakeOneOK ==
  ASSUME entries \in Seq(Episode), Distinct(entries), NEW indices \in Seq(Nat), Distinct(indices),
         NEW tenant, NEW n \in 1..Len(indices), NEW found, TakenOK(indices, tenant, n - 1, found)
  PROVE  TakenOK(indices, tenant, n, TakeOne(indices[Len(indices) - n + 1], tenant, found))
<1> DEFINE N == Len(indices)
           k0 == N - n + 1
           e == entries[indices[k0]]
<1>0. N \in Nat /\ n \in 1..N
  OBVIOUS
<1> HIDE DEF N
<1>1. /\ N \in Nat /\ k0 \in 1..N /\ k0 = N - n + 1 /\ N - (n - 1) + 1 = k0 + 1
      /\ \A k \in k0..N : k \in 1..N /\ (k = k0 \/ k \in (k0 + 1)..N)
      /\ \A k \in (k0 + 1)..N : k \in k0..N /\ k # k0
  BY <1>0
<1>2. /\ found \in Seq(Episode) /\ Len(found) \in Nat /\ Len(found) <= Limit /\ Distinct(found)
      /\ \A i \in 1..Len(found) : \E k \in (k0 + 1)..N :
           Readable(indices[k], tenant) /\ found[i] = entries[indices[k]]
      /\ Len(found) < Limit =>
           \A k \in (k0 + 1)..N : Readable(indices[k], tenant) =>
             \E i \in 1..Len(found) : found[i] = entries[indices[k]]
  BY <1>1 DEF TakenOK, N
<1> HIDE DEF k0
<1>9. PICK next : next = TakeOne(indices[k0], tenant, found)
  OBVIOUS
<1> DEFINE Good == /\ next \in Seq(Episode) /\ Len(next) <= Limit /\ Distinct(next)
                   /\ \A i \in 1..Len(next) : \E k \in k0..N :
                        Readable(indices[k], tenant) /\ next[i] = entries[indices[k]]
                   /\ Len(next) < Limit =>
                        \A k \in k0..N : Readable(indices[k], tenant) =>
                          \E i \in 1..Len(next) : next[i] = entries[indices[k]]
<1> SUFFICES Good
  BY <1>9, Zenon DEF TakenOK, k0, N
<1>3. CASE Readable(indices[k0], tenant) /\ Len(found) < Limit
  <2>1. next = <<e>> \o found
    BY <1>3, <1>9, Zenon DEF TakeOne
  <2>2. indices[k0] \in DOMAIN entries /\ e \in Episode
    BY <1>3 DEF Readable
  <2> HIDE DEF e
  <2>3. /\ next \in Seq(Episode) /\ Len(next) = Len(found) + 1 /\ next[1] = e
        /\ \A i \in 1..Len(found) : next[i + 1] = found[i]
    BY <1>2, <2>1, <2>2
  <2>4. \A i \in 1..Len(next) : i = 1 \/ (i - 1 \in 1..Len(found) /\ next[i] = found[i - 1])
    <3>1. Len(next) = Len(found) + 1 /\ Len(found) \in Nat
      BY <1>2, <2>3
    <3> SUFFICES ASSUME NEW i \in 1..Len(next), i # 1
                 PROVE  i - 1 \in 1..Len(found) /\ next[i] = found[i - 1]
      OBVIOUS
    <3>2. i - 1 \in 1..Len(found) /\ (i - 1) + 1 = i
      BY <3>1
    <3> QED
      BY <2>3, <3>2
  <2>5. \A i \in 1..Len(found) : found[i] # e
    <3> SUFFICES ASSUME NEW i \in 1..Len(found), found[i] = e PROVE FALSE
      OBVIOUS
    <3>1. PICK k \in (k0 + 1)..N : Readable(indices[k], tenant) /\ found[i] = entries[indices[k]]
      BY <1>2
    <3>2. indices[k] # indices[k0]
      BY <1>1 DEF Distinct, N
    <3>3. indices[k] \in DOMAIN entries /\ DOMAIN entries = 1..Len(entries)
      BY <3>1 DEF Readable
    <3> QED
      BY <2>2, <3>1, <3>2, <3>3 DEF Distinct, e
  <2>6. Distinct(next)
    <3> SUFFICES ASSUME NEW i \in 1..Len(next), NEW j \in 1..Len(next), i # j
                 PROVE  next[i] # next[j]
      BY DEF Distinct
    <3>1. CASE i = 1
      BY <2>3, <2>4, <2>5, <3>1
    <3>2. CASE j = 1
      BY <2>3, <2>4, <2>5, <3>2
    <3>3. CASE i # 1 /\ j # 1
      <4>1. /\ i - 1 \in 1..Len(found) /\ next[i] = found[i - 1]
            /\ j - 1 \in 1..Len(found) /\ next[j] = found[j - 1]
        BY <2>4, <3>3
      <4>2. i - 1 # j - 1
        BY <2>3
      <4>3. \A a, b \in 1..Len(found) : a # b => found[a] # found[b]
        BY <1>2, Zenon DEF Distinct
      <4> QED
        BY <4>1, <4>2, <4>3
    <3> QED
      BY <3>1, <3>2, <3>3
  <2>7. ASSUME NEW i \in 1..Len(next)
        PROVE  \E k \in k0..N : Readable(indices[k], tenant) /\ next[i] = entries[indices[k]]
    <3>1. CASE i = 1
      <4>1. k0 \in k0..N
        BY <1>1
      <4> QED
        BY <1>3, <2>3, <3>1, <4>1 DEF e
    <3>2. CASE i # 1
      <4>1. i - 1 \in 1..Len(found) /\ next[i] = found[i - 1]
        BY <2>4, <3>2
      <4>2. PICK k \in (k0 + 1)..N : Readable(indices[k], tenant) /\ found[i - 1] = entries[indices[k]]
        BY <1>2, <4>1
      <4> QED
        BY <1>1, <4>1, <4>2
    <3> QED
      BY <3>1, <3>2
  <2>8. ASSUME NEW k \in k0..N, Readable(indices[k], tenant)
        PROVE  \E i \in 1..Len(next) : next[i] = entries[indices[k]]
    <3>1. CASE k = k0
      <4>1. 1 \in 1..Len(next)
        BY <1>2, <2>3
      <4> QED
        BY <2>3, <3>1, <4>1 DEF e
    <3>2. CASE k # k0
      <4>1. PICK i \in 1..Len(found) : found[i] = entries[indices[k]]
        BY <1>1, <1>2, <1>3, <2>8, <3>2
      <4>2. i + 1 \in 1..Len(next)
        BY <1>2, <2>3
      <4> QED
        BY <2>3, <4>1, <4>2
    <3> QED
      BY <3>1, <3>2
  <2>9. Len(next) <= Limit
    BY <1>2, <1>3, <2>3, MemoryAssumption
  <2> QED
    BY <2>3, <2>6, <2>7, <2>8, <2>9
<1>4. CASE ~(Readable(indices[k0], tenant) /\ Len(found) < Limit)
  <2>1. next = found
    BY <1>4, <1>9, Zenon DEF TakeOne
  <2>2. \A i \in 1..Len(found) : \E k \in k0..N :
          Readable(indices[k], tenant) /\ found[i] = entries[indices[k]]
    BY <1>1, <1>2
  <2>3. ASSUME Len(found) < Limit, NEW k \in k0..N, Readable(indices[k], tenant)
        PROVE  \E i \in 1..Len(found) : found[i] = entries[indices[k]]
    <3>1. k \in (k0 + 1)..N
      BY <1>1, <1>4, <2>3
    <3> QED
      BY <1>2, <2>3, <3>1
  <2> QED
    BY <1>2, <2>1, <2>2, <2>3
<1> QED
  BY <1>3, <1>4

\* Hence all of them, by the least number of indices that would break it.
LEMMA SelectedIs ==
  ASSUME entries \in Seq(Episode), Distinct(entries), NEW indices \in Seq(Nat), Distinct(indices),
         NEW tenant
  PROVE  TakenOK(indices, tenant, Len(indices), Taken(indices, tenant)[Len(indices)])
<1> DEFINE T == Taken(indices, tenant)
           S == {n \in 0..Len(indices) : ~TakenOK(indices, tenant, n, T[n])}
<1>1. Len(indices) \in Nat /\ T[0] = <<>>
  BY TakenIs
<1>2. \A n \in 1..Len(indices) : T[n] = TakeOne(indices[Len(indices) - n + 1], tenant, T[n - 1])
  BY TakenIs
<1> HIDE DEF T
<1>3. TakenOK(indices, tenant, 0, T[0])
  <2>1. (Len(indices) - 0 + 1)..Len(indices) = {} /\ 1..Len(T[0]) = {} /\ Len(T[0]) = 0
    BY <1>1
  <2> QED
    BY <1>1, <2>1, MemoryAssumption DEF TakenOK, Distinct
<1>4. S = {}
  <2> SUFFICES ASSUME S # {} PROVE FALSE
    OBVIOUS
  <2>1. PICK n \in S : \A k \in S : n <= k
    <3>1. S \subseteq Nat
      BY <1>1
    <3> HIDE DEF S
    <3> QED
      BY <3>1, LeastExists
  <2>2. n \in 1..Len(indices) /\ n - 1 \in 0..Len(indices) /\ ~(n <= n - 1)
    BY <1>1, <1>3, <2>1
  <2>3. TakenOK(indices, tenant, n - 1, T[n - 1])
    BY <2>1, <2>2
  <2>4. TakenOK(indices, tenant, n, T[n])
    BY <1>2, <2>2, <2>3, TakeOneOK
  <2> QED
    BY <2>1, <2>4
<1>5. Len(indices) \in 0..Len(indices)
  BY <1>1
<1> QED
  BY <1>4, <1>5 DEF T

IsRecorder(q) == \E step, index, episode : q = [step |-> step, index |-> index, episode |-> episode]

\* The recorders, and the entries they pushed.
RecordersOK ==
  /\ recorder = [r \in Recorders |-> recorder[r]]
  /\ entries \in Seq(Episode)
  /\ \A r \in Recorders : IsRecorder(recorder[r])
  /\ \A r \in Recorders : recorder[r].step = "idle" => recorder[r].episode \in Episodes
  /\ \A r \in Recorders : recorder[r].step \in {"pushed", "done"} =>
       /\ recorder[r].index \in 1..Len(entries)
       /\ entries[recorder[r].index] = [by |-> r, tenant |-> recorder[r].episode.tenant]
  /\ \A i \in 1..Len(entries) : /\ recorder[entries[i].by].step \in {"pushed", "done"}
                                /\ recorder[entries[i].by].index = i

Indexed(r, tag) == recorder[r].step = "done" /\ tag \in recorder[r].episode.tags

\* Indices of a tag: those of recorders that are done with it, each once.
IndicesOK(tag, indices) ==
  /\ indices \in Seq(Nat) /\ Distinct(indices)
  /\ \A i \in 1..Len(indices) : \E r \in Recorders : Indexed(r, tag) /\ indices[i] = recorder[r].index

Holds(indices, r) == \E i \in 1..Len(indices) : indices[i] = recorder[r].index

IndexOK ==
  /\ DOMAIN byTag = Tags
  /\ \A tag \in Tags : /\ IndicesOK(tag, byTag[tag])
                       /\ \A r \in Recorders : Indexed(r, tag) => Holds(byTag[tag], r)

IsLookup(q) ==
  \E step, tag, tenant, indices, recorded, found :
    q = [step |-> step, tag |-> tag, tenant |-> tenant, indices |-> indices,
         recorded |-> recorded, found |-> found]

LookupOK ==
  /\ IsLookup(lookup)
  /\ lookup.recorded \subseteq Recorders
  /\ lookup.step = "reading" =>
       /\ IndicesOK(lookup.tag, lookup.indices)
       /\ \A r \in lookup.recorded : /\ recorder[r].step = "done"
                                     /\ Indexed(r, lookup.tag) => Holds(lookup.indices, r)
  /\ lookup.step = "done" => lookup.found \in Seq(Episode) /\ EpisodesAreFound

EpisodesOK == RecordersOK /\ IndexOK /\ LookupOK

LEMMA EntriesAreDistinct == ASSUME RecordersOK PROVE Distinct(entries)
  BY DEF RecordersOK, Distinct

Changes(next, r, step, n) ==
  /\ next = [q \in Recorders |-> next[q]]
  /\ \A q \in Recorders \ {r} : next[q] = recorder[q]
  /\ IsRecorder(next[r]) /\ next[r].step = step /\ next[r].index = n
  /\ next[r].episode = recorder[r].episode

\* The step of one recorder changes, or its step and its index.
LEMMA RecorderIs ==
  ASSUME RecordersOK, NEW r \in Recorders, NEW step, NEW f, f = [recorder EXCEPT ![r].step = step]
  PROVE  /\ Changes(f, r, step, recorder[r].index)
         /\ \A n : Changes([f EXCEPT ![r].index = n], r, step, n)
<1> PICK s, x, e : recorder[r] = [step |-> s, index |-> x, episode |-> e]
  BY DEF RecordersOK, IsRecorder
<1>3. recorder = [q \in Recorders |-> recorder[q]]
  BY DEF RecordersOK
<1>4. /\ f = [q \in Recorders |-> f[q]] /\ \A q \in Recorders \ {r} : f[q] = recorder[q]
      /\ f[r] = [recorder[r] EXCEPT !.step = step]
  BY <1>3
<1>5. f[r] = [step |-> step, index |-> x, episode |-> e]
  BY <1>4
<1>6. IsRecorder(f[r])
  BY <1>5, Zenon DEF IsRecorder
<1>7. Changes(f, r, step, recorder[r].index)
  BY <1>4, <1>5, <1>6 DEF Changes
<1>8. ASSUME NEW n PROVE Changes([f EXCEPT ![r].index = n], r, step, n)
  <2>1. PICK g : g = [f EXCEPT ![r].index = n]
    OBVIOUS
  <2>2. /\ g = [q \in Recorders |-> g[q]] /\ \A q \in Recorders \ {r} : g[q] = recorder[q]
        /\ g[r] = [f[r] EXCEPT !.index = n]
    BY <1>4, <2>1
  <2>3. g[r] = [step |-> step, index |-> n, episode |-> e]
    BY <1>5, <2>2
  <2>4. IsRecorder(g[r])
    BY <2>3, Zenon DEF IsRecorder
  <2>5. Changes(g, r, step, n)
    BY <2>2, <2>3, <2>4 DEF Changes
  <2> QED
    BY <2>1, <2>5
<1> QED
  BY <1>7, <1>8

LEMMA AuthorIs ==
  ASSUME NEW s \in Seq(Episode), NEW i \in 1..Len(s)
  PROVE  s[i].by \in Recorders
<1>1. s[i] \in Episode
  OBVIOUS
<1> QED
  BY <1>1 DEF Episode

\* Lookups only depend on what recorders keep.
LEMMA LookupStays ==
  ASSUME LookupOK, UNCHANGED lookup,
         \A r \in Recorders : recorder'[r].episode = recorder[r].episode
                              /\ (recorder[r].step = "done" => recorder'[r] = recorder[r])
  PROVE  LookupOK'
<1>1. lookup.recorded \subseteq Recorders /\ IsLookup(lookup)
  BY DEF LookupOK
<1>2. CASE lookup.step = "reading"
  <2>1. IndicesOK(lookup.tag, lookup.indices)'
    BY <1>2 DEF LookupOK, IndicesOK, Indexed
  <2>2. ASSUME NEW r \in lookup.recorded
        PROVE  recorder'[r].step = "done" /\ (Indexed(r, lookup.tag) => Holds(lookup.indices, r))'
    BY <1>1, <1>2 DEF LookupOK, Indexed, Holds
  <2> QED
    BY <1>1, <1>2, <2>1, <2>2 DEF LookupOK
<1>3. CASE lookup.step = "done"
  <2>1. lookup.found \in Seq(Episode) /\ EpisodesAreFound
    BY <1>3 DEF LookupOK
  <2>2. \A e \in Range(lookup.found) : e.by \in Recorders
    BY <2>1, AuthorIs DEF Range
  <2>3. EpisodesAreFound'
    BY <1>1, <1>3, <2>1, <2>2 DEF EpisodesAreFound, MayRead
  <2> QED
    BY <1>1, <1>3, <2>1, <2>3 DEF LookupOK
<1>4. CASE lookup.step \notin {"reading", "done"}
  BY <1>1, <1>4 DEF LookupOK
<1> QED
  BY <1>2, <1>3, <1>4

\* record() under the lock of the list: the entry is known to its recorder only.
LEMMA PushKeeps ==
  ASSUME EpisodesOK, NEW r \in Recorders, PushEntry(r)
  PROVE  EpisodesOK'
<1> DEFINE n == Len(entries) + 1
           e == [by |-> r, tenant |-> recorder[r].episode.tenant]
<1>1. /\ recorder[r].step = "idle" /\ entries' = Append(entries, e)
      /\ recorder' = [recorder EXCEPT ![r].step = "pushed", ![r].index = n]
      /\ UNCHANGED <<byTag, lookup>>
  BY DEF PushEntry
<1>2. /\ recorder' = [q \in Recorders |-> recorder'[q]]
      /\ \A q \in Recorders \ {r} : recorder'[q] = recorder[q]
      /\ IsRecorder(recorder'[r]) /\ recorder'[r].step = "pushed" /\ recorder'[r].index = n
      /\ recorder'[r].episode = recorder[r].episode
  <2>1. PICK f : f = [recorder EXCEPT ![r].step = "pushed"]
    OBVIOUS
  <2>2. recorder' = [f EXCEPT ![r].index = n]
    BY <1>1, <2>1, Zenon
  <2>3. PICK k : k = n
    OBVIOUS
  <2>4. Changes([f EXCEPT ![r].index = k], r, "pushed", k)
    BY <2>1, RecorderIs, Zenon DEF EpisodesOK
  <2> QED
    BY <2>2, <2>3, <2>4, Zenon DEF Changes
<1>3. e \in Episode /\ e.by = r
  BY <1>1 DEF EpisodesOK, RecordersOK, Episode, Tenants
<1> HIDE DEF e
<1>4. /\ entries \in Seq(Episode) /\ Len(entries) \in Nat /\ entries' \in Seq(Episode)
      /\ Len(entries') = n /\ entries'[n] = e
      /\ \A i \in 1..Len(entries) : entries'[i] = entries[i]
      /\ \A i \in 1..n : i \in 1..Len(entries) \/ i = n
      /\ \A i \in 1..Len(entries) : i \in 1..n
      /\ n \in 1..n
  BY <1>1, <1>3 DEF EpisodesOK, RecordersOK
<1> HIDE DEF n
<1>5. \A i \in 1..Len(entries) : entries[i].by \in Recorders \ {r}
  BY <1>1, <1>4, AuthorIs DEF EpisodesOK, RecordersOK
<1>6. RecordersOK'
  <2>1. \A i \in 1..Len(entries') : recorder'[entries'[i].by].step \in {"pushed", "done"}
                                    /\ recorder'[entries'[i].by].index = i
    BY <1>2, <1>3, <1>4, <1>5 DEF EpisodesOK, RecordersOK
  <2>2. \A q \in Recorders : recorder'[q].step \in {"pushed", "done"} =>
          /\ recorder'[q].index \in 1..Len(entries')
          /\ entries'[recorder'[q].index] = [by |-> q, tenant |-> recorder'[q].episode.tenant]
    BY <1>2, <1>4 DEF EpisodesOK, RecordersOK, e
  <2>3. \A q \in Recorders : IsRecorder(recorder'[q])
                             /\ (recorder'[q].step = "idle" => recorder'[q].episode \in Episodes)
    BY <1>2 DEF EpisodesOK, RecordersOK
  <2> QED
    BY <1>2, <1>4, <2>1, <2>2, <2>3 DEF RecordersOK
<1>7. \A q \in Recorders : /\ recorder'[q].episode = recorder[q].episode
                           /\ recorder[q].step = "done" => recorder'[q] = recorder[q]
                           /\ recorder'[q].step = "done" => recorder'[q] = recorder[q]
  BY <1>1, <1>2
<1>8. IndexOK'
  <2>1. ASSUME NEW q \in Recorders, NEW t PROVE Indexed(q, t)' <=> Indexed(q, t)
    BY <1>7 DEF Indexed
  <2>2. ASSUME NEW q \in Recorders, NEW t, Indexed(q, t) PROVE recorder'[q].index = recorder[q].index
    BY <1>7, <2>2 DEF Indexed
  <2> QED
    <3>1. ASSUME NEW t \in Tags
          PROVE  IndicesOK(t, byTag[t])' /\ \A q \in Recorders : (Indexed(q, t) => Holds(byTag[t], q))'
      <4>1. /\ byTag[t] \in Seq(Nat) /\ Distinct(byTag[t])
            /\ \A i \in 1..Len(byTag[t]) : \E q \in Recorders : Indexed(q, t) /\ byTag[t][i] = recorder[q].index
            /\ \A q \in Recorders : Indexed(q, t) => \E i \in 1..Len(byTag[t]) : byTag[t][i] = recorder[q].index
        BY DEF EpisodesOK, IndexOK, IndicesOK, Holds
      <4>2. byTag'[t] = byTag[t]
        BY <1>1
      <4> QED
        BY <2>1, <2>2, <4>1, <4>2 DEF IndicesOK, Holds
    <3> QED
      BY <1>1, <3>1 DEF EpisodesOK, IndexOK
<1>9. LookupOK'
  BY <1>1, <1>7, LookupStays DEF EpisodesOK
<1> QED
  BY <1>6, <1>8, <1>9 DEF EpisodesOK

\* record() under the lock of the index: the index is the recorder's own.
LEMMA AppendIs ==
  ASSUME NEW S, NEW s \in Seq(S), NEW e \in S
  PROVE  LET new == Append(s, e)
         IN  /\ new \in Seq(S) /\ Len(new) = Len(s) + 1 /\ new[Len(s) + 1] = e
             /\ \A i \in 1..Len(s) : new[i] = s[i] /\ i \in 1..Len(new)
             /\ \A i \in 1..Len(new) : i \in 1..Len(s) \/ i = Len(s) + 1
             /\ Len(s) + 1 \in 1..Len(new)
  OBVIOUS

LEMMA IndexKeeps ==
  ASSUME EpisodesOK, NEW r \in Recorders, IndexEntry(r)
  PROVE  EpisodesOK'
<1> DEFINE x == recorder[r].index
           tags == recorder[r].episode.tags
<1>1. /\ recorder[r].step = "pushed"
      /\ byTag' = [t \in Tags |-> IF t \in tags THEN Append(byTag[t], x) ELSE byTag[t]]
      /\ recorder' = [recorder EXCEPT ![r].step = "done"]
      /\ UNCHANGED <<entries, lookup>>
  BY DEF IndexEntry, IndexOf
<1>2. /\ recorder' = [q \in Recorders |-> recorder'[q]]
      /\ \A q \in Recorders \ {r} : recorder'[q] = recorder[q]
      /\ IsRecorder(recorder'[r]) /\ recorder'[r].step = "done" /\ recorder'[r].index = x
      /\ recorder'[r].episode = recorder[r].episode
  <2>1. PICK f : f = recorder'
    OBVIOUS
  <2>2. f = [recorder EXCEPT ![r].step = "done"]
    BY <1>1, <2>1
  <2>3. Changes(f, r, "done", x)
    BY <2>2, RecorderIs DEF EpisodesOK
  <2> QED
    BY <2>1, <2>3, Zenon DEF Changes
<1>3. \A q \in Recorders : /\ recorder'[q].episode = recorder[q].episode
                           /\ recorder'[q].index = recorder[q].index
                           /\ recorder[q].step = "done" => recorder'[q] = recorder[q]
  BY <1>1, <1>2
<1>4. RecordersOK'
  <2>1. \A i \in 1..Len(entries) : recorder'[entries[i].by].step \in {"pushed", "done"}
                                   /\ recorder'[entries[i].by].index = i
    <3>1. \A i \in 1..Len(entries) : entries[i].by \in Recorders
      BY AuthorIs DEF EpisodesOK, RecordersOK
    <3> QED
      BY <1>2, <3>1 DEF EpisodesOK, RecordersOK
  <2>2. \A q \in Recorders : recorder'[q].step \in {"pushed", "done"} =>
          /\ recorder'[q].index \in 1..Len(entries)
          /\ entries[recorder'[q].index] = [by |-> q, tenant |-> recorder'[q].episode.tenant]
    BY <1>1, <1>2 DEF EpisodesOK, RecordersOK
  <2>3. \A q \in Recorders : IsRecorder(recorder'[q])
                             /\ (recorder'[q].step = "idle" => recorder'[q].episode \in Episodes)
    BY <1>2 DEF EpisodesOK, RecordersOK
  <2> QED
    BY <1>1, <1>2, <2>1, <2>2, <2>3 DEF RecordersOK, EpisodesOK
<1>5. x \in Nat
  <2>1. entries \in Seq(Episode)
    BY DEF EpisodesOK, RecordersOK
  <2>2. recorder[r].index \in 1..Len(entries)
    BY <1>1, Zenon DEF EpisodesOK, RecordersOK
  <2> QED
    BY <2>1, <2>2
<1>6. \A q \in Recorders : recorder[q].step = "done" => recorder[q].index # x
  <2> SUFFICES ASSUME NEW q \in Recorders, recorder[q].step = "done", recorder[q].index = x PROVE FALSE
    OBVIOUS
  <2>1. entries[x] = [by |-> r, tenant |-> recorder[r].episode.tenant]
    BY <1>1 DEF EpisodesOK, RecordersOK
  <2>2. entries[x] = [by |-> q, tenant |-> recorder[q].episode.tenant]
    BY DEF EpisodesOK, RecordersOK
  <2>3. r = q
    BY <2>1, <2>2
  <2> QED
    BY <1>1, <2>3
<1> HIDE DEF x, tags
<1>7. ASSUME NEW t \in Tags
      PROVE  IndicesOK(t, byTag[t])' /\ \A q \in Recorders : (Indexed(q, t) => Holds(byTag[t], q))'
  <2>1. /\ byTag[t] \in Seq(Nat) /\ Distinct(byTag[t]) /\ Len(byTag[t]) \in Nat
        /\ \A i \in 1..Len(byTag[t]) : \E q \in Recorders : Indexed(q, t) /\ byTag[t][i] = recorder[q].index
        /\ \A q \in Recorders : Indexed(q, t) => \E i \in 1..Len(byTag[t]) : byTag[t][i] = recorder[q].index
    BY DEF EpisodesOK, IndexOK, IndicesOK, Holds
  <2>2. \A q \in Recorders : Indexed(q, t)' <=> Indexed(q, t) \/ (q = r /\ t \in tags)
    BY <1>1, <1>2 DEF Indexed, tags
  <2>3. CASE t \in tags
    <3> DEFINE new == Append(byTag[t], x)
    <3>1. /\ new \in Seq(Nat) /\ Len(new) = Len(byTag[t]) + 1 /\ new[Len(byTag[t]) + 1] = x
          /\ \A i \in 1..Len(byTag[t]) : new[i] = byTag[t][i] /\ i \in 1..Len(new)
          /\ \A i \in 1..Len(new) : i \in 1..Len(byTag[t]) \/ i = Len(byTag[t]) + 1
          /\ Len(byTag[t]) + 1 \in 1..Len(new)
      BY <1>5, <2>1, AppendIs, Zenon
    <3>2. byTag'[t] = new
      BY <1>1, <2>3
    <3> HIDE DEF new
    <3>3. \A i \in 1..Len(byTag[t]) : byTag[t][i] # x
      BY <1>6, <2>1 DEF Indexed
    <3>4. Distinct(new)
      <4> SUFFICES ASSUME NEW i \in 1..Len(new), NEW j \in 1..Len(new), i # j
                   PROVE  new[i] # new[j]
        BY DEF Distinct
      <4>1. \A a, b \in 1..Len(byTag[t]) : a # b => byTag[t][a] # byTag[t][b]
        BY <2>1, Zenon DEF Distinct
      <4> QED
        BY <3>1, <3>3, <4>1
    <3>5. \A i \in 1..Len(new) : \E q \in Recorders : Indexed(q, t)' /\ new[i] = recorder'[q].index
      BY <1>2, <1>3, <2>1, <2>2, <2>3, <3>1
    <3>6. \A q \in Recorders : Indexed(q, t)' => \E i \in 1..Len(new) : new[i] = recorder'[q].index
      <4> SUFFICES ASSUME NEW q \in Recorders, Indexed(q, t)'
                   PROVE  \E i \in 1..Len(new) : new[i] = recorder'[q].index
        OBVIOUS
      <4>1. CASE q = r
        BY <1>2, <3>1, <4>1
      <4>2. CASE q # r
        <5>1. PICK i \in 1..Len(byTag[t]) : byTag[t][i] = recorder[q].index
          BY <2>1, <2>2, <4>2
        <5> QED
          BY <1>3, <3>1, <5>1
      <4> QED
        BY <4>1, <4>2
    <3>7. IndicesOK(t, byTag[t])'
      BY <3>1, <3>2, <3>4, <3>5, Zenon DEF IndicesOK
    <3> QED
      BY <3>2, <3>6, <3>7, Zenon DEF Holds
  <2>4. CASE t \notin tags
    <3>1. byTag'[t] = byTag[t]
      BY <1>1, <2>4
    <3>2. \A q \in Recorders : Indexed(q, t)' <=> Indexed(q, t)
      BY <2>2, <2>4, Zenon
    <3>3. \A i \in 1..Len(byTag[t]) : \E q \in Recorders : Indexed(q, t)' /\ byTag[t][i] = recorder'[q].index
      BY <1>3, <2>1, <3>2
    <3>4. \A q \in Recorders : Indexed(q, t)' => \E i \in 1..Len(byTag[t]) : byTag[t][i] = recorder'[q].index
      BY <1>3, <2>1, <3>2
    <3>5. IndicesOK(t, byTag[t])'
      <4>1. byTag'[t] \in Seq(Nat) /\ Distinct(byTag'[t])
        BY <2>1, <3>1
      <4>2. \A i \in 1..Len(byTag'[t]) : \E q \in Recorders : Indexed(q, t)' /\ byTag'[t][i] = recorder'[q].index
        BY <3>1, <3>3
      <4> QED
        BY <4>1, <4>2, Zenon DEF IndicesOK
    <3> QED
      BY <3>1, <3>4, <3>5, Zenon DEF Holds
  <2> QED
    BY <2>3, <2>4
<1>8. IndexOK'
  BY <1>1, <1>7 DEF IndexOK
<1>9. LookupOK'
  BY <1>1, <1>3, LookupStays DEF EpisodesOK
<1> QED
  BY <1>4, <1>8, <1>9 DEF EpisodesOK

\* by_tag() under the lock of the index.
LEMMA ReadIndexKeeps ==
  ASSUME EpisodesOK, NEW tag \in Tags, NEW tenant, ReadIndex(tag, tenant)
  PROVE  EpisodesOK'
<1> DEFINE new == [step |-> "reading", tag |-> tag, tenant |-> tenant, indices |-> byTag[tag],
                   recorded |-> {r \in Recorders : recorder[r].step = "done"}, found |-> <<>>]
<1>1. lookup' = new /\ UNCHANGED <<entries, byTag, recorder>>
  BY DEF ReadIndex
<1>2. IndicesOK(tag, byTag[tag]) /\ \A r \in Recorders : Indexed(r, tag) => Holds(byTag[tag], r)
  BY DEF EpisodesOK, IndexOK
<1>3. IsLookup(new)
  BY Zenon DEF IsLookup
<1>4. /\ new.recorded = {r \in Recorders : recorder[r].step = "done"}
      /\ new.step = "reading" /\ new.tag = tag /\ new.indices = byTag[tag]
  OBVIOUS
<1> HIDE DEF new
<1>5. RecordersOK' /\ IndexOK'
  BY <1>1 DEF EpisodesOK, RecordersOK, IndexOK, IndicesOK, Indexed, Holds
<1>6. LookupOK'
  <2>1. (IndicesOK(lookup.tag, lookup.indices))'
    BY <1>1, <1>2, <1>4 DEF IndicesOK, Indexed
  <2>2. \A r \in lookup'.recorded : /\ recorder'[r].step = "done"
                                    /\ (Indexed(r, lookup.tag))' => Holds(lookup.indices, r)'
    BY <1>1, <1>2, <1>4 DEF Indexed, Holds
  <2> QED
    BY <1>1, <1>3, <1>4, <2>1, <2>2 DEF LookupOK
<1> QED
  BY <1>5, <1>6 DEF EpisodesOK

\* by_tag() under the lock of the list: what was pushed since is not looked at.
LEMMA ReadEntriesKeeps ==
  ASSUME EpisodesOK, ReadEntries
  PROVE  EpisodesOK'
<1>1. /\ lookup.step = "reading" /\ lookup' = [lookup EXCEPT !.step = "done", !.found = Selected]
      /\ UNCHANGED <<entries, byTag, recorder>>
  BY DEF ReadEntries
<1>2. PICK tag, tenant, indices, recorded, old :
        lookup = [step |-> "reading", tag |-> tag, tenant |-> tenant, indices |-> indices,
                  recorded |-> recorded, found |-> old]
  BY <1>1 DEF EpisodesOK, LookupOK, IsLookup
<1>3. PICK found : found = Selected
  OBVIOUS
<1> DEFINE new == [step |-> "done", tag |-> tag, tenant |-> tenant, indices |-> indices,
                   recorded |-> recorded, found |-> found]
<1>4. lookup' = new
  <2>1. lookup' = [[lookup EXCEPT !.step = "done"] EXCEPT !.found = found]
    BY <1>1, <1>3, Zenon
  <2>2. [lookup EXCEPT !.step = "done"] = [step |-> "done", tag |-> tag, tenant |-> tenant,
                                           indices |-> indices, recorded |-> recorded, found |-> old]
    BY <1>2
  <2> QED
    BY <2>1, <2>2
<1>5. /\ lookup.tag = tag /\ lookup.tenant = tenant /\ lookup.indices = indices /\ lookup.recorded = recorded
      /\ new.tag = tag /\ new.tenant = tenant /\ new.recorded = recorded /\ new.found = found
      /\ new.step = "done"
  BY <1>2
<1>6. IsLookup(new)
  BY Zenon DEF IsLookup
<1> HIDE DEF new
<1>7. /\ IndicesOK(tag, indices) /\ recorded \subseteq Recorders
      /\ \A r \in recorded : recorder[r].step = "done" /\ (Indexed(r, tag) => Holds(indices, r))
  BY <1>1, <1>5, Zenon DEF EpisodesOK, LookupOK
<1>8. entries \in Seq(Episode) /\ Distinct(entries) /\ indices \in Seq(Nat) /\ Distinct(indices)
  BY <1>7, EntriesAreDistinct DEF EpisodesOK, RecordersOK, IndicesOK
<1>9. TakenOK(indices, tenant, Len(indices), found)
  BY <1>3, <1>5, <1>8, SelectedIs DEF Selected
<1>10. /\ found \in Seq(Episode) /\ Len(found) <= Limit /\ Distinct(found)
       /\ \A i \in 1..Len(found) : \E k \in 1..Len(indices) :
            Readable(indices[k], tenant) /\ found[i] = entries[indices[k]]
       /\ Len(found) < Limit =>
            \A k \in 1..Len(indices) : Readable(indices[k], tenant) =>
              \E i \in 1..Len(found) : found[i] = entries[indices[k]]
  <2>1. Len(indices) - Len(indices) + 1 = 1
    BY <1>8
  <2> QED
    BY <1>9, <2>1 DEF TakenOK
<1>11. \A r \in Recorders : recorder[r].step = "done" =>
         /\ recorder[r].index \in DOMAIN entries
         /\ entries[recorder[r].index] = [by |-> r, tenant |-> recorder[r].episode.tenant]
  BY <1>8 DEF EpisodesOK, RecordersOK
<1>12. ASSUME NEW i \in 1..Len(found)
       PROVE  MayRead(tenant, found[i]) /\ tag \in recorder[found[i].by].episode.tags
  <2>1. PICK k \in 1..Len(indices) : Readable(indices[k], tenant) /\ found[i] = entries[indices[k]]
    BY <1>10
  <2>2. PICK r \in Recorders : Indexed(r, tag) /\ indices[k] = recorder[r].index
    BY <1>7 DEF IndicesOK
  <2>3. found[i] = [by |-> r, tenant |-> recorder[r].episode.tenant]
    BY <1>11, <2>1, <2>2 DEF Indexed
  <2>4. found[i].by = r
    BY <2>3
  <2> QED
    BY <2>1, <2>2, <2>4, Zenon DEF Indexed, Readable
<1>13. ASSUME NEW r \in recorded, tag \in recorder[r].episode.tags,
              MayRead(tenant, recorder[r].episode), Len(found) < Limit
       PROVE  \E i \in 1..Len(found) : found[i].by = r
  <2>1. recorder[r].step = "done" /\ r \in Recorders /\ Holds(indices, r)
    BY <1>7, <1>13 DEF Indexed
  <2>2. PICK k \in 1..Len(indices) : indices[k] = recorder[r].index
    BY <2>1 DEF Holds
  <2>3. indices[k] \in DOMAIN entries /\ entries[indices[k]].by = r
        /\ entries[indices[k]].tenant = recorder[r].episode.tenant
    <3>1. /\ recorder[r].index \in DOMAIN entries
          /\ entries[recorder[r].index] = [by |-> r, tenant |-> recorder[r].episode.tenant]
      BY <1>11, <2>1
    <3> QED
      BY <2>2, <3>1
  <2>4. Readable(indices[k], tenant)
    BY <1>13, <2>3, Zenon DEF Readable, MayRead
  <2>5. PICK i \in 1..Len(found) : found[i] = entries[indices[k]]
    BY <1>10, <1>13, <2>4
  <2> QED
    BY <2>3, <2>5
<1>14. DOMAIN found = 1..Len(found) /\ Range(found) = {found[i] : i \in 1..Len(found)}
  BY <1>10 DEF Range
<1>15. EpisodesAreFound'
  <2>1. \A r \in recorded : tag \in recorder[r].episode.tags /\ MayRead(tenant, recorder[r].episode)
                            /\ Len(found) < Limit => r \in {e.by : e \in Range(found)}
    BY <1>13, <1>14
  <2>2. \A e \in Range(found) : MayRead(tenant, e) /\ tag \in recorder[e.by].episode.tags
    BY <1>12, <1>14
  <2>3. \A i, j \in DOMAIN found : i # j => found[i] # found[j]
    BY <1>10, <1>14, Zenon DEF Distinct
  <2> QED
    <3>1. /\ lookup'.found = found /\ lookup'.tag = tag /\ lookup'.tenant = tenant
          /\ lookup'.recorded = recorded /\ recorder' = recorder
      BY <1>1, <1>4, <1>5
    <3>2. \A e : MayRead(lookup'.tenant, e) = MayRead(tenant, e)
      BY <3>1, Zenon
    <3> QED
      BY <1>10, <2>1, <2>2, <2>3, <3>1, <3>2, Zenon DEF EpisodesAreFound
<1>16. LookupOK'
  BY <1>4, <1>5, <1>6, <1>7, <1>10, <1>15 DEF LookupOK
<1>17. RecordersOK' /\ IndexOK'
  BY <1>1 DEF EpisodesOK, RecordersOK, IndexOK, IndicesOK, Indexed, Holds
<1> QED
  BY <1>16, <1>17 DEF EpisodesOK

LEMMA InitEpisodes == Init => EpisodesOK
<1> SUFFICES ASSUME Init PROVE EpisodesOK
  OBVIOUS
<1>1. /\ entries = <<>> /\ byTag = [t \in Tags |-> <<>>]
      /\ recorder \in [Recorders -> {Recorder("idle", e) : e \in Episodes} \cup {Resting}]
      /\ lookup \in {NoLookup, [NoLookup EXCEPT !.step = "resting"]}
  BY Zenon DEF Init, MemoryInit
<1>2. \A r \in Recorders : \/ \E e \in Episodes : recorder[r] = Recorder("idle", e)
                           \/ recorder[r] = Resting
  BY <1>1
<1>3. ASSUME NEW r \in Recorders
      PROVE  /\ IsRecorder(recorder[r]) /\ recorder[r].step \in {"idle", "resting"}
             /\ recorder[r].step = "idle" => recorder[r].episode \in Episodes
  <2>1. PICK s, e : /\ s \in {"idle", "resting"} /\ (s = "idle" => e \in Episodes)
                    /\ recorder[r] = [step |-> s, index |-> 0, episode |-> e]
    <3>1. ASSUME NEW e \in Episodes, recorder[r] = Recorder("idle", e)
          PROVE  recorder[r] = [step |-> "idle", index |-> 0, episode |-> e]
      BY <3>1, Zenon DEF Recorder
    <3>2. ASSUME recorder[r] = Resting
          PROVE  \E e : recorder[r] = [step |-> "resting", index |-> 0, episode |-> e]
      BY <3>2, Zenon DEF Resting, Recorder
    <3> QED
      BY <1>2, <3>1, <3>2
  <2>2. IsRecorder(recorder[r])
    BY <2>1, Zenon DEF IsRecorder
  <2> QED
    BY <2>1, <2>2
<1>4. entries \in Seq(Episode) /\ 1..Len(entries) = {}
  BY <1>1
<1>5. recorder = [r \in Recorders |-> recorder[r]]
  BY <1>1
<1>6. RecordersOK
  BY <1>3, <1>4, <1>5 DEF RecordersOK
<1>7. IndexOK
  <2>1. \A r \in Recorders, tag \in Tags : ~Indexed(r, tag)
    BY <1>3 DEF Indexed
  <2>2. \A tag \in Tags : IndicesOK(tag, <<>>)
    BY DEF IndicesOK, Distinct
  <2> QED
    BY <1>1, <2>1, <2>2 DEF IndexOK
<1>8. LookupOK
  <2>1. \/ lookup = NoLookup
        \/ lookup = [NoLookup EXCEPT !.step = "resting"]
    BY <1>1
  <2>2. PICK step \in {"idle", "resting"} :
          lookup = [step |-> step, tag |-> "gl", tenant |-> Anyone, indices |-> <<>>,
                    recorded |-> {}, found |-> <<>>]
    BY <2>1 DEF NoLookup
  <2>3. IsLookup(lookup)
    BY <2>2, Zenon DEF IsLookup
  <2> QED
    BY <2>2, <2>3 DEF LookupOK
<1> QED
  BY <1>6, <1>7, <1>8 DEF EpisodesOK

LEMMA StepEpisodes == EpisodesOK /\ [Next]_vars => EpisodesOK'
<1> SUFFICES ASSUME EpisodesOK, [Next]_vars PROVE EpisodesOK'
  OBVIOUS
<1>1. ASSUME UNCHANGED episodic PROVE EpisodesOK'
  <2>1. RecordersOK' /\ IndexOK'
    BY <1>1 DEF episodic, EpisodesOK, RecordersOK, IndexOK, IndicesOK, Indexed, Holds
  <2>2. LookupOK'
    BY <1>1, LookupStays DEF episodic, EpisodesOK
  <2> QED
    BY <2>1, <2>2 DEF EpisodesOK
<1>2. ASSUME Remember PROVE EpisodesOK'
  BY <1>2, PushKeeps, IndexKeeps, ReadIndexKeeps, ReadEntriesKeeps DEF Remember, EpisodicStep
<1>3. ASSUME MainStep PROVE UNCHANGED episodic
  <2>1. ASSUME Connect \/ Initialize \/ SkipJob \/ InvokeJob \/ JobsDone \/ MessageDone \/ ServerEnded
        PROVE  UNCHANGED episodic
    BY <2>1, Zenon DEF Connect, Initialize, SkipJob, InvokeJob, JobsDone, MessageDone, ServerEnded, memory
  <2>2. ASSUME NEW call, ReportJob(call) PROVE UNCHANGED episodic
    BY <2>2, Zenon DEF ReportJob, memory
  <2> QED
    BY <1>3, <2>1, <2>2 DEF MainStep
<1>4. ASSUME NEW m \in Messages, RouteStep(m) PROVE UNCHANGED episodic
  BY <1>4, Zenon DEF RouteStep, Receive, GetPrompt, PromptAnswers, PromptFails, CallTool, ToolAnswers,
                        ToolFails, Reply, RestOfCall, Rest
<1>5. ASSUME ServerDies \/ ReaderEnds \/ UNCHANGED vars PROVE UNCHANGED episodic
  BY <1>5, Zenon DEF ServerDies, ReaderEnds, vars, memory
<1> QED
  BY <1>1, <1>2, <1>3, <1>4, <1>5 DEF Next

\* A lookup by tag returns all that was recorded under the tag before it, up
\* to its limit, and nothing of another tenant or tag (EpisodicMemory::record
\* and by_tag with their two locks), for any recorders.
THEOREM EpisodesAreFoundHolds == Spec => []EpisodesAreFound
<1>1. ASSUME EpisodesOK PROVE EpisodesAreFound
  BY <1>1 DEF EpisodesOK, LookupOK, EpisodesAreFound
<1> QED
  BY <1>1, InitEpisodes, StepEpisodes, PTL DEF Spec

-----------------------------------------------------------------------------
(* Skills.                                                                 *)

\* What the loop over the arguments computes.
LEMMA RenderIs ==
  ASSUME NEW skill, NEW args, NEW n \in Nat, Len(skill.arguments) = n
  PROVE  \E out : /\ Render(skill, args) = out[n]
                  /\ out[0] = skill.body
                  /\ \A k \in 1..n : out[k] = Filled(out[k - 1], Hole(skill.arguments[k].name),
                                                     Replacement(skill.arguments[k], args))
<1> DEFINE By(x, k) == Filled(x, Hole(skill.arguments[k].name), Replacement(skill.arguments[k], args))
           IsOut(g, m) == g = [k \in 0..m |-> IF k = 0 THEN skill.body ELSE By(g[k - 1], k)]
           Bad == {m \in Nat : ~\E g : IsOut(g, m)}
<1>1. Render(skill, args) = (CHOOSE g : IsOut(g, n))[n]
  BY DEF Render
<1> HIDE DEF By
<1>2. Bad = {}
  <2> SUFFICES ASSUME Bad # {} PROVE FALSE
    OBVIOUS
  <2>1. PICK m \in Bad : \A j \in Bad : m <= j
    <3>1. Bad \subseteq Nat
      OBVIOUS
    <3> HIDE DEF Bad
    <3> QED
      BY <3>1, LeastExists
  <2>2. m # 0
    <3>1. IsOut([k \in 0..0 |-> skill.body], 0)
      OBVIOUS
    <3> QED
      BY <2>1, <3>1
  <2>3. m - 1 \in Nat /\ m - 1 \notin Bad
    <3>1. m \in Nat
      OBVIOUS
    <3> HIDE DEF Bad
    <3> QED
      BY <2>1, <2>2, <3>1
  <2>4. PICK g : IsOut(g, m - 1)
    BY <2>3
  <2> DEFINE h == [k \in 0..m |-> IF k = m THEN By(g[m - 1], m) ELSE g[k]]
  <2>5. ASSUME NEW k \in 0..m PROVE h[k] = IF k = 0 THEN skill.body ELSE By(h[k - 1], k)
    <3>1. k # 0 => k - 1 \in 0..(m - 1)
      BY <2>1
    <3>2. CASE k = m
      BY <2>2, <3>1, <3>2
    <3>3. CASE k # m
      <4>1. k \in 0..(m - 1) /\ h[k] = g[k]
        BY <2>1, <3>3
      <4>2. k # 0 => h[k - 1] = g[k - 1]
        BY <2>1, <3>1
      <4>3. g[k] = IF k = 0 THEN skill.body ELSE By(g[k - 1], k)
        BY <2>4, <4>1
      <4> QED
        BY <4>1, <4>2, <4>3
    <3> QED
      BY <3>2, <3>3
  <2>6. IsOut(h, m)
    <3>1. h = [k \in 0..m |-> h[k]]
      OBVIOUS
    <3> HIDE DEF h
    <3> QED
      BY <2>5, <3>1
  <2> QED
    BY <2>1, <2>6
<1>3. \E g : IsOut(g, n)
  <2> HIDE DEF IsOut
  <2> QED
    BY <1>2
<1> DEFINE out == CHOOSE x : IsOut(x, n)
<1>4. IsOut(out, n)
  <2> HIDE DEF IsOut
  <2> QED
    BY <1>3
<1> HIDE DEF out
<1>5. out[0] = skill.body /\ \A k \in 1..n : out[k] = By(out[k - 1], k)
  <2>1. \A k \in 0..n : out[k] = IF k = 0 THEN skill.body ELSE By(out[k - 1], k)
    BY <1>4
  <2> QED
    BY <2>1
<1>6. Render(skill, args) = out[n]
  BY <1>1 DEF out
<1> QED
  BY <1>5, <1>6 DEF By

\* The parser before the first line.
Unread == Reading("fields", "", "", <<>>)

\* What the loop over the lines computes.
LEMMA ParsedLinesAre ==
  ASSUME NEW lines, NEW n \in Nat, Len(lines) = n
  PROVE  \E st : /\ ParseFrontmatter(lines) = st[n]
                 /\ st[0] = Unread
                 /\ \A k \in 1..n : st[k] = ReadLine(st[k - 1], lines[k])
<1> DEFINE By(x, k) == ReadLine(x, lines[k])
           IsRead(g, m) == g = [k \in 0..m |-> IF k = 0 THEN Unread ELSE By(g[k - 1], k)]
           Bad == {m \in Nat : ~\E g : IsRead(g, m)}
<1>1. ParseFrontmatter(lines) = (CHOOSE g : IsRead(g, n))[n]
  BY DEF ParseFrontmatter, Unread
<1> HIDE DEF By
<1>2. Bad = {}
  <2> SUFFICES ASSUME Bad # {} PROVE FALSE
    OBVIOUS
  <2>1. PICK m \in Bad : \A j \in Bad : m <= j
    <3>1. Bad \subseteq Nat
      OBVIOUS
    <3> HIDE DEF Bad
    <3> QED
      BY <3>1, LeastExists
  <2>2. m # 0
    <3>1. IsRead([k \in 0..0 |-> Unread], 0)
      OBVIOUS
    <3> QED
      BY <2>1, <3>1
  <2>3. m - 1 \in Nat /\ m - 1 \notin Bad
    <3>1. m \in Nat
      OBVIOUS
    <3> HIDE DEF Bad
    <3> QED
      BY <2>1, <2>2, <3>1
  <2>4. PICK g : IsRead(g, m - 1)
    BY <2>3
  <2> DEFINE h == [k \in 0..m |-> IF k = m THEN By(g[m - 1], m) ELSE g[k]]
  <2>5. ASSUME NEW k \in 0..m PROVE h[k] = IF k = 0 THEN Unread ELSE By(h[k - 1], k)
    <3>1. k # 0 => k - 1 \in 0..(m - 1)
      BY <2>1
    <3>2. CASE k = m
      BY <2>2, <3>1, <3>2
    <3>3. CASE k # m
      <4>1. k \in 0..(m - 1) /\ h[k] = g[k]
        BY <2>1, <3>3
      <4>2. k # 0 => h[k - 1] = g[k - 1]
        BY <2>1, <3>1
      <4>3. g[k] = IF k = 0 THEN Unread ELSE By(g[k - 1], k)
        BY <2>4, <4>1
      <4> QED
        BY <4>1, <4>2, <4>3
    <3> QED
      BY <3>2, <3>3
  <2>6. IsRead(h, m)
    <3>1. h = [k \in 0..m |-> h[k]]
      OBVIOUS
    <3> HIDE DEF h
    <3> QED
      BY <2>5, <3>1
  <2> QED
    BY <2>1, <2>6
<1>3. \E g : IsRead(g, n)
  <2> HIDE DEF IsRead
  <2> QED
    BY <1>2
<1> DEFINE st == CHOOSE x : IsRead(x, n)
<1>4. IsRead(st, n)
  <2> HIDE DEF IsRead
  <2> QED
    BY <1>3
<1> HIDE DEF st
<1>5. st[0] = Unread /\ \A k \in 1..n : st[k] = By(st[k - 1], k)
  <2>1. \A k \in 0..n : st[k] = IF k = 0 THEN Unread ELSE By(st[k - 1], k)
    BY <1>4
  <2> QED
    BY <2>1
<1>6. ParseFrontmatter(lines) = st[n]
  BY <1>1 DEF st
<1> QED
  BY <1>5, <1>6 DEF By

\* s \o t: the provers take it up better under a name.
Joined(s, t) == s \o t

\* What FlattenSeq computes of a sequence that is not empty.
LEMMA FlattenIs ==
  ASSUME NEW seqs, NEW n \in Nat, n > 0, Len(seqs) = n
  PROVE  \E out : /\ FlattenSeq(seqs) = out[n]
                  /\ out[1] = seqs[1]
                  /\ \A k \in 2..n : out[k] = Joined(out[k - 1], seqs[k])
<1> DEFINE By(x, k) == Joined(x, seqs[k])
           IsOut(g, m) == g = [k \in 1..m |-> IF k = 1 THEN seqs[k] ELSE By(g[k - 1], k)]
           Bad == {m \in Nat \ {0} : ~\E g : IsOut(g, m)}
<1>1. FlattenSeq(seqs) = (CHOOSE g : IsOut(g, n))[n]
  BY DEF FlattenSeq, Joined
<1> HIDE DEF By
<1>2. Bad = {}
  <2> SUFFICES ASSUME Bad # {} PROVE FALSE
    OBVIOUS
  <2>1. PICK m \in Bad : \A j \in Bad : m <= j
    <3>1. Bad \subseteq Nat
      OBVIOUS
    <3> HIDE DEF Bad
    <3> QED
      BY <3>1, LeastExists
  <2>2. m # 1
    <3>1. IsOut([k \in 1..1 |-> seqs[k]], 1)
      OBVIOUS
    <3> QED
      BY <2>1, <3>1
  <2>3. m - 1 \in Nat \ {0} /\ m - 1 \notin Bad
    <3>1. m \in Nat \ {0}
      OBVIOUS
    <3> HIDE DEF Bad
    <3> QED
      BY <2>1, <2>2, <3>1
  <2>4. PICK g : IsOut(g, m - 1)
    BY <2>3
  <2> DEFINE h == [k \in 1..m |-> IF k = m THEN By(g[m - 1], m) ELSE g[k]]
  <2>5. ASSUME NEW k \in 1..m PROVE h[k] = IF k = 1 THEN seqs[k] ELSE By(h[k - 1], k)
    <3>1. k # 1 => k - 1 \in 1..(m - 1)
      BY <2>1
    <3>2. CASE k = m
      BY <2>2, <3>1, <3>2
    <3>3. CASE k # m
      <4>1. k \in 1..(m - 1) /\ h[k] = g[k]
        BY <2>1, <3>3
      <4>2. k # 1 => h[k - 1] = g[k - 1]
        BY <2>1, <3>1
      <4>3. g[k] = IF k = 1 THEN seqs[k] ELSE By(g[k - 1], k)
        BY <2>4, <4>1
      <4> QED
        BY <4>1, <4>2, <4>3
    <3> QED
      BY <3>2, <3>3
  <2>6. IsOut(h, m)
    <3>1. h = [k \in 1..m |-> h[k]]
      OBVIOUS
    <3> HIDE DEF h
    <3> QED
      BY <2>5, <3>1
  <2> QED
    BY <2>1, <2>6
<1>3. \E g : IsOut(g, n)
  <2> HIDE DEF IsOut
  <2> QED
    BY <1>2
<1> DEFINE out == CHOOSE x : IsOut(x, n)
<1>4. IsOut(out, n)
  <2> HIDE DEF IsOut
  <2> QED
    BY <1>3
<1> HIDE DEF out
<1>5. out[1] = seqs[1] /\ \A k \in 2..n : out[k] = By(out[k - 1], k)
  <2>1. \A k \in 1..n : out[k] = IF k = 1 THEN seqs[k] ELSE By(out[k - 1], k)
    BY <1>4
  <2> QED
    BY <2>1
<1>6. FlattenSeq(seqs) = out[n]
  BY <1>1 DEF out
<1> QED
  BY <1>5, <1>6 DEF By

\* Joining two sequences of a set.
LEMMA ConcatIs ==
  ASSUME NEW S, NEW s \in Seq(S), NEW t \in Seq(S)
  PROVE  Joined(s, t) \in Seq(S)
  BY DEF Joined

\* Flattening keeps to the set of the elements.
LEMMA FlattenIsSeq ==
  ASSUME NEW S, NEW seqs \in Seq(Seq(S))
  PROVE  FlattenSeq(seqs) \in Seq(S)
<1>1. PICK n \in Nat : n = Len(seqs) /\ \A k \in 1..n : seqs[k] \in Seq(S)
  OBVIOUS
<1>2. CASE n = 0
  <2>1. seqs = <<>>
    <3>1. PICK X : X = Seq(S)
      OBVIOUS
    <3>2. seqs \in Seq(X) /\ Len(seqs) = 0
      BY <1>1, <1>2, <3>1
    <3> QED
      BY <3>2
  <2>2. FlattenSeq(seqs) = seqs
    BY <1>1, <1>2 DEF FlattenSeq
  <2>3. <<>> \in Seq(S)
    OBVIOUS
  <2> QED
    BY <2>1, <2>2, <2>3, Zenon
<1>3. CASE n > 0
  <2>1. PICK out : /\ FlattenSeq(seqs) = out[n]
                   /\ out[1] = seqs[1]
                   /\ \A k \in 2..n : out[k] = Joined(out[k - 1], seqs[k])
    BY <1>1, <1>3, FlattenIs
  <2> DEFINE Bad == {k \in 1..n : out[k] \notin Seq(S)}
  <2>2. Bad = {}
    <3> SUFFICES ASSUME Bad # {} PROVE FALSE
      OBVIOUS
    <3>1. PICK k \in Bad : \A j \in Bad : k <= j
      <4>1. Bad \subseteq Nat
        OBVIOUS
      <4> HIDE DEF Bad
      <4> QED
        BY <4>1, LeastExists
    <3>2. k \in 1..n /\ out[k] \notin Seq(S)
      OBVIOUS
    <3>3. k # 1
      BY <1>1, <2>1, <3>2
    <3>4. k - 1 \in 1..n /\ k \in 2..n /\ ~(k <= k - 1)
      BY <3>2, <3>3
    <3>5. out[k - 1] \in Seq(S)
      <4>1. k - 1 \notin Bad
        <5> HIDE DEF Bad
        <5> QED
          BY <3>1, <3>4
      <4> QED
        BY <3>4, <4>1
    <3>6. out[k] = Joined(out[k - 1], seqs[k]) /\ seqs[k] \in Seq(S)
      BY <1>1, <2>1, <3>2, <3>4
    <3>7. Joined(out[k - 1], seqs[k]) \in Seq(S)
      BY <3>5, <3>6, ConcatIs
    <3> QED
      BY <3>2, <3>6, <3>7
  <2>3. out[n] \in Seq(S)
    <3>1. n \notin Bad
      BY <2>2
    <3> QED
      BY <1>1, <1>3, <3>1
  <2> QED
    BY <2>1, <2>3, Zenon
<1> QED
  BY <1>1, <1>2, <1>3

\* What is filled in takes the place of the hole, everything else stays.
LEMMA FilledIs ==
  ASSUME NEW S, NEW hole, NEW body \in Seq(S \cup {hole}), NEW by \in Seq(S)
  PROVE  Filled(body, hole, by) \in Seq(S)
<1> DEFINE seqs == [i \in DOMAIN body |-> IF body[i] = hole THEN by ELSE <<body[i]>>]
<1>1. PICK n \in Nat : DOMAIN body = 1..n /\ \A i \in 1..n : body[i] \in S \cup {hole}
  OBVIOUS
<1>2. \A i \in 1..n : (IF body[i] = hole THEN by ELSE <<body[i]>>) \in Seq(S)
  <2> SUFFICES ASSUME NEW i \in 1..n, body[i] # hole PROVE <<body[i]>> \in Seq(S)
    OBVIOUS
  <2>1. body[i] \in S
    BY <1>1
  <2> QED
    BY <2>1
<1>3. seqs \in Seq(Seq(S))
  BY <1>1, <1>2
<1> HIDE DEF seqs
<1>4. FlattenSeq(seqs) \in Seq(S)
  BY <1>3, FlattenIsSeq
<1> QED
  BY <1>4 DEF Filled, seqs

\* The tokens a rendering has left after k arguments.
Left(skill, args, k) ==
  {t \in Range(skill.body) : t.kind = "text"} \cup {Token("text", args[a]) : a \in DOMAIN args}
  \cup {Hole(skill.arguments[j].name) : j \in (k + 1)..Len(skill.arguments)}

\* A body has holes for arguments only, and every required argument is given.
Whole(skill, args) ==
  /\ Len(skill.arguments) \in Nat
  /\ skill.body \in Seq(Left(skill, args, 0))
  /\ \A j \in 1..Len(skill.arguments) :
       skill.arguments[j].required => skill.arguments[j].name \in DOMAIN args

\* Rendering such a skill leaves texts.
LEMMA RenderIsWhole ==
  ASSUME NEW skill, NEW args, Whole(skill, args)
  PROVE  \A i \in DOMAIN Render(skill, args) : Render(skill, args)[i].kind = "text"
<1> DEFINE L(k) == Left(skill, args, k)
           arg(k) == skill.arguments[k]
<1>1. PICK n \in Nat : n = Len(skill.arguments)
  BY DEF Whole
<1>2. PICK out : /\ Render(skill, args) = out[n]
                 /\ out[0] = skill.body
                 /\ \A k \in 1..n : out[k] = Filled(out[k - 1], Hole(arg(k).name), Replacement(arg(k), args))
  BY <1>1, RenderIs
<1> DEFINE Bad == {k \in 0..n : out[k] \notin Seq(L(k))}
<1>3. Bad = {}
  <2> SUFFICES ASSUME Bad # {} PROVE FALSE
    OBVIOUS
  <2>1. PICK k \in Bad : \A j \in Bad : k <= j
    <3>1. Bad \subseteq Nat
      OBVIOUS
    <3> HIDE DEF Bad
    <3> QED
      BY <3>1, LeastExists
  <2>2. k \in 0..n /\ out[k] \notin Seq(L(k))
    BY <2>1
  <2>3. k # 0
    BY <1>2, <2>2 DEF Whole
  <2>4. k \in 1..n /\ k - 1 \in 0..n /\ ~(k <= k - 1)
    BY <2>2, <2>3
  <2>5. out[k - 1] \in Seq(L(k - 1))
    <3>1. k - 1 \notin Bad
      <4> HIDE DEF Bad
      <4> QED
        BY <2>1, <2>4
    <3> QED
      BY <2>4, <3>1
  <2>6. L(k - 1) = L(k) \cup {Hole(arg(k).name)}
    <3>1. (k - 1 + 1)..n = {k} \cup (k + 1)..n
      BY <2>4
    <3> QED
      BY <1>1, <3>1 DEF Left
  <2>7. Replacement(arg(k), args) \in Seq(L(k))
    <3>1. arg(k).name \in DOMAIN args => Token("text", args[arg(k).name]) \in L(k)
      BY DEF Left
    <3>2. arg(k).required => arg(k).name \in DOMAIN args
      BY <1>1, <2>4 DEF Whole
    <3>3. PICK Y : Y = L(k)
      OBVIOUS
    <3>4. <<>> \in Seq(Y) /\ \A t \in Y : <<t>> \in Seq(Y)
      OBVIOUS
    <3> QED
      BY <3>1, <3>2, <3>3, <3>4, Zenon DEF Replacement
  <2>8. Filled(out[k - 1], Hole(arg(k).name), Replacement(arg(k), args)) \in Seq(L(k))
    <3>1. PICK Y, h, b, r : Y = L(k) /\ h = Hole(arg(k).name) /\ b = out[k - 1] /\ r = Replacement(arg(k), args)
      OBVIOUS
    <3>2. b \in Seq(Y \cup {h}) /\ r \in Seq(Y)
      BY <2>5, <2>6, <2>7, <3>1, Zenon
    <3>3. Filled(b, h, r) \in Seq(Y)
      BY <3>2, FilledIs
    <3> QED
      BY <3>1, <3>3, Zenon
  <2>9. out[k] = Filled(out[k - 1], Hole(arg(k).name), Replacement(arg(k), args))
    BY <1>2, <2>4
  <2> QED
    BY <2>2, <2>8, <2>9, Zenon
<1>4. out[n] \in Seq(L(n))
  BY <1>1, <1>3
<1>5. \A t \in L(n) : t.kind = "text"
  <2>1. (n + 1)..n = {}
    BY <1>1
  <2> QED
    BY <1>1, <2>1 DEF Left, Token
<1>6. PICK Y : Y = L(n)
  OBVIOUS
<1>7. out[n] \in Seq(Y) /\ \A t \in Y : t.kind = "text"
  BY <1>4, <1>5, <1>6
<1>8. \A i \in DOMAIN out[n] : out[n][i] \in Y
  BY <1>7
<1> QED
  BY <1>2, <1>7, <1>8, Zenon

\* The lines that are fields of the skill.
LEMMA TopLine ==
  ASSUME NEW n, NEW d, NEW a, NEW v
  PROVE  /\ ReadLine(Reading("fields", n, d, a), Line(0, "name", v)) = Reading("fields", v, d, a)
         /\ ReadLine(Reading("fields", n, d, a), Line(0, "description", v)) = Reading("fields", n, v, a)
         /\ ReadLine(Reading("fields", n, d, a), Line(0, "tags", v)) = Reading("fields", n, d, a)
         /\ ReadLine(Reading("fields", n, d, a), Line(0, "requires_tools", v)) = Reading("fields", n, d, a)
         /\ ReadLine(Reading("fields", n, d, a), Line(0, "arguments", v)) = Reading("list", n, d, a)
<1> DEFINE st == Reading("fields", n, d, a)
<1>1. ASSUME NEW key PROVE ReadLine(st, Line(0, key, v)) = Field(st, Line(0, key, v))
  BY DEF ReadLine, Line, Reading
<1> QED
  BY <1>1 DEF Field, Line, Reading

\* An argument as its first line leaves it, and as it is in the end; a list
\* with one more argument; and the first line of an argument.
Optional(x) == Argument(x, FALSE)
Declared(x, v) == Argument(x, v = "true")
With(arguments, arg) == Append(arguments, arg)
StartsItem(line, x) == line = Line(2, "- name", x)

\* The first line of an argument, in the list or after another argument.
LEMMA ListLine ==
  ASSUME NEW at \in {"list", "item"}, NEW n, NEW d, NEW a, NEW v,
         NEW line, StartsItem(line, v)
  PROVE  ReadLine(Reading(at, n, d, a), line) = Reading("item", n, d, With(a, Optional(v)))
<1> DEFINE st == Reading(at, n, d, a)
<1>1. line = Line(2, "- name", v)
  BY Zenon DEF StartsItem
<1>2. line.indent = 2 /\ line.value = v
  BY <1>1, Zenon DEF Line
<1>6. line.key = "- name"
  BY <1>1, Zenon DEF Line
<1>3. st.at = at /\ st.name = n /\ st.description = d /\ st.arguments = a
  BY DEF Reading
<1>4. ReadLine(st, line) = InList(st, line)
  <2>1. PICK key : key = line.key
    OBVIOUS
  <2>2. line.indent # 4 /\ line.indent > 0 /\ st.at # "fields"
    BY <1>2, <1>3
  <2> QED
    BY <2>2, Zenon DEF ReadLine
<1>5. InList(st, line) = Reading("item", n, d, With(a, Optional(v)))
  BY <1>2, <1>3, <1>6, Zenon DEF InList, With, Optional
<1> QED
  BY <1>1, <1>4, <1>5, Zenon

\* The lines of an argument after its first.
LEMMA ItemLine ==
  ASSUME NEW n, NEW d, NEW a, NEW v, NEW key, key # "required"
  PROVE  ReadLine(Reading("item", n, d, a), Line(4, key, v)) = Reading("item", n, d, a)
  BY DEF Reading, ReadLine, InItem, Line

\* What is before the last element, and the last element.
LEMMA FrontIs ==
  ASSUME NEW S, NEW a \in Seq(S), NEW y \in S
  PROVE  Front(Append(a, y)) = a /\ Last(Append(a, y)) = y
<1>1. PICK k \in Nat : k = Len(a)
  OBVIOUS
<1>2. /\ Append(a, y) \in Seq(S) /\ Len(Append(a, y)) = k + 1 /\ Append(a, y)[k + 1] = y
      /\ \A j \in 1..k : Append(a, y)[j] = a[j]
  BY <1>1
<1>3. SubSeq(Append(a, y), 1, k) = a
  BY <1>1, <1>2
<1>4. k + 1 - 1 = k
  OBVIOUS
<1> QED
  BY <1>2, <1>3, <1>4 DEF Front, Last

\* The line that says if the argument at hand is required.
LEMMA RequiredLine ==
  ASSUME NEW S, NEW n, NEW d, NEW a \in Seq(S), NEW v, NEW x, Optional(x) \in S
  PROVE  ReadLine(Reading("item", n, d, With(a, Optional(x))), Line(4, "required", v))
           = Reading("item", n, d, With(a, Declared(x, v)))
<1> PICK y, b : y = Argument(x, FALSE) /\ b = Append(a, y)
  OBVIOUS
<1> DEFINE line == Line(4, "required", v)
<1> DEFINE st == Reading("item", n, d, b)
<1>2. st.at = "item" /\ st.name = n /\ st.description = d /\ st.arguments = b
  BY DEF Reading
<1>3. ReadLine(st, line) = InItem(st, line)
  BY <1>2 DEF ReadLine, Line
<1>4. InItem(st, line) = Reading("item", n, d, Append(Front(b), Argument(Last(b).name, v = "true")))
  BY <1>2 DEF InItem, Line
<1>5. Front(b) = a /\ Last(b) = y
  BY FrontIs DEF Optional
<1>6. y.name = x
  BY DEF Argument
<1> QED
  BY <1>3, <1>4, <1>5, <1>6, Zenon DEF With, Optional, Declared

\* The lines of an argument, one after the other.
LEMMA ItemIsRead ==
  ASSUME NEW S, NEW at \in {"list", "item"}, NEW n, NEW d, NEW a \in Seq(S), NEW x, NEW r, NEW t,
         Optional(x) \in S,
         NEW l1, StartsItem(l1, x), NEW l2, l2 = Line(4, "description", t),
         NEW l3, l3 = Line(4, "required", r)
  PROVE  ReadLine(ReadLine(ReadLine(Reading(at, n, d, a), l1), l2), l3)
           = Reading("item", n, d, With(a, Declared(x, r)))
<1>1. ReadLine(Reading(at, n, d, a), l1) = Reading("item", n, d, With(a, Optional(x)))
  BY ListLine
<1>2. PICK b : b = With(a, Optional(x))
  OBVIOUS
<1>3. ReadLine(Reading("item", n, d, b), l2) = Reading("item", n, d, b)
  BY ItemLine
<1>4. ReadLine(Reading("item", n, d, b), l3) = Reading("item", n, d, With(a, Declared(x, r)))
  BY <1>2, RequiredLine
<1> QED
  BY <1>1, <1>2, <1>3, <1>4

\* The five lines before the arguments.
LEMMA HeadIsRead ==
  ASSUME NEW n, NEW d, NEW e, NEW f, NEW t, NEW r, NEW z
  PROVE  ReadLine(ReadLine(ReadLine(ReadLine(ReadLine(Reading("fields", e, e, f), Line(0, "name", n)),
           Line(0, "description", d)), Line(0, "tags", t)), Line(0, "requires_tools", r)),
           Line(0, "arguments", z)) = Reading("list", n, d, f)
  BY TopLine

\* Flattening none, one and two sequences.
LEMMA FlattenFew ==
  ASSUME NEW x, NEW y
  PROVE  /\ FlattenSeq(<<>>) = <<>>
         /\ FlattenSeq(<<x>>) = x
         /\ FlattenSeq(<<x, y>>) = Joined(x, y)
<1>1. FlattenSeq(<<>>) = <<>>
  BY DEF FlattenSeq
<1>2. FlattenSeq(<<x>>) = x
  <2>1. PICK s : s = <<x>>
    OBVIOUS
  <2>2. 1 \in Nat /\ 1 > 0 /\ Len(s) = 1 /\ s[1] = x
    BY <2>1
  <2>3. PICK out : FlattenSeq(s) = out[1] /\ out[1] = s[1]
    <3>1. PICK n \in Nat : n = 1
      OBVIOUS
    <3>2. Len(s) = n /\ n > 0
      BY <2>2, <3>1
    <3>3. \E out : FlattenSeq(s) = out[n] /\ out[1] = s[1] /\ \A k \in 2..n : out[k] = Joined(out[k - 1], s[k])
      BY <3>2, FlattenIs
    <3> QED
      BY <3>1, <3>3, Zenon
  <2> QED
    BY <2>1, <2>2, <2>3, Zenon
<1>3. FlattenSeq(<<x, y>>) = Joined(x, y)
  <2>1. PICK s : s = <<x, y>>
    OBVIOUS
  <2>2. Len(s) = 2 /\ s[1] = x /\ s[2] = y
    BY <2>1
  <2>3. PICK out : FlattenSeq(s) = out[2] /\ out[1] = s[1] /\ out[2] = Joined(out[1], s[2])
    <3>1. PICK n \in Nat : n = 2
      OBVIOUS
    <3>2. Len(s) = n /\ n > 0
      BY <2>2, <3>1
    <3>5. n \in 2..n /\ n - 1 = 1
      BY <3>1
    <3>3. \E out : FlattenSeq(s) = out[n] /\ out[1] = s[1] /\ \A k \in 2..n : out[k] = Joined(out[k - 1], s[k])
      BY <3>2, FlattenIs
    <3>4. \E out : FlattenSeq(s) = out[n] /\ out[1] = s[1] /\ out[n] = Joined(out[1], s[n])
      BY <3>5, <3>3, Zenon
    <3> QED
      BY <3>1, <3>4, Zenon
  <2> QED
    BY <2>1, <2>2, <2>3, Zenon
<1> QED
  BY <1>1, <1>2, <1>3

\* The elements of two sequences joined.
LEMMA ConcatLen ==
  ASSUME NEW S, NEW s \in Seq(S), NEW u \in Seq(S)
  PROVE  /\ Len(s \o u) = Len(s) + Len(u)
         /\ \A j \in 1..Len(s) : (s \o u)[j] = s[j]
         /\ \A j \in 1..Len(u) : (s \o u)[Len(s) + j] = u[j]
  OBVIOUS

\* The lines of a frontmatter up to its arguments, and of an argument from line k.
StartsWell(lines, n, d) ==
  /\ lines[1] = Line(0, "name", n) /\ lines[2] = Line(0, "description", d)
  /\ lines[3] = Line(0, "tags", "t") /\ lines[4] = Line(0, "requires_tools", "r")
  /\ lines[5] = Line(0, "arguments", "")
HasItem(lines, k, x, r) ==
  /\ StartsItem(lines[k], x) /\ lines[k + 1] = Line(4, "description", "d")
  /\ lines[k + 2] = Line(4, "required", r)

\* st is what the parser computes line by line.
Reads(st, lines, m) == st[0] = Unread /\ \A k \in 1..m : st[k] = ReadLine(st[k - 1], lines[k])

\* The parser after the five lines at the beginning.
LEMMA UpToArguments ==
  ASSUME NEW st, NEW lines, NEW m \in Nat, m >= 5, Reads(st, lines, m), NEW n, NEW d, StartsWell(lines, n, d)
  PROVE  st[5] = Reading("list", n, d, <<>>)
<1>1. /\ st[1] = ReadLine(st[0], lines[1]) /\ st[2] = ReadLine(st[1], lines[2])
      /\ st[3] = ReadLine(st[2], lines[3]) /\ st[4] = ReadLine(st[3], lines[4])
      /\ st[5] = ReadLine(st[4], lines[5])
  <2>1. \A k \in 1..5 : k \in 1..m
    OBVIOUS
  <2>2. \A k \in 1..5 : st[k] = ReadLine(st[k - 1], lines[k])
    BY <2>1 DEF Reads
  <2>3. 1 - 1 = 0 /\ 2 - 1 = 1 /\ 3 - 1 = 2 /\ 4 - 1 = 3 /\ 5 - 1 = 4
    OBVIOUS
  <2>4. 1 \in 1..5 /\ 2 \in 1..5 /\ 3 \in 1..5 /\ 4 \in 1..5 /\ 5 \in 1..5
    OBVIOUS
  <2> QED
    BY <2>2, <2>3, <2>4, Zenon
<1>2. PICK e, f, t, r, z : e = "" /\ f = <<>> /\ t = "t" /\ r = "r" /\ z = ""
  OBVIOUS
<1>3. st[0] = Reading("fields", e, e, f)
  BY <1>2, Zenon DEF Unread, Reads
<1>4. /\ lines[1] = Line(0, "name", n) /\ lines[2] = Line(0, "description", d)
      /\ lines[3] = Line(0, "tags", t) /\ lines[4] = Line(0, "requires_tools", r)
      /\ lines[5] = Line(0, "arguments", z)
  BY <1>2, Zenon DEF StartsWell
<1>5. st[5] = Reading("list", n, d, f)
  <2>1. ReadLine(ReadLine(ReadLine(ReadLine(ReadLine(Reading("fields", e, e, f), lines[1]),
          lines[2]), lines[3]), lines[4]), lines[5]) = Reading("list", n, d, f)
    BY <1>4, HeadIsRead
  <2> QED
    BY <1>1, <1>3, <2>1
<1> QED
  BY <1>2, <1>5, Zenon

\* The parser after the three lines of one more argument.
LEMMA OneMoreItem ==
  ASSUME NEW st, NEW lines, NEW m \in Nat, Reads(st, lines, m), NEW k \in Nat, k + 3 <= m,
         NEW at \in {"list", "item"}, NEW n, NEW d, NEW S,
         NEW a \in Seq(S), st[k] = Reading(at, n, d, a),
         NEW x, NEW r, Optional(x) \in S, HasItem(lines, k + 1, x, r)
  PROVE  st[k + 3] = Reading("item", n, d, With(a, Declared(x, r)))
<1>1. /\ st[k + 1] = ReadLine(st[k], lines[k + 1]) /\ st[k + 2] = ReadLine(st[k + 1], lines[k + 2])
      /\ st[k + 3] = ReadLine(st[k + 2], lines[k + 3])
  <2>1. k + 1 \in 1..m /\ k + 2 \in 1..m /\ k + 3 \in 1..m
    OBVIOUS
  <2>2. k + 1 - 1 = k /\ k + 2 - 1 = k + 1 /\ k + 3 - 1 = k + 2
    OBVIOUS
  <2>3. \A j \in 1..m : st[j] = ReadLine(st[j - 1], lines[j])
    BY DEF Reads
  <2>4. /\ st[k + 1] = ReadLine(st[k + 1 - 1], lines[k + 1])
        /\ st[k + 2] = ReadLine(st[k + 2 - 1], lines[k + 2])
        /\ st[k + 3] = ReadLine(st[k + 3 - 1], lines[k + 3])
    BY <2>1, <2>3
  <2> QED
    BY <2>2, <2>4
<1>2. k + 1 + 1 = k + 2 /\ k + 1 + 2 = k + 3
  OBVIOUS
<1>3. PICK l1, l2, l3 : l1 = lines[k + 1] /\ l2 = lines[k + 2] /\ l3 = lines[k + 3]
  OBVIOUS
<1>4. PICK t : t = "d"
  OBVIOUS
<1>5. StartsItem(l1, x) /\ l2 = Line(4, "description", t) /\ l3 = Line(4, "required", r)
  <2>1. StartsItem(lines[k + 1], x) /\ lines[k + 1 + 1] = Line(4, "description", "d")
        /\ lines[k + 1 + 2] = Line(4, "required", r)
    BY Zenon DEF HasItem
  <2> QED
    BY <1>2, <1>3, <1>4, <2>1
<1>6. ReadLine(ReadLine(ReadLine(Reading(at, n, d, a), l1), l2), l3)
        = Reading("item", n, d, With(a, Declared(x, r)))
  BY <1>5, ItemIsRead
<1> QED
  BY <1>1, <1>3, <1>6

\* The lines before the arguments.
Head5(n) == <<Line(0, "name", n), Line(0, "description", "d"), Line(0, "tags", "t"),
              Line(0, "requires_tools", "r"), Line(0, "arguments", "")>>

\* The lines at the beginning of a file of the repository.
LEMMA HeadIs ==
  ASSUME NEW n
  PROVE  \E S : /\ Head5(n) \in Seq(S) /\ Len(Head5(n)) = 5
                /\ StartsWell(Head5(n), n, "d")
<1>1. PICK h1, h2, h3, h4, h5 :
        /\ h1 = Line(0, "name", n) /\ h2 = Line(0, "description", "d") /\ h3 = Line(0, "tags", "t")
        /\ h4 = Line(0, "requires_tools", "r") /\ h5 = Line(0, "arguments", "")
  OBVIOUS
<1>2. Head5(n) = <<h1, h2, h3, h4, h5>>
  BY <1>1, Zenon DEF Head5
<1>3. PICK h : h = <<h1, h2, h3, h4, h5>>
  OBVIOUS
<1>4. /\ h \in Seq({h1, h2, h3, h4, h5}) /\ Len(h) = 5
      /\ h[1] = h1 /\ h[2] = h2 /\ h[3] = h3 /\ h[4] = h4 /\ h[5] = h5
  BY <1>3
<1>5. StartsWell(h, n, "d")
  BY <1>1, <1>4, Zenon DEF StartsWell
<1> QED
  BY <1>2, <1>3, <1>4, <1>5

\* The lines of an argument in a file of the repository.
LEMMA ItemIs ==
  ASSUME NEW x, NEW q
  PROVE  \E S : /\ Item(x, q) \in Seq(S) /\ Len(Item(x, q)) = 3
                /\ HasItem(Item(x, q), 1, x, q)
<1>1. PICK i1, i2, i3 : /\ i1 = Line(2, "- name", x) /\ i2 = Line(4, "description", "d")
                        /\ i3 = Line(4, "required", q)
  OBVIOUS
<1>2. Item(x, q) = <<i1, i2, i3>>
  BY <1>1, Zenon DEF Item
<1>3. StartsItem(i1, x)
  BY <1>1, Zenon DEF StartsItem
<1>4. i2 = Line(4, "description", "d") /\ i3 = Line(4, "required", q)
  BY <1>1, Zenon
<1>5. PICK i : i = <<i1, i2, i3>>
  OBVIOUS
<1>6. i \in Seq({i1, i2, i3}) /\ Len(i) = 3 /\ i[1] = i1 /\ i[1 + 1] = i2 /\ i[1 + 2] = i3
  BY <1>5
<1>7. HasItem(i, 1, x, q)
  BY <1>3, <1>4, <1>6 DEF HasItem
<1> QED
  BY <1>2, <1>5, <1>6, <1>7

\* Lines of one kind hold an item.
AreLines(s, k) == \E S : s \in Seq(S) /\ Len(s) = k

\* t holds the k lines of s and then the m lines of u.
Agree(t, s, k, u, m) == (\A j \in 1..k : t[j] = s[j]) /\ (\A j \in 1..m : t[k + j] = u[j])

\* Lines joined keep their places.
LEMMA JoinedIs ==
  ASSUME NEW s, NEW k \in Nat, NEW u, NEW m \in Nat, AreLines(s, k), AreLines(u, m)
  PROVE  AreLines(Joined(s, u), k + m) /\ Agree(Joined(s, u), s, k, u, m)
<1>1. PICK X : s \in Seq(X) /\ Len(s) = k
  BY DEF AreLines
<1>2. PICK Y : u \in Seq(Y) /\ Len(u) = m
  BY DEF AreLines
<1> DEFINE S == X \cup Y
<1>3. s \in Seq(S) /\ u \in Seq(S)
  BY <1>1, <1>2
<1> HIDE DEF S
<1>4. /\ Len(s \o u) = Len(s) + Len(u)
      /\ \A j \in 1..Len(s) : (s \o u)[j] = s[j]
      /\ \A j \in 1..Len(u) : (s \o u)[Len(s) + j] = u[j]
  BY <1>3, ConcatLen
<1>5. Joined(s, u) \in Seq(S)
  BY <1>3, ConcatIs
<1>6. AreLines(Joined(s, u), k + m)
  BY <1>1, <1>2, <1>4, <1>5 DEF AreLines, Joined
<1> QED
  BY <1>1, <1>2, <1>4, <1>6 DEF Joined, Agree

\* The lines of an argument are found where joining has put them.
LEMMA ItemStays ==
  ASSUME NEW s, NEW k \in Nat, NEW u, NEW m \in Nat, AreLines(s, k), AreLines(u, m), NEW x, NEW q
  PROVE  /\ \A j \in 1..k : j + 2 <= k /\ HasItem(s, j, x, q) => HasItem(Joined(s, u), j, x, q)
         /\ \A j \in 1..m : j + 2 <= m /\ HasItem(u, j, x, q) => HasItem(Joined(s, u), k + j, x, q)
         /\ \A n : k >= 5 /\ StartsWell(s, n, "d") => StartsWell(Joined(s, u), n, "d")
<1>1. PICK t : t = Joined(s, u)
  OBVIOUS
<1>2. (\A j \in 1..k : t[j] = s[j]) /\ (\A j \in 1..m : t[k + j] = u[j])
  <2>1. Agree(Joined(s, u), s, k, u, m)
    BY JoinedIs
  <2> QED
    BY <1>1, <2>1 DEF Agree
<1>3. ASSUME NEW j \in 1..k, j + 2 <= k, HasItem(s, j, x, q) PROVE HasItem(t, j, x, q)
  <2>1. t[j] = s[j] /\ t[j + 1] = s[j + 1] /\ t[j + 2] = s[j + 2]
    BY <1>2, <1>3
  <2> QED
    BY <1>3, <2>1 DEF HasItem
<1>4. ASSUME NEW j \in 1..m, j + 2 <= m, HasItem(u, j, x, q) PROVE HasItem(t, k + j, x, q)
  <2>1. t[k + j] = u[j] /\ t[k + j + 1] = u[j + 1] /\ t[k + j + 2] = u[j + 2]
    <3>1. k + j + 1 = k + (j + 1) /\ k + j + 2 = k + (j + 2) /\ j + 1 \in 1..m /\ j + 2 \in 1..m
      BY <1>4
    <3> QED
      BY <1>2, <3>1
  <2> QED
    BY <1>4, <2>1 DEF HasItem
<1>5. ASSUME NEW n, k >= 5, StartsWell(s, n, "d") PROVE StartsWell(t, n, "d")
  <2>1. t[1] = s[1] /\ t[2] = s[2] /\ t[3] = s[3] /\ t[4] = s[4] /\ t[5] = s[5]
    BY <1>2, <1>5
  <2> QED
    BY <1>5, <2>1, Zenon DEF StartsWell
<1> QED
  BY <1>1, <1>3, <1>4, <1>5

\* A skill of one required argument.
LEMMA OneIsParsed ==
  ASSUME NEW lines, AreLines(lines, 8), NEW n, NEW d, StartsWell(lines, n, d),
         NEW x, NEW r, HasItem(lines, 6, x, r)
  PROVE  ParseFrontmatter(lines) = Reading("item", n, d, <<Declared(x, r)>>)
<1>1. PICK m \in Nat : m = 8
  OBVIOUS
<1>2. Len(lines) = m
  BY <1>1 DEF AreLines
<1>3. PICK st : ParseFrontmatter(lines) = st[m] /\ Reads(st, lines, m)
  BY <1>2, ParsedLinesAre DEF Reads
<1>4. st[5] = Reading("list", n, d, <<>>)
  BY <1>1, <1>3, UpToArguments
<1>5. st[8] = Reading("item", n, d, With(<<>>, Declared(x, r)))
  <2>1. PICK k \in Nat : k = 5
    OBVIOUS
  <2>2. k + 3 <= m /\ k + 1 = 6 /\ k + 3 = 8
    BY <1>1, <2>1
  <2>3. PICK S, a : S = {Optional(x)} /\ a = <<>>
    OBVIOUS
  <2>4. a \in Seq(S) /\ Optional(x) \in S
    BY <2>3
  <2>5. PICK at : at = "list"
    OBVIOUS
  <2>6. at \in {"list", "item"}
    BY <2>5
  <2>7. st[k] = Reading(at, n, d, a) /\ HasItem(lines, k + 1, x, r)
    BY <1>4, <2>1, <2>2, <2>3, <2>5
  <2>9. st[k + 3] = Reading("item", n, d, With(a, Declared(x, r)))
    BY <2>2, <2>4, <2>6, <2>7, <1>3, OneMoreItem
  <2> QED
    BY <2>2, <2>3, <2>9
<1>6. \A arg : With(<<>>, arg) = <<arg>>
  BY DEF With
<1> QED
  BY <1>1, <1>3, <1>5, <1>6

\* A skill of two arguments.
LEMMA TwoAreParsed ==
  ASSUME NEW lines, AreLines(lines, 11), NEW n, NEW d, StartsWell(lines, n, d),
         NEW x, NEW r, HasItem(lines, 6, x, r), NEW y, NEW q, HasItem(lines, 9, y, q)
  PROVE  ParseFrontmatter(lines) = Reading("item", n, d, <<Declared(x, r), Declared(y, q)>>)
<1>1. PICK m \in Nat : m = 11
  OBVIOUS
<1>2. Len(lines) = m
  BY <1>1 DEF AreLines
<1>3. PICK st : ParseFrontmatter(lines) = st[m] /\ Reads(st, lines, m)
  BY <1>2, ParsedLinesAre DEF Reads
<1>4. st[5] = Reading("list", n, d, <<>>)
  BY <1>1, <1>3, UpToArguments
<1>7. PICK S, a, b : S = {Optional(x), Optional(y), Declared(x, r)} /\ a = <<>> /\ b = With(<<>>, Declared(x, r))
  OBVIOUS
<1>8. a \in Seq(S) /\ b \in Seq(S) /\ Optional(x) \in S /\ Optional(y) \in S
  BY <1>7 DEF With
<1>5. st[8] = Reading("item", n, d, b)
  <2>1. PICK k \in Nat : k = 5
    OBVIOUS
  <2>2. k + 3 <= m /\ k + 1 = 6 /\ k + 3 = 8
    BY <1>1, <2>1
  <2>5. PICK at : at = "list"
    OBVIOUS
  <2>6. at \in {"list", "item"}
    BY <2>5
  <2>7. st[k] = Reading(at, n, d, a) /\ HasItem(lines, k + 1, x, r)
    BY <1>4, <1>7, <2>1, <2>2, <2>5
  <2>9. st[k + 3] = Reading("item", n, d, With(a, Declared(x, r)))
    BY <2>2, <1>8, <2>6, <2>7, <1>3, OneMoreItem
  <2> QED
    BY <1>7, <2>2, <2>9
<1>6. st[11] = Reading("item", n, d, With(b, Declared(y, q)))
  <2>1. PICK k \in Nat : k = 8
    OBVIOUS
  <2>2. k + 3 <= m /\ k + 1 = 9 /\ k + 3 = 11
    BY <1>1, <2>1
  <2>5. PICK at : at = "item"
    OBVIOUS
  <2>6. at \in {"list", "item"}
    BY <2>5
  <2>7. st[k] = Reading(at, n, d, b) /\ HasItem(lines, k + 1, y, q)
    BY <1>5, <2>1, <2>2, <2>5
  <2>9. st[k + 3] = Reading("item", n, d, With(b, Declared(y, q)))
    BY <2>2, <1>8, <2>6, <2>7, <1>3, OneMoreItem
  <2> QED
    BY <2>2, <2>9
<1>10. \A arg, other : With(With(<<>>, arg), other) = <<arg, other>>
  <2>1. ASSUME NEW arg, NEW other PROVE With(With(<<>>, arg), other) = <<arg, other>>
    <3>1. With(<<>>, arg) = <<arg>>
      BY DEF With
    <3>2. With(<<arg>>, other) = <<arg, other>>
      <4>1. PICK s, t, T : s = <<arg>> /\ t = <<arg, other>> /\ T = {arg, other}
        OBVIOUS
      <4>2. s \in Seq(T) /\ Len(s) = 1 /\ s[1] = arg /\ other \in T
        BY <4>1
      <4>3. t \in Seq(T) /\ Len(t) = 2 /\ t[1] = arg /\ t[2] = other
        BY <4>1
      <4>4. PICK c : c = Append(s, other)
        OBVIOUS
      <4>6. /\ c \in Seq(T) /\ Len(c) = Len(s) + 1 /\ c[Len(s) + 1] = other
            /\ \A k \in 1..Len(s) : c[k] = s[k]
        <5>1. /\ Append(s, other) \in Seq(T) /\ Len(Append(s, other)) = Len(s) + 1
              /\ Append(s, other)[Len(s) + 1] = other
              /\ \A k \in 1..Len(s) : Append(s, other)[k] = s[k]
          <6>1. s \in Seq(T) /\ other \in T
            BY <4>2
          <6> QED
            BY <6>1
        <5> QED
          BY <4>4, <5>1
      <4>5. Append(s, other) = t
        BY <4>2, <4>3, <4>4, <4>6
      <4> QED
        BY <4>1, <4>5 DEF With
    <3> QED
      BY <3>1, <3>2
  <2> QED
    BY <2>1
<1> QED
  BY <1>1, <1>3, <1>6, <1>7, <1>10

\* The lines of the arguments of a list of none, one or two.
LEMMA ItemsAre ==
  ASSUME NEW x, NEW y, NEW q
  PROVE  /\ FlattenSeq([i \in DOMAIN <<x>> |-> Item(<<x>>[i], q)]) = Item(x, q)
         /\ FlattenSeq([i \in DOMAIN <<x, y>> |-> Item(<<x, y>>[i], q)]) = Joined(Item(x, q), Item(y, q))
         /\ FlattenSeq([i \in DOMAIN <<>> |-> Item(<<>>[i], q)]) = <<>>
<1>1. /\ [i \in DOMAIN <<x>> |-> Item(<<x>>[i], q)] = <<Item(x, q)>>
      /\ [i \in DOMAIN <<x, y>> |-> Item(<<x, y>>[i], q)] = <<Item(x, q), Item(y, q)>>
      /\ [i \in DOMAIN <<>> |-> Item(<<>>[i], q)] = <<>>
  OBVIOUS
<1> QED
  BY <1>1, FlattenFew

\* Joining no lines.
LEMMA NoneJoined ==
  ASSUME NEW s, NEW k \in Nat, AreLines(s, k)
  PROVE  Joined(s, <<>>) = s
<1>1. PICK S : s \in Seq(S)
  BY DEF AreLines
<1> QED
  BY <1>1 DEF Joined

\* The two parts of a frontmatter, as predicates on lines.
LEMMA PartsAre ==
  ASSUME NEW n, NEW x, NEW q
  PROVE  /\ AreLines(Head5(n), 5) /\ StartsWell(Head5(n), n, "d")
         /\ AreLines(Item(x, q), 3) /\ HasItem(Item(x, q), 1, x, q)
  BY HeadIs, ItemIs DEF AreLines

\* The lines of SkillFile.
LinesOf(n, required, optional) ==
  Joined(Joined(Head5(n), FlattenSeq([i \in DOMAIN required |-> Item(required[i], "true")])),
         FlattenSeq([i \in DOMAIN optional |-> Item(optional[i], "false")]))

\* The fields of a file of the repository.
LEMMA FileIs ==
  ASSUME NEW n, NEW required, NEW optional, NEW holes
  PROVE  LET f == SkillFile(n, required, optional, holes)
         IN  /\ f.md /\ f.opened /\ f.closed
             /\ f.lines = LinesOf(n, required, optional)
             /\ f.body = Joined(<<Token("text", n)>>, [i \in DOMAIN holes |-> Hole(holes[i])])
  BY Zenon DEF SkillFile, LinesOf, Joined, Head5

\* The lines of a file of one argument.
LEMMA OneLines ==
  ASSUME NEW n, NEW x
  PROVE  LET lines == LinesOf(n, <<x>>, <<>>)
         IN AreLines(lines, 8) /\ StartsWell(lines, n, "d") /\ HasItem(lines, 6, x, "true")
<1>1. PICK h, i, t, f : h = Head5(n) /\ t = "true" /\ i = Item(x, t) /\ f = "false"
  OBVIOUS
<1>2. /\ FlattenSeq([j \in DOMAIN <<x>> |-> Item(<<x>>[j], t)]) = i
      /\ FlattenSeq([j \in DOMAIN <<>> |-> Item(<<>>[j], f)]) = <<>>
  BY <1>1, ItemsAre
<1>3. LinesOf(n, <<x>>, <<>>) = Joined(Joined(h, i), <<>>)
  BY <1>1, <1>2, Zenon DEF LinesOf
<1>4. AreLines(h, 5) /\ StartsWell(h, n, "d") /\ AreLines(i, 3) /\ HasItem(i, 1, x, t)
  BY <1>1, PartsAre
<1>5. PICK s : s = Joined(h, i)
  OBVIOUS
<1>6. AreLines(s, 8)
  <2>1. AreLines(Joined(h, i), 5 + 3)
    BY <1>4, JoinedIs
  <2> QED
    BY <1>5, <2>1
<1>7. StartsWell(s, n, "d") /\ HasItem(s, 6, x, t)
  <2>1. PICK k \in Nat, m \in Nat, j \in Nat : k = 5 /\ m = 3 /\ j = 1
    OBVIOUS
  <2>2. j \in 1..m /\ j + 2 <= m /\ k + j = 6 /\ k >= 5
    BY <2>1
  <2>3. AreLines(h, k) /\ AreLines(i, m) /\ HasItem(i, j, x, t)
    BY <1>4, <2>1
  <2>4. HasItem(Joined(h, i), k + j, x, t) /\ StartsWell(Joined(h, i), n, "d")
    BY <1>4, <2>2, <2>3, ItemStays
  <2> QED
    BY <1>5, <2>2, <2>4
<1>8. Joined(s, <<>>) = s
  BY <1>6, NoneJoined
<1> QED
  BY <1>1, <1>3, <1>5, <1>6, <1>7, <1>8

\* The lines of a file of two arguments, joined in either order.
LEMMA TwoLines ==
  ASSUME NEW n, NEW x, NEW y, NEW t, NEW q, NEW lines,
         \/ lines = Joined(Joined(Head5(n), Item(x, t)), Item(y, q))
         \/ lines = Joined(Head5(n), Joined(Item(x, t), Item(y, q)))
  PROVE  AreLines(lines, 11) /\ StartsWell(lines, n, "d") /\ HasItem(lines, 6, x, t) /\ HasItem(lines, 9, y, q)
<1>1. PICK h, i, j : h = Head5(n) /\ i = Item(x, t) /\ j = Item(y, q)
  OBVIOUS
<1>2. /\ AreLines(h, 5) /\ StartsWell(h, n, "d") /\ AreLines(i, 3) /\ HasItem(i, 1, x, t)
      /\ AreLines(j, 3) /\ HasItem(j, 1, y, q)
  BY <1>1, PartsAre
<1>3. PICK five \in Nat, three \in Nat, one \in Nat, six \in Nat, eight \in Nat :
        five = 5 /\ three = 3 /\ one = 1 /\ six = 6 /\ eight = 8
  OBVIOUS
<1>4. /\ five + three = 8 /\ one + 2 <= three /\ one \in 1..three /\ five + one = six /\ five >= 5
      /\ three + three = six /\ eight + three = 11 /\ five + six = 11 /\ eight + one = 9 /\ six = 6 /\ three + one = 4
      /\ eight = 8 /\ six + 2 <= eight /\ six \in 1..eight /\ eight >= 5 /\ one + 2 <= six /\ one \in 1..six
      /\ 4 + 2 <= six /\ 4 \in 1..six /\ five + 4 = 9
  BY <1>3
<1>5. /\ AreLines(h, five) /\ AreLines(i, three) /\ HasItem(i, one, x, t)
      /\ AreLines(j, three) /\ HasItem(j, one, y, q)
  BY <1>2, <1>3
<1>6. CASE lines = Joined(Joined(h, i), j)
  <2>1. PICK s : s = Joined(h, i)
    OBVIOUS
  <2>2. AreLines(s, eight)
    <3>1. AreLines(Joined(h, i), five + three)
      BY <1>5, JoinedIs
    <3> QED
      BY <1>4, <2>1, <3>1
  <2>3. HasItem(s, six, x, t) /\ StartsWell(s, n, "d")
    <3>1. HasItem(Joined(h, i), five + one, x, t) /\ StartsWell(Joined(h, i), n, "d")
      BY <1>2, <1>4, <1>5, ItemStays
    <3> QED
      BY <1>4, <2>1, <3>1
  <2>4. AreLines(Joined(s, j), eight + three)
    BY <1>5, <2>2, JoinedIs
  <2>5. HasItem(Joined(s, j), six, x, t) /\ StartsWell(Joined(s, j), n, "d")
    BY <1>4, <1>5, <2>2, <2>3, ItemStays
  <2>6. HasItem(Joined(s, j), eight + one, y, q)
    BY <1>4, <1>5, <2>2, ItemStays
  <2> QED
    BY <1>4, <1>6, <2>1, <2>4, <2>5, <2>6
<1>7. CASE lines = Joined(h, Joined(i, j))
  <2>1. PICK s : s = Joined(i, j)
    OBVIOUS
  <2>2. AreLines(s, six)
    <3>1. AreLines(Joined(i, j), three + three)
      BY <1>5, JoinedIs
    <3> QED
      BY <1>4, <2>1, <3>1
  <2>3. HasItem(s, one, x, t)
    <3>1. HasItem(Joined(i, j), one, x, t)
      BY <1>4, <1>5, ItemStays
    <3> QED
      BY <2>1, <3>1
  <2>4. HasItem(s, 4, y, q)
    <3>1. HasItem(Joined(i, j), three + one, y, q)
      BY <1>4, <1>5, ItemStays
    <3> QED
      BY <1>4, <2>1, <3>1
  <2>5. AreLines(Joined(h, s), five + six)
    BY <1>5, <2>2, JoinedIs
  <2>6. StartsWell(Joined(h, s), n, "d") /\ HasItem(Joined(h, s), five + one, x, t)
    BY <1>2, <1>4, <1>5, <2>2, <2>3, ItemStays
  <2>7. HasItem(Joined(h, s), five + 4, y, q)
    <3>1. PICK four \in Nat : four = 4
      OBVIOUS
    <3>2. HasItem(s, four, y, q) /\ four \in 1..six /\ four + 2 <= six
      BY <1>4, <2>4, <3>1
    <3>3. HasItem(Joined(h, s), five + four, y, q)
      BY <1>5, <2>2, <3>2, ItemStays
    <3> QED
      BY <3>1, <3>3
  <2> QED
    BY <1>4, <1>7, <2>1, <2>5, <2>6, <2>7
<1> QED
  BY <1>1, <1>6, <1>7

\* A file of two arguments joins its lines in one of these orders.
LEMMA TwoLinesOf ==
  ASSUME NEW n, NEW x, NEW y
  PROVE  /\ LinesOf(n, <<x, y>>, <<>>) = Joined(Head5(n), Joined(Item(x, "true"), Item(y, "true")))
         /\ LinesOf(n, <<x>>, <<y>>) = Joined(Joined(Head5(n), Item(x, "true")), Item(y, "false"))
<1>1. PICK h, t, f : h = Head5(n) /\ t = "true" /\ f = "false"
  OBVIOUS
<1>2. /\ FlattenSeq([j \in DOMAIN <<x, y>> |-> Item(<<x, y>>[j], t)]) = Joined(Item(x, t), Item(y, t))
      /\ FlattenSeq([j \in DOMAIN <<x>> |-> Item(<<x>>[j], t)]) = Item(x, t)
      /\ FlattenSeq([j \in DOMAIN <<y>> |-> Item(<<y>>[j], f)]) = Item(y, f)
      /\ FlattenSeq([j \in DOMAIN <<>> |-> Item(<<>>[j], f)]) = <<>>
  <2>1. FlattenSeq([j \in DOMAIN <<x, y>> |-> Item(<<x, y>>[j], t)]) = Joined(Item(x, t), Item(y, t))
    <3>1. [j \in DOMAIN <<x, y>> |-> Item(<<x, y>>[j], t)] = <<Item(x, t), Item(y, t)>>
      OBVIOUS
    <3>2. FlattenSeq(<<Item(x, t), Item(y, t)>>) = Joined(Item(x, t), Item(y, t))
      BY FlattenFew
    <3> QED
      BY <3>1, <3>2
  <2>2. FlattenSeq([j \in DOMAIN <<x>> |-> Item(<<x>>[j], t)]) = Item(x, t)
    BY ItemsAre
  <2>3. FlattenSeq([j \in DOMAIN <<y>> |-> Item(<<y>>[j], f)]) = Item(y, f)
    BY ItemsAre
  <2>4. FlattenSeq([j \in DOMAIN <<>> |-> Item(<<>>[j], f)]) = <<>>
    BY ItemsAre
  <2> QED
    BY <2>1, <2>2, <2>3, <2>4, Zenon
<1>3. LinesOf(n, <<x, y>>, <<>>) = Joined(Joined(h, Joined(Item(x, t), Item(y, t))), <<>>)
  BY <1>1, <1>2, Zenon DEF LinesOf
<1>4. LinesOf(n, <<x>>, <<y>>) = Joined(Joined(h, Item(x, t)), Item(y, f))
  BY <1>1, <1>2, Zenon DEF LinesOf
<1>5. PICK s : s = Joined(h, Joined(Item(x, t), Item(y, t)))
  OBVIOUS
<1>6. AreLines(s, 11)
  BY <1>1, <1>5, TwoLines
<1>7. Joined(s, <<>>) = s
  BY <1>6, NoneJoined
<1> QED
  BY <1>1, <1>3, <1>4, <1>5, <1>7

\* A file of one argument, of two required ones, and of a required and an
\* optional one; and the skill that is all there is in a file.
IsOne(f, n, x, holes) == n # "" /\ f = SkillFile(n, <<x>>, <<>>, holes)
IsTwo(f, n, x, y, q, holes) ==
  /\ n # ""
  /\ \/ (f = SkillFile(n, <<x, y>>, <<>>, holes) /\ q = "true")
     \/ (f = SkillFile(n, <<x>>, <<y>>, holes) /\ q = "false")
HoldsOnly(f, n, d, a) == Parsed(f) = {Skill(n, d, a, f.body)}

\* What scan_paths() makes of a file of one argument, and of two.
LEMMA OneFile ==
  ASSUME NEW n, NEW x, NEW holes, NEW f, IsOne(f, n, x, holes),
         NEW d, d = "d", NEW t, t = "true"
  PROVE  HoldsOnly(f, n, d, <<Declared(x, t)>>)
<1>0. f = SkillFile(n, <<x>>, <<>>, holes) /\ n # ""
  BY DEF IsOne
<1>1. f.md /\ f.opened /\ f.closed /\ f.lines = LinesOf(n, <<x>>, <<>>)
  BY <1>0, FileIs
<1>2. PICK lines : lines = f.lines
  OBVIOUS
<1>3. AreLines(lines, 8) /\ StartsWell(lines, n, d) /\ HasItem(lines, 6, x, t)
  BY <1>1, <1>2, OneLines
<1>4. PICK read : read = ParseFrontmatter(lines)
  OBVIOUS
<1>5. read = Reading("item", n, d, <<Declared(x, t)>>)
  BY <1>3, <1>4, OneIsParsed
<1>6. read.name = n /\ read.description = d /\ read.arguments = <<Declared(x, t)>>
  BY <1>5 DEF Reading
<1>7. read.name # "" /\ read.description # ""
  BY <1>0, <1>2, <1>6
<1>8. ParseSkillFile(f) = {Skill(read.name, read.description, read.arguments, f.body)}
  BY <1>1, <1>2, <1>4, <1>7, Zenon DEF ParseSkillFile
<1> QED
  BY <1>1, <1>2, <1>6, <1>8, Zenon DEF Parsed, HoldsOnly

\* The same for a file of two arguments.
LEMMA TwoFile ==
  ASSUME NEW n, NEW x, NEW y, NEW holes, NEW f, NEW q, IsTwo(f, n, x, y, q, holes),
         NEW d, d = "d", NEW t, t = "true"
  PROVE  HoldsOnly(f, n, d, <<Declared(x, t), Declared(y, q)>>)
<1>1. /\ f.md /\ f.opened /\ f.closed
      /\ \/ (f.lines = LinesOf(n, <<x, y>>, <<>>) /\ q = "true")
         \/ (f.lines = LinesOf(n, <<x>>, <<y>>) /\ q = "false")
  BY FileIs DEF IsTwo
<1>2. PICK lines : lines = f.lines
  OBVIOUS
<1>3. AreLines(lines, 11) /\ StartsWell(lines, n, d) /\ HasItem(lines, 6, x, t) /\ HasItem(lines, 9, y, q)
  <2>1. \/ lines = Joined(Joined(Head5(n), Item(x, t)), Item(y, q))
        \/ lines = Joined(Head5(n), Joined(Item(x, t), Item(y, q)))
    BY <1>1, <1>2, TwoLinesOf
  <2> QED
    BY <1>2, <2>1, TwoLines
<1>4. PICK read : read = ParseFrontmatter(lines)
  OBVIOUS
<1>5. read = Reading("item", n, d, <<Declared(x, t), Declared(y, q)>>)
  BY <1>3, <1>4, TwoAreParsed
<1>6. read.name = n /\ read.description = d /\ read.arguments = <<Declared(x, t), Declared(y, q)>>
  BY <1>5 DEF Reading
<1>7. read.name # "" /\ read.description # ""
  BY <1>2, <1>6 DEF IsTwo
<1>8. ParseSkillFile(f) = {Skill(read.name, read.description, read.arguments, f.body)}
  BY <1>1, <1>2, <1>4, <1>7, Zenon DEF ParseSkillFile
<1> QED
  BY <1>1, <1>2, <1>6, <1>8, Zenon DEF Parsed, HoldsOnly

\* Every name is that of an argument; the names of the required ones are given.
Names(arguments, m, X) == \A x \in X : \E j \in 1..m : arguments[j].name = x
Requires(arguments, m, given) == \A j \in 1..m : arguments[j].required => arguments[j].name \in given

\* The body of SkillFile.
BodyOf(n, holes) == Joined(<<Token("text", n)>>, [i \in DOMAIN holes |-> Hole(holes[i])])

\* A body whose holes are arguments is made of tokens that may be left.
LEMMA BodyIs ==
  ASSUME NEW n, NEW X, NEW holes \in Seq(X), NEW skill, NEW args, skill.body = BodyOf(n, holes),
         NEW m \in Nat, Len(skill.arguments) = m, Names(skill.arguments, m, X)
  PROVE  skill.body \in Seq(Left(skill, args, 0))
<1>1. PICK Y : Y = Left(skill, args, 0)
  OBVIOUS
<1>2. PICK text, first, rest : /\ text = Token("text", n) /\ first = <<text>>
                               /\ rest = [i \in DOMAIN holes |-> Hole(holes[i])]
  OBVIOUS
<1>3. skill.body = Joined(first, rest)
  BY <1>2 DEF BodyOf
<1>4. PICK H : H = {Hole(x) : x \in X}
  OBVIOUS
<1>5. rest \in Seq(H)
  <2>1. PICK k \in Nat : DOMAIN holes = 1..k /\ \A i \in 1..k : holes[i] \in X
    OBVIOUS
  <2>2. \A i \in 1..k : Hole(holes[i]) \in H
    BY <1>4, <2>1
  <2> QED
    BY <1>2, <2>1, <2>2
<1>6. H \subseteq Y
  <2>1. ASSUME NEW x \in X PROVE Hole(x) \in Y
    <3>1. PICK j \in 1..m : skill.arguments[j].name = x
      BY DEF Names
    <3>2. j \in (0 + 1)..Len(skill.arguments)
      OBVIOUS
    <3> QED
      BY <1>1, <3>1, <3>2 DEF Left
  <2> QED
    BY <1>4, <2>1
<1>7. first \in Seq({text})
  BY <1>2
<1>8. text.kind = "text"
  BY <1>2 DEF Token
<1>9. text \in Y
  <2>1. PICK body : body = skill.body
    OBVIOUS
  <2>2. 1 \in DOMAIN body /\ body[1] = text
    <3>9. Len(rest) \in Nat
      BY <1>5
    <3>1. PICK one \in Nat, k \in Nat : one = 1 /\ Len(rest) = k
      BY <3>9
    <3>2. AreLines(first, one) /\ AreLines(rest, k) /\ first[1] = text
      BY <1>2, <1>5, <1>7, <3>1 DEF AreLines
    <3>3. AreLines(Joined(first, rest), one + k) /\ Agree(Joined(first, rest), first, one, rest, k)
      BY <3>2, JoinedIs
    <3>4. AreLines(body, one + k) /\ body[1] = first[1]
      BY <1>3, <2>1, <3>1, <3>3 DEF Agree
    <3>5. 1 \in DOMAIN body
      BY <3>1, <3>4 DEF AreLines
    <3> QED
      BY <3>2, <3>4, <3>5
  <2>3. text \in {t \in Range(body) : t.kind = "text"}
    BY <1>8, <2>2 DEF Range
  <2> QED
    BY <1>1, <2>1, <2>3 DEF Left
<1>10. first \in Seq(Y) /\ rest \in Seq(Y)
  BY <1>5, <1>6, <1>7, <1>9
<1>11. Joined(first, rest) \in Seq(Y)
  BY <1>10, ConcatIs
<1> QED
  BY <1>1, <1>3, <1>11

\* An argument has its name, and is required when its line says true.
LEMMA DeclaredIs ==
  ASSUME NEW x, NEW v
  PROVE  Declared(x, v).name = x /\ (Declared(x, v).required => v = "true")
  BY Zenon DEF Declared, Argument

\* The list of one argument has its name.
LEMMA OneArgument ==
  ASSUME NEW x, NEW t, NEW a, a = <<Declared(x, t)>>
  PROVE  Len(a) = 1 /\ Names(a, 1, {x}) /\ Requires(a, 1, {x})
<1>1. PICK d : d = Declared(x, t)
  OBVIOUS
<1>2. d.name = x
  BY <1>1, DeclaredIs, Zenon
<1>3. a = <<d>>
  BY <1>1
<1>4. Len(a) = 1 /\ a[1].name = x
  BY <1>2, <1>3
<1>5. \A j \in 1..1 : j = 1
  OBVIOUS
<1>6. 1 \in 1..1
  OBVIOUS
<1>7. Names(a, 1, {x})
  BY <1>4, <1>6 DEF Names
<1>8. Requires(a, 1, {x})
  BY <1>4, <1>5 DEF Requires
<1> QED
  BY <1>4, <1>7, <1>8

\* The list of two arguments has their names.
LEMMA TwoArguments ==
  ASSUME NEW x, NEW y, NEW t, NEW q, NEW a, a = <<Declared(x, t), Declared(y, q)>>
  PROVE  /\ Len(a) = 2 /\ Names(a, 2, {x, y}) /\ Requires(a, 2, {x, y})
         /\ q = "false" => Requires(a, 2, {x})
<1>1. PICK d, e : d = Declared(x, t) /\ e = Declared(y, q)
  OBVIOUS
<1>2. d.name = x /\ e.name = y /\ (e.required => q = "true")
  BY <1>1, DeclaredIs, Zenon
<1>3. a = <<d, e>>
  BY <1>1
<1>4. Len(a) = 2 /\ a[1] = d /\ a[2] = e
  BY <1>3
<1>5. \A j \in 1..2 : j = 1 \/ j = 2
  OBVIOUS
<1>6. 1 \in 1..2 /\ 2 \in 1..2
  OBVIOUS
<1>7. Names(a, 2, {x, y})
  BY <1>2, <1>4, <1>6 DEF Names
<1>8. Requires(a, 2, {x, y})
  BY <1>2, <1>4, <1>5 DEF Requires
<1>9. ASSUME q = "false" PROVE Requires(a, 2, {x})
  <2>1. ~e.required
    BY <1>2, <1>9
  <2> QED
    BY <1>2, <1>4, <1>5, <2>1 DEF Requires
<1> QED
  BY <1>4, <1>7, <1>8, <1>9

\* A file holds one skill of that name, which is whole when the arguments in
\* given are there.
Answers(f, name, given) ==
  \E skill : /\ Parsed(f) = {skill} /\ skill.name = name
             /\ \A args : given \subseteq DOMAIN args => Whole(skill, args)

\* A file whose skill has such arguments answers.
LEMMA AnswersIs ==
  ASSUME NEW f, NEW n, NEW X, NEW holes \in Seq(X), NEW given, NEW m \in Nat, NEW a, NEW d,
         Parsed(f) = {Skill(n, d, a, f.body)}, f.body = BodyOf(n, holes),
         Len(a) = m, Names(a, m, X), Requires(a, m, given)
  PROVE  Answers(f, n, given)
<1>1. PICK skill : skill = Skill(n, d, a, f.body)
  OBVIOUS
<1>2. skill.name = n /\ skill.body = BodyOf(n, holes) /\ skill.arguments = a
  BY <1>1 DEF Skill
<1>3. ASSUME NEW args, given \subseteq DOMAIN args PROVE Whole(skill, args)
  <2>1. skill.body \in Seq(Left(skill, args, 0))
    BY <1>2, BodyIs
  <2>2. \A j \in 1..Len(a) : a[j].required => a[j].name \in DOMAIN args
    BY <1>3 DEF Requires
  <2> QED
    BY <1>2, <2>1, <2>2 DEF Whole
<1> QED
  BY <1>1, <1>2, <1>3 DEF Answers

\* A file of one argument answers its name.
LEMMA OneAnswers ==
  ASSUME NEW n, n # "", NEW x, NEW holes \in Seq({x})
  PROVE  Answers(SkillFile(n, <<x>>, <<>>, holes), n, {x})
<1>0. PICK f : f = SkillFile(n, <<x>>, <<>>, holes)
  OBVIOUS
<1>1. PICK d, t : d = "d" /\ t = "true"
  OBVIOUS
<1>2. PICK a : a = <<Declared(x, t)>>
  OBVIOUS
<1>3. Parsed(f) = {Skill(n, d, a, f.body)}
  <2>1. IsOne(f, n, x, holes)
    BY <1>0 DEF IsOne
  <2>2. HoldsOnly(f, n, d, <<Declared(x, t)>>)
    BY <1>1, <2>1, OneFile
  <2> QED
    BY <1>2, <2>2, Zenon DEF HoldsOnly
<1>4. f.body = BodyOf(n, holes)
  BY <1>0, FileIs, Zenon DEF BodyOf
<1>5. PICK X : X = {x}
  OBVIOUS
<1>8. PICK m \in Nat : m = 1
  OBVIOUS
<1>6. Len(a) = m /\ Names(a, m, X) /\ Requires(a, m, X) /\ holes \in Seq(X)
  BY <1>2, <1>5, <1>8, OneArgument
<1>7. Answers(f, n, X)
  BY <1>3, <1>4, <1>6, AnswersIs
<1> QED
  BY <1>0, <1>5, <1>7, Zenon

\* A file of two arguments answers its name.
LEMMA TwoAnswers ==
  ASSUME NEW n, n # "", NEW x, NEW y, NEW holes \in Seq({x, y})
  PROVE  /\ Answers(SkillFile(n, <<x, y>>, <<>>, holes), n, {x, y})
         /\ Answers(SkillFile(n, <<x>>, <<y>>, holes), n, {x})
<1>1. PICK d, t, r : d = "d" /\ t = "true" /\ r = "false"
  OBVIOUS
<1>2. PICK X, Y : X = {x, y} /\ Y = {x}
  OBVIOUS
<1>4. PICK m \in Nat : m = 2
  OBVIOUS
<1>3. ASSUME NEW f, NEW q, NEW given,
             \/ (f = SkillFile(n, <<x, y>>, <<>>, holes) /\ q = t /\ given = X)
             \/ (f = SkillFile(n, <<x>>, <<y>>, holes) /\ q = r /\ given = Y)
      PROVE  Answers(f, n, given)
  <2>1. PICK a : a = <<Declared(x, t), Declared(y, q)>>
    OBVIOUS
  <2>2. Parsed(f) = {Skill(n, d, a, f.body)}
    <3>1. IsTwo(f, n, x, y, q, holes)
      BY <1>1, <1>3 DEF IsTwo
    <3>2. HoldsOnly(f, n, d, <<Declared(x, t), Declared(y, q)>>)
      BY <1>1, <3>1, TwoFile
    <3> QED
      BY <2>1, <3>2, Zenon DEF HoldsOnly
  <2>3. f.body = BodyOf(n, holes)
    BY <1>3, FileIs, Zenon DEF BodyOf
  <2>4. Len(a) = m /\ Names(a, m, X) /\ Requires(a, m, given) /\ holes \in Seq(X)
    <3>1. Len(a) = m /\ Names(a, m, X) /\ Requires(a, m, X) /\ (q = r => Requires(a, m, Y))
      BY <1>1, <1>2, <1>4, <2>1, TwoArguments
    <3> QED
      BY <1>2, <1>3, <3>1, Zenon
  <2> QED
    BY <2>2, <2>3, <2>4, AnswersIs
<1> QED
  BY <1>2, <1>3, Zenon

\* The skills of the repository answer to what their files require.
LEMMA RepositoryAnswers ==
  /\ Answers(SecuritySodAudit, "security_sod_audit", {"user_or_role", "scope"})
  /\ Answers(AnalyticsMigration, "analytics_migration", {"source_object"})
  /\ Answers(PeriodCloseInvestigation, "period_close_investigation", {"ledger"})
  /\ Answers(CustomCodeReview, "custom_code_review", {"object_name", "kind"})
  /\ Answers(RestServiceDesign, "rest_service_design", {"service_name"})
  /\ Answers(SandboxImpactAnalysis, "sandbox_impact_analysis", {"sandbox"})
  /\ Answers(ExtensibilityAudit, "extensibility_audit", {"project"})
  /\ Answers(KarpathyGuidelines, "karpathy_guidelines", {"task"})
<1>1. Answers(SecuritySodAudit, "security_sod_audit", {"user_or_role", "scope"})
  <2>1. <<"user_or_role", "scope", "scope", "scope", "scope", "user_or_role", "scope">> \in Seq({"user_or_role", "scope"})
    OBVIOUS
  <2>2. "security_sod_audit" # ""
    OBVIOUS
  <2> QED
    BY <2>1, <2>2, TwoAnswers, Zenon DEF SecuritySodAudit
<1>2. Answers(AnalyticsMigration, "analytics_migration", {"source_object"})
  <2>1. <<"source_object", "target_release", "source_object">> \in Seq({"source_object", "target_release"})
    OBVIOUS
  <2>2. "analytics_migration" # ""
    OBVIOUS
  <2> QED
    BY <2>1, <2>2, TwoAnswers, Zenon DEF AnalyticsMigration
<1>3. Answers(PeriodCloseInvestigation, "period_close_investigation", {"ledger"})
  <2>1. <<"ledger", "accounting_period", "accounting_period">> \in Seq({"ledger", "accounting_period"})
    OBVIOUS
  <2>2. "period_close_investigation" # ""
    OBVIOUS
  <2> QED
    BY <2>1, <2>2, TwoAnswers, Zenon DEF PeriodCloseInvestigation
<1>4. Answers(CustomCodeReview, "custom_code_review", {"object_name", "kind"})
  <2>1. <<"kind", "object_name", "object_name", "kind">> \in Seq({"object_name", "kind"})
    OBVIOUS
  <2>2. "custom_code_review" # ""
    OBVIOUS
  <2> QED
    BY <2>1, <2>2, TwoAnswers, Zenon DEF CustomCodeReview
<1>5. Answers(RestServiceDesign, "rest_service_design", {"service_name"})
  <2>1. <<"service_name", "connection", "service_name">> \in Seq({"service_name", "connection"})
    OBVIOUS
  <2>2. "rest_service_design" # ""
    OBVIOUS
  <2> QED
    BY <2>1, <2>2, TwoAnswers, Zenon DEF RestServiceDesign
<1>6. Answers(SandboxImpactAnalysis, "sandbox_impact_analysis", {"sandbox"})
  <2>1. <<"sandbox", "target", "sandbox">> \in Seq({"sandbox", "target"})
    OBVIOUS
  <2>2. "sandbox_impact_analysis" # ""
    OBVIOUS
  <2> QED
    BY <2>1, <2>2, TwoAnswers, Zenon DEF SandboxImpactAnalysis
<1>7. Answers(ExtensibilityAudit, "extensibility_audit", {"project"})
  <2>1. <<"project", "project">> \in Seq({"project"})
    OBVIOUS
  <2>2. "extensibility_audit" # ""
    OBVIOUS
  <2> QED
    BY <2>1, <2>2, OneAnswers, Zenon DEF ExtensibilityAudit
<1>8. Answers(KarpathyGuidelines, "karpathy_guidelines", {"task"})
  <2>1. <<"task">> \in Seq({"task"})
    OBVIOUS
  <2>2. "karpathy_guidelines" # ""
    OBVIOUS
  <2> QED
    BY <2>1, <2>2, OneAnswers, Zenon DEF KarpathyGuidelines
<1> QED
  BY <1>1, <1>2, <1>3, <1>4, <1>5, <1>6, <1>7, <1>8, Zenon

\* A rule names a skill and gives it these arguments.
Asks(rule, name, given) == rule.skill = name /\ given \subseteq DOMAIN rule.args

\* A rule of one argument gives it.
LEMMA OneAsked ==
  ASSUME NEW k, NEW n, NEW a, NEW x
  PROVE  Asks(Rule(k, n, One(a, x)), n, {a})
  BY Zenon DEF Asks, Rule, One

\* A rule of two arguments gives them.
LEMMA TwoAsked ==
  ASSUME NEW k, NEW n, NEW a, NEW x, NEW b, NEW y
  PROVE  Asks(Rule(k, n, Two(a, x, b, y)), n, {a, b})
  BY Zenon DEF Asks, Rule, Two

\* The rules of the router, in their order, with the skills they name.
RouterRules(rules) ==
  /\ DOMAIN rules = 1..8
  /\ \E r1, r2, r3, r4, r5, r6, r7, r8 :
       /\ rules = <<r1, r2, r3, r4, r5, r6, r7, r8>>
       /\ Asks(r1, "security_sod_audit", {"user_or_role", "scope"})
       /\ Asks(r2, "analytics_migration", {"source_object"})
       /\ Asks(r3, "period_close_investigation", {"ledger"})
       /\ Asks(r4, "custom_code_review", {"object_name", "kind"})
       /\ Asks(r5, "rest_service_design", {"service_name"})
       /\ Asks(r6, "sandbox_impact_analysis", {"sandbox"})
       /\ Asks(r7, "extensibility_audit", {"project"})
       /\ Asks(r8, "karpathy_guidelines", {"task"})

\* Eight rules of that kind are the rules of the router.
LEMMA EightRules ==
  ASSUME NEW r1, NEW r2, NEW r3, NEW r4, NEW r5, NEW r6, NEW r7, NEW r8,
         Asks(r1, "security_sod_audit", {"user_or_role", "scope"}),
         Asks(r2, "analytics_migration", {"source_object"}),
         Asks(r3, "period_close_investigation", {"ledger"}),
         Asks(r4, "custom_code_review", {"object_name", "kind"}),
         Asks(r5, "rest_service_design", {"service_name"}),
         Asks(r6, "sandbox_impact_analysis", {"sandbox"}),
         Asks(r7, "extensibility_audit", {"project"}),
         Asks(r8, "karpathy_guidelines", {"task"})
  PROVE  RouterRules(<<r1, r2, r3, r4, r5, r6, r7, r8>>)
<1>1. PICK rules : rules = <<r1, r2, r3, r4, r5, r6, r7, r8>>
  OBVIOUS
<1> QED
  <2>1. DOMAIN rules = 1..8
    BY <1>1
  <2> QED
    BY <1>1, <2>1, Zenon DEF RouterRules

\* The rules of match_skill() are.
LEMMA RulesAre == RouterRules(Rules)
  BY OneAsked, TwoAsked, EightRules, Zenon DEF Rules, AuditArguments

\* The names the rules know, with the arguments a skill of that name requires.
Known(n, given) ==
  \/ (n = "security_sod_audit" /\ given = {"user_or_role", "scope"})
  \/ (n = "analytics_migration" /\ given = {"source_object"})
  \/ (n = "period_close_investigation" /\ given = {"ledger"})
  \/ (n = "custom_code_review" /\ given = {"object_name", "kind"})
  \/ (n = "rest_service_design" /\ given = {"service_name"})
  \/ (n = "sandbox_impact_analysis" /\ given = {"sandbox"})
  \/ (n = "extensibility_audit" /\ given = {"project"})
  \/ (n = "karpathy_guidelines" /\ given = {"task"})

\* A name has one set of required arguments.
LEMMA KnownIs ==
  ASSUME NEW n, NEW g, NEW h, Known(n, g), Known(n, h)
  PROVE  g = h
  BY Zenon DEF Known

\* The names known, each with its arguments.
LEMMA KnownNames ==
  /\ Known("security_sod_audit", {"user_or_role", "scope"})
  /\ Known("analytics_migration", {"source_object"})
  /\ Known("period_close_investigation", {"ledger"})
  /\ Known("custom_code_review", {"object_name", "kind"})
  /\ Known("rest_service_design", {"service_name"})
  /\ Known("sandbox_impact_analysis", {"sandbox"})
  /\ Known("extensibility_audit", {"project"})
  /\ Known("karpathy_guidelines", {"task"})
  BY Zenon DEF Known

\* A rule names a known skill and gives it what it requires.
LEMMA RuleAsks ==
  ASSUME NEW i \in DOMAIN Rules
  PROVE  \E n, given : Known(n, given) /\ Asks(Rules[i], n, given)
<1>1. PICK r1, r2, r3, r4, r5, r6, r7, r8 :
        /\ Rules = <<r1, r2, r3, r4, r5, r6, r7, r8>>
        /\ Asks(r1, "security_sod_audit", {"user_or_role", "scope"})
        /\ Asks(r2, "analytics_migration", {"source_object"})
        /\ Asks(r3, "period_close_investigation", {"ledger"})
        /\ Asks(r4, "custom_code_review", {"object_name", "kind"})
        /\ Asks(r5, "rest_service_design", {"service_name"})
        /\ Asks(r6, "sandbox_impact_analysis", {"sandbox"})
        /\ Asks(r7, "extensibility_audit", {"project"})
        /\ Asks(r8, "karpathy_guidelines", {"task"})
  BY RulesAre, Zenon DEF RouterRules
<1>2. ASSUME NEW r, r \in {r1, r2, r3, r4, r5, r6, r7, r8} PROVE \E n, given : Known(n, given) /\ Asks(r, n, given)
  <2>1. CASE r = r1
    BY <1>1, <2>1, KnownNames, Zenon
  <2>2. CASE r = r2
    BY <1>1, <2>2, KnownNames, Zenon
  <2>3. CASE r = r3
    BY <1>1, <2>3, KnownNames, Zenon
  <2>4. CASE r = r4
    BY <1>1, <2>4, KnownNames, Zenon
  <2>5. CASE r = r5
    BY <1>1, <2>5, KnownNames, Zenon
  <2>6. CASE r = r6
    BY <1>1, <2>6, KnownNames, Zenon
  <2>7. CASE r = r7
    BY <1>1, <2>7, KnownNames, Zenon
  <2>8. CASE r = r8
    BY <1>1, <2>8, KnownNames, Zenon
  <2> QED
    BY <1>2, <2>1, <2>2, <2>3, <2>4, <2>5, <2>6, <2>7, <2>8, Zenon
<1>3. PICK rules : rules = Rules
  OBVIOUS
<1>4. rules[i] \in {r1, r2, r3, r4, r5, r6, r7, r8}
  <2>1. i \in DOMAIN rules /\ rules = <<r1, r2, r3, r4, r5, r6, r7, r8>>
    BY <1>1, <1>3, Zenon
  <2> QED
    BY <2>1
<1> QED
  BY <1>2, <1>3, <1>4, Zenon

\* A file of the repository holds one skill, of a known name.
LEMMA FileAnswers ==
  ASSUME NEW f \in Range(RepositorySkills)
  PROVE  \E n, given : Known(n, given) /\ Answers(f, n, given)
<1>1. PICK f1, f2, f3, f4, f5, f6, f7, f8 :
        /\ f1 = SecuritySodAudit
        /\ f2 = AnalyticsMigration
        /\ f3 = PeriodCloseInvestigation
        /\ f4 = CustomCodeReview
        /\ f5 = RestServiceDesign
        /\ f6 = SandboxImpactAnalysis
        /\ f7 = ExtensibilityAudit
        /\ f8 = KarpathyGuidelines
  OBVIOUS
<1>2. RepositorySkills = <<f1, f2, f3, f4, f5, f6, f7, f8>>
  BY <1>1, Zenon DEF RepositorySkills
<1>3. f \in {f1, f2, f3, f4, f5, f6, f7, f8}
  <2>1. PICK files : files = RepositorySkills /\ files = <<f1, f2, f3, f4, f5, f6, f7, f8>>
    BY <1>2
  <2>2. f \in Range(files)
    BY <2>1, Zenon
  <2> QED
    BY <2>1, <2>2 DEF Range
<1>4. CASE f = f1
  BY <1>1, <1>4, RepositoryAnswers, KnownNames, Zenon
<1>5. CASE f = f2
  BY <1>1, <1>5, RepositoryAnswers, KnownNames, Zenon
<1>6. CASE f = f3
  BY <1>1, <1>6, RepositoryAnswers, KnownNames, Zenon
<1>7. CASE f = f4
  BY <1>1, <1>7, RepositoryAnswers, KnownNames, Zenon
<1>8. CASE f = f5
  BY <1>1, <1>8, RepositoryAnswers, KnownNames, Zenon
<1>9. CASE f = f6
  BY <1>1, <1>9, RepositoryAnswers, KnownNames, Zenon
<1>10. CASE f = f7
  BY <1>1, <1>10, RepositoryAnswers, KnownNames, Zenon
<1>11. CASE f = f8
  BY <1>1, <1>11, RepositoryAnswers, KnownNames, Zenon
<1> QED
  BY <1>3, <1>4, <1>5, <1>6, <1>7, <1>8, <1>9, <1>10, <1>11, Zenon

\* A skill of the repository is whole for the rule that names it.
LEMMA RuleServed ==
  ASSUME NEW i \in DOMAIN Rules, NEW f \in Range(RepositorySkills), NEW skill \in Parsed(f),
         skill.name = Rules[i].skill
  PROVE  Whole(skill, Rules[i].args)
<1>1. PICK n, given : Known(n, given) /\ Asks(Rules[i], n, given)
  BY RuleAsks
<1>2. PICK k, needed : Known(k, needed) /\ Answers(f, k, needed)
  BY FileAnswers
<1>3. PICK only : /\ Parsed(f) = {only} /\ only.name = k
                  /\ \A args : needed \subseteq DOMAIN args => Whole(only, args)
  BY <1>2, Zenon DEF Answers
<1>4. skill = only /\ k = n /\ given \subseteq DOMAIN Rules[i].args
  BY <1>1, <1>3, Zenon DEF Asks
<1>5. needed = given
  BY <1>1, <1>2, <1>4, KnownIs
<1> QED
  BY <1>3, <1>4, <1>5, Zenon

\* A set of numbers below a bound has a greatest one.
LEMMA LastIs ==
  ASSUME NEW n \in Nat, NEW S, S \subseteq 1..n, S # {}
  PROVE  Max(S) \in S
<1> DEFINE gaps == {n - k : k \in S}
<1>1. gaps \subseteq Nat /\ gaps # {}
  <2>1. \A k \in S : k \in Nat /\ n - k \in Nat
    OBVIOUS
  <2> QED
    BY <2>1
<1>2. PICK g \in gaps : \A h \in gaps : g <= h
  <2> HIDE DEF gaps
  <2> QED
    BY <1>1, LeastExists
<1>3. PICK k \in S : g = n - k
  BY <1>2
<1>4. \A j \in S : k >= j
  <2> TAKE j \in S
  <2>1. n - j \in gaps
    OBVIOUS
  <2>2. n - k <= n - j
    BY <1>2, <1>3, <2>1
  <2> QED
    BY <2>2
<1> QED
  BY <1>4, Zenon DEF Max

\* A set of numbers has a smallest one.
LEMMA FirstIs ==
  ASSUME NEW S, S \subseteq Nat, S # {}
  PROVE  Min(S) \in S
<1>1. PICK i \in S : \A j \in S : i <= j
  BY LeastExists
<1> QED
  BY <1>1, Zenon DEF Min

\* scan_paths() keeps, of a name, the skill of the last file that declares it.
LEMMA LastStays ==
  ASSUME NEW files \in Seq(SkillFiles), NEW n \in DOMAIN ScanPaths(files).skills
  PROVE  LET those == Declaring(files, n)
             kept  == files[Max(those)]
         IN  /\ those # {} /\ Max(those) \in those
             /\ ScanPaths(files).skills[n] = CHOOSE skill \in Parsed(kept) : TRUE
<1> DEFINE read == {i \in DOMAIN files : Parsed(files[i]) # {}}
           skillOf(i) == CHOOSE skill \in Parsed(files[i]) : TRUE
           those == Declaring(files, n)
<1>1. ScanPaths(files).skills =
        [k \in {skillOf(i).name : i \in read} |-> skillOf(Max(Declaring(files, k)))]
  BY Zenon DEF ScanPaths
<1>2. PICK i \in read : skillOf(i).name = n
  <2>1. n \in {skillOf(i).name : i \in read}
    BY <1>1
  <2> QED
    BY <2>1
<1>3. skillOf(i) \in Parsed(files[i])
  BY <1>2
<1>4. i \in those
  BY <1>2, <1>3 DEF Declaring
<1>5. Max(those) \in those
  <2>1. PICK m \in Nat : DOMAIN files = 1..m
    OBVIOUS
  <2>2. those \subseteq 1..m
    BY <2>1 DEF Declaring
  <2> HIDE DEF those
  <2> QED
    BY <1>4, <2>2, LastIs
<1>6. ScanPaths(files).skills[n] = skillOf(Max(those))
  BY <1>1, Zenon
<1> QED
  BY <1>4, <1>5, <1>6, Zenon

\* A loaded skill the rules name is whole.
LEMMA LoadedIsWhole ==
  ASSUME NEW loaded \in Loaded, NEW i \in DOMAIN Rules, Rules[i].skill \in DOMAIN loaded
  PROVE  Whole(loaded[Rules[i].skill], Rules[i].args)
<1>1. PICK files \in Folders : loaded = ScanPaths(files).skills
  BY Zenon DEF Loaded
<1>2. PICK n : n = Rules[i].skill
  OBVIOUS
<1>3. files \in Seq(SkillFiles) /\ n \in DOMAIN ScanPaths(files).skills
  BY <1>1, <1>2, SkillsAssumption, Zenon
<1>4. PICK those, kept :
        /\ those = Declaring(files, n) /\ kept = files[Max(those)]
        /\ those # {} /\ Max(those) \in those
        /\ loaded[n] = CHOOSE skill \in Parsed(kept) : TRUE
  BY <1>1, <1>3, LastStays, Zenon
<1>5. kept \in Range(RepositorySkills)
  BY <1>2, <1>4, SkillsAssumption, Zenon
<1>6. PICK skill \in Parsed(kept) : skill.name = n
  BY <1>4, Zenon DEF Declaring
<1>7. loaded[n] = skill
  <2>1. PICK only : Parsed(kept) = {only}
    BY <1>5, FileAnswers, Zenon DEF Answers
  <2>2. loaded[n] \in Parsed(kept)
    BY <1>4, <1>6
  <2> QED
    BY <1>6, <2>1, <2>2
<1> QED
  BY <1>2, <1>5, <1>6, <1>7, RuleServed, Zenon

\* The router takes one of the rules that apply.
LEMMA MatchIs ==
  ASSUME NEW words, Matching(words) # {}
  PROVE  \E i \in DOMAIN Rules : MatchSkill(words) = Rules[i]
<1>1. DOMAIN Rules \subseteq Nat
  <2>1. DOMAIN Rules = 1..8
    BY RulesAre, Zenon DEF RouterRules
  <2> QED
    BY <2>1
<1>2. Matching(words) \subseteq DOMAIN Rules
  BY Zenon DEF Matching
<1>3. Matching(words) \subseteq Nat
  BY <1>1, <1>2, Zenon
<1>4. Min(Matching(words)) \in Matching(words)
  BY <1>3, FirstIs
<1> QED
  BY <1>2, <1>4, Zenon DEF MatchSkill

\* Neither a hole nor a missing argument.
AllTexts(text) == \A i \in DOMAIN text : text[i].kind = "text"

\* Where a message is before its skill answers.
Asking == {"skill", "prompting"}

\* A message asks for a skill only if a rule applies, and is never told anything
\* but texts.
SkillsOK ==
  /\ prompts \in Loaded
  /\ \A m \in Messages : route[m].at \in Asking => Matching(inbox[m].words) # {}
  /\ \A m \in Messages : AllTexts(route[m].text)

\* A step of one message that tells it texts only.
LEMMA SkillsStay ==
  ASSUME SkillsOK, Typed, UNCHANGED <<inbox, prompts>>, NEW m \in Messages, NEW r,
         route' = [route EXCEPT ![m] = r], AllTexts(r.text),
         r.at \in Asking => Matching(inbox[m].words) # {}
  PROVE  SkillsOK'
<1>1. \A k \in Messages : route'[k] = IF k = m THEN r ELSE route[k]
  BY Zenon DEF Typed
<1>2. ASSUME NEW k \in Messages
      PROVE  AllTexts(route'[k].text) /\ (route'[k].at \in Asking => Matching(inbox[k].words) # {})
  BY <1>1, Zenon DEF SkillsOK
<1> QED
  BY <1>2, Zenon DEF SkillsOK

\* What [r EXCEPT !.at = at] changes and keeps.
LEMMA MovedIs ==
  ASSUME NEW r, IsRoute(r), NEW at, NEW moved, moved = [r EXCEPT !.at = at]
  PROVE  moved.at = at /\ moved.text = r.text
  BY DEF IsRoute

\* Every step of route() keeps the invariant.
LEMMA RouteSkills ==
  ASSUME SkillsOK, Typed, NEW m \in Messages, RouteStep(m)
  PROVE  SkillsOK'
<1>0. IsRoute(route[m]) /\ AllTexts(route[m].text)
  BY DEF Typed, SkillsOK
<1>1. ASSUME NEW at, route' = [route EXCEPT ![m].at = at], UNCHANGED <<inbox, prompts>>,
             at \in Asking => Matching(inbox[m].words) # {}
      PROVE  SkillsOK'
  <2>1. PICK r : r = [route[m] EXCEPT !.at = at]
    OBVIOUS
  <2>2. route' = [route EXCEPT ![m] = r]
    BY <1>1, <2>1, Zenon
  <2>3. r.at = at /\ r.text = route[m].text
    BY <1>0, <2>1, MovedIs
  <2> QED
    BY <1>0, <1>1, <2>2, <2>3, SkillsStay
<1>2. ASSUME NEW via, NEW text, route' = [route EXCEPT ![m] = [at |-> "answered", via |-> via, text |-> text]],
             UNCHANGED <<inbox, prompts>>, AllTexts(text)
      PROVE  SkillsOK'
  <2>1. PICK r : r = [at |-> "answered", via |-> via, text |-> text]
    OBVIOUS
  <2>2. r.at \notin Asking /\ r.text = text
    BY <2>1 DEF Asking
  <2> QED
    BY <1>2, <2>1, <2>2, SkillsStay, Zenon
<1>3. ASSUME Receive(m) PROVE SkillsOK'
  <2>1. PICK at : /\ route' = [route EXCEPT ![m].at = at]
                  /\ at \in Asking => Matching(inbox[m].words) # {}
                  /\ UNCHANGED <<inbox, prompts>>
    <3>1. PICK at : at = IF Matching(inbox[m].words) # {} THEN "skill" ELSE "tool"
      OBVIOUS
    <3>2. at \in Asking => Matching(inbox[m].words) # {}
      BY <3>1 DEF Asking
    <3> QED
      BY <1>3, <3>1, <3>2, Zenon DEF Receive, Rest
  <2> QED
    BY <1>1, <2>1
<1>4. ASSUME PromptAnswers(m) PROVE SkillsOK'
  <2>1. PICK rule, text :
          /\ rule = MatchSkill(inbox[m].words) /\ rule.skill \in DOMAIN prompts
          /\ text = Render(prompts[rule.skill], rule.args)
          /\ route' = [route EXCEPT ![m] = [at |-> "answered", via |-> rule.skill, text |-> text]]
          /\ route[m].at = "prompting" /\ UNCHANGED <<inbox, prompts>>
    BY <1>4, Zenon DEF PromptAnswers, Rest
  <2>2. PICK i \in DOMAIN Rules : rule = Rules[i]
    <3>1. route[m].at \in Asking
      BY <2>1 DEF Asking
    <3> QED
      BY <2>1, <3>1, MatchIs, Zenon DEF SkillsOK
  <2>3. Whole(prompts[rule.skill], rule.args)
    BY <2>1, <2>2, LoadedIsWhole, Zenon DEF SkillsOK
  <2>4. AllTexts(text)
    <3>1. PICK skill, args : skill = prompts[rule.skill] /\ args = rule.args
      OBVIOUS
    <3>2. Whole(skill, args) /\ text = Render(skill, args)
      BY <2>1, <2>3, <3>1, Zenon
    <3>3. \A j \in DOMAIN Render(skill, args) : Render(skill, args)[j].kind = "text"
      BY <3>2, RenderIsWhole
    <3> QED
      BY <3>2, <3>3, Zenon DEF AllTexts
  <2> QED
    BY <1>2, <2>1, <2>4
<1>5. ASSUME PromptFails(m) PROVE SkillsOK'
  <2>1. PICK at : route' = [route EXCEPT ![m].at = at] /\ at = "tool" /\ UNCHANGED <<inbox, prompts>>
    BY <1>5, Zenon DEF PromptFails, RestOfCall, Rest, AfterPromptError
  <2> QED
    BY <1>1, <2>1 DEF Asking
<1>6. ASSUME ToolAnswers(m) PROVE SkillsOK'
  <2>1. PICK via, text :
          /\ route' = [route EXCEPT ![m] = [at |-> "answered", via |-> via, text |-> text]]
          /\ text = <<>> /\ UNCHANGED <<inbox, prompts>>
    BY <1>6, Zenon DEF ToolAnswers, Rest
  <2>2. AllTexts(text)
    BY <2>1 DEF AllTexts
  <2> QED
    BY <1>2, <2>1, <2>2
<1>7. ASSUME ToolFails(m) PROVE SkillsOK'
  <2>1. PICK at : route' = [route EXCEPT ![m].at = at] /\ at = "failed" /\ UNCHANGED <<inbox, prompts>>
    BY <1>7, Zenon DEF ToolFails, RestOfCall, Rest
  <2> QED
    BY <1>1, <2>1 DEF Asking
<1>8. ASSUME Reply(m) PROVE SkillsOK'
  <2>1. PICK at : route' = [route EXCEPT ![m].at = at] /\ at \notin Asking /\ UNCHANGED <<inbox, prompts>>
    <3>1. PICK at : at = IF SendResult(Address(m)) = "ok" THEN "replied" ELSE "failed"
      OBVIOUS
    <3>2. at \notin Asking
      BY <3>1 DEF Asking
    <3> QED
      BY <1>8, <3>1, <3>2, Zenon DEF Reply, Rest
  <2> QED
    BY <1>1, <2>1
<1>9. ASSUME GetPrompt(m) PROVE SkillsOK'
  <2>1. PICK at : route' = [route EXCEPT ![m].at = at] /\ UNCHANGED <<inbox, prompts>>
    BY <1>9, Zenon DEF GetPrompt, RestOfCall, Rest
  <2>2. Matching(inbox[m].words) # {}
    <3>1. route[m].at \in Asking
      BY <1>9 DEF GetPrompt, Asking
    <3> QED
      BY <3>1, Zenon DEF SkillsOK
  <2> QED
    BY <1>1, <2>1, <2>2
<1>10. ASSUME CallTool(m) PROVE SkillsOK'
  <2>1. PICK at : route' = [route EXCEPT ![m].at = at] /\ at = "calling" /\ UNCHANGED <<inbox, prompts>>
    BY <1>10, Zenon DEF CallTool, RestOfCall, Rest
  <2> QED
    BY <1>1, <2>1 DEF Asking
<1> QED
  BY <1>3, <1>4, <1>5, <1>6, <1>7, <1>8, <1>9, <1>10 DEF RouteStep

\* No message has been told anything.
LEMMA InitSkills == Init => SkillsOK
<1> SUFFICES ASSUME Init PROVE SkillsOK
  OBVIOUS
<1>1. prompts \in Loaded /\ route = [m \in Messages |-> Fresh]
  BY Zenon DEF Init
<1>2. Fresh.at \notin Asking /\ AllTexts(Fresh.text)
  BY DEF Fresh, AllTexts, Asking
<1> QED
  BY <1>1, <1>2, Zenon DEF SkillsOK

\* No other step touches the prompts, the inbox or the routes.
LEMMA StepSkills == RepliesOK /\ SkillsOK /\ [Next]_vars => SkillsOK'
<1> SUFFICES ASSUME RepliesOK, SkillsOK, [Next]_vars PROVE SkillsOK'
  OBVIOUS
<1>1. ASSUME NEW m \in Messages, RouteStep(m) PROVE SkillsOK'
  BY <1>1, RouteSkills DEF RepliesOK
<1>2. ASSUME MainStep \/ ServerDies \/ ReaderEnds \/ Remember \/ UNCHANGED vars PROVE UNCHANGED <<prompts, inbox, route>>
  <2>1. ASSUME Connect \/ Initialize \/ SkipJob \/ InvokeJob \/ JobsDone \/ MessageDone \/ ServerEnded
        PROVE  UNCHANGED <<prompts, inbox, route>>
    BY <2>1, Zenon DEF Connect, Initialize, SkipJob, InvokeJob, JobsDone, MessageDone, ServerEnded
  <2>2. ASSUME NEW call, ReportJob(call) PROVE UNCHANGED <<prompts, inbox, route>>
    BY <2>2, Zenon DEF ReportJob
  <2>3. ASSUME ServerDies \/ ReaderEnds PROVE UNCHANGED <<prompts, inbox, route>>
    BY <2>3, Zenon DEF ServerDies, ReaderEnds
  <2>4. ASSUME Remember PROVE UNCHANGED <<prompts, inbox, route>>
    BY <2>4, Zenon DEF Remember, gateway
  <2>5. ASSUME UNCHANGED vars PROVE UNCHANGED <<prompts, inbox, route>>
    BY <2>5, Zenon DEF vars, gateway
  <2> QED
    BY <1>2, <2>1, <2>2, <2>3, <2>4, <2>5 DEF MainStep
<1>3. ASSUME UNCHANGED <<prompts, inbox, route>> PROVE SkillsOK'
  BY <1>3, Zenon DEF SkillsOK
<1> QED
  BY <1>1, <1>2, <1>3 DEF Next

\* A message answered by a skill is answered with texts only: no placeholder
\* and no missing argument (match_skill, scan_paths, render), for any messages,
\* any files in any order and any text of theirs, as long as the last file that
\* declares a name the rules know is the repository's.
THEOREM SkillRepliesAreWholeHolds == Spec => []SkillRepliesAreWhole
<1>1. ASSUME SkillsOK PROVE SkillRepliesAreWhole
  BY <1>1, Zenon DEF SkillsOK, SkillRepliesAreWhole, AllTexts
<1> QED
  BY <1>1, InitReplies, StepReplies, InitSkills, StepSkills, PTL DEF Spec

-----------------------------------------------------------------------------
(* The scheduler.                                                          *)

\* The times between two slots of a circle of n are 1 to n.
LEMMA AheadInRange ==
  ASSUME NEW n \in Nat, NEW x \in 0..(n - 1), NEW y \in 0..(n - 1)
  PROVE  Ahead(x, y, n) \in 1..n
  BY DEF Ahead

LEMMA DayIsPositive == Day \in Nat /\ Day > 0
  BY SMT DEF Day

\* Division by a day.  The length of the day is left unexpanded from here on.
LEMMA DayDivision ==
  ASSUME NEW q \in Nat, NEW y \in 0..(Day - 1)
  PROVE  (Day * q + y) \div Day = q /\ (Day * q + y) % Day = y
  BY DayIsPositive

LEMMA DaySplit ==
  ASSUME NEW t \in Nat
  PROVE  t \div Day \in Nat /\ t % Day \in 0..(Day - 1) /\ t = Day * (t \div Day) + (t % Day)
  BY DayIsPositive

\* A daily schedule is due at its time of day, within a day.
LEMMA DailySlot ==
  ASSUME NEW hour \in Nat, NEW minute \in Nat, NEW t \in Nat
  PROVE  /\ DailyIn(hour, minute, t) \in Nat
         /\ DailyOnSlot(hour, minute, t, t + DailyIn(hour, minute, t))
<1> DEFINE y == TimeOfDay(hour, minute)
           x == t % Day
           q == t \div Day
<1>1. y \in 0..(Day - 1)
  BY DaySplit DEF TimeOfDay
<1>2. x \in 0..(Day - 1) /\ q \in Nat /\ t = Day * q + x
  BY DaySplit
<1>3. DailyIn(hour, minute, t) = Ahead(x, y, Day)
  BY DEF DailyIn
<1> HIDE DEF x, y, q
<1>4. Ahead(x, y, Day) \in 1..Day
  BY <1>1, <1>2, DayIsPositive, AheadInRange
<1>5. ASSUME x < y PROVE (t + Ahead(x, y, Day)) % Day = y
  <2>1. t + Ahead(x, y, Day) = Day * q + y
    BY <1>1, <1>2, <1>5, DayIsPositive DEF Ahead
  <2> QED
    BY <1>1, <1>2, <1>4, <2>1, DayDivision
<1>6. ASSUME ~(x < y) PROVE (t + Ahead(x, y, Day)) % Day = y
  <2>1. t + Ahead(x, y, Day) = Day * q + x + (Day - (x - y))
    BY <1>1, <1>2, <1>6, DayIsPositive DEF Ahead
  <2>2. Day * (q + 1) = Day * q + Day
    BY <1>2, DayIsPositive
  <2>3. t + Ahead(x, y, Day) = Day * (q + 1) + y
    BY <1>1, <1>2, <2>1, <2>2, DayIsPositive
  <2> QED
    BY <1>1, <1>2, <1>4, <2>3, DayDivision
<1>7. (t + Ahead(x, y, Day)) - t = Ahead(x, y, Day)
  BY <1>4, DayIsPositive
<1> QED
  BY <1>3, <1>4, <1>5, <1>6, <1>7, DayIsPositive DEF DailyOnSlot, y

\* An hourly schedule is due in its minute, within an hour.
LEMMA HourlySlot ==
  ASSUME NEW minute \in Nat, NEW t \in Nat
  PROVE  /\ HourlyIn(minute, t) \in Nat
         /\ HourlyOnSlot(minute, t, t + HourlyIn(minute, t))
<1> DEFINE y == Clamp(minute, 0, 59)
           m == t \div 60
           x == m % 60
           a == Ahead(x, y, 60)
<1>1. y \in 0..59 /\ m \in Nat /\ x \in 0..59
  BY DEF Clamp
<1> HIDE DEF y, m
<1>2. a \in 1..60 /\ (m + a) % 60 = y
  BY <1>1 DEF Ahead
<1> DEFINE n == a * 60
<1>3. n \in Nat /\ (t + n) - t \in 1..3600 /\ (t + n) \div 60 = m + a
  BY <1>2 DEF m
<1>4. HourlyIn(minute, t) = n
  BY DEF HourlyIn, y, m
<1> HIDE DEF n, a
<1>5. HourlyOnSlot(minute, t, t + n)
  BY <1>2, <1>3 DEF HourlyOnSlot, y
<1>6. n \in Nat
  BY <1>3
<1> QED
  BY <1>4, <1>5, <1>6, Zenon

\* A weekly schedule is due on its weekday, within seven days.
LEMMA WeeklySlot ==
  ASSUME NEW weekday \in Nat, NEW hour \in Nat, NEW minute \in Nat, NEW t \in Nat
  PROVE  /\ WeeklyIn(weekday, hour, minute, t) \in Nat
         /\ WeeklyOnSlot(weekday, t, t + WeeklyIn(weekday, hour, minute, t))
<1> DEFINE y == TimeOfDay(hour, minute)
           g == Clamp(weekday, 1, 7)
           d == t \div Day
           s == t % Day
           o == DayOffset(Weekday(t), g)
           days == IF o = 0 /\ s >= y THEN 7 ELSE o
           m == Minus(y, s)
<1>1. y \in 0..(Day - 1)
  BY DaySplit DEF TimeOfDay
<1>2. d \in Nat /\ s \in 0..(Day - 1) /\ t = Day * d + s
  BY DaySplit
<1>3. g \in 1..7
  BY DEF Clamp
<1>4. WeeklyIn(weekday, hour, minute, t) = days * Day + m
  BY DEF WeeklyIn
<1>5. o \in 0..6 /\ (((d + o) + 3) % 7) + 1 = g
  <2> HIDE DEF d, g
  <2>1. Weekday(t) = ((d + 3) % 7) + 1
    BY DEF Weekday, d
  <2> QED
    BY <1>2, <1>3, <2>1 DEF DayOffset
<1> HIDE DEF y, g, d, s, o
<1>6. /\ days \in 0..7 /\ (((d + days) + 3) % 7) + 1 = g
      /\ days = 0 => s < y
  BY <1>1, <1>2, <1>5, DayIsPositive
<1>7. m \in 0..(Day - 1) /\ s + m \in 0..(Day - 1) /\ (s < y => m > 0) /\ (days = 7 => m = 0)
  BY <1>1, <1>2, <1>5, DayIsPositive DEF Minus
<1> HIDE DEF days, m
<1>8. days * Day + m \in 1..(7 * Day)
  <2>1. days * Day \in Nat /\ (days > 0 => days * Day >= Day) /\ (days < 7 => days * Day <= 6 * Day)
    BY <1>6, DayIsPositive
  <2> QED
    BY <1>6, <1>7, <2>1, DayIsPositive
<1>9. t + (days * Day + m) = Day * (d + days) + (s + m)
  <2>1. days * Day \in Nat /\ Day * (d + days) = Day * d + days * Day
    BY <1>2, <1>6, DayIsPositive
  <2> QED
    BY <1>2, <1>7, <2>1, DayIsPositive
<1>10. (t + (days * Day + m)) \div Day = d + days
  BY <1>2, <1>6, <1>7, <1>9, DayDivision
<1>11. Weekday(t + (days * Day + m)) = g
  BY <1>6, <1>10 DEF Weekday
<1>12. days * Day + m \in Nat /\ (t + (days * Day + m)) - t = days * Day + m
  BY <1>8, DayIsPositive
<1> HIDE DEF WeeklyIn, Weekday
<1> QED
  BY <1>4, <1>8, <1>11, <1>12 DEF WeeklyOnSlot, g

\* Whatever the schedule, the time next_in computes is on its slot.
LEMMA NextInOnSlot ==
  ASSUME NEW s \in ScheduleType, NEW t \in Nat
  PROVE  NextIn(s, t) \in Nat /\ DueOnSlot(s, t, t + NextIn(s, t))
<1>1. CASE s.kind = "hourly"
  <2>1. s.minute \in Nat
    BY <1>1 DEF ScheduleType
  <2>2. NextIn(s, t) = HourlyIn(s.minute, t)
    BY <1>1, Zenon DEF NextIn
  <2> QED
    BY <1>1, <2>1, <2>2, HourlySlot, Zenon DEF DueOnSlot
<1>2. CASE s.kind = "daily"
  <2>1. s.hour \in Nat /\ s.minute \in Nat
    BY <1>2 DEF ScheduleType
  <2>2. NextIn(s, t) = DailyIn(s.hour, s.minute, t)
    BY <1>2, Zenon DEF NextIn
  <2> QED
    BY <1>2, <2>1, <2>2, DailySlot, Zenon DEF DueOnSlot
<1>3. CASE s.kind = "weekly"
  <2>1. s.weekday \in Nat /\ s.hour \in Nat /\ s.minute \in Nat
    BY <1>3 DEF ScheduleType
  <2>2. NextIn(s, t) = WeeklyIn(s.weekday, s.hour, s.minute, t)
    BY <1>3, Zenon DEF NextIn
  <2> QED
    <3>1. /\ WeeklyIn(s.weekday, s.hour, s.minute, t) \in Nat
          /\ WeeklyOnSlot(s.weekday, t, t + WeeklyIn(s.weekday, s.hour, s.minute, t))
      BY <2>1, WeeklySlot, ZenonT(30)
    <3> QED
      BY <1>3, <2>2, <3>1, Zenon DEF DueOnSlot
<1>4. CASE s.kind = "everyNSeconds"
  <2>1. s.secs \in Nat
    BY <1>4 DEF ScheduleType
  <2> QED
    BY <1>4, <2>1, Zenon DEF NextIn, DueOnSlot
<1>5. CASE s.kind = "everyNMinutes"
  <2>1. s.mins \in Nat
    BY <1>5 DEF ScheduleType
  <2>2. s.mins * 60 \in Nat
    BY <2>1
  <2> QED
    BY <1>5, <2>2, Zenon DEF NextIn, DueOnSlot
<1>6. CASE s.kind = "quarterly"
  <2>1. 90 * Day \in Nat
    BY DayIsPositive
  <2> QED
    BY <1>6, <2>1, Zenon DEF NextIn, DueOnSlot
<1>7. s.kind \in {"hourly", "daily", "weekly", "everyNSeconds", "everyNMinutes", "quarterly"}
  BY DEF ScheduleType
<1> QED
  BY <1>1, <1>2, <1>3, <1>4, <1>5, <1>6, <1>7

\* A firing under way is one of those its loop may still report.
Firing == \A j \in Jobs : phase[j] \in {"invoking", "recording"} => fired[j] < MaxFires

SchedulerInv == TypeOK /\ Firing /\ JobsAreDueOnTheirSlot

LEMMA SchedulerInvariant == SchedulerSpec => []SchedulerInv
<1>1. SchedulerInit => SchedulerInv
  BY SchedulerAssumption, NextInOnSlot DEF SchedulerInit, SchedulerInv, TypeOK, Firing, JobsAreDueOnTheirSlot
<1>2. SchedulerInv /\ [SchedulerNext]_schedulerVars => SchedulerInv'
  <2> SUFFICES ASSUME SchedulerInv, [SchedulerNext]_schedulerVars PROVE SchedulerInv'
    OBVIOUS
  <2> USE DEF SchedulerInv, TypeOK, Firing, JobsAreDueOnTheirSlot
  <2>1. CASE UNCHANGED schedulerVars
    BY <2>1 DEF schedulerVars
  <2>2. CASE Sleep
    BY <2>2 DEF Sleep
  <2>3. ASSUME NEW j \in Jobs, Skip(j) \/ Fire(j) PROVE SchedulerInv'
    BY <2>3 DEF Skip, Fire
  <2>4. ASSUME NEW j \in Jobs, Record(j) PROVE SchedulerInv'
    <3>1. Tally(j) \in [fires : Nat, errors : Nat, last : SUBSET [job : Jobs, ok : BOOLEAN]]
      <4>1. [job |-> j, ok |-> outcome[j] = "ok"] \in [job : Jobs, ok : BOOLEAN]
        OBVIOUS
      <4> QED
        BY <4>1 DEF Tally
    <3> HIDE DEF DueOnSlot
    <3> QED
      BY <2>4, <3>1, SchedulerAssumption DEF Record
  <2>5. ASSUME NEW j \in Jobs, Invoked(j) PROVE SchedulerInv'
    BY <2>5, SchedulerAssumption DEF Invoked
  <2>6. ASSUME NEW j \in Jobs, Reschedule(j) PROVE SchedulerInv'
    <3>1. schedule[j] \in ScheduleType
      BY SchedulerAssumption
    <3>2. /\ NextIn(schedule[j], now) \in Nat
          /\ DueOnSlot(schedule[j], now, now + NextIn(schedule[j], now))
      BY <3>1, NextInOnSlot
    <3> HIDE DEF DueOnSlot, NextIn
    <3> QED
      BY <2>6, <3>2 DEF Reschedule
  <2> QED
    BY <2>1, <2>2, <2>3, <2>4, <2>5, <2>6 DEF SchedulerNext
<1> QED
  BY <1>1, <1>2, PTL DEF SchedulerSpec

\* Every job is due on its slot, for any schedules, starting time and
\* durations of the tools it invokes (next_in).
THEOREM DueTimesAreRight == SchedulerSpec => []JobsAreDueOnTheirSlot
<1>1. SchedulerInv => JobsAreDueOnTheirSlot
  BY DEF SchedulerInv
<1> QED
  BY <1>1, SchedulerInvariant, PTL

\* The types: no due time lies before its computation, and no loop fires
\* more often than its bound.
THEOREM TypeCorrectness == SchedulerSpec => []TypeOK
<1>1. SchedulerInv => TypeOK
  BY DEF SchedulerInv
<1> QED
  BY <1>1, SchedulerInvariant, PTL
=============================================================================
