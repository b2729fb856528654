--------------------------- MODULE StdioServerProofs ---------------------------
(***************************************************************************)
(* Proofs about StdioServer for any number of requests, questions, repeated *)
(* answers and any capacities.                                             *)
(*                                                                         *)
(* That a tool hears the answer to its own question is not inductive: it   *)
(* rests on what is in flight.  A question or answer is Current for a call *)
(* only if it is about the question the call is waiting on, wherever it    *)
(* travels, and it stays so because ids are never handed out twice.        *)
(***************************************************************************)
EXTENDS StdioServer, TLAPS

-----------------------------------------------------------------------------
(* Sequences as the sets of what they hold.                                *)

Elems(s) == {s[k] : k \in 1..Len(s)}

\* No request occurs twice in s.
RequestsOnce(s) ==
  \A k, l \in 1..Len(s) : s[k] = s[l] /\ s[k].type = "request" => k = l

LEMMA Appended ==
  ASSUME NEW S, NEW s \in Seq(S), NEW m \in S
  PROVE  /\ Append(s, m) \in Seq(S) /\ Len(Append(s, m)) = Len(s) + 1
         /\ Elems(Append(s, m)) = Elems(s) \cup {m}
         /\ RequestsOnce(s) /\ (m.type = "request" => m \notin Elems(s))
              => RequestsOnce(Append(s, m))
<1> DEFINE t == Append(s, m)
<1>1. /\ t \in Seq(S) /\ Len(t) = Len(s) + 1 /\ Len(s) \in Nat
      /\ \A k \in 1..Len(s) : t[k] = s[k]
      /\ t[Len(s) + 1] = m
  OBVIOUS
<1> HIDE DEF t
<1>2. Elems(t) = Elems(s) \cup {m}
  BY <1>1 DEF Elems
<1>3. ASSUME RequestsOnce(s), m.type = "request" => m \notin Elems(s)
      PROVE  RequestsOnce(t)
  BY <1>1, <1>3 DEF RequestsOnce, Elems
<1> QED
  BY <1>1, <1>2, <1>3 DEF t

LEMMA Consumed ==
  ASSUME NEW S, NEW s \in Seq(S), s # <<>>
  PROVE  /\ Head(s) \in S /\ Tail(s) \in Seq(S) /\ Len(Tail(s)) = Len(s) - 1
         /\ Elems(s) = Elems(Tail(s)) \cup {Head(s)}
         /\ RequestsOnce(s) => /\ RequestsOnce(Tail(s))
                               /\ Head(s).type = "request" => Head(s) \notin Elems(Tail(s))
<1> DEFINE t == Tail(s)
<1>1. /\ t \in Seq(S) /\ Len(t) = Len(s) - 1 /\ Len(s) \in Nat \ {0}
      /\ \A k \in 1..Len(t) : t[k] = s[k + 1]
      /\ Head(s) = s[1] /\ Head(s) \in S
  OBVIOUS
<1> HIDE DEF t
<1>2. Elems(s) = Elems(t) \cup {s[1]}
  <2>1. ASSUME NEW k \in 1..Len(s), k # 1 PROVE s[k] = t[k - 1] /\ k - 1 \in 1..Len(t)
    BY <1>1, <2>1
  <2> QED
    BY <1>1, <2>1 DEF Elems
<1>3. ASSUME RequestsOnce(s) PROVE RequestsOnce(t)
  BY <1>1, <1>3 DEF RequestsOnce
<1>4. ASSUME RequestsOnce(s), s[1].type = "request" PROVE s[1] \notin Elems(t)
  BY <1>1, <1>4 DEF RequestsOnce, Elems
<1> QED
  BY <1>1, <1>2, <1>3, <1>4 DEF t

LEMMA EmptySeq ==
  ASSUME NEW S
  PROVE  <<>> \in Seq(S) /\ Len(<<>>) = 0 /\ Elems(<<>>) = {} /\ RequestsOnce(<<>>)
  BY DEF Elems, RequestsOnce

-----------------------------------------------------------------------------
(* Types.                                                                  *)

\* The messages the actions build are of the types of their channels.
LEMMA MessageTypes ==
  /\ \A r \in Requests : Request(r) \in Accepted /\ Reply(r) \in ToPeer
  /\ \A i \in ElicitIds, q \in Questions : Elicit(i, q) \in Elicits /\ Answer(i, q) \in Answers
  /\ Elicits \subseteq ToPeer /\ Answers \subseteq Accepted /\ Accepted \subseteq FromPeer
  /\ Notification \in Accepted /\ Malformed \in FromPeer
  BY DEF Request, Reply, Elicit, Answer, Accepted, ToPeer, Elicits, Answers, FromPeer

\* The type of a message tells its kind.
LEMMA KindOfMessage ==
  /\ \A m \in FromPeer : m # Malformed => m \in Accepted
  /\ \A m \in Accepted : /\ m # Malformed
                         /\ m.type = "answer" => m \in Answers
                         /\ m \in Answers <=> m.type = "answer"
  /\ \A m \in ToPeer : /\ m.type = "elicit" => m \in Elicits
                       /\ m.type # "elicit" => m.id \in Requests
  BY DEF FromPeer, Accepted, ToPeer, Answers, Elicits, Notification, Malformed

LEMMA InitTypes == Init => TypeOK
<1> SUFFICES ASSUME Init PROVE TypeOK
  OBVIOUS
<1>1. ChannelsOK /\ LoopsOK
  BY ServerAssumption DEF Init, ChannelsOK, LoopsOK
<1>2. TasksOK
  BY ServerAssumption DEF Init, TasksOK, ElicitIds, Live
<1>3. PeerOK
  BY ServerAssumption DEF Init, PeerOK
<1> QED
  BY <1>1, <1>2, <1>3 DEF TypeOK

\* Steps that read or write a channel or a pipe.
LEMMA WireTypes ==
  ASSUME TypeOK,
         \/ ReaderForwards \/ ReaderStops \/ MainIgnoresNotification \/ WriterWrites
         \/ WriterStops \/ PeerReads \/ PeerClosesStdin \/ PeerStopsReading
         \/ \E r \in Requests : PeerRequests(r)
         \/ \E m \in {Notification, Malformed} : PeerSendsOther(m)
         \/ \E e \in peer.seen : PeerAnswers(e) \/ PeerRepeats(e)
  PROVE  TypeOK'
<1> USE ServerAssumption DEF env, wires, serverVars
<1>1. CASE ReaderForwards
  <2>1. ChannelsOK'
    BY <1>1, KindOfMessage DEF ReaderForwards, TypeOK, ChannelsOK, HasRoom
  <2> QED
    BY <1>1, <2>1 DEF ReaderForwards, TypeOK, LoopsOK, TasksOK, PeerOK
<1>2. CASE ReaderStops
  <2>1. ChannelsOK'
    BY <1>2 DEF ReaderStops, TypeOK, ChannelsOK
  <2> QED
    BY <1>2, <2>1 DEF ReaderStops, TypeOK, LoopsOK, TasksOK, PeerOK
<1>3. CASE MainIgnoresNotification
  <2>1. ChannelsOK'
    BY <1>3 DEF MainIgnoresNotification, TypeOK, ChannelsOK
  <2> QED
    BY <1>3, <2>1 DEF MainIgnoresNotification, TypeOK, LoopsOK, TasksOK, PeerOK
<1>4. CASE WriterWrites
  <2>1. ChannelsOK'
    BY <1>4 DEF WriterWrites, TypeOK, ChannelsOK
  <2> QED
    BY <1>4, <2>1 DEF WriterWrites, TypeOK, LoopsOK, TasksOK, PeerOK
<1>5. CASE WriterStops
  <2>1. ChannelsOK'
    BY <1>5 DEF WriterStops, TypeOK, ChannelsOK
  <2> QED
    BY <1>5, <2>1 DEF WriterStops, TypeOK, LoopsOK, TasksOK, PeerOK
<1>6. CASE PeerReads
  <2>1. ChannelsOK'
    BY <1>6 DEF PeerReads, TypeOK, ChannelsOK
  <2>2. Head(s2c) \in ToPeer
    BY <1>6 DEF PeerReads, TypeOK, ChannelsOK
  <2>3. PeerOK'
    BY <1>6, <2>2, KindOfMessage DEF PeerReads, TypeOK, PeerOK
  <2> QED
    BY <1>6, <2>1, <2>3 DEF PeerReads, TypeOK, LoopsOK, TasksOK
<1>7. CASE PeerClosesStdin \/ PeerStopsReading
  <2>1. CASE PeerClosesStdin
    BY <2>1 DEF PeerClosesStdin, TypeOK, ChannelsOK, LoopsOK, TasksOK, PeerOK
  <2>2. CASE PeerStopsReading
    <3>1. ChannelsOK'
      BY <2>2, EmptySeq DEF PeerStopsReading, TypeOK, ChannelsOK
    <3> QED
      BY <2>2, <3>1 DEF PeerStopsReading, TypeOK, LoopsOK, TasksOK, PeerOK
  <2> QED
    BY <1>7, <2>1, <2>2
<1>8. ASSUME NEW m \in FromPeer, PeerWrites(m), PeerOK' PROVE TypeOK'
  <2>1. ChannelsOK'
    BY <1>8 DEF PeerWrites, TypeOK, ChannelsOK
  <2> QED
    BY <1>8, <2>1 DEF PeerWrites, TypeOK, LoopsOK, TasksOK
<1>9. ASSUME NEW r \in Requests, PeerRequests(r) PROVE TypeOK'
  <2>1. PeerOK'
    BY <1>9 DEF PeerRequests, TypeOK, PeerOK
  <2> QED
    BY <1>8, <1>9, <2>1, MessageTypes DEF PeerRequests
<1>10. ASSUME NEW m \in {Notification, Malformed}, PeerSendsOther(m) PROVE TypeOK'
  <2>1. PeerOK'
    BY <1>10 DEF PeerSendsOther, TypeOK, PeerOK
  <2> QED
    BY <1>8, <1>10, <2>1, MessageTypes DEF PeerSendsOther
<1>11. ASSUME NEW e \in peer.seen, PeerAnswers(e) \/ PeerRepeats(e) PROVE TypeOK'
  <2>1. e \in Elicits
    BY DEF TypeOK, PeerOK
  <2>2. Answer(e.id, e.q) \in FromPeer
    BY <2>1, MessageTypes DEF Elicits
  <2>3. PeerOK'
    BY <1>11, <2>1 DEF PeerAnswers, PeerRepeats, TypeOK, PeerOK
  <2> QED
    BY <1>8, <1>11, <2>2, <2>3 DEF PeerAnswers, PeerRepeats
<1> QED
  BY <1>1, <1>2, <1>3, <1>4, <1>5, <1>6, <1>7, <1>9, <1>10, <1>11

\* What a call that is about to send its question must have for that.
AskersHaveQuestions ==
  \A r \in Requests : task[r] = "asking" => waitingFor[r] # 0 /\ asked[r] # 0

\* Steps of the main loop and of the tasks.
LEMMA TaskTypes ==
  ASSUME TypeOK, AskersHaveQuestions,
         \/ MainDelivers \/ MainLeavesLoop \/ MainReturns
         \/ \E r \in Requests :
              \/ MainSpawns(r) \/ Ask(r) \/ SendQuestion(r) \/ QuestionUndeliverable(r)
              \/ ToolResumes(r) \/ ToolFinishes(r) \/ SendReply(r)
  PROVE  TypeOK'
<1> USE ServerAssumption DEF env, wires
<1>1. CASE MainDelivers
  <2>1. ChannelsOK' /\ Head(inbound) \in Accepted
    BY <1>1 DEF MainDelivers, TypeOK, ChannelsOK
  <2>2. Head(inbound) \in Answers
    BY <1>1, <2>1, KindOfMessage DEF MainDelivers
  <2>3. TasksOK'
    <3> DEFINE m == Head(inbound)
    <3>1. UNCHANGED <<task, asked, waitingFor, nextId>> /\ DeliverResponse(m) /\ m \in Answers
      BY <1>1, <2>2 DEF MainDelivers
    <3> HIDE DEF m
    <3>2. TasksOK
      BY DEF TypeOK
    <3>3. CASE m.id \in DOMAIN pending
      <4>1. heard' = [heard EXCEPT ![pending[m.id]] = m] /\ pending' = WithoutWaiter(m.id)
        BY <3>1, <3>3 DEF DeliverResponse
      <4>2. heard' \in [Requests -> {NoAnswer} \cup Answers]
        BY <3>1, <3>2, <4>1 DEF TasksOK
      <4>3. DOMAIN pending' = DOMAIN pending \ {m.id}
        BY <4>1 DEF WithoutWaiter
      <4>4. pending' \in [DOMAIN pending' -> Requests]
        BY <3>2, <4>1 DEF WithoutWaiter, TasksOK
      <4> QED
        BY <3>1, <3>2, <4>2, <4>3, <4>4 DEF TasksOK
    <3>4. CASE m.id \notin DOMAIN pending
      BY <3>1, <3>2, <3>4 DEF DeliverResponse, TasksOK
    <3> QED
      BY <3>3, <3>4
  <2> QED
    BY <1>1, <2>1, <2>3 DEF MainDelivers, TypeOK, LoopsOK, PeerOK
<1>2. CASE MainLeavesLoop \/ MainReturns
  BY <1>2 DEF MainLeavesLoop, MainReturns, TypeOK, ChannelsOK, LoopsOK, TasksOK, PeerOK
<1>3. ASSUME NEW r \in Requests, MainSpawns(r) PROVE TypeOK'
  <2>1. ChannelsOK'
    BY <1>3 DEF MainSpawns, TypeOK, ChannelsOK
  <2> QED
    BY <1>3, <2>1 DEF MainSpawns, TypeOK, LoopsOK, TasksOK, PeerOK, Live
<1>4. ASSUME NEW r \in Requests, Ask(r) PROVE TypeOK'
  <2>1. TasksOK'
    BY <1>4 DEF Ask, IdAfter, TypeOK, TasksOK, Live, ElicitIds
  <2> QED
    BY <1>4, <2>1 DEF Ask, TypeOK, ChannelsOK, LoopsOK, PeerOK
<1>5. ASSUME NEW r \in Requests, SendQuestion(r) PROVE TypeOK'
  <2>1. waitingFor[r] \in ElicitIds /\ <<r, asked[r]>> \in Questions
    BY <1>5 DEF SendQuestion, AskersHaveQuestions, TypeOK, TasksOK, ElicitIds, Questions
  <2>2. Elicit(waitingFor[r], <<r, asked[r]>>) \in ToPeer
    BY <2>1, MessageTypes
  <2>3. ChannelsOK'
    BY <1>5, <2>2 DEF SendQuestion, HasRoom, TypeOK, ChannelsOK
  <2> QED
    BY <1>5, <2>3 DEF SendQuestion, TypeOK, LoopsOK, TasksOK, PeerOK, Live
<1>6. ASSUME NEW r \in Requests, QuestionUndeliverable(r) PROVE TypeOK'
  <2>1. TasksOK'
    BY <1>6 DEF QuestionUndeliverable, WithoutWaiter, TypeOK, TasksOK, Live
  <2> QED
    BY <1>6, <2>1 DEF QuestionUndeliverable, TypeOK, ChannelsOK, LoopsOK, PeerOK
<1>7. ASSUME NEW r \in Requests, ToolResumes(r) \/ ToolFinishes(r) PROVE TypeOK'
  <2>1. TasksOK'
    BY <1>7 DEF ToolResumes, ToolFinishes, TypeOK, TasksOK, Live
  <2> QED
    BY <1>7, <2>1 DEF ToolResumes, ToolFinishes, TypeOK, ChannelsOK, LoopsOK, PeerOK
<1>8. ASSUME NEW r \in Requests, SendReply(r) PROVE TypeOK'
  <2>1. ChannelsOK'
    BY <1>8, MessageTypes DEF SendReply, HasRoom, TypeOK, ChannelsOK
  <2> QED
    BY <1>8, <2>1 DEF SendReply, TypeOK, LoopsOK, TasksOK, PeerOK, Live
<1> QED
  BY <1>1, <1>2, <1>3, <1>4, <1>5, <1>6, <1>7, <1>8

-----------------------------------------------------------------------------
(* Questions and answers.                                                  *)

IdsAreTheirs ==
  /\ \A r \in Requests :
       /\ waitingFor[r] # 0 <=> task[r] \in {"asking", "waiting"}
       /\ waitingFor[r] < nextId
       /\ waitingFor[r] # 0 => asked[r] # 0
  /\ \A r, s \in Requests : waitingFor[r] = waitingFor[s] /\ waitingFor[r] # 0 => r = s

WaiterOf ==
  /\ \A i \in DOMAIN pending : waitingFor[pending[i]] = i /\ heard[pending[i]] = NoAnswer
  /\ \A r \in Requests : waitingFor[r] # 0 /\ heard[r] = NoAnswer =>
       waitingFor[r] \in DOMAIN pending /\ pending[waitingFor[r]] = r

\* A question numbered i: if some call is waiting on number i, it is this one.
Current(i, q) ==
  i < nextId /\ \A r \in Requests : waitingFor[r] = i => q = <<r, asked[r]>>

\* Questions on their way to the peer or known to it, answers on their way back.
InFlight ==
  {m \in Elems(outbound) \cup Elems(s2c) : m.type = "elicit"} \cup peer.seen
  \cup {m \in Elems(c2s) \cup Elems(inbound) : m.type = "answer"}
AllCurrent == \A m \in InFlight : Current(m.id, m.q)

QuestionInv == IdsAreTheirs /\ WaiterOf /\ AnswersMatchQuestions /\ AllCurrent

LEMMA InitQuestions == Init => QuestionInv
<1> SUFFICES ASSUME Init PROVE QuestionInv
  OBVIOUS
<1>1. InFlight = {}
  BY EmptySeq DEF Init, InFlight
<1>2. IdsAreTheirs
  BY DEF Init, IdsAreTheirs
<1>3. WaiterOf /\ AnswersMatchQuestions
  BY DEF Init, WaiterOf, AnswersMatchQuestions
<1> QED
  BY <1>1, <1>2, <1>3 DEF QuestionInv, AllCurrent

\* The waiters of the two formulations are the same.
LEMMA WaitersFromInv == TypeOK /\ QuestionInv => WaitersAreExact
<1> SUFFICES ASSUME TypeOK, QuestionInv PROVE WaitersAreExact
  OBVIOUS
<1> DEFINE Unanswered ==
      {r \in Requests : task[r] \in {"asking", "waiting"} /\ heard[r] = NoAnswer}
<1>1. \A r \in Unanswered : waitingFor[r] \in DOMAIN pending /\ pending[waitingFor[r]] = r
  BY DEF QuestionInv, IdsAreTheirs, WaiterOf
<1>2. ASSUME NEW i \in DOMAIN pending
      PROVE  \E r \in Unanswered : i = waitingFor[r]
  <2>1. pending[i] \in Requests /\ i \in 1..(nextId - 1)
    BY DEF TypeOK, TasksOK
  <2>2. waitingFor[pending[i]] = i /\ heard[pending[i]] = NoAnswer /\ i # 0
    BY <2>1 DEF QuestionInv, WaiterOf, TypeOK, TasksOK
  <2>3. pending[i] \in Unanswered
    BY <2>1, <2>2 DEF QuestionInv, IdsAreTheirs
  <2> QED
    BY <2>2, <2>3
<1> QED
  BY <1>1, <1>2 DEF WaitersAreExact

LEMMA AskersFromInv == QuestionInv => AskersHaveQuestions
  BY DEF QuestionInv, IdsAreTheirs, AskersHaveQuestions

\* What is current stays so while the calls' questions do.
LEMMA FrameQuestions ==
  ASSUME QuestionInv, UNCHANGED <<task, asked, waitingFor, heard, pending, nextId>>,
         \A m \in InFlight' : \E n \in InFlight : m.id = n.id /\ m.q = n.q
  PROVE  QuestionInv'
  BY DEF QuestionInv, IdsAreTheirs, WaiterOf, AnswersMatchQuestions, AllCurrent, Current

LEMMA WireQuestions ==
  ASSUME TypeOK, QuestionInv,
         \/ ReaderForwards \/ ReaderStops \/ MainIgnoresNotification \/ WriterWrites
         \/ WriterStops \/ PeerReads \/ PeerClosesStdin \/ PeerStopsReading
         \/ MainLeavesLoop \/ MainReturns
         \/ \E r \in Requests : PeerRequests(r)
         \/ \E m \in {Notification, Malformed} : PeerSendsOther(m)
         \/ \E e \in peer.seen : PeerAnswers(e) \/ PeerRepeats(e)
  PROVE  QuestionInv'
<1> USE DEF env, wires, serverVars, TypeOK, ChannelsOK
<1>1. CASE ReaderForwards
  <2>1. Elems(c2s) = Elems(c2s') \cup {Head(c2s)} /\ Head(c2s) \in FromPeer
    BY <1>1, Consumed DEF ReaderForwards
  <2>2. Head(c2s) \in Accepted
    BY <1>1, <2>1, KindOfMessage DEF ReaderForwards
  <2>3. Elems(inbound') = Elems(inbound) \cup {Head(c2s)}
    BY <1>1, <2>2, Appended DEF ReaderForwards
  <2> QED
    BY <1>1, <2>1, <2>3, FrameQuestions DEF ReaderForwards, InFlight
<1>2. CASE ReaderStops
  <2>1. Elems(c2s') \subseteq Elems(c2s)
    BY <1>2, Consumed DEF ReaderStops
  <2> QED
    BY <1>2, <2>1, FrameQuestions DEF ReaderStops, InFlight
<1>3. CASE MainIgnoresNotification
  <2>1. Elems(inbound') \subseteq Elems(inbound)
    BY <1>3, Consumed DEF MainIgnoresNotification
  <2> QED
    BY <1>3, <2>1, FrameQuestions DEF MainIgnoresNotification, InFlight
<1>4. CASE WriterWrites
  <2>1. Elems(outbound) = Elems(outbound') \cup {Head(outbound)} /\ Head(outbound) \in ToPeer
    BY <1>4, Consumed DEF WriterWrites
  <2>2. Elems(s2c') = Elems(s2c) \cup {Head(outbound)}
    BY <1>4, <2>1, Appended DEF WriterWrites
  <2> QED
    BY <1>4, <2>1, <2>2, FrameQuestions DEF WriterWrites, InFlight
<1>5. CASE WriterStops
  <2>1. Elems(outbound') = {}
    BY <1>5, EmptySeq DEF WriterStops
  <2> QED
    BY <1>5, <2>1, FrameQuestions DEF WriterStops, InFlight
<1>6. CASE PeerReads
  <2>1. Elems(s2c) = Elems(s2c') \cup {Head(s2c)}
    BY <1>6, Consumed DEF PeerReads
  <2>2. peer'.seen \subseteq peer.seen \cup {m \in {Head(s2c)} : m.type = "elicit"}
    BY <1>6 DEF PeerReads, PeerOK
  <2> QED
    BY <1>6, <2>1, <2>2, FrameQuestions DEF PeerReads, InFlight
<1>7. CASE PeerClosesStdin \/ MainLeavesLoop \/ MainReturns
  BY <1>7, FrameQuestions DEF PeerClosesStdin, MainLeavesLoop, MainReturns, InFlight
<1>8. CASE PeerStopsReading
  <2>1. Elems(s2c') = {}
    BY <1>8, EmptySeq DEF PeerStopsReading
  <2> QED
    BY <1>8, <2>1, FrameQuestions DEF PeerStopsReading, InFlight
<1>9. ASSUME NEW m \in FromPeer, PeerWrites(m), peer'.seen = peer.seen,
             m.type = "answer" => \E n \in InFlight : m.id = n.id /\ m.q = n.q
      PROVE  QuestionInv'
  <2>1. Elems(c2s') = Elems(c2s) \cup {m}
    BY <1>9, Appended DEF PeerWrites
  <2> QED
    BY <1>9, <2>1, FrameQuestions DEF PeerWrites, InFlight
<1>10. ASSUME NEW r \in Requests, PeerRequests(r) PROVE QuestionInv'
  <2>1. Request(r) \in FromPeer /\ Request(r).type # "answer"
    BY MessageTypes DEF Request
  <2> QED
    BY <1>9, <1>10, <2>1 DEF PeerRequests, PeerOK
<1>11. ASSUME NEW m \in {Notification, Malformed}, PeerSendsOther(m) PROVE QuestionInv'
  <2>1. m \in FromPeer /\ m.type # "answer"
    BY MessageTypes DEF Notification, Malformed
  <2> QED
    BY <1>9, <1>11, <2>1 DEF PeerSendsOther, PeerOK
<1>12. ASSUME NEW e \in peer.seen, PeerAnswers(e) \/ PeerRepeats(e) PROVE QuestionInv'
  <2>1. e \in Elicits /\ e \in InFlight
    BY DEF PeerOK, InFlight
  <2>2. /\ Answer(e.id, e.q) \in FromPeer
        /\ Answer(e.id, e.q).id = e.id /\ Answer(e.id, e.q).q = e.q
    BY <2>1, MessageTypes DEF Elicits, Answer
  <2> QED
    BY <1>9, <1>12, <2>1, <2>2 DEF PeerAnswers, PeerRepeats, PeerOK
<1> QED
  BY <1>1, <1>2, <1>3, <1>4, <1>5, <1>6, <1>7, <1>8, <1>10, <1>11, <1>12

\* Steps of a call that put nothing new in flight: what is current stays so
\* if the numbers in use only shrink and their questions stay the same.
LEMMA FrameFlight ==
  ASSUME AllCurrent, InFlight' \subseteq InFlight, nextId' = nextId, asked' = asked,
         \A r \in Requests : waitingFor'[r] = waitingFor[r] \/ waitingFor'[r] = 0,
         \A m \in InFlight : m.id # 0
  PROVE  AllCurrent'
  BY DEF AllCurrent, Current

LEMMA FlightIds == TypeOK => \A m \in InFlight : m.id \in ElicitIds /\ m.q \in Questions
<1> SUFFICES ASSUME TypeOK, NEW m \in InFlight PROVE m.id \in ElicitIds /\ m.q \in Questions
  OBVIOUS
<1>1. /\ Elems(outbound) \subseteq ToPeer /\ Elems(s2c) \subseteq ToPeer
      /\ Elems(c2s) \subseteq FromPeer /\ Elems(inbound) \subseteq Accepted
      /\ peer.seen \subseteq Elicits
  BY DEF TypeOK, ChannelsOK, PeerOK, Elems
<1>2. m \in Elicits \/ m \in Answers
  BY <1>1, KindOfMessage, MessageTypes DEF InFlight, Malformed
<1> QED
  BY <1>2 DEF Elicits, Answers

LEMMA DeliverQuestions ==
  ASSUME TypeOK, QuestionInv, MainDelivers PROVE QuestionInv'
<1> DEFINE m == Head(inbound)
<1>1. m \in Accepted /\ Elems(inbound) = Elems(inbound') \cup {m}
  BY Consumed DEF TypeOK, ChannelsOK, MainDelivers
<1>2. m \in InFlight /\ m \in Answers
  BY <1>1, KindOfMessage DEF MainDelivers, InFlight
<1>3. AllCurrent'
  <2>1. InFlight' \subseteq InFlight
    BY <1>1 DEF MainDelivers, InFlight, env, wires
  <2> QED
    BY <2>1, FrameFlight, FlightIds DEF MainDelivers, QuestionInv, ElicitIds
<1>4. IdsAreTheirs'
  BY DEF MainDelivers, QuestionInv, IdsAreTheirs
<1>5. CASE m.id \in DOMAIN pending
  <2> DEFINE r == pending[m.id]
  <2>1. r \in Requests /\ waitingFor[r] = m.id /\ heard[r] = NoAnswer
    BY <1>5 DEF TypeOK, TasksOK, QuestionInv, WaiterOf
  <2>2. heard' = [heard EXCEPT ![r] = m] /\ pending' = WithoutWaiter(m.id)
    BY <1>5 DEF MainDelivers, DeliverResponse
  <2>3. m.q = <<r, asked[r]>>
    BY <1>2, <2>1 DEF QuestionInv, AllCurrent, Current
  <2>4. m # NoAnswer
    BY <1>2 DEF Answers, NoAnswer
  <2> HIDE DEF r, m
  <2>5. WaiterOf'
    <3>1. \A i \in DOMAIN pending' : i \in DOMAIN pending /\ i # m.id /\ pending'[i] = pending[i]
      BY <2>2 DEF WithoutWaiter
    <3>2. \A i \in DOMAIN pending : i # m.id => i \in DOMAIN pending' /\ pending'[i] = pending[i]
      BY <2>2 DEF WithoutWaiter
    <3>3. \A s \in Requests : s # r => heard'[s] = heard[s]
      BY <2>2 DEF TypeOK, TasksOK
    <3>4. heard'[r] = m
      BY <2>1, <2>2 DEF TypeOK, TasksOK
    <3>5. waitingFor' = waitingFor
      BY DEF MainDelivers
    <3>6. \A i \in DOMAIN pending : pending[i] \in Requests
      BY DEF TypeOK, TasksOK
    <3>7. \A i \in DOMAIN pending' : waitingFor'[pending'[i]] = i /\ heard'[pending'[i]] = NoAnswer
      BY <2>1, <3>1, <3>3, <3>5, <3>6 DEF QuestionInv, WaiterOf
    <3>8. ASSUME NEW s \in Requests, waitingFor'[s] # 0, heard'[s] = NoAnswer
          PROVE  waitingFor'[s] \in DOMAIN pending' /\ pending'[waitingFor'[s]] = s
      <4>1. s # r
        BY <2>4, <3>4, <3>8
      <4>2. waitingFor[s] # m.id
        BY <2>1, <3>5, <3>8, <4>1 DEF QuestionInv, IdsAreTheirs
      <4> QED
        BY <3>2, <3>3, <3>5, <3>8, <4>1, <4>2 DEF QuestionInv, WaiterOf
    <3> QED
      BY <3>7, <3>8 DEF WaiterOf, NoAnswer
  <2>6. AnswersMatchQuestions'
    BY <2>1, <2>2, <2>3
       DEF MainDelivers, TypeOK, TasksOK, QuestionInv, AnswersMatchQuestions, NoAnswer
  <2> QED
    BY <1>3, <1>4, <2>5, <2>6 DEF QuestionInv
<1>6. CASE m.id \notin DOMAIN pending
  <2>1. UNCHANGED <<heard, pending, waitingFor, asked>>
    BY <1>6 DEF MainDelivers, DeliverResponse
  <2> QED
    BY <1>3, <1>4, <2>1 DEF QuestionInv, WaiterOf, AnswersMatchQuestions
<1> QED
  BY <1>5, <1>6
LEMMA TaskQuestions ==
  ASSUME TypeOK, QuestionInv, NEW r \in Requests,
         \/ MainSpawns(r) /\ task[r] = "absent"
         \/ Ask(r) \/ SendQuestion(r) \/ QuestionUndeliverable(r)
         \/ ToolResumes(r) \/ ToolFinishes(r) \/ SendReply(r)
  PROVE  QuestionInv'
<1> USE DEF env, wires
<1> DEFINE SameWaiters == UNCHANGED <<asked, waitingFor, heard, pending, nextId>>
<1>1. ASSUME SameWaiters, IdsAreTheirs',
             \A m \in InFlight' \ InFlight : Current(m.id, m.q)
      PROVE  QuestionInv'
  BY <1>1 DEF QuestionInv, WaiterOf, AnswersMatchQuestions, AllCurrent, Current
<1>2. CASE MainSpawns(r) /\ task[r] = "absent"
  <2>1. Elems(inbound') \subseteq Elems(inbound)
    BY <1>2, Consumed DEF MainSpawns, TypeOK, ChannelsOK
  <2>2. InFlight' \subseteq InFlight
    BY <1>2, <2>1 DEF MainSpawns, InFlight
  <2>3. IdsAreTheirs'
    BY <1>2 DEF MainSpawns, QuestionInv, IdsAreTheirs, TypeOK, TasksOK
  <2> QED
    BY <1>1, <1>2, <2>2, <2>3 DEF MainSpawns
<1>3. CASE Ask(r)
  <2>1. /\ waitingFor' = [waitingFor EXCEPT ![r] = nextId]
        /\ nextId' = nextId + 1 /\ asked' = [asked EXCEPT ![r] = @ + 1]
        /\ task' = [task EXCEPT ![r] = "asking"] /\ heard' = heard
        /\ InFlight' = InFlight
        /\ waitingFor[r] = 0 /\ nextId \in Nat \ {0}
    BY <1>3 DEF Ask, IdAfter, InFlight, QuestionInv, IdsAreTheirs, TypeOK, TasksOK, ElicitIds
  <2>2. heard[r] = NoAnswer
    <3>1. ASSUME heard[r] # NoAnswer PROVE FALSE
      <4>1. heard[r] \in Answers /\ heard[r].id = waitingFor[r]
        BY <3>1 DEF QuestionInv, AnswersMatchQuestions, TypeOK, TasksOK
      <4> QED
        BY <2>1, <4>1 DEF Answers, ElicitIds
    <3> QED
      BY <3>1
  <2>3. IdsAreTheirs'
    BY <2>1 DEF QuestionInv, IdsAreTheirs, TypeOK, TasksOK
  <2>4. WaiterOf'
    <3>1. /\ DOMAIN pending' = DOMAIN pending \cup {nextId}
          /\ pending'[nextId] = r
          /\ \A i \in DOMAIN pending : i # nextId /\ pending'[i] = pending[i]
      BY <1>3 DEF Ask, TypeOK, TasksOK, ElicitIds
    <3>2. /\ waitingFor'[r] = nextId
          /\ \A s \in Requests : s # r => waitingFor'[s] = waitingFor[s]
      BY <2>1 DEF TypeOK, TasksOK
    <3>3. \A i \in DOMAIN pending : pending[i] \in Requests /\ i \in Nat \ {0}
      BY DEF TypeOK, TasksOK, ElicitIds
    <3>4. \A i \in DOMAIN pending' : waitingFor'[pending'[i]] = i /\ heard'[pending'[i]] = NoAnswer
      BY <2>1, <2>2, <3>1, <3>2, <3>3 DEF QuestionInv, WaiterOf
    <3>5. ASSUME NEW s \in Requests, waitingFor'[s] # 0, heard'[s] = NoAnswer
          PROVE  waitingFor'[s] \in DOMAIN pending' /\ pending'[waitingFor'[s]] = s
      <4>1. CASE s = r
        BY <3>1, <3>2, <4>1
      <4>2. CASE s # r
        BY <2>1, <3>1, <3>2, <3>5, <4>2 DEF QuestionInv, WaiterOf
      <4> QED
        BY <4>1, <4>2
    <3> QED
      BY <3>4, <3>5 DEF WaiterOf, NoAnswer
  <2>5. AnswersMatchQuestions'
    BY <2>1, <2>2 DEF QuestionInv, AnswersMatchQuestions, TypeOK, TasksOK, NoAnswer
  <2>6. AllCurrent'
    <3> SUFFICES ASSUME NEW m \in InFlight, NEW s \in Requests
                 PROVE  /\ m.id < nextId + 1
                        /\ waitingFor'[s] = m.id => m.q = <<s, asked'[s]>>
      BY <2>1 DEF AllCurrent, Current
    <3>1. m.id < nextId /\ m.id \in Nat /\ (waitingFor[s] = m.id => m.q = <<s, asked[s]>>)
      BY FlightIds DEF QuestionInv, AllCurrent, Current, ElicitIds
    <3>2. s = r => waitingFor'[s] = nextId
      BY <2>1 DEF TypeOK, TasksOK
    <3>3. s # r => waitingFor'[s] = waitingFor[s] /\ asked'[s] = asked[s]
      BY <2>1 DEF TypeOK, TasksOK
    <3> QED
      BY <2>1, <3>1, <3>2, <3>3
  <2> QED
    BY <2>3, <2>4, <2>5, <2>6 DEF QuestionInv
<1>4. CASE SendQuestion(r)
  <2> DEFINE e == Elicit(waitingFor[r], <<r, asked[r]>>)
  <2>1. waitingFor[r] \in ElicitIds /\ <<r, asked[r]>> \in Questions
    BY <1>4, AskersFromInv
       DEF SendQuestion, AskersHaveQuestions, TypeOK, TasksOK, ElicitIds, Questions
  <2>2. e \in ToPeer /\ e.id = waitingFor[r] /\ e.q = <<r, asked[r]>>
    BY <2>1, MessageTypes DEF Elicit
  <2> HIDE DEF e
  <2>3. Elems(outbound') = Elems(outbound) \cup {e}
    BY <1>4, <2>2, Appended DEF SendQuestion, TypeOK, ChannelsOK, e
  <2>4. InFlight' \subseteq InFlight \cup {e}
    BY <1>4, <2>3 DEF SendQuestion, InFlight
  <2>5. Current(e.id, e.q)
    BY <2>1, <2>2 DEF Current, QuestionInv, IdsAreTheirs, ElicitIds
  <2>6. IdsAreTheirs'
    BY <1>4 DEF SendQuestion, QuestionInv, IdsAreTheirs, TypeOK, TasksOK
  <2> QED
    BY <1>1, <1>4, <2>4, <2>5, <2>6 DEF SendQuestion
<1>5. CASE QuestionUndeliverable(r)
  <2>1. /\ waitingFor' = [waitingFor EXCEPT ![r] = 0]
        /\ heard' = [heard EXCEPT ![r] = NoAnswer]
        /\ task' = [task EXCEPT ![r] = "running"]
        /\ pending' = WithoutWaiter(waitingFor[r])
        /\ UNCHANGED <<asked, nextId>> /\ InFlight' = InFlight
        /\ waitingFor[r] # 0
    BY <1>5 DEF QuestionUndeliverable, InFlight, QuestionInv, IdsAreTheirs
  <2>2. IdsAreTheirs'
    BY <2>1 DEF QuestionInv, IdsAreTheirs, TypeOK, TasksOK, ElicitIds
  <2>3. WaiterOf'
    <3>1. /\ DOMAIN pending' = DOMAIN pending \ {waitingFor[r]}
          /\ \A i \in DOMAIN pending' : pending'[i] = pending[i] /\ pending[i] \in Requests
      BY <2>1 DEF WithoutWaiter, TypeOK, TasksOK
    <3>2. /\ waitingFor'[r] = 0 /\ heard'[r] = NoAnswer
          /\ \A s \in Requests : s # r => waitingFor'[s] = waitingFor[s] /\ heard'[s] = heard[s]
      BY <2>1 DEF TypeOK, TasksOK
    <3>3. \A i \in DOMAIN pending' : waitingFor'[pending'[i]] = i /\ heard'[pending'[i]] = NoAnswer
      BY <3>1, <3>2 DEF QuestionInv, WaiterOf
    <3>4. ASSUME NEW s \in Requests, waitingFor'[s] # 0, heard'[s] = NoAnswer
          PROVE  waitingFor'[s] \in DOMAIN pending' /\ pending'[waitingFor'[s]] = s
      <4>1. s # r /\ waitingFor[s] # waitingFor[r]
        BY <2>1, <3>2, <3>4 DEF QuestionInv, IdsAreTheirs
      <4> QED
        BY <3>1, <3>2, <3>4, <4>1 DEF QuestionInv, WaiterOf
    <3> QED
      BY <3>3, <3>4 DEF WaiterOf, NoAnswer
  <2>4. AnswersMatchQuestions'
    BY <2>1 DEF QuestionInv, AnswersMatchQuestions, TypeOK, TasksOK, NoAnswer
  <2>5. AllCurrent'
    BY <2>1, FrameFlight, FlightIds DEF QuestionInv, ElicitIds, TypeOK, TasksOK
  <2> QED
    BY <2>2, <2>3, <2>4, <2>5 DEF QuestionInv
<1>6. CASE ToolResumes(r)
  <2>1. /\ waitingFor' = [waitingFor EXCEPT ![r] = 0]
        /\ heard' = [heard EXCEPT ![r] = NoAnswer]
        /\ task' = [task EXCEPT ![r] = "running"]
        /\ UNCHANGED <<asked, nextId, pending>> /\ InFlight' = InFlight
        /\ heard[r] # NoAnswer
    BY <1>6 DEF ToolResumes, InFlight
  <2>2. IdsAreTheirs'
    BY <2>1 DEF QuestionInv, IdsAreTheirs, TypeOK, TasksOK, ElicitIds
  <2>3. WaiterOf'
    <3>1. \A i \in DOMAIN pending : pending[i] \in Requests
      BY DEF TypeOK, TasksOK
    <3>2. /\ waitingFor'[r] = 0 /\ heard'[r] = NoAnswer
          /\ \A s \in Requests : s # r => waitingFor'[s] = waitingFor[s] /\ heard'[s] = heard[s]
      BY <2>1 DEF TypeOK, TasksOK
    <3>3. \A i \in DOMAIN pending' : waitingFor'[pending'[i]] = i /\ heard'[pending'[i]] = NoAnswer
      BY <2>1, <3>1, <3>2 DEF QuestionInv, WaiterOf
    <3>4. \A s \in Requests : waitingFor'[s] # 0 /\ heard'[s] = NoAnswer =>
            waitingFor'[s] \in DOMAIN pending' /\ pending'[waitingFor'[s]] = s
      BY <2>1, <3>2 DEF QuestionInv, WaiterOf
    <3> QED
      BY <3>3, <3>4 DEF WaiterOf, NoAnswer
  <2>4. AnswersMatchQuestions'
    BY <2>1 DEF QuestionInv, AnswersMatchQuestions, TypeOK, TasksOK, NoAnswer
  <2>5. AllCurrent'
    BY <2>1, FrameFlight, FlightIds DEF QuestionInv, ElicitIds, TypeOK, TasksOK
  <2> QED
    BY <2>2, <2>3, <2>4, <2>5 DEF QuestionInv
<1>7. CASE ToolFinishes(r)
  <2>1. IdsAreTheirs' /\ InFlight' = InFlight
    BY <1>7 DEF ToolFinishes, QuestionInv, IdsAreTheirs, TypeOK, TasksOK, InFlight
  <2> QED
    BY <1>1, <1>7, <2>1 DEF ToolFinishes
<1>8. CASE SendReply(r)
  <2>1. IdsAreTheirs'
    BY <1>8 DEF SendReply, QuestionInv, IdsAreTheirs, TypeOK, TasksOK
  <2>2. Elems(outbound') \subseteq Elems(outbound) \cup {Reply(r)}
    BY <1>8, MessageTypes, Appended DEF SendReply, TypeOK, ChannelsOK
  <2>3. InFlight' \subseteq InFlight
    BY <1>8, <2>2 DEF SendReply, InFlight, Reply
  <2> QED
    BY <1>1, <1>8, <2>1, <2>3 DEF SendReply
<1> QED
  BY <1>2, <1>3, <1>4, <1>5, <1>6, <1>7, <1>8
-----------------------------------------------------------------------------
(* Requests.                                                               *)

Unread(r) == Request(r) \in Elems(c2s)
Queued(r) == Request(r) \in Elems(inbound)

\* A request is in the pipe, in the inbound channel or has a task, and in one
\* place only, so that its task is started once; and the loop ends drained.
RequestInv ==
  /\ RequestsOnce(c2s) /\ RequestsOnce(inbound)
  /\ \A r \in Requests :
       /\ ~(Unread(r) /\ Queued(r))
       /\ Unread(r) \/ Queued(r) => task[r] = "absent"
       /\ r \in peer.sent <=> Unread(r) \/ Queued(r) \/ task[r] # "absent"
  /\ main # "loop" => reader = "done" /\ inbound = <<>>

LEMMA InitRequests == Init => RequestInv
<1> SUFFICES ASSUME Init PROVE RequestInv
  OBVIOUS
<1>1. /\ RequestsOnce(c2s) /\ RequestsOnce(inbound)
      /\ \A r \in Requests : ~Unread(r) /\ ~Queued(r)
  BY EmptySeq DEF Init, Unread, Queued
<1> QED
  BY <1>1 DEF Init, RequestInv

\* Steps that move no request and start no task.
LEMMA FrameRequests ==
  ASSUME RequestInv, RequestsOnce(c2s)', RequestsOnce(inbound)',
         \A r \in Requests :
           /\ Unread(r)' <=> Unread(r)
           /\ Queued(r)' <=> Queued(r)
           /\ task'[r] = "absent" <=> task[r] = "absent",
         peer'.sent = peer.sent,
         main' # "loop" => reader' = "done" /\ inbound' = <<>>
  PROVE  RequestInv'
  BY DEF RequestInv

LEMMA WireRequests ==
  ASSUME TypeOK, RequestInv,
         \/ ReaderForwards \/ ReaderStops \/ MainIgnoresNotification \/ WriterWrites
         \/ WriterStops \/ PeerReads \/ PeerClosesStdin \/ PeerStopsReading
         \/ \E r \in Requests : PeerRequests(r)
         \/ \E m \in {Notification, Malformed} : PeerSendsOther(m)
         \/ \E e \in peer.seen : PeerAnswers(e) \/ PeerRepeats(e)
  PROVE  RequestInv'
<1> USE DEF env, wires, serverVars, TypeOK, ChannelsOK
<1>1. CASE ReaderForwards
  <2> DEFINE m == Head(c2s)
  <2>1. /\ m \in FromPeer /\ Elems(c2s) = Elems(c2s') \cup {m}
        /\ RequestsOnce(c2s') /\ (m.type = "request" => m \notin Elems(c2s'))
    BY <1>1, Consumed DEF ReaderForwards, RequestInv
  <2>2. m \in Accepted /\ inbound' = Append(inbound, m)
    BY <1>1, <2>1, KindOfMessage DEF ReaderForwards
  <2> HIDE DEF m
  <2>3. m.type = "request" => m \notin Elems(inbound)
    <3> SUFFICES ASSUME m.type = "request" PROVE m \notin Elems(inbound)
      OBVIOUS
    <3>1. PICK r \in Requests : m = Request(r)
      BY <2>2 DEF Accepted, Answers, Notification, Request
    <3> QED
      BY <2>1, <3>1 DEF RequestInv, Unread, Queued
  <2>4. Elems(inbound') = Elems(inbound) \cup {m} /\ RequestsOnce(inbound')
    BY <2>2, <2>3, Appended DEF RequestInv
  <2>5. \A r \in Requests :
          /\ Unread(r)' <=> (Unread(r) /\ m # Request(r))
          /\ Queued(r)' <=> (Queued(r) \/ m = Request(r))
          /\ m = Request(r) => Unread(r)
    BY <2>1, <2>4 DEF Unread, Queued, Request
  <2>6. UNCHANGED <<task, main, peer>> /\ reader = "running"
    BY <1>1 DEF ReaderForwards
  <2> QED
    BY <2>1, <2>4, <2>5, <2>6 DEF RequestInv
<1>2. CASE ReaderStops
  <2>1. \A r \in Requests : Request(r) # Malformed
    BY DEF Request, Malformed
  <2>2. RequestsOnce(c2s') /\ \A r \in Requests : Unread(r)' <=> Unread(r)
    <3>1. CASE c2s = <<>>
      BY <1>2, <3>1 DEF ReaderStops, Unread, RequestInv
    <3>2. CASE c2s # <<>>
      <4>1. /\ Elems(c2s) = Elems(Tail(c2s)) \cup {Head(c2s)} /\ RequestsOnce(Tail(c2s))
        BY <3>2, Consumed DEF RequestInv
      <4> QED
        BY <1>2, <2>1, <3>2, <4>1 DEF ReaderStops, Unread
    <3> QED
      BY <3>1, <3>2
  <2> QED
    BY <1>2, <2>2, FrameRequests DEF ReaderStops, RequestInv, Queued
<1>3. CASE MainIgnoresNotification
  <2>1. /\ Elems(inbound) = Elems(inbound') \cup {Notification} /\ RequestsOnce(inbound')
    BY <1>3, Consumed DEF MainIgnoresNotification, RequestInv
  <2>2. \A r \in Requests : Queued(r)' <=> Queued(r)
    BY <2>1 DEF Queued, Request, Notification
  <2> QED
    BY <1>3, <2>1, <2>2, FrameRequests DEF MainIgnoresNotification, RequestInv, Unread
<1>4. CASE WriterWrites
  BY <1>4, FrameRequests DEF WriterWrites, RequestInv, Unread, Queued
<1>5. CASE WriterStops
  BY <1>5, FrameRequests DEF WriterStops, RequestInv, Unread, Queued
<1>6. CASE PeerReads
  BY <1>6, FrameRequests DEF PeerReads, PeerOK, RequestInv, Unread, Queued
<1>7. CASE PeerClosesStdin \/ PeerStopsReading
  BY <1>7, FrameRequests DEF PeerClosesStdin, PeerStopsReading, RequestInv, Unread, Queued
<1>8. ASSUME NEW m \in FromPeer, m.type # "request", PeerWrites(m), peer'.sent = peer.sent
      PROVE  RequestInv'
  <2>1. Elems(c2s') = Elems(c2s) \cup {m} /\ RequestsOnce(c2s')
    BY <1>8, Appended DEF PeerWrites, RequestInv
  <2>2. \A r \in Requests : Unread(r)' <=> Unread(r)
    BY <1>8, <2>1 DEF Unread, Request
  <2> QED
    BY <1>8, <2>1, <2>2, FrameRequests DEF PeerWrites, RequestInv, Queued
<1>9. ASSUME NEW r \in Requests, PeerRequests(r) PROVE RequestInv'
  <2> DEFINE m == Request(r)
  <2>1. /\ m \in FromPeer /\ r \notin peer.sent /\ ~Unread(r) /\ ~Queued(r)
        /\ task[r] = "absent"
    BY <1>9, MessageTypes DEF PeerRequests, RequestInv
  <2>2. Elems(c2s') = Elems(c2s) \cup {m} /\ RequestsOnce(c2s')
    BY <1>9, <2>1, Appended DEF PeerRequests, PeerWrites, RequestInv, Unread
  <2>3. \A s \in Requests : Unread(s)' <=> Unread(s) \/ s = r
    BY <2>2 DEF Unread, Request
  <2>4. peer'.sent = peer.sent \cup {r} /\ UNCHANGED <<inbound, task, main, reader>>
    BY <1>9 DEF PeerRequests, PeerWrites, PeerOK
  <2> QED
    BY <2>1, <2>2, <2>3, <2>4 DEF RequestInv, Queued
<1>10. ASSUME NEW m \in {Notification, Malformed}, PeerSendsOther(m) PROVE RequestInv'
  <2>1. m \in FromPeer /\ m.type # "request"
    BY MessageTypes DEF Notification, Malformed
  <2> QED
    BY <1>8, <1>10, <2>1 DEF PeerSendsOther, PeerOK
<1>11. ASSUME NEW e \in peer.seen, PeerAnswers(e) \/ PeerRepeats(e) PROVE RequestInv'
  <2>1. e \in Elicits
    BY DEF PeerOK
  <2>2. Answer(e.id, e.q) \in FromPeer /\ Answer(e.id, e.q).type # "request"
    BY <2>1, MessageTypes DEF Elicits, Answer
  <2> QED
    BY <1>8, <1>11, <2>2 DEF PeerAnswers, PeerRepeats, PeerOK
<1> QED
  BY <1>1, <1>2, <1>3, <1>4, <1>5, <1>6, <1>7, <1>9, <1>10, <1>11

LEMMA TaskRequests ==
  ASSUME TypeOK, RequestInv,
         \/ MainDelivers \/ MainLeavesLoop \/ MainReturns
         \/ \E r \in Requests :
              \/ MainSpawns(r) \/ Ask(r) \/ SendQuestion(r) \/ QuestionUndeliverable(r)
              \/ ToolResumes(r) \/ ToolFinishes(r) \/ SendReply(r)
  PROVE  RequestInv'
<1> USE DEF env, wires
<1>1. CASE MainDelivers
  <2> DEFINE m == Head(inbound)
  <2>1. /\ Elems(inbound) = Elems(inbound') \cup {m} /\ RequestsOnce(inbound')
        /\ m.type = "answer"
    BY <1>1, Consumed DEF MainDelivers, RequestInv, TypeOK, ChannelsOK
  <2>2. \A r \in Requests : Queued(r)' <=> Queued(r)
    BY <2>1 DEF Queued, Request
  <2> QED
    BY <1>1, <2>1, <2>2, FrameRequests DEF MainDelivers, RequestInv, Unread
<1>2. CASE MainLeavesLoop \/ MainReturns
  BY <1>2, FrameRequests
     DEF MainLeavesLoop, MainReturns, InboundClosed, RequestInv, Unread, Queued
<1>3. ASSUME NEW r \in Requests, MainSpawns(r) PROVE RequestInv'
  <2> DEFINE m == Request(r)
  <2>0. inbound \in Seq(Accepted) /\ inbound # <<>> /\ Head(inbound) = m
        /\ inbound' = Tail(inbound) /\ RequestsOnce(inbound) /\ m.type = "request"
    BY <1>3 DEF MainSpawns, RequestInv, TypeOK, ChannelsOK, Request
  <2>1. /\ Elems(inbound) = Elems(inbound') \cup {m} /\ RequestsOnce(inbound')
        /\ m \notin Elems(inbound')
    BY <2>0, Consumed
  <2>2. Queued(r) /\ \A s \in Requests : Queued(s)' <=> Queued(s) /\ s # r
    BY <2>1 DEF Queued, Request
  <2>3. \A s \in Requests : task'[s] = IF s = r THEN "running" ELSE task[s]
    BY <1>3 DEF MainSpawns, TypeOK, TasksOK
  <2>4. UNCHANGED <<c2s, peer, main>> /\ main = "loop"
    BY <1>3 DEF MainSpawns
  <2> QED
    BY <2>1, <2>2, <2>3, <2>4 DEF RequestInv, Unread
<1>4. ASSUME NEW r \in Requests,
             \/ Ask(r) \/ SendQuestion(r) \/ QuestionUndeliverable(r)
             \/ ToolResumes(r) \/ ToolFinishes(r) \/ SendReply(r)
      PROVE  RequestInv'
  <2>1. task[r] # "absent" /\ task'[r] # "absent"
        /\ \A s \in Requests : s # r => task'[s] = task[s]
    BY <1>4 DEF Ask, SendQuestion, QuestionUndeliverable, ToolResumes, ToolFinishes, SendReply,
                TypeOK, TasksOK
  <2>2. UNCHANGED <<c2s, inbound, peer, main, reader>>
    BY <1>4 DEF Ask, SendQuestion, QuestionUndeliverable, ToolResumes, ToolFinishes, SendReply
  <2> QED
    BY <2>1, <2>2, FrameRequests DEF RequestInv, Unread, Queued
<1> QED
  BY <1>1, <1>2, <1>3, <1>4

\* The task of a request is started from the absent state.
LEMMA SpawnsOnce ==
  ASSUME RequestInv, TypeOK, NEW r \in Requests, MainSpawns(r) PROVE task[r] = "absent"
  BY Consumed DEF RequestInv, MainSpawns, Queued, TypeOK, ChannelsOK

-----------------------------------------------------------------------------
(* The theorems.                                                           *)

IInv == TypeOK /\ QuestionInv /\ RequestInv

LEMMA InitIInv == Init => IInv
  BY InitTypes, InitQuestions, InitRequests DEF IInv

LEMMA NextIInv == IInv /\ [Next]_vars => IInv'
<1> SUFFICES ASSUME IInv, [Next]_vars PROVE IInv'
  OBVIOUS
<1>1. CASE Next
  <2>1. TypeOK'
    BY <1>1, WireTypes, TaskTypes, AskersFromInv DEF Next, ServerStep, PeerStep, IInv
  <2>2. QuestionInv'
    <3>1. ASSUME NEW r \in Requests, MainSpawns(r) PROVE QuestionInv'
      BY <3>1, SpawnsOnce, TaskQuestions DEF IInv
    <3>2. ASSUME NEW r \in Requests,
                 \/ Ask(r) \/ SendQuestion(r) \/ QuestionUndeliverable(r)
                 \/ ToolResumes(r) \/ ToolFinishes(r) \/ SendReply(r)
          PROVE  QuestionInv'
      BY <3>2, TaskQuestions DEF IInv
    <3> QED
      BY <1>1, <3>1, <3>2, WireQuestions, DeliverQuestions DEF Next, ServerStep, PeerStep, IInv
  <2>3. RequestInv'
    BY <1>1, WireRequests, TaskRequests DEF Next, ServerStep, PeerStep, IInv
  <2> QED
    BY <2>1, <2>2, <2>3 DEF IInv
<1>2. CASE UNCHANGED vars
  <2>1. TypeOK'
    BY <1>2 DEF vars, serverVars, wires, IInv, TypeOK, ChannelsOK, LoopsOK, TasksOK, PeerOK
  <2>2. QuestionInv'
    BY <1>2, FrameQuestions DEF vars, serverVars, wires, IInv, InFlight
  <2>3. RequestInv'
    BY <1>2, FrameRequests DEF vars, serverVars, wires, IInv, RequestInv, Unread, Queued
  <2> QED
    BY <2>1, <2>2, <2>3 DEF IInv
<1> QED
  BY <1>1, <1>2

LEMMA Inductive == Spec => []IInv
  BY InitIInv, NextIInv, PTL DEF Spec

\* In every reachable state all variables have their types and neither channel
\* nor pipe holds more than its capacity.
THEOREM TypeCorrect == Spec => []TypeOK
<1>1. IInv => TypeOK
  BY DEF IInv
<1> QED
  BY <1>1, Inductive, PTL

\* Whatever the peer repeats, delays or reorders, the answer a tool call hears
\* is the answer to the question it is waiting on (deliver_response).
THEOREM AnswersReachTheirQuestion == Spec => []AnswersMatchQuestions
<1>1. IInv => AnswersMatchQuestions
  BY DEF IInv, QuestionInv
<1> QED
  BY <1>1, Inductive, PTL

\* The pending map of the elicitation handle holds exactly the calls whose
\* question is unanswered: no waiter is lost and none leaks.
THEOREM WaitersStayExact == Spec => []WaitersAreExact
<1>1. IInv => WaitersAreExact
  BY WaitersFromInv DEF IInv
<1> QED
  BY <1>1, Inductive, PTL

\* When run_stdio leaves its loop, every request the peer wrote has its task
\* or was never read.
THEOREM NothingDroppedAtEof == Spec => []NoRequestDroppedAtEof
<1>1. IInv => NoRequestDroppedAtEof
  <2> SUFFICES ASSUME IInv, main # "loop", NEW r \in peer.sent, task[r] = "absent"
               PROVE  \E k \in 1..Len(c2s) : c2s[k] = Request(r)
    BY DEF NoRequestDroppedAtEof
  <2>1. r \in Requests
    BY DEF IInv, TypeOK, PeerOK
  <2>2. ~Queued(r)
    BY EmptySeq DEF IInv, RequestInv, Queued
  <2> QED
    BY <2>1, <2>2 DEF IInv, RequestInv, Unread, Elems
<1> QED
  BY <1>1, Inductive, PTL
=============================================================================
