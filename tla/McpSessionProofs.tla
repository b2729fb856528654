--------------------------- MODULE McpSessionProofs ---------------------------
(***************************************************************************)
(* The session implements RemoteCall, for any number of callers and any    *)
(* capacities.                                                             *)
(*                                                                         *)
(* About the client the proof needs what McpClientProofs shows of it: ids  *)
(* are distinct and in range, and replies reach their caller.  About the   *)
(* two processes it needs to know where requests and replies can be: a     *)
(* request in transit is in one place, once, and has not been taken up; a  *)
(* reply in transit is that of a request that has.                         *)
(***************************************************************************)
EXTENDS McpSession, FiniteSetTheorems, TLAPS

Caller == INSTANCE McpClientProofs
            WITH Questions <- {}, serverUp <- main # "returned", peer <- 0
Served == INSTANCE StdioServerProofs
            WITH Requests <- Ids, MaxRepeats <- 0, peer <- 0

\* Sequences as the sets of what they hold: the lemmas of StdioServerProofs.
Elems(s) == Served!Elems(s)
RequestsOnce(s) == Served!RequestsOnce(s)

LEMMA Appended ==
  ASSUME NEW S, NEW s \in Seq(S), NEW m \in S
  PROVE  /\ Append(s, m) \in Seq(S)
         /\ Elems(Append(s, m)) = Elems(s) \cup {m}
         /\ RequestsOnce(s) /\ (m.type = "request" => m \notin Elems(s))
              => RequestsOnce(Append(s, m))
BY SessionAssumption, Served!Appended DEF Elems, RequestsOnce

LEMMA Consumed ==
  ASSUME NEW S, NEW s \in Seq(S), s # <<>>
  PROVE  /\ Head(s) \in S /\ Tail(s) \in Seq(S)
         /\ Elems(s) = Elems(Tail(s)) \cup {Head(s)}
         /\ RequestsOnce(s) => /\ RequestsOnce(Tail(s))
                               /\ Head(s).type = "request" => Head(s) \notin Elems(Tail(s))
BY SessionAssumption, Served!Consumed DEF Elems, RequestsOnce

LEMMA EmptySeq ==
  ASSUME NEW S
  PROVE  <<>> \in Seq(S) /\ Elems(<<>>) = {} /\ RequestsOnce(<<>>)
BY SessionAssumption, Served!EmptySeq DEF Elems, RequestsOnce

Request(i) == [type |-> "request", id |-> i]
Elicits == [type : {"elicit"}, id : Nat, q : Ids \X Nat]
ToServer == [type : {"request"}, id : Ids] \cup [type : {"answer"}, id : Nat, q : Ids \X Nat]
ToClient == [type : {"reply"}, id : Ids] \cup Elicits
TaskPhases == Server!Live \cup {"absent", "finished"}

ChannelsOK ==
  /\ outbox \in Seq(ToServer) /\ c2s \in Seq(ToServer) /\ inbound \in Seq(ToServer)
  /\ outbound \in Seq(ToClient) /\ s2c \in Seq(ToClient)
  /\ handling \subseteq Elicits

TasksOK ==
  /\ task \in [Ids -> TaskPhases]
  /\ asked \in [Ids -> Nat] /\ waitingFor \in [Ids -> Nat]
  /\ nextId \in Nat

\* A request is in one of the three places it passes, and there once.
Transit == {i \in Ids : Request(i) \in Elems(outbox) \cup Elems(c2s) \cup Elems(inbound)}
Apart(s, t) == \A i \in Ids : ~(Request(i) \in Elems(s) /\ Request(i) \in Elems(t))
RequestsInOnePlace ==
  /\ RequestsOnce(outbox) /\ RequestsOnce(c2s) /\ RequestsOnce(inbound)
  /\ Apart(outbox, c2s) /\ Apart(outbox, inbound) /\ Apart(c2s, inbound)

\* A request on its way, about to be queued or yet to be made was not taken up.
RequestsAreNew ==
  /\ \A i \in Transit : i < nextCall /\ task[i] = "absent"
  /\ \A c \in Callers : phase[c] = "sending" => callId[c] \notin Transit /\ task[callId[c]] = "absent"
  /\ \A i \in Ids : i >= nextCall => task[i] = "absent"

\* A reply is that of a request which was taken up.
RepliesAreOfTasks ==
  /\ \A m \in Elems(outbound) \cup Elems(s2c) : m.type = "reply" => task[m.id] # "absent"
  /\ \A c \in Callers : reply[c] # 0 => task[reply[c]] # "absent"

SessionInv ==
  /\ Caller!ClientInv
  /\ ChannelsOK /\ TasksOK
  /\ RequestsInOnePlace /\ RequestsAreNew /\ RepliesAreOfTasks

-----------------------------------------------------------------------------
(* The client's part.                                                      *)

LEMMA SameClient == Client!ClientStep <=> Caller!ClientStep
BY DEF Client!ClientStep, Client!Register, Client!QueueRequest, Client!QueueFails,
       Client!CallReturns, Client!DropClient, Client!ReaderRoutesReply,
       Client!ReaderSpawnsHandler, Client!ReaderIgnoresNotification, Client!ReaderEnds,
       Client!HandlerAnswers, Client!WriterWrites, Client!WriterEnds, Client!IdAfter,
       Client!WithoutWaiter, Client!WaitersAtEof, Client!HasRoom, Client!OutboxSenders,
       Client!ReaderHoldsSender, Client!Request, Client!Answer, Client!Notification,
       Client!Malformed, Client!clientVars, Client!env, Client!wires,
       Caller!ClientStep, Caller!Register, Caller!QueueRequest, Caller!QueueFails,
       Caller!CallReturns, Caller!DropClient, Caller!ReaderRoutesReply,
       Caller!ReaderSpawnsHandler, Caller!ReaderIgnoresNotification, Caller!ReaderEnds,
       Caller!HandlerAnswers, Caller!WriterWrites, Caller!WriterEnds, Caller!IdAfter,
       Caller!WithoutWaiter, Caller!WaitersAtEof, Caller!HasRoom, Caller!OutboxSenders,
       Caller!ReaderHoldsSender, Caller!Request, Caller!Answer, Caller!Notification,
       Caller!Malformed, Caller!clientVars, Caller!env, Caller!wires

LEMMA SameCallers ==
  /\ IsFiniteSet(Callers) <=> Caller!IsFiniteSet(Callers)
  /\ Cardinality(Callers) = Caller!Cardinality(Callers)
BY DEF IsFiniteSet, Caller!IsFiniteSet, Cardinality, Caller!Cardinality

LEMMA ClientKept ==
  ASSUME Caller!ClientInv, [Next]_vars
  PROVE  Caller!ClientInv'
<1>1. Caller!ClientStep \/ UNCHANGED Caller!clientVars
  BY SameClient DEF Next, ServerMoves, ClientMoves, ServerKilled, vars, clientVars, Caller!clientVars
<1> QED
  BY <1>1, SessionAssumption, SameCallers, Caller!ClientInvKept

\* What the rest of the proof uses of the client.
LEMMA ClientFacts ==
  ASSUME Caller!ClientInv
  PROVE  /\ phase \in [Callers -> {"idle", "sending", "waiting", "ok", "failed"}]
         /\ callId \in [Callers -> {0} \cup Ids] /\ reply \in [Callers -> Nat]
         /\ nextCall \in Nat \ {0}
         /\ \A c \in Callers :
              /\ callId[c] < nextCall
              /\ phase[c] = "idle" <=> callId[c] = 0
              /\ phase[c] = "idle" => nextCall \in Ids
              /\ reply[c] \in {0, callId[c]}
              /\ phase[c] = "ok" => reply[c] = callId[c]
         /\ \A c, d \in Callers : callId[c] = callId[d] /\ callId[c] # 0 => c = d
         /\ \A i \in 1..nextCall - 1 : \E c \in Callers : callId[c] = i
         /\ \A i \in DOMAIN cPending : i # 0 /\ cPending[i] \in Callers /\ callId[cPending[i]] = i
         /\ Ids \subseteq Nat \ {0}
<1>1. /\ \A c \in Callers : phase[c] = "idle" => nextCall \in Ids
      /\ \A c \in Callers : callId[c] \in {0} \cup Ids
  BY SessionAssumption, SameCallers, Caller!IdsAreInRange DEF Caller!Ids, Ids
<1>2. callId \in [Callers -> Nat]
  BY DEF Caller!ClientInv, Caller!CallsOK
<1>3. Ids \subseteq Nat \ {0}
  BY SessionAssumption, FS_CardinalityType DEF Ids
<1> QED
  BY <1>1, <1>2, <1>3 DEF Caller!ClientInv, Caller!CallsOK, Caller!Phases, Caller!IdsAreDistinct,
     Caller!WaitersAreTheirs, Caller!RepliesReachTheirCaller

-----------------------------------------------------------------------------
(* Types.                                                                  *)

LEMMA MessageTypes ==
  /\ \A i \in Ids : Request(i) \in ToServer /\ Server!Reply(i) \in ToClient
  /\ \A e \in Elicits : Client!Answer(e.id, e.q) \in ToServer
  /\ \A r \in Ids, i, n \in Nat : Server!Elicit(i, <<r, n>>) \in Elicits
  /\ Elicits \subseteq ToClient
  /\ \A m \in ToServer : m.type = "request" => m.id \in Ids /\ m = Request(m.id)
  /\ \A m \in ToClient : /\ m.type = "elicit" => m \in Elicits
                         /\ m.type = "reply" => m.id \in Ids
BY DEF Request, Server!Reply, Client!Answer, Server!Elicit, Elicits, ToServer, ToClient

LEMMA ClientChannels ==
  ASSUME SessionInv, ClientMoves
  PROVE  ChannelsOK'
<1> USE DEF ChannelsOK, SessionInv
<1>1. UNCHANGED <<inbound, outbound>>
  BY DEF ClientMoves, serverVars
<1>2. ASSUME NEW c \in Callers, Client!QueueRequest(c) PROVE ChannelsOK'
  <2>1. callId[c] \in Ids
    BY <1>2, ClientFacts DEF Client!QueueRequest
  <2> QED
    BY <1>1, <1>2, <2>1, MessageTypes, Appended
    DEF Client!QueueRequest, Client!Request, Request, Client!env, Client!wires
<1>3. ASSUME NEW c \in Callers,
             Client!Register(c) \/ Client!QueueFails(c) \/ Client!CallReturns(c)
      PROVE  ChannelsOK'
  BY <1>1, <1>3 DEF Client!Register, Client!QueueFails, Client!CallReturns, Client!env, Client!wires
<1>4. CASE Client!DropClient
  BY <1>1, <1>4 DEF Client!DropClient, Client!env, Client!wires
<1>5. CASE Client!ReaderRoutesReply \/ Client!ReaderIgnoresNotification
  <2>1. s2c # <<>> /\ s2c' = Tail(s2c) /\ UNCHANGED <<outbox, c2s, handling>>
    BY <1>5 DEF Client!ReaderRoutesReply, Client!ReaderIgnoresNotification, Client!clientVars
  <2> QED
    BY <1>1, <2>1, Consumed
<1>6. CASE Client!ReaderSpawnsHandler
  BY <1>1, <1>6, Consumed, MessageTypes DEF Client!ReaderSpawnsHandler
<1>7. CASE Client!ReaderEnds
  BY <1>1, <1>7, EmptySeq DEF Client!ReaderEnds
<1>8. ASSUME NEW e \in handling, Client!HandlerAnswers(e) PROVE ChannelsOK'
  <2>1. Client!Answer(e.id, e.q) \in ToServer
    BY MessageTypes
  <2> QED
    BY <1>1, <1>8, <2>1, Appended DEF Client!HandlerAnswers, Client!env, Client!wires
<1>9. CASE Client!WriterWrites
  <2>1. Head(outbox) \in ToServer /\ Tail(outbox) \in Seq(ToServer)
    BY <1>9, Consumed DEF Client!WriterWrites
  <2> QED
    BY <1>1, <1>9, <2>1, Appended DEF Client!WriterWrites
<1>10. CASE Client!WriterEnds
  BY <1>1, <1>10, EmptySeq DEF Client!WriterEnds
<1> QED
  BY <1>2, <1>3, <1>4, <1>5, <1>6, <1>7, <1>8, <1>9, <1>10 DEF ClientMoves, Client!ClientStep

LEMMA ServerChannels ==
  ASSUME SessionInv, ServerMoves
  PROVE  ChannelsOK'
<1> USE DEF ChannelsOK, SessionInv
<1>1. UNCHANGED <<outbox, handling>>
  BY DEF ServerMoves, clientVars
<1>2. CASE Server!ReaderForwards
  <2>1. Head(c2s) \in ToServer /\ Tail(c2s) \in Seq(ToServer)
    BY <1>2, Consumed DEF Server!ReaderForwards
  <2> QED
    BY <1>1, <1>2, <2>1, Appended DEF Server!ReaderForwards
<1>3. CASE Server!ReaderStops
  BY <1>1, <1>3, Consumed DEF Server!ReaderStops
<1>4. CASE Server!MainDelivers \/ Server!MainIgnoresNotification
  <2>1. inbound # <<>> /\ inbound' = Tail(inbound) /\ UNCHANGED <<c2s, outbound, s2c>>
    BY <1>4 DEF Server!MainDelivers, Server!MainIgnoresNotification, Server!env, Server!wires
  <2> QED
    BY <1>1, <2>1, Consumed
<1>5. CASE Server!MainLeavesLoop \/ Server!MainReturns
  BY <1>1, <1>5 DEF Server!MainLeavesLoop, Server!MainReturns, Server!env, Server!wires
<1>6. CASE Server!WriterWrites
  <2>1. Head(outbound) \in ToClient /\ Tail(outbound) \in Seq(ToClient)
    BY <1>6, Consumed DEF Server!WriterWrites
  <2> QED
    BY <1>1, <1>6, <2>1, Appended DEF Server!WriterWrites
<1>7. CASE Server!WriterStops
  BY <1>1, <1>7, EmptySeq DEF Server!WriterStops
<1>8. ASSUME NEW r \in Ids, Server!MainSpawns(r) PROVE ChannelsOK'
  BY <1>1, <1>8, Consumed DEF Server!MainSpawns, Server!env, Server!wires
<1>9. ASSUME NEW r \in Ids, Server!SendQuestion(r) PROVE ChannelsOK'
  <2>1. Server!Elicit(waitingFor[r], <<r, asked[r]>>) \in ToClient
    BY MessageTypes DEF TasksOK
  <2> QED
    BY <1>1, <1>9, <2>1, Appended DEF Server!SendQuestion, Server!env, Server!wires
<1>10. ASSUME NEW r \in Ids, Server!SendReply(r) PROVE ChannelsOK'
  <2>1. Server!Reply(r) \in ToClient
    BY MessageTypes
  <2> QED
    BY <1>1, <1>10, <2>1, Appended DEF Server!SendReply, Server!env, Server!wires
<1>11. ASSUME NEW r \in Ids,
              Server!Ask(r) \/ Server!QuestionUndeliverable(r) \/ Server!ToolResumes(r)
                \/ Server!ToolFinishes(r)
       PROVE  ChannelsOK'
  BY <1>1, <1>11 DEF Server!Ask, Server!QuestionUndeliverable, Server!ToolResumes,
                     Server!ToolFinishes, Server!env, Server!wires
<1> QED
  BY <1>2, <1>3, <1>4, <1>5, <1>6, <1>7, <1>8, <1>9, <1>10, <1>11
  DEF ServerMoves, Server!ServerStep

LEMMA ChannelsKept ==
  ASSUME SessionInv, [Next]_vars
  PROVE  ChannelsOK'
<1>1. CASE ServerKilled
  BY <1>1, EmptySeq DEF ServerKilled, ChannelsOK, SessionInv, clientVars
<1>2. CASE UNCHANGED vars
  BY <1>2 DEF vars, clientVars, serverVars, wires, ChannelsOK, SessionInv
<1> QED
  BY <1>1, <1>2, ClientChannels, ServerChannels DEF Next

\* A task that was started stays so, and none starts but by MainSpawns.
SameTasksStarted == \A i \in Ids : task'[i] = "absent" <=> task[i] = "absent"

LEMMA TasksKept ==
  ASSUME SessionInv, [Next]_vars
  PROVE  /\ TasksOK'
         /\ \/ SameTasksStarted
            \/ \E r \in Ids : Server!MainSpawns(r) /\ UNCHANGED clientVars
         /\ \A i \in Ids : task[i] # "absent" => task'[i] # "absent"
<1> USE DEF TasksOK, TaskPhases, Server!Live, SessionInv, SameTasksStarted
<1>1. ASSUME NEW r \in Ids, Server!MainSpawns(r)
      PROVE  TasksOK' /\ \A i \in Ids : task[i] # "absent" => task'[i] # "absent"
  BY <1>1 DEF Server!MainSpawns
<1>2. ASSUME NEW r \in Ids, Server!Ask(r) PROVE TasksOK' /\ SameTasksStarted
  BY <1>2 DEF Server!Ask, Server!IdAfter
<1>3. ASSUME NEW r \in Ids,
             Server!SendQuestion(r) \/ Server!ToolFinishes(r) \/ Server!SendReply(r)
      PROVE  TasksOK' /\ SameTasksStarted
  BY <1>3 DEF Server!SendQuestion, Server!ToolFinishes, Server!SendReply
<1>4. ASSUME NEW r \in Ids, Server!QuestionUndeliverable(r) \/ Server!ToolResumes(r)
      PROVE  TasksOK' /\ SameTasksStarted
  BY <1>4 DEF Server!QuestionUndeliverable, Server!ToolResumes
<1>5. CASE UNCHANGED <<task, asked, waitingFor, nextId>>
  BY <1>5
<1>6. CASE Server!ReaderForwards \/ Server!ReaderStops \/ Server!WriterWrites \/ Server!WriterStops
  BY <1>5, <1>6 DEF Server!ReaderForwards, Server!ReaderStops, Server!WriterWrites,
                    Server!WriterStops
<1>7. CASE Server!MainDelivers \/ Server!MainIgnoresNotification \/ Server!MainLeavesLoop
             \/ Server!MainReturns
  BY <1>5, <1>7 DEF Server!MainDelivers, Server!MainIgnoresNotification, Server!MainLeavesLoop,
                    Server!MainReturns
<1>8. CASE ClientMoves
  BY <1>5, <1>8 DEF ClientMoves, serverVars
<1>9. CASE ServerKilled
  BY <1>9 DEF ServerKilled
<1>10. CASE UNCHANGED vars
  BY <1>5, <1>10 DEF vars, serverVars
<1> QED
  BY <1>1, <1>2, <1>3, <1>4, <1>6, <1>7, <1>8, <1>9, <1>10
  DEF Next, ServerMoves, Server!ServerStep

-----------------------------------------------------------------------------
(* Where requests are.                                                     *)

\* A message goes from the head of s to the end of t.
LEMMA Forwarded ==
  ASSUME NEW s \in Seq(ToServer), NEW t \in Seq(ToServer), s # <<>>,
         RequestsOnce(s), RequestsOnce(t), Apart(s, t)
  PROVE  /\ RequestsOnce(Tail(s)) /\ RequestsOnce(Append(t, Head(s)))
         /\ Apart(Tail(s), Append(t, Head(s)))
         /\ Head(s) \in Elems(s) /\ Elems(Tail(s)) \subseteq Elems(s)
         /\ Elems(Append(t, Head(s))) = Elems(t) \cup {Head(s)}
<1> DEFINE m == Head(s)
<1>1. /\ m \in ToServer /\ Elems(s) = Elems(Tail(s)) \cup {m} /\ RequestsOnce(Tail(s))
      /\ m.type = "request" => m \notin Elems(Tail(s))
  BY Consumed
<1>2. m.type = "request" => m \notin Elems(t)
  BY <1>1, MessageTypes DEF Apart
<1>3. RequestsOnce(Append(t, m)) /\ Elems(Append(t, m)) = Elems(t) \cup {m}
  BY <1>1, <1>2, Appended
<1> HIDE DEF m
<1>4. ASSUME NEW i \in Ids, Request(i) = m PROVE Request(i) \notin Elems(Tail(s))
  BY <1>1, <1>4 DEF Request
<1>5. Apart(Tail(s), Append(t, m))
  BY <1>1, <1>3, <1>4 DEF Apart
<1> QED
  BY <1>1, <1>3, <1>5 DEF m

\* Only queueing one brings a request into transit.
Queues(c) ==
  /\ phase[c] = "sending" /\ phase' = [phase EXCEPT ![c] = "waiting"]
  /\ UNCHANGED <<callId, nextCall>>
PlacesKept ==
  /\ RequestsInOnePlace'
  /\ \A i \in Transit' : i \in Transit \/ \E c \in Callers : Queues(c) /\ i = callId[c]

LEMMA FewerRequests ==
  ASSUME SessionInv,
         RequestsOnce(outbox'), RequestsOnce(c2s'), RequestsOnce(inbound'),
         Elems(outbox') \subseteq Elems(outbox), Elems(c2s') \subseteq Elems(c2s),
         Elems(inbound') \subseteq Elems(inbound)
  PROVE  PlacesKept
BY DEF SessionInv, PlacesKept, RequestsInOnePlace, Apart, Transit

LEMMA ClientPlaces ==
  ASSUME SessionInv, ClientMoves
  PROVE  PlacesKept
<1> USE DEF SessionInv, ChannelsOK
<1>1. inbound' = inbound
  BY DEF ClientMoves, serverVars
<1>2. CASE UNCHANGED <<outbox, c2s>>
  BY <1>1, <1>2, FewerRequests DEF RequestsInOnePlace
<1>3. ASSUME NEW c \in Callers, Client!QueueRequest(c) PROVE PlacesKept
  <2> DEFINE m == Request(callId[c])
  <2>1. outbox' = Append(outbox, m) /\ c2s' = c2s /\ phase[c] = "sending"
    BY <1>3 DEF Client!QueueRequest, Client!Request, Request, Client!env, Client!wires
  <2>2. callId[c] \in Ids /\ callId[c] \notin Transit
    BY <2>1, ClientFacts DEF RequestsAreNew
  <2>3. m \in ToServer /\ m \notin Elems(outbox) /\ m \notin Elems(c2s) /\ m \notin Elems(inbound)
    BY <2>2, MessageTypes DEF Transit
  <2>4. RequestsOnce(outbox') /\ Elems(outbox') = Elems(outbox) \cup {m}
    BY <2>1, <2>3, Appended DEF RequestsInOnePlace
  <2>5. \A i \in Ids : Request(i) = m => i = callId[c]
    BY DEF Request
  <2> HIDE DEF m
  <2>6. RequestsInOnePlace'
    BY <1>1, <2>1, <2>3, <2>4 DEF RequestsInOnePlace, Apart
  <2>7. \A i \in Transit' : i \in Transit \/ i = callId[c]
    BY <1>1, <2>1, <2>4, <2>5 DEF Transit
  <2>8. Queues(c)
    BY <1>3 DEF Client!QueueRequest, Queues
  <2> QED
    BY <2>6, <2>7, <2>8 DEF PlacesKept
<1>4. ASSUME NEW c \in Callers,
             Client!Register(c) \/ Client!QueueFails(c) \/ Client!CallReturns(c)
      PROVE  PlacesKept
  BY <1>2, <1>4 DEF Client!Register, Client!QueueFails, Client!CallReturns, Client!env, Client!wires
<1>5. CASE Client!DropClient \/ Client!ReaderRoutesReply \/ Client!ReaderSpawnsHandler
             \/ Client!ReaderIgnoresNotification \/ Client!ReaderEnds
  BY <1>2, <1>5 DEF Client!DropClient, Client!ReaderRoutesReply, Client!ReaderSpawnsHandler,
     Client!ReaderIgnoresNotification, Client!ReaderEnds, Client!env, Client!wires,
     Client!clientVars
<1>6. ASSUME NEW e \in handling, Client!HandlerAnswers(e) PROVE PlacesKept
  <2> DEFINE m == Client!Answer(e.id, e.q)
  <2>1. m \in ToServer /\ m.type # "request"
    BY MessageTypes DEF Client!Answer
  <2>2. \A i \in Ids : Request(i) # m
    BY DEF Request, Client!Answer
  <2> HIDE DEF m
  <2>3. c2s' = c2s /\ outbox' \in {outbox, Append(outbox, m)}
    BY <1>6 DEF Client!HandlerAnswers, Client!env, Client!wires, m
  <2>4. RequestsOnce(outbox') /\ Elems(outbox') \subseteq Elems(outbox) \cup {m}
    <3>1. RequestsOnce(Append(outbox, m)) /\ Elems(Append(outbox, m)) = Elems(outbox) \cup {m}
      BY <2>1, Appended DEF RequestsInOnePlace
    <3> QED
      BY <2>3, <3>1 DEF RequestsInOnePlace
  <2> QED
    BY <1>1, <2>2, <2>3, <2>4 DEF PlacesKept, RequestsInOnePlace, Apart, Transit
<1>7. CASE Client!WriterWrites
  <2>1. outbox # <<>> /\ outbox' = Tail(outbox) /\ c2s' = Append(c2s, Head(outbox))
    BY <1>7 DEF Client!WriterWrites
  <2>2. /\ RequestsOnce(outbox') /\ RequestsOnce(c2s') /\ Apart(outbox', c2s')
        /\ Head(outbox) \in Elems(outbox) /\ Elems(outbox') \subseteq Elems(outbox)
        /\ Elems(c2s') = Elems(c2s) \cup {Head(outbox)}
    BY <2>1, Forwarded DEF RequestsInOnePlace
  <2> QED
    BY <1>1, <2>2 DEF PlacesKept, RequestsInOnePlace, Apart, Transit
<1>8. CASE Client!WriterEnds
  BY <1>1, <1>8, EmptySeq, FewerRequests DEF Client!WriterEnds, RequestsInOnePlace
<1> QED
  BY <1>3, <1>4, <1>5, <1>6, <1>7, <1>8 DEF ClientMoves, Client!ClientStep

LEMMA ServerPlaces ==
  ASSUME SessionInv, ServerMoves
  PROVE  PlacesKept
<1> USE DEF SessionInv, ChannelsOK
<1>1. outbox' = outbox
  BY DEF ServerMoves, clientVars
<1>2. CASE UNCHANGED <<c2s, inbound>>
  BY <1>1, <1>2, FewerRequests DEF RequestsInOnePlace
<1>3. CASE Server!ReaderForwards
  <2>1. c2s # <<>> /\ c2s' = Tail(c2s) /\ inbound' = Append(inbound, Head(c2s))
    BY <1>3 DEF Server!ReaderForwards
  <2>2. /\ RequestsOnce(c2s') /\ RequestsOnce(inbound') /\ Apart(c2s', inbound')
        /\ Head(c2s) \in Elems(c2s) /\ Elems(c2s') \subseteq Elems(c2s)
        /\ Elems(inbound') = Elems(inbound) \cup {Head(c2s)}
    BY <2>1, Forwarded DEF RequestsInOnePlace
  <2> QED
    BY <1>1, <2>2 DEF PlacesKept, RequestsInOnePlace, Apart, Transit
<1>4. CASE Server!ReaderStops
  <2>1. inbound' = inbound /\ (c2s' = c2s \/ (c2s # <<>> /\ c2s' = Tail(c2s)))
    BY <1>4 DEF Server!ReaderStops
  <2>2. RequestsOnce(c2s') /\ Elems(c2s') \subseteq Elems(c2s)
    BY <2>1, Consumed DEF RequestsInOnePlace
  <2> QED
    BY <1>1, <2>1, <2>2, FewerRequests DEF RequestsInOnePlace
<1>5. CASE inbound # <<>> /\ inbound' = Tail(inbound) /\ c2s' = c2s
  <2>1. RequestsOnce(inbound') /\ Elems(inbound') \subseteq Elems(inbound)
    BY <1>5, Consumed DEF RequestsInOnePlace
  <2> QED
    BY <1>1, <1>5, <2>1, FewerRequests DEF RequestsInOnePlace
<1>6. CASE \/ Server!MainDelivers \/ Server!MainIgnoresNotification
           \/ \E r \in Ids : Server!MainSpawns(r)
  BY <1>5, <1>6 DEF Server!MainDelivers, Server!MainIgnoresNotification, Server!MainSpawns,
                    Server!env, Server!wires
<1>7. CASE Server!MainLeavesLoop \/ Server!MainReturns \/ Server!WriterWrites \/ Server!WriterStops
  BY <1>2, <1>7 DEF Server!MainLeavesLoop, Server!MainReturns, Server!WriterWrites,
                    Server!WriterStops, Server!env, Server!wires
<1>8. ASSUME NEW r \in Ids,
             \/ Server!Ask(r) \/ Server!SendQuestion(r) \/ Server!QuestionUndeliverable(r)
             \/ Server!ToolResumes(r) \/ Server!ToolFinishes(r) \/ Server!SendReply(r)
      PROVE  PlacesKept
  BY <1>2, <1>8 DEF Server!Ask, Server!SendQuestion, Server!QuestionUndeliverable,
     Server!ToolResumes, Server!ToolFinishes, Server!SendReply, Server!env, Server!wires
<1> QED
  BY <1>3, <1>4, <1>6, <1>7, <1>8 DEF ServerMoves, Server!ServerStep

LEMMA PlacesAreKept ==
  ASSUME SessionInv, [Next]_vars
  PROVE  PlacesKept
<1>1. CASE ServerKilled
  BY <1>1, EmptySeq, FewerRequests DEF ServerKilled, clientVars, SessionInv, RequestsInOnePlace
<1>2. CASE UNCHANGED vars
  BY <1>2, FewerRequests DEF vars, clientVars, serverVars, wires, SessionInv, RequestsInOnePlace
<1> QED
  BY <1>1, <1>2, ClientPlaces, ServerPlaces DEF Next

-----------------------------------------------------------------------------
(* What a step does to the calls.                                          *)

Starts(c) ==
  /\ phase[c] = "idle" /\ phase' = [phase EXCEPT ![c] = "sending"]
  /\ callId' = [callId EXCEPT ![c] = nextCall] /\ nextCall' = nextCall + 1
Ends(c) ==
  /\ \/ phase[c] \in {"sending", "waiting"} /\ phase' = [phase EXCEPT ![c] = "failed"]
     \/ phase[c] = "waiting" /\ reply[c] # 0 /\ phase' = [phase EXCEPT ![c] = "ok"]
  /\ UNCHANGED <<callId, nextCall>>

LEMMA StepCalls ==
  ASSUME [Next]_vars
  PROVE  \/ UNCHANGED <<phase, callId, nextCall>>
         \/ \E c \in Callers : Starts(c) \/ Queues(c) \/ Ends(c)
<1>1. ASSUME NEW c \in Callers, Client!Register(c) PROVE Starts(c)
  BY <1>1 DEF Client!Register, Client!IdAfter, Starts
<1>2. ASSUME NEW c \in Callers, Client!QueueRequest(c) PROVE Queues(c)
  BY <1>2 DEF Client!QueueRequest, Queues
<1>3. ASSUME NEW c \in Callers, Client!QueueFails(c) \/ Client!CallReturns(c) PROVE Ends(c)
  BY <1>3 DEF Client!QueueFails, Client!CallReturns, Ends
<1>4. Client!DropClient \/ Client!ReaderEnds => UNCHANGED <<phase, callId, nextCall>>
  BY DEF Client!DropClient, Client!ReaderEnds
<1>5. Client!ReaderRoutesReply \/ Client!ReaderSpawnsHandler \/ Client!ReaderIgnoresNotification
        => UNCHANGED <<phase, callId, nextCall>>
  BY DEF Client!ReaderRoutesReply, Client!ReaderSpawnsHandler, Client!ReaderIgnoresNotification,
         Client!clientVars
<1>6. Client!WriterWrites \/ Client!WriterEnds \/ (\E e \in handling : Client!HandlerAnswers(e))
        => UNCHANGED <<phase, callId, nextCall>>
  BY DEF Client!WriterWrites, Client!WriterEnds, Client!HandlerAnswers
<1>7. ServerMoves \/ ServerKilled \/ UNCHANGED vars => UNCHANGED <<phase, callId, nextCall>>
  BY DEF ServerMoves, ServerKilled, vars, clientVars
<1> QED
  BY <1>1, <1>2, <1>3, <1>4, <1>5, <1>6, <1>7 DEF Next, ClientMoves, Client!ClientStep

-----------------------------------------------------------------------------
(* Requests not yet taken up, and replies.                                 *)

LEMMA NewStayNew ==
  ASSUME SessionInv, [Next]_vars
  PROVE  RequestsAreNew'
<1>1. /\ \A i \in Transit' : i \in Transit \/ \E c \in Callers : Queues(c) /\ i = callId[c]
      /\ Transit \subseteq Ids /\ Transit' \subseteq Ids
      /\ Ids \subseteq Nat \ {0} /\ nextCall \in Nat \ {0}
  BY PlacesAreKept, ClientFacts DEF PlacesKept, SessionInv, Transit, Ids
<1>2. /\ \A i \in Transit : i < nextCall /\ task[i] = "absent"
      /\ \A c \in Callers :
           phase[c] = "sending" => callId[c] \notin Transit /\ task[callId[c]] = "absent"
      /\ \A i \in Ids : i >= nextCall => task[i] = "absent"
  BY DEF SessionInv, RequestsAreNew
<1>3. /\ phase \in [Callers -> {"idle", "sending", "waiting", "ok", "failed"}]
      /\ callId \in [Callers -> {0} \cup Ids]
      /\ \A c \in Callers : /\ callId[c] < nextCall
                            /\ phase[c] = "idle" <=> callId[c] = 0
                            /\ phase[c] = "idle" => nextCall \in Ids
      /\ \A c, d \in Callers : callId[c] = callId[d] /\ callId[c] # 0 => c = d
  BY ClientFacts DEF SessionInv
<1>4. ASSUME NEW r \in Ids, Server!MainSpawns(r), UNCHANGED clientVars PROVE RequestsAreNew'
  <2>1. /\ inbound # <<>> /\ Head(inbound) = Request(r) /\ inbound' = Tail(inbound)
        /\ task' = [task EXCEPT ![r] = "running"]
        /\ UNCHANGED <<c2s, outbox, phase, callId, nextCall>>
    BY <1>4 DEF Server!MainSpawns, Server!Request, Request, Server!env, Server!wires, clientVars
  <2>2. Request(r) \in Elems(inbound) /\ Request(r) \notin Elems(inbound')
        /\ Elems(inbound') \subseteq Elems(inbound)
    <3>1. inbound \in Seq(ToServer) /\ RequestsOnce(inbound)
      BY DEF SessionInv, ChannelsOK, RequestsInOnePlace
    <3>2. Head(inbound).type = "request"
      BY <2>1 DEF Request
    <3> QED
      BY <2>1, <3>1, <3>2, Consumed
  <2>3. r \in Transit /\ r \notin Transit' /\ Transit' \subseteq Transit
    BY <2>1, <2>2 DEF SessionInv, RequestsInOnePlace, Apart, Transit
  <2>4. \A i \in Ids : i # r => task'[i] = task[i]
    BY <2>1 DEF SessionInv, TasksOK
  <2>5. ASSUME NEW c \in Callers, phase'[c] = "sending"
        PROVE  callId'[c] \notin Transit' /\ task'[callId'[c]] = "absent"
    BY <1>2, <1>3, <2>1, <2>3, <2>4, <2>5
  <2> QED
    BY <1>1, <1>2, <2>1, <2>3, <2>4, <2>5 DEF RequestsAreNew
<1>5. ASSUME SameTasksStarted PROVE RequestsAreNew'
  <2>1. \A i \in Ids : task[i] = "absent" => task'[i] = "absent"
    BY <1>5 DEF SameTasksStarted
  <2>2. CASE UNCHANGED <<phase, callId, nextCall>>
    <3>1. Transit' \subseteq Transit
      BY <1>1, <1>3, <2>2 DEF Queues
    <3> QED
      BY <1>1, <1>2, <1>3, <2>1, <2>2, <3>1 DEF RequestsAreNew
  <2>3. ASSUME NEW c \in Callers, Starts(c) PROVE RequestsAreNew'
    <3>1. /\ phase'[c] = "sending" /\ callId'[c] = nextCall /\ nextCall' = nextCall + 1
          /\ \A d \in Callers : d # c => phase'[d] = phase[d] /\ callId'[d] = callId[d]
          /\ nextCall \in Ids
      BY <1>3, <2>3 DEF Starts
    <3>2. Transit' \subseteq Transit
      BY <1>1, <1>3, <3>1 DEF Queues
    <3>3. task'[nextCall] = "absent" /\ nextCall \notin Transit
      BY <1>1, <1>2, <2>1, <3>1
    <3>4. \A d \in Callers :
            phase'[d] = "sending" => callId'[d] \notin Transit' /\ task'[callId'[d]] = "absent"
      BY <1>2, <1>3, <2>1, <3>1, <3>2, <3>3
    <3> QED
      BY <1>1, <1>2, <2>1, <3>1, <3>2, <3>4 DEF RequestsAreNew
  <2>4. ASSUME NEW c \in Callers, Queues(c) PROVE RequestsAreNew'
    <3>1. /\ phase[c] = "sending" /\ phase'[c] = "waiting" /\ UNCHANGED <<callId, nextCall>>
          /\ \A d \in Callers : d # c => phase'[d] = phase[d]
      BY <1>3, <2>4 DEF Queues
    <3>2. callId[c] \in Ids /\ callId[c] < nextCall /\ task'[callId[c]] = "absent"
      BY <1>2, <1>3, <2>1, <3>1
    <3>3. \A i \in Transit' : i \in Transit \/ i = callId[c]
      BY <1>1, <1>3, <3>1 DEF Queues
    <3>4. ASSUME NEW d \in Callers, phase'[d] = "sending"
          PROVE  callId'[d] \notin Transit' /\ task'[callId'[d]] = "absent"
      <4>1. d # c /\ phase[d] = "sending" /\ callId[d] \in Ids /\ callId[d] # callId[c]
        BY <1>3, <3>1, <3>2, <3>4
      <4> QED
        BY <1>2, <2>1, <3>1, <3>3, <4>1
    <3> QED
      BY <1>1, <1>2, <2>1, <3>1, <3>2, <3>3, <3>4 DEF RequestsAreNew
  <2>5. ASSUME NEW c \in Callers, Ends(c) PROVE RequestsAreNew'
    <3>1. /\ UNCHANGED <<callId, nextCall>> /\ phase'[c] \in {"ok", "failed"}
          /\ \A d \in Callers : d # c => phase'[d] = phase[d]
      BY <1>3, <2>5 DEF Ends
    <3>2. Transit' \subseteq Transit
      BY <1>1, <1>3, <3>1 DEF Queues
    <3>3. \A d \in Callers :
            phase'[d] = "sending" => callId'[d] \notin Transit' /\ task'[callId'[d]] = "absent"
      BY <1>2, <1>3, <2>1, <3>1, <3>2
    <3> QED
      BY <1>1, <1>2, <2>1, <3>1, <3>2, <3>3 DEF RequestsAreNew
  <2> QED
    BY <2>2, <2>3, <2>4, <2>5, StepCalls
<1> QED
  BY <1>4, <1>5, TasksKept

LEMMA RepliesStayOfTasks ==
  ASSUME SessionInv, [Next]_vars
  PROVE  RepliesAreOfTasks'
<1> USE DEF RepliesAreOfTasks
<1>1. \A i \in Ids : task[i] # "absent" => task'[i] # "absent"
  BY TasksKept
<1>2. /\ outbound \in Seq(ToClient) /\ s2c \in Seq(ToClient)
      /\ \A m \in Elems(outbound) \cup Elems(s2c) : m.type = "reply" => m.id \in Ids
  <2>1. Elems(outbound) \subseteq ToClient /\ Elems(s2c) \subseteq ToClient
    BY DEF SessionInv, ChannelsOK, Elems, Served!Elems
  <2> QED
    BY <2>1, MessageTypes DEF SessionInv, ChannelsOK
<1>3. /\ reply \in [Callers -> Nat] /\ \A c \in Callers : reply[c] # 0 => reply[c] \in Ids
      /\ \A i \in DOMAIN cPending : cPending[i] \in Callers
  BY ClientFacts DEF SessionInv
<1>4. /\ \A m \in Elems(outbound) \cup Elems(s2c) : m.type = "reply" => task'[m.id] # "absent"
      /\ \A c \in Callers : reply[c] # 0 => task'[reply[c]] # "absent"
  BY <1>1, <1>2, <1>3 DEF SessionInv
<1>5. ASSUME Elems(outbound') \cup Elems(s2c') \subseteq Elems(outbound) \cup Elems(s2c), reply' = reply
      PROVE  RepliesAreOfTasks'
  BY <1>4, <1>5
<1>6. CASE UNCHANGED <<outbound, s2c, reply>>
  BY <1>5, <1>6
<1>7. CASE ClientMoves
  <2>1. outbound' = outbound
    BY <1>7 DEF ClientMoves, serverVars
  <2>2. CASE s2c # <<>> /\ s2c' = Tail(s2c) /\ reply' = reply
    BY <1>2, <1>5, <2>1, <2>2, Consumed
  <2>3. CASE Client!ReaderRoutesReply
    <3> DEFINE m == Head(s2c)
    <3>1. /\ s2c # <<>> /\ m.type = "reply" /\ s2c' = Tail(s2c)
          /\ reply' = reply \/ (m.id \in DOMAIN cPending /\ reply' = [reply EXCEPT ![cPending[m.id]] = m.id])
      BY <2>3 DEF Client!ReaderRoutesReply
    <3>2. m \in Elems(s2c) /\ Elems(s2c') \subseteq Elems(s2c)
      BY <1>2, <3>1, Consumed
    <3>3. task'[m.id] # "absent"
      BY <1>4, <3>1, <3>2
    <3> HIDE DEF m
    <3>4. \A c \in Callers : reply'[c] \in {reply[c], m.id}
      BY <1>3, <3>1
    <3> QED
      BY <1>4, <2>1, <3>2, <3>3, <3>4
  <2>4. CASE Client!ReaderEnds
    BY <1>5, <2>1, <2>4, EmptySeq DEF Client!ReaderEnds
  <2>5. CASE Client!ReaderSpawnsHandler \/ Client!ReaderIgnoresNotification
    BY <2>2, <2>5 DEF Client!ReaderSpawnsHandler, Client!ReaderIgnoresNotification, Client!clientVars
  <2>6. ASSUME NEW c \in Callers,
               Client!Register(c) \/ Client!QueueRequest(c) \/ Client!QueueFails(c) \/ Client!CallReturns(c)
        PROVE  UNCHANGED <<s2c, reply>>
    BY <2>6 DEF Client!Register, Client!QueueRequest, Client!QueueFails, Client!CallReturns,
                Client!env, Client!wires
  <2>7. Client!DropClient \/ (\E e \in handling : Client!HandlerAnswers(e)) => UNCHANGED <<s2c, reply>>
    BY DEF Client!DropClient, Client!HandlerAnswers, Client!env, Client!wires
  <2>8. Client!WriterWrites \/ Client!WriterEnds => UNCHANGED <<s2c, reply>>
    BY DEF Client!WriterWrites, Client!WriterEnds
  <2> QED
    BY <1>6, <1>7, <2>1, <2>3, <2>4, <2>5, <2>6, <2>7, <2>8 DEF ClientMoves, Client!ClientStep
<1>8. CASE ServerMoves
  <2>1. reply' = reply
    BY <1>8 DEF ServerMoves, clientVars
  <2>2. CASE Server!WriterWrites
    <3>1. outbound # <<>> /\ outbound' = Tail(outbound) /\ s2c' = Append(s2c, Head(outbound))
      BY <2>2 DEF Server!WriterWrites
    <3>2. /\ Head(outbound) \in ToClient /\ Elems(outbound) = Elems(outbound') \cup {Head(outbound)}
          /\ Elems(s2c') = Elems(s2c) \cup {Head(outbound)}
      BY <1>2, <3>1, Consumed, Appended
    <3> QED
      BY <1>5, <2>1, <3>2
  <2>3. CASE Server!WriterStops
    BY <1>5, <2>1, <2>3, EmptySeq DEF Server!WriterStops
  <2>4. ASSUME NEW r \in Ids, Server!SendQuestion(r) PROVE RepliesAreOfTasks'
    <3> DEFINE m == Server!Elicit(waitingFor[r], <<r, asked[r]>>)
    <3>1. m \in ToClient /\ m.type # "reply" /\ s2c' = s2c /\ outbound' = Append(outbound, m)
      <4>1. m \in Elicits
        BY MessageTypes DEF SessionInv, TasksOK
      <4> QED
        BY <2>4, <4>1 DEF Server!SendQuestion, Server!env, Server!wires, Elicits, ToClient
    <3> HIDE DEF m
    <3>2. Elems(outbound') = Elems(outbound) \cup {m}
      BY <1>2, <3>1, Appended
    <3> QED
      BY <1>4, <2>1, <3>1, <3>2
  <2>5. ASSUME NEW r \in Ids, Server!SendReply(r) PROVE RepliesAreOfTasks'
    <3> DEFINE m == Server!Reply(r)
    <3>1. m \in ToClient /\ m.id = r
      BY MessageTypes DEF Server!Reply
    <3>2. task'[r] # "absent"
      BY <1>1, <2>5 DEF Server!SendReply
    <3> HIDE DEF m
    <3>3. s2c' = s2c /\ outbound' \in {outbound, Append(outbound, m)}
      BY <2>5 DEF Server!SendReply, Server!env, Server!wires, m
    <3>4. Elems(Append(outbound, m)) = Elems(outbound) \cup {m}
      BY <1>2, <3>1, Appended
    <3> QED
      BY <1>4, <2>1, <3>1, <3>2, <3>3, <3>4
  <2>6. Server!ReaderForwards \/ Server!ReaderStops => UNCHANGED <<outbound, s2c>>
    BY DEF Server!ReaderForwards, Server!ReaderStops
  <2>7. Server!MainDelivers \/ Server!MainIgnoresNotification \/ Server!MainLeavesLoop
          \/ Server!MainReturns \/ (\E r \in Ids : Server!MainSpawns(r))
            => UNCHANGED <<outbound, s2c>>
    BY DEF Server!MainDelivers, Server!MainIgnoresNotification, Server!MainLeavesLoop,
           Server!MainReturns, Server!MainSpawns, Server!env, Server!wires
  <2>8. ASSUME NEW r \in Ids,
               Server!Ask(r) \/ Server!QuestionUndeliverable(r) \/ Server!ToolResumes(r)
                 \/ Server!ToolFinishes(r)
        PROVE  UNCHANGED <<outbound, s2c>>
    BY <2>8 DEF Server!Ask, Server!QuestionUndeliverable, Server!ToolResumes, Server!ToolFinishes,
                Server!env, Server!wires
  <2>9. CASE UNCHANGED <<outbound, s2c>>
    BY <1>6, <2>1, <2>9
  <2>10. \/ Server!WriterWrites \/ Server!WriterStops \/ UNCHANGED <<outbound, s2c>>
         \/ \E r \in Ids : Server!SendQuestion(r) \/ Server!SendReply(r)
    BY <1>8, <2>6, <2>7, <2>8 DEF ServerMoves, Server!ServerStep
  <2> QED
    BY <2>2, <2>3, <2>4, <2>5, <2>9, <2>10
<1>9. CASE ServerKilled
  BY <1>5, <1>9, EmptySeq DEF ServerKilled, clientVars
<1>10. CASE UNCHANGED vars
  BY <1>6, <1>10 DEF vars, clientVars, serverVars, wires
<1> QED
  BY <1>7, <1>8, <1>9, <1>10 DEF Next

-----------------------------------------------------------------------------
(* The refinement.                                                         *)

LEMMA InitSession == Init => SessionInv
<1> SUFFICES ASSUME Init PROVE SessionInv
  OBVIOUS
<1>1. Caller!ClientInv
  <2>1. Caller!ClientInit
    BY DEF Init, Caller!ClientInit
  <2> QED
    BY <2>1, SessionAssumption, SameCallers, Caller!InitInv
<1>2. ChannelsOK
  BY EmptySeq DEF Init, ChannelsOK
<1>3. TasksOK
  BY DEF Init, TasksOK, TaskPhases
<1>4. RequestsInOnePlace /\ Transit = {} /\ RepliesAreOfTasks
  BY EmptySeq DEF Init, RequestsInOnePlace, Apart, Transit, RepliesAreOfTasks
<1>5. RequestsAreNew
  BY <1>4 DEF Init, RequestsAreNew
<1> QED
  BY <1>1, <1>2, <1>3, <1>4, <1>5 DEF SessionInv

LEMMA SessionInvKept == SessionInv /\ [Next]_vars => SessionInv'
<1> SUFFICES ASSUME SessionInv, [Next]_vars PROVE SessionInv'
  OBVIOUS
<1>1. Caller!ClientInv'
  BY ClientKept DEF SessionInv
<1>2. RequestsInOnePlace'
  BY PlacesAreKept DEF PlacesKept
<1> QED
  BY <1>1, <1>2, ChannelsKept, TasksKept, NewStayNew, RepliesStayOfTasks DEF SessionInv

\* A step of the session is one of RemoteCall or leaves its variables alone, and
\* takes up no request a second time.
LEMMA StepImplements ==
  ASSUME SessionInv, [Next]_vars
  PROVE  [Remote!Next]_(Remote!vars) /\ (Next => RunsOnce)
<1>1. /\ phase \in [Callers -> {"idle", "sending", "waiting", "ok", "failed"}]
      /\ callId \in [Callers -> {0} \cup Ids]
      /\ \A c \in Callers : /\ callId[c] < nextCall
                            /\ phase[c] = "idle" <=> callId[c] = 0
                            /\ phase[c] = "idle" => nextCall \in Ids
                            /\ reply[c] \in {0, callId[c]}
                            /\ phase[c] = "ok" => reply[c] = callId[c]
      /\ \A c, d \in Callers : callId[c] = callId[d] /\ callId[c] # 0 => c = d
      /\ \A i \in 1..nextCall - 1 : \E c \in Callers : callId[c] = i
      /\ nextCall \in Nat \ {0} /\ Ids \subseteq Nat \ {0}
  BY ClientFacts DEF SessionInv
<1>2. /\ \A i \in Transit : i < nextCall /\ task[i] = "absent"
      /\ \A i \in Ids : i >= nextCall => task[i] = "absent"
      /\ \A c \in Callers : phase[c] = "sending" => callId[c] \notin Transit
      /\ \A c \in Callers : reply[c] # 0 => task[reply[c]] # "absent"
      /\ task \in [Ids -> TaskPhases]
  BY DEF SessionInv, RequestsAreNew, RepliesAreOfTasks, TasksOK
<1>3. ASSUME NEW r \in Ids, Server!MainSpawns(r) PROVE r \in Transit
  <2>1. inbound # <<>> /\ Head(inbound) = Request(r)
    BY <1>3 DEF Server!MainSpawns, Server!Request, Request
  <2>2. Request(r) \in Elems(inbound)
    BY <2>1, Consumed DEF SessionInv, ChannelsOK
  <2> QED
    BY <2>2 DEF Transit
<1>4. RunsOnce
  BY <1>2, <1>3 DEF RunsOnce
<1>5. ASSUME NEW r \in Ids, Server!MainSpawns(r), UNCHANGED clientVars
      PROVE  \E c \in Callers : Remote!Execute(c)
  <2>1. r \in Transit /\ r < nextCall /\ task[r] = "absent" /\ task' = [task EXCEPT ![r] = "running"]
    BY <1>2, <1>3, <1>5 DEF Server!MainSpawns
  <2>2. PICK c \in Callers : callId[c] = r
    BY <1>1, <2>1
  <2>3. phase[c] \in {"waiting", "failed"}
    BY <1>1, <1>2, <2>1, <2>2
  <2>4. c \notin ExecutedCalls /\ ExecutedCalls' = ExecutedCalls \cup {c}
    BY <1>1, <1>2, <1>5, <2>1, <2>2 DEF ExecutedCalls, clientVars
  <2>5. Outcome[c] \in {"called", "failed"} /\ Outcome' = Outcome
    BY <1>5, <2>3 DEF Outcome, clientVars
  <2> QED
    BY <2>4, <2>5 DEF Remote!Execute
<1>6. ASSUME SameTasksStarted PROVE [Remote!Next]_(Remote!vars)
  <2>1. ASSUME UNCHANGED callId PROVE ExecutedCalls' = ExecutedCalls
    BY <1>1, <1>6, <2>1 DEF ExecutedCalls, SameTasksStarted
  <2>2. CASE UNCHANGED <<phase, callId, nextCall>>
    BY <2>1, <2>2 DEF Outcome, Remote!vars
  <2>3. ASSUME NEW c \in Callers, Starts(c) PROVE Remote!Call(c)
    <3>1. /\ callId'[c] = nextCall /\ callId[c] = 0 /\ task'[nextCall] = "absent"
          /\ \A d \in Callers : d # c => callId'[d] = callId[d]
      BY <1>1, <1>2, <1>6, <2>3 DEF Starts, SameTasksStarted
    <3>2. ExecutedCalls' = ExecutedCalls
      <4>1. ASSUME NEW d \in Callers PROVE d \in ExecutedCalls' <=> d \in ExecutedCalls
        <5>1. CASE d = c
          BY <3>1, <5>1 DEF ExecutedCalls
        <5>2. CASE d # c
          <6>1. callId'[d] = callId[d] /\ callId[d] \in {0} \cup Ids
            BY <1>1, <3>1, <5>2
          <6>2. callId[d] # 0 => (task'[callId[d]] = "absent" <=> task[callId[d]] = "absent")
            BY <1>6, <6>1 DEF SameTasksStarted
          <6> QED
            BY <6>1, <6>2 DEF ExecutedCalls
        <5> QED
          BY <5>1, <5>2
      <4> QED
        BY <4>1 DEF ExecutedCalls
    <3>3. Outcome[c] = "idle" /\ Outcome' = [Outcome EXCEPT ![c] = "called"]
      BY <1>1, <2>3 DEF Starts, Outcome
    <3> QED
      BY <3>2, <3>3 DEF Remote!Call
  <2>4. ASSUME NEW c \in Callers, Queues(c) PROVE UNCHANGED Remote!vars
    <3>1. Outcome' = Outcome
      BY <1>1, <2>4 DEF Queues, Outcome
    <3> QED
      BY <2>1, <2>4, <3>1 DEF Queues, Remote!vars
  <2>5. ASSUME NEW c \in Callers, Ends(c) PROVE Remote!Fail(c) \/ Remote!Return(c)
    <3>1. ExecutedCalls' = ExecutedCalls
      BY <2>1, <2>5 DEF Ends
    <3>2. Outcome[c] = "called" /\ phase[c] # "idle"
      BY <2>5 DEF Ends, Outcome
    <3>3. CASE phase' = [phase EXCEPT ![c] = "failed"]
      <4>1. Outcome' = [Outcome EXCEPT ![c] = "failed"]
        BY <1>1, <3>3 DEF Outcome
      <4> QED
        BY <3>1, <3>2, <4>1 DEF Remote!Fail
    <3>4. CASE reply[c] # 0 /\ phase' = [phase EXCEPT ![c] = "ok"]
      <4>1. Outcome' = [Outcome EXCEPT ![c] = "ok"]
        BY <1>1, <3>4 DEF Outcome
      <4>2. c \in ExecutedCalls
        BY <1>1, <1>2, <3>2, <3>4 DEF ExecutedCalls
      <4> QED
        BY <3>1, <3>2, <4>1, <4>2 DEF Remote!Return
    <3> QED
      BY <2>5, <3>3, <3>4 DEF Ends
  <2> QED
    BY <2>2, <2>3, <2>4, <2>5, StepCalls DEF Remote!Next
<1> QED
  BY <1>4, <1>5, <1>6, TasksKept DEF Remote!Next

\* The client and the server over two pipes, with the server killed at any
\* moment, are a remote call: whatever the number of calls and the capacities, a
\* result is only that of an executed call and nothing is executed twice.
THEOREM SessionIsRemoteCall == Spec => ImplementsRemoteCall
<1>1. Init => Remote!Init
  <2> SUFFICES ASSUME Init PROVE Remote!Init
    OBVIOUS
  <2>1. Outcome = [c \in Callers |-> "idle"] /\ ExecutedCalls = {}
    BY DEF Init, Outcome, ExecutedCalls
  <2> QED
    BY <2>1 DEF Remote!Init
<1>2. SessionInv /\ [Next]_vars => [Remote!Next]_(Remote!vars) /\ [RunsOnce]_vars
  BY StepImplements
<1> QED
  BY <1>1, <1>2, InitSession, SessionInvKept, PTL DEF Spec, ImplementsRemoteCall, Remote!Spec
=============================================================================
