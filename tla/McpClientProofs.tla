--------------------------- MODULE McpClientProofs ---------------------------
(***************************************************************************)
(* Proofs about McpClient for any number of callers and questions, any     *)
(* capacities and any server.                                              *)
(*                                                                         *)
(* The argument is about the client alone: ids are never handed out twice, *)
(* and the oneshot registered under an id is that of the caller which drew *)
(* it.  Nothing is assumed of what comes out of the pipe, so the lemmas    *)
(* hold of every composition in which the client takes the steps of        *)
(* ClientStep; McpSessionProofs uses them there.                           *)
(***************************************************************************)
EXTENDS McpClient, FiniteSetTheorems, TLAPS

Phases == {"idle", "sending", "waiting", "ok", "failed"}

CallsOK ==
  /\ phase \in [Callers -> Phases]
  /\ callId \in [Callers -> Nat]
  /\ reply \in [Callers -> Nat]
  /\ nextCall \in Nat \ {0}

\* A caller has an id from its first step on, no two have the same, and every
\* id drawn is some caller's.
IdsAreDistinct ==
  /\ \A c \in Callers : callId[c] < nextCall /\ (phase[c] = "idle" <=> callId[c] = 0)
  /\ \A c, d \in Callers : callId[c] = callId[d] /\ callId[c] # 0 => c = d
  /\ \A i \in 1..nextCall - 1 : \E c \in Callers : callId[c] = i

\* A oneshot's sender is found under the id of the caller that waits on it.
WaitersAreTheirs ==
  \A i \in DOMAIN cPending : i # 0 /\ cPending[i] \in Callers /\ callId[cPending[i]] = i

Started == {c \in Callers : phase[c] # "idle"}
IdsAreCounted == nextCall = Cardinality(Started) + 1

ClientInv ==
  /\ CallsOK /\ IdsAreDistinct /\ WaitersAreTheirs /\ RepliesReachTheirCaller
  /\ IdsAreCounted

-----------------------------------------------------------------------------

\* What Init says of the calls.
ClientInit ==
  /\ phase = [c \in Callers |-> "idle"] /\ callId = [c \in Callers |-> 0]
  /\ reply = [c \in Callers |-> 0] /\ cPending = [i \in {} |-> 0] /\ nextCall = 1

LEMMA InitInv == ClientInit => ClientInv
<1> SUFFICES ASSUME ClientInit PROVE ClientInv
  OBVIOUS
<1> USE DEF ClientInit
<1>1. CallsOK
  BY DEF CallsOK, Phases
<1>2. IdsAreDistinct /\ WaitersAreTheirs
  BY DEF IdsAreDistinct, WaitersAreTheirs
<1>3. RepliesReachTheirCaller
  BY DEF RepliesReachTheirCaller
<1>4. Started = {}
  BY DEF Started
<1> QED
  BY <1>1, <1>2, <1>3, <1>4, FS_EmptySet DEF ClientInv, IdsAreCounted

LEMMA CallsStayOK ==
  ASSUME CallsOK, WaitersAreTheirs, ClientStep \/ UNCHANGED clientVars
  PROVE  CallsOK'
<1> USE DEF CallsOK, Phases
<1>1. ASSUME NEW c \in Callers, Register(c) \/ QueueRequest(c) \/ QueueFails(c) \/ CallReturns(c)
      PROVE  CallsOK'
  BY <1>1 DEF Register, QueueRequest, QueueFails, CallReturns, IdAfter
<1>2. CASE ReaderRoutesReply
  <2>1. CASE Head(s2c).id \in DOMAIN cPending
    <3>1. Head(s2c).id \in Nat
      BY <2>1 DEF WaitersAreTheirs
    <3> QED
      BY <1>2, <2>1, <3>1 DEF ReaderRoutesReply
  <2> QED
    BY <1>2, <2>1 DEF ReaderRoutesReply
<1>3. CASE DropClient \/ ReaderSpawnsHandler \/ ReaderIgnoresNotification \/ ReaderEnds
  BY <1>3 DEF DropClient, ReaderSpawnsHandler, ReaderIgnoresNotification, ReaderEnds, clientVars
<1>4. CASE WriterWrites \/ WriterEnds \/ \E e \in handling : HandlerAnswers(e)
  BY <1>4 DEF WriterWrites, WriterEnds, HandlerAnswers
<1>5. CASE UNCHANGED clientVars
  BY <1>5 DEF clientVars
<1> QED
  BY <1>1, <1>2, <1>3, <1>4, <1>5 DEF ClientStep

\* Only Register draws an id.
LEMMA IdsStayDistinct ==
  ASSUME CallsOK, IdsAreDistinct, ClientStep \/ UNCHANGED clientVars
  PROVE  IdsAreDistinct'
<1> USE DEF CallsOK, IdsAreDistinct
<1>1. ASSUME NEW c \in Callers, Register(c) PROVE IdsAreDistinct'
  <2>1. /\ callId[c] = 0 /\ nextCall' = nextCall + 1
        /\ callId' = [callId EXCEPT ![c] = nextCall] /\ phase' = [phase EXCEPT ![c] = "sending"]
    BY <1>1 DEF Register, IdAfter
  <2>2. ASSUME NEW i \in 1..nextCall' - 1 PROVE \E d \in Callers : callId'[d] = i
    <3>1. CASE i = nextCall
      BY <2>1, <3>1
    <3>2. CASE i # nextCall
      <4>1. PICK d \in Callers : callId[d] = i
        BY <2>1, <2>2, <3>2
      <4>2. d # c /\ callId'[d] = i
        BY <2>1, <2>2, <4>1
      <4> QED
        BY <4>2
    <3> QED
      BY <3>1, <3>2
  <2> QED
    BY <2>1, <2>2
<1>2. ASSUME NEW c \in Callers, QueueRequest(c) \/ QueueFails(c) \/ CallReturns(c)
      PROVE  IdsAreDistinct'
  BY <1>2 DEF QueueRequest, QueueFails, CallReturns
<1>3. CASE UNCHANGED <<phase, callId, nextCall>>
  BY <1>3
<1>4. CASE ReaderRoutesReply \/ ReaderSpawnsHandler \/ ReaderIgnoresNotification \/ ReaderEnds
  BY <1>3, <1>4 DEF ReaderRoutesReply, ReaderSpawnsHandler, ReaderIgnoresNotification, ReaderEnds,
                    clientVars
<1>5. CASE DropClient \/ WriterWrites \/ WriterEnds \/ \E e \in handling : HandlerAnswers(e)
  BY <1>3, <1>5 DEF DropClient, WriterWrites, WriterEnds, HandlerAnswers
<1>6. CASE UNCHANGED clientVars
  BY <1>3, <1>6 DEF clientVars
<1> QED
  BY <1>1, <1>2, <1>4, <1>5, <1>6 DEF ClientStep

LEMMA WaitersStayTheirs ==
  ASSUME CallsOK, IdsAreDistinct, WaitersAreTheirs, ClientStep \/ UNCHANGED clientVars
  PROVE  WaitersAreTheirs'
<1> USE DEF WaitersAreTheirs
<1>1. ASSUME NEW c \in Callers, Register(c) PROVE WaitersAreTheirs'
  <2>1. \A i \in DOMAIN cPending : cPending[i] # c
    BY <1>1 DEF Register, IdsAreDistinct
  <2> QED
    BY <1>1, <2>1 DEF Register, CallsOK
<1>2. CASE UNCHANGED <<callId, cPending>>
  BY <1>2
<1>3. ASSUME NEW c \in Callers, QueueRequest(c) \/ QueueFails(c) \/ CallReturns(c)
      PROVE  WaitersAreTheirs'
  BY <1>2, <1>3 DEF QueueRequest, QueueFails, CallReturns
<1>4. CASE ReaderRoutesReply \/ ReaderEnds
  BY <1>4 DEF ReaderRoutesReply, ReaderEnds, WithoutWaiter, WaitersAtEof
<1>5. CASE DropClient \/ ReaderSpawnsHandler \/ ReaderIgnoresNotification
  BY <1>2, <1>5 DEF DropClient, ReaderSpawnsHandler, ReaderIgnoresNotification, clientVars
<1>6. CASE WriterWrites \/ WriterEnds \/ \E e \in handling : HandlerAnswers(e)
  BY <1>2, <1>6 DEF WriterWrites, WriterEnds, HandlerAnswers
<1>7. CASE UNCHANGED clientVars
  BY <1>2, <1>7 DEF clientVars
<1> QED
  BY <1>1, <1>3, <1>4, <1>5, <1>6, <1>7 DEF ClientStep

\* A reply is put into the oneshot registered under its id.
LEMMA RepliesStayRight ==
  ASSUME CallsOK, IdsAreDistinct, WaitersAreTheirs, RepliesReachTheirCaller,
         ClientStep \/ UNCHANGED clientVars
  PROVE  RepliesReachTheirCaller'
<1> USE DEF RepliesReachTheirCaller
<1>1. ASSUME NEW c \in Callers, Register(c) PROVE RepliesReachTheirCaller'
  <2>1. callId[c] = 0 /\ reply[c] = 0
    BY <1>1 DEF Register, IdsAreDistinct
  <2>2. \A d \in Callers : callId[d] # nextCall
    BY DEF IdsAreDistinct, CallsOK
  <2> QED
    BY <1>1, <2>1, <2>2 DEF Register, CallsOK
<1>2. ASSUME NEW c \in Callers, QueueRequest(c) \/ QueueFails(c) \/ CallReturns(c)
      PROVE  RepliesReachTheirCaller'
  BY <1>2 DEF QueueRequest, QueueFails, CallReturns, CallsOK
<1>3. CASE ReaderRoutesReply
  <2> DEFINE i == Head(s2c).id
  <2>1. CASE i \in DOMAIN cPending
    <3>1. i # 0 /\ cPending[i] \in Callers /\ callId[cPending[i]] = i
      BY <2>1 DEF WaitersAreTheirs
    <3> DEFINE o == cPending[i]
    <3>2. /\ reply' = [reply EXCEPT ![o] = i] /\ cPending' = WithoutWaiter(i)
          /\ UNCHANGED <<callId, phase, cReader>>
      BY <1>3, <2>1 DEF ReaderRoutesReply
    <3> HIDE DEF i, o
    <3>3. o \in Callers /\ i # 0 /\ callId[o] = i
      BY <3>1 DEF o
    <3>4. \A c \in Callers : reply'[c] \in {0, callId'[c]} /\ (phase'[c] = "ok" => reply'[c] = callId'[c])
      BY <3>2, <3>3 DEF CallsOK
    <3>5. ASSUME NEW c \in Callers, cReader' = "running", phase'[c] \in {"sending", "waiting"},
                 reply'[c] = 0
          PROVE  callId'[c] \in DOMAIN cPending' /\ cPending'[callId'[c]] = c
      <4>1. c # o
        BY <3>2, <3>3, <3>5 DEF CallsOK
      <4>2. callId[c] \in DOMAIN cPending /\ cPending[callId[c]] = c
        BY <3>2, <3>3, <3>5, <4>1 DEF CallsOK
      <4>3. callId[c] # i
        BY <4>1, <4>2 DEF o
      <4> QED
        BY <3>2, <4>2, <4>3 DEF WithoutWaiter
    <3> QED
      BY <3>4, <3>5
  <2> QED
    BY <1>3, <2>1 DEF ReaderRoutesReply
<1>4. CASE ReaderEnds
  BY <1>4 DEF ReaderEnds
<1>5. CASE UNCHANGED <<phase, callId, reply, cReader, cPending>>
  BY <1>5
<1>6. CASE DropClient \/ ReaderSpawnsHandler \/ ReaderIgnoresNotification
  BY <1>5, <1>6 DEF DropClient, ReaderSpawnsHandler, ReaderIgnoresNotification, clientVars
<1>7. CASE WriterWrites \/ WriterEnds \/ \E e \in handling : HandlerAnswers(e)
  BY <1>5, <1>7 DEF WriterWrites, WriterEnds, HandlerAnswers
<1>8. CASE UNCHANGED clientVars
  BY <1>5, <1>8 DEF clientVars
<1> QED
  BY <1>1, <1>2, <1>3, <1>4, <1>6, <1>7, <1>8 DEF ClientStep

\* A call starts once, so there are never more ids than callers.
LEMMA IdsStayCounted ==
  ASSUME IsFiniteSet(Callers), CallsOK, IdsAreCounted, ClientStep \/ UNCHANGED clientVars
  PROVE  IdsAreCounted'
<1> USE DEF CallsOK, IdsAreCounted
<1>1. Started \in SUBSET Callers /\ IsFiniteSet(Started) /\ Cardinality(Started) \in Nat
  BY FS_Subset, FS_CardinalityType DEF Started
<1>2. ASSUME NEW c \in Callers, Register(c) PROVE IdsAreCounted'
  <2>1. c \notin Started /\ Started' = Started \cup {c} /\ nextCall' = nextCall + 1
    BY <1>2 DEF Register, Started, IdAfter
  <2>2. Cardinality(Started \cup {c}) = Cardinality(Started) + 1
    BY <1>1, <2>1, FS_AddElement
  <2> QED
    BY <1>1, <2>1, <2>2
<1>3. CASE UNCHANGED nextCall /\ Started' = Started
  BY <1>3
<1>4. ASSUME NEW c \in Callers, QueueRequest(c) \/ QueueFails(c) \/ CallReturns(c)
      PROVE  IdsAreCounted'
  <2>1. Started' = Started /\ UNCHANGED nextCall
    BY <1>4 DEF QueueRequest, QueueFails, CallReturns, Started
  <2> QED
    BY <1>3, <2>1
<1>5. CASE UNCHANGED <<phase, nextCall>>
  BY <1>3, <1>5 DEF Started
<1>6. CASE ReaderRoutesReply \/ ReaderSpawnsHandler \/ ReaderIgnoresNotification \/ ReaderEnds
  BY <1>5, <1>6 DEF ReaderRoutesReply, ReaderSpawnsHandler, ReaderIgnoresNotification, ReaderEnds,
                    clientVars
<1>7. CASE DropClient \/ WriterWrites \/ WriterEnds \/ \E e \in handling : HandlerAnswers(e)
  BY <1>5, <1>7 DEF DropClient, WriterWrites, WriterEnds, HandlerAnswers
<1>8. CASE UNCHANGED clientVars
  BY <1>5, <1>8 DEF clientVars
<1> QED
  BY <1>2, <1>4, <1>6, <1>7, <1>8 DEF ClientStep

LEMMA ClientInvKept ==
  ASSUME IsFiniteSet(Callers), ClientInv, ClientStep \/ UNCHANGED clientVars
  PROVE  ClientInv'
BY CallsStayOK, IdsStayDistinct, WaitersStayTheirs, RepliesStayRight, IdsStayCounted DEF ClientInv

\* Every id is one of 1 to the number of callers.
LEMMA IdsAreInRange ==
  ASSUME IsFiniteSet(Callers), ClientInv
  PROVE  /\ nextCall \in Nat \ {0} /\ nextCall <= Cardinality(Callers) + 1
         /\ \A c \in Callers : phase[c] = "idle" => nextCall \in Ids
         /\ \A c \in Callers : callId[c] \in {0} \cup Ids
<1>1. /\ Started \in SUBSET Callers /\ Cardinality(Started) \in Nat
      /\ Cardinality(Callers) \in Nat /\ Cardinality(Started) <= Cardinality(Callers)
      /\ Cardinality(Started) = Cardinality(Callers) => Started = Callers
  BY FS_Subset, FS_CardinalityType DEF Started
<1>2. nextCall = Cardinality(Started) + 1
  BY DEF ClientInv, IdsAreCounted
<1>3. ASSUME NEW c \in Callers, phase[c] = "idle" PROVE nextCall \in Ids
  <2>1. Started # Callers
    BY <1>3 DEF Started
  <2> QED
    BY <1>1, <1>2, <2>1 DEF Ids
<1>4. ASSUME NEW c \in Callers PROVE callId[c] \in {0} \cup Ids
  BY <1>1, <1>2, <1>4 DEF ClientInv, CallsOK, IdsAreDistinct, Ids
<1> QED
  BY <1>1, <1>2, <1>3, <1>4

-----------------------------------------------------------------------------

LEMMA ClientInvIsKept ==
  ASSUME ClientInv, [Next]_vars
  PROVE  ClientInv'
<1>1. PeerStep => UNCHANGED clientVars
  BY DEF PeerStep, PeerReads, PeerReplies, PeerAsks, PeerSendsOther, PeerWrites, PeerExitsOnEof,
         PeerIsKilled, PeerDies
<1>2. ClientStep \/ UNCHANGED clientVars
  BY <1>1 DEF Next, vars
<1> QED
  BY <1>2, ClientAssumption, ClientInvKept

\* Whatever the server sends, dies of or leaves unanswered, and in whatever
\* order replies come, a caller is only ever given the reply to the request it
\* sent, and does not lose its waiter while the reader runs.
THEOREM RepliesReach == Spec => []RepliesReachTheirCaller
<1>1. ClientInv /\ [Next]_vars => ClientInv'
  BY ClientInvIsKept
<1>2. ClientInv => RepliesReachTheirCaller
  BY DEF ClientInv
<1>3. Init => ClientInv
  BY InitInv DEF Init, ClientInit
<1> QED
  BY <1>1, <1>2, <1>3, PTL DEF Spec

-----------------------------------------------------------------------------
(* The types, of which those of ids follow from the client's invariant.     *)

WiresOK ==
  /\ c2s \in Seq(ToServer) /\ Len(c2s) <= PipeCap
  /\ s2c \in Seq(ToClient) /\ Len(s2c) <= PipeCap
  /\ outbox \in Seq(ToServer) /\ Len(outbox) <= OutboxCap
FlagsOK ==
  /\ c2sOpen \in BOOLEAN /\ s2cOpen \in BOOLEAN /\ s2cRead \in BOOLEAN
  /\ serverUp \in BOOLEAN /\ held \in BOOLEAN
  /\ cReader \in {"running", "done"} /\ cWriter \in {"running", "done"}
PeerOK ==
  /\ handling \subseteq {Elicit(q, q) : q \in Questions}
  /\ peer \in [owed : SUBSET Ids, asked : SUBSET Questions,
               others : SUBSET {Notification, Malformed}]

LEMMA FlagsStayOK == ASSUME FlagsOK, [Next]_vars PROVE FlagsOK'
<1> USE DEF FlagsOK, env, wires
<1>1. ASSUME NEW c \in Callers, Register(c) \/ QueueRequest(c) \/ QueueFails(c) \/ CallReturns(c)
      PROVE  FlagsOK'
  BY <1>1 DEF Register, QueueRequest, QueueFails, CallReturns
<1>2. CASE DropClient \/ WriterWrites \/ WriterEnds \/ \E e \in handling : HandlerAnswers(e)
  BY <1>2 DEF DropClient, WriterWrites, WriterEnds, HandlerAnswers
<1>3. CASE ReaderRoutesReply \/ ReaderSpawnsHandler \/ ReaderIgnoresNotification \/ ReaderEnds
  BY <1>3 DEF ReaderRoutesReply, ReaderSpawnsHandler, ReaderIgnoresNotification, ReaderEnds,
              clientVars
<1>4. CASE PeerStep
  BY <1>4 DEF PeerStep, PeerReads, PeerReplies, PeerAsks, PeerSendsOther, PeerWrites,
              PeerExitsOnEof, PeerIsKilled, PeerDies, clientVars
<1>5. CASE UNCHANGED vars
  BY <1>5 DEF vars, clientVars
<1> QED
  BY <1>1, <1>2, <1>3, <1>4, <1>5 DEF Next, ClientStep

\* A bounded channel of messages of one kind, sent to with room to spare.
LEMMA Sending ==
  ASSUME NEW Msgs, NEW ch \in Seq(Msgs), NEW cap \in Nat, Len(ch) < cap, NEW m \in Msgs
  PROVE  Append(ch, m) \in Seq(Msgs) /\ Len(Append(ch, m)) <= cap
  OBVIOUS

LEMMA Receiving ==
  ASSUME NEW Msgs, NEW ch \in Seq(Msgs), NEW cap \in Nat, Len(ch) <= cap, ch # <<>>
  PROVE  Head(ch) \in Msgs /\ Tail(ch) \in Seq(Msgs) /\ Len(Tail(ch)) <= cap
<1>1. Head(ch) \in Msgs /\ Tail(ch) \in Seq(Msgs)
  OBVIOUS
<1>2. Len(Tail(ch)) = Len(ch) - 1 /\ Len(ch) \in Nat
  OBVIOUS
<1> QED
  BY <1>1, <1>2

LEMMA Closing ==
  ASSUME NEW Msgs, NEW cap \in Nat
  PROVE  <<>> \in Seq(Msgs) /\ Len(<<>>) <= cap
  OBVIOUS

\* What the writer puts into the server's stdin is what the outbox held.
LEMMA WiresStayOK ==
  ASSUME ClientInv, FlagsOK, WiresOK, PeerOK, [Next]_vars
  PROVE  WiresOK'
<1> USE ClientAssumption DEF WiresOK
<1>1. CASE UNCHANGED <<c2s, s2c, outbox>>
  BY <1>1
<1>2. ASSUME NEW c \in Callers, Register(c) \/ QueueFails(c) \/ CallReturns(c)
      PROVE  WiresOK'
  BY <1>1, <1>2 DEF Register, QueueFails, CallReturns, env, wires
<1>3. ASSUME NEW c \in Callers, QueueRequest(c) PROVE WiresOK'
  <2>1. /\ phase[c] = "sending" /\ Len(outbox) < OutboxCap
        /\ outbox' = Append(outbox, Request(callId[c])) /\ UNCHANGED <<c2s, s2c>>
    BY <1>3 DEF QueueRequest, HasRoom, env, wires
  <2>2. callId[c] \in Ids
    <3>1. callId[c] # 0
      BY <2>1 DEF ClientInv, IdsAreDistinct
    <3> QED
      BY <3>1, IdsAreInRange
  <2>3. Request(callId[c]) \in ToServer
    BY <2>2 DEF ToServer
  <2> QED
    BY <2>1, <2>3, Sending
<1>4. CASE DropClient
  BY <1>1, <1>4 DEF DropClient, env, wires
<1>5. CASE ReaderRoutesReply \/ ReaderSpawnsHandler \/ ReaderIgnoresNotification
  <2>1. s2c # <<>> /\ s2c' = Tail(s2c) /\ UNCHANGED <<c2s, outbox>>
    BY <1>5 DEF ReaderRoutesReply, ReaderSpawnsHandler, ReaderIgnoresNotification, clientVars
  <2> QED
    BY <2>1, Receiving
<1>6. CASE ReaderEnds
  <2>1. s2c' = <<>> /\ UNCHANGED <<c2s, outbox>>
    BY <1>6 DEF ReaderEnds
  <2> QED
    BY <2>1, Closing
<1>7. ASSUME NEW e \in handling, HandlerAnswers(e) PROVE WiresOK'
  <2>1. UNCHANGED <<c2s, s2c>>
    BY <1>7 DEF HandlerAnswers, env, wires
  <2>2. Answer(e.id, e.q) \in ToServer
    <3>1. PICK q \in Questions : e = Elicit(q, q)
      BY DEF PeerOK
    <3>2. e.id = q /\ e.q = q
      BY <3>1 DEF Elicit
    <3> QED
      BY <3>2 DEF ToServer
  <2>3. CASE cWriter = "done"
    BY <1>7, <2>1, <2>3 DEF HandlerAnswers
  <2>4. CASE cWriter # "done"
    <3>1. outbox' = Append(outbox, Answer(e.id, e.q)) /\ Len(outbox) < OutboxCap
      BY <1>7, <2>4 DEF HandlerAnswers, HasRoom
    <3> QED
      BY <2>1, <2>2, <3>1, Sending
  <2> QED
    BY <2>3, <2>4
<1>8. CASE WriterWrites
  <2>1. /\ outbox # <<>> /\ Len(c2s) < PipeCap /\ UNCHANGED s2c
        /\ c2s' = Append(c2s, Head(outbox)) /\ outbox' = Tail(outbox)
    BY <1>8 DEF WriterWrites
  <2>2. Head(outbox) \in ToServer /\ outbox' \in Seq(ToServer) /\ Len(outbox') <= OutboxCap
    BY <2>1, Receiving
  <2>3. c2s' \in Seq(ToServer) /\ Len(c2s') <= PipeCap
    BY <2>1, <2>2, Sending
  <2> QED
    BY <2>1, <2>2, <2>3
<1>9. CASE WriterEnds
  <2>1. outbox' = <<>> /\ UNCHANGED <<c2s, s2c>>
    BY <1>9 DEF WriterEnds
  <2> QED
    BY <2>1, Closing
<1>10. CASE PeerReads
  <2>1. c2s # <<>> /\ c2s' = Tail(c2s) /\ UNCHANGED <<s2c, outbox>>
    BY <1>10 DEF PeerReads, clientVars
  <2> QED
    BY <2>1, Receiving
<1>11. ASSUME NEW m \in ToClient, PeerWrites(m) PROVE WiresOK'
  <2>1. Len(s2c) < PipeCap /\ s2c' = Append(s2c, m) /\ UNCHANGED <<c2s, outbox>>
    BY <1>11 DEF PeerWrites, clientVars
  <2> QED
    BY <2>1, Sending
<1>12. CASE (\E i \in peer.owed : PeerReplies(i)) \/ (\E q \in Questions : PeerAsks(q))
            \/ (\E m \in {Notification, Malformed} : PeerSendsOther(m))
  <2>1. PICK m \in ToClient : PeerWrites(m)
    <3>1. ASSUME NEW i \in peer.owed, PeerReplies(i) PROVE \E m \in ToClient : PeerWrites(m)
      <4>1. Reply(i) \in ToClient /\ PeerWrites(Reply(i))
        BY <3>1 DEF PeerReplies, PeerOK, ToClient
      <4> QED
        BY <4>1
    <3>2. ASSUME NEW q \in Questions, PeerAsks(q) PROVE \E m \in ToClient : PeerWrites(m)
      <4>1. Elicit(q, q) \in ToClient /\ PeerWrites(Elicit(q, q))
        BY <3>2 DEF PeerAsks, ToClient
      <4> QED
        BY <4>1
    <3>3. ASSUME NEW m \in {Notification, Malformed}, PeerSendsOther(m)
          PROVE  \E n \in ToClient : PeerWrites(n)
      <4>1. m \in ToClient /\ PeerWrites(m)
        BY <3>3 DEF PeerSendsOther, ToClient
      <4> QED
        BY <4>1
    <3> QED
      BY <1>12, <3>1, <3>2, <3>3
  <2> QED
    BY <1>11, <2>1
<1>13. CASE PeerExitsOnEof \/ PeerIsKilled
  <2>1. c2s' = <<>> /\ UNCHANGED <<s2c, outbox>>
    BY <1>13 DEF PeerExitsOnEof, PeerIsKilled, PeerDies, clientVars
  <2> QED
    BY <2>1, Closing
<1>14. CASE UNCHANGED vars
  BY <1>1, <1>14 DEF vars, wires, clientVars
<1> QED
  BY <1>2, <1>3, <1>4, <1>5, <1>6, <1>7, <1>8, <1>9, <1>10, <1>12, <1>13, <1>14
     DEF Next, ClientStep, PeerStep

\* The server owes what it read and the handlers hold what it asked.
LEMMA PeerStaysOK ==
  ASSUME WiresOK, PeerOK, [Next]_vars
  PROVE  PeerOK'
<1> USE DEF PeerOK
<1>1. CASE UNCHANGED <<handling, peer>>
  BY <1>1
<1>2. ASSUME NEW c \in Callers, Register(c) \/ QueueRequest(c) \/ QueueFails(c) \/ CallReturns(c)
      PROVE  PeerOK'
  BY <1>1, <1>2 DEF Register, QueueRequest, QueueFails, CallReturns, env
<1>3. CASE DropClient \/ ReaderRoutesReply \/ ReaderIgnoresNotification \/ ReaderEnds
  BY <1>1, <1>3 DEF DropClient, ReaderRoutesReply, ReaderIgnoresNotification, ReaderEnds,
                    clientVars, env
<1>4. CASE WriterWrites \/ WriterEnds
  BY <1>1, <1>4 DEF WriterWrites, WriterEnds
<1>5. CASE ReaderSpawnsHandler
  <2>1. /\ s2c # <<>> /\ Head(s2c).type = "elicit"
        /\ handling' = handling \cup {Head(s2c)} /\ UNCHANGED peer
    BY <1>5 DEF ReaderSpawnsHandler
  <2>2. Head(s2c) \in ToClient
    BY <2>1 DEF WiresOK
  <2>3. Head(s2c) \in {Elicit(q, q) : q \in Questions}
    BY <2>1, <2>2 DEF ToClient, Reply, Elicit, Notification, Malformed
  <2> QED
    BY <2>1, <2>3
<1>6. ASSUME NEW e \in handling, HandlerAnswers(e) PROVE PeerOK'
  <2>1. handling' = handling \ {e} /\ UNCHANGED peer
    BY <1>6 DEF HandlerAnswers, env
  <2> QED
    BY <2>1
<1>7. CASE PeerReads
  <2>1. /\ c2s # <<>> /\ UNCHANGED handling
        /\ peer' = IF Head(c2s).type = "request"
                   THEN [peer EXCEPT !.owed = @ \cup {Head(c2s).id}] ELSE peer
    BY <1>7 DEF PeerReads, clientVars
  <2>2. Head(c2s) \in ToServer
    BY <2>1 DEF WiresOK
  <2>3. Head(c2s).type = "request" => Head(c2s).id \in Ids
    BY <2>2 DEF ToServer, Request, Answer
  <2> QED
    BY <2>1, <2>3
<1>8. CASE \E i \in peer.owed : PeerReplies(i)
  BY <1>8 DEF PeerReplies, PeerWrites, clientVars
<1>9. CASE \E q \in Questions : PeerAsks(q)
  BY <1>9 DEF PeerAsks, PeerWrites, clientVars
<1>10. CASE \E m \in {Notification, Malformed} : PeerSendsOther(m)
  BY <1>10 DEF PeerSendsOther, PeerWrites, clientVars
<1>11. CASE PeerExitsOnEof \/ PeerIsKilled
  BY <1>1, <1>11 DEF PeerExitsOnEof, PeerIsKilled, PeerDies, clientVars
<1>12. CASE UNCHANGED vars
  BY <1>1, <1>12 DEF vars, clientVars
<1> QED
  BY <1>2, <1>3, <1>4, <1>5, <1>6, <1>7, <1>8, <1>9, <1>10, <1>11, <1>12
     DEF Next, ClientStep, PeerStep

\* Types: no channel or pipe exceeds its capacity, and every id in use is one
\* of the calls', with any server that only replies to what it read.
THEOREM TypeCorrectness == Spec => []TypeOK
<1> DEFINE TypeInv == ClientInv /\ WiresOK /\ FlagsOK /\ PeerOK
<1>1. Init => TypeInv
  <2> SUFFICES ASSUME Init PROVE TypeInv
    OBVIOUS
  <2>1. ClientInv
    BY InitInv DEF Init, ClientInit
  <2>2. WiresOK
    BY ClientAssumption, Closing DEF Init, WiresOK
  <2>3. FlagsOK /\ PeerOK
    BY DEF Init, FlagsOK, PeerOK
  <2> QED
    BY <2>1, <2>2, <2>3
<1>2. TypeInv /\ [Next]_vars => TypeInv'
  BY ClientInvIsKept, WiresStayOK, FlagsStayOK, PeerStaysOK
<1>3. TypeInv => TypeOK
  <2> SUFFICES ASSUME TypeInv PROVE TypeOK
    OBVIOUS
  <2>1. /\ \A c \in Callers : callId[c] \in {0} \cup Ids
        /\ nextCall \in Nat \ {0}
    BY ClientAssumption, IdsAreInRange
  <2>2. /\ phase \in [Callers -> Phases] /\ callId \in [Callers -> Nat]
        /\ reply \in [Callers -> Nat]
    BY DEF ClientInv, CallsOK
  <2>3. callId \in [Callers -> {0} \cup Ids]
    BY <2>1, <2>2
  <2>4. reply \in [Callers -> {0} \cup Ids]
    BY <2>1, <2>2 DEF ClientInv, RepliesReachTheirCaller
  <2>5. \A i \in DOMAIN cPending : cPending[i] \in Callers /\ i \in Ids
    BY <2>1 DEF ClientInv, WaitersAreTheirs
  <2> QED
    BY <2>1, <2>2, <2>3, <2>4, <2>5 DEF TypeOK, WiresOK, FlagsOK, PeerOK, Phases
<1> QED
  BY <1>1, <1>2, <1>3, PTL DEF Spec
=============================================================================
