------------------------------ MODULE McpClient ------------------------------
(***************************************************************************)
(* The MCP client over split stdio halves (crates/mcp-client/src/lib.rs,   *)
(* spawn_with_halves, call, notify, handle_server_request).                *)
(*                                                                         *)
(* A reader task routes replies to the waiter registered under their id    *)
(* and gives every question of the server a task of its own; a writer task *)
(* drains the outbox into the server's stdin; callers register a waiter,   *)
(* queue their request and await the oneshot.  All of them share the       *)
(* outbox, whose channel closes only when its last sender is dropped.      *)
(*                                                                         *)
(* Operators named Bad... are mutants, plausible bugs of the definition    *)
(* that follows them, and no part of the specification.                    *)
(*                                                                         *)
(* ClientStep is the code.  PeerStep is any server process at the other    *)
(* ends of the pipes; McpSession replaces it by the real one.              *)
(***************************************************************************)
EXTENDS Integers, Sequences, FiniteSets

CONSTANTS
  Callers,      \* concurrent calls the application makes, once each
  Questions,    \* questions the server may put, once each
  OutboxCap,    \* capacity of the outbox channel (64 in the code)
  PipeCap       \* messages an operating system pipe holds

ASSUME ClientAssumption ==
  /\ IsFiniteSet(Callers)
  /\ OutboxCap \in Nat \ {0} /\ PipeCap \in Nat \ {0}

VARIABLES
  c2s, c2sOpen,   \* the server's stdin, and whether our end of it is open
  s2c, s2cOpen,   \* the server's stdout, and whether its end of it is open
  s2cRead,        \* do we still hold the read end of the server's stdout?
  serverUp,       \* is the server process alive (a write to its stdin succeeds)?
  outbox,         \* callers and handlers -> writer channel
  cReader,        \* reader task
  cWriter,        \* writer task
  held,           \* does the application still hold the Client?
  phase,          \* caller -> where its call() is
  callId,         \* caller -> the id of its request, 0 before it has one
  reply,          \* caller -> the id of the reply in its oneshot, 0 if empty
  cPending,       \* request id -> the caller whose oneshot sender it maps to
  nextCall,       \* next request id
  handling,       \* questions whose handler task is running
  peer            \* what the environment owes and has asked

clientVars == <<outbox, cReader, cWriter, held, phase, callId, reply, cPending,
                nextCall, handling>>
wires == <<c2s, c2sOpen, s2c, s2cOpen, s2cRead, serverUp>>
env == <<wires, peer>>
vars == <<clientVars, wires, peer>>

Ids == 1..Cardinality(Callers)
Request(i)   == [type |-> "request", id |-> i]
Reply(i)     == [type |-> "reply", id |-> i]
Elicit(i, q) == [type |-> "elicit", id |-> i, q |-> q]
Answer(i, q) == [type |-> "answer", id |-> i, q |-> q]
Notification == [type |-> "notification"]
Malformed    == [type |-> "malformed"]

HasRoom(ch, cap) == Len(ch) < cap

Init ==
  /\ c2s = <<>> /\ c2sOpen = TRUE
  /\ s2c = <<>> /\ s2cOpen = TRUE /\ s2cRead = TRUE
  /\ serverUp = TRUE
  /\ outbox = <<>> /\ cReader = "running" /\ cWriter = "running"
  /\ held = TRUE
  /\ phase = [c \in Callers |-> "idle"]
  /\ callId = [c \in Callers |-> 0]
  /\ reply = [c \in Callers |-> 0]
  /\ cPending = [i \in {} |-> 0]
  /\ nextCall = 1
  /\ handling = {}
  /\ peer = [owed |-> {}, asked |-> {}, others |-> {}]

-----------------------------------------------------------------------------
(* call(): one caller's request.                                           *)

\* fetch_add(1).
BadIdAfter == nextCall
IdAfter == nextCall + 1

\* A fresh id and a waiter under it, before the request is queued.
Register(c) ==
  /\ held
  /\ phase[c] = "idle"
  /\ callId' = [callId EXCEPT ![c] = nextCall]
  /\ cPending' = [i \in DOMAIN cPending \cup {nextCall} |->
                    IF i = nextCall THEN c ELSE cPending[i]]
  /\ nextCall' = IdAfter
  /\ phase' = [phase EXCEPT ![c] = "sending"]
  /\ UNCHANGED <<env, outbox, cReader, cWriter, held, reply, handling>>

QueueRequest(c) ==
  /\ phase[c] = "sending"
  /\ cWriter = "running" /\ HasRoom(outbox, OutboxCap)
  /\ outbox' = Append(outbox, Request(callId[c]))
  /\ phase' = [phase EXCEPT ![c] = "waiting"]
  /\ UNCHANGED <<env, cReader, cWriter, held, callId, reply, cPending, nextCall, handling>>

\* The outbox is closed: TransportClosed, and the waiter stays in the map.
QueueFails(c) ==
  /\ phase[c] = "sending"
  /\ cWriter = "done"
  /\ phase' = [phase EXCEPT ![c] = "failed"]
  /\ UNCHANGED <<env, outbox, cReader, cWriter, held, callId, reply, cPending,
                 nextCall, handling>>

\* The oneshot fires with the reply, or fails because its sender was dropped.
CallReturns(c) ==
  /\ phase[c] = "waiting"
  /\ reply[c] # 0 \/ callId[c] \notin DOMAIN cPending
  /\ phase' = [phase EXCEPT ![c] = IF reply[c] # 0 THEN "ok" ELSE "failed"]
  /\ UNCHANGED <<env, outbox, cReader, cWriter, held, callId, reply, cPending,
                 nextCall, handling>>

\* The application drops its last handle; no call is then in progress.
DropClient ==
  /\ held
  /\ \A c \in Callers : phase[c] \notin {"sending", "waiting"}
  /\ held' = FALSE
  /\ UNCHANGED <<env, outbox, cReader, cWriter, phase, callId, reply, cPending,
                 nextCall, handling>>

-----------------------------------------------------------------------------
(* The reader task.                                                        *)

BadWithoutWaiter(i) == [j \in {} |-> 0]
WithoutWaiter(i) == [j \in DOMAIN cPending \ {i} |-> cPending[j]]

ReaderRoutesReply ==
  /\ cReader = "running"
  /\ s2c # <<>> /\ Head(s2c).type = "reply"
  /\ s2c' = Tail(s2c)
  /\ LET i == Head(s2c).id
     IN  IF i \in DOMAIN cPending
         THEN /\ reply' = [reply EXCEPT ![cPending[i]] = i]
              /\ cPending' = WithoutWaiter(i)
         ELSE UNCHANGED <<reply, cPending>>
  /\ UNCHANGED <<c2s, c2sOpen, s2cOpen, s2cRead, serverUp, peer, outbox, cReader,
                 cWriter, held, phase, callId, nextCall, handling>>

\* A question gets a handler task, so the reader never waits for the user.
ReaderSpawnsHandler ==
  /\ cReader = "running"
  /\ s2c # <<>> /\ Head(s2c).type = "elicit"
  /\ s2c' = Tail(s2c)
  /\ handling' = handling \cup {Head(s2c)}
  /\ UNCHANGED <<c2s, c2sOpen, s2cOpen, s2cRead, serverUp, peer, outbox, cReader,
                 cWriter, held, phase, callId, reply, cPending, nextCall>>

ReaderIgnoresNotification ==
  /\ cReader = "running"
  /\ s2c # <<>> /\ Head(s2c) = Notification
  /\ s2c' = Tail(s2c)
  /\ UNCHANGED <<c2s, c2sOpen, s2cOpen, s2cRead, serverUp, peer, clientVars>>

BadWaitersAtEof == cPending
WaitersAtEof == [i \in {} |-> 0]

\* End of file, or a line that does not parse: the reader stops for good, drops
\* every registered waiter and with its stream whatever is still in the pipe.
ReaderEnds ==
  /\ cReader = "running"
  /\ IF s2c = <<>> THEN ~s2cOpen ELSE Head(s2c) = Malformed
  /\ cReader' = "done"
  /\ s2cRead' = FALSE
  /\ s2c' = <<>>
  /\ cPending' = WaitersAtEof
  /\ UNCHANGED <<c2s, c2sOpen, s2cOpen, serverUp, peer, outbox, cWriter, held,
                 phase, callId, reply, nextCall, handling>>

-----------------------------------------------------------------------------
(* handle_server_request(): the delegate answers one question.             *)

HandlerAnswers(e) ==
  /\ e \in handling
  /\ cWriter = "done" \/ HasRoom(outbox, OutboxCap)
  /\ outbox' = IF cWriter = "done" THEN outbox ELSE Append(outbox, Answer(e.id, e.q))
  /\ handling' = handling \ {e}
  /\ UNCHANGED <<env, cReader, cWriter, held, phase, callId, reply, cPending, nextCall>>

-----------------------------------------------------------------------------
(* The writer task.                                                        *)

WriterWrites ==
  /\ cWriter = "running"
  /\ outbox # <<>> /\ serverUp /\ Len(c2s) < PipeCap
  /\ c2s' = Append(c2s, Head(outbox))
  /\ outbox' = Tail(outbox)
  /\ UNCHANGED <<c2sOpen, s2c, s2cOpen, s2cRead, serverUp, peer, cReader, cWriter,
                 held, phase, callId, reply, cPending, nextCall, handling>>

\* The senders of the outbox: the Client itself, the clone the reader task
\* keeps for its handlers, and the clone of every running handler.
ReaderHoldsSender == cReader = "running"
OutboxSenders == held \/ ReaderHoldsSender \/ handling # {}

\* A failed write, or no sender left: the writer drops the outbox and our end
\* of the server's stdin.
WriterEnds ==
  /\ cWriter = "running"
  /\ IF outbox = <<>> THEN ~OutboxSenders ELSE ~serverUp
  /\ cWriter' = "done"
  /\ outbox' = <<>>
  /\ c2sOpen' = FALSE
  /\ UNCHANGED <<c2s, s2c, s2cOpen, s2cRead, serverUp, peer, cReader, held, phase,
                 callId, reply, cPending, nextCall, handling>>

ClientStep ==
  \/ \E c \in Callers : \/ Register(c) \/ QueueRequest(c) \/ QueueFails(c)
                        \/ CallReturns(c)
  \/ DropClient
  \/ ReaderRoutesReply \/ ReaderSpawnsHandler \/ ReaderIgnoresNotification \/ ReaderEnds
  \/ \E e \in handling : HandlerAnswers(e)
  \/ WriterWrites \/ WriterEnds

-----------------------------------------------------------------------------
(* Any server: it reads its stdin, replies to what it read in any order,   *)
(* asks its questions, exits when its stdin is closed, and may be killed.  *)

PeerReads ==
  /\ serverUp /\ c2s # <<>>
  /\ c2s' = Tail(c2s)
  /\ peer' = IF Head(c2s).type = "request"
             THEN [peer EXCEPT !.owed = @ \cup {Head(c2s).id}] ELSE peer
  /\ UNCHANGED <<clientVars, c2sOpen, s2c, s2cOpen, s2cRead, serverUp>>

PeerWrites(m) ==
  /\ serverUp /\ s2cRead /\ Len(s2c) < PipeCap
  /\ s2c' = Append(s2c, m)
  /\ UNCHANGED <<clientVars, c2s, c2sOpen, s2cOpen, s2cRead, serverUp>>

PeerReplies(i) ==
  /\ i \in peer.owed
  /\ PeerWrites(Reply(i))
  /\ peer' = [peer EXCEPT !.owed = @ \ {i}]

PeerAsks(q) ==
  /\ q \notin peer.asked
  /\ PeerWrites(Elicit(q, q))
  /\ peer' = [peer EXCEPT !.asked = @ \cup {q}]

\* A notification or a line that is not JSON, each at most once.
PeerSendsOther(m) ==
  /\ m \notin peer.others
  /\ PeerWrites(m)
  /\ peer' = [peer EXCEPT !.others = @ \cup {m}]

PeerDies ==
  /\ serverUp' = FALSE
  /\ s2cOpen' = FALSE
  /\ c2s' = <<>>
  /\ UNCHANGED <<clientVars, c2sOpen, s2c, s2cRead, peer>>

PeerExitsOnEof == serverUp /\ ~c2sOpen /\ c2s = <<>> /\ PeerDies
PeerIsKilled == serverUp /\ c2sOpen /\ PeerDies

PeerStep ==
  \/ PeerReads
  \/ \E i \in peer.owed : PeerReplies(i)
  \/ \E q \in Questions : PeerAsks(q)
  \/ \E m \in {Notification, Malformed} : PeerSendsOther(m)
  \/ PeerExitsOnEof \/ PeerIsKilled

Next == ClientStep \/ PeerStep
Spec == Init /\ [][Next]_vars

(***************************************************************************)
(* Fairness.  The runtime polls every task that can run; the delegate      *)
(* eventually answers; a live server eventually reads, replies, and exits  *)
(* at end of input.  Starting a call and being killed stay optional.       *)
(***************************************************************************)
CallStep(c) == QueueRequest(c) \/ QueueFails(c) \/ CallReturns(c)
ReaderStep == \/ ReaderRoutesReply \/ ReaderSpawnsHandler
              \/ ReaderIgnoresNotification \/ ReaderEnds
WriterStep == WriterWrites \/ WriterEnds

ClientFairness ==
  /\ \A c \in Callers : WF_vars(CallStep(c))
  /\ WF_vars(ReaderStep)
  /\ WF_vars(WriterStep)
  /\ WF_vars(\E e \in handling : HandlerAnswers(e))

PeerFairness ==
  /\ WF_vars(PeerReads)
  /\ WF_vars(\E i \in peer.owed : PeerReplies(i))
  /\ WF_vars(PeerExitsOnEof)

FairSpec == Spec /\ ClientFairness /\ PeerFairness

-----------------------------------------------------------------------------
(* Properties.                                                             *)

ToServer == {Request(i) : i \in Ids} \cup {Answer(q, q) : q \in Questions}
ToClient == {Reply(i) : i \in Ids} \cup {Elicit(q, q) : q \in Questions}
            \cup {Notification, Malformed}

\* Types, and the capacities of the outbox and the pipes.
TypeOK ==
  /\ c2s \in Seq(ToServer) /\ Len(c2s) <= PipeCap
  /\ s2c \in Seq(ToClient) /\ Len(s2c) <= PipeCap
  /\ outbox \in Seq(ToServer) /\ Len(outbox) <= OutboxCap
  /\ {c2sOpen, s2cOpen, s2cRead, serverUp, held} \subseteq BOOLEAN
  /\ cReader \in {"running", "done"} /\ cWriter \in {"running", "done"}
  /\ phase \in [Callers -> {"idle", "sending", "waiting", "ok", "failed"}]
  /\ callId \in [Callers -> {0} \cup Ids]
  /\ reply \in [Callers -> {0} \cup Ids]
  /\ DOMAIN cPending \subseteq Ids
  /\ \A i \in DOMAIN cPending : cPending[i] \in Callers
  /\ nextCall \in Nat \ {0}
  /\ handling \subseteq {Elicit(q, q) : q \in Questions}

\* A call returns the reply to its own request, and while the reader runs no
\* waiting caller has lost its waiter: replies in any order, several calls at
\* a time and a server that dies never hand a caller another caller's result.
RepliesReachTheirCaller ==
  \A c \in Callers :
    /\ reply[c] \in {0, callId[c]}
    /\ phase[c] = "ok" => reply[c] = callId[c]
    /\ cReader = "running" /\ phase[c] \in {"sending", "waiting"} /\ reply[c] = 0
         => callId[c] \in DOMAIN cPending /\ cPending[callId[c]] = c

\* Every call in progress while the reader runs returns, with the reply or
\* with TransportClosed: the full outbox, the questions the server asks
\* meanwhile and its death included (lib.rs:138, p.clear()).
CallsInFlightReturn ==
  \A c \in Callers :
    (cReader = "running" /\ phase[c] = "waiting") ~> (phase[c] \in {"ok", "failed"})

\* lib.rs:244: callers see TransportClosed instead of hanging.
EveryCallReturns ==
  \A c \in Callers : (phase[c] = "waiting") ~> (phase[c] \in {"ok", "failed"})
=============================================================================
