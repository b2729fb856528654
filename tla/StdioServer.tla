----------------------------- MODULE StdioServer -----------------------------
(***************************************************************************)
(* The stdio session loop of the MCP server and the elicitation handle     *)
(* that tools use to ask the user a question in the middle of a call       *)
(* (crates/mcp-server/src/server.rs run_stdio, crates/mcp-server/src/      *)
(* elicit.rs).                                                             *)
(*                                                                         *)
(* Four kinds of task run concurrently: a reader that moves lines from     *)
(* stdin to the inbound channel, the main loop that consumes that channel, *)
(* one task per accepted request, and a writer that moves messages from    *)
(* the outbound channel to stdout.  Both channels are bounded.             *)
(*                                                                         *)
(* Operators named Bad... are mutants, plausible bugs of the definition    *)
(* that follows them, and no part of the specification.                    *)
(*                                                                         *)
(* ServerStep is the code.  PeerStep is whoever holds the other ends of    *)
(* the two pipes; McpSession replaces it by the real client.               *)
(***************************************************************************)
EXTENDS Integers, Sequences, FiniteSets

CONSTANTS
  Requests,     \* ids of the requests the peer may issue (each at most once)
  MaxElicits,   \* bound: questions one tool call may ask in a row
  InCap,        \* capacity of the inbound channel (64 in the code)
  OutCap,       \* capacity of the outbound channel (64 in the code)
  PipeCap,      \* messages an operating system pipe holds
  MaxRepeats    \* bound: answers the peer sends a second time

ASSUME ServerAssumption ==
  /\ MaxElicits \in Nat /\ MaxRepeats \in Nat
  /\ InCap \in Nat \ {0} /\ OutCap \in Nat \ {0} /\ PipeCap \in Nat \ {0}

VARIABLES
  c2s,          \* peer's stdout, our stdin: lines not yet read
  c2sOpen,      \* does the peer still hold the write end of our stdin?
  s2c,          \* our stdout: lines the peer has not yet read
  s2cOpen,      \* is our stdout open?
  s2cRead,      \* does the peer still hold the read end of our stdout?
  inbound,      \* reader -> main loop channel
  outbound,     \* tasks -> writer channel
  reader,       \* reader task
  writer,       \* writer task
  main,         \* run_stdio itself
  task,         \* request id -> phase of its task
  asked,        \* request id -> questions its tool has asked so far
  waitingFor,   \* request id -> id of its outstanding question, 0 if none
  heard,        \* request id -> the response its oneshot holds, NoAnswer if none
  pending,      \* elicitation id -> the call whose oneshot sender it maps to
  nextId,       \* next elicitation id
  peer          \* what the environment has sent, seen and received

serverVars == <<inbound, outbound, reader, writer, main, task, asked,
                waitingFor, heard, pending, nextId>>
wires == <<c2s, c2sOpen, s2c, s2cOpen, s2cRead>>
env == <<wires, peer>>
vars == <<serverVars, wires, peer>>

Questions == Requests \X (1..MaxElicits)
ElicitIds == Nat \ {0}

Request(r)       == [type |-> "request", id |-> r]
Reply(r)         == [type |-> "reply", id |-> r]
Elicit(i, q)     == [type |-> "elicit", id |-> i, q |-> q]
Answer(i, q)     == [type |-> "answer", id |-> i, q |-> q]
Notification     == [type |-> "notification"]
Malformed        == [type |-> "malformed"]

Elicits == [type : {"elicit"}, id : ElicitIds, q : Questions]
Answers == [type : {"answer"}, id : ElicitIds, q : Questions]
Accepted == [type : {"request"}, id : Requests] \cup Answers \cup {Notification}
FromPeer == Accepted \cup {Malformed}
ToPeer == [type : {"reply"}, id : Requests] \cup Elicits

\* A bounded channel takes a message while it is not full.
HasRoom(ch, cap) == Len(ch) < cap

NoAnswer == [type |-> "none"]
Live == {"running", "asking", "waiting", "replying"}

Init ==
  /\ c2s = <<>> /\ c2sOpen = TRUE
  /\ s2c = <<>> /\ s2cOpen = TRUE /\ s2cRead = TRUE
  /\ inbound = <<>> /\ outbound = <<>>
  /\ reader = "running" /\ writer = "running" /\ main = "loop"
  /\ task = [r \in Requests |-> "absent"]
  /\ asked = [r \in Requests |-> 0]
  /\ waitingFor = [r \in Requests |-> 0]
  /\ heard = [r \in Requests |-> NoAnswer]
  /\ pending = [i \in {} |-> 0]
  /\ nextId = 1
  /\ peer = [sent |-> {}, others |-> {}, seen |-> {}, answered |-> {}, repeats |-> 0, got |-> {}]

-----------------------------------------------------------------------------
(* The reader task.                                                        *)

\* A parsed line goes to the inbound channel; the reader waits while it is full.
ReaderForwards ==
  /\ reader = "running"
  /\ c2s # <<>> /\ Head(c2s) # Malformed
  /\ HasRoom(inbound, InCap)
  /\ inbound' = Append(inbound, Head(c2s))
  /\ c2s' = Tail(c2s)
  /\ UNCHANGED <<peer, c2sOpen, s2c, s2cOpen, s2cRead, outbound, reader, writer, main,
                 task, asked, waitingFor, heard, pending, nextId>>

\* End of file and a line that does not parse both end the reader for good.
ReaderStops ==
  /\ reader = "running"
  /\ IF c2s = <<>> THEN ~c2sOpen ELSE Head(c2s) = Malformed
  /\ reader' = "done"
  /\ c2s' = IF c2s = <<>> THEN c2s ELSE Tail(c2s)
  /\ UNCHANGED <<peer, c2sOpen, s2c, s2cOpen, s2cRead, inbound, outbound, writer, main,
                 task, asked, waitingFor, heard, pending, nextId>>

-----------------------------------------------------------------------------
(* The main loop.                                                          *)

\* A request gets a task of its own, so the loop never waits for a tool.
MainSpawns(r) ==
  /\ main = "loop"
  /\ inbound # <<>> /\ Head(inbound) = Request(r)
  /\ inbound' = Tail(inbound)
  /\ task' = [task EXCEPT ![r] = "running"]
  /\ UNCHANGED <<env, outbound, reader, writer, main, asked, waitingFor, heard,
                 pending, nextId>>

BadWithoutWaiter(i) == pending
WithoutWaiter(i) == [j \in DOMAIN pending \ {i} |-> pending[j]]

BadDeliverResponse(m) == UNCHANGED <<heard, pending>>

\* deliver_response: the waiter registered under the id, if any, is removed
\* and handed the response; a response nobody waits for is dropped.
DeliverResponse(m) ==
  IF m.id \in DOMAIN pending
  THEN /\ heard' = [heard EXCEPT ![pending[m.id]] = m]
       /\ pending' = WithoutWaiter(m.id)
  ELSE UNCHANGED <<heard, pending>>

MainDelivers ==
  /\ main = "loop"
  /\ inbound # <<>> /\ Head(inbound).type = "answer"
  /\ inbound' = Tail(inbound)
  /\ DeliverResponse(Head(inbound))
  /\ UNCHANGED <<env, outbound, reader, writer, main, task, asked, waitingFor, nextId>>

MainIgnoresNotification ==
  /\ main = "loop"
  /\ inbound # <<>> /\ Head(inbound) = Notification
  /\ inbound' = Tail(inbound)
  /\ UNCHANGED <<env, outbound, reader, writer, main, task, asked, waitingFor,
                 heard, pending, nextId>>

\* recv() returns None once the reader is gone and the channel is drained.
InboundClosed == reader = "done" /\ inbound = <<>>

MainLeavesLoop ==
  /\ main = "loop"
  /\ InboundClosed
  /\ main' = "joining"
  /\ UNCHANGED <<env, inbound, outbound, reader, writer, task, asked, waitingFor,
                 heard, pending, nextId>>

\* run_stdio returns once both I/O tasks have ended.
MainReturns ==
  /\ main = "joining"
  /\ reader = "done" /\ writer = "done"
  /\ main' = "returned"
  /\ UNCHANGED <<env, inbound, outbound, reader, writer, task, asked, waitingFor,
                 heard, pending, nextId>>

-----------------------------------------------------------------------------
(* The task of request r: the tool, its questions and the reply.           *)

\* fetch_add(1).
BadIdAfter == nextId
IdAfter == nextId + 1

\* elicit(): a fresh id and a waiter registered under it before anything is sent.
Ask(r) ==
  /\ task[r] = "running"
  /\ asked[r] < MaxElicits
  /\ asked' = [asked EXCEPT ![r] = @ + 1]
  /\ waitingFor' = [waitingFor EXCEPT ![r] = nextId]
  /\ pending' = [i \in DOMAIN pending \cup {nextId} |->
                   IF i = nextId THEN r ELSE pending[i]]
  /\ nextId' = IdAfter
  /\ task' = [task EXCEPT ![r] = "asking"]
  /\ UNCHANGED <<env, inbound, outbound, reader, writer, main, heard>>

\* The question enters the outbound channel; the tool waits while it is full.
SendQuestion(r) ==
  /\ task[r] = "asking"
  /\ writer = "running" /\ HasRoom(outbound, OutCap)
  /\ outbound' = Append(outbound, Elicit(waitingFor[r], <<r, asked[r]>>))
  /\ task' = [task EXCEPT ![r] = "waiting"]
  /\ UNCHANGED <<env, inbound, reader, writer, main, asked, waitingFor, heard,
                 pending, nextId>>

\* The outbound channel is closed: the waiter is dropped and the tool goes on
\* with Cancel, whatever its oneshot may have received meanwhile.
QuestionUndeliverable(r) ==
  /\ task[r] = "asking"
  /\ writer = "done"
  /\ pending' = WithoutWaiter(waitingFor[r])
  /\ waitingFor' = [waitingFor EXCEPT ![r] = 0]
  /\ heard' = [heard EXCEPT ![r] = NoAnswer]
  /\ task' = [task EXCEPT ![r] = "running"]
  /\ UNCHANGED <<env, inbound, outbound, reader, writer, main, asked, nextId>>

\* The oneshot has fired: the tool continues with the user's answer.
ToolResumes(r) ==
  /\ task[r] = "waiting"
  /\ heard[r] # NoAnswer
  /\ heard' = [heard EXCEPT ![r] = NoAnswer]
  /\ waitingFor' = [waitingFor EXCEPT ![r] = 0]
  /\ task' = [task EXCEPT ![r] = "running"]
  /\ UNCHANGED <<env, inbound, outbound, reader, writer, main, asked, pending, nextId>>

ToolFinishes(r) ==
  /\ task[r] = "running"
  /\ task' = [task EXCEPT ![r] = "replying"]
  /\ UNCHANGED <<env, inbound, outbound, reader, writer, main, asked, waitingFor,
                 heard, pending, nextId>>

\* out.send(response): the reply enters the channel, or is lost with the writer.
SendReply(r) ==
  /\ task[r] = "replying"
  /\ writer = "done" \/ HasRoom(outbound, OutCap)
  /\ outbound' = IF writer = "done" THEN outbound ELSE Append(outbound, Reply(r))
  /\ task' = [task EXCEPT ![r] = "finished"]
  /\ UNCHANGED <<env, inbound, reader, writer, main, asked, waitingFor, heard,
                 pending, nextId>>

-----------------------------------------------------------------------------
(* The writer task.                                                        *)

WriterWrites ==
  /\ writer = "running"
  /\ outbound # <<>> /\ s2cRead /\ Len(s2c) < PipeCap
  /\ s2c' = Append(s2c, Head(outbound))
  /\ outbound' = Tail(outbound)
  /\ UNCHANGED <<peer, c2s, c2sOpen, s2cOpen, s2cRead, inbound, reader, writer, main,
                 task, asked, waitingFor, heard, pending, nextId>>

\* Every outstanding sender of the outbound channel: run_stdio's own
\* outbound_tx until it leaves the loop, the clone inside its elicit_handle
\* until it returns, and the clones each live task holds.
MainHoldsSender == main # "returned"
BadSendersAlive == main = "loop"
SendersAlive == MainHoldsSender \/ \E r \in Requests : task[r] \in Live

\* A write to a pipe nobody reads fails; recv() returns None without senders.
\* Either way the receiver is dropped with what it still holds.
WriterStops ==
  /\ writer = "running"
  /\ IF outbound = <<>> THEN ~SendersAlive ELSE ~s2cRead
  /\ writer' = "done"
  /\ outbound' = <<>>
  /\ s2cOpen' = FALSE
  /\ UNCHANGED <<peer, c2s, c2sOpen, s2c, s2cRead, inbound, reader, main, task, asked,
                 waitingFor, heard, pending, nextId>>

ServerStep ==
  \/ ReaderForwards \/ ReaderStops
  \/ MainDelivers \/ MainIgnoresNotification \/ MainLeavesLoop \/ MainReturns
  \/ WriterWrites \/ WriterStops
  \/ \E r \in Requests :
       \/ MainSpawns(r)
       \/ Ask(r) \/ SendQuestion(r) \/ QuestionUndeliverable(r) \/ ToolResumes(r)
       \/ ToolFinishes(r) \/ SendReply(r)

-----------------------------------------------------------------------------
(* The peer: any program at the other ends of the pipes.  It writes while  *)
(* its end is open and the pipe has room, answers only what it was asked,  *)
(* may answer late, out of order or twice, and may leave at any time.      *)

PeerWrites(m) ==
  /\ c2sOpen /\ Len(c2s) < PipeCap
  /\ c2s' = Append(c2s, m)
  /\ UNCHANGED <<serverVars, c2sOpen, s2c, s2cOpen, s2cRead>>

PeerRequests(r) ==
  /\ r \notin peer.sent
  /\ PeerWrites(Request(r))
  /\ peer' = [peer EXCEPT !.sent = @ \cup {r}]

\* A notification or a line that is not JSON, each at most once.
PeerSendsOther(m) ==
  /\ m \notin peer.others
  /\ PeerWrites(m)
  /\ peer' = [peer EXCEPT !.others = @ \cup {m}]

PeerAnswers(e) ==
  /\ e \in peer.seen \ peer.answered
  /\ PeerWrites(Answer(e.id, e.q))
  /\ peer' = [peer EXCEPT !.answered = @ \cup {e}]

PeerRepeats(e) ==
  /\ e \in peer.answered
  /\ peer.repeats < MaxRepeats
  /\ PeerWrites(Answer(e.id, e.q))
  /\ peer' = [peer EXCEPT !.repeats = @ + 1]

PeerReads ==
  /\ s2cRead /\ s2c # <<>>
  /\ s2c' = Tail(s2c)
  /\ peer' = IF Head(s2c).type = "elicit"
             THEN [peer EXCEPT !.seen = @ \cup {Head(s2c)}]
             ELSE [peer EXCEPT !.got = @ \cup {Head(s2c).id}]
  /\ UNCHANGED <<serverVars, c2s, c2sOpen, s2cOpen, s2cRead>>

PeerClosesStdin ==
  /\ c2sOpen
  /\ c2sOpen' = FALSE
  /\ UNCHANGED <<serverVars, c2s, s2c, s2cOpen, s2cRead, peer>>

PeerStopsReading ==
  /\ s2cRead
  /\ s2cRead' = FALSE
  /\ s2c' = <<>>
  /\ UNCHANGED <<serverVars, c2s, c2sOpen, s2cOpen, peer>>

PeerStep ==
  \/ \E r \in Requests : PeerRequests(r)
  \/ \E m \in {Notification, Malformed} : PeerSendsOther(m)
  \/ \E e \in peer.seen : PeerAnswers(e) \/ PeerRepeats(e)
  \/ PeerReads \/ PeerClosesStdin \/ PeerStopsReading

Next == ServerStep \/ PeerStep

Spec == Init /\ [][Next]_vars

(***************************************************************************)
(* Fairness.  Every tokio task that can run is eventually polled, so each  *)
(* of the reader, the main loop, the writer and every request's task is    *)
(* weakly fair; a tool finishes since MaxElicits bounds its questions.     *)
(* The peer is only asked to read what arrives and to answer what it read: *)
(* sending requests, repeating answers and leaving stay optional.          *)
(***************************************************************************)
ReaderStep == ReaderForwards \/ ReaderStops
MainStep == \/ \E r \in Requests : MainSpawns(r)
            \/ MainDelivers \/ MainIgnoresNotification \/ MainLeavesLoop \/ MainReturns
WriterStep == WriterWrites \/ WriterStops
TaskStep(r) == \/ Ask(r) \/ SendQuestion(r) \/ QuestionUndeliverable(r) \/ ToolResumes(r)
               \/ ToolFinishes(r) \/ SendReply(r)

Fairness ==
  /\ WF_vars(ReaderStep)
  /\ WF_vars(MainStep)
  /\ WF_vars(WriterStep)
  /\ \A r \in Requests : WF_vars(TaskStep(r))
  /\ WF_vars(PeerReads)
  /\ WF_vars(\E e \in peer.seen : PeerAnswers(e))

FairSpec == Spec /\ Fairness

-----------------------------------------------------------------------------
(* Properties.                                                             *)

ChannelsOK ==
  /\ c2s \in Seq(FromPeer) /\ Len(c2s) <= PipeCap
  /\ s2c \in Seq(ToPeer) /\ Len(s2c) <= PipeCap
  /\ inbound \in Seq(Accepted) /\ Len(inbound) <= InCap
  /\ outbound \in Seq(ToPeer) /\ Len(outbound) <= OutCap
LoopsOK ==
  /\ c2sOpen \in BOOLEAN /\ s2cOpen \in BOOLEAN /\ s2cRead \in BOOLEAN
  /\ reader \in {"running", "done"} /\ writer \in {"running", "done"}
  /\ main \in {"loop", "joining", "returned"}
TasksOK ==
  /\ task \in [Requests -> Live \cup {"absent", "finished"}]
  /\ asked \in [Requests -> 0..MaxElicits]
  /\ waitingFor \in [Requests -> Nat]
  /\ heard \in [Requests -> {NoAnswer} \cup Answers]
  /\ DOMAIN pending \subseteq 1..(nextId - 1)
  /\ pending \in [DOMAIN pending -> Requests]
  /\ nextId \in ElicitIds
PeerOK ==
  /\ peer \in [sent : SUBSET Requests, others : SUBSET {Notification, Malformed},
               seen : SUBSET Elicits, answered : SUBSET Elicits,
               repeats : 0..MaxRepeats, got : SUBSET Requests]
  /\ peer.answered \subseteq peer.seen

\* Types, and the capacities of the two channels and the two pipes.
TypeOK == ChannelsOK /\ LoopsOK /\ TasksOK /\ PeerOK

\* What a tool hears is the user's answer to the very question it is waiting
\* on, however late, repeated or reordered the peer's answers are: a
\* confirmation given for one tool, or for an earlier question of the same
\* tool, is never taken for another (elicit.rs, deliver_response).
AnswersMatchQuestions ==
  \A r \in Requests : heard[r] # NoAnswer =>
    /\ heard[r].q = <<r, asked[r]>>
    /\ heard[r].id = waitingFor[r]

\* The pending map holds one waiter per unanswered question and nothing else:
\* no waiter is lost while its tool waits and none is left behind when the
\* question was answered or could not be sent.
WaitersAreExact ==
  LET Unanswered == {r \in Requests : task[r] \in {"asking", "waiting"} /\ heard[r] = NoAnswer}
  IN  /\ DOMAIN pending = {waitingFor[r] : r \in Unanswered}
      /\ \A r \in Unanswered : pending[waitingFor[r]] = r

\* When the main loop has ended, every request the peer wrote either has its
\* task or is still unread in the pipe behind a malformed line: the loop
\* drains the inbound channel before it ends (server.rs:354).
NoRequestDroppedAtEof ==
  main # "loop" =>
    \A r \in peer.sent :
      task[r] # "absent" \/ \E k \in 1..Len(c2s) : c2s[k] = Request(r)

\* As long as the peer stays, every request it has a task for is answered:
\* neither the bounded channels nor tools waiting for the user can lock up
\* reader, main loop and writer, since the loop never waits for a tool.
PeerGone == ~c2sOpen \/ ~s2cRead \/ Malformed \in peer.others
EveryRequestAnswered ==
  \A r \in Requests : (task[r] # "absent") ~> (r \in peer.got \/ PeerGone)

\* End of input does not lose replies: a tool that finishes afterwards still
\* reaches a peer that keeps reading (the writer outlives every sender).
RepliesSurviveEof ==
  \A r \in Requests : (task[r] = "replying") ~> (r \in peer.got \/ ~s2cRead)

\* sample-client main.rs:190: closing the server's stdin makes its event loop exit.
ServerExitsAfterEof == ~c2sOpen ~> (main = "returned")
=============================================================================
