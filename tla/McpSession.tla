------------------------------ MODULE McpSession ------------------------------
(***************************************************************************)
(* One MCP session over stdio: the client of McpClient and the server of   *)
(* StdioServer joined by the two pipes, as the gateway and sample-client   *)
(* run it (apps/oracle-automate-gw/src/main.rs, a child process whose      *)
(* stdin and stdout are piped).  The server process may be killed at any   *)
(* moment.                                                                 *)
(***************************************************************************)
EXTENDS Integers, Sequences, FiniteSets

CONSTANTS Callers, MaxElicits, OutboxCap, InCap, OutCap, PipeCap

ASSUME SessionAssumption ==
  /\ IsFiniteSet(Callers)
  /\ MaxElicits \in Nat
  /\ {OutboxCap, InCap, OutCap, PipeCap} \subseteq Nat \ {0}

VARIABLES
  c2s, c2sOpen, s2c, s2cOpen, s2cRead,                      \* the pipes
  outbox, cReader, cWriter, held, phase, callId, reply,     \* the client
  cPending, nextCall, handling,
  inbound, outbound, reader, writer, main, task, asked,     \* the server
  waitingFor, heard, pending, nextId,
  killed                                                    \* was it killed?

clientVars == <<outbox, cReader, cWriter, held, phase, callId, reply, cPending,
                nextCall, handling>>
serverVars == <<inbound, outbound, reader, writer, main, task, asked, waitingFor,
                heard, pending, nextId, killed>>
wires == <<c2s, c2sOpen, s2c, s2cOpen, s2cRead>>
vars == <<clientVars, serverVars, wires>>

Ids == 1..Cardinality(Callers)

\* The process is gone once run_stdio returned; the peers of both modules are
\* replaced by each other, so they keep no state here.
Server == INSTANCE StdioServer
            WITH Requests <- Ids, MaxRepeats <- 0, peer <- 0
Client == INSTANCE McpClient
            WITH Questions <- {}, serverUp <- main # "returned", peer <- 0

Init ==
  /\ c2s = <<>> /\ c2sOpen = TRUE
  /\ s2c = <<>> /\ s2cOpen = TRUE /\ s2cRead = TRUE
  /\ outbox = <<>> /\ cReader = "running" /\ cWriter = "running" /\ held = TRUE
  /\ phase = [c \in Callers |-> "idle"]
  /\ callId = [c \in Callers |-> 0]
  /\ reply = [c \in Callers |-> 0]
  /\ cPending = [i \in {} |-> 0] /\ nextCall = 1
  /\ handling = {}
  /\ inbound = <<>> /\ outbound = <<>>
  /\ reader = "running" /\ writer = "running" /\ main = "loop"
  /\ task = [r \in Ids |-> "absent"]
  /\ asked = [r \in Ids |-> 0]
  /\ waitingFor = [r \in Ids |-> 0]
  /\ heard = [r \in Ids |-> Server!NoAnswer]
  /\ pending = [i \in {} |-> 0] /\ nextId = 1
  /\ killed = FALSE

ServerMoves == UNCHANGED <<clientVars, killed>> /\ Server!ServerStep
ClientMoves == UNCHANGED serverVars /\ Client!ClientStep

\* The operating system ends the process: its tasks, channels and unread input
\* are gone, and the client reads what is left in the pipe, then end of file.
ServerKilled ==
  /\ main # "returned"
  /\ killed' = TRUE
  /\ main' = "returned" /\ reader' = "done" /\ writer' = "done"
  /\ task' = [r \in Ids |-> IF task[r] = "absent" THEN "absent" ELSE "finished"]
  /\ inbound' = <<>> /\ outbound' = <<>>
  /\ heard' = [r \in Ids |-> Server!NoAnswer]
  /\ waitingFor' = [r \in Ids |-> 0]
  /\ pending' = [i \in {} |-> 0]
  /\ c2s' = <<>> /\ s2cOpen' = FALSE
  /\ UNCHANGED <<clientVars, c2sOpen, s2c, s2cRead, asked, nextId>>

Next == ServerMoves \/ ClientMoves \/ ServerKilled
Spec == Init /\ [][Next]_vars

(***************************************************************************)
(* Fairness.  As in the two modules: every runnable task of either process *)
(* is eventually polled, and the delegate eventually answers.  Making a    *)
(* call, dropping the client and the kill are never forced.                *)
(***************************************************************************)
ServerOnly == UNCHANGED <<clientVars, killed>>
ClientOnly == UNCHANGED serverVars
Fairness ==
  /\ WF_vars(ServerOnly /\ Server!ReaderStep)
  /\ WF_vars(ServerOnly /\ Server!MainStep)
  /\ WF_vars(ServerOnly /\ Server!WriterStep)
  /\ \A r \in Ids : WF_vars(ServerOnly /\ Server!TaskStep(r))
  /\ \A c \in Callers : WF_vars(ClientOnly /\ Client!CallStep(c))
  /\ WF_vars(ClientOnly /\ Client!ReaderStep)
  /\ WF_vars(ClientOnly /\ Client!WriterStep)
  /\ WF_vars(ClientOnly /\ \E e \in handling : Client!HandlerAnswers(e))

FairSpec == Spec /\ Fairness

-----------------------------------------------------------------------------
(* Properties.                                                             *)

\* No circle of full channels and waiting tasks: with every channel and pipe
\* holding a single message, and tools asking the user while other calls are
\* queued, every call returns its result unless the server is killed.
CallsSucceedUnlessKilled ==
  \A c \in Callers : (phase[c] = "sending") ~> (phase[c] = "ok" \/ killed)

\* The session implements RemoteCall: a result only for an executed call, and
\* no call executed before it is made, with a kill at any point; and a request
\* is taken up once at most, wherever replies and questions pass each other.
ExecutedCalls == {c \in Callers : callId[c] # 0 /\ task[callId[c]] # "absent"}
Outcome == [c \in Callers |->
              IF phase[c] \in {"sending", "waiting"} THEN "called" ELSE phase[c]]
Remote == INSTANCE RemoteCall WITH outcome <- Outcome, executed <- ExecutedCalls
RunsOnce == \A r \in Ids : Server!MainSpawns(r) => task[r] = "absent"
ImplementsRemoteCall == Remote!Spec /\ [][RunsOnce]_vars
=============================================================================
