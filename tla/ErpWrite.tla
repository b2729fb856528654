------------------------------- MODULE ErpWrite -------------------------------
(***************************************************************************)
(* The tool oracle.rest.call and the write gate under it                   *)
(* (apps/oracle-automate-server/src/tools.rs tool_rfc_call, crates/        *)
(* oracle-automate-erp/src/transaction.rs execute_write_bapi).             *)
(*                                                                         *)
(* With commit = true a call runs the operation, reads the return stack of *)
(* its reply, finishes with a commit or a rollback operation and records   *)
(* an audit entry; without, the operation is run and its reply handed      *)
(* back.  Between two awaits the process may exit.                         *)
(*                                                                         *)
(* The ERP is external.  It either holds a change in the open logical unit *)
(* of work (LUW) until a commit (Deferred, the E-Business Suite) or        *)
(* persists it with the request itself (Fusion REST).  All calls share one *)
(* client, and neither commit_req nor rollback_req names a transaction:    *)
(* what they finish is the ERP's "current" one (client.rs:971), which may  *)
(* hold the open change of any other call besides.  What a reply's return  *)
(* stack says is true; a reply without one says nothing, since the client  *)
(* discards the HTTP status (fusion.rs:275), and a call that fails, by     *)
(* timeout say, may have taken effect or not.                              *)
(*                                                                         *)
(* Operators named Bad... are mutants, plausible bugs of the definition    *)
(* that follows them, and no part of the specification.                    *)
(***************************************************************************)
EXTENDS FiniteSets

CONSTANTS
  Calls,       \* the calls of oracle.rest.call
  ReadOnly,    \* those that reach a server started without --enable-writes
  Deferred     \* does the ERP wait for a commit before it persists a change?

ASSUME ErpAssumption == ReadOnly \subseteq Calls /\ Deferred \in BOOLEAN

VARIABLES
  pc,          \* where the call is
  commit,      \* its commit argument
  op,          \* what the catalogue says of the operation it names
  business,    \* return stack of the operation
  final,       \* return stack of the commit or rollback that finished it
  report,      \* what the call returns to its caller
  audit,       \* audit entries recorded
  luw,         \* calls whose change the ERP holds uncommitted
  db,          \* calls whose change the ERP has persisted
  crossed      \* history: calls between whose operation and whose own commit or
               \* rollback another call finished the current transaction

vars == <<pc, commit, op, business, final, report, audit, luw, db, crossed>>

(* An operation the catalogue lists as reading, one it lists as modifying, *)
(* one it does not list, and the two that finish a transaction.            *)
Ops == {"read", "write", "unlisted", "finisher"}

(* What parse_erp_messages and has_failure make of a reply: no messages at *)
(* all, messages without a failure, or one of severity E, A or unknown.    *)
Stacks == {"empty", "ok", "failure"}

Audited == {"ok", "failed", "denied"}
InFlight == {"gate", "calling", "committing", "rollingBack", "auditing"}

Init ==
  /\ pc = [w \in Calls |-> "idle"]
  /\ commit = [w \in Calls |-> FALSE]
  /\ op = [w \in Calls |-> "read"]
  /\ business = [w \in Calls |-> "empty"]
  /\ final = [w \in Calls |-> "empty"]
  /\ report = [w \in Calls |-> "none"]
  /\ audit = {}
  /\ luw = {} /\ db = {} /\ crossed = {}

Goto(w, phase) == pc' = [pc EXCEPT ![w] = phase]
Reports(w, r) == report' = [report EXCEPT ![w] = r]

-----------------------------------------------------------------------------
(* The ERP.                                                                *)

\* A request that takes effect leaves its change in the LUW or persists it;
\* one that only reads leaves nothing, whatever the reply.
Takes(w) ==
  IF Deferred THEN luw' = luw \cup {w} /\ UNCHANGED db
              ELSE db' = db \cup {w} /\ UNCHANGED luw
Effect(w, takes) ==
  IF takes /\ op[w] \in {"write", "unlisted"} THEN Takes(w) ELSE UNCHANGED <<luw, db>>

\* What the operation's reply can be: Fusion returns no stack at all.
Reply(stack, takes) ==
  /\ ~Deferred => stack = "empty"
  /\ stack = "ok" => takes

\* What a finishing operation's reply can be.  Fusion has no such operation.
FinisherReply(stack, takes) ==
  IF Deferred THEN (stack = "ok" => takes) /\ (stack = "failure" => ~takes)
              ELSE stack = "empty" /\ ~takes

\* The changes that one request to commit or to roll back may finish: that of
\* the call which sent it and, since it names no transaction, any other's.
Current(w) == {open \in SUBSET luw : w \in luw => w \in open}

Persist(open) == luw' = luw \ open /\ db' = db \cup open
Discard(open) == luw' = luw \ open /\ UNCHANGED db

\* The others that are between their operation and its finish meanwhile.
Open == {v \in Calls : pc[v] \in {"committing", "rollingBack"}}
Crosses(w) == crossed' = crossed \cup (Open \ {w})

\* commit_req and rollback_req name the operation that commits or rolls back,
\* and no transaction.
BadCommitRequest(w, takes) ==
  /\ Crosses(w)
  /\ IF takes THEN \E open \in Current(w) : Discard(open) ELSE UNCHANGED <<luw, db>>
CommitRequest(w, takes) ==
  /\ Crosses(w)
  /\ IF takes THEN \E open \in Current(w) : Persist(open) ELSE UNCHANGED <<luw, db>>
RollbackRequest(w, takes) ==
  /\ Crosses(w)
  /\ IF takes THEN \E open \in Current(w) : Discard(open) ELSE UNCHANGED <<luw, db>>

-----------------------------------------------------------------------------
(* The call.                                                               *)

Start(w) ==
  /\ pc[w] = "idle"
  /\ \E c \in BOOLEAN, o \in Ops :
       /\ commit' = [commit EXCEPT ![w] = c]
       /\ op' = [op EXCEPT ![w] = o]
  /\ Goto(w, "gate")
  /\ UNCHANGED <<business, final, report, audit, luw, db, crossed>>

\* The transactional path refuses in read-only mode, and refuses to run a
\* finishing operation on its own; both refusals are audited.
GateRefuses(w) ==
  /\ pc[w] = "gate" /\ commit[w]
  /\ w \in ReadOnly \/ op[w] = "finisher"
  /\ Reports(w, IF w \in ReadOnly THEN "denied" ELSE "error")
  /\ Goto(w, "auditing")
  /\ UNCHANGED <<commit, op, business, final, audit, luw, db, crossed>>

\* The read-only gate of the client itself (fusion.rs:241): an operation that
\* modifies state, or that the catalogue does not know, is not called.
Callable(w) == w \in ReadOnly => op[w] = "read"

GatePasses(w) ==
  /\ pc[w] = "gate"
  /\ IF commit[w] THEN w \notin ReadOnly /\ op[w] # "finisher" ELSE Callable(w)
  /\ Goto(w, "calling")
  /\ UNCHANGED <<commit, op, business, final, report, audit, luw, db, crossed>>

ClientRefuses(w) ==
  /\ pc[w] = "gate" /\ ~commit[w] /\ ~Callable(w)
  /\ Reports(w, "denied")
  /\ Goto(w, "done")
  /\ UNCHANGED <<commit, op, business, final, audit, luw, db, crossed>>

\* The plain path hands the reply, or the error, straight back.
PlainCall(w) ==
  /\ pc[w] = "calling" /\ ~commit[w] /\ op[w] # "finisher"
  /\ \E takes \in BOOLEAN, r \in {"result", "error"} :
       Effect(w, takes) /\ Reports(w, r)
  /\ Goto(w, "done")
  /\ UNCHANGED <<commit, op, business, final, audit, crossed>>

\* It takes the operations that finish a transaction like any other.
PlainFinisher(w) ==
  /\ pc[w] = "calling" /\ ~commit[w] /\ op[w] = "finisher"
  /\ \E takes \in BOOLEAN, r \in {"result", "error"} :
       /\ CommitRequest(w, Deferred /\ takes) \/ RollbackRequest(w, Deferred /\ takes)
       /\ Reports(w, r)
  /\ Goto(w, "done")
  /\ UNCHANGED <<commit, op, business, final, audit>>

\* The operation has replied: an empty stack counts as a failure.
BadAfterBusiness(stack) == IF stack = "failure" THEN "rollingBack" ELSE "committing"
AfterBusiness(stack) == IF stack = "ok" THEN "committing" ELSE "rollingBack"

BusinessReplies(w) ==
  /\ pc[w] = "calling" /\ commit[w]
  /\ \E stack \in Stacks, takes \in BOOLEAN :
       /\ Reply(stack, takes)
       /\ Effect(w, takes)
       /\ business' = [business EXCEPT ![w] = stack]
       /\ Goto(w, AfterBusiness(stack))
  /\ UNCHANGED <<commit, op, final, report, audit, crossed>>

\* The operation fails: its error is returned as it is, and nothing is rolled
\* back, though the operation may have taken effect.
BusinessFails(w) ==
  /\ pc[w] = "calling" /\ commit[w]
  /\ \E takes \in BOOLEAN : Effect(w, takes)
  /\ Reports(w, "error")
  /\ Goto(w, "auditing")
  /\ UNCHANGED <<commit, op, business, final, audit, crossed>>

\* The commit has replied: a failure on its stack leads to a rollback, a
\* reply without a stack passes for success.
CommitReplies(w) ==
  /\ pc[w] = "committing"
  /\ \E stack \in Stacks, takes \in BOOLEAN :
       /\ FinisherReply(stack, takes)
       /\ CommitRequest(w, takes)
       /\ final' = [final EXCEPT ![w] = stack]
       /\ IF stack = "failure"
          THEN Goto(w, "rollingBack") /\ UNCHANGED report
          ELSE Goto(w, "auditing") /\ Reports(w, "committed")
  /\ UNCHANGED <<commit, op, business, audit>>

CommitFails(w) ==
  /\ pc[w] = "committing"
  /\ \E takes \in BOOLEAN : CommitRequest(w, Deferred /\ takes)
  /\ Reports(w, "error")
  /\ Goto(w, "auditing")
  /\ UNCHANGED <<commit, op, business, final, audit>>

RollbackReplies(w) ==
  /\ pc[w] = "rollingBack"
  /\ \E stack \in Stacks, takes \in BOOLEAN :
       /\ FinisherReply(stack, takes)
       /\ RollbackRequest(w, takes)
       /\ final' = [final EXCEPT ![w] = stack]
       /\ Reports(w, IF stack = "failure" THEN "unfinished" ELSE "rolledBack")
  /\ Goto(w, "auditing")
  /\ UNCHANGED <<commit, op, business, audit>>

RollbackFails(w) ==
  /\ pc[w] = "rollingBack"
  /\ \E takes \in BOOLEAN : RollbackRequest(w, Deferred /\ takes)
  /\ final' = [final EXCEPT ![w] = "empty"]
  /\ Reports(w, "unfinished")
  /\ Goto(w, "auditing")
  /\ UNCHANGED <<commit, op, business, audit>>

\* Every end of the transactional path records one entry before it returns.
BadVerdict(r) == IF r \in {"committed", "rolledBack"} THEN "ok"
                 ELSE IF r = "denied" THEN "denied" ELSE "failed"
Verdict(r) == CASE r = "committed" -> "ok"
                [] r = "denied"    -> "denied"
                [] OTHER           -> "failed"

RecordAudit(w) ==
  /\ pc[w] = "auditing"
  /\ audit' = audit \cup {[call |-> w, outcome |-> Verdict(report[w])]}
  /\ Goto(w, "done")
  /\ UNCHANGED <<commit, op, business, final, report, luw, db, crossed>>

\* The process exits, or the task is dropped, at an await; a request it has
\* just sent may take effect all the same.
SentAnyway(w) ==
  \/ pc[w] = "calling" /\ Effect(w, TRUE) /\ UNCHANGED crossed
  \/ pc[w] = "committing" /\ CommitRequest(w, Deferred)
  \/ pc[w] = "rollingBack" /\ RollbackRequest(w, Deferred)

IsLost(w) ==
  /\ pc[w] \in InFlight
  /\ SentAnyway(w) \/ UNCHANGED <<luw, db, crossed>>
  /\ Goto(w, "lost")
  /\ UNCHANGED <<commit, op, business, final, report, audit>>

\* The ERP rolls back what a call that ended, or went away, left open.
ErpExpires(w) ==
  /\ pc[w] \in {"done", "lost"} /\ w \in luw
  /\ luw' = luw \ {w}
  /\ UNCHANGED <<pc, commit, op, business, final, report, audit, db, crossed>>

Next == \E w \in Calls :
  \/ Start(w) \/ GateRefuses(w) \/ GatePasses(w) \/ ClientRefuses(w)
  \/ PlainCall(w) \/ PlainFinisher(w)
  \/ BusinessReplies(w) \/ BusinessFails(w)
  \/ CommitReplies(w) \/ CommitFails(w) \/ RollbackReplies(w) \/ RollbackFails(w)
  \/ RecordAudit(w) \/ IsLost(w) \/ ErpExpires(w)

Spec == Init /\ [][Next]_vars

-----------------------------------------------------------------------------
(* Properties.                                                             *)

Phases == InFlight \cup {"idle", "done", "lost"}
ReportKinds == {"none", "result", "error", "denied", "committed", "rolledBack", "unfinished"}

\* Types of the variables.
TypeOK ==
  /\ pc \in [Calls -> Phases]
  /\ commit \in [Calls -> BOOLEAN]
  /\ op \in [Calls -> Ops]
  /\ business \in [Calls -> Stacks]
  /\ final \in [Calls -> Stacks]
  /\ report \in [Calls -> ReportKinds]
  /\ audit \subseteq [call : Calls, outcome : Audited]
  /\ luw \subseteq Calls /\ db \subseteq Calls /\ crossed \subseteq Calls

\* Calls that came to an end with no rollback of theirs confirmed by the ERP:
\* lost, failed, or told that the rollback's outcome is open.  They may leave
\* a change behind in the current transaction.
LeavesOpen(w) ==
  \/ pc[w] = "lost" \/ report[w] \in {"error", "unfinished"}
  \/ report[w] = "rolledBack" /\ final[w] = "empty"

\* "Never persist an unverified change" (transaction.rs:4), as far as it goes:
\* on an ERP that waits for the commit, the change of a transactional call is
\* persisted only if the operation's own reply carried a return stack without
\* a failure, be there timeouts, failed commits or a crash on the way, unless
\* another call finished the transaction between the operation and its own
\* commit or rollback, or the call ended without a rollback the ERP confirmed.
PersistedOnlyIfVerified ==
  Deferred => \A w \in db : commit[w] => \/ business[w] = "ok"
                                        \/ w \in crossed \/ LeavesOpen(w)

\* transaction.rs:4 to the letter.  The code violates it: a call whose
\* operation timed out returns without a rollback, one whose rollback failed
\* leaves its change open, and the next commit of any call persists both; so
\* does a commit that another call sends before the rollback.
NeverPersistsUnverified ==
  Deferred => \A w \in db : commit[w] => business[w] = "ok"

\* A report the ERP confirmed is true and stays true, if no other call finished
\* the transaction in between: committed means persisted, rolled back means
\* that neither LUW nor database ever holds the change again.  Denied means,
\* whatever the others do, that the ERP was never asked to change anything.
ConfirmedReportsAreTrue ==
  \A w \in Calls :
    /\ report[w] = "committed" /\ final[w] = "ok" /\ op[w] # "read" => w \in db \cup crossed
    /\ report[w] = "rolledBack" /\ final[w] = "ok" => w \notin db \cup luw \/ w \in crossed
    /\ report[w] = "denied" => w \notin db \cup luw

\* On a server without --enable-writes no call changes anything in the ERP,
\* whichever path it takes and whether or not the catalogue knows its operation.
ReadOnlyNeverWrites == (db \cup luw) \cap ReadOnly = {}

\* A transactional call that returned has an audit entry and no entry that
\* says anything but what the caller was told (tools.rs:794, "Every attempt
\* is audited"); none is written for a call still under way or lost.
AuditTellsTheOutcome ==
  /\ \A w \in Calls : (pc[w] = "done" /\ commit[w]) <=> \E e \in audit : e.call = w
  /\ \A e \in audit : /\ e.outcome = "ok" <=> report[e.call] = "committed"
                      /\ e.outcome = "denied" <=> report[e.call] = "denied"

\* transaction.rs:68: committed says whether the change is persisted.
CommittedMeansPersisted ==
  \A w \in Calls : report[w] \in {"rolledBack", "unfinished"} => w \notin db
=============================================================================
