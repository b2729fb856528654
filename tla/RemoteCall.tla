------------------------------ MODULE RemoteCall ------------------------------
(***************************************************************************)
(* What an MCP session promises to a caller, whatever lies between: the    *)
(* server executes a call at most once, and a caller is given a result     *)
(* only for a call the server has executed.  A caller told that the        *)
(* transport closed knows nothing about its call: it may have been         *)
(* executed before, or may still be afterwards.                            *)
(***************************************************************************)
CONSTANT Callers

VARIABLES
  outcome,    \* caller -> what its call() has come to
  executed    \* callers whose request the server has taken up

vars == <<outcome, executed>>

Init ==
  /\ outcome = [c \in Callers |-> "idle"]
  /\ executed = {}

Call(c) ==
  /\ outcome[c] = "idle"
  /\ outcome' = [outcome EXCEPT ![c] = "called"]
  /\ UNCHANGED executed

Execute(c) ==
  /\ outcome[c] \in {"called", "failed"}
  /\ c \notin executed
  /\ executed' = executed \cup {c}
  /\ UNCHANGED outcome

Return(c) ==
  /\ outcome[c] = "called"
  /\ c \in executed
  /\ outcome' = [outcome EXCEPT ![c] = "ok"]
  /\ UNCHANGED executed

Fail(c) ==
  /\ outcome[c] = "called"
  /\ outcome' = [outcome EXCEPT ![c] = "failed"]
  /\ UNCHANGED executed

Next == \E c \in Callers : Call(c) \/ Execute(c) \/ Return(c) \/ Fail(c)

Spec == Init /\ [][Next]_vars
=============================================================================
