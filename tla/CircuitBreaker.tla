---------------------------- MODULE CircuitBreaker ----------------------------
(***************************************************************************)
(* The circuit breaker and the retry loop of the ERP crate (crates/        *)
(* oracle-automate-erp/src/retry.rs): callers run an operation through     *)
(* CircuitBreaker::call, each inside retry_with_backoff.  The crate only   *)
(* exports the two (lib.rs:48), no client wires them yet; the composition  *)
(* is the one their signatures allow and docs/COMPARISON.md:216 lists.     *)
(*                                                                         *)
(* The breaker's lock is taken twice by a call, before the operation is    *)
(* run and after: between the two, other calls are admitted and their      *)
(* results recorded, so that a result may find the breaker in a state      *)
(* other than the one that admitted its call.                              *)
(*                                                                         *)
(* Operators named Bad... are mutants, plausible bugs of the definition    *)
(* that follows them, and no part of the specification.                    *)
(***************************************************************************)
EXTENDS Integers, FiniteSets

CONSTANTS
  Callers,
  Threshold,     \* failure_threshold
  OpenDuration,  \* open_duration, in ticks
  MaxAttempts,   \* max_attempts of the backoff policy
  MaxFailures    \* bound: the failure counter saturates here

ASSUME BreakerAssumption ==
  /\ Threshold \in Nat \ {0} /\ OpenDuration \in Nat \ {0} /\ MaxAttempts \in Nat
  /\ MaxFailures \in Nat /\ MaxFailures >= Threshold

VARIABLES
  state,      \* Closed, Open or HalfOpen
  failures,   \* consecutive transient failures recorded
  age,        \* ticks since opened_at, up to OpenDuration
  loop,       \* caller -> phase of its retry loop
  attempt,    \* caller -> attempts made
  result,     \* caller -> outcome of its last attempt
  overtaken,  \* caller -> has the breaker opened since its call was admitted?
  erpUp       \* does the ERP answer?

breakerVars == <<state, failures, age, loop, attempt, result, overtaken, erpUp>>

\* error.rs: an open circuit is itself a transient error.
Transient == {"transient", "circuitOpen"}
Results == Transient \cup {"none", "ok", "permanent"}

BreakerInit ==
  /\ state = "Closed" /\ failures = 0 /\ age = 0
  /\ loop = [c \in Callers |-> "idle"]
  /\ attempt = [c \in Callers |-> 0]
  /\ result = [c \in Callers |-> "none"]
  /\ overtaken = [c \in Callers |-> FALSE]
  /\ erpUp = TRUE

-----------------------------------------------------------------------------
(* retry_with_backoff.                                                     *)

Begins(c) ==
  /\ loop[c] = "idle"
  /\ loop' = [loop EXCEPT ![c] = "trying"]
  /\ attempt' = [attempt EXCEPT ![c] = 1]
  /\ UNCHANGED <<state, failures, age, result, overtaken, erpUp>>

\* Only a transient error is retried, and only within the budget; there is
\* always a first attempt.
Retries(c) == result[c] \in Transient /\ attempt[c] < MaxAttempts

BacksOff(c) ==
  /\ loop[c] = "judging" /\ Retries(c)
  /\ loop' = [loop EXCEPT ![c] = "sleeping"]
  /\ UNCHANGED <<state, failures, age, attempt, result, overtaken, erpUp>>

BadNextAttempt(c) == attempt[c]
NextAttempt(c) == attempt[c] + 1

WakesUp(c) ==
  /\ loop[c] = "sleeping"
  /\ loop' = [loop EXCEPT ![c] = "trying"]
  /\ attempt' = [attempt EXCEPT ![c] = NextAttempt(c)]
  /\ UNCHANGED <<state, failures, age, result, overtaken, erpUp>>

GivesBack(c) ==
  /\ loop[c] = "judging" /\ ~Retries(c)
  /\ loop' = [loop EXCEPT ![c] = "idle"]
  /\ UNCHANGED <<state, failures, age, attempt, result, overtaken, erpUp>>

-----------------------------------------------------------------------------
(* CircuitBreaker::call.                                                   *)

\* tick: an open breaker that has been open long enough becomes half open.
BadTicked == IF state = "Open" THEN "HalfOpen" ELSE state
StuckTicked == state
Ticked == IF state = "Open" /\ age >= OpenDuration THEN "HalfOpen" ELSE state

Admits == Ticked # "Open"

Admit(c) ==
  /\ loop[c] = "trying" /\ Admits
  /\ state' = Ticked
  /\ loop' = [loop EXCEPT ![c] = "running"]
  /\ overtaken' = [overtaken EXCEPT ![c] = FALSE]
  /\ UNCHANGED <<failures, age, attempt, result, erpUp>>

Reject(c) ==
  /\ loop[c] = "trying" /\ ~Admits
  /\ result' = [result EXCEPT ![c] = "circuitOpen"]
  /\ loop' = [loop EXCEPT ![c] = "judging"]
  /\ UNCHANGED <<state, failures, age, attempt, overtaken, erpUp>>

\* The operation ends; its result is recorded in a later step.
ErpAnswers(c) ==
  /\ loop[c] = "running"
  /\ \E r \in IF erpUp THEN {"ok", "permanent"} ELSE {"transient"} :
       result' = [result EXCEPT ![c] = r]
  /\ loop' = [loop EXCEPT ![c] = "recording"]
  /\ UNCHANGED <<state, failures, age, attempt, overtaken, erpUp>>

\* A success closes the breaker and a transient failure counts, whatever
\* state the breaker is in by now; reaching the threshold opens it anew.
Closes == state' = "Closed" /\ failures' = 0 /\ age' = 0 /\ UNCHANGED overtaken
Opens ==
  /\ state' = "Open" /\ age' = 0
  /\ overtaken' = [c \in Callers |-> TRUE]
Counts ==
  LET n == IF failures < MaxFailures THEN failures + 1 ELSE failures
  IN  /\ failures' = n
      /\ IF n >= Threshold THEN Opens ELSE UNCHANGED <<state, age, overtaken>>

Record(c) ==
  /\ loop[c] = "recording"
  /\ CASE result[c] = "ok"        -> Closes
       [] result[c] = "transient" -> Counts
       [] result[c] = "permanent" -> UNCHANGED <<state, failures, age, overtaken>>
  /\ loop' = [loop EXCEPT ![c] = "judging"]
  /\ UNCHANGED <<attempt, result, erpUp>>

\* state(), which a dashboard may call at any time, ticks too.
Observe ==
  /\ Ticked # state
  /\ state' = Ticked
  /\ UNCHANGED <<failures, age, loop, attempt, result, overtaken, erpUp>>

Tick ==
  /\ state = "Open" /\ age < OpenDuration
  /\ age' = age + 1
  /\ UNCHANGED <<state, failures, loop, attempt, result, overtaken, erpUp>>

ErpChanges ==
  /\ erpUp' = ~erpUp
  /\ UNCHANGED <<state, failures, age, loop, attempt, result, overtaken>>

CallerStep(c) ==
  \/ BacksOff(c) \/ WakesUp(c) \/ GivesBack(c)
  \/ Admit(c) \/ Reject(c) \/ ErpAnswers(c) \/ Record(c)

BreakerNext ==
  \/ \E c \in Callers : Begins(c) \/ CallerStep(c)
  \/ Observe \/ Tick \/ ErpChanges

BreakerSpec == BreakerInit /\ [][BreakerNext]_breakerVars

(***************************************************************************)
(* Fairness: a caller's future is polled, an admitted operation ends (the  *)
(* ERP client has a timeout), sleeps end and the clock runs.               *)
(***************************************************************************)
BreakerFairSpec ==
  /\ BreakerSpec
  /\ WF_breakerVars(Tick)
  /\ \A c \in Callers : WF_breakerVars(CallerStep(c))

-----------------------------------------------------------------------------
(* Properties.                                                             *)

\* Types of the variables, with the bounds the counters keep.
BreakerTypeOK ==
  /\ state \in {"Closed", "Open", "HalfOpen"}
  /\ failures \in 0..MaxFailures
  /\ age \in 0..OpenDuration
  /\ loop \in [Callers -> {"idle", "trying", "running", "recording", "judging", "sleeping"}]
  /\ attempt \in [Callers -> 0..(MaxAttempts + 1)]
  /\ result \in [Callers -> Results]
  /\ overtaken \in [Callers -> BOOLEAN]
  /\ erpUp \in BOOLEAN

\* The breaker is closed exactly while the counter is below the threshold,
\* although results of calls admitted in other states keep arriving.
ClosedIffBelowThreshold == state = "Closed" <=> failures < Threshold

\* While the breaker is open it admits nobody: every operation still running
\* was admitted before the breaker (last) opened.
OpenAdmitsNobody ==
  state = "Open" => \A c \in Callers : loop[c] \in {"running", "recording"} => overtaken[c]

\* The breaker becomes half open only when its time is up, and leaves Open
\* earlier only on a success.
OpenLastsItsTime ==
  [][state = "Open" /\ state' # "Open" =>
       age >= OpenDuration \/ \E c \in Callers : loop[c] = "recording" /\ result[c] = "ok"]_breakerVars

\* A retry loop makes at least one attempt and at most max_attempts, and never
\* goes on after a success or a permanent error.
RetriesAreBounded ==
  \A c \in Callers :
    /\ attempt[c] <= IF MaxAttempts = 0 THEN 1 ELSE MaxAttempts
    /\ loop[c] = "sleeping" => result[c] \in Transient

\* Every retry loop ends, whatever the ERP and the breaker do.
EveryCallEnds == \A c \in Callers : (loop[c] = "trying") ~> (loop[c] = "idle")

\* Once the ERP answers for good, the breaker closes and stays closed: late
\* results of earlier failures cannot hold it open.  Callers must keep coming,
\* and an ERP that answers must not answer with permanent errors for ever.
CallersKeepComing == \A c \in Callers : WF_breakerVars(Begins(c))
SomeCallsSucceed == \A c \in Callers : SF_breakerVars(ErpAnswers(c) /\ result'[c] = "ok")
BreakerRecovers ==
  CallersKeepComing /\ SomeCallsSucceed /\ <>[]erpUp => <>[](state = "Closed")
=============================================================================
