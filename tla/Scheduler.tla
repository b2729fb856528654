------------------------------ MODULE Scheduler ------------------------------
(***************************************************************************)
(* The scheduler's cadence arithmetic and the firing of its jobs           *)
(* (crates/oracle-automate-scheduler/src/lib.rs).                          *)
(*                                                                         *)
(* NextIn is Schedule::next_in, in seconds.  The library computes times    *)
(* and fires jobs; the loop that sleeps for NextIn and then fires is the   *)
(* deployment's (lib.rs:222) and external here: one loop per job, each     *)
(* computing its next time when its last firing is over.                   *)
(*                                                                         *)
(* Operators named Bad... are mutants, plausible bugs of the definition    *)
(* that follows them, and no part of the specification.                    *)
(***************************************************************************)
EXTENDS Integers, FiniteSets

CONSTANTS
  Jobs,
  Schedules,    \* the schedules a job may have: records, see ScheduleType
  Starts,       \* seconds since the epoch at which the scheduler may start
  Lags,         \* seconds a tool invocation may take
  MaxFires      \* bound: firings of a job

ScheduleType ==
  [kind : {"everyNSeconds"}, secs : Nat]
  \cup [kind : {"everyNMinutes"}, mins : Nat]
  \cup [kind : {"hourly"}, minute : Nat]
  \cup [kind : {"daily"}, hour : Nat, minute : Nat]
  \cup [kind : {"weekly"}, weekday : Nat, hour : Nat, minute : Nat]
  \cup [kind : {"quarterly"}, day : Nat, hour : Nat, minute : Nat]

ASSUME SchedulerAssumption ==
  /\ Schedules \subseteq ScheduleType
  /\ Starts \subseteq Nat /\ Lags \subseteq Nat /\ MaxFires \in Nat

VARIABLES
  now,          \* seconds since the epoch
  schedule,     \* job -> its schedule
  enabled,      \* job -> is it enabled?
  since,        \* job -> when its next firing was computed
  due,          \* job -> when it fires next
  phase,        \* job -> what its loop is doing
  outcome,      \* job -> what the tool returned
  fired,        \* job -> reports it has returned
  stats         \* the scheduler's counters and the job it reported last

schedulerVars == <<now, schedule, enabled, since, due, phase, outcome, fired, stats>>

-----------------------------------------------------------------------------
(* next_in.  Subtractions saturate at zero, as in the code.                *)

Day == 24 * 3600   \* seconds in a day

Minus(a, b) == IF a > b THEN a - b ELSE 0
Clamp(x, lo, hi) == IF x < lo THEN lo ELSE IF x > hi THEN hi ELSE x

\* The distance from x to the next y on a circle of n, n when they meet.
BadAhead(x, y, n) == IF x <= y THEN y - x ELSE n - (x - y)
Ahead(x, y, n) == IF x < y THEN y - x ELSE n - (x - y)

HourlyIn(minute, t) == Ahead((t \div 60) % 60, Clamp(minute, 0, 59), 60) * 60

TimeOfDay(hour, minute) == (hour * 3600 + minute * 60) % Day
DailyIn(hour, minute, t) == Ahead(t % Day, TimeOfDay(hour, minute), Day)

\* 1 is Monday; the epoch was a Thursday.
Weekday(t) == (((t \div Day) + 3) % 7) + 1
DayOffset(today, target) == IF today <= target THEN target - today ELSE 7 - (today - target)
WeeklyIn(weekday, hour, minute, t) ==
  LET target == TimeOfDay(hour, minute)
      ahead  == DayOffset(Weekday(t), Clamp(weekday, 1, 7))
      days   == IF ahead = 0 /\ t % Day >= target THEN 7 ELSE ahead
  IN  days * Day + Minus(target, t % Day)

NextIn(s, t) ==
  CASE s.kind = "everyNSeconds" -> s.secs
    [] s.kind = "everyNMinutes" -> s.mins * 60
    [] s.kind = "hourly"        -> HourlyIn(s.minute, t)
    [] s.kind = "daily"         -> DailyIn(s.hour, s.minute, t)
    [] s.kind = "weekly"        -> WeeklyIn(s.weekday, s.hour, s.minute, t)
    [] s.kind = "quarterly"     -> 90 * Day

-----------------------------------------------------------------------------
(* Firing.                                                                 *)

SchedulerInit ==
  /\ now \in Starts
  /\ schedule \in [Jobs -> Schedules]
  /\ enabled \in [Jobs -> BOOLEAN]
  /\ since = [j \in Jobs |-> now]
  /\ due = [j \in Jobs |-> now + NextIn(schedule[j], now)]
  /\ phase = [j \in Jobs |-> "sleeping"]
  /\ outcome = [j \in Jobs |-> "none"]
  /\ fired = [j \in Jobs |-> 0]
  /\ stats = [fires |-> 0, errors |-> 0, last |-> {}]

\* Loops that have nothing more to do within the bound.
Retired == {j \in Jobs : (phase[j] = "over" /\ ~enabled[j]) \/ fired[j] = MaxFires}

\* When every loop sleeps, time passes up to the next firing.
Sleep ==
  /\ \A j \in Jobs \ Retired : phase[j] = "sleeping" /\ now < due[j]
  /\ \E j \in Jobs \ Retired :
       /\ \A k \in Jobs \ Retired : due[j] <= due[k]
       /\ now' = due[j]
  /\ UNCHANGED <<schedule, enabled, since, due, phase, outcome, fired, stats>>

\* fire_once returns None for a disabled job; its loop is left at that.
Skip(j) ==
  /\ phase[j] = "sleeping" /\ now >= due[j] /\ ~enabled[j]
  /\ phase' = [phase EXCEPT ![j] = "over"]
  /\ UNCHANGED <<now, schedule, enabled, since, due, outcome, fired, stats>>

Fire(j) ==
  /\ phase[j] = "sleeping" /\ now >= due[j] /\ enabled[j]
  /\ fired[j] < MaxFires
  /\ phase' = [phase EXCEPT ![j] = "invoking"]
  /\ UNCHANGED <<now, schedule, enabled, since, due, outcome, fired, stats>>

\* The executor calls the tool, which takes its time and may fail.
Invoked(j) ==
  /\ phase[j] = "invoking"
  /\ \E lag \in Lags : now' = now + lag
  /\ \E r \in {"ok", "error"} : outcome' = [outcome EXCEPT ![j] = r]
  /\ phase' = [phase EXCEPT ![j] = "recording"]
  /\ UNCHANGED <<schedule, enabled, since, due, fired, stats>>

Tally(j) ==
  [fires |-> stats.fires + 1,
   errors |-> stats.errors + (IF outcome[j] = "error" THEN 1 ELSE 0),
   last |-> {[job |-> j, ok |-> outcome[j] = "ok"]}]

\* The counters are updated under their lock and the report is returned.
Record(j) ==
  /\ phase[j] = "recording"
  /\ stats' = Tally(j)
  /\ fired' = [fired EXCEPT ![j] = @ + 1]
  /\ phase' = [phase EXCEPT ![j] = "over"]
  /\ UNCHANGED <<now, schedule, enabled, since, due, outcome>>

Reschedule(j) ==
  /\ phase[j] = "over" /\ enabled[j]
  /\ since' = [since EXCEPT ![j] = now]
  /\ due' = [due EXCEPT ![j] = now + NextIn(schedule[j], now)]
  /\ phase' = [phase EXCEPT ![j] = "sleeping"]
  /\ UNCHANGED <<now, schedule, enabled, outcome, fired, stats>>

SchedulerNext == Sleep \/ \E j \in Jobs :
  Skip(j) \/ Fire(j) \/ Invoked(j) \/ Record(j) \/ Reschedule(j)

SchedulerSpec == SchedulerInit /\ [][SchedulerNext]_schedulerVars

-----------------------------------------------------------------------------
(* Properties.                                                             *)

\* Types of the variables; no due time lies before its computation.
TypeOK ==
  /\ now \in Nat
  /\ schedule \in [Jobs -> Schedules] /\ enabled \in [Jobs -> BOOLEAN]
  /\ since \in [Jobs -> Nat] /\ due \in [Jobs -> Nat]
  /\ \A j \in Jobs : due[j] >= since[j]
  /\ phase \in [Jobs -> {"sleeping", "invoking", "recording", "over"}]
  /\ outcome \in [Jobs -> {"none", "ok", "error"}]
  /\ fired \in [Jobs -> 0..MaxFires]
  /\ stats \in [fires : Nat, errors : Nat, last : SUBSET [job : Jobs, ok : BOOLEAN]]

\* An hourly or daily job is due at its minute or time of day, at the first
\* one after the computation, and a weekly job on its weekday within seven
\* days: no job fires twice for one slot and none skips a slot.
HourlyOnSlot(minute, t, d) ==
  (d \div 60) % 60 = Clamp(minute, 0, 59) /\ d - t \in 1..3600
DailyOnSlot(hour, minute, t, d) ==
  d % Day = TimeOfDay(hour, minute) /\ d - t \in 1..Day
WeeklyOnSlot(weekday, t, d) ==
  Weekday(d) = Clamp(weekday, 1, 7) /\ d - t \in 1..(7 * Day)
DueOnSlot(s, t, d) ==
  /\ s.kind = "hourly" => HourlyOnSlot(s.minute, t, d)
  /\ s.kind = "daily"  => DailyOnSlot(s.hour, s.minute, t, d)
  /\ s.kind = "weekly" => WeeklyOnSlot(s.weekday, t, d)
JobsAreDueOnTheirSlot == \A j \in Jobs : DueOnSlot(schedule[j], since[j], due[j])

\* lib.rs:54: "Weekly on a given weekday (1=Mon..7=Sun) at HH:MM".
WeeklyAtItsTime ==
  \A j \in Jobs : schedule[j].kind = "weekly" =>
    due[j] % Day = TimeOfDay(schedule[j].hour, schedule[j].minute)
=============================================================================
