----------------------------- MODULE MCScheduler -----------------------------
\* Finite instances of Scheduler for TLC.  The schedules and starting times
\* are at the edges of next_in: before, at and after the slot, the last
\* second of a minute, a day and a week, and arguments beyond their range.
EXTENDS Scheduler, TLC

MCSchedules ==
  [kind : {"hourly"}, minute : {0, 15, 75}]
  \cup [kind : {"daily"}, hour : {0, 8, 25}, minute : {0}]
  \cup [kind : {"weekly"}, weekday : {1, 4, 8}, hour : {8}, minute : {0}]
  \cup {[kind |-> "everyNSeconds", secs |-> 30], [kind |-> "everyNMinutes", mins |-> 5],
        [kind |-> "quarterly", day |-> 1, hour |-> 9, minute |-> 0]}

\* Seconds around a time of day, on a Thursday, a Sunday and a Monday.
Around(day, hour) == {day * Day + hour * 3600 + d : d \in {-1, 0, 899, 900}}
MCStarts == UNION {Around(day, hour) : day \in {3, 4, 7}, hour \in {1, 8, 24}}
MCLags == {0, 61}

Symmetry == Permutations(Jobs)
=============================================================================
