SPECIFICATION SchedulerSpec
CONSTANTS
  Jobs = {j1, j2}
  Schedules <- MCSchedules
  Starts <- MCStarts
  Lags <- MCLags
  MaxFires = 2
SYMMETRY Symmetry
\* The bound on the firings stops the loops.
CHECK_DEADLOCK FALSE
INVARIANT JobsAreDueOnTheirSlot
