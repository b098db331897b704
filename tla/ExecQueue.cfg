\* A SQL run and a shell run, submissions that race, two faults and a crash.
CONSTANTS
  NoRun = NoRun
  Runs = {r1, r2}
  ShellRuns = {r2}
  Reqs = {q1, q2}
  Cap = 1
  MaxSubmits = 3
  MaxFaults = 2
  MaxCrashes = 1
SPECIFICATION FairSpec
INVARIANTS PendingIsAwaited RunningIsExecuting ExecutedOnce
PROPERTIES FinishedIsFinal RowFinishes
CHECK_DEADLOCK FALSE
