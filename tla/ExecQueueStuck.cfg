\* No restart, one failing call: an accepted run never ends.
CONSTANTS
  NoRun = NoRun
  Runs = {r1}
  ShellRuns = {}
  Reqs = {q1}
  Cap = 1
  MaxSubmits = 1
  MaxFaults = 1
  MaxCrashes = 0
SPECIFICATION FairSpec
PROPERTIES AcceptedFinishes
CHECK_DEADLOCK FALSE
