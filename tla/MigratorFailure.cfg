\* One range fails, the other goes on.
CONSTANTS
  a = a  b = b
  Rows = {1, 2, 3, 4}
  Chans = {a, b}
  Part <- TwoRanges
  Batch = 2
  Stops = {s}
  MaxRuns = 1
  MaxFaults = 1
SPECIFICATION FairSpec
PROPERTIES FailureCancelsAll
CHECK_DEADLOCK FALSE
