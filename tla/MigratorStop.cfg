\* A Stop before execute has installed cancel.
CONSTANTS
  a = a  b = b
  Rows = {1, 2, 3}
  Chans = {a}
  Part <- OneRange
  Batch = 2
  Stops = {s}
  MaxRuns = 1
  MaxFaults = 0
SPECIFICATION Spec
INVARIANTS StopCancels
CHECK_DEADLOCK FALSE
