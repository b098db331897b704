\* Two nodes, one of which loses its lease while it leads; nothing is stopped.
CONSTANTS
  Members = {n1, n2}
  MaxLosses = 1
  Stopped = {}
SPECIFICATION EtcdSpec
PROPERTIES TakesPartAgain
CHECK_DEADLOCK FALSE
