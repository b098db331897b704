\* Two ranges, two tasks of one run_id, one Stop, one fault, and every task ends;
\* three nodes of etcd, two faults, one scheduler that is stopped; every graph over
\* three nodes, every graph of at most four edges but loops over four, cyclic ones
\* included, and every question.
CONSTANTS
  a = a  b = b
  Rows = {1, 2, 3}
  Chans = {a, b}
  Part <- TwoEven
  Batch = 2
  Stops = {s}
  MaxRuns = 2
  MaxFaults = 1
  Members = {n1, n2, n3}
  MaxLosses = 2
  Stopped = {n1}
  v1 = v1  v2 = v2  v3 = v3  v4 = v4
  Nodes = {v1, v2, v3, v4}
  Graphs <- SmallGraphs
  NoNode = NoNode
SPECIFICATION ServicesSpec
INVARIANTS SuccessIsComplete CountsHonest OnlyCurrentLive LeadersExclusive LockExclusive AnswerCorrect
PROPERTIES EndIsFinal EveryTaskEnds StopReturns NotLeaderless Terminates
CHECK_DEADLOCK FALSE
