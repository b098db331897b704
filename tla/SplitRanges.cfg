\* Integers of five bits, every min <= max < 15, up to five channels; a wheel of two
\* slots, three tasks, one client, one worker that calls the wheel as well; three
\* connections; two callers of a bucket of two tokens; four nodes and edges.
CONSTANTS
  MaxInt = 15
  MaxChannels = 5
  NumSlots = 2
  Ids = {1}
  Clients = {client}
  Workers = {worker}
  ChanCap = 1
  MaxAdds = 3
  Horizon = 4
  MaxLate = 1
  MaxConns = 3
  Metadata <- Weights
  MaxPicks = 9
  Callers = {c1, c2}
  Capacity = 4
  Unit = 2
  Second = 2
  MaxTime = 7
  MaxDelay = 2
  Nodes = {a, b, c, d}
  MaxEdges = 4
  None = None
SPECIFICATION UtilSpec
INVARIANTS PartitionBelowMax FairShares CancellableUnlessOverlapped WheelMoves PicksFollowWeights WithinBudget GraphStaysDag
PROPERTIES OnTimeUnlessRaced
CHECK_DEADLOCK FALSE
