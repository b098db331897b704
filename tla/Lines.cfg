\* Two overlapping requests, three nodes, three line ids.
CONSTANTS
  Nodes = {a, b, c}
  Ids = {i, j, k}
  Savers = {s, t}
  NoLine = NoLine
SPECIFICATION Spec
INVARIANTS AcyclicUnlessStale OnePerPair
PROPERTIES SavedIsShown
SYMMETRY Symm
CHECK_DEADLOCK FALSE
