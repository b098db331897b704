\* One request at a time: a deleted line still refuses others.
CONSTANTS
  Nodes = {a, b}
  Ids = {i, j}
  Savers = {s}
  NoLine = NoLine
SPECIFICATION Spec
PROPERTIES RefusedOnlyCycles
CHECK_DEADLOCK FALSE
