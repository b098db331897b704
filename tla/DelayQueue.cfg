\* Two processes, three workers; m2 has no handler; two crashes, cancellations or
\* failed database calls anywhere.
CONSTANTS
  m1 = m1  m2 = m2
  p1 = p1  p2 = p2
  w1 = w1  w2 = w2  w3 = w3
  None = None
  Msgs = {m1, m2}
  Handled = {m1}
  Procs = {p1, p2}
  Workers = {w1, w2, w3}
  Home <- TwoProcs
  Delays = {0, 1}
  MaxRetry = 2
  MaxLag = 1
  MaxFaults = 2
SPECIFICATION FairSpec
INVARIANTS SingleOwner CopyIsCurrent FailedOnlyExhausted
PROPERTIES OutcomeIsFinal NeverEarly SettledOrStranded ImplementsJobQueue

