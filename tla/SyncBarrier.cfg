SPECIFICATION FairSpec
CONSTANTS
  n1 = n1
  n2 = n2
  Nodes = {n1, n2}
  MaxWorkloads = 3
  MaxCalls = 2
  Timeouts = TRUE
  Drops = TRUE
INVARIANTS
  StartNeedsAllNodes
  OneWorkloadPerStart
  SameStart
PROPERTY
  AnsweredWhenDecided
CHECK_DEADLOCK FALSE
