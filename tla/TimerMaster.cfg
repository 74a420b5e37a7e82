SPECIFICATION FairSpec
CONSTANTS
  c1 = c1  c2 = c2  w1 = w1  w2 = w2
  Cpus = {c1, c2}
  Tables <- SomeTables
  NoEpoch = NoEpoch
  NoCpu = NoCpu
  NoStart = NoStart
  MaxVersions = 2
  MaxLate = 1
INVARIANTS
  OneTableAtATime
  JoinedAtExit
  InPhase
  NextStartWithinLateness
PROPERTIES
  NobodyStuck
CHECK_DEADLOCK FALSE
