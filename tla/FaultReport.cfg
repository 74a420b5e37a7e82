SPECIFICATION FairSpec
CONSTANTS
  t1 = t1  t2 = t2  w1 = w1
  Tasks = {t1, t2}
  Workload <- OneWorkload
  Tables <- SomeLimited
  kMaxRetryQueue = 2
  MaxFaults = 3
  MaxTables = 2
  MaxBreaks = 1
INVARIANTS
  OneReportPerCycle
  RepeatsNeedLostReplies
PROPERTIES
  ClientIsChannel
  FlushedByNextFault
CHECK_DEADLOCK FALSE
