SPECIFICATION Spec
CONSTANTS
  a = a
  b = b
  atask = atask
  aserver = aserver
  btask = btask
  c1 = c1
  c2 = c2
  TtTasks = {atask, btask}
  CbsTasks = {aserver}
  Workload <- SomeWorkload
  Cpus = {c1, c2}
  Tables <- SomeTables
  MaxPids = 3
  MaxTables = 2
  NoPid = NoPid
INVARIANTS
  SuccessIsComplete
  StopEvicts
  OnlyCurrentTable
CHECK_DEADLOCK FALSE
