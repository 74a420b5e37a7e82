SPECIFICATION Spec
CONSTANTS
  Pool <- SomeTasks
  MaxTasks = 2
  available_cpus = {2, 3}
  Scale = 2400  U_BOUND = 1920  U_OVERHEAD = 48
  DEFAULT_HYPERPERIOD = 10
  U32 = 16
INVARIANTS
  EveryPeriodServed
CHECK_DEADLOCK FALSE
