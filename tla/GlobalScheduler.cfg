SPECIFICATION Spec
CONSTANTS
  Pool <- SomeTasks
  MaxTasks = 4
  available_cpus = {2, 3}
  Scale = 2400  U_BOUND = 1920  U_OVERHEAD = 48
  DEFAULT_HYPERPERIOD = 10
  U32 = 16
INVARIANTS
  FindsEarliest
  FramesServed
  GapsAreTheRest
  AdmissionIsSound
  HyperperiodIsLeast
CHECK_DEADLOCK FALSE
