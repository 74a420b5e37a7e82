SPECIFICATION Spec
CONSTANTS
  None = None
  Pool <- SomeTasks
  MaxTasks = 4
  Nodes = {1, 2}
  available_cpus <- CpusOf
  max_memory <- MemoryOf
  Scale = 1200  CPU_UTILIZATION_THRESHOLD = 1080
  HYPERPERIOD_LIMIT = 25  U64 = 50
INVARIANTS
  ResultIsFeasible
  PlacedAsPromised
  HyperperiodOrError
CHECK_DEADLOCK FALSE
