SPECIFICATION FairSpec
CONSTANTS
  TtTasks = {tt, t2}
  CbsTasks = {b1}
  Cpus = {c1, c2}
  Isolated = {c1, c2}
  Budget = 2
  Period = 3
  SCX_SLICE_DFL = 1
  PROMOTE_BUDGET = 1
  MaxWrites = 1
  None = None
INVARIANTS
  NoUndercount
  GapIsFree
  BudgetRespected
PROPERTIES
  TtWins
  CbsServed
CHECK_DEADLOCK FALSE
