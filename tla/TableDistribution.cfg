SPECIFICATION Spec
CONSTANTS
  n1 = n1  n2 = n2  w1 = w1  w2 = w2  a = a  b = b
  Nodes = {n1}
  Workloads = {w1, w2}
  TaskSets = {a, b}
  NoTasks = NoTasks
  NoTable = NoTable
  Infeasible <- TightNode
  Stoppable = {w1}
  Reconnect = "any"
  MaxRequests = 3
  MaxStreams = 2
INVARIANTS
  RegisteredHandlerRuns
  SyncedCoversService
  ChangeHasTables
PROPERTY
  NodesFollowTheLog
