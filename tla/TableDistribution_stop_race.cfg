SPECIFICATION FairSpec
CONSTANTS
  n1 = n1  n2 = n2  w1 = w1  w2 = w2  a = a  b = b
  Nodes = {n1}
  Workloads = {w1}
  TaskSets = {a}
  NoTasks = NoTasks
  NoTable = NoTable
  Infeasible <- EverythingFits
  Stoppable = {w1}
  Reconnect = "seen"
  MaxRequests = 2
  MaxStreams = 1
PROPERTIES
  RemovedIsEvicted
