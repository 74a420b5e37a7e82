-------------------------- MODULE TableReplication --------------------------
(***************************************************************************)
(* What schedule distribution promises, seen from outside: the service     *)
(* publishes a log of versions of the tables, and every node moves along   *)
(* that log at its own pace.  A node may skip versions, never goes back,   *)
(* and runs exactly what its version asks of it, less the workloads it was *)
(* told to stop since.  A restarted node is back at the empty version.     *)
(***************************************************************************)
EXTENDS Naturals, Sequences

CONSTANTS Nodes, Workloads, TaskSets, NoTasks

VARIABLES
  log,       \* log[v][n] : what version v asks of node n
  applied,   \* version each node follows
  running    \* what each node runs

Tables == [Workloads -> TaskSets \cup {NoTasks}]
Nothing == [w \in Workloads |-> NoTasks]

Init ==
  /\ log = <<[n \in Nodes |-> Nothing]>>
  /\ applied = [n \in Nodes |-> 1]
  /\ running = [n \in Nodes |-> Nothing]

Publish ==
  /\ \E version \in [Nodes -> Tables] : log' = Append(log, version)
  /\ UNCHANGED <<applied, running>>

Apply(n) ==
  /\ \E v \in applied[n]..Len(log) :
       /\ applied' = [applied EXCEPT ![n] = v]
       /\ running' = [running EXCEPT ![n] = log[v][n]]
  /\ UNCHANGED log

Evict(n, w) ==
  /\ running' = [running EXCEPT ![n][w] = NoTasks]
  /\ UNCHANGED <<log, applied>>

Reset(n) ==
  /\ applied' = [applied EXCEPT ![n] = 1]
  /\ running' = [running EXCEPT ![n] = Nothing]
  /\ UNCHANGED log

Next ==
  \/ Publish
  \/ \E n \in Nodes : Apply(n) \/ Reset(n)
  \/ \E n \in Nodes, w \in Workloads : Evict(n, w)

Spec == Init /\ [][Next]_<<log, applied, running>>
=============================================================================
