-------------------------- MODULE TableDistribution --------------------------
(***************************************************************************)
(* How Timpani-O keeps its nodes on the current schedule.                  *)
(*                                                                         *)
(*   SchedInfoServiceImpl   workload_tasks_, schedule_tables_ and the      *)
(*                          schedule_changed_ flag                         *)
(*   RecoveryServiceImpl    RECOVERY_STOP: remove, then broadcast          *)
(*   OrchestratorService    NodeStream handlers and the registry           *)
(*                          connected_nodes_                               *)
(*   main()                 the 500 ms replay loop and its bookkeeping     *)
(*   NodeClient (node)      the stream thread: connect, read, reconnect    *)
(*                                                                         *)
(* Each of these is a thread of its own; a step below is what one of them  *)
(* does while it holds its lock or touches only its own variables.         *)
(*                                                                         *)
(* A schedule table is abstracted to the task set it holds for every       *)
(* workload: the scheduler is a function of those sets (its epoch, which   *)
(* the replay loop zeroes before it compares tables, is left out), and the *)
(* sets of a node that cannot be scheduled are the constant Infeasible.    *)
(***************************************************************************)
EXTENDS Naturals, Sequences

CONSTANTS
  Nodes,          \* nodes of the configuration
  Workloads,      \* workload ids
  TaskSets,       \* the different task lists a workload may be sent with
  NoTasks,        \* "the workload has no task here"
  NoTable,        \* "no table": a node absent from a map of tables
  Infeasible,     \* pairs <<node, table>> generate_schedule() rejects
  Stoppable,      \* workloads Pullpiri may send RECOVERY_STOP for
  Reconnect,      \* how early a node may come back, see MayReconnect
  MaxRequests,    \* bound: AddSchedInfo and EnforceRecoveryPolicy calls
  MaxStreams      \* bound: NodeStream calls a node makes

Table == [Workloads -> TaskSets \cup {NoTasks}]
EmptyTable == [w \in Workloads |-> NoTasks]
Entry == [target_nodes : (SUBSET Nodes) \ {{}}, tasks : TaskSets]
Absent == [target_nodes |-> {}, tasks |-> NoTasks]
Streams == 1..MaxStreams
NoStream == 0

ASSUME ConstantsAssumption ==
  /\ NoTasks \notin TaskSets
  /\ NoTable \notin Table
  /\ Infeasible \subseteq Nodes \X (Table \ {EmptyTable})
  /\ Stoppable \subseteq Workloads
  /\ Reconnect \in {"seen", "closed", "any"}
  /\ MaxRequests \in Nat
  /\ MaxStreams \in Nat

VARIABLES
  \* --- SchedInfoServiceImpl, under schedule_mutex_
  workload_tasks, schedule_tables, schedule_changed,
  log,               \* history: the tables after every request served so far
  \* --- RecoveryServiceImpl
  stopping,          \* workloads removed whose STOP is not broadcast yet
  \* --- OrchestratorServiceImpl
  connected_nodes,   \* registry: the stream a node is reached by
  handler,           \* state of the NodeStream handler of every stream
  \* --- main(): the replay loop
  pc, sched_tables, sched_version, changed, todo, target,
  replay_pending, known_connected_nodes, synced_nodes, next_retry_time,
  last_pushed_tables,
  \* --- the nodes and the network
  stream,            \* number of NodeStream calls the node made so far
  up,                \* is the last of them still open on the node's side
  wire,              \* commands under way on it, oldest first
  running,           \* the task sets the node runs
  applied            \* history: version of the last table it applied

serviceVars == <<workload_tasks, schedule_tables, schedule_changed, log>>
registryVars == <<connected_nodes, handler>>
loopVars == <<pc, sched_tables, sched_version, changed, todo, target,
              replay_pending, known_connected_nodes, synced_nodes,
              next_retry_time, last_pushed_tables>>
nodeVars == <<stream, up, wire, running, applied>>
vars == <<serviceVars, stopping, registryVars, loopVars, nodeVars>>

TableCmd(t, v) == [kind |-> "full_table", table |-> t, version |-> v]
StopCmd(w) == [kind |-> "recovery", workload |-> w]

\* What a map of tables asks of every node; a node without a table is to run
\* nothing.
Contents(tables) ==
  [n \in Nodes |-> IF tables[n] = NoTable THEN EmptyTable ELSE tables[n]]

\* A stream carries commands while the node's end of it is open.
Live(n, k) == up[n] /\ k = stream[n]

Init ==
  /\ workload_tasks = [w \in Workloads |-> Absent]
  /\ schedule_tables = [n \in Nodes |-> NoTable]
  /\ schedule_changed = FALSE
  /\ log = <<[n \in Nodes |-> EmptyTable]>>
  /\ stopping = {}
  /\ connected_nodes = [n \in Nodes |-> NoStream]
  /\ handler = [n \in Nodes |-> [k \in Streams |-> "idle"]]
  /\ pc = "sleep"
  /\ sched_tables = [n \in Nodes |-> NoTable]
  /\ sched_version = 1
  /\ changed = FALSE
  /\ todo = {}
  /\ target = <<>>
  /\ replay_pending = FALSE
  /\ known_connected_nodes = {}
  /\ synced_nodes = {}
  /\ next_retry_time = {}
  /\ last_pushed_tables = [n \in Nodes |-> NoTable]
  /\ stream = [n \in Nodes |-> 0]
  /\ up = [n \in Nodes |-> FALSE]
  /\ wire = [n \in Nodes |-> <<>>]
  /\ running = [n \in Nodes |-> EmptyTable]
  /\ applied = [n \in Nodes |-> 1]

-----------------------------------------------------------------------------
(* SchedInfoServiceImpl *)

\* What generate_schedule() is asked for: every target node of a workload
\* gets all of the workload's tasks.
TableOf(wt, n) ==
  [w \in Workloads |-> IF n \in wt[w].target_nodes THEN wt[w].tasks ELSE NoTasks]

\* Seeded fault: nodes scheduled before are not visited again.
ScheduledNodesTargetsOnly(wt) ==
  {n \in Nodes : \E w \in Workloads : n \in wt[w].target_nodes}

\* The nodes RegenerateAllSchedules() visits: the targets, and the nodes that
\* have a table already (they get an empty one when nothing is left for them).
ScheduledNodes(wt) ==
  {n \in Nodes : schedule_tables[n] # NoTable
                 \/ \E w \in Workloads : n \in wt[w].target_nodes}

Schedulable(wt) ==
  \A n \in ScheduledNodes(wt) : <<n, TableOf(wt, n)>> \notin Infeasible

\* schedule_tables_ after RegenerateAllSchedules(): all nodes or none.
RegenerateAllSchedules(wt) ==
  IF Schedulable(wt)
  THEN [n \in Nodes |-> IF n \in ScheduledNodes(wt) THEN TableOf(wt, n) ELSE NoTable]
  ELSE schedule_tables

AddSchedInfo(w, entry) ==
  LET added  == [workload_tasks EXCEPT ![w] = entry]
      rolled == [workload_tasks EXCEPT ![w] = Absent]
  IN /\ Len(log) <= MaxRequests
     /\ \/ /\ Schedulable(added)
           /\ workload_tasks' = added
           /\ schedule_tables' = RegenerateAllSchedules(added)
           /\ schedule_changed' = TRUE
        \/ /\ ~Schedulable(added)
           /\ workload_tasks' = rolled
           /\ schedule_tables' = RegenerateAllSchedules(rolled)
           /\ UNCHANGED schedule_changed
     /\ log' = Append(log, Contents(schedule_tables'))
     /\ UNCHANGED <<stopping, registryVars, loopVars, nodeVars>>

-----------------------------------------------------------------------------
(* RecoveryServiceImpl::EnforceRecoveryPolicy(RECOVERY_STOP) *)

\* RemoveWorkload(id, &actual, trigger_push = false): the flag is not set.
RemoveWorkload(w) ==
  LET removed == [workload_tasks EXCEPT ![w] = Absent]
  IN /\ workload_tasks' = removed
     /\ schedule_tables' = IF workload_tasks[w] = Absent
                           THEN schedule_tables
                           ELSE RegenerateAllSchedules(removed)
     /\ UNCHANGED schedule_changed

\* A workload that is unknown, or cannot be removed from the tables, is only
\* logged: the handler goes on to the broadcast in every case.
EnforceRecoveryPolicy(w) ==
  /\ Len(log) <= MaxRequests
  /\ w \notin stopping
  /\ stopping' = stopping \cup {w}
  /\ RemoveWorkload(w)
  /\ log' = Append(log, Contents(schedule_tables'))
  /\ UNCHANGED <<registryVars, loopVars, nodeVars>>

\* broadcast_recovery_signal() holds nodes_mutex_ over all its writes.
BroadcastStop(w) ==
  /\ w \in stopping
  /\ stopping' = stopping \ {w}
  /\ wire' = [n \in Nodes |->
                IF connected_nodes[n] # NoStream /\ Live(n, connected_nodes[n])
                THEN Append(wire[n], StopCmd(w))
                ELSE wire[n]]
  /\ UNCHANGED <<serviceVars, registryVars, loopVars,
                 stream, up, running, applied>>

-----------------------------------------------------------------------------
(* OrchestratorServiceImpl::NodeStream, one handler thread per stream *)

\* The first event with a node id (NodeReady) registers the stream.  The event
\* may still be read after the node has gone.
HandlerRegister(n, k) ==
  /\ handler[n][k] = "open"
  /\ handler' = [handler EXCEPT ![n][k] = "registered"]
  /\ connected_nodes' = [connected_nodes EXCEPT ![n] = k]
  /\ UNCHANGED <<serviceVars, stopping, loopVars, nodeVars>>

\* Seeded fault: a handler ends without leaving the registry.
HandlerEndKeepsEntry(n, k) ==
  /\ handler[n][k] \in {"open", "registered"}
  /\ ~Live(n, k)
  /\ handler' = [handler EXCEPT ![n][k] = "done"]
  /\ UNCHANGED <<serviceVars, stopping, connected_nodes, loopVars, nodeVars>>

\* Read() fails: the handler erases whatever the registry holds for its node.
HandlerEnd(n, k) ==
  /\ handler[n][k] \in {"open", "registered"}
  /\ ~Live(n, k)
  /\ connected_nodes' = IF handler[n][k] = "registered"
                        THEN [connected_nodes EXCEPT ![n] = NoStream]
                        ELSE connected_nodes
  /\ handler' = [handler EXCEPT ![n][k] = "done"]
  /\ UNCHANGED <<serviceVars, stopping, loopVars, nodeVars>>

-----------------------------------------------------------------------------
(* main(): the replay loop *)

\* At the end of a round the variables of the loop body go out of scope.
EndRound ==
  /\ pc' = "sleep"
  /\ sched_tables' = [n \in Nodes |-> NoTable]
  /\ sched_version' = 1
  /\ todo' = {}

\* GetScheduleTables(&changed) copies the tables and takes the flag.
GetScheduleTables ==
  /\ pc = "sleep"
  /\ pc' = "marks"
  /\ sched_tables' = schedule_tables
  /\ sched_version' = Len(log)
  /\ changed' = schedule_changed
  /\ schedule_changed' = FALSE
  /\ UNCHANGED <<workload_tasks, schedule_tables, log, stopping,
                 registryVars, todo, target, replay_pending,
                 known_connected_nodes, synced_nodes, next_retry_time,
                 last_pushed_tables, nodeVars>>

NoSchedule == \A n \in Nodes : sched_tables[n] = NoTable

\* The table of the snapshot for a node; a node without one is sent an empty
\* table, equal but for the epoch to the one generate_schedule() builds for a
\* node with no task.
TableToPush(n) == Contents(sched_tables)[n]

connected == {n \in Nodes : connected_nodes[n] # NoStream}
gone == known_connected_nodes \ connected
new == connected \ known_connected_nodes

\* Seeded fault: the tables are not compared.
outdatedNewOnly == new

\* Connected nodes whose table differs from the last one pushed to them; for a
\* node that is new to the loop the last pushed table was just dropped.
outdated ==
  {n \in connected : n \in new \/ last_pushed_tables[n] # TableToPush(n)}

\* Seeded fault: a node that went away and came back keeps its marks.
unmarkedChangedOnly == IF changed THEN outdated \ new ELSE {}

\* Nodes that lose their synced and retry marks in this round.
unmarked ==
  gone \cup new \cup (IF ~changed THEN {}
                      ELSE IF NoSchedule THEN Nodes ELSE outdated)

\* Nodes whose last pushed table is dropped as well.
forgotten == gone \cup new \cup (IF changed /\ NoSchedule THEN Nodes ELSE {})

\* One pass over the bookkeeping, then the choice of the nodes to push to.
UpdateMarks ==
  /\ pc = "marks"
  /\ known_connected_nodes' = connected
  /\ synced_nodes' = synced_nodes \ unmarked
  /\ next_retry_time' = next_retry_time \ unmarked
  /\ last_pushed_tables' =
       [n \in Nodes |-> IF n \in forgotten THEN NoTable ELSE last_pushed_tables[n]]
  /\ replay_pending' = (replay_pending \/ new # {}
                        \/ (changed /\ (NoSchedule \/ outdated # {})))
  /\ IF replay_pending' /\ ~NoSchedule /\ connected # {}
     THEN /\ pc' = "push"
          /\ todo' = connected \ (synced_nodes' \cup next_retry_time')
          /\ UNCHANGED <<sched_tables, sched_version>>
     ELSE EndRound
  /\ changed' = FALSE
  /\ UNCHANGED <<serviceVars, stopping, registryVars, target, nodeVars>>

\* push_full_table(), first half: look the node up under nodes_mutex_.
PushLookup(n) ==
  /\ pc = "push"
  /\ n \in todo
  /\ pc' = "write"
  /\ todo' = todo \ {n}
  /\ target' = <<n, connected_nodes[n]>>
  /\ UNCHANGED <<serviceVars, stopping, registryVars, sched_tables,
                 sched_version, changed, replay_pending,
                 known_connected_nodes, synced_nodes, next_retry_time,
                 last_pushed_tables, nodeVars>>

\* What Write() may return on the stream that was looked up: on an open stream
\* the command is taken; on one the node has left it may or may not be noticed
\* that nobody reads it; and when the handler has returned meanwhile the stream
\* object is gone and anything may come back.
WriteResults(n, k) ==
  IF k = NoStream THEN {FALSE} ELSE IF Live(n, k) THEN {TRUE} ELSE BOOLEAN

\* push_full_table(), second half, and the loop body's use of its result.
PushWrite ==
  /\ pc = "write"
  /\ pc' = "push"
  /\ target' = <<>>
  /\ LET n == target[1]
         k == target[2]
     IN \E ok \in WriteResults(n, k) :
          /\ wire' = IF ok /\ Live(n, k)
                     THEN [wire EXCEPT ![n] =
                             Append(@, TableCmd(TableToPush(n), sched_version))]
                     ELSE wire
          /\ IF ok
             THEN /\ synced_nodes' = synced_nodes \cup {n}
                  /\ next_retry_time' = next_retry_time \ {n}
                  /\ last_pushed_tables' =
                       [last_pushed_tables EXCEPT ![n] = TableToPush(n)]
             ELSE /\ synced_nodes' = synced_nodes \ {n}
                  /\ next_retry_time' = next_retry_time \cup {n}
                  /\ UNCHANGED last_pushed_tables
  /\ UNCHANGED <<serviceVars, stopping, registryVars, sched_tables,
                 sched_version, changed, todo, replay_pending,
                 known_connected_nodes, stream, up, running, applied>>

\* Seeded fault: replay is over once every node due in this round was tried.
FinishRoundAlways ==
  /\ pc = "push"
  /\ todo = {}
  /\ EndRound
  /\ replay_pending' = FALSE
  /\ UNCHANGED <<serviceVars, stopping, registryVars, changed, target,
                 known_connected_nodes, synced_nodes, next_retry_time,
                 last_pushed_tables, nodeVars>>

\* All nodes visited.  (all_push_ok adds nothing to the test: a failed push
\* has taken its node out of synced_nodes.)
FinishRound ==
  /\ pc = "push"
  /\ todo = {}
  /\ EndRound
  /\ replay_pending' = ~(known_connected_nodes \subseteq synced_nodes)
  /\ UNCHANGED <<serviceVars, stopping, registryVars, changed, target,
                 known_connected_nodes, synced_nodes, next_retry_time,
                 last_pushed_tables, nodeVars>>

\* The back-off of a node (500 ms doubling to 8 s) has passed; the next
\* round (UpdateMarks) reads the clock.
RetryDue(n) ==
  /\ n \in next_retry_time
  /\ next_retry_time' = next_retry_time \ {n}
  /\ UNCHANGED <<serviceVars, stopping, registryVars, pc, sched_tables,
                 sched_version, changed, todo, target, replay_pending,
                 known_connected_nodes, synced_nodes, last_pushed_tables,
                 nodeVars>>

-----------------------------------------------------------------------------
(* The nodes: NodeClient::reconnect_loop and the process around it *)

\* NodeClient waits at least 1 s before it calls NodeStream again, but nothing
\* ties that wait to the orchestrator noticing the end of the old stream:
\*   "seen"    the replay loop has seen the node disconnected
\*   "closed"  the old handler has ended, the replay loop need not have looked
\*   "any"     neither
MayReconnect(n) ==
  /\ Reconnect \in {"seen", "closed"} =>
       \A k \in Streams : handler[n][k] \in {"idle", "done"}
  /\ Reconnect = "seen" => n \notin known_connected_nodes

Connect(n) ==
  /\ ~up[n]
  /\ stream[n] < MaxStreams
  /\ MayReconnect(n)
  /\ stream' = [stream EXCEPT ![n] = @ + 1]
  /\ up' = [up EXCEPT ![n] = TRUE]
  /\ handler' = [handler EXCEPT ![n][stream[n] + 1] = "open"]
  /\ UNCHANGED <<serviceVars, stopping, connected_nodes, loopVars,
                 wire, running, applied>>

\* The stream breaks; commands under way on it are lost.
Disconnect(n) ==
  /\ up[n]
  /\ up' = [up EXCEPT ![n] = FALSE]
  /\ wire' = [wire EXCEPT ![n] = <<>>]
  /\ UNCHANGED <<serviceVars, stopping, registryVars, loopVars,
                 stream, running, applied>>

\* The node process ends and is started again: it runs nothing.
Restart(n) ==
  /\ up[n]
  /\ up' = [up EXCEPT ![n] = FALSE]
  /\ wire' = [wire EXCEPT ![n] = <<>>]
  /\ running' = [running EXCEPT ![n] = EmptyTable]
  /\ applied' = [applied EXCEPT ![n] = 1]
  /\ UNCHANGED <<serviceVars, stopping, registryVars, loopVars, stream>>

\* Seeded fault: commands are handled out of order.
NodeReadReordered(n) ==
  /\ \E i \in DOMAIN wire[n] :
       /\ wire[n][i].kind = "full_table"
       /\ running' = [running EXCEPT ![n] = wire[n][i].table]
       /\ applied' = [applied EXCEPT ![n] = wire[n][i].version]
       /\ wire' = [wire EXCEPT ![n] = SubSeq(@, 1, i - 1) \o SubSeq(@, i + 1, Len(@))]
  /\ UNCHANGED <<serviceVars, stopping, registryVars, loopVars, stream, up>>

\* Seeded fault: workloads absent from a new table are not evicted.
NodeReadKeepsOld(n) ==
  /\ wire[n] # <<>>
  /\ Head(wire[n]).kind = "full_table"
  /\ running' = [running EXCEPT ![n] =
                   [w \in Workloads |-> IF Head(wire[n]).table[w] = NoTasks
                                        THEN running[n][w]
                                        ELSE Head(wire[n]).table[w]]]
  /\ applied' = [applied EXCEPT ![n] = Head(wire[n]).version]
  /\ wire' = [wire EXCEPT ![n] = Tail(@)]
  /\ UNCHANGED <<serviceVars, stopping, registryVars, loopVars, stream, up>>

\* The stream thread reads a command and runs its callback: a full table
\* replaces everything the node ran, a STOP evicts one workload.
NodeRead(n) ==
  /\ wire[n] # <<>>
  /\ LET cmd == Head(wire[n])
     IN \/ /\ cmd.kind = "full_table"
           /\ running' = [running EXCEPT ![n] = cmd.table]
           /\ applied' = [applied EXCEPT ![n] = cmd.version]
        \/ /\ cmd.kind = "recovery"
           /\ running' = [running EXCEPT ![n][cmd.workload] = NoTasks]
           /\ UNCHANGED applied
  /\ wire' = [wire EXCEPT ![n] = Tail(@)]
  /\ UNCHANGED <<serviceVars, stopping, registryVars, loopVars, stream, up>>

-----------------------------------------------------------------------------
ReplayLoop ==
  \/ GetScheduleTables
  \/ UpdateMarks
  \/ \E n \in Nodes : PushLookup(n)
  \/ PushWrite
  \/ FinishRound

Next ==
  \/ \E w \in Workloads, entry \in Entry : AddSchedInfo(w, entry)
  \/ \E w \in Stoppable : EnforceRecoveryPolicy(w)
  \/ \E w \in Workloads : BroadcastStop(w)
  \/ \E n \in Nodes, k \in Streams : HandlerRegister(n, k) \/ HandlerEnd(n, k)
  \/ ReplayLoop
  \/ \E n \in Nodes : \/ RetryDue(n)
                      \/ Connect(n)
                      \/ Disconnect(n)
                      \/ Restart(n)
                      \/ NodeRead(n)

Spec == Init /\ [][Next]_vars

(***************************************************************************)
(* Fairness.  The replay loop, the recovery handler, the stream handlers   *)
(* and the node's stream thread are threads that are not blocked for ever; *)
(* a back-off time passes; and reconnect_loop() keeps calling NodeStream.  *)
(* Nothing is assumed of Pullpiri's requests, of disconnects or restarts.  *)
(***************************************************************************)
Fairness ==
  /\ WF_vars(ReplayLoop)
  /\ \A w \in Workloads : WF_vars(BroadcastStop(w))
  /\ \A n \in Nodes :
       /\ WF_vars(RetryDue(n))
       /\ WF_vars(Connect(n))
       /\ WF_vars(NodeRead(n))
       /\ \A k \in Streams :
            /\ WF_vars(HandlerRegister(n, k))
            /\ WF_vars(HandlerEnd(n, k))

FairSpec == Spec /\ Fairness

-----------------------------------------------------------------------------
(* Safety *)

TypeOK ==
  /\ workload_tasks \in [Workloads -> Entry \cup {Absent}]
  /\ schedule_tables \in [Nodes -> Table \cup {NoTable}]
  /\ schedule_changed \in BOOLEAN
  /\ log \in Seq([Nodes -> Table])
  /\ stopping \subseteq Workloads
  /\ connected_nodes \in [Nodes -> Streams \cup {NoStream}]
  /\ handler \in [Nodes -> [Streams -> {"idle", "open", "registered", "done"}]]
  /\ pc \in {"sleep", "marks", "push", "write"}
  /\ sched_tables \in [Nodes -> Table \cup {NoTable}]
  /\ sched_version \in Nat
  /\ changed \in BOOLEAN
  /\ todo \subseteq Nodes
  /\ target \in (Nodes \X (Streams \cup {NoStream})) \cup {<<>>}
  /\ pc = "write" => target # <<>>
  /\ replay_pending \in BOOLEAN
  /\ known_connected_nodes \subseteq Nodes
  /\ synced_nodes \subseteq Nodes
  /\ next_retry_time \subseteq Nodes
  /\ last_pushed_tables \in [Nodes -> Table \cup {NoTable}]
  /\ stream \in [Nodes -> 0..MaxStreams]
  /\ up \in [Nodes -> BOOLEAN]
  /\ wire \in [Nodes -> Seq([kind : {"full_table"}, table : Table, version : Nat]
                            \cup [kind : {"recovery"}, workload : Workloads])]
  /\ running \in [Nodes -> Table]
  /\ applied \in [Nodes -> Nat]

\* The registry never names a stream whose handler has returned, so whoever
\* holds nodes_mutex_ (broadcast_recovery_signal) writes to a stream object
\* that still exists, whatever the order in which the handlers of an old and
\* of a new stream of the same node register and end.
RegisteredHandlerRuns ==
  \A n \in Nodes : connected_nodes[n] # NoStream =>
                     handler[n][connected_nodes[n]] = "registered"

\* The replay loop only stops replaying when every node it knows of is synced:
\* no node is dropped because it was waiting for its back-off while the others
\* succeeded, or because it appeared while a round was under way.
ReplayNotForgotten ==
  ~replay_pending => known_connected_nodes \subseteq synced_nodes

\* Table t holds every task set that u asks for.
Covers(t, u) == \A w \in Workloads : u[w] \in {NoTasks, t[w]}

\* Between two rounds, when no change is waiting to be seen, what was last
\* written to a node the loop counts as synced holds every task set the service
\* has scheduled for that node: no accepted AddSchedInfo is lost between the
\* service's flag and the loop's marks, even if it arrives during a round, and
\* a STOP, which does not set the flag, can only have taken tasks away.
SyncedCoversService ==
  pc = "sleep" /\ ~schedule_changed =>
    \A n \in synced_nodes :
      Covers(last_pushed_tables[n], Contents(schedule_tables)[n])

\* The loop never sees the flag without a table ("SchedInfo marked changed but
\* map is empty"): a node keeps its entry, if only an empty table, once it has
\* been scheduled, even when its workloads are stopped before the loop looks.
ChangeHasTables == pc = "marks" /\ changed => ~NoSchedule

-----------------------------------------------------------------------------
(* What the nodes see: one version of the service's tables after another *)

Replication == INSTANCE TableReplication
  WITH log <- log, applied <- applied, running <- running

\* Whatever is lost, late, repeated or restarted, a node runs what one version
\* of the service's tables asked of it, less the workloads it was told to stop;
\* and it never goes back to an older version, unless its process restarts.
NodesFollowTheLog == Replication!Spec

-----------------------------------------------------------------------------
(* Liveness *)

\* A workload that stays accepted runs on each of its target nodes that stays
\* connected.
AcceptedIsRunning ==
  \A w \in Workloads, n \in Nodes, t \in TaskSets :
    <>[](up[n] /\ n \in workload_tasks[w].target_nodes /\ workload_tasks[w].tasks = t)
      => <>[](running[n][w] = t)

\* A workload the service no longer holds for a node (moved to other nodes,
\* stopped, or erased by a failed update) ends up not running there.
RemovedIsEvicted ==
  \A w \in Workloads, n \in Nodes :
    <>[](up[n] /\ n \notin workload_tasks[w].target_nodes)
      => <>[](running[n][w] = NoTasks)
=============================================================================
