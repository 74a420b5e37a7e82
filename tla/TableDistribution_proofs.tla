---------------------- MODULE TableDistribution_proofs ----------------------
(* Proofs about TableDistribution, for every value of its constants. *)
EXTENDS TableDistribution, TLAPS

\* The table of a node with nothing to run is a table.
LEMMA EmptyTableType == EmptyTable \in Table
BY DEF EmptyTable, Table

\* Contents makes a table for every node of a map with gaps.
LEMMA ContentsType ==
  ASSUME NEW tables \in [Nodes -> Table \cup {NoTable}]
  PROVE  Contents(tables) \in [Nodes -> Table]
BY EmptyTableType DEF Contents

\* What generate_schedule() is asked for is a table.
LEMMA TableOfType ==
  ASSUME NEW wt \in [Workloads -> Entry \cup {Absent}], NEW n \in Nodes
  PROVE  TableOf(wt, n) \in Table
BY DEF TableOf, Table, Entry, Absent

\* RegenerateAllSchedules() keeps the map of tables well typed.
LEMMA RegenerateType ==
  ASSUME TypeOK, NEW wt \in [Workloads -> Entry \cup {Absent}]
  PROVE  RegenerateAllSchedules(wt) \in [Nodes -> Table \cup {NoTable}]
BY TableOfType, Zenon DEF RegenerateAllSchedules, TypeOK

Commands == [kind : {"full_table"}, table : Table, version : Nat]
              \cup [kind : {"recovery"}, workload : Workloads]

(* Every variable keeps its type, whatever the bounds. *)
LEMMA TypeStep == TypeOK /\ [Next]_vars => TypeOK'
<1> SUFFICES ASSUME TypeOK, [Next]_vars PROVE TypeOK'
  OBVIOUS
<1> USE ConstantsAssumption
<1>1. ASSUME NEW w \in Workloads, NEW entry \in Entry, AddSchedInfo(w, entry)
      PROVE  TypeOK'
  <2>1. /\ [workload_tasks EXCEPT ![w] = entry] \in [Workloads -> Entry \cup {Absent}]
        /\ [workload_tasks EXCEPT ![w] = Absent] \in [Workloads -> Entry \cup {Absent}]
    BY DEF TypeOK
  <2>2. schedule_tables' \in [Nodes -> Table \cup {NoTable}]
    BY <1>1, <2>1, RegenerateType, Zenon DEF AddSchedInfo
  <2>3. workload_tasks' \in [Workloads -> Entry \cup {Absent}]
    BY <1>1, <2>1 DEF AddSchedInfo
  <2>4. log' \in Seq([Nodes -> Table])
    <3>1. Contents(schedule_tables') \in [Nodes -> Table]
      BY <2>2, ContentsType
    <3>2. log \in Seq([Nodes -> Table])
      BY DEF TypeOK
    <3>3. log' = Append(log, Contents(schedule_tables'))
      BY <1>1 DEF AddSchedInfo
    <3> QED
      BY <3>1, <3>2, <3>3
  <2> QED
    BY <1>1, <2>2, <2>3, <2>4, Zenon DEF AddSchedInfo, TypeOK, registryVars, loopVars, nodeVars
<1>2. ASSUME NEW w \in Workloads, EnforceRecoveryPolicy(w)
      PROVE  TypeOK'
  <2>1. [workload_tasks EXCEPT ![w] = Absent] \in [Workloads -> Entry \cup {Absent}]
    BY DEF TypeOK
  <2>2. schedule_tables' \in [Nodes -> Table \cup {NoTable}]
    BY <1>2, <2>1, RegenerateType, Zenon DEF EnforceRecoveryPolicy, RemoveWorkload, TypeOK
  <2>3. log' \in Seq([Nodes -> Table])
    <3>1. Contents(schedule_tables') \in [Nodes -> Table]
      BY <2>2, ContentsType
    <3>2. log \in Seq([Nodes -> Table])
      BY DEF TypeOK
    <3>3. log' = Append(log, Contents(schedule_tables'))
      BY <1>2 DEF EnforceRecoveryPolicy, RemoveWorkload
    <3> QED
      BY <3>1, <3>2, <3>3
  <2> QED
    BY <1>2, <2>1, <2>2, <2>3, Zenon
    DEF EnforceRecoveryPolicy, RemoveWorkload, TypeOK, registryVars, loopVars, nodeVars
<1>3. ASSUME NEW w \in Workloads, BroadcastStop(w)
      PROVE  TypeOK'
  <2>1. StopCmd(w) \in Commands
    BY DEF StopCmd, Commands
  <2>2. wire \in [Nodes -> Seq(Commands)]
    BY DEF TypeOK, Commands
  <2>3. wire' \in [Nodes -> Seq(Commands)]
    BY <1>3, <2>1, <2>2 DEF BroadcastStop
  <2> QED
    BY <1>3, <2>3 DEF BroadcastStop, TypeOK, Commands, serviceVars, registryVars, loopVars
<1>4. ASSUME NEW n \in Nodes, NEW k \in Streams, HandlerRegister(n, k)
      PROVE  TypeOK'
  BY <1>4 DEF HandlerRegister, TypeOK, serviceVars, loopVars, nodeVars
<1>5. ASSUME NEW n \in Nodes, NEW k \in Streams, HandlerEnd(n, k)
      PROVE  TypeOK'
  BY <1>5 DEF HandlerEnd, TypeOK, serviceVars, loopVars, nodeVars
<1>6. CASE GetScheduleTables
  <2>1. Len(log) \in Nat
    BY DEF TypeOK
  <2> QED
    BY <1>6, <2>1, Zenon DEF GetScheduleTables, TypeOK, registryVars, nodeVars
<1>7. CASE UpdateMarks
  <2>1. /\ known_connected_nodes' \subseteq Nodes
        /\ synced_nodes' \subseteq Nodes
        /\ next_retry_time' \subseteq Nodes
    BY <1>7 DEF UpdateMarks, TypeOK, connected
  <2>2. last_pushed_tables' \in [Nodes -> Table \cup {NoTable}]
    BY <1>7 DEF UpdateMarks, TypeOK
  <2>3. replay_pending' \in BOOLEAN
    BY <1>7 DEF UpdateMarks
  <2>4. /\ sched_tables' \in [Nodes -> Table \cup {NoTable}]
        /\ sched_version' \in Nat
        /\ todo' \subseteq Nodes
        /\ pc' \in {"push", "sleep"}
    BY <1>7 DEF UpdateMarks, EndRound, TypeOK, connected
  <2> QED
    BY <1>7, <2>1, <2>2, <2>3, <2>4, Zenon
    DEF UpdateMarks, TypeOK, serviceVars, registryVars, nodeVars
<1>8. ASSUME NEW n \in Nodes, PushLookup(n)
      PROVE  TypeOK'
  BY <1>8 DEF PushLookup, TypeOK, serviceVars, registryVars, nodeVars
<1>9. CASE PushWrite
  <2>1. target \in Nodes \X (Streams \cup {NoStream})
    BY <1>9 DEF PushWrite, TypeOK
  <2>2. PICK n \in Nodes, k \in Streams \cup {NoStream} : target = <<n, k>>
    BY <2>1
  <2>3. TableToPush(n) \in Table
    BY ContentsType, Zenon DEF TypeOK, TableToPush
  <2>4. TableCmd(TableToPush(n), sched_version) \in Commands
    BY <2>3 DEF TableCmd, Commands, TypeOK
  <2>5. wire \in [Nodes -> Seq(Commands)]
    BY DEF TypeOK, Commands
  <2>6. wire' \in [Nodes -> Seq(Commands)]
    BY <1>9, <2>2, <2>4, <2>5 DEF PushWrite
  <2>7. last_pushed_tables' \in [Nodes -> Table \cup {NoTable}]
    <3>1. \/ last_pushed_tables' = last_pushed_tables
          \/ last_pushed_tables' = [last_pushed_tables EXCEPT ![n] = TableToPush(n)]
      BY <1>9, <2>2 DEF PushWrite
    <3>2. last_pushed_tables \in [Nodes -> Table \cup {NoTable}]
      BY DEF TypeOK
    <3> QED
      BY <2>3, <3>1, <3>2
  <2>8. synced_nodes' \subseteq Nodes /\ next_retry_time' \subseteq Nodes
    BY <1>9, <2>2 DEF PushWrite, TypeOK
  <2> QED
    BY <1>9, <2>6, <2>7, <2>8, SMTT(30)
    DEF PushWrite, TypeOK, Commands, serviceVars, registryVars
<1>10. CASE FinishRound
  BY <1>10 DEF FinishRound, EndRound, TypeOK, serviceVars, registryVars, nodeVars
<1>11. ASSUME NEW n \in Nodes, RetryDue(n)
       PROVE  TypeOK'
  BY <1>11 DEF RetryDue, TypeOK, serviceVars, registryVars, nodeVars
<1>12. ASSUME NEW n \in Nodes, Connect(n)
       PROVE  TypeOK'
  BY <1>12 DEF Connect, TypeOK, serviceVars, loopVars, Streams
<1>13. ASSUME NEW n \in Nodes, Disconnect(n)
       PROVE  TypeOK'
  BY <1>13 DEF Disconnect, TypeOK, serviceVars, registryVars, loopVars
<1>14. ASSUME NEW n \in Nodes, Restart(n)
       PROVE  TypeOK'
  BY <1>14, EmptyTableType DEF Restart, TypeOK, serviceVars, registryVars, loopVars
<1>15. ASSUME NEW n \in Nodes, NodeRead(n)
       PROVE  TypeOK'
  <2>1. wire \in [Nodes -> Seq(Commands)]
    BY DEF TypeOK, Commands
  <2>2. Head(wire[n]) \in Commands /\ Tail(wire[n]) \in Seq(Commands)
    BY <1>15, <2>1 DEF NodeRead
  <2>3. wire' \in [Nodes -> Seq(Commands)]
    BY <1>15, <2>1, <2>2 DEF NodeRead
  <2>4. running' \in [Nodes -> Table] /\ applied' \in [Nodes -> Nat]
    <3>1. CASE Head(wire[n]).kind = "full_table"
      <4>1. Head(wire[n]).table \in Table /\ Head(wire[n]).version \in Nat
        BY <2>2, <3>1 DEF Commands
      <4> QED
        BY <1>15, <3>1, <4>1, Zenon DEF NodeRead, TypeOK
    <3>2. CASE Head(wire[n]).kind = "recovery"
      <4>1. [running[n] EXCEPT ![Head(wire[n]).workload] = NoTasks] \in Table
        BY Zenon DEF TypeOK, Table
      <4> QED
        BY <1>15, <3>2, <4>1, ZenonT(40) DEF NodeRead, TypeOK
    <3> QED
      BY <1>15, <3>1, <3>2 DEF NodeRead
  <2> QED
    BY <1>15, <2>3, <2>4
    DEF NodeRead, TypeOK, Commands, serviceVars, registryVars, loopVars
<1>16. CASE UNCHANGED vars
  BY <1>16 DEF TypeOK, vars, serviceVars, registryVars, loopVars, nodeVars
<1> QED
  BY <1>1, <1>2, <1>3, <1>4, <1>5, <1>6, <1>7, <1>8, <1>9, <1>10, <1>11,
     <1>12, <1>13, <1>14, <1>15, <1>16 DEF Next, ReplayLoop

(* Type correctness of the orchestrator, the wire and the nodes. *)
THEOREM Typing == Spec => []TypeOK
<1>1. Init => TypeOK
  <2> SUFFICES ASSUME Init PROVE TypeOK
    OBVIOUS
  <2>1. log \in Seq([Nodes -> Table])
    BY EmptyTableType DEF Init
  <2>2. wire \in [Nodes -> Seq(Commands)]
    BY DEF Init
  <2>3. stream \in [Nodes -> 0..MaxStreams]
    BY ConstantsAssumption DEF Init
  <2>4. running \in [Nodes -> Table] /\ applied \in [Nodes -> Nat]
    BY EmptyTableType DEF Init
  <2>5. /\ workload_tasks \in [Workloads -> Entry \cup {Absent}]
        /\ schedule_tables \in [Nodes -> Table \cup {NoTable}]
        /\ connected_nodes \in [Nodes -> Streams \cup {NoStream}]
        /\ handler \in [Nodes -> [Streams -> {"idle", "open", "registered", "done"}]]
    BY DEF Init
  <2> QED
    BY <2>1, <2>2, <2>3, <2>4, <2>5, Zenon DEF Init, TypeOK, Commands
<1> QED
  BY <1>1, TypeStep, PTL DEF Spec

-----------------------------------------------------------------------------
(* The registry *)

\* A stream the node has not opened yet has no handler.
HandlersFollowStreams ==
  \A n \in Nodes, k \in Streams : handler[n][k] # "idle" => k <= stream[n]

RegistryInv == HandlersFollowStreams /\ RegisteredHandlerRuns

\* Every step keeps the registry sound; HandlerEnd is the step that could break
\* it, and it erases the entry of its node whatever stream that names.
LEMMA RegistryStep ==
  TypeOK /\ RegistryInv /\ [Next]_vars => RegistryInv'
<1> SUFFICES ASSUME TypeOK, RegistryInv, [Next]_vars PROVE RegistryInv'
  OBVIOUS
<1> USE ConstantsAssumption
<1>1. ASSUME NEW n \in Nodes, NEW k \in Streams, HandlerRegister(n, k)
      PROVE  RegistryInv'
  BY <1>1 DEF HandlerRegister, RegistryInv, HandlersFollowStreams,
              RegisteredHandlerRuns, TypeOK, nodeVars, NoStream, Streams
<1>2. ASSUME NEW n \in Nodes, NEW k \in Streams, HandlerEnd(n, k)
      PROVE  RegistryInv'
  BY <1>2 DEF HandlerEnd, RegistryInv, HandlersFollowStreams,
              RegisteredHandlerRuns, TypeOK, nodeVars, NoStream, Streams
<1>3. ASSUME NEW n \in Nodes, Connect(n)
      PROVE  RegistryInv'
  BY <1>3 DEF Connect, RegistryInv, HandlersFollowStreams,
              RegisteredHandlerRuns, TypeOK, NoStream, Streams
<1>4. CASE UNCHANGED <<connected_nodes, handler, stream>>
  BY <1>4 DEF RegistryInv, HandlersFollowStreams, RegisteredHandlerRuns
<1>5. \/ UNCHANGED <<connected_nodes, handler, stream>>
      \/ \E n \in Nodes : Connect(n)
      \/ \E n \in Nodes, k \in Streams : HandlerRegister(n, k) \/ HandlerEnd(n, k)
  BY Zenon
  DEF Next, ReplayLoop, AddSchedInfo, EnforceRecoveryPolicy, RemoveWorkload, BroadcastStop,
      GetScheduleTables, UpdateMarks, PushLookup, PushWrite, FinishRound,
      RetryDue, Disconnect, Restart, NodeRead, vars, registryVars, nodeVars
<1> QED
  BY <1>1, <1>2, <1>3, <1>4, <1>5

(* No registered stream has lost its handler: the write under nodes_mutex_  *)
(* in broadcast_recovery_signal() is always to a stream that exists.        *)
THEOREM RegistrySound == Spec => []RegisteredHandlerRuns
<1>1. Init => RegistryInv
  BY DEF Init, RegistryInv, HandlersFollowStreams, RegisteredHandlerRuns
<1>2. RegistryInv => RegisteredHandlerRuns
  BY DEF RegistryInv
<1> QED
  BY <1>1, <1>2, RegistryStep, Typing, PTL DEF Spec

-----------------------------------------------------------------------------
(* The replay loop's marks *)

\* In the push phase the replay is pending, the loop works on nodes it knows,
\* and only such nodes are ever marked.
MarksInv ==
  /\ pc \in {"push", "write"} => replay_pending
  /\ synced_nodes \subseteq known_connected_nodes
  /\ todo \subseteq known_connected_nodes
  /\ pc = "write" => target[1] \in known_connected_nodes
  /\ ReplayNotForgotten

\* Every step keeps the marks of the replay loop consistent with the nodes it
\* still has to visit in this round.
LEMMA MarksStep == TypeOK /\ MarksInv /\ [Next]_vars => MarksInv'
<1> SUFFICES ASSUME TypeOK, MarksInv, [Next]_vars PROVE MarksInv'
  OBVIOUS
<1>1. CASE GetScheduleTables
  BY <1>1 DEF GetScheduleTables, MarksInv, ReplayNotForgotten
<1>2. CASE UpdateMarks
  <2>1. synced_nodes' \subseteq known_connected_nodes'
    BY <1>2 DEF UpdateMarks, MarksInv, unmarked, gone
  <2>2. todo' \subseteq known_connected_nodes'
    BY <1>2 DEF UpdateMarks, EndRound
  <2>3. /\ pc' \in {"push", "sleep"}
        /\ pc' = "push" => replay_pending'
    BY <1>2 DEF UpdateMarks, EndRound
  <2>4. ASSUME ~replay_pending'
        PROVE  known_connected_nodes' \subseteq synced_nodes'
    <3>1. ~replay_pending /\ new = {} /\ (changed => ~NoSchedule /\ outdated = {})
      BY <1>2, <2>4, Zenon DEF UpdateMarks
    <3>2. unmarked = gone
      BY <3>1 DEF unmarked
    <3>3. known_connected_nodes \subseteq synced_nodes
      BY <3>1 DEF MarksInv, ReplayNotForgotten
    <3> QED
      BY <1>2, <3>1, <3>2, <3>3 DEF UpdateMarks, new, gone
  <2> QED
    BY <2>1, <2>2, <2>3, <2>4 DEF MarksInv, ReplayNotForgotten
<1>3. ASSUME NEW n \in Nodes, PushLookup(n)
      PROVE  MarksInv'
  BY <1>3 DEF PushLookup, MarksInv, ReplayNotForgotten
<1>4. CASE PushWrite
  BY <1>4 DEF PushWrite, MarksInv, ReplayNotForgotten
<1>5. CASE FinishRound
  BY <1>5, Zenon DEF FinishRound, EndRound, MarksInv, ReplayNotForgotten
<1>6. CASE UNCHANGED <<pc, todo, target, replay_pending,
                       known_connected_nodes, synced_nodes>>
  BY <1>6 DEF MarksInv, ReplayNotForgotten
<1>7. \/ GetScheduleTables \/ UpdateMarks \/ PushWrite \/ FinishRound
      \/ \E n \in Nodes : PushLookup(n)
      \/ UNCHANGED <<pc, todo, target, replay_pending,
                     known_connected_nodes, synced_nodes>>
  BY ZenonT(40)
  DEF Next, ReplayLoop, AddSchedInfo, EnforceRecoveryPolicy, RemoveWorkload, BroadcastStop,
         HandlerRegister, HandlerEnd, RetryDue, Connect, Disconnect, Restart,
         NodeRead, vars, loopVars
<1> QED
  BY <1>1, <1>2, <1>3, <1>4, <1>5, <1>6, <1>7

(* The loop goes quiet only when all nodes it knows of are synced. *)
THEOREM ReplayComplete == Spec => []ReplayNotForgotten
<1>1. Init => MarksInv
  BY DEF Init, MarksInv, ReplayNotForgotten
<1>2. MarksInv => ReplayNotForgotten
  BY DEF MarksInv
<1> QED
  BY <1>1, <1>2, MarksStep, Typing, PTL DEF Spec

-----------------------------------------------------------------------------
(* The service's tables *)

\* The tables hold what workload_tasks_ asks for, and more only after a
\* regeneration failed; they are never empty while the flag is set.
ServiceInv ==
  /\ \A n \in Nodes :
       Covers(Contents(schedule_tables)[n], TableOf(workload_tasks, n))
  /\ schedule_changed => \E n \in Nodes : schedule_tables[n] # NoTable

\* A table covers itself.
LEMMA CoversReflexive ==
  ASSUME NEW t PROVE Covers(t, t)
BY DEF Covers

\* Covers is transitive.
LEMMA CoversTransitive ==
  ASSUME NEW t, NEW u, NEW v, Covers(t, u), Covers(u, v)
  PROVE  Covers(t, v)
BY DEF Covers

\* Without the tasks of one workload, a node is asked for less.
LEMMA RemovalCovered ==
  ASSUME NEW wt \in [Workloads -> Entry \cup {Absent}], NEW w \in Workloads,
         NEW n \in Nodes
  PROVE  Covers(TableOf(wt, n), TableOf([wt EXCEPT ![w] = Absent], n))
BY DEF Covers, TableOf, Absent

\* What a regeneration leaves in the tables of a node.
LEMMA RegenerateContents ==
  ASSUME TypeOK, NEW wt \in [Workloads -> Entry \cup {Absent}], NEW n \in Nodes
  PROVE  /\ Schedulable(wt) =>
              Contents(RegenerateAllSchedules(wt))[n] = TableOf(wt, n)
         /\ ~Schedulable(wt) => RegenerateAllSchedules(wt) = schedule_tables
         /\ schedule_tables[n] # NoTable => RegenerateAllSchedules(wt)[n] # NoTable
<1>1. TableOf(wt, n) # NoTable
  BY TableOfType, ConstantsAssumption
<1>2. n \notin ScheduledNodes(wt) => TableOf(wt, n) = EmptyTable
  BY DEF ScheduledNodes, TableOf, EmptyTable
<1>3. schedule_tables[n] # NoTable => n \in ScheduledNodes(wt)
  BY DEF ScheduledNodes
<1>4. CASE Schedulable(wt)
  <2>1. RegenerateAllSchedules(wt)[n] =
          IF n \in ScheduledNodes(wt) THEN TableOf(wt, n) ELSE NoTable
    BY <1>4 DEF RegenerateAllSchedules
  <2> QED
    BY <1>1, <1>2, <1>3, <1>4, <2>1 DEF Contents
<1>5. CASE ~Schedulable(wt)
  BY <1>5 DEF RegenerateAllSchedules
<1> QED
  BY <1>4, <1>5

\* The two ways in which a request takes a workload away: RemoveWorkload() and
\* the roll back of a failed AddSchedInfo().
Shrink(w) ==
  LET removed == [workload_tasks EXCEPT ![w] = Absent]
  IN /\ workload_tasks' = removed
     /\ schedule_tables' \in {schedule_tables, RegenerateAllSchedules(removed)}
     /\ UNCHANGED schedule_changed

\* Erasing a workload, feasible or not, keeps ServiceInv, and the new tables are
\* covered by the old ones.
LEMMA ShrinkStep ==
  ASSUME TypeOK, ServiceInv, NEW w \in Workloads, Shrink(w)
  PROVE  /\ ServiceInv'
         /\ \A n \in Nodes : Covers(Contents(schedule_tables)[n],
                                    Contents(schedule_tables')[n])
<1> DEFINE removed == [workload_tasks EXCEPT ![w] = Absent]
<1>0. removed \in [Workloads -> Entry \cup {Absent}]
  BY DEF TypeOK
<1>1. workload_tasks' = removed
  BY DEF Shrink
<1>2. ASSUME NEW n \in Nodes
      PROVE  /\ Covers(Contents(schedule_tables')[n], TableOf(removed, n))
             /\ Covers(Contents(schedule_tables)[n], Contents(schedule_tables')[n])
             /\ schedule_tables[n] # NoTable => schedule_tables'[n] # NoTable
  <2>1. Covers(Contents(schedule_tables)[n], TableOf(workload_tasks, n))
    BY DEF ServiceInv
  <2>2. Covers(TableOf(workload_tasks, n), TableOf(removed, n))
    BY RemovalCovered, Zenon DEF TypeOK
  <2>3. Covers(Contents(schedule_tables)[n], TableOf(removed, n))
    BY <2>1, <2>2, CoversTransitive
  <2>4. CASE schedule_tables' = schedule_tables
    BY <2>3, <2>4, CoversReflexive
  <2>5. CASE schedule_tables' = RegenerateAllSchedules(removed)
    <3>1. CASE Schedulable(removed)
      <4>1. Contents(schedule_tables')[n] = TableOf(removed, n)
        BY <1>0, <2>5, <3>1, RegenerateContents, Zenon
      <4>2. schedule_tables[n] # NoTable => schedule_tables'[n] # NoTable
        BY <1>0, <2>5, RegenerateContents, Zenon
      <4> QED
        BY <2>3, <4>1, <4>2, CoversReflexive
    <3>2. CASE ~Schedulable(removed)
      <4>1. schedule_tables' = schedule_tables
        BY <1>0, <2>5, <3>2, RegenerateContents, Zenon
      <4> QED
        BY <2>4, <4>1
    <3> QED
      BY <3>1, <3>2
  <2> QED
    BY <2>4, <2>5 DEF Shrink
<1>3. schedule_changed' => \E n \in Nodes : schedule_tables'[n] # NoTable
  BY <1>2 DEF ServiceInv, Shrink
<1> QED
  BY <1>1, <1>2, <1>3, Zenon DEF ServiceInv

\* An accepted AddSchedInfo().
Grow(w, entry) ==
  LET added == [workload_tasks EXCEPT ![w] = entry]
  IN /\ Schedulable(added)
     /\ workload_tasks' = added
     /\ schedule_tables' = RegenerateAllSchedules(added)
     /\ schedule_changed' = TRUE

\* An accepted AddSchedInfo keeps ServiceInv, and leaves no node without its tables.
LEMMA GrowStep ==
  ASSUME TypeOK, NEW w \in Workloads, NEW entry \in Entry, Grow(w, entry)
  PROVE  ServiceInv'
<1> DEFINE added == [workload_tasks EXCEPT ![w] = entry]
<1>1. added \in [Workloads -> Entry \cup {Absent}]
  BY DEF TypeOK
<1>2. \A n \in Nodes : Contents(schedule_tables')[n] = TableOf(added, n)
  BY <1>1, RegenerateContents, Zenon DEF Grow
<1>3. PICK n \in Nodes : n \in entry.target_nodes
  BY DEF Entry
<1>4. n \in ScheduledNodes(added)
  BY <1>3 DEF ScheduledNodes, TypeOK
<1>5. schedule_tables'[n] = TableOf(added, n)
  BY <1>4 DEF Grow, RegenerateAllSchedules
<1>6. schedule_tables'[n] # NoTable
  BY <1>1, <1>5, TableOfType, ConstantsAssumption, ZenonT(40)
<1>7. \A m \in Nodes : Covers(Contents(schedule_tables')[m], TableOf(added, m))
  BY <1>2, CoversReflexive, Zenon
<1> QED
  BY <1>6, <1>7, Zenon DEF ServiceInv, Grow

\* The requests, as ways to touch the service's state.
LEMMA AddMoves ==
  ASSUME NEW w \in Workloads, NEW entry \in Entry, AddSchedInfo(w, entry)
  PROVE  (Grow(w, entry) \/ Shrink(w)) /\ UNCHANGED loopVars
BY DEF AddSchedInfo, Grow, Shrink

\* A STOP erases a workload, or changes nothing.
LEMMA RemoveMoves ==
  ASSUME NEW w \in Workloads, EnforceRecoveryPolicy(w)
  PROVE  Shrink(w) /\ UNCHANGED loopVars
BY DEF EnforceRecoveryPolicy, RemoveWorkload, Shrink

\* Every step keeps ServiceInv.
LEMMA ServiceStep == TypeOK /\ ServiceInv /\ [Next]_vars => ServiceInv'
<1> SUFFICES ASSUME TypeOK, ServiceInv, [Next]_vars PROVE ServiceInv'
  OBVIOUS
<1>1. CASE GetScheduleTables
  BY <1>1 DEF GetScheduleTables, ServiceInv
<1>2. CASE UNCHANGED serviceVars
  BY <1>2 DEF serviceVars, ServiceInv
<1>3. ASSUME NEW w \in Workloads, NEW entry \in Entry, AddSchedInfo(w, entry)
      PROVE  ServiceInv'
  BY <1>3, AddMoves, GrowStep, ShrinkStep
<1>4. ASSUME NEW w \in Workloads, EnforceRecoveryPolicy(w)
      PROVE  ServiceInv'
  BY <1>4, RemoveMoves, ShrinkStep, SMTT(30)
<1>5. \/ \E w \in Workloads, entry \in Entry : AddSchedInfo(w, entry)
      \/ \E w \in Workloads : EnforceRecoveryPolicy(w)
      \/ GetScheduleTables
      \/ UNCHANGED serviceVars
  BY ConstantsAssumption, ZenonT(40)
  DEF Next, ReplayLoop, BroadcastStop, HandlerRegister, HandlerEnd, UpdateMarks,
      PushLookup, PushWrite, FinishRound, RetryDue, Connect, Disconnect, Restart,
      NodeRead, vars, serviceVars
<1> QED
  BY <1>1, <1>2, <1>3, <1>4, <1>5

-----------------------------------------------------------------------------
(* No accepted workload is lost between the service and the loop's marks *)

\* During a round the snapshot holds all that the service asks for, unless the
\* flag is set again; and what was pushed to the synced nodes holds what the
\* snapshot asks for, unless the round has still to compare the tables.
CoverInv ==
  /\ pc # "sleep" /\ ~schedule_changed =>
       \A n \in Nodes : Covers(Contents(sched_tables)[n], Contents(schedule_tables)[n])
  /\ pc \in {"push", "write"} \/ (pc = "marks" /\ ~changed) =>
       \A n \in synced_nodes : Covers(last_pushed_tables[n], Contents(sched_tables)[n])
  /\ SyncedCoversService
  /\ ChangeHasTables

\* Taking tasks away from the service keeps every mark of the loop valid.
LEMMA CoverShrink ==
  ASSUME TypeOK, ServiceInv, CoverInv, NEW w \in Workloads, Shrink(w),
         UNCHANGED loopVars
  PROVE  CoverInv'
<1>1. \A n \in Nodes : Covers(Contents(schedule_tables)[n], Contents(schedule_tables')[n])
  BY ShrinkStep
<1>2. synced_nodes \subseteq Nodes
  BY DEF TypeOK
<1>3. /\ schedule_changed' = schedule_changed
      /\ UNCHANGED <<pc, changed, sched_tables, synced_nodes, last_pushed_tables>>
  BY DEF Shrink, loopVars
<1>4. Contents(sched_tables)' = Contents(sched_tables)
  BY <1>3 DEF Contents
<1>5. Contents(schedule_tables)' = Contents(schedule_tables')
  BY DEF Contents
<1>6. (pc # "sleep" /\ ~schedule_changed =>
         \A n \in Nodes : Covers(Contents(sched_tables)[n], Contents(schedule_tables)[n]))'
  BY <1>1, <1>3, <1>4, <1>5, CoversTransitive DEF CoverInv
<1>7. SyncedCoversService'
  BY <1>1, <1>2, <1>3, <1>5, CoversTransitive DEF CoverInv, SyncedCoversService
<1>8. ChangeHasTables'
  BY <1>3 DEF CoverInv, ChangeHasTables, NoSchedule
<1> QED
  BY <1>3, <1>4, <1>6, <1>7, <1>8, Zenon DEF CoverInv

\* Every step keeps CoverInv: what the loop counts as synced covers the service.
LEMMA CoverStep ==
  TypeOK /\ ServiceInv /\ MarksInv /\ CoverInv /\ [Next]_vars => CoverInv'
<1> SUFFICES ASSUME TypeOK, ServiceInv, MarksInv, CoverInv, [Next]_vars
             PROVE  CoverInv'
  OBVIOUS
<1>1. ASSUME NEW w \in Workloads, NEW entry \in Entry, AddSchedInfo(w, entry)
      PROVE  CoverInv'
  <2>1. CASE Grow(w, entry) /\ UNCHANGED loopVars
    BY <2>1, Zenon DEF Grow, loopVars, CoverInv, SyncedCoversService, ChangeHasTables,
                NoSchedule, Contents
  <2> QED
    BY <1>1, <2>1, AddMoves, CoverShrink, SMTT(30)
<1>2. ASSUME NEW w \in Workloads, EnforceRecoveryPolicy(w)
      PROVE  CoverInv'
  BY <1>2, RemoveMoves, CoverShrink, SMTT(30)
<1>3. CASE GetScheduleTables
  <2>1. /\ pc = "sleep" /\ pc' = "marks"
        /\ sched_tables' = schedule_tables /\ schedule_tables' = schedule_tables
        /\ changed' = schedule_changed
        /\ UNCHANGED <<synced_nodes, last_pushed_tables>>
    BY <1>3 DEF GetScheduleTables
  <2>2. \A n \in Nodes : Covers(Contents(sched_tables')[n], Contents(schedule_tables')[n])
    BY <2>1, CoversReflexive, SMTT(30)
  <2>3. ~changed' => \A n \in synced_nodes :
                       Covers(last_pushed_tables[n], Contents(sched_tables')[n])
    BY <2>1 DEF CoverInv, SyncedCoversService
  <2>4. changed' => \E n \in Nodes : sched_tables'[n] # NoTable
    BY <2>1 DEF ServiceInv
  <2> QED
    BY <2>1, <2>2, <2>3, <2>4
    DEF CoverInv, SyncedCoversService, ChangeHasTables, NoSchedule, Contents
<1>4. CASE UpdateMarks
  <2>1. pc = "marks" /\ (changed => ~NoSchedule)
    BY <1>4 DEF UpdateMarks, CoverInv, ChangeHasTables
  <2>2. UNCHANGED <<schedule_tables, schedule_changed>>
    BY <1>4 DEF UpdateMarks, serviceVars
  <2>3. ASSUME NEW n \in synced_nodes'
        PROVE  Covers(last_pushed_tables'[n], Contents(sched_tables)[n])
    <3>1. n \in synced_nodes /\ n \in known_connected_nodes /\ n \notin unmarked /\ n \in Nodes
      BY <1>4, <2>3 DEF UpdateMarks, MarksInv, TypeOK
    <3>2. n \in connected /\ n \notin new /\ n \notin gone
      BY <3>1 DEF unmarked, gone, new
    <3>3. last_pushed_tables'[n] = last_pushed_tables[n]
      BY <1>4, <2>1, <3>1, <3>2, SMTT(30) DEF UpdateMarks, forgotten
    <3>4. CASE changed
      <4>1. n \notin outdated
        BY <2>1, <3>1, <3>4 DEF unmarked
      <4>2. last_pushed_tables[n] = Contents(sched_tables)[n]
        BY <3>2, <4>1 DEF outdated, TableToPush
      <4> QED
        BY <3>3, <4>2, CoversReflexive
    <3>5. CASE ~changed
      BY <2>1, <3>1, <3>3, <3>5, SMTT(30) DEF CoverInv
    <3> QED
      BY <3>4, <3>5, SMTT(30)
  <2>4. CASE pc' = "push"
    <3>1. sched_tables' = sched_tables
      BY <1>4, <2>4 DEF UpdateMarks, EndRound
    <3> QED
      BY <2>1, <2>2, <2>3, <2>4, <3>1
      DEF CoverInv, SyncedCoversService, ChangeHasTables, Contents
  <2>5. CASE pc' = "sleep"
    <3>1. synced_nodes' \subseteq Nodes
      BY <1>4 DEF UpdateMarks, TypeOK
    <3>2. ASSUME ~schedule_changed', NEW n \in synced_nodes'
          PROVE  Covers(last_pushed_tables'[n], Contents(schedule_tables)[n])
      <4>1. Covers(Contents(sched_tables)[n], Contents(schedule_tables)[n])
        BY <2>1, <2>2, <3>1, <3>2, SMTT(30) DEF CoverInv
      <4> QED
        BY <2>3, <3>2, <4>1, CoversTransitive
    <3> QED
      BY <2>2, <2>5, <3>2
      DEF CoverInv, SyncedCoversService, ChangeHasTables, Contents
  <2> QED
    BY <1>4, <2>4, <2>5, SMTT(30) DEF UpdateMarks, EndRound
<1>5. ASSUME NEW n \in Nodes, PushLookup(n)
      PROVE  CoverInv'
  BY <1>5, SMTT(30) DEF PushLookup, serviceVars, CoverInv, SyncedCoversService,
              ChangeHasTables, NoSchedule, Contents
<1>6. CASE PushWrite
  <2>1. PICK n \in Nodes : target[1] = n
    BY <1>6 DEF PushWrite, TypeOK
  <2>2. /\ pc = "write" /\ pc' = "push"
        /\ UNCHANGED <<schedule_tables, schedule_changed, sched_tables, changed>>
    BY <1>6 DEF PushWrite, serviceVars
  <2>3. \/ /\ synced_nodes' = synced_nodes \cup {n}
           /\ last_pushed_tables' = [last_pushed_tables EXCEPT ![n] = TableToPush(n)]
        \/ /\ synced_nodes' \subseteq synced_nodes
           /\ last_pushed_tables' = last_pushed_tables
    BY <1>6, <2>1 DEF PushWrite
  <2>4. ASSUME NEW m \in synced_nodes'
        PROVE  Covers(last_pushed_tables'[m], Contents(sched_tables)[m])
    <3>1. CASE m = n /\ last_pushed_tables' = [last_pushed_tables EXCEPT ![n] = TableToPush(n)]
      BY <3>1, CoversReflexive, SMTT(30) DEF TypeOK, TableToPush
    <3>2. CASE m \in synced_nodes /\ last_pushed_tables'[m] = last_pushed_tables[m]
      BY <2>2, <3>2, ZenonT(40) DEF CoverInv
    <3> QED
      BY <2>3, <2>4, <3>1, <3>2 DEF TypeOK
  <2> QED
    BY <2>2, <2>4, Zenon DEF CoverInv, SyncedCoversService, ChangeHasTables, Contents
<1>7. CASE FinishRound
  <2>1. /\ pc = "push" /\ pc' = "sleep"
        /\ UNCHANGED <<schedule_tables, schedule_changed, synced_nodes, last_pushed_tables>>
    BY <1>7 DEF FinishRound, EndRound, serviceVars
  <2>2. ASSUME ~schedule_changed, NEW n \in synced_nodes
        PROVE  Covers(last_pushed_tables[n], Contents(schedule_tables)[n])
    BY <2>1, <2>2, CoversTransitive, SMTT(30) DEF CoverInv, TypeOK
  <2> QED
    BY <2>1, <2>2 DEF CoverInv, SyncedCoversService, ChangeHasTables, Contents
<1>8. CASE UNCHANGED <<schedule_tables, schedule_changed, pc, changed, sched_tables,
                       synced_nodes, last_pushed_tables>>
  BY <1>8, SMTT(30) DEF CoverInv, SyncedCoversService, ChangeHasTables, NoSchedule, Contents
<1>9. \/ \E w \in Workloads, entry \in Entry : AddSchedInfo(w, entry)
      \/ \E w \in Workloads : EnforceRecoveryPolicy(w)
      \/ GetScheduleTables \/ UpdateMarks \/ PushWrite \/ FinishRound
      \/ \E n \in Nodes : PushLookup(n)
      \/ UNCHANGED <<schedule_tables, schedule_changed, pc, changed, sched_tables,
                     synced_nodes, last_pushed_tables>>
  BY ConstantsAssumption, ZenonT(40)
  DEF Next, ReplayLoop, BroadcastStop, HandlerRegister, HandlerEnd, RetryDue,
      Connect, Disconnect, Restart, NodeRead, vars, serviceVars, loopVars
<1> QED
  BY <1>1, <1>2, <1>3, <1>4, <1>5, <1>6, <1>7, <1>8, <1>9

\* Both facts about the flag and the marks, from the three invariants together.
LEMMA Covering == Spec => [](SyncedCoversService /\ ChangeHasTables)
<1>1. Init => ServiceInv
  <2> SUFFICES ASSUME Init PROVE ServiceInv
    OBVIOUS
  <2>1. \A n \in Nodes : TableOf(workload_tasks, n) = EmptyTable
    BY Zenon DEF Init, TableOf, Absent, EmptyTable
  <2>2. \A n \in Nodes : Contents(schedule_tables)[n] = EmptyTable
    BY Zenon DEF Init, Contents
  <2> QED
    BY <2>1, <2>2, CoversReflexive DEF Init, ServiceInv
<1>2. Init => MarksInv
  BY DEF Init, MarksInv, ReplayNotForgotten
<1>3. Init => CoverInv
  BY DEF Init, CoverInv, SyncedCoversService, ChangeHasTables
<1>4. CoverInv => SyncedCoversService /\ ChangeHasTables
  BY DEF CoverInv
<1> QED
  BY <1>1, <1>2, <1>3, <1>4, ServiceStep, MarksStep, CoverStep, Typing, PTL DEF Spec

(* What the loop last pushed to a node it counts as synced holds everything *)
(* the service has accepted for that node, for any number of nodes,         *)
(* workloads and requests.                                                  *)
THEOREM SyncedIsEnough == Spec => []SyncedCoversService
BY Covering, PTL

(* The loop's branch for a change without tables is never taken. *)
THEOREM ChangeNeverEmpty == Spec => []ChangeHasTables
BY Covering, PTL

-----------------------------------------------------------------------------
(* Refinement: the nodes follow the log *)

\* Position i of the wire of node n holds a table.
IsTable(n, i) == i \in DOMAIN wire[n] /\ wire[n][i].kind = "full_table"

\* The last version of the log is the service's tables, and the loop's snapshot
\* is one version of it.
SnapshotInv ==
  /\ Len(log) >= 1
  /\ pc # "sleep" => /\ sched_version \in 1..Len(log)
                     /\ Contents(sched_tables) = log[sched_version]
  /\ log[Len(log)] = Contents(schedule_tables)

\* A table under way is a version of the log, not older than what its node has
\* applied and not newer than the snapshot of the round; and the wire holds
\* versions in order.
NodeWire(n) ==
  /\ applied[n] \in 1..Len(log)
  /\ pc # "sleep" => applied[n] <= sched_version
  /\ \A i \in DOMAIN wire[n] : IsTable(n, i) =>
       /\ wire[n][i].version \in applied[n]..Len(log)
       /\ wire[n][i].table = log[wire[n][i].version][n]
       /\ pc # "sleep" => wire[n][i].version <= sched_version
  /\ \A i, j \in DOMAIN wire[n] :
       IsTable(n, i) /\ IsTable(n, j) /\ i < j
         => wire[n][i].version <= wire[n][j].version

WireInv == \A n \in Nodes : NodeWire(n)

\* Every step keeps the snapshot of the loop a version of the log.
LEMMA SnapshotStep == TypeOK /\ SnapshotInv /\ [Next]_vars => SnapshotInv'
<1> SUFFICES ASSUME TypeOK, SnapshotInv, [Next]_vars PROVE SnapshotInv'
  OBVIOUS
<1>1. CASE log' = Append(log, Contents(schedule_tables')) /\ UNCHANGED loopVars
  BY <1>1, SMTT(30) DEF SnapshotInv, TypeOK, loopVars, Contents
<1>2. CASE GetScheduleTables
  BY <1>2 DEF GetScheduleTables, SnapshotInv, TypeOK, Contents
<1>3. CASE UpdateMarks
  BY <1>3 DEF UpdateMarks, EndRound, SnapshotInv, serviceVars, Contents
<1>4. CASE FinishRound
  BY <1>4 DEF FinishRound, EndRound, SnapshotInv, serviceVars, Contents
<1>5. CASE /\ UNCHANGED <<log, schedule_tables, sched_tables, sched_version>>
           /\ pc # "sleep" \/ pc' = pc
  BY <1>5 DEF SnapshotInv, Contents
<1>6. \/ log' = Append(log, Contents(schedule_tables')) /\ UNCHANGED loopVars
      \/ GetScheduleTables \/ UpdateMarks \/ FinishRound
      \/ /\ UNCHANGED <<log, schedule_tables, sched_tables, sched_version>>
         /\ pc # "sleep" \/ pc' = pc
  BY ZenonT(60)
  DEF Next, ReplayLoop, AddSchedInfo, EnforceRecoveryPolicy, RemoveWorkload, BroadcastStop,
      HandlerRegister, HandlerEnd, PushLookup, PushWrite, RetryDue, Connect,
      Disconnect, Restart, NodeRead, vars, serviceVars, loopVars
<1> QED
  BY <1>1, <1>2, <1>3, <1>4, <1>5, <1>6, SMTT(30)

\* What every step does to the log and to the snapshot: versions are only added,
\* and a snapshot in use stays or is the last version.
LogKept == Len(log) <= Len(log') /\ \A v \in 1..Len(log) : log'[v] = log[v]

SnapshotMoves ==
  pc' # "sleep" => \/ pc # "sleep" /\ sched_version' = sched_version
                   \/ sched_version' = Len(log)

\* What a step may do to the commands under way to a node: leave its tables
\* alone, add the table of the snapshot, lose everything with the process, or
\* hand the first command to the node.
WireKept(n) ==
  /\ applied'[n] = applied[n]
  /\ \A i : IsTable(n, i)' => IsTable(n, i) /\ wire'[n][i] = wire[n][i]

WirePushed(n) ==
  /\ pc = "write" /\ pc' = "push"
  /\ UNCHANGED <<log, sched_version>>
  /\ applied'[n] = applied[n]
  /\ wire'[n] = Append(wire[n], TableCmd(log[sched_version][n], sched_version))

WireReset(n) == wire'[n] = <<>> /\ applied'[n] = 1

WireRead(n) ==
  /\ wire[n] # <<>>
  /\ wire'[n] = Tail(wire[n])
  /\ \/ IsTable(n, 1) /\ applied'[n] = wire[n][1].version
     \/ applied'[n] = applied[n]
  /\ UNCHANGED <<log, pc, sched_version>>

\* Every step extends the log and keeps the snapshot.
LEMMA LogStep ==
  TypeOK /\ [Next]_vars => Len(log') \in Nat /\ LogKept /\ SnapshotMoves
<1> SUFFICES ASSUME TypeOK, [Next]_vars
             PROVE  Len(log') \in Nat /\ LogKept /\ SnapshotMoves
  OBVIOUS
<1>1. log \in Seq([Nodes -> Table])
  BY DEF TypeOK
<1>2. \/ UNCHANGED log
      \/ log' = Append(log, Contents(schedule_tables'))
  BY Zenon
  DEF Next, ReplayLoop, AddSchedInfo, EnforceRecoveryPolicy, BroadcastStop,
      HandlerRegister, HandlerEnd, GetScheduleTables, UpdateMarks, PushLookup,
      PushWrite, FinishRound, RetryDue, Connect, Disconnect, Restart, NodeRead,
      vars, serviceVars
<1>3. Len(log') \in Nat /\ LogKept
  <2>1. CASE UNCHANGED log
    BY <1>1, <2>1 DEF LogKept
  <2>2. CASE log' = Append(log, Contents(schedule_tables'))
    BY <1>1, <2>2 DEF LogKept
  <2> QED
    BY <1>2, <2>1, <2>2
<1>4. SnapshotMoves
  BY Zenon
  DEF SnapshotMoves, Next, ReplayLoop, AddSchedInfo, EnforceRecoveryPolicy, BroadcastStop,
         HandlerRegister, HandlerEnd, GetScheduleTables, UpdateMarks, PushLookup,
         PushWrite, FinishRound, EndRound, RetryDue, Connect, Disconnect, Restart,
         NodeRead, vars, loopVars
<1> QED
  BY <1>3, <1>4

\* The four outcomes are all there are.
LEMMA WireOutcome ==
  ASSUME TypeOK, SnapshotInv, [Next]_vars, NEW n \in Nodes
  PROVE  WireKept(n) \/ WirePushed(n) \/ WireReset(n) \/ WireRead(n)
<1>0. wire \in [Nodes -> Seq(Commands)] /\ wire[n] \in Seq(Commands)
  BY SMTT(30) DEF TypeOK, Commands
<1>1. CASE UNCHANGED <<wire, applied>>
  BY <1>1, SMTT(30) DEF WireKept, IsTable
<1>2. ASSUME NEW w \in Workloads, BroadcastStop(w)
      PROVE  WireKept(n)
  <2>1. /\ applied' = applied
        /\ wire'[n] \in {wire[n], Append(wire[n], StopCmd(w))}
    BY <1>2 DEF BroadcastStop
  <2>2. ASSUME NEW i, IsTable(n, i)'
        PROVE  IsTable(n, i) /\ wire'[n][i] = wire[n][i]
    <3>1. CASE wire'[n] = wire[n]
      BY <2>2, <3>1, SMTT(30) DEF IsTable
    <3>2. CASE wire'[n] = Append(wire[n], StopCmd(w))
      BY <1>0, <2>2, <3>2 DEF IsTable, StopCmd
    <3> QED
      BY <2>1, <3>1, <3>2
  <2> QED
    BY <2>1, <2>2 DEF WireKept
<1>3. CASE PushWrite
  <2>1. target \in Nodes \X (Streams \cup {NoStream})
    BY <1>3 DEF PushWrite, TypeOK
  <2>2. PICK m \in Nodes, k \in Streams \cup {NoStream} : target = <<m, k>>
    BY <2>1
  <2>3. /\ pc = "write" /\ pc' = "push"
        /\ UNCHANGED <<log, sched_version, applied>>
        /\ \/ wire' = wire
           \/ wire' = [wire EXCEPT ![m] = Append(@, TableCmd(TableToPush(m), sched_version))]
    BY <1>3, <2>2 DEF PushWrite, serviceVars
  <2>4. TableToPush(m) = log[sched_version][m]
    BY <2>3 DEF TableToPush, SnapshotInv
  <2>5. CASE wire'[n] = wire[n]
    BY <2>3, <2>5, SMTT(30) DEF WireKept, IsTable
  <2>6. CASE m = n /\ wire'[n] = Append(wire[n], TableCmd(TableToPush(m), sched_version))
    BY <2>3, <2>4, <2>6 DEF WirePushed
  <2> QED
    BY <1>0, <2>3, <2>5, <2>6, SMTT(30)
<1>4. ASSUME NEW m \in Nodes, Disconnect(m) \/ Restart(m)
      PROVE  WireKept(n) \/ WireReset(n)
  <2>1. CASE wire'[n] = wire[n] /\ applied'[n] = applied[n]
    BY <2>1 DEF WireKept, IsTable
  <2>2. CASE wire'[n] = <<>> /\ applied'[n] = applied[n]
    BY <2>2 DEF WireKept, IsTable
  <2>3. CASE wire'[n] = <<>> /\ applied'[n] = 1
    BY <2>3 DEF WireReset
  <2>4. applied \in [Nodes -> Nat]
    BY DEF TypeOK
  <2> QED
    BY <1>0, <1>4, <2>1, <2>2, <2>3, <2>4, SMTT(30) DEF Disconnect, Restart
<1>5. ASSUME NEW m \in Nodes, NodeRead(m)
      PROVE  WireKept(n) \/ WireRead(n)
  <2>1. applied \in [Nodes -> Nat]
    BY DEF TypeOK
  <2>2. CASE m # n
    <3>1. wire'[n] = wire[n] /\ applied'[n] = applied[n]
      BY <1>0, <1>5, <2>1, <2>2, ZenonT(60) DEF NodeRead
    <3> QED
      BY <3>1 DEF WireKept, IsTable
  <2>3. CASE m = n
    <3>1. wire[n] # <<>> /\ wire'[n] = Tail(wire[n]) /\ UNCHANGED <<log, pc, sched_version>>
      BY <1>0, <1>5, <2>3 DEF NodeRead, serviceVars, loopVars
    <3>2. 1 \in DOMAIN wire[n] /\ Head(wire[n]) = wire[n][1]
      BY <1>0, <3>1
    <3>3. \/ IsTable(n, 1) /\ applied'[n] = wire[n][1].version
          \/ applied'[n] = applied[n]
      BY <1>5, <2>1, <2>3, <3>2 DEF NodeRead, IsTable
    <3> QED
      BY <3>1, <3>3 DEF WireRead
  <2> QED
    BY <2>2, <2>3
<1>6. \/ UNCHANGED <<wire, applied>>
      \/ \E w \in Workloads : BroadcastStop(w)
      \/ PushWrite
      \/ \E m \in Nodes : Disconnect(m) \/ Restart(m) \/ NodeRead(m)
  BY Zenon
  DEF Next, ReplayLoop, AddSchedInfo, EnforceRecoveryPolicy, HandlerRegister,
         HandlerEnd, GetScheduleTables, UpdateMarks, PushLookup, FinishRound,
         RetryDue, Connect, vars, nodeVars
<1> QED
  BY <1>1, <1>2, <1>3, <1>4, <1>5, <1>6

\* Every step keeps what is under way to a node in the order of the log, and no
\* older than what the node has applied.
LEMMA WireStep ==
  ASSUME TypeOK, SnapshotInv, WireInv, [Next]_vars
  PROVE  WireInv'
<1> SUFFICES ASSUME NEW n \in Nodes PROVE NodeWire(n)'
  BY DEF WireInv
<1>0. /\ wire[n] \in Seq(Commands)
      /\ Len(log) \in Nat /\ Len(log) >= 1
      /\ DOMAIN wire[n] = 1..Len(wire[n]) /\ Len(wire[n]) \in Nat
  BY DEF TypeOK, Commands, SnapshotInv
<1>1. LogKept /\ SnapshotMoves /\ SnapshotInv'
  BY LogStep, SnapshotStep
<1>2. Len(log') \in Nat /\ Len(log) <= Len(log') /\ 1 <= Len(log')
  BY <1>0, LogStep, SMTT(30) DEF LogKept
<1>3. /\ applied[n] \in 1..Len(log)
      /\ pc # "sleep" => applied[n] <= sched_version
  BY SMTT(30) DEF WireInv, NodeWire
<1>4. ASSUME NEW i, IsTable(n, i)
      PROVE  /\ i \in DOMAIN wire[n]
             /\ wire[n][i].version \in applied[n]..Len(log)
             /\ wire[n][i].table = log[wire[n][i].version][n]
             /\ pc # "sleep" => wire[n][i].version <= sched_version
  <2>1. i \in DOMAIN wire[n]
    BY <1>4, SMTT(30) DEF IsTable
  <2> QED
    BY <1>4, <2>1 DEF WireInv, NodeWire
<1>5. ASSUME NEW i, NEW j, IsTable(n, i), IsTable(n, j), i < j
      PROVE  wire[n][i].version <= wire[n][j].version
  <2>1. i \in DOMAIN wire[n] /\ j \in DOMAIN wire[n]
    BY <1>5, SMTT(30) DEF IsTable
  <2> QED
    BY <1>5, <2>1 DEF WireInv, NodeWire
\* It is enough to show the four parts of NodeWire(n) in the next state.
<1>6. ASSUME applied'[n] \in 1..Len(log'),
             pc' # "sleep" => applied'[n] <= sched_version',
             \A i : IsTable(n, i)' =>
               /\ wire'[n][i].version \in applied'[n]..Len(log')
               /\ wire'[n][i].table = log'[wire'[n][i].version][n]
               /\ pc' # "sleep" => wire'[n][i].version <= sched_version',
             \A i, j : IsTable(n, i)' /\ IsTable(n, j)' /\ i < j =>
               wire'[n][i].version <= wire'[n][j].version
      PROVE  NodeWire(n)'
  BY <1>6, SMTT(30) DEF NodeWire
<1>7. CASE WireKept(n)
  <2>1. /\ applied'[n] \in 1..Len(log')
        /\ pc' # "sleep" => applied'[n] <= sched_version'
    BY <1>0, <1>1, <1>2, <1>3, <1>7, SMTT(30) DEF WireKept, SnapshotMoves
  <2>2. ASSUME NEW i, IsTable(n, i)'
        PROVE  /\ wire'[n][i].version \in applied'[n]..Len(log')
               /\ wire'[n][i].table = log'[wire'[n][i].version][n]
               /\ pc' # "sleep" => wire'[n][i].version <= sched_version'
    <3>1. /\ IsTable(n, i) /\ wire'[n][i] = wire[n][i]
          /\ applied'[n] = applied[n]
      BY <1>7, <2>2, SMTT(30) DEF WireKept
    <3>2. /\ wire[n][i].version \in applied[n]..Len(log)
          /\ wire[n][i].table = log[wire[n][i].version][n]
          /\ pc # "sleep" => wire[n][i].version <= sched_version
      BY <1>4, <3>1, ZenonT(60)
    <3>3. log'[wire[n][i].version] = log[wire[n][i].version]
      BY <1>0, <1>1, <1>3, <3>2, SMTT(30) DEF LogKept
    <3> QED
      BY <1>0, <1>1, <1>2, <1>3, <3>1, <3>2, <3>3, SMTT(30) DEF SnapshotMoves
  <2>3. ASSUME NEW i, NEW j, IsTable(n, i)', IsTable(n, j)', i < j
        PROVE  wire'[n][i].version <= wire'[n][j].version
    BY <1>5, <1>7, <2>3, SMTT(30) DEF WireKept
  <2> QED
    BY <1>6, <2>1, <2>2, <2>3
<1>8. CASE WirePushed(n)
  <2> DEFINE cmd == TableCmd(log[sched_version][n], sched_version)
  <2>1. /\ pc # "sleep" /\ pc' # "sleep" /\ UNCHANGED <<log, sched_version>>
        /\ applied'[n] = applied[n]
        /\ wire'[n] = Append(wire[n], cmd)
        /\ sched_version \in 1..Len(log)
    BY <1>8 DEF WirePushed, SnapshotInv
  <2>2. cmd.version = sched_version /\ cmd.table = log[sched_version][n]
    BY SMTT(30) DEF TableCmd
  <2> HIDE DEF cmd
  <2>3. ASSUME NEW i, IsTable(n, i)'
        PROVE  \/ IsTable(n, i) /\ wire'[n][i] = wire[n][i] /\ i < Len(wire[n]) + 1
               \/ i = Len(wire[n]) + 1 /\ wire'[n][i] = cmd
    <3>1. i \in 1..(Len(wire[n]) + 1)
      BY <1>0, <2>1, <2>3 DEF IsTable
    <3>2. CASE i = Len(wire[n]) + 1
      BY <1>0, <2>1, <3>2
    <3>3. CASE i \in 1..Len(wire[n])
      <4>1. wire'[n][i] = wire[n][i]
        BY <1>0, <2>1, <3>3, SMTT(30)
      <4> QED
        BY <1>0, <2>3, <3>3, <4>1 DEF IsTable
    <3> QED
      BY <1>0, <3>1, <3>2, <3>3, SMTT(30)
  <2>4. ASSUME NEW i, IsTable(n, i)'
        PROVE  /\ wire'[n][i].version \in applied'[n]..Len(log')
               /\ wire'[n][i].table = log'[wire'[n][i].version][n]
               /\ wire'[n][i].version <= sched_version'
    <3>1. CASE IsTable(n, i) /\ wire'[n][i] = wire[n][i]
      BY <1>4, <2>1, <3>1
    <3>2. CASE wire'[n][i] = cmd
      BY <1>0, <1>3, <2>1, <2>2, <3>2, SMTT(30)
    <3> QED
      BY <2>3, <2>4, <3>1, <3>2, SMTT(30)
  <2>5. ASSUME NEW i, NEW j, IsTable(n, i)', IsTable(n, j)', i < j
        PROVE  wire'[n][i].version <= wire'[n][j].version
    <3>1. CASE wire'[n][j] = cmd
      BY <2>1, <2>2, <2>4, <2>5, <3>1, Zenon
    <3>2. CASE IsTable(n, j) /\ wire'[n][j] = wire[n][j] /\ j < Len(wire[n]) + 1
      <4>1. IsTable(n, i) /\ wire'[n][i] = wire[n][i]
        <5>1. j \in DOMAIN wire[n]
          BY <3>2, SMTT(30) DEF IsTable
        <5> QED
          BY <1>0, <2>3, <2>5, <3>2, <5>1
      <4> QED
        BY <1>5, <2>5, <3>2, <4>1
    <3> QED
      BY <2>3, <2>5, <3>1, <3>2, SMTT(30)
  <2> QED
    BY <1>3, <1>6, <2>1, <2>4, <2>5, ZenonT(40)
<1>9. CASE WireReset(n)
  <2>1. \A i : ~IsTable(n, i)'
    BY <1>9 DEF WireReset, IsTable
  <2>2. pc' # "sleep" => 1 <= sched_version'
    BY <1>1, SMTT(30) DEF SnapshotInv
  <2> QED
    BY <1>2, <1>6, <1>9, <2>1, <2>2 DEF WireReset
<1>10. CASE WireRead(n)
  <2>1. /\ wire[n] # <<>> /\ wire'[n] = Tail(wire[n])
        /\ UNCHANGED <<log, pc, sched_version>>
        /\ \/ IsTable(n, 1) /\ applied'[n] = wire[n][1].version
           \/ applied'[n] = applied[n]
    BY <1>10, Zenon DEF WireRead
  <2>2. /\ applied'[n] \in 1..Len(log)
        /\ pc # "sleep" => applied'[n] <= sched_version
    BY <1>0, <1>3, <1>4, <2>1
  <2>3. ASSUME NEW i, IsTable(n, i)'
        PROVE  IsTable(n, i + 1) /\ wire'[n][i] = wire[n][i + 1] /\ i \in Nat \ {0}
    <3>1. i \in 1..(Len(wire[n]) - 1)
      BY <1>0, <2>1, <2>3 DEF IsTable
    <3>2. wire'[n][i] = wire[n][i + 1] /\ i + 1 \in DOMAIN wire[n] /\ i \in Nat \ {0}
      BY <1>0, <2>1, <3>1, SMTT(30)
    <3> QED
      BY <2>3, <3>2 DEF IsTable
  <2>4. ASSUME NEW i, IsTable(n, i)'
        PROVE  /\ wire'[n][i].version \in applied'[n]..Len(log)
               /\ wire'[n][i].table = log[wire'[n][i].version][n]
               /\ pc # "sleep" => wire'[n][i].version <= sched_version
    <3>1. IsTable(n, i + 1) /\ wire'[n][i] = wire[n][i + 1] /\ 1 < i + 1
      BY <2>3, <2>4, SMTT(30)
    <3>2. /\ wire[n][i + 1].version \in applied[n]..Len(log)
          /\ wire[n][i + 1].table = log[wire[n][i + 1].version][n]
          /\ pc # "sleep" => wire[n][i + 1].version <= sched_version
      BY <1>4, <3>1
    <3>3. IsTable(n, 1) => wire[n][1].version <= wire[n][i + 1].version
      BY <1>5, <3>1, SMTT(30)
    <3>4. wire[n][i + 1].version \in applied'[n]..Len(log)
      <4>1. CASE applied'[n] = applied[n]
        BY <3>2, <4>1
      <4>2. CASE IsTable(n, 1) /\ applied'[n] = wire[n][1].version
        <5> DEFINE v == wire[n][i + 1].version
                   a == applied'[n]
        <5>1. a <= v
          BY <3>3, <4>2
        <5>2. v \in applied[n]..Len(log) /\ applied[n] \in 1..Len(log)
          BY <1>3, <3>2
        <5>3. a \in 1..Len(log)
          BY <2>2
        <5> HIDE DEF v, a
        <5>4. v \in a..Len(log)
          BY <1>0, <5>1, <5>2, <5>3
        <5> QED
          BY <5>4 DEF v, a
      <4> QED
        BY <2>1, <4>1, <4>2, SMTT(30)
    <3> QED
      BY <3>1, <3>2, <3>4
  <2>5. ASSUME NEW i, NEW j, IsTable(n, i)', IsTable(n, j)', i < j
        PROVE  wire'[n][i].version <= wire'[n][j].version
    <3>1. /\ IsTable(n, i + 1) /\ wire'[n][i] = wire[n][i + 1]
          /\ IsTable(n, j + 1) /\ wire'[n][j] = wire[n][j + 1]
          /\ i + 1 < j + 1
      BY <2>3, <2>5
    <3> QED
      BY <1>5, <3>1
  <2> QED
    BY <1>6, <2>1, <2>2, <2>4, <2>5, ZenonT(40)
<1> QED
  BY <1>7, <1>8, <1>9, <1>10, WireOutcome

\* Every step is a step of the abstract specification or leaves it alone.
LEMMA StepSimulation ==
  ASSUME TypeOK, SnapshotInv, WireInv, [Next]_vars, TypeOK'
  PROVE  [Replication!Next]_<<log, applied, running>>
<1>1. CASE /\ log' = Append(log, Contents(schedule_tables'))
           /\ UNCHANGED nodeVars
  <2>1. Contents(schedule_tables') \in [Nodes -> Table]
    BY ContentsType DEF TypeOK
  <2>2. UNCHANGED <<applied, running>>
    BY <1>1 DEF nodeVars
  <2>3. Replication!Publish
    BY <1>1, <2>1, <2>2 DEF Replication!Publish, Replication!Tables, Table
  <2> QED
    BY <2>3, SMTT(30) DEF Replication!Next
<1>2. ASSUME NEW n \in Nodes, NodeRead(n)
      PROVE  Replication!Next
  <2>0. /\ wire[n] \in Seq(Commands) /\ wire[n] # <<>>
        /\ UNCHANGED log
    BY <1>2, Zenon DEF NodeRead, serviceVars, TypeOK, Commands
  <2>1. /\ 1 \in DOMAIN wire[n] /\ Head(wire[n]) = wire[n][1]
        /\ wire[n][1] \in Commands
    BY <2>0
  <2>2. CASE wire[n][1].kind = "full_table"
    <3>1. /\ wire[n][1].version \in applied[n]..Len(log)
          /\ wire[n][1].table = log[wire[n][1].version][n]
      BY <2>1, <2>2, Zenon DEF WireInv, NodeWire, IsTable
    <3>2. /\ running' = [running EXCEPT ![n] = wire[n][1].table]
          /\ applied' = [applied EXCEPT ![n] = wire[n][1].version]
      BY <1>2, <2>1, <2>2, SMTT(30) DEF NodeRead
    <3>3. Replication!Apply(n)
      BY <2>0, <3>1, <3>2, Zenon DEF Replication!Apply
    <3> QED
      BY <3>3, SMTT(30) DEF Replication!Next
  <2>3. CASE wire[n][1].kind = "recovery"
    <3>1. wire[n][1].workload \in Workloads
      BY <2>1, <2>3 DEF Commands
    <3>2. Replication!Evict(n, wire[n][1].workload)
      BY <1>2, <2>0, <2>1, <2>3 DEF NodeRead, Replication!Evict
    <3> QED
      BY <3>1, <3>2 DEF Replication!Next
  <2> QED
    BY <2>1, <2>2, <2>3, SMTT(30) DEF Commands
<1>3. ASSUME NEW n \in Nodes, Restart(n)
      PROVE  Replication!Next
  <2>1. Replication!Reset(n)
    BY <1>3 DEF Restart, Replication!Reset, Replication!Nothing, EmptyTable, serviceVars
  <2> QED
    BY <2>1 DEF Replication!Next
<1>4. \/ log' = Append(log, Contents(schedule_tables')) /\ UNCHANGED nodeVars
      \/ \E n \in Nodes : Restart(n) \/ NodeRead(n)
      \/ UNCHANGED <<log, applied, running>>
  BY Zenon
  DEF Next, ReplayLoop, AddSchedInfo, EnforceRecoveryPolicy, RemoveWorkload, BroadcastStop,
      HandlerRegister, HandlerEnd, GetScheduleTables, UpdateMarks, PushLookup,
      PushWrite, FinishRound, RetryDue, Connect, Disconnect, vars, serviceVars,
      nodeVars
<1> QED
  BY <1>1, <1>2, <1>3, <1>4

(* Schedule distribution implements the replicated log: whatever is lost,   *)
(* late, repeated or restarted, no node ever runs a mixture of versions, a  *)
(* version the service never had, or an older one than before.              *)
THEOREM Refinement == Spec => NodesFollowTheLog
<1>1. Init => Replication!Init
  BY DEF Init, Replication!Init, Replication!Nothing, EmptyTable
<1>2. Init => SnapshotInv /\ WireInv
  <2> SUFFICES ASSUME Init PROVE SnapshotInv /\ WireInv
    OBVIOUS
  <2>1. Len(log) = 1 /\ log[1] = [n \in Nodes |-> EmptyTable]
    BY DEF Init
  <2>2. Contents(schedule_tables) = [n \in Nodes |-> EmptyTable]
    BY DEF Init, Contents
  <2>3. \A n \in Nodes : applied[n] = 1 /\ wire[n] = <<>>
    BY ZenonT(40) DEF Init
  <2>4. ASSUME NEW n \in Nodes
        PROVE  NodeWire(n)
    <3>1. applied[n] \in 1..Len(log) /\ pc = "sleep"
      BY <2>1, <2>3 DEF Init
    <3>2. ASSUME NEW i \in DOMAIN wire[n]
          PROVE  FALSE
      BY <2>3, <3>2
    <3> QED
      BY <3>1, <3>2 DEF NodeWire
  <2> QED
    BY <2>1, <2>2, <2>4 DEF Init, SnapshotInv, WireInv
<1>3. TypeOK /\ SnapshotInv /\ WireInv /\ [Next]_vars /\ TypeOK'
        => [Replication!Next]_<<log, applied, running>>
  BY StepSimulation
<1> QED
  BY <1>1, <1>2, <1>3, SnapshotStep, WireStep, Typing, PTL
  DEF Spec, NodesFollowTheLog, Replication!Spec
=============================================================================
