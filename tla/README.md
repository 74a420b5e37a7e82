# A TLA+ model of Timpani

Timpani distributes a time-triggered schedule to the nodes of a vehicle and
executes it there.  This directory models the parts of it where threads,
processes and messages meet, checks them with TLC on small instances, and
proves the most important facts with TLAPS for instances of any size.

`PROJECT.json` is the index: components, runs, mutants, the source lines every
definition stands for, findings, hazards and theorems.

## 1. The system

    Pullpiri --AddSchedInfo / EnforceRecoveryPolicy--> Timpani-O --NodeStream--> Timpani-N --> tasks
    Pullpiri <--NotifyFault--------------------------- Timpani-O <--FaultInfo--- Timpani-N <-- BPF

| Part | Source | State | Operations | What is hard about it |
|---|---|---|---|---|
| SchedInfoService | `timpani-o/src/schedinfo_service.cpp` | `workload_tasks_`, `schedule_tables_`, `schedule_changed_` under one mutex | AddSchedInfo (with its undo), RemoveWorkload, GetScheduleTables | the flag is not set by every change; an update that fails erases its predecessor |
| RecoveryService | `timpani-o/src/recovery_service.cpp` | none | EnforceRecoveryPolicy: remove, then broadcast a STOP | runs beside the replay loop, without its bookkeeping |
| OrchestratorService | `timpani-o/src/orchestrator_service.cpp` | registry `connected_nodes_` | one NodeStream handler thread per stream, push, broadcast, fault intake | two streams of one node at once; a stream used after the registry was unlocked |
| Replay loop | `timpani-o/src/main.cpp` | marks per node: known, synced, back-off, last pushed table | a round every 500 ms | works on a snapshot while everything else goes on |
| NodeClient | `timpani-n/src/grpc/node_client.cpp` | the stream, `connected_` | connect, read, callbacks, reconnect, send | lost commands, early reconnects |
| Table and recovery callbacks | `timpani-n/src/main.cpp` | maps of pids, slots, hashes; BPF maps | apply a table, evict a workload | many steps, each of which may fail |
| FaultMonitor | `timpani-n/src/fault_monitor.cpp` | miss counts, limits, reported workloads | ring buffer callback, reset, new limits | the poll thread runs through the reset |
| FaultServiceClient | `timpani-o/src/fault_client.cpp` | bounded retry queue | NotifyFault, flush | partial failure, lost replies, a full queue |
| TimerMaster | `timpani-n/src/timer_master.cpp` | slots, one thread per CPU, shared memory | new table, start, stop, fire a slot | restart of threads, futex counters re-used across tables |
| libttsched | `sample-apps/src/libttsched.c` | index and generation of a task | wait for the next slot | wakes for a new table look like wakes for a slot |
| BPF scheduler | `timpani-n/src/bpf/timpani.bpf.c` | run counts, CBS budgets | enqueue, dispatch, running, stopping | per-CPU state changed under running tasks |
| GlobalScheduler | `timpani-o/src/global_scheduler.cpp` | none (a function) | place tasks, build TT slots and CBS entries | 32-bit arithmetic, slot collisions |
| Rust orchestrator: barrier | `timpani_rust/timpani-o/src/grpc/` | one workload, `synced_nodes`, a watch channel | AddSchedInfo, SyncTimer | replaced workloads, timeouts, repeated calls |
| Rust orchestrator: scheduler | `timpani_rust/timpani-o/src/scheduler/`, `hyperperiod/` | none (functions) | placement, admission, hyperperiod | float and integer limits |

Generated code, configuration files, statistics, the legacy D-Bus library and
the synthetic applications have no state worth a model; `PROJECT.json` lists
them with the reason.  `timpani-n/src/bpf/aarch64/vmlinux.h`, the kernel's type
declarations as a tool prints them, makes up 112,795 of the 121,382 lines under
`src/`; a share of the code that is covered only means something for the other
8,600.

## 2. The modules

| Module | Models | Checked by | Proved in |
|---|---|---|---|
| `TableDistribution` | service, recovery, registry, replay loop, node streams | `MCTableDistribution` | `TableDistribution_proofs` |
| `TableReplication` | what the above promises to the nodes | (refined by `TableDistribution`) | `TableDistribution_proofs` |
| `NodeExecutor` | the table and recovery callbacks, map by map | `MCNodeExecutor` | `NodeExecutor_proofs` |
| `TimerMaster` | the timer threads, their locks and their clocks | `MCTimerMaster` | `TimerMaster_proofs` |
| `TtSched` | the shared memory and futexes between timer and tasks | `MCTtSched` | `TtSched_proofs` |
| `BpfScheduler` | the sched_ext program | `MCBpfScheduler` | `BpfCallbacks_proofs`, `BpfScheduler_proofs` |
| `FaultReport` | from the BPF event to Pullpiri | `MCFaultReport` | `FaultReport_proofs` |
| `FaultChannel` | what the fault client promises | (refined by `FaultReport`) | `FaultReport_proofs` |
| `GlobalScheduler` | the orchestrator's scheduler | `MCGlobalScheduler` | |
| `SyncBarrier` | the start barrier of the Rust orchestrator | `MCSyncBarrier` | `SyncBarrier_proofs` |
| `RustScheduler` | the scheduler of the Rust orchestrator | `MCRustScheduler` | |

How they fit together: a table that `GlobalScheduler` computes is what
`TableDistribution` distributes; its `NodeRead`, which applies a command in one
step, is `NodeExecutor` entry by entry; the slots that `NodeExecutor` hands to
the Timer Master are the tables of `TimerMaster` (which thread, when) and of
`TtSched` (which word of memory, which wake-up); the entries it writes into BPF
maps are the map writes of `BpfScheduler`; the misses that program reports are
the events of `FaultReport`.

In every module the variables carry the names of the code's; variables marked
"history" are not in the code and no guard reads them, except as a bound.
Operators commented as a seeded fault or a mutant are not part of the model:
each is a wrong variant of the definition after it and shows that some property
notices.

### TableDistribution

One action is what one thread does under one lock, or between two operations
that others can see.

* `AddSchedInfo`, `EnforceRecoveryPolicy`/`BroadcastStop`: the RPC handlers.  A
  schedule table is reduced to the task set it holds for each workload.
  Scheduling is a function of these sets; the combinations it rejects are the
  constant `Infeasible`.  `RegenerateAllSchedules` is all-or-nothing, visits
  also nodes that had a table before, and the failing branch of `AddSchedInfo`
  erases the workload and regenerates again, as the code does.
* `HandlerRegister`, `HandlerEnd`: a NodeStream handler.  The end erases the
  registry entry of its node whatever stream it names.
* `GetScheduleTables`, `UpdateMarks`, `PushLookup`, `PushWrite`, `FinishRound`:
  one round of the replay loop.  A push is split where `nodes_mutex_` is
  released between looking a stream up and writing to it.  A write to a stream
  the node has left may succeed or fail.
* `Connect`, `Disconnect`, `Restart`, `NodeRead`: the node.  Commands are read
  in order on one thread, so a table or a STOP is applied in one step.  A break
  loses what is under way; a restart loses what runs.
* `RetryDue`: the clock passes a node's back-off.  Time itself is left out.

The constant `Reconnect` says how early a node may come back relative to what
the orchestrator has noticed.  The safety run uses `"any"`.  The liveness run
uses `"seen"`: `NodeClient` waits a second before it connects again and the loop
looks every 500 ms, which makes this the normal case.  Nothing in the code
enforces it: with `"closed"` or `"any"`, a node that is back before the loop has
seen it gone keeps its synced mark and is not sent the table it lost
(`main.cpp:214`), and `AcceptedIsRunning` fails.

### TableReplication

The abstract view: a log of versions, a position of each node in it.  A step
publishes a version, moves a node forward (skipping versions at will), evicts a
workload, or resets a node.  `TableDistribution` implements it with its own
variables `log`, `applied` and `running` (`NodesFollowTheLog`).

### FaultReport

The BPF event, the decision of the poll thread (one critical section) and its
sending (outside of it), the table callback in the four steps between which the
poll thread can run, the stream, and `NotifyFault` RPC by RPC.  `NotifyFault`
holds its mutex throughout, so one call at a time is exact.  An RPC succeeds,
does not arrive, or arrives and comes back as an error.  Times, hashes and
names are left out; a fault is known by its number.

`FaultChannel` is what remains of `NotifyFault` for a caller: a channel that
holds so many faults, delivers each at least once, and gives up only the oldest,
only for a newer one.  `FaultReport` implements it with
`pending` = the retry queue followed by the fault being sent (`ClientIsChannel`).

### NodeExecutor

The callbacks of `timpani-n/main.cpp`, which the stream's thread runs one after
the other.  `ReceiveTable` is the callback up to its first entry (evict what the
table does not name, delete what is remembered), `ApplyTt` and `ApplyCbs` each
install one entry, `Finish` sets the table of the Timer Master and answers,
`Stop` is the recovery callback.  Every map update may fail, `sched_setattr` may
refuse to move a process to SCHED_EXT (`apply_sched_ext`, whose result is only
logged), and the process of a task may be missing, start or exit between any two
of them.  `sched_ext` and `refused` are the processes it moved and refused.  The error "CBS
partition has empty cpuset" (`main.cpp:747-750`) is left out: `build_table`
always sets one.

### TimerMaster

`start()`, `stop()` and the destructor as `main` calls them,
`set_schedule_table()` and `remove_workload()` as the callbacks do, one thread
per CPU with its catch-up after a late start, `lifecycle_mutex_` and
`schedule_mutex_`.  Time is kept as differences, so that the state space is
finite although the clock never stops.  `next_tt_start` is what a CPU finds in
`next_tt_start_map`, as time from now; a thread writes it as the code does, from
the clock it reads after its wake-up, so that a late thread writes a late start,
and `late` remembers by how much.  The tables of the constant `Tables` are
sorted as `set_schedule_table()` sorts them, with no slot beyond the
hyperperiod.  `Kept`, which leaves out the slots of another CPU or of a removed
workload, is a recursive function on a prefix, the form a proof can use.

### TtSched

The constructor, the destructor, `set_schedule_table` and `wake_task` of
`TimerMaster` on one side, `ttsched_init`, `ttsched_wait_next_period` and
`find_task_slot` on the other, one load, store or futex call per step; timpani-n
may crash and start again, and signals interrupt waits.  Memory is taken to be
sequentially consistent; the code mixes volatile and atomic accesses.
A name is a sequence of characters; `WriteName` (strncpy) stores and `FindName`
(strncmp) compares one at a time, each in any order, since neither library
function promises one.  `reset` and `missed` are history: the processes whose
slot was handed out anew after they had read its counter, and those whose slot
fired since.

### BpfScheduler

The callbacks of `timpani.bpf.c` as operators on a record of maps and queues;
the kernel's side (which queue a CPU looks at, when it calls what) is external
and follows the documented behaviour of sched_ext.  The daemon writes any entry
at any moment, `MaxWrites` times.  The callbacks run under the lock of one CPU and
change the counters of that CPU, with one exception: a TT task that the daemon has
moved while it ran is enqueued, and counted, by the CPU it leaves.  `Marks` gives
what such a mark and a change by the other CPU may leave behind, since `+= 1`,
`-= 1` and the store to `tt_active_until_map` are separate plain accesses: either
update of the counter lost, either store last.  `collided` (history) says that it
has happened.  `Without` (a task leaves a queue) and the loop
of `promote_throttled_if_replenished` are recursive functions on a prefix of the
queue.  `used`, `kept` and `hit` are history: the time a CBS task has executed
since its last replenishment, the tasks the kernel kept on a CPU with nothing
else to run, and the tasks whose entry was written while they were runnable.

### GlobalScheduler and RustScheduler

The schedulers, one step per task where the code loops over tasks, and the
arithmetic as operators.  Utilizations are exact fractions where the code has
doubles; 32- and 64-bit results are taken modulo small stand-ins for 2^32 and
2^64, so that the wrap-around is reached.  `Refuse` of `RustScheduler` is what
`schedule()` rejects before it looks at a task: no tasks, no configuration, an
unknown algorithm.

### SyncBarrier

`AddSchedInfo` from the store's lock on, phase 1 of `SyncTimer` (under the
lock), phase 2 poll by poll, the timer branch and its broadcast, and callers
that go away.  A tokio watch channel is modelled from its use: `send` stores
nothing when nobody holds a receiver, and a handler that subscribed before a
change sees the change.  Start times are numbered in the order they are handed
out.

## 3. The runs

| Run | Specification and bounds | Result |
|---|---|---|
| `distribution` | no fairness; 1 node, 2 workloads in 2 versions (one does not fit), 3 requests, 2 streams, reconnects at any moment | all properties hold |
| `distribution_live` | fair; 2 nodes, 1 workload, 2 requests, 2 streams per node, `"seen"` | all properties hold |
| `distribution_stop_race` | fair; 1 node, 1 workload, 2 requests | `RemovedIsEvicted` violated |
| `executor` | no fairness; 2 TT tasks and a CBS task of 2 workloads, 3 tables, 2 of them received, 3 processes, any map update and change of policy may fail | all properties hold |
| `timer` | fair; 3 tables on 2 CPUs (epoch ahead, past, none), 2 changes of the table, threads up to a tick late | all properties hold |
| `ttsched` | fair; 2 slots, 2 tasks with names of 2 characters that begin alike, the process of one, 2 tables set, 2 starts of timpani-n, counters modulo 3 | all properties hold |
| `bpf` | fair; 2 TT tasks and a CBS task on 2 isolated CPUs, budget 2 of 3 ticks, one write of the daemon | all properties hold |
| `faults` | fair; 2 tasks, 3 events, 2 tables, retry queue of 2, one break of the stream, one lost reply, Pullpiri away any number of times | all properties hold |
| `scheduler` | every request of up to 4 out of 10 tasks on 2 CPUs | all properties hold |
| `scheduler_periods` | every request of up to 2 tasks | `EveryPeriodServed` violated |
| `barrier` | fair; 2 nodes, 3 workloads, 2 calls per node, timeouts and dropped calls | all properties hold |
| `rust_scheduler` | every request of up to 4 out of 10 tasks on 2 nodes, under each of the 3 algorithms | all properties hold |

What the passing runs show:

* `RegisteredHandlerRuns`: the registry never names a stream whose handler has
  returned.
* `SyncedCoversService`: no accepted request is lost between the service's flag
  and the loop's marks.  It is stated with "covers" because a STOP takes tasks
  away without setting the flag.
* `ChangeHasTables`: the branch "marked changed but map is empty" of the loop is
  never taken.
* `ReplayNotForgotten`: the loop ends a replay only when every node it knows is
  synced, back-offs included.
* `NodesFollowTheLog`: the refinement of `TableReplication`.
* `AcceptedIsRunning`, `RemovedIsEvicted`: what stays accepted ends up running on
  connected targets, what is moved away ends up evicted.  The run has no STOP, no
  infeasible update and no early reconnect: with each of them the code falls
  short, see below.
* `SuccessIsComplete`, `OnlyCurrentTable`, `StopEvicts`: every entry of a table
  answered with success is in the BPF maps and the Timer Master and is remembered,
  and its process was asked to move to SCHED_EXT, with or without success.  As long
  as every table was answered so, nothing of an older table or a stopped workload
  stays in `tt_table_map`, `cbs_map` or the Timer Master.  Whatever failed before, a
  STOP, by name or by hash, reaches the live processes of those tasks of its
  workload that are in the current table, but for CBS tasks of a table answered
  with an error.
* `OneTableAtATime`, `JoinedAtExit`, `NobodyStuck`: timer threads of two tables
  never run side by side, none is left when the memory is unmapped, and no order
  of table callbacks and shutdown ends with threads waiting for each other.
* `InPhase`, `NextStartWithinLateness`: however late a thread starts, its targets
  stay whole hyperperiods after the epoch; the start it publishes for the BPF
  scheduler is that of its next slot, later by exactly what the thread was late
  when it wrote it, so that lateness does not add up.
* `LookupFindsOwnSlot`, `SlotWasOwn`, `NoLostFire`, `Served`: names left over from
  earlier tables never hide a slot; a process whose name has a character that no
  other name has in its place only waits on slots that were its own, whatever
  halves of names it has read; no fire is lost between the load of the counter and
  FUTEX_WAIT, unless the slot was handed out anew, and then none but those that
  bring the counter back to the value read; and a process whose task stays in the
  table is woken again and again, in spite of new tables and crashes.
* `NoUndercount`, `GapIsFree`: the run count of a CPU is never below the TT tasks
  flagged runnable on it, wherever the daemon moves them, until two CPUs have
  changed one count at the same time; and every mark is taken back, unless an entry
  was written under a runnable task.
* `TtWins`, `BudgetRespected`, `CbsServed`: TT tasks preempt, even with a wrong
  count, and with a right one are not displaced by CBS tasks, no budget is exceeded, and a CBS task that waits is served if TT
  tasks go on leaving gaps.
* `OneReportPerCycle`, `RepeatsNeedLostReplies`, `ClientIsChannel`,
  `FlushedByNextFault`: one report between two resets, no fault delivered twice
  unless a reply was lost, the refinement of `FaultChannel`, and a queued fault
  leaves with the next one once Pullpiri is there.
* `FindsEarliest`, `FramesServed`, `GapsAreTheRest`, `AdmissionIsSound`,
  `HyperperiodIsLeast`: the search for a slot against its definition; slots that do
  not overlap, one per period and before its deadline; gaps that are exactly the
  rest; admission and allocation that agree; the least common multiple.
* `ResultIsFeasible`, `PlacedAsPromised`, `HyperperiodOrError`: the Rust port and its
  three algorithms drop no task in silence, overload no CPU and place tasks as they
  promise; the hyperperiod is the least common multiple exactly when that is within
  the limit, and otherwise the error that fits.
* `StartNeedsAllNodes`, `OneWorkloadPerStart`, `SameStart`, `AnsweredWhenDecided`:
  the barrier.

The two violation runs are explained under "findings" in `PROJECT.json`, with the
lines of the repository that say otherwise: a STOP that races a round of the
replay loop is undone for good; and slots are placed for the hyperperiod of one
CPU while the table repeats with that of all CPUs, so that a task with a shorter
period misses its later releases.

### Where the code falls short of what one would like to state

The properties above are worded, or their runs bounded, so as not to claim more
than the code does.  What they leave out, beside the two findings:

* `timpani-o/src/main.cpp:254`: a stopped workload that is added again with the same
  tasks looks like what the node already has and is not sent.
* `timpani-o/src/main.cpp:214`: a node that is back before the loop saw it gone is
  not sent its table.
* `timpani-o/src/orchestrator_service.cpp:44`: the handler of an old stream erases
  the registration of the new one.  `:128`: a push may use a stream whose handler has
  returned.  `:109`: a table that a node could not apply is only logged.
* `timpani-o/src/schedinfo_service.cpp:121`: an update that cannot be scheduled
  erases the running version without telling the nodes.
* `timpani-n/src/main.cpp:734`: the TT slot of a task without a process is installed
  but not remembered; the next table may not delete it (DDR-011, line 412, wants
  none left).  `main.cpp:820`: a CBS task whose state update fails keeps its meta
  data unremembered.  Both end with the next complete table that reuses the key, or
  not at all.  `:681`, `:797`: when `apply_sched_ext` fails the table is answered with
  success all the same, and the task runs outside the BPF scheduler.  `:550-566`: an
  update that drops a task from a workload that stays forgets its pid without
  deleting its meta data, and no later STOP reaches it (DDR-011, section 5, deletes
  every entry of the workload).
* `timpani-n/src/main.cpp:568`, `607`: misses counted between the reset and the new
  limits meet no limit.  `fault_monitor.cpp:74`: misses of the old table still in
  the ring buffer are counted against the new one.
* `timpani-n/src/timer_master.cpp:72`: the destructor wakes without changing the
  counter; a process about to wait then sleeps until a new timer is there (the
  comment at :66-69 expects it to be unblocked).  `:156`: names are copied while
  processes may compare them; with three tasks, one of whose names is made of
  characters that the other two have in their places, a lookup that began before the
  update can take a half-written name for its own and wait on a slot that never was
  (the comment at :107 says "Clear ready flag first so tasks don't read a half-written
  table").  `:159`: a process that read the counter of a slot before it is handed out
  anew may sleep through its first fires.  `:395-405`: a thread that wakes late
  publishes a start that is late by as much.  After a crash, generation and
  counters may come back to values a process has seen (ABA); the next fire mends it.
* `timpani.bpf.c:143`, `:161-166`: counters are changed by plain accesses.  When the
  daemon moves a TT task while it runs, the CPU it leaves counts it on the other one
  and may collide with a change made there: an update is lost, or the activity mark
  of a CPU with TT work is cleared, and CBS tasks are dispatched there beside it.
  `:160`: `update_task_meta` under a runnable task clears
  `tt_runnable` without lowering the run count; CBS tasks then starve on that CPU
  (DDR-007, 2.3, describes the gap as free).  An evicted task runs from the global
  queue, ahead of the CBS queue.  A task may run past its slice on a CPU with
  nothing else to run.  A replenishment that falls due while the budget runs out is
  passed over (`:397`).  A CPU that is idle is not asked to take a CBS task that
  waits behind TT work on another.  The replenisher thread of DDR-007, 4.5.3, does
  not exist, and DSQ_BE is never consumed.
* `global_scheduler.cpp`: a table with CBS tasks only has hyperperiod 0 while its gaps
  span 10 ms; a TT task with period 0 is accepted without a slot (`:315`); the
  hyperperiod is cut to 32 bits (`:493`); TT utilization is not limited by
  `assign_cpus`.
* `timpani_rust`: the Liu and Layland test only warns; the comment at
  `hyperperiod/math.rs:13` ("Always returns `0` when either input is `0`") does not
  match `gcd(a, 0) = a`.
* `grpc/node_service.rs:209`: a second `SyncTimer` call of a node fires a complete
  barrier again and changes the start time under handlers that still wait.  `:310`: a
  timed-out barrier releases its last node alone.
* `node_client.cpp:148` drops a fault when the stream is down; `fault_client.cpp:86`
  calls without a deadline.

### Bounds

Two workloads are needed to see one that fits beside one that does not; two
versions of a workload to see an update; two streams of a node to see an old and
a new handler overlap; three requests to see add, change and stop around one
round of the loop.  The replay loop treats its nodes one after the other with no
state between them but the marks, which are per node: two nodes show one in its
back-off while the other succeeds.

In `executor` one workload has a task of each kind and the other a TT task; the
tables drop a workload, drop a task of one that stays, and move a slot to another
CPU; three processes let a task restart around a table.  In `timer` the three tables
give a thread two slots, one slot and no epoch; two changes put a restart behind a
restart, since `main` has started the threads once before.  In `ttsched` the task
moves between the two slots or leaves; two starts put a crash between any two loads;
counters wrap at 3; names of two characters, the first of them shared, are enough
for a name that is half one task's and half another's.  The wait loops
of two processes share nothing but the slots, so one process beside a second task
in the table shows what there is, and the proofs cover any number.  In `bpf` two
TT tasks share a CPU or have one each, and the daemon may move either while it
runs; what the other CPU changes while a mark is under way comes to one at most, since
only one other TT task is there, and `Marks` has no more than that.
The pools of the schedulers hold periods that are harmonic and not, deadlines
that are tight, implicit and long, a task without a period, and loads that fill a
CPU exactly; U32 = 16 makes the hyperperiod 24 of periods 3 and 8 wrap.

Two tasks of one workload show two reasons for one report, three events a full
retry queue of two and the fault that flushes it, two tables the reset.  Three
workloads show a barrier replaced twice, two calls a retry.

Counters that only grow are bounded by the constants named in each module; the
bounds sit in the guards of what the environment starts (requests, connections,
breaks, events, processes, tables).  All runs but those of `TableDistribution`
end when their bounds are used up, or when a request is answered, and do not
check deadlock; `NobodyStuck` states what deadlock freedom means for the timers.

### Fairness

* `TableDistribution`: weak fairness of the replay loop (an endless loop with a
  sleep), of the recovery handler between its two steps, of each stream handler
  and of the node's read loop (threads blocked only on I/O that is ready), of
  `Connect` (`reconnect_loop` never gives up) and of the passing of a back-off.
  Nothing is assumed of requests, breaks or restarts.
* `TimerMaster`: the clock goes on, some timer thread that can run does, and the
  main and the stream thread go on with what they have begun.
* `TtSched`: weak fairness of a process and of the holder of `schedule_mutex_`,
  strong fairness of the wake-up of a task in the table: its thread fires every
  slot in every hyperperiod, and table updates, which disable it, do not last.
* `BpfScheduler`: time passes; a CPU that is asked to schedule does (the kernel);
  TT tasks go on waking (the timers) and finishing their work.
* `FaultReport`: weak fairness of the poll thread, the stream handler and the
  steps of `NotifyFault`.  The last one says that an RPC returns; the code sets
  no deadline, so this is an assumption on gRPC and Pullpiri.
* `SyncBarrier`: weak fairness of polling a ready channel and of taking the lock
  after a timeout.  No timer needs to fire for `AnsweredWhenDecided`.

## 4. The proofs

All theorems hold for every value of the constants that meets the named
assumption of the module: any number of nodes, workloads, streams, requests,
tasks, CPUs, slots, tables and processes.  What the assumptions ask for is that
the constants have their types and that the stand-ins for "none" are not values.

`TableDistribution_proofs`

| Theorem | States | Inductive invariant |
|---|---|---|
| `Typing` | `TypeOK` | itself; one step per action |
| `RegistrySound` | `RegisteredHandlerRuns` | plus: a stream not opened yet has an idle handler.  Without it `Connect` could reuse the number of a registered stream |
| `ReplayComplete` | `ReplayNotForgotten` | `MarksInv`: pushes happen only while a replay is pending, and the synced nodes, the nodes left to visit and the target of a write are all nodes the loop knows |
| `SyncedIsEnough` | `SyncedCoversService` | `ServiceInv` (the tables cover what the workloads ask for) and `CoverInv`: the same relation at every point of a round.  The tables of the snapshot cover the service's, or the flag is set again; and a synced node was last pushed something that covers the snapshot |
| `ChangeNeverEmpty` | `ChangeHasTables` | the same two invariants: a raised flag means that some node has a table, since a node once scheduled keeps an entry |
| `Refinement` | `NodesFollowTheLog` | `SnapshotInv`: the last version of the log is what the service holds, the loop's snapshot is one version of it.  `WireInv`: tables under way are versions of the log, in order, between what the node has applied and the snapshot |

`Refinement` rests on `WireOutcome`: whatever the step, the tables under way to a
node gain nothing (a break of the stream only loses some), gain the snapshot's
table, are lost together with the node's process, or lose their head to the
node.  `StepSimulation` then maps every step to one of the
abstract specification or to a stutter.

`SyncBarrier_proofs`

| Theorem | States | Inductive invariant |
|---|---|---|
| `BarrierTyping` | `TypeOK` | plus `CallInv`: a call not made yet names no workload, any other one a workload stored so far |
| `BarrierSound` | `StartNeedsAllNodes` | `BarrierInv`: the channels of later workloads are untouched, a synced node has a call registered with the current workload, and a released channel belongs to a workload all of whose nodes have called |
| `StartsNotShared` | `OneWorkloadPerStart` | `StartInv`: start times on the channels and in the answers are at most `clock`, and one time is found at one workload only |
| `StartsAgree` | `SameStart` | `SameInv`: while no node has called twice, the start times among a workload's answers are the one on its channel.  A barrier that fires then fires for the first time, because its last caller was not registered before (`BarrierInv`) |

`FaultReport_proofs`

| Theorem | States | Inductive invariant |
|---|---|---|
| `FaultTyping` | `TypeOK` | itself |
| `ReportedOnce` | `OneReportPerCycle` | `ReportInv`: no report is from a later cycle, and a workload reported in this one is marked |
| `RepeatsAccountedFor` | `RepeatsNeedLostReplies` | `OrderInv`: the monitor, the stream and the client pass reports on in the order they were made, so none is handed over twice.  `RepeatInv`: a fault that is pending although Pullpiri has it stands for a lost reply that has not led to a repetition yet; without this term the property is not inductive |
| `ClientRefinesChannel` | `ClientIsChannel` | only the types: every step of `NotifyFault` is a step of `FaultChannel` on the queue followed by the fault being sent |

`TtSched_proofs`

| Theorem | States | Inductive invariant |
|---|---|---|
| `TtTyping` | `TypeOK` | itself, with what a process has at hand at each point of its loop (`AppOK`) |
| `OwnSlots` | `SlotWasOwn` | `NamedHome`: a character in any shared memory object is that of a task which had the slot, and `ScanInv`: so is every character that a process has found equal so far.  Needed because a process compares in an object that may be stale, while names are written over one another.  When all have been found equal, the character that no other name has gives the task away |
| `LookupIsRight` | `LookupFindsOwnSlot` | `MappingInv`: a slot has one task, whose name it bears and no lower slot bears, at every step between the first store of an update and the last, but for the slot whose name is being written |
| `FireIsNotLost` | `NoLostFire` | `FireInv`: as long as a process whose slot fired has not woken up, the counter differs from what it read; it is asleep only between the bump and the wake.  With `Apart`: the slot of such a process was not handed out anew since |

`TimerMaster_proofs`

| Theorem | States | Inductive invariant |
|---|---|---|
| `OneTable` | `OneTableAtATime` | `LifeInv`: one caller at a time is inside the section of `lifecycle_mutex_`, it makes threads only when none is left, and they are those of the current table whenever the stream thread is between callbacks |
| `NoneLeft` | `JoinedAtExit` | the same: the stream thread is gone before the destructor, so that nobody starts threads after its join |
| `TargetsInPhase` | `InPhase` | `PhaseInv`: a thread's slots are in order and within its hyperperiod, its position is one of them, and for a thread of the current table the time since the epoch, plus the time left to its target, less the offset of its slot, is a multiple of the hyperperiod.  `CatchUp`, `ThreadAdvance` and the clock each keep that congruence |
| `PublishedStart` | `NextStartWithinLateness` | `StartInv`: what a CPU finds published is the time left to the target of its thread, plus the lateness of the last fire, plus, until the thread has advanced, the gap to the slot that follows, over the wrap to the next hyperperiod.  It needs `LifeInv`, since only one thread may write for a CPU, and `PhaseInv` |

`PhaseInv` needs to know that what `Kept` leaves of a sequence is in order again
and holds nothing new (`KeptOrdered` and the lemmas before it).

`BpfCallbacks_proofs`, `BpfScheduler_proofs`

| Theorem | States | From the invariant |
|---|---|---|
| `Invariant` | `Inv` | itself, see below |
| `NeverUndercounts` | `NoUndercount` | `MarksKept` |
| `GapsAreFree` | `GapIsFree` | `MarksKept`: when no entry was written under a runnable TT task the count is exact, and a flagged task is on its CPU or in the queue of it |
| `BudgetsRespected` | `BudgetRespected` | `BudgetKept` |
| `TtAlwaysWins` | `TtWins` | `TtFirst` after the step gives the pending preemption.  A flagged task loses its CPU in `Expire` only, and there to the head of the CPU's own queue: with the task flagged the CPU is TT-active (`MarksKept`), so that `dispatch` adds nothing from the CBS queues, whose tasks are in no other queue (`OnePlace`) |

A step of the kernel is a chain of callbacks, so the invariant is stated for a
record `s` of maps and queues and for the tasks `on` the CPUs, and
`BpfCallbacks_proofs` has one lemma per callback and kernel helper that says what
it makes of `Good(s, on, X)`; X holds the task the kernel has in its hands.
`BpfScheduler_proofs` strings them together, one lemma per action.  The parts:

* `OnePlace`: a task is in one queue or on one CPU at most, and the CBS queues
  hold CBS tasks only.  Without it a task could be marked or charged twice.
* `MarksKept`: until a mark has collided, the run count of a CPU is at least the
  number of TT tasks flagged there and the activity mark follows it; as long as the
  daemon wrote no entry under a runnable TT task, the count is exact, every TT task
  that runs or waits is flagged, and no mark can collide; and a flagged task is on its isolated CPU or in the queue of it.
  `NoUndercount` alone is not inductive: `mark_tt_not_runnable` lowers a count, and
  only the second half says that it lowers it for a task that was in it.
* `BudgetKept`: a clock runs only on a CPU, a task never waits for one with an
  empty budget, and what a task has used and what is left of its budget together
  never exceed it.  While its clock runs, the slice ends with what is left; this
  is why the invariant speaks of `slice`, which the property does not.
* `TtFirst`: only TT tasks wait in the queue of a CPU, and a CPU that runs a CBS
  task while a TT task is flagged there is kicked.

The loop over the throttled queue is handled by induction on its prefix
(`LeastNat`, `Induction`): the property is a set of numbers, so that the
well-founded order of the naturals can be used without an operator as parameter.
`Recursion` shows that the recursive functions of the model exist.
Assumed are the types of the constants, that there are finitely many TT tasks
(a count must be a number), and that CPUs are not among the names of the shared
queues.

`NodeExecutor_proofs`

| Theorem | States | Inductive invariant |
|---|---|---|
| `SuccessMeansInstalled` | `SuccessIsComplete` | `CompleteInv`: while nothing failed, every entry visited so far is complete.  `PidInv` (a pid belongs to one task for good) and `KeyInv` (slot keys grow, and lead to the tasks of the workload they are credited to) show that neither a later entry nor a STOP of another workload takes an entry away |
| `NothingLeftOver` | `OnlyCurrentTable` | `CreditInv`: while every table succeeded, whatever is installed is an entry of the current table and is credited to its workload, so the next table or a STOP finds it |
| `StopReaches` | `StopEvicts` | `TrackInv`: whatever failed before, a live process with meta data whose task was visited is credited to a workload that a STOP can resolve, if it is a TT task or nothing failed in this table |

Only model-checked:

* all liveness properties (`AcceptedIsRunning`, `RemovedIsEvicted`, `NobodyStuck`,
  `Served`, `CbsServed`, `FlushedByNextFault`, `AnsweredWhenDecided`): fairness and
  `ENABLED` are outside the prover's reach;
* the properties of `GlobalScheduler` and `RustScheduler`: their steps are pure
  computations on sums of fractions, minima under an order, divisors and folds over
  sets, for which neither the modules nor the theorem libraries offer lemmas the
  provers can use; the runs go through every request of the pools instead;
* the two violations.

Nothing in the modules with theorems uses RECURSIVE operators.

## 5. What is not modelled

* The contents of schedule tables in `TableDistribution`: `Infeasible` stands for
  the verdict of `GlobalScheduler`.  The two are not composed: a table is
  distributed as a whole whatever it holds.
* What a write to a destroyed stream object does.  It is an arbitrary result; the
  crash it may cause is not.
* Weak memory in `TtSched`, and floating point in the schedulers.
* Full kernel ring buffers (an event that is not stored is as if it had not
  happened), wall-clock time outside `TimerMaster` and `BpfScheduler`, and the
  length of back-offs and timeouts.
* Priorities and affinities of threads, option parsing, loading the BPF program and
  starting servers: they happen once, in sequence, before anything concurrent.
* Status and TableApplied events at the orchestrator, which it only logs;
  `push_update` and `TaskRegistry::register_task`, which have no caller.
* Statistics and plots, node configuration, `libtrpc`, the sample applications, the
  Rust node (a skeleton) and the Rust fault client (one call without a retry):
  input, output or plain calls, with no state that outlives them.
* `vmlinux.h`, which is generated.

## 6. Where to go from here

With every part that has state modelled, what remains is depth:

1. an end-to-end composition of `TableDistribution` with `NodeExecutor` (one table,
   one node), in place of the argument that the theorems of the latter justify
   `NodeRead` for tables that succeed;
2. `TtSched` under a weaker memory model, as far as the plain accesses need it;
3. proofs for the two schedulers, which need a library of lemmas about sums and
   folds first.
