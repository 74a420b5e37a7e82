---------------------------- MODULE RustScheduler ----------------------------
(***************************************************************************)
(* The scheduling of the Rust port (timpani_rust/timpani-o): AddSchedInfo  *)
(* computes the hyperperiod of a workload (hyperperiod/mod.rs, math.rs)    *)
(* and calls GlobalScheduler::schedule (scheduler/mod.rs), which gives     *)
(* each task a node and a CPU by one of three algorithms, one task per     *)
(* transition.  The service asks for target_node_priority; the other two   *)
(* are for callers of the library, who do not need a hyperperiod.          *)
(*                                                                         *)
(* Nodes are numbered in the order of their names.  Utilizations, which    *)
(* the code keeps as f64, are exact here, in units of 1/Scale.             *)
(***************************************************************************)
EXTENDS Integers, Sequences, FiniteSets, FiniteSetsExt

CONSTANTS
  Pool,             \* tasks of a request: [named (has a workload_id), target,
                    \* pinned, memory, runtime, period]
  MaxTasks,         \* bound on the tasks of a request
  Nodes,            \* the configured nodes
  available_cpus,   \* node -> set of CPU numbers
  max_memory,       \* node -> memory in MB
  Scale, CPU_UTILIZATION_THRESHOLD,
  HYPERPERIOD_LIMIT, U64,
  None

Algorithms == {"target_node_priority", "least_loaded", "best_fit_decreasing"}

ASSUME RustSchedulerAssumption ==
  /\ Nodes \subseteq Nat /\ IsFiniteSet(Nodes) /\ None \notin Nodes
  /\ \A n \in Nodes : available_cpus[n] \subseteq Nat /\ IsFiniteSet(available_cpus[n])
  /\ \A t \in Pool : t.period = 0 \/ (t.period \in Nat /\ Scale % t.period = 0)
  /\ \A t \in Pool : t.runtime \in Nat /\ t.memory \in Nat
  /\ HYPERPERIOD_LIMIT \in 1..(U64 - 1)

VARIABLES
  tasks, algorithm,  \* the arguments
  is_loaded,         \* is there a node configuration?
  pc,
  hyperperiod,       \* of the workload, 0 before it is known
  util,              \* node -> CPU -> utilization
  assigned,          \* task -> [node, cpu], or None
  todo,              \* tasks the algorithm has yet to visit
  status             \* "none", "ok" or the error

vars == <<tasks, algorithm, is_loaded, pc, hyperperiod, util, assigned, todo, status>>

Ids == 1..Len(tasks)
Utilization(i) == IF tasks[i].period = 0 THEN 0
                  ELSE tasks[i].runtime * (Scale \div tasks[i].period)

-----------------------------------------------------------------------------
(* hyperperiod/math.rs *)

gcd[a, b \in Nat] == IF b = 0 THEN a ELSE gcd[b, a % b]

Overflow == -1

lcm(a, b) ==
  LET product == (a \div gcd[a, b]) * b
  IN  IF a = Overflow \/ b = Overflow THEN Overflow
      ELSE IF a = 0 \/ b = 0 THEN 0
      ELSE IF product < U64 THEN product ELSE Overflow

unique_periods == {tasks[i].period : i \in Ids} \ {0}
lcm_of_slice(periods) == FoldSet(lcm, 1, periods)

Init ==
  /\ tasks \in UNION {[1..n -> Pool] : n \in 0..MaxTasks}
  /\ algorithm \in Algorithms \cup {"other"}
  /\ is_loaded \in BOOLEAN
  /\ pc = IF algorithm = "target_node_priority" THEN "hyperperiod" ELSE "schedule"
  /\ hyperperiod = 0
  /\ util = [n \in Nodes |-> [c \in available_cpus[n] |-> 0]]
  /\ assigned = [i \in Ids |-> None]
  /\ todo = Ids
  /\ status = "none"

(* Mutant of exceeds_limit: a hyperperiod above the limit is only warned    *)
(* about, as in the C++ scheduler.                                          *)
warns_of_limit(hp) == FALSE

exceeds_limit(hp) == hp > HYPERPERIOD_LIMIT

Return(s) == status' = s /\ pc' = "done"

(* calculate_hyperperiod, and what add_sched_info makes of it *)
CalculateHyperperiod ==
  LET hp == lcm_of_slice(unique_periods)
  IN  /\ pc = "hyperperiod"
      /\ IF unique_periods = {} THEN Return("NoValidPeriods") /\ UNCHANGED hyperperiod
         ELSE IF hp = Overflow THEN Return("Overflow") /\ UNCHANGED hyperperiod
         ELSE IF exceeds_limit(hp) THEN Return("TooLarge") /\ UNCHANGED hyperperiod
         ELSE hyperperiod' = hp /\ pc' = "schedule" /\ UNCHANGED status
      /\ UNCHANGED <<tasks, algorithm, is_loaded, util, assigned, todo>>

-----------------------------------------------------------------------------
(* scheduler/mod.rs: what all algorithms use *)

check_admission(i, n) ==
  /\ n \in Nodes
  /\ tasks[i].memory > 0 => tasks[i].memory <= max_memory[n]
  /\ tasks[i].pinned # None => tasks[i].pinned \in available_cpus[n]

Fits(i, n, c) == util[n][c] + Utilization(i) <= CPU_UTILIZATION_THRESHOLD

(* Mutant of find_best_cpu_for_task: lowest CPU first. *)
find_lowest_cpu(i, n) ==
  LET fitting == {c \in available_cpus[n] : Fits(i, n, c)}
  IN  IF tasks[i].pinned \in fitting THEN tasks[i].pinned
      ELSE IF fitting = {} THEN None ELSE Min(fitting)

(* The pinned CPU if the task fits there, otherwise the highest that does. *)
find_best_cpu_for_task(i, n) ==
  LET fitting == {c \in available_cpus[n] : Fits(i, n, c)}
  IN  IF tasks[i].pinned \in fitting THEN tasks[i].pinned
      ELSE IF fitting = {} THEN None ELSE Max(fitting)

NodeUtilization(n) == MapThenSumSet(LAMBDA c : util[n][c], available_cpus[n])

(* Mutant of Candidates: the CPUs of the node are not looked at. *)
Admitting(i) == {n \in Nodes : check_admission(i, n)}

Candidates(i) ==
  {n \in Nodes : check_admission(i, n) /\ find_best_cpu_for_task(i, n) # None}

assign_cpu_to_task(i, n, c) ==
  /\ util' = [util EXCEPT ![n][c] = @ + Utilization(i)]
  /\ assigned' = [assigned EXCEPT ![i] = [node |-> n, cpu |-> c]]

-----------------------------------------------------------------------------
(* The three algorithms: the node each one picks, None if there is none *)

find_best_node_least_loaded(i) ==
  LET best == {n \in Candidates(i) :
                 \A m \in Candidates(i) : NodeUtilization(n) <= NodeUtilization(m)}
  IN  IF best = {} THEN None ELSE Min(best)

find_best_node_best_fit_decreasing(i) ==
  LET fit == {n \in Candidates(i) :
                NodeUtilization(n) + Utilization(i) <= Scale * Cardinality(available_cpus[n])}
      best == {n \in fit : \A m \in fit : NodeUtilization(n) >= NodeUtilization(m)}
  IN  IF tasks[i].target \in Candidates(i) THEN tasks[i].target
      ELSE IF best = {} THEN None ELSE Min(best)

Place(i, n) ==
  LET c == find_best_cpu_for_task(i, n)
  IN  IF c = None THEN UNCHANGED <<util, assigned>>   \* "skipping"
      ELSE assign_cpu_to_task(i, n, c)

TargetNodePriority(i) ==
  LET n == tasks[i].target
      reason == IF ~tasks[i].named THEN "MissingWorkloadId"
                ELSE IF n = None THEN "MissingTargetNode"
                ELSE IF ~check_admission(i, n) THEN "AdmissionRejected"
                ELSE IF find_best_cpu_for_task(i, n) = None THEN "NoAvailableCpu"
                ELSE "none"
  IN  /\ algorithm = "target_node_priority" /\ i = Min(todo)
      /\ IF reason # "none" THEN Return(reason) /\ UNCHANGED <<util, assigned, todo>>
         ELSE Place(i, n) /\ todo' = todo \ {i} /\ UNCHANGED <<pc, status>>

AutoSelect(i, n) ==
  IF n = None THEN Return("NoSchedulableNode") /\ UNCHANGED <<util, assigned, todo>>
  ELSE Place(i, n) /\ todo' = todo \ {i} /\ UNCHANGED <<pc, status>>

LeastLoaded(i) ==
  /\ algorithm = "least_loaded" /\ i = Min(todo)
  /\ AutoSelect(i, find_best_node_least_loaded(i))

(* sort_unstable_by runtime: equal runtimes may come in any order *)
BestFitDecreasing(i) ==
  /\ algorithm = "best_fit_decreasing"
  /\ \A j \in todo : tasks[i].runtime >= tasks[j].runtime
  /\ AutoSelect(i, find_best_node_best_fit_decreasing(i))

(* What schedule() refuses before it looks at any task *)
Refusal == IF tasks = <<>> THEN "NoTasks"
           ELSE IF ~is_loaded THEN "ConfigNotLoaded"
           ELSE IF algorithm \notin Algorithms THEN "UnknownAlgorithm"
           ELSE "none"

Refuse ==
  /\ pc = "schedule" /\ Refusal # "none"
  /\ Return(Refusal)
  /\ UNCHANGED <<tasks, algorithm, is_loaded, hyperperiod, util, assigned, todo>>

ScheduleTask(i) ==
  /\ pc = "schedule" /\ Refusal = "none" /\ i \in todo
  /\ TargetNodePriority(i) \/ LeastLoaded(i) \/ BestFitDecreasing(i)
  /\ UNCHANGED <<tasks, algorithm, is_loaded, hyperperiod>>

(* build_sched_map hands out the tasks that were assigned. *)
Finish ==
  /\ pc = "schedule" /\ Refusal = "none" /\ todo = {}
  /\ Return("ok")
  /\ UNCHANGED <<tasks, algorithm, is_loaded, hyperperiod, util, assigned, todo>>

Next == CalculateHyperperiod \/ Refuse \/ (\E i \in Ids : ScheduleTask(i)) \/ Finish

Spec == Init /\ [][Next]_vars

-----------------------------------------------------------------------------
(* Properties. *)

At(i, n, c) == assigned[i] = [node |-> n, cpu |-> c]

(* build_sched_map drops a task that has no node ("the algorithm is         *)
(* responsible for returning an error"): when schedule() succeeds, no task  *)
(* was skipped by any of the algorithms, and the tasks on a CPU stay within *)
(* its threshold together, whatever order they were placed in.              *)
ResultIsFeasible ==
  status = "ok" =>
    /\ \A i \in Ids : assigned[i] # None
    /\ \A n \in Nodes : \A c \in available_cpus[n] :
         MapThenSumSet(Utilization, {i \in Ids : At(i, n, c)}) <= CPU_UTILIZATION_THRESHOLD

(* find_best_cpu_for_task packs from the highest CPU down: a free task is   *)
(* on a CPU only if no higher CPU of its node has room for it, even after   *)
(* all others have been placed.                                             *)
Packed ==
  \A i \in Ids : assigned[i] # None /\ tasks[i].pinned = None =>
    \A d \in available_cpus[assigned[i].node] :
      d > assigned[i].cpu => ~Fits(i, assigned[i].node, d)

(* The target node and the pinned CPU of a task are given up only when      *)
(* there was no room for it: target_node_priority never leaves the target,  *)
(* best_fit_decreasing only when it cannot take the task.                   *)
PreferencesHonoured ==
  \A i \in Ids : assigned[i] # None =>
    LET n == assigned[i].node
        h == tasks[i].target
        p == tasks[i].pinned
    IN  /\ algorithm = "target_node_priority" => n = h
        /\ algorithm = "best_fit_decreasing" /\ h # None /\ n # h =>
             ~check_admission(i, h) \/ find_best_cpu_for_task(i, h) = None
        /\ p # None /\ assigned[i].cpu # p => ~Fits(i, n, p)

(* least_loaded spreads the load: a node is ahead of another by more than   *)
(* its largest task only if some task it holds had no room on the other.    *)
Balanced ==
  algorithm = "least_loaded" =>
    \A n, m \in Nodes :
      LET mine == {i \in Ids : assigned[i] # None /\ assigned[i].node = n}
      IN  \/ \E i \in mine : NodeUtilization(n) - NodeUtilization(m) <= Utilization(i)
          \/ \E i \in mine : m \notin Candidates(i)
          \/ mine = {}

(* Each algorithm places tasks as it promises: packed from the highest CPU, *)
(* by hint and pin where there is room, and spread where it says so.        *)
PlacedAsPromised == Packed /\ PreferencesHonoured /\ Balanced

(* calculate_hyperperiod answers with the least common multiple of the      *)
(* periods when it is within the limit, and otherwise with the error that   *)
(* says why it may not be used: it is above the limit, or above what a u64  *)
(* holds.                                                                   *)
HyperperiodOrError ==
  algorithm = "target_node_priority" /\ pc # "hyperperiod" /\ unique_periods # {} =>
    LET Common(x) == \A p \in unique_periods : x % p = 0
        within == \E x \in 1..HYPERPERIOD_LIMIT : Common(x)
        fits == \E x \in 1..(U64 - 1) : Common(x)
    IN  /\ hyperperiod > 0 <=> within
        /\ hyperperiod > 0 => /\ hyperperiod <= HYPERPERIOD_LIMIT /\ Common(hyperperiod)
                              /\ \A x \in 1..(hyperperiod - 1) : ~Common(x)
        /\ status = "TooLarge" <=> fits /\ ~within
        /\ status = "Overflow" <=> ~fits
=============================================================================
