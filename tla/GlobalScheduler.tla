--------------------------- MODULE GlobalScheduler ---------------------------
(***************************************************************************)
(* Timpani-O's scheduler (timpani-o/global_scheduler.cpp):                 *)
(* generate_schedule turns the tasks of a node into a table in five steps, *)
(* or reports why it cannot.  A step that loops over tasks or CPUs takes   *)
(* one transition per round.  std::sort is not stable, so among equal keys *)
(* any order may come out.                                                 *)
(*                                                                         *)
(* Times are whole microseconds; a sum the code keeps in a uint32_t is     *)
(* taken modulo U32, one in a uint64_t modulo U32^2.  Utilizations, which  *)
(* the code keeps as doubles, are exact here, in units of 1/Scale.         *)
(***************************************************************************)
EXTENDS Integers, Sequences, FiniteSets, SequencesExt, FiniteSetsExt

CONSTANTS
  Pool,                 \* tasks a request may hold: [workload, mechanism,
                        \* period, wcet, deadline]
  MaxTasks,             \* bound on the tasks of a node
  available_cpus,       \* the node's isolated CPUs, as numbers
  Scale, U_BOUND, U_OVERHEAD,
  DEFAULT_HYPERPERIOD,  \* 10 ms
  U32                   \* 2^32

NoCpu == -1

ASSUME SchedulerAssumption ==
  /\ \A t \in Pool : t.period = 0 \/ (t.period \in Nat /\ Scale % t.period = 0)
  /\ \A t \in Pool : t.wcet \in Nat /\ t.deadline \in Nat
  /\ \A t \in Pool : t.mechanism \in {"TT", "CBS"} /\ t.workload \in Nat
  /\ available_cpus \subseteq Nat /\ available_cpus # {} /\ IsFiniteSet(available_cpus)
  /\ U32 \in Nat \ {0} /\ DEFAULT_HYPERPERIOD \in 1..(U32 - 1)

VARIABLES
  tasks,             \* the request: a sequence of tasks
  pc,
  assigned_cpu,
  u_tt, u_cbs,       \* utilization given to each CPU
  cpus,              \* CPUs the current loop has yet to visit
  todo,              \* tasks the current loop has yet to visit
  occupied,          \* intervals placed on the CPU being filled
  tt_slots,          \* slots of each CPU, by offset
  gaps,
  cbs_allocations,   \* CBS tasks of each CPU that have a budget
  result

vars == <<tasks, pc, assigned_cpu, u_tt, u_cbs, cpus, todo, occupied, tt_slots, gaps,
          cbs_allocations, result>>

Ids == 1..Len(tasks)
TtIds == {i \in Ids : tasks[i].mechanism = "TT"}
CbsIds == Ids \ TtIds
On(c, I) == {i \in I : assigned_cpu[i] = c}
Utilization(i) == IF tasks[i].period > 0
                  THEN tasks[i].wcet * (Scale \div tasks[i].period) ELSE 0
Load(I) == MapThenSumSet(Utilization, I)

Zero == [c \in available_cpus |-> 0]
Empty == [c \in available_cpus |-> <<>>]

Infeasible(reason) == [status |-> reason, hyperperiod |-> 0]
Table(hp) == [status |-> "table", hyperperiod |-> hp % U32]

-----------------------------------------------------------------------------
(* Math utilities. *)

gcd[a, b \in Nat] == IF b = 0 THEN a ELSE gcd[b, a % b]

lcm(a, b) == IF a = 0 \/ b = 0 THEN 0 ELSE ((a \div gcd[a, b]) * b) % (U32 * U32)

(* calculate_hyperperiod, of the tasks I that have a period *)
calculate_hyperperiod(I) ==
  LET periods == {tasks[i].period : i \in I} \ {0}
  IN  IF periods = {} THEN 0 ELSE FoldSet(lcm, 1, periods)

validate_harmonic(I) ==
  LET periods == {tasks[i].period : i \in I} \ {0}
  IN  \A p, q \in periods : p <= q => q % p = 0

Init ==
  /\ tasks \in UNION {[1..n -> Pool] : n \in 0..MaxTasks}
  /\ pc = "start"
  /\ assigned_cpu = [i \in Ids |-> NoCpu]
  /\ u_tt = Zero /\ u_cbs = Zero
  /\ cpus = {} /\ todo = {}
  /\ occupied = <<>>
  /\ tt_slots = Empty /\ gaps = Empty
  /\ cbs_allocations = [c \in available_cpus |-> {}]
  /\ result = [status |-> "none", hyperperiod |-> 0]

(* A node that lost its last workload gets an empty table. *)
NoTasks ==
  /\ pc = "start" /\ tasks = <<>>
  /\ result' = Table(DEFAULT_HYPERPERIOD)
  /\ pc' = "done"
  /\ UNCHANGED <<tasks, assigned_cpu, u_tt, u_cbs, cpus, todo, occupied, tt_slots, gaps,
                 cbs_allocations>>

Fail(reason) == /\ result' = Infeasible(reason)
                /\ pc' = "done"

-----------------------------------------------------------------------------
(* Step 2: assign_cpus.  Each workload with TT tasks gets the next CPU; when *)
(* they have run out, the last one is shared.                               *)

Rank(w) == Cardinality({tasks[i].workload : i \in TtIds} \cap 0..w)

TtCpu(w) ==
  LET sorted == SetToSortSeq(available_cpus, <)
  IN  sorted[Min({Rank(w), Len(sorted)})]

OfCpu(c) == {i \in TtIds : TtCpu(tasks[i].workload) = c}

TtLoad(c) == Load(OfCpu(c))

AssignTt ==
  /\ pc = "start" /\ tasks # <<>>
  /\ assigned_cpu' = [i \in Ids |-> IF i \in TtIds THEN TtCpu(tasks[i].workload) ELSE NoCpu]
  /\ u_tt' = [c \in available_cpus |-> TtLoad(c)]
  /\ todo' = CbsIds
  /\ pc' = "cbs"
  /\ UNCHANGED <<tasks, u_cbs, cpus, occupied, tt_slots, gaps, cbs_allocations, result>>

Residual(c) == U_BOUND - u_tt[c] - u_cbs[c] - U_OVERHEAD

(* Mutant of Fits: what other CBS tasks were given is forgotten. *)
FitsAlone(c, i) == U_BOUND - u_tt[c] - U_OVERHEAD >= Utilization(i)

Fits(c, i) == Residual(c) >= Utilization(i)

(* Worst fit: the CPU with the most room, the first of them. *)
BestCpu(i) ==
  LET fitting == {c \in available_cpus : Fits(c, i)}
  IN  IF fitting = {} THEN NoCpu
      ELSE Min({c \in fitting : \A d \in fitting : Residual(c) >= Residual(d)})

AssignCbs(i) ==
  /\ pc = "cbs" /\ i \in todo
  /\ \A j \in todo : Utilization(i) >= Utilization(j)
  /\ IF BestCpu(i) = NoCpu
     THEN Fail("UtilizationExceeded") /\ UNCHANGED <<assigned_cpu, u_cbs, todo>>
     ELSE /\ assigned_cpu' = [assigned_cpu EXCEPT ![i] = BestCpu(i)]
          /\ u_cbs' = [u_cbs EXCEPT ![BestCpu(i)] = @ + Utilization(i)]
          /\ todo' = todo \ {i}
          /\ UNCHANGED <<pc, result>>
  /\ UNCHANGED <<tasks, u_tt, cpus, occupied, tt_slots, gaps, cbs_allocations>>

CpusAssigned ==
  /\ pc = "cbs" /\ todo = {}
  /\ cpus' = available_cpus
  /\ pc' = "place"
  /\ UNCHANGED <<tasks, assigned_cpu, u_tt, u_cbs, todo, occupied, tt_slots, gaps,
                 cbs_allocations, result>>

-----------------------------------------------------------------------------
(* Step 3, CPU by CPU: place_tt_slots. *)

Current == Min(cpus)
CpuTt == On(Current, TtIds)

SkipCpu ==
  /\ pc = "place" /\ cpus # {} /\ CpuTt = {}
  /\ cpus' = cpus \ {Current}
  /\ UNCHANGED <<tasks, pc, assigned_cpu, u_tt, u_cbs, todo, occupied, tt_slots, gaps,
                 cbs_allocations, result>>

RejectPeriods ==
  /\ pc = "place" /\ cpus # {} /\ CpuTt # {}
  /\ \/ ~validate_harmonic(CpuTt) /\ Fail("NonHarmonicPeriod")
     \/ calculate_hyperperiod(CpuTt) = 0 /\ Fail("TtSlotConflict")
  /\ UNCHANGED <<tasks, assigned_cpu, u_tt, u_cbs, cpus, todo, occupied, tt_slots, gaps,
                 cbs_allocations>>

BeginCpu ==
  /\ pc = "place" /\ cpus # {} /\ CpuTt # {}
  /\ validate_harmonic(CpuTt) /\ calculate_hyperperiod(CpuTt) > 0
  /\ todo' = CpuTt
  /\ occupied' = <<>>
  /\ pc' = "frames"
  /\ UNCHANGED <<tasks, assigned_cpu, u_tt, u_cbs, cpus, tt_slots, gaps, cbs_allocations,
                 result>>

Conflicts(occ, candidate, duration) ==
  {n \in 1..Len(occ) : /\ candidate < occ[n].end
                       /\ (candidate + duration) % U32 > occ[n].start}

(* Mutant of find_free_slot: it gives up at the first conflict. *)
find_free_slot_once(occ, start, duration, deadline_end) ==
  IF (start + duration) % U32 <= deadline_end /\ Conflicts(occ, start, duration) = {}
  THEN start ELSE -1

find_free_slot(occ, start, duration, deadline_end) ==
  LET from[candidate \in 0..(U32 - 1)] ==
        LET hits == Conflicts(occ, candidate, duration)
        IN  IF (candidate + duration) % U32 > deadline_end THEN -1
            ELSE IF hits = {} THEN candidate ELSE from[occ[Min(hits)].end]
  IN  from[start]

(* Mutant of FrameEnd: every frame may last until the next one begins. *)
FrameEndOfPeriod(i, start, hp) == Min({(start + tasks[i].period) % U32, hp})

FrameEnd(i, start, hp) == Min({(start + tasks[i].deadline) % U32, hp})

(* The slots of one task, frame by frame, after those in occ. *)
Frames(i, occ, hp) ==
  LET t == tasks[i]
      upto[k \in 0..(hp \div t.period)] ==
        IF k = 0 THEN [ok |-> TRUE, occ |-> occ]
        ELSE LET before == upto[k - 1]
                 start == ((k - 1) * t.period) % U32
                 offset == find_free_slot(before.occ, start, t.wcet, FrameEnd(i, start, hp))
             IN  IF ~before.ok \/ offset < 0 THEN [ok |-> FALSE, occ |-> occ]
                 ELSE [ok |-> TRUE,
                       occ |-> Append(before.occ, [start |-> offset, end |-> (offset + t.wcet) % U32,
                                                   task |-> i])]
  IN  upto[hp \div t.period]

(* Deadline-monotonic order; a task without a period is passed over. *)
PlaceTask(i) ==
  /\ pc = "frames" /\ i \in todo
  /\ \A j \in todo : tasks[i].deadline <= tasks[j].deadline
  /\ IF tasks[i].period = 0
     THEN todo' = todo \ {i} /\ UNCHANGED <<occupied, pc, result>>
     ELSE \E frames \in {Frames(i, occupied, calculate_hyperperiod(CpuTt))} :
            IF frames.ok
            THEN todo' = todo \ {i} /\ occupied' = frames.occ /\ UNCHANGED <<pc, result>>
            ELSE Fail("TtSlotConflict") /\ UNCHANGED <<todo, occupied>>
  /\ UNCHANGED <<tasks, assigned_cpu, u_tt, u_cbs, cpus, tt_slots, gaps, cbs_allocations>>

ByOffset(occ) == SortSeq(occ, LAMBDA a, b : a.start < b.start)

CpuPlaced ==
  /\ pc = "frames" /\ todo = {}
  /\ tt_slots' = [tt_slots EXCEPT ![Current] = ByOffset(occupied)]
  /\ cpus' = cpus \ {Current}
  /\ pc' = "place"
  /\ UNCHANGED <<tasks, assigned_cpu, u_tt, u_cbs, todo, occupied, gaps, cbs_allocations,
                 result>>

AllPlaced ==
  /\ pc = "place" /\ cpus = {}
  /\ cpus' = available_cpus
  /\ pc' = "allocate"
  /\ UNCHANGED <<tasks, assigned_cpu, u_tt, u_cbs, todo, occupied, tt_slots, gaps,
                 cbs_allocations, result>>

-----------------------------------------------------------------------------
(* Step 4, CPU by CPU: compute_gaps and allocate_cbs_budgets. *)

(* Mutant of global_hp: the longest period, as if all CPUs were harmonic. *)
longest_period ==
  LET periods == {tasks[i].period : i \in TtIds}
  IN  IF periods = {} THEN 0 ELSE Max(periods)

global_hp == calculate_hyperperiod(TtIds)

(* Mutant of compute_gaps: what follows the last slot is no gap. *)
compute_gaps_inner(slots, hp) ==
  LET step(acc, slot) ==
        [gaps |-> IF acc.cursor < slot.start
                  THEN Append(acc.gaps, [start |-> acc.cursor, end |-> slot.start])
                  ELSE acc.gaps,
         cursor |-> Max({acc.cursor, slot.end})]
  IN  FoldLeft(step, [gaps |-> <<>>, cursor |-> 0], slots).gaps

compute_gaps(slots, hp) ==
  LET step(acc, slot) ==
        [gaps |-> IF acc.cursor < slot.start
                  THEN Append(acc.gaps, [start |-> acc.cursor, end |-> slot.start])
                  ELSE acc.gaps,
         cursor |-> Max({acc.cursor, slot.end})]
      scan == FoldLeft(step, [gaps |-> <<>>, cursor |-> 0], slots)
  IN  IF scan.cursor < hp % U32
      THEN Append(scan.gaps, [start |-> scan.cursor, end |-> hp % U32]) ELSE scan.gaps

(* The budgets are granted in order of utilization until one does not fit;  *)
(* all of them fit exactly when their sum does.                             *)
Allocate ==
  LET c == Current
      cpu_cbs == On(c, CbsIds)
      u_avail == U_BOUND - u_tt[c] - U_OVERHEAD
  IN  /\ pc = "allocate" /\ cpus # {}
      /\ gaps' = [gaps EXCEPT ![c] = compute_gaps(tt_slots[c],
                    IF global_hp = 0 THEN DEFAULT_HYPERPERIOD ELSE global_hp)]
      /\ IF cpu_cbs = {} \/ (u_avail > 0 /\ Load(cpu_cbs) <= u_avail)
         THEN /\ cbs_allocations' = [cbs_allocations EXCEPT ![c] = cpu_cbs]
              /\ u_cbs' = [u_cbs EXCEPT ![c] = Load(cpu_cbs)]
              /\ cpus' = cpus \ {c}
              /\ UNCHANGED <<pc, result>>
         ELSE /\ Fail(IF u_avail <= 0 THEN "NoCbsBandwidth" ELSE "SafetyCbsExceeded")
              /\ UNCHANGED <<cpus, u_cbs, cbs_allocations>>
      /\ UNCHANGED <<tasks, assigned_cpu, u_tt, todo, occupied, tt_slots>>

(* Step 5: build_table *)
BuildTable ==
  /\ pc = "allocate" /\ cpus = {}
  /\ result' = Table(global_hp)
  /\ pc' = "done"
  /\ UNCHANGED <<tasks, assigned_cpu, u_tt, u_cbs, cpus, todo, occupied, tt_slots, gaps,
                 cbs_allocations>>

Next ==
  \/ NoTasks \/ AssignTt \/ CpusAssigned
  \/ \E i \in Ids : AssignCbs(i) \/ PlaceTask(i)
  \/ SkipCpu \/ RejectPeriods \/ BeginCpu \/ CpuPlaced \/ AllPlaced
  \/ Allocate \/ BuildTable

Spec == Init /\ [][Next]_vars

-----------------------------------------------------------------------------
(* Properties. *)

(* find_free_slot, against its specification: for every frame on the CPU    *)
(* being filled it returns the earliest position at which the slot fits     *)
(* before the deadline and touches no placed interval, or -1 if there is    *)
(* none.                                                                    *)
FindsEarliest ==
  pc = "frames" =>
    \A i \in todo : \A start, end \in 0..calculate_hyperperiod(CpuTt) :
      LET C == tasks[i].wcet
          free == {x \in start..(end - C) :
                     \A n \in 1..Len(occupied) : x >= occupied[n].end \/ x + C <= occupied[n].start}
      IN  tasks[i].wcet > 0 =>
            find_free_slot(occupied, start, C, end) = IF free = {} THEN -1 ELSE Min(free)

Placed(c) == On(c, TtIds) # {} /\ tt_slots[c] # <<>>
SlotsOf(c, i) == {n \in 1..Len(tt_slots[c]) : tt_slots[c][n].task = i}

(* place_tt_slots: no two TT slots of a CPU overlap, and every TT task with *)
(* a period has, in every period of its CPU's hyperperiod, one slot of its  *)
(* WCET that lies between the release and the deadline.                     *)
FramesServed ==
  \A c \in available_cpus : Placed(c) =>
    LET hp == calculate_hyperperiod(On(c, TtIds))
        S == tt_slots[c]
    IN  /\ \A m, n \in 1..Len(S) : m < n => S[m].end <= S[n].start
        /\ \A i \in On(c, TtIds) : tasks[i].period > 0 =>
             /\ Cardinality(SlotsOf(c, i)) = hp \div tasks[i].period
             /\ \A k \in 0..(hp \div tasks[i].period - 1) :
                  \E n \in SlotsOf(c, i) :
                    /\ S[n].start >= k * tasks[i].period
                    /\ S[n].end <= k * tasks[i].period + tasks[i].deadline
                    /\ S[n].end - S[n].start = tasks[i].wcet

(* compute_gaps: in the table of a node, every instant of the hyperperiod   *)
(* belongs to a TT slot of the CPU or to one gap, and never to both (for    *)
(* hyperperiods that a uint32_t can hold).                                  *)
GapsAreTheRest ==
  result.status = "table" /\ tasks # <<>> /\ global_hp < U32 =>
    \A c \in available_cpus :
      LET hp == IF global_hp = 0 THEN DEFAULT_HYPERPERIOD ELSE global_hp
          In(x, I) == {n \in 1..Len(I) : x >= I[n].start /\ x < I[n].end}
      IN  \A x \in 0..(hp - 1) :
            Cardinality(In(x, tt_slots[c])) + Cardinality(In(x, gaps[c])) = 1

(* assign_cpus and allocate_cbs_budgets: in a table every CBS task has a    *)
(* budget on one CPU, and on each CPU that serves any, TT slots, budgets    *)
(* and overhead stay within U_BOUND.  The allocation finds room for what    *)
(* the assignment admitted: NoCbsBandwidth and SafetyCbsExceeded cannot     *)
(* come up for tasks that use any time.                                     *)
AdmissionIsSound ==
  /\ result.status = "table" =>
       /\ \A i \in CbsIds : Cardinality({c \in available_cpus : i \in cbs_allocations[c]}) = 1
       /\ \A c \in available_cpus : Load(cbs_allocations[c]) > 0 =>
            Load(On(c, TtIds)) + Load(cbs_allocations[c]) + U_OVERHEAD <= U_BOUND
  /\ (\A i \in CbsIds : Utilization(i) > 0) =>
       result.status \notin {"NoCbsBandwidth", "SafetyCbsExceeded"}

(* calculate_hyperperiod: a table's hyperperiod is the least time that is a *)
(* whole number of periods of each TT task, and with harmonic periods it is *)
(* the longest of them (DDR-007, 3.4), unless a uint32_t cannot hold it.    *)
HyperperiodIsLeast ==
  LET periods == {tasks[i].period : i \in TtIds} \ {0}
  IN  result.status = "table" /\ periods # {} /\ global_hp < U32 =>
        /\ \A p \in periods : result.hyperperiod % p = 0
        /\ \A n \in 1..(result.hyperperiod - 1) : \E p \in periods : n % p # 0
        /\ validate_harmonic(TtIds) => result.hyperperiod = Max(periods)

(* DDR-007, 3.4: a TT task has one slot for each of its periods in the      *)
(* hyperperiod, "at the start of each period", so that the node, which      *)
(* repeats the table every hyperperiod, releases it in every period.        *)
EveryPeriodServed ==
  result.status = "table" =>
    \A i \in TtIds : tasks[i].period > 0 =>
      Cardinality(SlotsOf(assigned_cpu[i], i)) = result.hyperperiod \div tasks[i].period
=============================================================================
