---------------------------- MODULE NodeExecutor ----------------------------
(***************************************************************************)
(* How a Timpani node carries out what it receives (timpani-n/main.cpp):   *)
(* the table callback evicts what the new table no longer names, deletes   *)
(* the old slots and CBS states, installs the entries one by one and       *)
(* answers; the recovery callback evicts one workload.  Both run on the    *)
(* stream's thread, so one follows the other, while the processes of the   *)
(* tasks start and exit at any moment and a BPF map update may fail.       *)
(*                                                                         *)
(* The BPF maps are sets of entries: task_meta_map by pid, tt_table_map by *)
(* <<cpu, slot_idx>>, cbs_map by the task whose hashes make the key.  The  *)
(* workload_to_... maps are the daemon's memory of what it installed.      *)
(* sched_ext holds the processes that sched_setattr has put under          *)
(* SCHED_EXT; when the call fails nobody takes notice.                     *)
(* FaultMonitor's counters and limits, which the callback also resets, are *)
(* in FaultReport, and what set_schedule_table and remove_workload do to   *)
(* the threads is in TimerMaster.                                          *)
(***************************************************************************)
EXTENDS Integers, Sequences

CONSTANTS
  TtTasks, CbsTasks,    \* task ids by scheduling type
  Workload,             \* the workload of a task
  Cpus,
  Tables,               \* the tables the node may receive: sequences of
                        \* [task, cpu] in the order the callback visits them
  MaxPids, MaxTables,   \* bounds on processes started and tables received
  NoPid

Tasks == TtTasks \cup CbsTasks
Workloads == {Workload[t] : t \in Tasks}
Pids == 1..MaxPids

ASSUME ExecutorAssumption ==
  /\ TtTasks \cap CbsTasks = {}
  /\ Tables \subseteq Seq([task : Tasks, cpu : Cpus])
  /\ MaxPids \in Nat /\ MaxTables \in Nat /\ NoPid \notin Pids

VARIABLES
  proc,                  \* the live process of each task
  started, received,     \* processes started and tables received so far
  task_meta, tt_table, cbs_map,         \* BPF maps
  sched_ext,             \* processes under SCHED_EXT
  slot_table,            \* the tasks that have slots in the Timer Master
  workload_to_pids, workload_to_slots, workload_to_cbs_keys,
  workload_to_hash, workload_hash_to_id,
  table,                 \* the table being applied, or the last applied one
  next,                  \* index of the entry to install, 0 when idle
  slot_idx,
  apply_success,         \* of the table being applied, then what was answered
  clean,                 \* history: no table was answered with an error so far
  stopped,               \* history: workloads stopped since the last table
  refused                \* history: processes for which sched_setattr failed

bpf == <<task_meta, tt_table, cbs_map>>
maps == <<workload_to_pids, workload_to_slots, workload_to_cbs_keys,
          workload_to_hash, workload_hash_to_id>>
policy == <<sched_ext, refused>>
vars == <<proc, started, received, bpf, policy, slot_table, maps, table, next,
          slot_idx, apply_success, clean, stopped>>

Nothing == [w \in Workloads |-> {}]
Named(tbl) == {Workload[tbl[i].task] : i \in 1..Len(tbl)}
Slots(tbl) == {tbl[i].task : i \in 1..Len(tbl)} \cap TtTasks
Union(f) == UNION {f[w] : w \in Workloads}

(* find_pid_by_comm *)
Found(t) == proc[t] # NoPid

Init ==
  /\ proc = [t \in Tasks |-> NoPid]
  /\ started = 0 /\ received = 0
  /\ task_meta = {} /\ tt_table = {} /\ cbs_map = {}
  /\ slot_table = {}
  /\ workload_to_pids = Nothing /\ workload_to_slots = Nothing
  /\ workload_to_cbs_keys = Nothing
  /\ workload_to_hash = {} /\ workload_hash_to_id = {}
  /\ table = <<>> /\ next = 0 /\ slot_idx = 0
  /\ apply_success = TRUE
  /\ clean = TRUE /\ stopped = {}
  /\ sched_ext = {} /\ refused = {}

(* External: processes come and go; pids are not used twice. *)
Start(t) ==
  /\ ~Found(t) /\ started < MaxPids
  /\ started' = started + 1
  /\ proc' = [proc EXCEPT ![t] = started + 1]
  /\ UNCHANGED <<received, bpf, policy, slot_table, maps, table, next, slot_idx,
                 apply_success, clean, stopped>>

Exit(t) ==
  /\ Found(t)
  /\ proc' = [proc EXCEPT ![t] = NoPid]
  /\ UNCHANGED <<started, received, bpf, policy, slot_table, maps, table, next,
                 slot_idx, apply_success, clean, stopped>>

(* The table callback up to the first entry: workloads the table does not   *)
(* name lose their pids' entries and their slots in the Timer Master, and   *)
(* every slot and CBS state the daemon remembers is deleted.                *)
ReceiveTable(tbl) ==
  LET gone == Workloads \ Named(tbl)
      evicted == UNION {workload_to_pids[w] : w \in gone}
      timed == {w \in gone \cap workload_to_hash : workload_to_pids[w] # {}}
  IN  /\ next = 0 /\ received < MaxTables
      /\ received' = received + 1
      /\ task_meta' = {m \in task_meta : m.pid \notin evicted}
      /\ slot_table' = {t \in slot_table : Workload[t] \notin timed}
      /\ tt_table' = {s \in tt_table : s.key \notin Union(workload_to_slots)}
      /\ cbs_map' = cbs_map \ Union(workload_to_cbs_keys)
      /\ workload_to_pids' = Nothing /\ workload_to_slots' = Nothing
      /\ workload_to_cbs_keys' = Nothing
      /\ workload_to_hash' = {} /\ workload_hash_to_id' = {}
      /\ table' = tbl /\ next' = 1 /\ slot_idx' = 0
      /\ apply_success' = TRUE
      /\ stopped' = {}
      /\ UNCHANGED <<proc, started, clean, policy>>

Entry == table[next]
Applying == next \in 1..Len(table)
WithMeta(m) == {n \in task_meta : n.pid # m.pid} \cup {m}
WithSlot(s) == {r \in tt_table : r.key # s.key} \cup {s}

Track(w) ==
  /\ workload_to_hash' = workload_to_hash \cup {w}
  /\ workload_hash_to_id' = workload_hash_to_id \cup {w}
  /\ workload_to_pids' = [workload_to_pids EXCEPT ![w] = @ \cup {proc[Entry.task]}]

(* apply_sched_ext, called once the meta data is there; its result is only  *)
(* logged.                                                                  *)
apply_sched_ext(pid, called, ok) ==
  /\ sched_ext' = IF called /\ ok THEN sched_ext \cup {pid} ELSE sched_ext
  /\ refused' = IF called /\ ~ok THEN refused \cup {pid} ELSE refused

(* One TT slot: without a process the slot is installed all the same, but   *)
(* nothing is remembered of it.                                             *)
InstallSlot(slot_ok) ==
  LET key == <<Entry.cpu, slot_idx>>
  IN  tt_table' = IF slot_ok THEN WithSlot([key |-> key, task |-> Entry.task])
                  ELSE tt_table

ApplyTtFound(meta_ok, ext_ok, slot_ok) ==
  LET t == Entry.task
      w == Workload[t]
  IN  /\ Found(t)
      /\ task_meta' = IF meta_ok THEN WithMeta([pid |-> proc[t], task |-> t])
                      ELSE task_meta
      /\ apply_sched_ext(proc[t], meta_ok, ext_ok)
      /\ InstallSlot(slot_ok)
      /\ apply_success' = (apply_success /\ meta_ok /\ slot_ok)
      /\ Track(w)
      /\ workload_to_slots' =
           [workload_to_slots EXCEPT ![w] = @ \cup {<<Entry.cpu, slot_idx>>}]

(* Mutant of ApplyTtMissing: a task without a process is no failure. *)
ApplyTtMissingQuiet(slot_ok) ==
  /\ ~Found(Entry.task)
  /\ InstallSlot(slot_ok)
  /\ apply_success' = (apply_success /\ slot_ok)
  /\ UNCHANGED <<task_meta, policy, workload_to_pids, workload_to_slots,
                 workload_to_hash, workload_hash_to_id>>

ApplyTtMissing(slot_ok) ==
  /\ ~Found(Entry.task)
  /\ InstallSlot(slot_ok)
  /\ apply_success' = FALSE
  /\ UNCHANGED <<task_meta, policy, workload_to_pids, workload_to_slots,
                 workload_to_hash, workload_hash_to_id>>

ApplyTt ==
  /\ Applying /\ Entry.task \in TtTasks
  /\ \E meta_ok, ext_ok, slot_ok \in BOOLEAN :
       ApplyTtFound(meta_ok, ext_ok, slot_ok) \/ ApplyTtMissing(slot_ok)
  /\ slot_idx' = slot_idx + 1
  /\ next' = next + 1
  /\ UNCHANGED <<proc, started, received, cbs_map, slot_table, workload_to_cbs_keys,
                 table, clean, stopped>>

(* One CBS entry: each failure ends its part of the work ("continue"). *)
ApplyCbsFound(meta_ok, ext_ok, cbs_ok) ==
  LET t == Entry.task
      w == Workload[t]
  IN  /\ Found(t)
      /\ task_meta' = IF meta_ok THEN WithMeta([pid |-> proc[t], task |-> t])
                      ELSE task_meta
      /\ apply_sched_ext(proc[t], meta_ok, ext_ok)
      /\ cbs_map' = IF meta_ok /\ cbs_ok THEN cbs_map \cup {t} ELSE cbs_map
      /\ apply_success' = (apply_success /\ meta_ok /\ cbs_ok)
      /\ IF meta_ok /\ cbs_ok
         THEN /\ Track(w)
              /\ workload_to_cbs_keys' = [workload_to_cbs_keys EXCEPT ![w] = @ \cup {t}]
         ELSE UNCHANGED <<workload_to_pids, workload_to_cbs_keys, workload_to_hash,
                          workload_hash_to_id>>

ApplyCbsMissing ==
  /\ ~Found(Entry.task)
  /\ apply_success' = FALSE
  /\ UNCHANGED <<task_meta, policy, cbs_map, workload_to_pids,
                 workload_to_cbs_keys, workload_to_hash, workload_hash_to_id>>

ApplyCbs ==
  /\ Applying /\ Entry.task \in CbsTasks
  /\ \/ \E meta_ok, ext_ok, cbs_ok \in BOOLEAN : ApplyCbsFound(meta_ok, ext_ok, cbs_ok)
     \/ ApplyCbsMissing
  /\ next' = next + 1
  /\ UNCHANGED <<proc, started, received, tt_table, slot_table, workload_to_slots,
                 table, slot_idx, clean, stopped>>

(* Mutant of Finish: the Timer Master keeps the slots it had. *)
FinishMerges ==
  /\ next = Len(table) + 1
  /\ slot_table' = slot_table \cup Slots(table)
  /\ next' = 0
  /\ clean' = (clean /\ apply_success)
  /\ UNCHANGED <<proc, started, received, bpf, policy, maps, table, slot_idx,
                 apply_success, stopped>>

(* set_schedule_table with every TT slot of the table, then the answer. *)
Finish ==
  /\ next = Len(table) + 1
  /\ slot_table' = Slots(table)
  /\ next' = 0
  /\ clean' = (clean /\ apply_success)
  /\ UNCHANGED <<proc, started, received, bpf, policy, maps, table, slot_idx,
                 apply_success, stopped>>

(* Mutant of Resolved: hashes are not looked up. *)
ResolvedByName(w, by_hash) == ~by_hash

(* Is a workload that comes by its hash known? *)
Resolved(w, by_hash) == by_hash => w \in workload_hash_to_id

(* The recovery callback for ACTION_STOP; the workload comes by its name or *)
(* by its hash, which is looked up among the names of the table's workloads. *)
Stop(w, by_hash) ==
  LET S == IF Resolved(w, by_hash) THEN {w} ELSE {}
      Drop(f) == [v \in Workloads |-> IF v \in S THEN {} ELSE f[v]]
  IN  /\ next = 0
      /\ task_meta' = {m \in task_meta : \A v \in S : m.pid \notin workload_to_pids[v]}
      /\ tt_table' = {s \in tt_table : \A v \in S : s.key \notin workload_to_slots[v]}
      /\ slot_table' = {t \in slot_table : Workload[t] \notin S \cap workload_to_hash}
      /\ cbs_map' = {t \in cbs_map : \A v \in S : t \notin workload_to_cbs_keys[v]}
      /\ workload_to_pids' = Drop(workload_to_pids)
      /\ workload_to_slots' = Drop(workload_to_slots)
      /\ workload_to_cbs_keys' = Drop(workload_to_cbs_keys)
      /\ workload_to_hash' = workload_to_hash \ S
      /\ stopped' = stopped \cup {w}
      /\ UNCHANGED <<proc, started, received, policy, workload_hash_to_id, table,
                     next, slot_idx, apply_success, clean>>

Next ==
  \/ \E t \in Tasks : Start(t) \/ Exit(t)
  \/ \E tbl \in Tables : ReceiveTable(tbl)
  \/ ApplyTt \/ ApplyCbs \/ Finish
  \/ \E w \in Workloads, by_hash \in BOOLEAN : Stop(w, by_hash)

Spec == Init /\ [][Next]_vars

-----------------------------------------------------------------------------
(* Properties. *)

(* Every map holds entries of its kind. *)
TypeOK ==
  /\ proc \in [Tasks -> Pids \cup {NoPid}]
  /\ started \in 0..MaxPids /\ received \in 0..MaxTables
  /\ task_meta \subseteq [pid : Pids, task : Tasks]
  /\ tt_table \subseteq [key : Cpus \X Nat, task : TtTasks]
  /\ cbs_map \subseteq CbsTasks /\ slot_table \subseteq TtTasks
  /\ workload_to_pids \in [Workloads -> SUBSET Pids]
  /\ workload_to_slots \in [Workloads -> SUBSET (Cpus \X Nat)]
  /\ workload_to_cbs_keys \in [Workloads -> SUBSET CbsTasks]
  /\ workload_to_hash \subseteq workload_hash_to_id
  /\ table \in Seq([task : Tasks, cpu : Cpus])
  /\ next \in 0..(Len(table) + 1) /\ slot_idx \in Nat
  /\ apply_success \in BOOLEAN /\ clean \in BOOLEAN /\ stopped \subseteq Workloads
  /\ sched_ext \subseteq Pids /\ refused \subseteq Pids

Live == {i \in 1..Len(table) : Workload[table[i].task] \notin stopped}

(* send_table_applied: success means that every entry of the table was      *)
(* written to the BPF maps and to the Timer Master, for a process that      *)
(* existed when it was, and that the daemon remembers it; STOPs of other    *)
(* workloads leave it in place.  It does not mean that the process is under *)
(* SCHED_EXT: a failure of apply_sched_ext is answered with success, so     *)
(* that all that can be said is that the call was made.                     *)
SuccessIsComplete ==
  next = 0 /\ apply_success =>
    \A i \in Live : LET t == table[i].task
                        w == Workload[t]
                    IN  /\ \E m \in task_meta : /\ m.task = t /\ m.pid \in workload_to_pids[w]
                                                /\ m.pid \in sched_ext \cup refused
                        /\ w \in workload_to_hash
                        /\ t \in TtTasks =>
                             /\ t \in slot_table
                             /\ \E s \in tt_table : s.task = t /\ s.key \in workload_to_slots[w]
                        /\ t \in CbsTasks => t \in cbs_map \cap workload_to_cbs_keys[w]

(* The table and recovery callbacks: as long as every table could be        *)
(* applied completely, nothing of an earlier table or of a stopped workload *)
(* is left in tt_table_map, in cbs_map or in the Timer Master.              *)
OnlyCurrentTable ==
  next = 0 /\ clean =>
    LET current == {table[i].task : i \in Live}
    IN  /\ {s.task : s \in tt_table} \subseteq current
        /\ cbs_map \subseteq current
        /\ slot_table \subseteq current

(* The recovery callback: after a STOP, under whichever name or hash it     *)
(* comes and whatever has failed or restarted before, a live process of a   *)
(* task that the current table names has meta data only if the task is a    *)
(* CBS task and the table was answered with an error.  Processes of tasks   *)
(* that an update dropped from a workload that stays are not covered: the   *)
(* table callback forgets their pids without deleting their entries, and no *)
(* STOP reaches them.                                                       *)
StopEvicts ==
  next = 0 =>
    \A m \in task_meta :
      /\ Workload[m.task] \in stopped
      /\ \E i \in 1..Len(table) : table[i].task = m.task
      /\ proc[m.task] = m.pid
      => m.task \in CbsTasks /\ ~apply_success
=============================================================================
